------------------------------ MODULE HttpServing ------------------------------
(***************************************************************************)
(* tornado.http1connection and httpserver on the server's side: one stream *)
(* of the server, the loop of HTTP1ServerConnection that makes an          *)
(* HTTP1Connection for each request on it, the delegate of the request,    *)
(* and the application, which writes its response whenever it likes,       *)
(* before the body has come in too.                                        *)
(*                                                                         *)
(* The stream is as IOStreams promises: a closed one fails its reads and   *)
(* writes first and then calls its close callback.                         *)
(***************************************************************************)
EXTENDS Integers, Sequences

CONSTANTS
  MaxRequests,   \* bound of the requests on the stream
  MaxBody        \* chunks in a body

VARIABLES
  phase,         \* where the loop is; the delegate is called in "received",
                 \* "chunk" and "finish"
  req,           \* number of the request
  stream,        \* "open", "closed" or "detached"
  left,          \* chunks of the body that are to come
  delegate,      \* "none", "open", "finished", "closed": what it was told last
  told,          \* how often it was told of its end
  readDone,      \* _read_finished
  writeDone,     \* _write_finished
  disconnect,    \* _disconnect_on_finish
  finished,      \* _finish_future is done
  write,         \* _pending_write: "none", "pending", "done", "failed"
  hooked,        \* the stream's close callback is _on_connection_close
  events,        \* what the loop will call: "write", "close"
  served         \* requests in _connections' serving loop, and what they came to

vars == <<phase, req, stream, left, delegate, told, readDone, writeDone, disconnect,
          finished, write, hooked, events, served>>

Fresh ==
  /\ left = 0 /\ delegate = "none" /\ told = 0
  /\ readDone = FALSE /\ writeDone = FALSE /\ disconnect = FALSE
  /\ finished = FALSE /\ write = "none" /\ hooked = FALSE

Init ==
  /\ phase = "headers" /\ req = 1 /\ stream = "open" /\ Fresh
  /\ events = <<>> /\ served = TRUE

-----------------------------------------------------------------------------
(* The loop's coroutine *)

(* The stream is closed: a write that is pending fails, and the close      *)
(* callback, if it has one, is queued behind it.                           *)
CloseStream(callback) ==
  /\ stream' = IF stream = "open" THEN "closed" ELSE stream
  /\ write' = IF write = "pending" THEN "failed" ELSE write
  /\ events' = IF stream # "open" THEN events
               ELSE events \o (IF write = "pending" THEN <<"write">> ELSE <<>>)
                           \o (IF callback THEN <<"close">> ELSE <<>>)

Closing == CloseStream(hooked)

StreamStays == UNCHANGED <<stream, write, events>>

(* HTTP1Connection.close: also nobody waits for the response any more. *)
CloseConnection == Closing /\ finished' = TRUE /\ hooked' = FALSE

TellClosed == delegate' = "closed" /\ told' = told + 1

(* The finally clause: a delegate that has headers and not yet its finish. *)
TellIfOpen ==
  IF delegate = "open" THEN TellClosed ELSE UNCHANGED <<delegate, told>>

(* The loop returns: on_close takes the connection from the server's. *)
EndServing == phase' = "ended" /\ served' = FALSE

(* Headers came; headers_received is called.  A body is chunks, or none.   *)
HeadersReceived ==
  /\ phase = "headers" /\ stream = "open"
  /\ disconnect' \in BOOLEAN
  /\ left' \in 0..MaxBody
  /\ delegate' = "open" /\ phase' = "received"
  /\ UNCHANGED <<req, told, readDone, finished, hooked, served, writeDone>>
  /\ StreamStays

(* They did not come: the peer closed, or sent too much. *)
NoHeaders ==
  /\ phase = "headers"
  /\ EndServing
  /\ Closing
  /\ hooked' = FALSE
  /\ UNCHANGED <<req, left, delegate, told, readDone, writeDone, disconnect, finished>>

(* header_timeout: closed by this side. *)
HeaderTimeout ==
  /\ phase = "headers" /\ stream = "open"
  /\ EndServing
  /\ CloseConnection
  /\ UNCHANGED <<req, left, delegate, told, readDone, writeDone, disconnect>>

(* HTTPInputError, of the headers or the body: 400 is written. *)
Malformed ==
  /\ phase \in {"headers", "body"} /\ stream = "open"
  /\ phase' = "bad"
  /\ UNCHANGED <<req, left, delegate, told, readDone, writeDone, disconnect, finished,
                 hooked, served>>
  /\ StreamStays

(* It was written, or could not be. *)
BadWritten ==
  /\ phase = "bad"
  /\ EndServing
  /\ TellIfOpen
  /\ IF stream = "open" THEN CloseConnection
     ELSE StreamStays /\ hooked' = FALSE /\ UNCHANGED finished
  /\ UNCHANGED <<req, left, readDone, writeDone, disconnect>>

(* Fault for the mutants: the next request is read at once. *)
AwaitNobody ==
  /\ phase' = "between"
  /\ hooked' = FALSE

(* Wait for the response, with an ear to the peer's close. *)
AwaitResponse ==
  IF finished \/ stream # "open"
  THEN phase' = "between" /\ hooked' = FALSE
  ELSE phase' = "respond" /\ hooked' = TRUE

(* The body is read: finish() is called, unless the response is complete   *)
(* already; a delegate that it is not called for is told of a close.       *)
BodyRead ==
  /\ readDone' = TRUE
  /\ IF ~writeDone
     THEN /\ phase' = "finish" /\ delegate' = "finished" /\ told' = told + 1
          /\ UNCHANGED hooked
     ELSE /\ AwaitResponse
          /\ IF phase' = "between" THEN TellClosed ELSE UNCHANGED <<delegate, told>>

(* The delegate is through with the headers. *)
ReceivedReturns ==
  /\ phase = "received"
  /\ IF stream = "detached"
     THEN EndServing /\ UNCHANGED <<delegate, told, readDone, hooked>>
     ELSE /\ UNCHANGED served
          /\ IF left > 0 THEN phase' = "body" /\ UNCHANGED <<delegate, told, readDone, hooked>>
                         ELSE BodyRead
  /\ UNCHANGED <<req, left, writeDone, disconnect, finished>>
  /\ StreamStays

(* Chunks of a request that was answered already are dropped. *)
ReadChunk ==
  /\ phase = "body" /\ left > 0 /\ stream = "open"
  /\ left' = left - 1
  /\ IF ~writeDone THEN phase' = "chunk" /\ UNCHANGED <<delegate, told, readDone, hooked>>
     ELSE IF left' > 0 THEN UNCHANGED <<phase, delegate, told, readDone, hooked>>
     ELSE BodyRead
  /\ UNCHANGED <<req, writeDone, disconnect, finished, served>>
  /\ StreamStays

(* It is through with a chunk. *)
ChunkReturns ==
  /\ phase = "chunk"
  /\ IF left > 0 THEN phase' = "body" /\ UNCHANGED <<delegate, told, readDone, hooked>>
                 ELSE BodyRead
  /\ UNCHANGED <<req, left, writeDone, disconnect, finished, served>>
  /\ StreamStays

(* finish() returns at once, with a response or without. *)
FinishReturns ==
  /\ phase = "finish"
  /\ AwaitResponse
  /\ UNCHANGED <<req, left, delegate, told, readDone, writeDone, disconnect, finished, served>>
  /\ StreamStays

(* The delegate raises: logged, told of the close, connection closed. *)
DelegateRaises ==
  /\ phase \in {"received", "chunk", "finish"}
  /\ EndServing
  /\ TellIfOpen
  /\ CloseConnection
  /\ UNCHANGED <<req, left, readDone, writeDone, disconnect>>

(* The peer closes while its body is read. *)
BodyLost ==
  /\ phase = "body" /\ stream = "closed"
  /\ EndServing
  /\ TellIfOpen
  /\ hooked' = FALSE
  /\ UNCHANGED <<req, left, readDone, writeDone, disconnect, finished>>
  /\ StreamStays

BodyTimeout ==
  /\ phase \in {"body", "chunk"} /\ stream = "open"
  /\ EndServing
  /\ TellIfOpen
  /\ Closing
  /\ hooked' = FALSE
  /\ UNCHANGED <<req, left, readDone, writeDone, disconnect, finished>>

(* The response is complete, or the peer has gone. *)
Responded ==
  /\ phase = "respond" /\ finished
  /\ phase' = "between"
  /\ hooked' = FALSE
  /\ TellIfOpen
  /\ UNCHANGED <<req, left, readDone, writeDone, disconnect, finished, served>>
  /\ StreamStays

(* The next turn of _server_request_loop.  What the stream has yet to call  *)
(* is for the connection of the request before.                            *)
NextRequest ==
  /\ phase = "between" /\ req < MaxRequests
  /\ req' = req + 1 /\ phase' = "headers"
  /\ left' = 0 /\ delegate' = "none" /\ told' = 0
  /\ readDone' = FALSE /\ writeDone' = FALSE /\ disconnect' = FALSE
  /\ finished' = FALSE /\ write' = "none" /\ hooked' = FALSE
  /\ events' = <<>>
  /\ UNCHANGED <<stream, served>>

-----------------------------------------------------------------------------
(* The application *)

CanRespond == delegate \in {"open", "finished"} /\ ~writeDone /\ stream # "detached"

(* detach(), in headers_received only. *)
Detach ==
  /\ phase = "received" /\ stream = "open" /\ write = "none"
  /\ stream' = "detached" /\ finished' = TRUE /\ hooked' = FALSE
  /\ UNCHANGED <<phase, req, left, delegate, told, readDone, writeDone, disconnect, write,
                 events, served>>

(* write_headers and write *)
Write ==
  /\ CanRespond /\ stream = "open"
  /\ write' = "pending"
  /\ UNCHANGED <<phase, req, stream, left, delegate, told, readDone, writeDone, disconnect,
                 finished, hooked, events, served>>

(* _finish_request: the stream is closed, or left to the next request. *)
FinishRequest(close) ==
  /\ finished' = TRUE /\ hooked' = FALSE
  /\ IF close THEN CloseStream(FALSE) ELSE StreamStays

(* finish(): when all is written, and the connection ends with it if there *)
(* is more of the request to come.                                         *)
Finish ==
  /\ CanRespond
  /\ writeDone' = TRUE
  /\ disconnect' = (disconnect \/ ~readDone)
  /\ IF write = "pending" THEN StreamStays /\ UNCHANGED <<finished, hooked>>
                          ELSE FinishRequest(disconnect')
  /\ UNCHANGED <<phase, req, left, delegate, told, readDone, served>>

(* Less or more than Content-Length: the stream is closed, and it raises. *)
WrongLength ==
  /\ CanRespond /\ stream = "open"
  /\ Closing
  /\ UNCHANGED <<phase, req, left, delegate, told, readDone, writeDone, disconnect, finished,
                 hooked, served>>

-----------------------------------------------------------------------------
(* The stream and the loop *)

LoopFree == phase # "finish"

Flushed ==
  /\ write = "pending" /\ stream = "open" /\ LoopFree
  /\ IF writeDone /\ disconnect
     THEN /\ finished' = TRUE /\ hooked' = FALSE
          /\ stream' = "closed" /\ write' = "done" /\ UNCHANGED events
     ELSE /\ write' = "done" /\ UNCHANGED <<stream, events>>
          /\ IF writeDone THEN finished' = TRUE /\ hooked' = FALSE
                          ELSE UNCHANGED <<finished, hooked>>
  /\ UNCHANGED <<phase, req, left, delegate, told, readDone, writeDone, disconnect, served>>

(* The peer closes, or close_all_connections does. *)
StreamCloses ==
  /\ stream = "open" /\ LoopFree
  /\ Closing
  /\ UNCHANGED <<phase, req, left, delegate, told, readDone, writeDone, disconnect, finished,
                 hooked, served>>

(* The pending write of finish() failed, or _on_connection_close. *)
StreamCalls ==
  /\ events # <<>> /\ LoopFree
  /\ events' = Tail(events)
  /\ finished' = (finished \/ Head(events) = "close" \/ writeDone)
  /\ hooked' = (hooked /\ Head(events) = "write" /\ ~writeDone)
  /\ UNCHANGED <<phase, req, stream, left, delegate, told, readDone, writeDone, disconnect,
                 write, served>>

Next ==
  \/ HeadersReceived \/ NoHeaders \/ HeaderTimeout \/ Malformed \/ BadWritten
  \/ ReceivedReturns \/ ReadChunk \/ ChunkReturns \/ FinishReturns \/ DelegateRaises
  \/ BodyLost \/ BodyTimeout
  \/ Responded \/ NextRequest
  \/ Detach \/ Write \/ Finish \/ WrongLength
  \/ Flushed \/ StreamCloses \/ StreamCalls

Spec == Init /\ [][Next]_vars

-----------------------------------------------------------------------------
(* The types of the variables. *)
TypeOK ==
  /\ phase \in {"headers", "received", "body", "chunk", "finish", "bad", "respond",
               "between", "ended"}
  /\ req \in 1..MaxRequests /\ left \in 0..MaxBody /\ told \in Nat
  /\ stream \in {"open", "closed", "detached"}
  /\ delegate \in {"none", "open", "finished", "closed"}
  /\ write \in {"none", "pending", "done", "failed"}
  /\ events \in Seq({"write", "close"})
  /\ {readDone, writeDone, disconnect, finished, hooked, served} \subseteq BOOLEAN

(* Every request whose headers came ends for its delegate once: finished,  *)
(* or told of the close, by whatever errors, timeouts and early answers.   *)
DelegateToldOnce ==
  /\ told <= 1
  /\ phase \in {"between", "ended"} /\ stream # "detached" => delegate = "none" \/ told = 1
  /\ delegate = "finished" => readDone

(* When the serving loop ends the stream is closed, or somebody else's;    *)
(* nobody is left to answer on it or to close it.                          *)
NoStreamLeaks ==
  /\ phase = "ended" => stream # "open"
  /\ served = (phase # "ended")

(* A loop that waits for the response of a stream that has closed will be  *)
(* let go: the close callback, or the failed write, is on its way.         *)
NotLeftWaiting ==
  phase = "respond" /\ stream = "closed" /\ ~finished =>
    \E i \in DOMAIN events : events[i] = "close" \/ writeDone

(* Requests on a stream do not overlap: the next one is read when the body *)
(* of the one before was, and its response is written, all of it, or       *)
(* nobody is there to read it.                                             *)
NextInTurn ==
  req' # req => readDone /\ (stream # "open" \/ (writeDone /\ write # "pending"))
RequestsInTurn == [][NextInTurn]_vars

ServingSound == DelegateToldOnce /\ NoStreamLeaks /\ NotLeftWaiting
=============================================================================
