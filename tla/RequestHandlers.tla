---------------------------- MODULE RequestHandlers ----------------------------
(***************************************************************************)
(* tornado.web: one request of an Application: the _HandlerDelegate that   *)
(* the connection tells of headers, body and close, the RequestHandler     *)
(* with its coroutine _execute, and the connection to which it writes.     *)
(*                                                                         *)
(* The handler is plain, @asynchronous, or has @stream_request_body.  Its  *)
(* methods do what a program may do there, in any order, one call after    *)
(* the other, and anything may happen between two calls, as in a coroutine *)
(* that yields.  A chunk of the response has length 1.                     *)
(***************************************************************************)
EXTENDS Integers

CONSTANTS
  MaxChunks,     \* bound of the chunks of a response
  MaxBody        \* bound of the chunks of a body

VARIABLES
  kind,       \* "plain", "asynchronous" or "stream"
  server,     \* where the connection is: "headers", "prepare" (waits for
              \* _prepared_future), "body", "respond" or "done"
  left,       \* chunks of the body that are to come
  at,         \* where _execute is: "none", "prepare", "body", "method", "over";
              \* "callbacks": an @asynchronous method has returned
  body,       \* request.body of a stream: "none", "pending", "done", "failed"
  prepared,   \* _prepared_future: "none", "pending", "done"
  closes,     \* calls of on_connection_close, and those when finished
  h           \* the response

vars == <<kind, server, left, at, body, prepared, closes, h>>

None == -1

Response ==
  [ finished |-> FALSE, headersWritten |-> FALSE,
    buffer |-> 0,            \* chunks in _write_buffer
    status |-> 200,
    length |-> None,         \* Content-Length
    hook |-> FALSE,          \* the connection's close callback is there
    open |-> TRUE,           \* the stream
    chunked |-> FALSE, remaining |-> None,  \* _expected_content_remaining
    heads |-> 0,             \* heads sent
    ends |-> 0,              \* calls of finish() that ended: 0, 1, or 2 for more
    written |-> 0,           \* chunks sent
    late |-> FALSE,          \* something was sent after the end
    raised |-> FALSE,        \* the call raised
    logFailed |-> FALSE,     \* _log did
    gaveUp |-> FALSE ]       \* "Exception in exception handler"

Init ==
  /\ kind \in {"plain", "asynchronous", "stream"}
  /\ server = "headers" /\ left \in 0..MaxBody
  /\ at = "none" /\ body = "none" /\ prepared = "none"
  /\ closes = 0 /\ h = Response

-----------------------------------------------------------------------------
(* The connection, as HTTP1Connection has it *)

Raise(r) == [r EXCEPT !.raised = TRUE]
CloseStream(r) == [r EXCEPT !.open = FALSE]

(* stream.write of n chunks, within the length that was promised. *)
Send(r, n) ==
  IF r.remaining # None /\ n > r.remaining THEN Raise(CloseStream(r))
  ELSE [r EXCEPT !.written = @ + n, !.late = @ \/ (r.ends > 0 /\ n > 0),
                 !.remaining = IF @ = None THEN None ELSE @ - n]

WriteHeaders(r, n) ==
  LET s == [r EXCEPT !.chunked = r.length = None /\ r.status # 204, !.remaining = r.length]
      t == Send(s, n)
  IN IF ~s.open THEN s
     ELSE IF t.raised THEN t ELSE [t EXCEPT !.heads = @ + 1]

ConnectionWrite(r, n) == IF r.open THEN Send(r, n) ELSE r

ConnectionFinish(r) ==
  IF r.remaining \notin {None, 0} /\ r.open THEN Raise(CloseStream(r))
  ELSE [r EXCEPT !.ends = IF @ < 2 THEN @ + 1 ELSE @,
                 !.late = @ \/ (r.ends > 0 /\ r.chunked /\ r.open)]

-----------------------------------------------------------------------------
(* Methods of the handler: what they make of the response r *)

Write(r) ==
  IF r.finished THEN Raise(r) ELSE [r EXCEPT !.buffer = @ + 1]

Flush(r) ==
  LET s == [r EXCEPT !.buffer = 0, !.headersWritten = TRUE]
  IN IF r.headersWritten THEN ConnectionWrite(s, r.buffer) ELSE WriteHeaders(s, r.buffer)

(* Without a body for 204; else with its length, if all is still there.    *)
Headed(r) ==
  IF r.headersWritten THEN r
  ELSE IF r.status = 204 THEN (IF r.buffer > 0 THEN Raise(r) ELSE [r EXCEPT !.length = None])
  ELSE IF r.length = None THEN [r EXCEPT !.length = r.buffer] ELSE r

(* _log and on_finish are the program's: fails names what raises there. *)
Finish(r, fails) ==
  LET a == Headed(r)
      b == Flush([a EXCEPT !.hook = FALSE])
      c == ConnectionFinish(b)
  IN CASE r.finished -> Raise(r)
       [] ~r.finished /\ a.raised -> a
       [] ~r.finished /\ ~a.raised /\ b.raised -> b
       [] ~r.finished /\ ~a.raised /\ ~b.raised ->
            IF c.raised THEN c
            ELSE IF fails = "log" THEN Raise([c EXCEPT !.logFailed = TRUE])
            ELSE [c EXCEPT !.finished = TRUE, !.raised = fails = "on_finish"]

Caught(r) == [r EXCEPT !.raised = FALSE]

Clear(r) == [r EXCEPT !.buffer = 0, !.status = 500, !.length = None]

(* Fault for the mutants: an error after the headers is left at that. *)
SendErrorOnlyBefore(r, fails) ==
  IF r.headersWritten THEN r
  ELSE LET e == Caught(Finish(Write(Clear(r)), fails))
       IN IF e.finished THEN e ELSE Finish(e, fails)

(* send_error: write_error finishes the response, or raises before that.   *)
SendError(r, fails) ==
  IF r.headersWritten
  THEN IF r.finished THEN r ELSE Caught(Finish(r, fails))
  ELSE LET e == IF fails = "write_error" THEN Clear(r)
                ELSE Caught(Finish(Write(Clear(r)), fails))
       IN IF e.finished THEN e ELSE Finish(e, fails)

(* _handle_request_exception. *)
HandleException(r, e, fails) ==
  IF r.finished THEN Caught(r)
  ELSE IF e = "Finish" THEN Finish(Caught(r), fails) ELSE SendError(Caught(r), fails)

-----------------------------------------------------------------------------
(* _execute *)

Fails == {"nothing", "log", "on_finish", "write_error"}

(* An exception reaches _execute, which is over then; or, in a callback of *)
(* an @asynchronous method, the stack context, which goes on.              *)
Over(r, e) ==
  \E fails \in Fails :
    LET s == HandleException(r, e, fails)
    IN /\ h' = [Caught(s) EXCEPT !.gaveUp = @ \/ s.raised]
       /\ at' = IF at = "callbacks" THEN at ELSE "over"
       /\ prepared' = IF prepared = "pending" THEN "done" ELSE prepared

Running == at \in {"prepare", "method", "callbacks"}

(* A call of the handler's own, r being what it made of h. *)
Call(r) ==
  /\ Running
  /\ IF r.raised THEN Over(r, "error") ELSE h' = r /\ UNCHANGED <<at, prepared>>
  /\ UNCHANGED <<kind, server, left, body, closes>>

CallWrite == h.buffer + h.written < MaxChunks /\ Call(Write(h))
CallFlush == ~h.finished /\ Call(Flush(h))
CallFinish == \E fails \in Fails : Call(Finish(h, fails))
CallSendError == \E fails \in Fails : Call(SendError(h, fails))

(* set_status and set_header, before the headers are written. *)
SetStatus == ~h.headersWritten /\ h.status = 200 /\ Call([h EXCEPT !.status = 204])
SetLength == ~h.headersWritten /\ h.length = None /\ Call([h EXCEPT !.length = 1])

(* The method raises. *)
Raises ==
  /\ Running
  /\ \E e \in {"error", "Finish"} : Over(h, e)
  /\ UNCHANGED <<kind, server, left, body, closes>>

(* prepare returns; the server may go on with the body. *)
PrepareReturns ==
  /\ at = "prepare"
  /\ prepared' = IF prepared = "pending" THEN "done" ELSE prepared
  /\ at' = IF h.finished THEN "over" ELSE IF kind = "stream" THEN "body" ELSE "method"
  /\ UNCHANGED <<kind, server, left, body, closes, h>>

(* request.body of a stream is done, or failed with the connection. *)
BodyCame ==
  /\ at = "body" /\ body # "pending"
  /\ at' = IF body = "done" THEN "method" ELSE "over"
  /\ UNCHANGED <<kind, server, left, body, prepared, closes, h>>

MethodReturns ==
  /\ at = "method"
  /\ IF kind = "asynchronous" THEN at' = "callbacks" /\ UNCHANGED <<h, prepared>>
     ELSE IF h.finished THEN at' = "over" /\ UNCHANGED <<h, prepared>>
     ELSE \E fails \in Fails :
            LET r == Finish(h, fails)
            IN IF r.raised THEN Over(r, "error")
               ELSE at' = "over" /\ h' = r /\ UNCHANGED prepared
  /\ UNCHANGED <<kind, server, left, body, closes>>

-----------------------------------------------------------------------------
(* _HandlerDelegate, as the connection calls it *)

(* execute(): the handler's constructor sets the close callback.  If it    *)
(* raises, the connection is closed.                                       *)
Execute(next) ==
  \/ at' = "prepare" /\ h' = [h EXCEPT !.hook = TRUE] /\ server' = next
     /\ prepared' = IF kind = "stream" THEN "pending" ELSE "none"
  \/ h' = CloseStream(h) /\ server' = "done" /\ UNCHANGED <<at, prepared>>

HeadersReceived ==
  /\ server = "headers" /\ h.open
  /\ IF kind = "stream" THEN body' = "pending" /\ Execute("prepare")
     ELSE server' = "body" /\ UNCHANGED <<body, at, h, prepared>>
  /\ UNCHANGED <<kind, left, closes>>

(* The connection has waited for _prepared_future. *)
Prepared ==
  /\ server = "prepare" /\ prepared = "done"
  /\ server' = "body"
  /\ UNCHANGED <<kind, left, at, body, prepared, closes, h>>

(* on_connection_close: a stream's body fails, if it is not there yet. *)
OnConnectionClose ==
  /\ closes' = closes + 1
  /\ body' = IF body = "pending" THEN "failed" ELSE body

(* data_received of the delegate, or not if the response is complete. *)
DataReceived ==
  /\ server = "body" /\ h.open /\ left > 0
  /\ left' = left - 1
  /\ UNCHANGED <<kind, server, at, body, prepared, closes, h>>

(* It raises, or the connection is lost while the body comes: of a stream  *)
(* the handler is told, of others nothing is there yet.                    *)
BodyLost ==
  /\ server = "body"
  /\ left > 0 \/ ~h.open
  /\ h' = CloseStream(h) /\ server' = "done"
  /\ IF kind = "stream" THEN OnConnectionClose ELSE UNCHANGED <<closes, body>>
  /\ UNCHANGED <<kind, left, at, prepared>>

(* finish() of the delegate; not if the response is complete, and then the *)
(* connection is closed after it, and on_connection_close is called.       *)
BodyRead ==
  /\ server = "body" /\ left = 0 /\ h.open
  /\ IF h.ends > 0
     THEN /\ server' = "done" /\ h' = CloseStream(h)
          /\ OnConnectionClose /\ UNCHANGED <<at, prepared>>
     ELSE IF kind = "stream"
     THEN server' = "respond" /\ body' = "done" /\ UNCHANGED <<at, prepared, closes, h>>
     ELSE Execute("respond") /\ UNCHANGED <<body, closes>>
  /\ UNCHANGED <<kind, left>>

(* The response is complete, or its connection is closed; then the close   *)
(* callback is called if it is still there.                                *)
Responded ==
  /\ server = "respond" /\ h.ends > 0 /\ h.open
  /\ server' = "done"
  /\ UNCHANGED <<kind, left, at, body, prepared, closes, h>>

StreamClosed ==
  /\ server = "respond" /\ ~h.open
  /\ server' = "done" /\ h' = [h EXCEPT !.hook = FALSE]
  /\ IF h.hook THEN OnConnectionClose ELSE UNCHANGED <<closes, body>>
  /\ UNCHANGED <<kind, left, at, prepared>>

PeerCloses ==
  /\ h.open /\ server \notin {"done"}
  /\ h' = CloseStream(h)
  /\ UNCHANGED <<kind, server, left, at, body, prepared, closes>>

Next ==
  \/ HeadersReceived \/ Prepared \/ DataReceived \/ BodyLost \/ BodyRead \/ Responded
  \/ StreamClosed \/ PeerCloses
  \/ CallWrite \/ CallFlush \/ CallFinish \/ CallSendError \/ SetStatus \/ SetLength
  \/ Raises \/ PrepareReturns \/ BodyCame \/ MethodReturns

Spec == Init /\ [][Next]_vars

-----------------------------------------------------------------------------
(* The types of the variables. *)
TypeOK ==
  /\ server \in {"headers", "prepare", "body", "respond", "done"} /\ left \in 0..MaxBody
  /\ at \in {"none", "prepare", "body", "method", "callbacks", "over"}
  /\ body \in {"none", "pending", "done", "failed"} /\ prepared \in {"none", "pending", "done"}
  /\ h.status \in {200, 204, 500} /\ h.remaining \in Nat \cup {None} /\ ~h.raised

(* When nothing of the handler is to run any more, its request is answered *)
(* or its connection closed, whichever of its calls raised, and whatever   *)
(* raised while that was handled; so the client, and the connection's loop *)
(* behind it, do not wait for ever.  One case is left out: finish() that   *)
(* raises for a Finish exception, as for a 204 with a body.                *)
AlwaysAnswered ==
  at = "over" => h.ends > 0 \/ ~h.open \/ (h.gaveUp /\ h.status = 204 /\ h.buffer > 0)

(* A response has one head and one end, and nothing comes after its end,   *)
(* where the next response would begin.  It is not so if _log raises: then *)
(* finish() is called again.                                               *)
OneResponse ==
  /\ h.heads <= 1
  /\ ~h.logFailed => ~h.late /\ h.ends <= 1
  /\ h.ends > 0 /\ h.open => h.heads = 1 /\ h.remaining \in {None, 0}

(* The connection and a streaming handler do not wait for each other: the  *)
(* connection waits only for a prepare that is running, the handler only   *)
(* for a body that the connection will end, and it runs its method only    *)
(* when the whole body has come.                                           *)
StreamingGoesOn ==
  /\ server = "prepare" => at = "prepare" \/ prepared = "done"
  /\ at = "body" /\ body = "pending" => server \in {"prepare", "body"}
  /\ kind = "stream" /\ at = "method" => body = "done" /\ left = 0

(* The handler is told once that its connection has closed. *)
ToldOnce == closes <= 1

HandlerSound == AlwaysAnswered /\ OneResponse /\ StreamingGoesOn /\ ToldOnce
=============================================================================
