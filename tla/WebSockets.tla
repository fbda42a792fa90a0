------------------------------- MODULE WebSockets -------------------------------
(***************************************************************************)
(* tornado.websocket: a WebSocketHandler and a WebSocketClientConnection   *)
(* at the two ends of one connection, both with WebSocketProtocol13.  The  *)
(* operators on t work on what one end has, as the methods work on self;   *)
(* when the stream is closed, keep frames of those that have come are in   *)
(* its read buffer, and may still be read.                                 *)
(*                                                                         *)
(* Frames come whole.  If the peer of the server is not Tornado (foreign), *)
(* fragments and frames that break the protocol come from it too.  Times   *)
(* are left out: a timer that is armed may fire, and a ping that is not    *)
(* answered yet may be found too old.                                      *)
(***************************************************************************)
EXTENDS Integers, Sequences, FiniteSets

CONSTANT
  MaxFrames      \* bound of the messages and pings of each end, for each set of
                 \* ends that may have a ping_interval

VARIABLES
  pingers,       \* the ends with a ping_interval
  foreign,       \* the client is not Tornado
  w,             \* the two ends
  connect,       \* connect_future: "pending", "open" or "error"
  readqueue,     \* the client's read_queue
  reading,       \* read_future is there
  read           \* what read_message answered

vars == <<pingers, foreign, w, connect, readqueue, reading, read>>
settings == <<pingers, foreign>>
clientVars == <<connect, readqueue, reading, read>>

Side == {"server", "client"}
Other(p) == IF p = "server" THEN "client" ELSE "server"

None == 0      \* what a reader is given at the end

Frame(type, n) == [type |-> type, n |-> n]
ForeignTypes == {"first", "last", "big", "bad"}

End(at) ==
  [ at |-> at,              \* "get", "opening", "connecting"; "read": a frame is
                            \* read; "handle": on_message runs; "idle"
    attached |-> FALSE,     \* ws_connection, or protocol, is there
    clientTerm |-> FALSE, serverTerm |-> FALSE,
    waiting |-> FALSE,      \* the timer of the close handshake is armed
    fragmented |-> FALSE,   \* _fragmented_message_buffer is there
    pinging |-> FALSE, unanswered |-> 0, pings |-> 0,
    inbox |-> <<>>, out |-> <<>>,
    closed |-> FALSE,       \* the stream is
    callback |-> FALSE,     \* its close callback is scheduled
    told |-> 0,             \* calls of on_close, or of on_message(None)
    sent |-> 0, got |-> <<>>,
    byApp |-> FALSE ]       \* the application called close()

Init ==
  /\ pingers \in DOMAIN MaxFrames /\ foreign \in BOOLEAN
  /\ w = [p \in Side |-> End(IF p = "server" THEN "get" ELSE "connecting")]
  /\ connect = "pending" /\ readqueue = <<>> /\ reading = FALSE /\ read = <<>>

-----------------------------------------------------------------------------
(* The protocol *)

StreamClose(t, keep) ==
  IF t.closed THEN t
  ELSE LET left == SubSeq(t.inbox, 1, IF keep < Len(t.inbox) THEN keep ELSE Len(t.inbox))
       IN [t EXCEPT !.closed = TRUE, !.callback = TRUE, !.inbox = left,
                    !.at = IF @ = "read" /\ left = <<>> THEN "idle" ELSE @]

WriteFrame(t, f) == IF t.closed THEN t ELSE [t EXCEPT !.out = Append(@, f)]

(* Fault for the mutants: the other end may take as long as it likes. *)
CloseUntimed(t, keep) ==
  LET u == IF t.serverTerm THEN t
           ELSE [WriteFrame(t, Frame("close", t.sent)) EXCEPT !.serverTerm = TRUE]
  IN IF u.clientTerm THEN StreamClose(u, keep) ELSE u

(* close(): say so once, and give the other end some seconds to answer. *)
Close(t, keep) ==
  LET u == IF t.serverTerm THEN t
           ELSE [WriteFrame(t, Frame("close", t.sent)) EXCEPT !.serverTerm = TRUE]
  IN IF u.clientTerm THEN StreamClose([u EXCEPT !.waiting = FALSE], keep)
                     ELSE [u EXCEPT !.waiting = TRUE]

Abort(t, keep) ==
  Close(StreamClose([t EXCEPT !.clientTerm = TRUE, !.serverTerm = TRUE], keep), keep)

(* _receive_frame; a closed stream still gives what is in its buffer. *)
ReceiveFrame(t, keep) ==
  IF t.closed /\ t.inbox = <<>> THEN Abort([t EXCEPT !.at = "idle"], keep)
                                ELSE [t EXCEPT !.at = "read"]

ReceiveUnlessTerminated(t, keep) ==
  IF t.clientTerm THEN [t EXCEPT !.at = "idle"] ELSE ReceiveFrame(t, keep)

(* _handle_message of a message: on_message is called. *)
Deliver(t, n) ==
  IF t.clientTerm THEN [t EXCEPT !.at = "idle"]
  ELSE [t EXCEPT !.at = "handle", !.got = Append(@, n)]

(* _on_frame_start to _on_frame_data, and _handle_message. *)
OnFrame(t, f, keep) ==
  CASE f.type = "big" -> Close([t EXCEPT !.at = "idle"], keep)
    [] \/ f.type = "bad"
       \/ f.type = "last" /\ ~t.fragmented
       \/ f.type \in {"message", "first"} /\ t.fragmented ->
            Abort([t EXCEPT !.at = "idle"], keep)
    [] f.type = "first" /\ ~t.fragmented ->
         ReceiveUnlessTerminated([t EXCEPT !.fragmented = TRUE], keep)
    [] f.type = "last" /\ t.fragmented -> Deliver([t EXCEPT !.fragmented = FALSE], 0)
    [] f.type = "message" /\ ~t.fragmented -> Deliver(t, f.n)
    [] f.type = "close" ->
         IF t.clientTerm THEN [t EXCEPT !.at = "idle"]
         ELSE Close([t EXCEPT !.clientTerm = TRUE, !.at = "idle"], keep)
    [] f.type = "ping" ->
         IF t.clientTerm THEN [t EXCEPT !.at = "idle"]
         ELSE IF t.closed THEN Abort([t EXCEPT !.at = "idle"], keep)
         ELSE ReceiveFrame(WriteFrame(t, Frame("pong", 0)), keep)
    [] f.type = "pong" ->
         ReceiveUnlessTerminated(IF t.clientTerm THEN t ELSE [t EXCEPT !.unanswered = 0], keep)

-----------------------------------------------------------------------------
(* Steps of an end *)

(* What it wrote goes to the other end, unless that one is closed. *)
Becomes(p, t) ==
  LET q == Other(p)
      u == w[q]
  IN w' = [w EXCEPT ![p] = [t EXCEPT !.out = <<>>],
                    ![q] = IF u.closed THEN u ELSE [u EXCEPT !.inbox = @ \o t.out]]

Keeps == 0..2

Room(p) == w[p].sent + w[p].pings < MaxFrames[pingers][p]

(* The handler refuses: not an upgrade, another origin, another version. *)
Refuse ==
  /\ w["server"].at = "get"
  /\ Becomes("server", StreamClose([w["server"] EXCEPT !.at = "idle"], 0))
  /\ connect' = "error"
  /\ UNCHANGED <<pingers, foreign, readqueue, reading, read>>

(* accept_connection: answer 101, take the stream, begin to ping, open(). *)
Accept ==
  /\ w["server"].at = "get"
  /\ Becomes("server", [w["server"] EXCEPT !.at = "opening", !.attached = TRUE,
                                           !.pinging = "server" \in pingers])
  /\ UNCHANGED settings /\ UNCHANGED clientVars

(* open() returns or raises. *)
Opened ==
  /\ w["server"].at = "opening"
  /\ \E keep \in Keeps, t \in {w["server"], Abort(w["server"], 0)} :
       Becomes("server", ReceiveFrame(t, keep))
  /\ UNCHANGED settings /\ UNCHANGED clientVars

(* headers_received of the client. *)
Connected ==
  /\ w["client"].at = "connecting" /\ ~w["client"].closed
  /\ w["server"].at \notin {"get"} /\ connect = "pending"
  /\ Becomes("client", [w["client"] EXCEPT !.at = "read", !.attached = TRUE,
                                           !.pinging = "client" \in pingers])
  /\ connect' = "open"
  /\ UNCHANGED <<pingers, foreign, readqueue, reading, read>>

(* on_message of the client: to read_message, or to its queue. *)
OnMessage(what) ==
  IF reading THEN read' = Append(read, what) /\ reading' = FALSE /\ UNCHANGED readqueue
             ELSE readqueue' = Append(readqueue, what) /\ UNCHANGED <<read, reading>>

ReadFrame(p) ==
  /\ w[p].at = "read" /\ w[p].inbox # <<>>
  /\ \E keep \in Keeps :
       LET t == OnFrame([w[p] EXCEPT !.inbox = Tail(@)], Head(w[p].inbox), keep)
       IN IF p = "client" /\ t.at = "handle"
          THEN /\ Becomes(p, ReceiveFrame(t, keep))
               /\ OnMessage(t.got[Len(t.got)])
               /\ UNCHANGED connect
          ELSE Becomes(p, t) /\ UNCHANGED clientVars
  /\ UNCHANGED settings

(* on_message of the server returns, at once or as a coroutine, or raises. *)
HandleDone ==
  /\ w["server"].at = "handle"
  /\ \E keep \in Keeps :
       \/ Becomes("server", ReceiveUnlessTerminated(w["server"], keep))
       \/ Becomes("server", Abort([w["server"] EXCEPT !.at = "idle"], keep))
  /\ UNCHANGED settings /\ UNCHANGED clientVars

(* write_message, while the handler has its protocol. *)
WriteMessage(p) ==
  /\ w[p].attached /\ ~w[p].closed /\ Room(p)
  /\ Becomes(p, [WriteFrame(w[p], Frame("message", w[p].sent + 1)) EXCEPT !.sent = @ + 1])
  /\ UNCHANGED settings /\ UNCHANGED clientVars

ForeignFrame ==
  /\ foreign /\ connect = "open" /\ ~w["client"].closed /\ Room("client")
  /\ \E type \in ForeignTypes :
       Becomes("client", [WriteFrame(w["client"], Frame(type, 0)) EXCEPT !.sent = @ + 1])
  /\ UNCHANGED settings /\ UNCHANGED clientVars

(* close() of the handler, or of the client's connection. *)
CloseByApp(p) ==
  /\ w[p].attached
  /\ \E keep \in Keeps :
       Becomes(p, [Close(w[p], keep) EXCEPT !.attached = FALSE, !.byApp = TRUE])
  /\ UNCHANGED settings /\ UNCHANGED clientVars

(* periodic_ping: also found is that the last ones were not answered. *)
PeriodicPing(p) ==
  /\ w[p].pinging
  /\ \/ w[p].closed /\ Becomes(p, [w[p] EXCEPT !.pinging = FALSE])
     \/ /\ ~w[p].closed /\ w[p].unanswered > 0
        /\ \E keep \in Keeps : Becomes(p, Close(w[p], keep))
     \/ /\ ~w[p].closed /\ Room(p)
        /\ Becomes(p, [WriteFrame(w[p], Frame("ping", 0))
                         EXCEPT !.pings = @ + 1, !.unanswered = @ + 1])
  /\ UNCHANGED settings /\ UNCHANGED clientVars

(* The other end did not answer the close in time. *)
WaitingTimeout(p) ==
  /\ w[p].waiting
  /\ \E keep \in Keeps : Becomes(p, Abort(w[p], keep))
  /\ UNCHANGED settings /\ UNCHANGED clientVars

-----------------------------------------------------------------------------
(* Streams *)

(* The other end has closed and all it sent was read. *)
EndOfStream(p) ==
  /\ w[p].at \in {"read", "handle", "idle"} /\ ~w[p].closed
  /\ w[Other(p)].closed /\ w[p].inbox = <<>>
  /\ Becomes(p, StreamClose(w[p], 0))
  /\ UNCHANGED settings /\ UNCHANGED clientVars

(* The connection breaks. *)
Break(p) ==
  /\ w[p].at # "get" /\ ~w[p].closed
  /\ \E keep \in Keeps : Becomes(p, StreamClose(w[p], keep))
  /\ UNCHANGED settings /\ UNCHANGED clientVars

(* The stream's close callback, when no read callback is to come. *)
CloseCallback(p) ==
  /\ w[p].callback /\ w[p].at # "read"
  /\ LET t == [w[p] EXCEPT !.callback = FALSE, !.told = @ + 1]
     IN IF p = "server"
        THEN /\ Becomes(p, IF w[p].attached THEN [Abort(t, 0) EXCEPT !.attached = FALSE] ELSE t)
             /\ UNCHANGED clientVars
        ELSE /\ Becomes(p, t)
             /\ connect' = IF connect = "pending" THEN "error" ELSE connect
             /\ OnMessage(None)
  /\ UNCHANGED settings

(* read_message, one at a time. *)
ReadMessage ==
  /\ connect = "open" /\ ~reading /\ Len(read) < MaxFrames[pingers]["server"] + 1
  /\ IF readqueue # <<>>
     THEN read' = Append(read, Head(readqueue)) /\ readqueue' = Tail(readqueue) /\ UNCHANGED reading
     ELSE reading' = TRUE /\ UNCHANGED <<read, readqueue>>
  /\ UNCHANGED <<pingers, foreign, w, connect>>

Next ==
  \/ Refuse \/ Accept \/ Opened \/ Connected \/ HandleDone \/ ForeignFrame \/ ReadMessage
  \/ \E p \in Side : \/ ReadFrame(p) \/ WriteMessage(p) \/ CloseByApp(p) \/ PeriodicPing(p)
                     \/ WaitingTimeout(p) \/ EndOfStream(p) \/ Break(p) \/ CloseCallback(p)

Spec == Init /\ [][Next]_vars

-----------------------------------------------------------------------------
(* The types of the variables. *)
TypeOK ==
  /\ pingers \in DOMAIN MaxFrames /\ foreign \in BOOLEAN
  /\ connect \in {"pending", "open", "error"} /\ reading \in BOOLEAN
  /\ \A p \in Side :
       /\ w[p].at \in {"get", "opening", "connecting", "read", "handle", "idle"}
       /\ w[p].out = <<>> /\ w[p].told \in 0..1 /\ w[p].unanswered \in 0..w[p].pings
       /\ w[p].sent + w[p].pings \in 0..MaxFrames[pingers][p]

(* Whatever way a connection begins to end, it does end: an end that has   *)
(* said close, or has stopped to read, has closed its stream or a timer    *)
(* that will; and a closed stream is told to the application.              *)
HandshakeEnds ==
  \A p \in Side :
    /\ w[p].serverTerm \/ (w[p].at = "idle" /\ w[p].attached) => w[p].closed \/ w[p].waiting
    /\ w[p].closed => w[p].callback \/ w[p].told = 1

(* Messages are delivered in the order they were sent, and, at an end that *)
(* waits for the other's close, all of them before the close is handled.   *)
InOrder ==
  ~foreign => \A p \in Side :
    /\ \A i \in DOMAIN w[p].got : w[p].got[i] = i
    /\ \A i \in DOMAIN w[p].inbox :
         w[p].inbox[i].type = "close" /\ ~w[p].clientTerm =>
           w[p].inbox[i].n
           = Len(w[p].got) + Cardinality({j \in 1..i : w[p].inbox[j].type = "message"})

(* Between a client's messages and their readers nothing is lost or is     *)
(* turned round, and None comes last; nobody waits for an answer who was   *)
(* not given it, but for one who reads on after None.                      *)
ReadersAnswered ==
  /\ read \o readqueue = w["client"].got \o (IF w["client"].told = 1 THEN <<None>> ELSE <<>>)
  /\ reading => readqueue = <<>>
  /\ reading /\ w["client"].told = 1 => read # <<>> /\ read[Len(read)] = None

(* No message comes after on_close, unless the application had called      *)
(* close() itself: then the protocol is not terminated, and frames that    *)
(* were in the buffer when a coroutine on_message returned are delivered.  *)
QuietWhenTold ==
  w["server"].told = 1 /\ w'["server"].got # w["server"].got => w["server"].byApp
QuietAfterClose == [][QuietWhenTold]_vars

WebSocketSound == HandshakeEnds /\ InOrder /\ ReadersAnswered
=============================================================================
