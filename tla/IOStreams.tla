-------------------------------- MODULE IOStreams --------------------------------
(***************************************************************************)
(* tornado.iostream: one IOStream or SSLIOStream, on its loop, with its    *)
(* user and the peer.  Every operator below works on s, the attributes of  *)
(* the stream, as the methods of the stream work on self; one that ends in *)
(* a recv, a send or a handshake gives the set of what may become of s.    *)
(*                                                                         *)
(* Bytes are counted, not kept: the peer has sent bytes 1..sent, of which  *)
(* those in Delims are the delimiter of read_until; recvd of them came     *)
(* into the read buffer and taken of them left it.  What a recv loop takes *)
(* in at once is one chunk to the streaming callback.                      *)
(***************************************************************************)
EXTENDS Integers, Sequences, FiniteSets

CONSTANTS
  Delims,      \* positions of the delimiter in what the peer sends
  MaxSent,     \* bound of what the peer sends
  MaxBuffer,   \* max_buffer_size
  MaxWrite,    \* max_write_buffer_size
  Sizes,       \* sizes that are read and written
  Starts,      \* what a stream is when it is made, of StreamStarts
  MaxOps       \* bound of the user's calls

VARIABLES
  peer,        \* what the other end did: [sent, end]
  s,           \* the stream
  ops          \* calls made by the user

vars == <<peer, s, ops>>

StreamStarts == {"connected", "connecting", "accepting", "connecting ssl", "start tls"}

NoRead == [type |-> "none", n |-> 0, partial |-> FALSE, via |-> "none", streaming |-> FALSE]

New(start) ==
  [ read |-> NoRead,       \* the read there is: its kind, callback or future
    max |-> 0,             \* _read_max_bytes, which stays, 0 for None
    recvd |-> 0, taken |-> 0,
    total |-> 0, done |-> 0, \* _total_write_index, _total_write_done_index
    writer |-> FALSE,      \* _write_callback
    futures |-> <<>>,      \* _write_futures
    onclose |-> IF start = "start tls" THEN "set" ELSE "none", \* the close callback, or "told"
    connect |-> IF start = "connecting" THEN "future" ELSE "none",
    connecting |-> start \in {"connecting", "connecting ssl"},
    accepting |-> start \in {"accepting", "connecting ssl", "start tls"},
    wants |-> "none",      \* what the handshake waits for
    handshake |-> IF start = "start tls" THEN "tls" ELSE "none", \* who waits for it
    tls |-> IF start = "start tls" THEN "waiting" ELSE "none", \* the future of start_tls
    listen |-> IF start = "connected" THEN {} ELSE {"W"}, \* _state but for ERROR
    handler |-> start # "connected",                      \* _state is not None
    pending |-> 0,         \* _pending_callbacks
    queue |-> <<>>,        \* its callbacks on the loop
    closed |-> FALSE,
    late |-> FALSE ]       \* a future was asked of a closed stream that has none
                           \* to give, or a call made after the close callback

Init ==
  /\ peer = [sent |-> 0, end |-> "open"]
  /\ \E start \in Starts : s = New(start)
  /\ ops = 0

Size(t) == t.recvd - t.taken
Unwritten(t) == t.total - t.done
Reading(t) == t.read.via # "none"
Least(a, b) == IF a <= b THEN a ELSE b

-----------------------------------------------------------------------------
(* Callbacks and the close *)

(* _run_callback: on the loop, and counted until it runs. *)
RunCallback(t, what) ==
  [t EXCEPT !.pending = @ + 1, !.queue = Append(@, what)]

(* Fault for the mutants: the callbacks that wait are not waited for. *)
CloseCallbackAtOnce(t) ==
  IF ~t.closed THEN t
  ELSE LET u == [t EXCEPT !.read.via = "none", !.futures = <<>>, !.connect = "none",
                          !.handshake = "none", !.writer = FALSE, !.done = t.total]
       IN IF t.onclose = "set" THEN RunCallback([u EXCEPT !.onclose = "told"], "close callback") ELSE u

(* _maybe_run_close_callback: once no callback is waiting, all futures     *)
(* fail, the close callback is scheduled and the rest is forgotten.        *)
MaybeRunCloseCallback(t) ==
  IF ~t.closed \/ t.pending > 0 THEN t
  ELSE LET u == [t EXCEPT !.read.via = "none", !.futures = <<>>, !.connect = "none",
                          !.handshake = "none", !.writer = FALSE, !.done = t.total]
       IN IF t.onclose = "set" THEN RunCallback([u EXCEPT !.onclose = "told"], "close callback") ELSE u

AddIoState(t, what) ==
  IF t.closed THEN t ELSE [t EXCEPT !.handler = TRUE, !.listen = @ \cup {what}]

(* Without a callback to come and nothing to listen for, listen for reads  *)
(* in order to learn of a close.                                           *)
MaybeAddErrorListener(t) ==
  IF t.pending > 0 \/ t.listen # {} THEN t
  ELSE IF t.closed THEN MaybeRunCloseCallback(t)
  ELSE IF Size(t) = 0 /\ t.onclose = "set" THEN AddIoState(t, "R") ELSE t

(* _run_read_callback *)
RunStream(t, k) == RunCallback([t EXCEPT !.taken = @ + k], "stream")
RunRead(t, k) ==
  LET u == [t EXCEPT !.taken = @ + k, !.read.via = "none", !.read.streaming = FALSE]
  IN IF t.read.via = "callback" THEN RunCallback(u, "read") ELSE MaybeAddErrorListener(u)

(* close(): a read_until_close gets what there is. *)
CloseStream(t) ==
  IF t.closed THEN MaybeRunCloseCallback(t)
  ELSE LET u == IF t.read.type # "close" THEN t
                ELSE LET v == IF t.read.streaming /\ Size(t) > 0 THEN RunStream(t, Size(t)) ELSE t
                     IN RunRead([v EXCEPT !.read.type = "none"], Size(v))
       IN MaybeRunCloseCallback([u EXCEPT !.handler = FALSE, !.listen = {}, !.closed = TRUE])

-----------------------------------------------------------------------------
(* Reading *)

Unsatisfiable == -2
Error == -3

(* _find_read_pos: a position, -1, or more than max_bytes without one. *)
FindReadPos(t) ==
  LET found == {d \in Delims : d \in t.taken + 1..t.recvd}
      loc == (CHOOSE d \in found : \A e \in found : d <= e) - t.taken
  IN CASE t.read.type = "bytes" /\ (Size(t) >= t.read.n \/ (t.read.partial /\ Size(t) > 0)) ->
            Least(t.read.n, Size(t))
       [] t.read.type = "until" /\ Size(t) > 0 /\ found # {} ->
            IF t.max # 0 /\ loc > t.max THEN Unsatisfiable ELSE loc
       [] t.read.type = "until" /\ Size(t) > 0 /\ t.max # 0 /\ Size(t) > t.max -> Unsatisfiable
       [] OTHER -> -1

RunStreamingCallback(t) ==
  IF ~t.read.streaming \/ Size(t) = 0 THEN t
  ELSE IF t.read.type = "bytes"
  THEN LET k == Least(t.read.n, Size(t)) IN RunStream([t EXCEPT !.read.n = @ - k], k)
  ELSE RunStream(t, Size(t))

(* _read_from_buffer *)
ReadFromBuffer(t, pos) ==
  RunRead([t EXCEPT !.read.type = "none", !.read.partial = FALSE], pos)

(* Whether the read loop has had enough. *)
Enough(t) ==
  CASE t.read.type = "bytes" -> Size(t) >= t.read.n
    [] t.read.type # "bytes" /\ t.max # 0 -> Size(t) >= t.max
    [] OTHER -> ~Reading(t)

(* read_from_fd: nothing before the handshake is complete. *)
Readable(t) == IF t.accepting THEN t.recvd ELSE peer.sent

(* _read_to_buffer_loop: receive until there is enough, or no more, or an  *)
(* end.  A callback is counted meanwhile, so that a close is not told yet. *)
ReadToBufferLoop(t) ==
  LET Received(r) == RunStreamingCallback([t EXCEPT !.recvd = r, !.pending = @ + 1])
      Uncount(u) == [u EXCEPT !.pending = @ - 1]
      Found(u) == [s |-> Uncount(u), pos |-> FindReadPos(u)]
      last == Readable(t)
      full == {r \in t.recvd + 1..last : r - t.taken > MaxBuffer}
  IN IF t.closed THEN {[s |-> t, pos |-> FindReadPos(t)]}
     ELSE {Found(Received(r)) :
             r \in {q \in (t.recvd + 1..last) \ full :
                      Enough(Received(q)) \/ FindReadPos(Received(q)) # -1}}
       \cup {[s |-> Uncount(CloseStream([t EXCEPT !.recvd = r, !.pending = @ + 1])), pos |-> Error]
               : r \in full}
       \cup IF full # {} THEN {}
            ELSE IF peer.end = "open" \/ t.accepting THEN {Found(Received(last))}
            ELSE IF last > t.recvd /\ Enough(Received(last)) THEN {}
            ELSE {Found(CloseStream(Received(last)))}
                 \cup IF peer.end # "reset" THEN {}
                      ELSE {[s |-> Uncount(CloseStream(Received(last))), pos |-> Error]}

(* _handle_read, and what _handle_events makes of its exceptions. *)
HandleRead(t) ==
  {CASE o.pos \in {Unsatisfiable, Error} -> CloseStream(o.s)
     [] o.pos = -1 -> MaybeRunCloseCallback(o.s)
     [] OTHER -> ReadFromBuffer(o.s, o.pos) : o \in ReadToBufferLoop(t)}

(* _try_inline_read *)
TryInlineRead(t) ==
  LET u == RunStreamingCallback(t)
      pos == FindReadPos(u)
  IN IF pos = Unsatisfiable THEN {CloseStream(u)}
     ELSE IF pos >= 0 THEN {ReadFromBuffer(u, pos)}
     ELSE IF u.closed THEN {[u EXCEPT !.late = TRUE]}
     ELSE {CASE o.pos = Error -> MaybeRunCloseCallback(o.s)
             [] o.pos = Unsatisfiable -> CloseStream(o.s)
             [] o.pos >= 0 -> ReadFromBuffer(o.s, o.pos)
             [] o.pos = -1 /\ o.s.closed -> MaybeRunCloseCallback(o.s)
             [] o.pos = -1 /\ ~o.s.closed -> AddIoState(o.s, "R") : o \in ReadToBufferLoop(u)}

Begin(t, type, n, partial, via, streaming) ==
  [t EXCEPT !.read = [type |-> type, n |-> n, partial |-> partial, via |-> via,
                      streaming |-> streaming]]

Vias == {"callback", "future"}

ReadBytes(t) ==
  UNION {TryInlineRead(Begin(t, "bytes", n, partial, via, streaming)) :
           n \in Sizes, partial \in BOOLEAN, via \in Vias, streaming \in BOOLEAN}

(* read_until and read_until_regex *)
BeginUntil(t, via, max) == [Begin(t, "until", 0, FALSE, via, FALSE) EXCEPT !.max = max]

ReadUntil(t) == UNION {TryInlineRead(BeginUntil(t, via, max)) : via \in Vias, max \in {0, 1}}

(* A closed stream gives what it has. *)
ReadToClose(t, via, streaming) ==
  LET u == Begin(t, IF t.closed THEN "none" ELSE "close", 0, FALSE, via, streaming)
  IN IF ~t.closed THEN TryInlineRead(u)
     ELSE LET v == IF streaming THEN RunStream(u, Size(u)) ELSE u IN {RunRead(v, Size(v))}

ReadUntilClose(t) == UNION {ReadToClose(t, via, streaming) : via \in Vias, streaming \in BOOLEAN}

-----------------------------------------------------------------------------
(* Writing *)

(* Fault for the mutants: futures are answered when anything was sent. *)
AnswerAllWrites(t) == [t EXCEPT !.futures = <<>>]

(* The futures of what was written are answered, up to the first that waits *)
(* for more.                                                                *)
AnswerWrites(t) ==
  LET n == CHOOSE n \in 0..Len(t.futures) :
             /\ \A i \in 1..n : t.futures[i] <= t.done
             /\ n = Len(t.futures) \/ t.futures[n + 1] > t.done
  IN [t EXCEPT !.futures = SubSeq(@, n + 1, Len(@))]

(* write_to_fd: as many bytes as the socket has room for. *)
Sendable(t) == 0..Unwritten(t)

(* Sends until it would block, or an error closes the stream. *)
Sent(t, k) ==
  LET u == AnswerWrites([t EXCEPT !.done = @ + k])
  IN IF Unwritten(u) = 0 /\ u.writer THEN RunCallback([u EXCEPT !.writer = FALSE], "write") ELSE u

HandlePlainWrite(t) ==
  {Sent(t, k) : k \in Sendable(t)}
  \cup IF Unwritten(t) > 0 /\ peer.end # "open" THEN {CloseStream(t)} ELSE {}

(* _run_ssl_connect_callback: start_tls waits with a callback.             *)
RunSslConnectCallback(t) ==
  IF t.handshake = "tls" THEN RunCallback([t EXCEPT !.handshake = "none"], "tls")
  ELSE [t EXCEPT !.handshake = "none"]

(* _do_ssl_handshake and _verify_cert *)
Handshake(t) ==
  {[t EXCEPT !.wants = want] : want \in {"R", "W"}}
  \cup {RunSslConnectCallback([t EXCEPT !.wants = "none", !.accepting = FALSE]),
        CloseStream([t EXCEPT !.wants = "none"]),
        CloseStream([t EXCEPT !.wants = "none", !.accepting = FALSE])}

HandleWrite(t) == IF t.accepting THEN Handshake(t) ELSE HandlePlainWrite(t)

(* write(): nothing is sent while the stream connects. *)
AppendWrite(t, n, via) ==
  [t EXCEPT !.total = @ + n, !.writer = @ \/ via = "callback",
            !.futures = IF via = "future" THEN Append(@, t.total + n) ELSE @]

ListenOn(v) == MaybeAddErrorListener(IF Unwritten(v) > 0 THEN AddIoState(v, "W") ELSE v)

WriteOnce(t, n, via) ==
  LET u == AppendWrite(t, n, via)
  IN IF Unwritten(u) > MaxWrite THEN {t}
     ELSE IF t.connecting THEN {u} ELSE {ListenOn(v) : v \in HandleWrite(u)}

Write(t) == IF t.closed THEN {t} ELSE UNION {WriteOnce(t, n, via) : n \in Sizes, via \in Vias}

-----------------------------------------------------------------------------
(* Events *)

(* IOStream._handle_connect: SO_ERROR is set, or the stream is connected.  *)
Connected(t) == {CloseStream(t), [t EXCEPT !.connect = "none", !.connecting = FALSE]}

(* With TLS, an open one goes on with a wrapped socket and the same state. *)
HandleConnect(t) == IF t.connecting THEN Connected(t) ELSE {t}

(* What to listen for now: for reads also if the stream is idle. *)
NewState(t) ==
  LET r == IF Reading(t) \/ t.wants = "R" THEN {"R"} ELSE {}
      w == IF Unwritten(t) > 0 \/ t.wants = "W" THEN {"W"} ELSE {}
  IN [t EXCEPT !.listen = IF r \cup w = {} /\ Size(t) = 0 THEN {"R"} ELSE r \cup w]

(* _handle_events.  An error leaves the close to a callback of its own, so *)
(* that those that wait run first.                                         *)
OnRead(t, events) ==
  IF t.closed \/ "R" \notin events THEN {t} ELSE IF t.accepting THEN Handshake(t) ELSE HandleRead(t)

OnWrite(t, events) == IF t.closed \/ "W" \notin events THEN {t} ELSE HandleWrite(t)

OnRest(t, events) ==
  IF t.closed THEN t ELSE IF "E" \in events THEN [t EXCEPT !.queue = Append(@, "close")] ELSE NewState(t)

HandleEvents(t, events) ==
  LET read == UNION {OnRead(u, events) : u \in HandleConnect(t)}
  IN {OnRest(u, events) : u \in UNION {OnWrite(v, events) : v \in read}}

Events ==
  /\ s.handler /\ ~s.closed
  /\ \E events \in SUBSET {"R", "W", "E"} :
       /\ events # {} /\ events \ {"E"} \subseteq s.listen
       /\ "R" \in events => peer.sent > s.recvd \/ peer.end # "open" \/ s.accepting
       /\ "E" \in events => peer.end = "reset" /\ Len(s.queue) < 3
       /\ s' \in HandleEvents(s, events)
  /\ UNCHANGED <<peer, ops>>

-----------------------------------------------------------------------------
(* The user and the loop *)

SetCloseCallback(t) ==
  {MaybeAddErrorListener([t EXCEPT !.onclose = IF @ = "told" THEN @ ELSE "set"])}

(* wait_for_handshake, before it is complete; on a stream that was closed  *)
(* nobody will answer.                                                     *)
WaitForHandshake(t) == {[t EXCEPT !.handshake = "future", !.late = @ \/ t.closed]}

(* One call, where the stream's assertions allow it. *)
UserCalls(t) ==
  (IF Reading(t) THEN {} ELSE ReadBytes(t) \cup ReadUntil(t) \cup ReadUntilClose(t))
  \cup Write(t) \cup SetCloseCallback(t) \cup {CloseStream(t)}
  \cup IF t.accepting /\ t.handshake = "none" THEN WaitForHandshake(t) ELSE {}

UserActs ==
  /\ ops < MaxOps
  /\ s' \in {[u EXCEPT !.late = @ \/ s.onclose = "told"] : u \in UserCalls(s)}
  /\ ops' = ops + 1
  /\ UNCHANGED peer

(* The future of start_tls is answered by the handshake's callback and, if *)
(* it was not yet, by the close callback; "twice" would be an error.       *)
AnswerTls(t, what) ==
  CASE what = "tls" -> IF t.tls = "waiting" THEN "answered" ELSE "twice"
    [] what = "close callback" /\ t.tls = "waiting" -> "answered"
    [] OTHER -> t.tls

(* The next callback of the stream runs, and may call it again or raise.   *)
RunQueued ==
  /\ s.queue # <<>>
  /\ LET t == [s EXCEPT !.queue = Tail(@)]
         called == [t EXCEPT !.pending = @ - 1, !.tls = AnswerTls(t, Head(s.queue))]
     IN IF Head(s.queue) = "close" THEN s' = CloseStream(t) /\ UNCHANGED ops
        ELSE \/ s' = MaybeAddErrorListener(called) /\ UNCHANGED ops
             \/ s' = MaybeAddErrorListener(CloseStream(called)) /\ UNCHANGED ops
             \/ /\ ops < MaxOps /\ ops' = ops + 1
                /\ s' \in {MaybeAddErrorListener(u) : u \in UserCalls(called)}
  /\ UNCHANGED peer

PeerSends ==
  /\ peer.end = "open" /\ peer.sent < MaxSent /\ ~s.connecting
  /\ peer' = [peer EXCEPT !.sent = @ + 1]
  /\ UNCHANGED <<s, ops>>

PeerEnds ==
  /\ peer.end = "open"
  /\ \E end \in {"eof", "reset"} : peer' = [peer EXCEPT !.end = end]
  /\ UNCHANGED <<s, ops>>

Next == Events \/ UserActs \/ RunQueued \/ PeerSends \/ PeerEnds

Spec == Init /\ [][Next]_vars

-----------------------------------------------------------------------------
(* The types of the variables. *)
TypeOK ==
  /\ peer.sent \in 0..MaxSent /\ peer.end \in {"open", "eof", "reset"}
  /\ 0 <= s.taken /\ s.taken <= s.recvd /\ s.recvd <= peer.sent
  /\ s.done <= s.total /\ s.listen \subseteq {"R", "W"}
  /\ s.read.type \in {"none", "bytes", "until", "close"}
  /\ s.queue \in Seq({"read", "stream", "write", "close", "close callback", "tls"})
  /\ ops \in 0..MaxOps

Waiting(what) == Cardinality({i \in DOMAIN s.queue : s.queue[i] \in what})

(* _pending_callbacks never drifts from the callbacks on the loop, on all  *)
(* the ways through reads, errors and closes; so once the stream is closed *)
(* and they have run, nobody is left waiting: every future has failed and  *)
(* the close callback was scheduled.                                       *)
ClosedIsTold ==
  /\ s.pending = Waiting({"read", "stream", "write", "close callback", "tls"})
  /\ s.closed /\ s.pending = 0 =>
       /\ s.late \/ (~Reading(s) /\ s.handshake = "none")
       /\ s.futures = <<>> /\ s.connect = "none"
       /\ s.onclose # "set"

(* The future of start_tls is answered once, by the handshake or the close *)
(* (start_tls, iostream.py 1247-1275)).  *)
TlsAnswered ==
  /\ s.tls # "twice"
  /\ s.closed /\ s.pending = 0 => s.tls # "waiting"

(* The close callback comes after the callbacks with data. *)
CloseComesLast ==
  s.late \/ \A i \in DOMAIN s.queue : s.queue[i] = "close callback" => i = Len(s.queue)

(* The stream hears what it waits for: data for a read, room for a write,  *)
(* the handshake's turn, and a close while it is idle.                     *)
Hears ==
  ~s.closed /\ ~s.connecting =>
    /\ Reading(s) => s.listen # {} /\ ("R" \in s.listen \/ s.accepting)
    /\ Unwritten(s) > 0 /\ ~s.accepting => "W" \in s.listen
    /\ s.accepting => s.listen # {}
    /\ s.onclose = "set" /\ Size(s) = 0 /\ s.pending = 0 => s.listen # {}

(* A write is answered once its last byte was sent, or fails with the close. *)
AnswersWrites ==
  /\ \A i \in DOMAIN s'.futures : s'.futures[i] > s'.done \/ s'.closed
  /\ \A i \in DOMAIN s.futures :
       \/ s.futures[i] <= s'.done \/ s'.closed
       \/ \E j \in DOMAIN s'.futures : s'.futures[j] = s.futures[i]
WritesAnswered == [][AnswersWrites]_vars

(* The stream leaves nobody waiting, of a read, a write, a close or a handshake. *)
StreamSound == ClosedIsTold /\ TlsAnswered /\ CloseComesLast /\ Hears
=============================================================================
