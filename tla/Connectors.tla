------------------------------ MODULE Connectors -----------------------------
(***************************************************************************)
(* tornado.tcpclient: TCPClient.connect and the _Connector it makes, which *)
(* tries the addresses of two families in parallel and keeps the stream    *)
(* that is the first to be connected.                                      *)
(*                                                                         *)
(* An address is slow (its attempt ends later, either way), fails inline   *)
(* (the connect fails at once), or raises (no stream can be made for it,   *)
(* as when source_ip is of the other family).  Timers that are armed may   *)
(* fire at any time; there is one deadline for all of connect().           *)
(***************************************************************************)
EXTENDS Integers, FiniteSets

CONSTANTS
  MaxAddrs       \* bound of the addresses of a family

VARIABLES
  how,        \* of each address: "slow", "inline" or "raises"
  ssl, timed, \* ssl_options and timeout are there
  phase,      \* of connect(): "resolve", "connect", "tls" or "done"
  result,     \* of connect(): "pending", "stream", "error" or "timeout"
  c           \* the _Connector

vars == <<how, ssl, timed, phase, result, c>>

Family == {"primary", "secondary"}
Addrs == Family \X (1..MaxAddrs)
NoAddr == <<"none", 0>>

Connector ==
  [ addrs |-> {},           \* what addrinfo has
    next |-> [f \in Family |-> 1],
    remaining |-> 0,
    at |-> [a \in Addrs |-> "none"],      \* "connecting"; "connected" and
                                          \* "failed": on_connect_done is due
    open |-> {},            \* addresses whose stream is not closed
    streams |-> {},         \* addresses whose stream is in streams
    timer |-> FALSE, deadline |-> FALSE,  \* timeout and connect_timeout
    future |-> "pending",   \* or "stream", "error" or "timeout"
    winner |-> NoAddr,
    raised |-> FALSE,       \* the last try_connect raised
    escaped |-> FALSE ]     \* one did, in a callback of the loop

Init ==
  /\ how \in [Addrs -> {"slow", "inline", "raises"}]
  /\ ssl \in BOOLEAN /\ timed \in BOOLEAN
  /\ phase = "resolve" /\ result = "pending"
  /\ c = Connector

-----------------------------------------------------------------------------
(* The methods of a _Connector d *)

Queue(d, f) == {a \in d.addrs : a[1] = f /\ a[2] >= d.next[f]}

(* try_connect: past those that fail inline, which come back through       *)
(* on_connect_done, to the first that does not.                            *)
TryConnect(d, f) ==
  LET queue == Queue(d, f)
      lasting == {a \in queue : how[a] # "inline"}
      first == CHOOSE a \in lasting : \A b \in lasting : a[2] <= b[2]
      skipped == {a \in queue : a \notin lasting /\ \A b \in lasting : a[2] < b[2]}
      e == [d EXCEPT !.next[f] = @ + Cardinality(skipped) + 1,
                     !.remaining = @ - Cardinality(skipped),
                     !.streams = @ \cup skipped]
  IN CASE lasting = {} ->
            [e EXCEPT !.future = IF e.remaining = 0 /\ @ = "pending" THEN "error" ELSE @]
       [] lasting # {} /\ how[first] = "raises" -> [e EXCEPT !.raised = TRUE]
       [] lasting # {} /\ how[first] = "slow" ->
            [e EXCEPT !.at[first] = "connecting", !.open = @ \cup {first},
                      !.streams = @ \cup {first}]

OnTimeout(d) ==
  IF d.future = "pending" THEN TryConnect([d EXCEPT !.timer = FALSE], "secondary")
                          ELSE [d EXCEPT !.timer = FALSE]

CloseStreams(d) == [d EXCEPT !.open = @ \ d.streams]

ClearTimeouts(d) == [d EXCEPT !.timer = FALSE, !.deadline = FALSE]

(* A failed attempt: try the next, and do not wait with the other family.  *)
ConnectFailed(d, f) ==
  IF d.future # "pending" THEN d
  ELSE LET e == TryConnect(d, f)
       IN IF e.timer /\ ~e.raised THEN OnTimeout(e) ELSE e

(* Fault for the mutants: the streams of the slower attempts stay open. *)
ConnectSucceededOnly(d, a) ==
  LET e == ClearTimeouts(d)
  IN IF e.future # "pending" THEN [e EXCEPT !.open = @ \ {a}]
     ELSE [e EXCEPT !.streams = @ \ {a}, !.future = "stream", !.winner = a]

ConnectSucceeded(d, a) ==
  LET e == ClearTimeouts(d)
  IN IF e.future # "pending" THEN [e EXCEPT !.open = @ \ {a}]
     ELSE CloseStreams([e EXCEPT !.streams = @ \ {a}, !.future = "stream", !.winner = a])

OnConnectDone(d, a) ==
  LET e == [d EXCEPT !.remaining = @ - 1, !.at[a] = "over"]
  IN IF d.at[a] = "connected" THEN ConnectSucceeded(e, a)
     ELSE ConnectFailed([e EXCEPT !.open = @ \ {a}], a[1])

(* A method that was called by the loop: an exception is only logged. *)
FromLoop(d) ==
  /\ c' = [d EXCEPT !.raised = FALSE, !.escaped = @ \/ d.raised]
  /\ UNCHANGED <<how, ssl, timed, phase, result>>

-----------------------------------------------------------------------------

(* The resolver answers: start() tries the first address, and only then    *)
(* arms its timers.                                                        *)
Resolved ==
  /\ phase = "resolve"
  /\ \E n \in 1..MaxAddrs, m \in 0..MaxAddrs :
       LET addrs == {a \in Addrs : a[2] <= (IF a[1] = "primary" THEN n ELSE m)}
           d == TryConnect([Connector EXCEPT !.addrs = addrs, !.remaining = n + m], "primary")
       IN IF d.raised
          THEN phase' = "done" /\ result' = "error" /\ c' = d
          ELSE /\ c' = [d EXCEPT !.timer = TRUE, !.deadline = timed]
               /\ phase' = "connect" /\ UNCHANGED result
  /\ UNCHANGED <<how, ssl, timed>>

(* The resolver fails, or with_timeout does not wait for it any more. *)
NotResolved ==
  /\ phase = "resolve"
  /\ phase' = "done"
  /\ \/ result' = "error"
     \/ timed /\ result' = "timeout"
  /\ UNCHANGED <<how, ssl, timed, c>>

(* An attempt ends in the stream, and its future is resolved. *)
AttemptEnds(a) ==
  /\ c.at[a] = "connecting"
  /\ \/ a \in c.open /\ c' = [c EXCEPT !.at[a] = "connected"]
     \/ c' = [c EXCEPT !.at[a] = "failed", !.open = @ \ {a}]
  /\ UNCHANGED <<how, ssl, timed, phase, result>>

CallConnectDone(a) ==
  /\ c.at[a] \in {"connected", "failed"}
  /\ FromLoop(OnConnectDone(c, a))

TimerFires ==
  /\ c.timer /\ FromLoop(OnTimeout(c))

OnConnectTimeout ==
  /\ c.deadline
  /\ FromLoop(CloseStreams([c EXCEPT !.deadline = FALSE,
                                     !.future = IF @ = "pending" THEN "timeout" ELSE @]))

(* connect() goes on with what the connector's future has. *)
Connected ==
  /\ phase = "connect" /\ c.future # "pending"
  /\ IF c.future = "stream" /\ ssl
     THEN phase' = "tls" /\ UNCHANGED result
     ELSE phase' = "done" /\ result' = c.future
  /\ UNCHANGED <<how, ssl, timed, c>>

(* start_tls: a failed handshake closes the stream, a late one does not. *)
TlsDone ==
  /\ phase = "tls" /\ phase' = "done"
  /\ \/ result' = "stream" /\ UNCHANGED c
     \/ result' = "error" /\ c' = [c EXCEPT !.open = @ \ {c.winner}]
     \/ timed /\ result' = "timeout" /\ UNCHANGED c
  /\ UNCHANGED <<how, ssl, timed>>

Next ==
  \/ Resolved \/ NotResolved \/ TimerFires \/ OnConnectTimeout \/ Connected \/ TlsDone
  \/ \E a \in Addrs : AttemptEnds(a) \/ CallConnectDone(a)

Spec == Init /\ [][Next]_vars

-----------------------------------------------------------------------------
(* The types of the variables. *)
TypeOK ==
  /\ how \in [Addrs -> {"slow", "inline", "raises"}]
  /\ phase \in {"resolve", "connect", "tls", "done"}
  /\ result \in {"pending", "stream", "error", "timeout"}
  /\ c.remaining \in 0..(2 * MaxAddrs)
  /\ c.open \subseteq c.addrs /\ c.streams \subseteq c.addrs

InFlight == {a \in Addrs : c.at[a] \in {"connecting", "connected", "failed"}}

(* connect() is always on its way to an end: an attempt, a timer or the    *)
(* deadline is there to come.  Where an attempt raised in the loop it is   *)
(* not: that one is never counted off, and without a deadline connect()    *)
(* waits for ever (source_ip with an address of the other family).         *)
AlwaysAnswered ==
  phase = "connect" /\ c.future = "pending" =>
    InFlight # {} \/ c.timer \/ c.deadline \/ c.escaped

(* A connection that nobody is given is closed: the one that is left open  *)
(* when connect() fails is that whose handshake came too late; and as soon *)
(* as there is a winner it is the only one that is open.                   *)
NoConnectionLeaks ==
  /\ phase = "done" /\ result # "stream" =>
       c.open \subseteq (IF result = "timeout" THEN {c.winner} ELSE {})
  /\ c.future = "stream" =>
       /\ c.winner \in c.open \/ result = "error"
       /\ c.open \subseteq {c.winner}

(* Each family has one attempt in flight, and an error is the answer only  *)
(* when every address was tried.                                           *)
AllTried ==
  /\ \A f \in Family : Cardinality({a \in InFlight : a[1] = f}) <= 1
  /\ c.future = "error" => c.remaining = 0 /\ InFlight = {}

ConnectorSound == AlwaysAnswered /\ NoConnectionLeaks /\ AllTried
=============================================================================
