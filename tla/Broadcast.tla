------------------------------- MODULE Broadcast -------------------------------
(***************************************************************************)
(* Server.py, the TCP server of the command line clients: each connection  *)
(* has a loop that reads a command, runs it and writes its answer, and one *)
(* listener of a Redis channel writes every update to every connection.    *)
(*                                                                         *)
(* A line or an update is "good", or "bad": one that Command cannot        *)
(* decode, or knows no answer to, so that an exception comes of it.        *)
(***************************************************************************)
EXTENDS Integers, Sequences, FiniteSets, SequencesExt

CONSTANTS
  Client,
  MaxLines,      \* bound of the lines of a client
  MaxUpdates     \* bound of the updates that are published

VARIABLES
  listening,     \* the server accepts connections
  connections,   \* _connections
  c,             \* the connections and their streams
  listener,      \* "waiting", "updating", "failed" or "ended"
  awaited,       \* connections whose update() the listener waits for
  published,     \* the updates so far
  taken          \* how many of them the listener has taken

vars == <<listening, connections, c, listener, awaited, published, taken>>

Reply == 0       \* in what is written; an update is its number

Connection ==
  [ at |-> "none",      \* run: "none", "reading", "writing" or "over"
    open |-> FALSE,     \* the stream is
    lines |-> <<>>,     \* what was received and is not read yet
    sent |-> 0,         \* lines of the client so far
    run |-> 0,          \* commands that were run
    since |-> 0,        \* updates that had been taken when it connected
    out |-> <<>>, got |-> <<>> ]

Init ==
  /\ listening = TRUE /\ connections = {} /\ c = [x \in Client |-> Connection]
  /\ listener = "waiting" /\ awaited = {} /\ published = <<>> /\ taken = 0

-----------------------------------------------------------------------------
(* Connections *)

(* handle_stream, up to the first read. *)
Connect(x) ==
  /\ listening /\ c[x].at = "none"
  /\ c' = [c EXCEPT ![x].at = "reading", ![x].open = TRUE, ![x].since = taken]
  /\ connections' = connections \cup {x}
  /\ UNCHANGED <<listening, listener, awaited, published, taken>>

ClientSends(x, line) ==
  /\ c[x].open /\ c[x].sent < MaxLines
  /\ c' = [c EXCEPT ![x].lines = Append(@, line), ![x].sent = @ + 1]
  /\ UNCHANGED <<listening, connections, listener, awaited, published, taken>>

(* The stream is found closed.  What had come can still be read.           *)
ClientCloses(x) ==
  /\ c[x].open
  /\ c' = [c EXCEPT ![x].open = FALSE, ![x].out = <<>>]
  /\ UNCHANGED <<listening, connections, listener, awaited, published, taken>>

(* Writing to a closed stream raises, which run() and update() catch.      *)
Write(r, what) == IF r.open THEN [r EXCEPT !.out = Append(@, what)] ELSE r

Over(x, r) ==
  /\ c' = [c EXCEPT ![x] = [r EXCEPT !.at = "over"]]
  /\ connections' = connections \ {x}

(* run() reads a line, and processes it.                                   *)
ReadLine(x) ==
  /\ c[x].at = "reading" /\ c[x].lines # <<>>
  /\ LET r == [c[x] EXCEPT !.lines = Tail(@)]
     IN IF Head(c[x].lines) = "bad" THEN Over(x, r)
        ELSE /\ c' = [c EXCEPT ![x] = [Write(r, Reply) EXCEPT
                        !.run = @ + 1, !.at = IF r.open THEN "writing" ELSE "reading"]]
             /\ UNCHANGED connections
  /\ UNCHANGED <<listening, listener, awaited, published, taken>>

ReadFails(x) ==
  /\ c[x].at = "reading" /\ c[x].lines = <<>> /\ ~c[x].open
  /\ Over(x, c[x])
  /\ UNCHANGED <<listening, listener, awaited, published, taken>>

(* The client has taken the next thing that was written: the future of     *)
(* that write resolves.                                                    *)
Flushed(x) ==
  /\ c[x].out # <<>>
  /\ LET what == Head(c[x].out)
     IN /\ c' = [c EXCEPT ![x].out = Tail(@), ![x].got = Append(@, what),
                          ![x].at = IF what = Reply THEN "reading" ELSE @]
        /\ awaited' = IF what = Reply THEN awaited ELSE awaited \ {x}
  /\ UNCHANGED <<listening, connections, listener, published, taken>>

ReplyFails(x) ==
  /\ c[x].at = "writing" /\ ~c[x].open
  /\ c' = [c EXCEPT ![x].at = "reading"]
  /\ UNCHANGED <<listening, connections, listener, awaited, published, taken>>

-----------------------------------------------------------------------------
(* The listener *)

Publish(kind) ==
  /\ Len(published) < MaxUpdates /\ published' = Append(published, kind)
  /\ UNCHANGED <<listening, connections, c, listener, awaited, taken>>

(* Fault for the mutants: an update counts as soon as it is written. *)
AwaitsNobody(wrote) == {}

Awaits(wrote) == wrote

(* update() is called of every connection: all of them raise, or none.     *)
TakeUpdate ==
  /\ listener = "waiting" /\ taken < Len(published)
  /\ taken' = taken + 1
  /\ LET kind == published[taken + 1]
         wrote == {x \in connections : c[x].open}
     IN IF kind = "bad" /\ connections # {}
        THEN listener' = "failed" /\ UNCHANGED <<c, awaited>>
        ELSE /\ c' = [x \in Client |-> IF x \in connections /\ kind = "good"
                                       THEN Write(c[x], taken + 1) ELSE c[x]]
             /\ awaited' = IF kind = "good" THEN Awaits(wrote) ELSE {}
             /\ listener' = "updating"
  /\ UNCHANGED <<listening, connections, published>>

(* Fault for the mutants: the exception of a closed stream gets through. *)
UpdateRaises(x) ==
  /\ x \in awaited /\ ~c[x].open
  /\ awaited' = awaited \ {x} /\ listener' = "failed"
  /\ UNCHANGED <<listening, connections, c, published, taken>>

UpdateFails(x) ==
  /\ x \in awaited /\ ~c[x].open
  /\ awaited' = awaited \ {x}
  /\ UNCHANGED <<listening, connections, c, listener, published, taken>>

Updated ==
  /\ listener = "updating" /\ awaited = {}
  /\ listener' = "waiting"
  /\ UNCHANGED <<listening, connections, c, awaited, published, taken>>

(* Redis closes the channel, or shutdown does.                             *)
ChannelCloses ==
  /\ listener = "waiting" /\ taken = Len(published)
  /\ listener' = "ended" /\ listening' \in {FALSE, listening}
  /\ UNCHANGED <<connections, c, awaited, published, taken>>

Next ==
  \/ \E x \in Client : \/ Connect(x) \/ ClientCloses(x) \/ ReadLine(x) \/ ReadFails(x)
                       \/ Flushed(x) \/ ReplyFails(x) \/ UpdateFails(x)
                       \/ \E line \in {"good", "bad"} : ClientSends(x, line)
  \/ \E kind \in {"good", "bad"} : Publish(kind)
  \/ TakeUpdate \/ Updated \/ ChannelCloses

Spec == Init /\ [][Next]_vars

-----------------------------------------------------------------------------

TypeOK ==
  /\ listening \in BOOLEAN /\ connections \subseteq Client
  /\ \A x \in Client :
       /\ c[x].at \in {"none", "reading", "writing", "over"} /\ c[x].open \in BOOLEAN
       /\ c[x].run \in 0..MaxLines
       /\ ToSet(c[x].out) \cup ToSet(c[x].got) \subseteq 0..MaxUpdates
  /\ listener \in {"waiting", "updating", "failed", "ended"} /\ awaited \subseteq Client
  /\ ToSet(published) \subseteq {"good", "bad"} /\ taken \in 0..Len(published)

(* All that was written to a client, in order. *)
Stream(r) == r.got \o r.out

Replies(w) == Cardinality({k \in 1..Len(w) : w[k] = Reply})

(* Its updates are in order. *)
Rises(w) == \A i, j \in 1..Len(w) : i < j => w[i] < w[j] \/ Reply \in {w[i], w[j]}
(* A client whose loop runs gets every good update since it connected, in  *)
(* order, and a reply to each command that was run, however both are       *)
(* interleaved in its stream (ClientConnection.run and update, Server.py   *)
(* 27-69).                                                                 *)
NothingMissed ==
  \A x \in Client : c[x].open /\ c[x].at \in {"reading", "writing"} =>
    /\ ToSet(Stream(c[x])) \ {Reply} = {n \in c[x].since + 1..taken : published[n] = "good"}
    /\ Rises(Stream(c[x])) /\ Replies(Stream(c[x])) = c[x].run

(* The listener waits for the slowest: what is written and not yet taken   *)
(* by a client is one update and one reply at most.                        *)
BufferBounded ==
  \A x \in Client : /\ Cardinality({k \in 1..Len(c[x].out) : c[x].out[k] # Reply}) <= 1
                    /\ Cardinality({k \in 1..Len(c[x].out) : c[x].out[k] = Reply}) <= 1

(* Nothing that a client does, and no connection that breaks, ends the     *)
(* listener (listen_redis, Server.py 109-128): a bad update does.          *)
ListenerLives ==
  /\ listener = "failed" => published[taken] = "bad"
  /\ awaited # {} => listener = "updating"

BroadcastSound == NothingMissed /\ BufferBounded /\ ListenerLives
=============================================================================
