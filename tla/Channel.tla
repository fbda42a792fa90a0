------------------------------- MODULE Channel -------------------------------
(***************************************************************************)
(* What tornado.queues promises: items that were put and not yet taken     *)
(* stand in a line; a get takes each at most once, the first of the line   *)
(* when the queue is first-in first-out, and an item leaves the line       *)
(* untaken only when the put that still waits for room with it gives up.   *)
(***************************************************************************)
EXTENDS Integers, Sequences, SequencesExt

CONSTANTS Item, Taker, Nothing, MaxWait

VARIABLES
  fifo,   \* is the queue first-in first-out?
  room,   \* items it holds at most, 0 for no bound
  line,   \* items put and not taken, those waiting for room last
  taken   \* the item each get received

vars == <<fifo, room, line, taken>>

Init ==
  /\ fifo \in BOOLEAN
  /\ room \in 0..MaxWait
  /\ line = <<>>
  /\ taken = [t \in Taker |-> Nothing]

Unseen(p) == p \notin Range(line) /\ \A t \in Taker : taken[t] # p

Put(p) ==
  /\ Unseen(p)
  /\ line' = Append(line, p)
  /\ UNCHANGED <<fifo, room, taken>>

(* A get that waits receives the item at once. *)
Hand(p, t) ==
  /\ Unseen(p)
  /\ line = <<>> /\ taken[t] = Nothing
  /\ taken' = [taken EXCEPT ![t] = p]
  /\ UNCHANGED <<fifo, room, line>>

Take(t) ==
  /\ taken[t] = Nothing
  /\ \E i \in DOMAIN line :
       /\ fifo => i = 1
       /\ room > 0 => i <= room + 1
       /\ taken' = [taken EXCEPT ![t] = line[i]]
       /\ line' = RemoveAt(line, i)
  /\ UNCHANGED <<fifo, room>>

GiveUp ==
  /\ room > 0
  /\ \E i \in DOMAIN line : i > room /\ line' = RemoveAt(line, i)
  /\ UNCHANGED <<fifo, room, taken>>

Next ==
  \/ \E p \in Item : Put(p) \/ \E t \in Taker : Hand(p, t)
  \/ \E t \in Taker : Take(t)
  \/ GiveUp

Spec == Init /\ [][Next]_vars
=============================================================================
