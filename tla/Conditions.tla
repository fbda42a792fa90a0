------------------------------ MODULE Conditions -----------------------------
(***************************************************************************)
(* tornado.locks: Condition and Event.  Each wait of a condition has a     *)
(* future of its own in _waiters.  All waits of an event share its         *)
(* _future, which clear replaces; a wait with a timeout watches the shared *)
(* future through gen.with_timeout.  Resolving a future only schedules the *)
(* coroutine that waits: it runs in a later iteration of the loop, when    *)
(* the event may have been cleared again.  Whoever was given the shared    *)
(* future may cancel it: the event then counts as set.                     *)
(***************************************************************************)
EXTENDS Integers, Sequences, FiniteSets

CONSTANTS
  Wait,       \* calls of Condition.wait
  EventWait,  \* calls of Event.wait
  MaxClear,   \* bound of how often the event is cleared
  GCAfter     \* timeouts _garbage_collect tolerates, 100 in the code

VARIABLES
  waiters, timeouts, call, armed,  \* of the condition
  generation,  \* which _future the event has
  set,         \* the generations whose future is done
  gone,        \* those of them whose future was cancelled
  ecall,       \* the future each wait of the event returned
  watches      \* the generation it waits for

condition == <<waiters, timeouts, call, armed>>
event == <<generation, set, gone, ecall, watches>>
vars == <<waiters, timeouts, call, armed, generation, set, gone, ecall, watches>>

Init ==
  /\ waiters = <<>> /\ timeouts = 0
  /\ call = [w \in Wait |-> "none"] /\ armed = {}
  /\ generation = 0 /\ set = {} /\ gone = {}
  /\ ecall = [w \in EventWait |-> "none"]
  /\ watches = [w \in EventWait |-> 0]

-----------------------------------------------------------------------------
(* Condition *)

Pending(w) == call[w] = "pending"

CallWait(w) ==
  /\ call[w] = "none"
  /\ call' = [call EXCEPT ![w] = "pending"]
  /\ waiters' = Append(waiters, w)
  /\ armed' \in {armed, armed \cup {w}}
  /\ UNCHANGED timeouts /\ UNCHANGED event

(* The places notify(n) takes from the deque: up to the n-th live waiter. *)
(* Fault for the mutants: dead waiters count against n. *)
ReachPlaces(n) == IF n < Len(waiters) THEN n ELSE Len(waiters)

LiveUpTo(i) == Cardinality({j \in 1..i : Pending(waiters[j])})

Reach(n) ==
  CHOOSE i \in 0..Len(waiters) :
    /\ LiveUpTo(i) <= n
    /\ i < Len(waiters) => LiveUpTo(i) = n
    /\ i > 0 /\ LiveUpTo(i) = n => LiveUpTo(i - 1) < n

Notify(n) ==
  LET i == Reach(n) IN
  /\ waiters' = SubSeq(waiters, i + 1, Len(waiters))
  /\ call' = [w \in Wait |-> IF Pending(w) /\ \E j \in 1..i : waiters[j] = w
                             THEN "notified" ELSE call[w]]
  /\ UNCHANGED <<timeouts, armed>> /\ UNCHANGED event

NotifyAll == Notify(Len(waiters))

(* The items of ws that are in S. *)
Kept(ws, S) ==
  LET at == {i \in DOMAIN ws : ws[i] \in S}
  IN [k \in 1..Cardinality(at) |->
        ws[CHOOSE i \in at : Cardinality({j \in at : j <= i}) = k]]

(* on_timeout: False, unless it was notified in the same iteration. *)
Timeout(w) ==
  LET cs == [call EXCEPT ![w] = IF @ = "pending" THEN "timeout" ELSE @] IN
  /\ w \in armed
  /\ armed' = armed \ {w}
  /\ call' = cs
  /\ IF timeouts + 1 > GCAfter
     THEN timeouts' = 0 /\ waiters' = Kept(waiters, {v \in Wait : cs[v] = "pending"})
     ELSE timeouts' = timeouts + 1 /\ UNCHANGED waiters
  /\ UNCHANGED event

Disarm(w) ==
  /\ w \in armed /\ ~Pending(w)
  /\ armed' = armed \ {w}
  /\ UNCHANGED <<waiters, timeouts, call>> /\ UNCHANGED event

Cancel(w) ==
  /\ Pending(w)
  /\ call' = [call EXCEPT ![w] = "cancelled"]
  /\ UNCHANGED <<waiters, timeouts, armed>> /\ UNCHANGED event

-----------------------------------------------------------------------------
(* Event *)

IsSet == generation \in set

Set ==
  /\ ~IsSet
  /\ set' = set \cup {generation}
  /\ UNCHANGED <<generation, gone, ecall, watches>> /\ UNCHANGED condition

Clear ==
  /\ IsSet
  /\ generation < MaxClear
  /\ generation' = generation + 1
  /\ UNCHANGED <<set, gone, ecall, watches>> /\ UNCHANGED condition

(* With a timeout, chain_future's copy is called at once on a future that  *)
(* is done, and raises if that was cancelled.                              *)
CallEventWait(w) ==
  /\ ecall[w] = "none"
  /\ \/ ecall' = [ecall EXCEPT ![w] = "shared"]
     \/ ecall' = [ecall EXCEPT ![w] = IF generation \in gone THEN "cancelled" ELSE "timed"]
  /\ watches' = [watches EXCEPT ![w] = generation]
  /\ UNCHANGED <<generation, set, gone>> /\ UNCHANGED condition

(* The coroutine goes on: the future it watches is done.  One with a       *)
(* timeout whose watched future was cancelled does not: copy raises, and   *)
(* remove_timeout takes its timer away.                                    *)
Resume(w) ==
  /\ ecall[w] \in {"shared", "timed"}
  /\ watches[w] \in set
  /\ ecall' = [ecall EXCEPT ![w] = IF watches[w] \notin gone THEN "resumed"
                                   ELSE IF @ = "shared" THEN "cancelled" ELSE "lost"]
  /\ UNCHANGED <<generation, set, gone, watches>> /\ UNCHANGED condition

(* The timeout of with_timeout fires; the shared future is left alone.     *)
EventTimeout(w) ==
  /\ ecall[w] = "timed"
  /\ ecall' = [ecall EXCEPT ![w] = "timeout"]
  /\ UNCHANGED <<generation, set, gone, watches>> /\ UNCHANGED condition

(* The caller cancels the future it was given: with a timeout its own,     *)
(* without one that of everybody who waits.                                *)
EventCancel(w) ==
  /\ \/ /\ ecall[w] \in {"timed", "lost"}
        /\ ecall' = [ecall EXCEPT ![w] = "cancelled"]
        /\ UNCHANGED <<set, gone>>
     \/ /\ ecall[w] = "shared" /\ watches[w] \notin set
        /\ set' = set \cup {watches[w]} /\ gone' = gone \cup {watches[w]}
        /\ UNCHANGED ecall
  /\ UNCHANGED <<generation, watches>> /\ UNCHANGED condition

Next ==
  \/ \E w \in Wait : CallWait(w) \/ Timeout(w) \/ Disarm(w) \/ Cancel(w)
  \/ \E n \in 1..Cardinality(Wait) : Notify(n)
  \/ NotifyAll \/ Set \/ Clear
  \/ \E w \in EventWait : CallEventWait(w) \/ Resume(w) \/ EventTimeout(w) \/ EventCancel(w)

Spec == Init /\ [][Next]_vars

-----------------------------------------------------------------------------
(* Properties *)

(* The types of the variables. *)
TypeOK ==
  /\ waiters \in Seq(Wait) /\ timeouts \in 0..GCAfter
  /\ call \in [Wait -> {"none", "pending", "notified", "timeout", "cancelled"}]
  /\ armed \subseteq Wait
  /\ generation \in 0..MaxClear /\ set \subseteq 0..MaxClear /\ gone \subseteq set
  /\ ecall \in [EventWait -> {"none", "shared", "timed", "resumed", "timeout", "cancelled", "lost"}]
  /\ watches \in [EventWait -> 0..MaxClear]

(* A wait that is not over is in the deque, and none is left on a future   *)
(* of the event that clear replaced before it was set.  Only a cancel of   *)
(* the shared future loses a wait.                                         *)
WaitersReachable ==
  /\ \A w \in Wait : Pending(w) => \E i \in DOMAIN waiters : waiters[i] = w
  /\ \A w \in EventWait :
       /\ ecall[w] \in {"shared", "timed"} => watches[w] \in set \cup {generation}
       /\ ecall[w] = "lost" => watches[w] \in gone

(* notify(n) wakes n waiters, or all there are, those that waited longest, *)
(* and wastes nothing on waiters that timed out or were cancelled.         *)
NotifyWakes ==
  \A n \in 1..Cardinality(Wait) : Notify(n) =>
    LET woken == {w \in Wait : Pending(w) /\ call'[w] = "notified"}
        left == {w \in Wait : Pending(w) /\ call'[w] = "pending"}
    IN /\ Cardinality(woken) <= n
       /\ Cardinality(woken) = n \/ left = {}
       /\ \A i, j \in DOMAIN waiters :
            waiters[i] \in left /\ waiters[j] \in woken => j < i
NotifyNotWasted == [][NotifyWakes]_vars
=============================================================================
