------------------------------ MODULE Semaphores -----------------------------
(***************************************************************************)
(* tornado.locks: Semaphore, BoundedSemaphore and Lock (the bounded        *)
(* semaphore of one permit).  acquire returns a future; a waiting one      *)
(* stands in _waiters until release grants it a permit, its timeout fires  *)
(* or its caller cancels it.  A dead waiter stays in the deque until       *)
(* release meets it or _garbage_collect sweeps it away.                    *)
(***************************************************************************)
EXTENDS Integers, Sequences, FiniteSets

CONSTANTS
  Acquire,     \* calls of acquire
  MaxInitial,  \* bound of the initial value
  MaxExtra,    \* bound of the releases by callers that hold no permit
  GCAfter      \* timeouts _garbage_collect tolerates, 100 in the code

SemaphoresAssumption ==
  MaxInitial \in Nat /\ MaxExtra \in Nat /\ GCAfter \in Nat

VARIABLES
  initial,   \* _initial_value
  bounded,   \* is it a BoundedSemaphore?
  value,     \* _value
  waiters,   \* _waiters
  timeouts,  \* _timeouts
  call,      \* the future of each acquire; "held" until its permit is released
  armed,     \* futures whose timeout is set
  extra      \* releases without a permit so far

vars == <<initial, bounded, value, waiters, timeouts, call, armed, extra>>

Init ==
  /\ initial \in 0..MaxInitial /\ bounded \in BOOLEAN
  /\ value = initial
  /\ waiters = <<>>
  /\ timeouts = 0
  /\ call = [a \in Acquire |-> "none"]
  /\ armed = {}
  /\ extra = 0

Pending(a) == call[a] = "pending"
Holders == {a \in Acquire : call[a] = "held"}

AcquireNow(a) ==
  /\ call[a] = "none"
  /\ value > 0
  /\ value' = value - 1
  /\ call' = [call EXCEPT ![a] = "held"]
  /\ UNCHANGED <<initial, bounded, waiters, timeouts, armed, extra>>

AcquireWaits(a) ==
  /\ call[a] = "none"
  /\ value = 0
  /\ waiters' = Append(waiters, a)
  /\ call' = [call EXCEPT ![a] = "pending"]
  /\ armed' \in {armed, armed \cup {a}}
  /\ UNCHANGED <<initial, bounded, value, timeouts, extra>>

(* Fault for the mutants: the permit goes to the head, dead or not. *)
FirstWaiter(ws) == 1

(* The loop of release: dead waiters are dropped, the first live one gets  *)
(* the permit (a future that is done would not take it); with none, the    *)
(* value goes up.                                                          *)
FirstPending(ws) ==
  CHOOSE i \in 1..Len(ws) + 1 :
    /\ \A j \in 1..i - 1 : ~Pending(ws[j])
    /\ i <= Len(ws) => Pending(ws[i])

WakeOne(ended) ==
  LET i == FirstPending(waiters) IN
  /\ waiters' = SubSeq(waiters, i + 1, Len(waiters))
  /\ IF i <= Len(waiters)
     THEN /\ UNCHANGED value
          /\ call' = [a \in Acquire |-> IF a = waiters[i] /\ Pending(a) THEN "held"
                                        ELSE IF a \in ended THEN "released" ELSE call[a]]
     ELSE /\ value' = value + 1
          /\ call' = [a \in Acquire |-> IF a \in ended THEN "released" ELSE call[a]]
  /\ UNCHANGED <<initial, bounded, timeouts, armed>>

(* BoundedSemaphore, and so Lock, refuses to go past the initial value. *)
MayRelease == bounded => value < initial

(* The holder releases, by hand or as _ReleasingContextManager exits. *)
Release(a) ==
  /\ call[a] = "held"
  /\ MayRelease
  /\ WakeOne({a})
  /\ UNCHANGED extra

(* Somebody releases what it does not hold; extra counts what is accepted. *)
ReleaseExtra ==
  /\ extra < MaxExtra
  /\ MayRelease
  /\ WakeOne({})
  /\ extra' = extra + 1

(* Fault for the mutants: the count starts again without a sweep. *)
GarbageCollectNothing(cs) ==
  timeouts' = (IF timeouts + 1 > GCAfter THEN 0 ELSE timeouts + 1) /\ UNCHANGED waiters

(* The items of ws that are in S. *)
Kept(ws, S) ==
  LET at == {i \in DOMAIN ws : ws[i] \in S}
  IN [k \in 1..Cardinality(at) |->
        ws[CHOOSE i \in at : Cardinality({j \in at : j <= i}) = k]]

(* on_timeout, _garbage_collect included; the future may have been         *)
(* resolved in the same iteration of the loop.                             *)
GarbageCollect(cs) ==
  IF timeouts + 1 > GCAfter
  THEN /\ timeouts' = 0
       /\ waiters' = Kept(waiters, {w \in Acquire : cs[w] = "pending"})
  ELSE timeouts' = timeouts + 1 /\ UNCHANGED waiters

Timeout(a) ==
  LET cs == [call EXCEPT ![a] = IF @ = "pending" THEN "timeout" ELSE @] IN
  /\ a \in armed
  /\ armed' = armed \ {a}
  /\ call' = cs
  /\ GarbageCollect(cs)
  /\ UNCHANGED <<initial, bounded, value, extra>>

Disarm(a) ==
  /\ a \in armed /\ ~Pending(a)
  /\ armed' = armed \ {a}
  /\ UNCHANGED <<initial, bounded, value, waiters, timeouts, call, extra>>

Cancel(a) ==
  /\ Pending(a)
  /\ call' = [call EXCEPT ![a] = "cancelled"]
  /\ UNCHANGED <<initial, bounded, value, waiters, timeouts, armed, extra>>

Next ==
  \/ \E a \in Acquire :
       AcquireNow(a) \/ AcquireWaits(a) \/ Release(a) \/ Timeout(a) \/ Disarm(a) \/ Cancel(a)
  \/ ReleaseExtra

Spec == Init /\ [][Next]_vars

-----------------------------------------------------------------------------
(* Properties *)

(* The types of the variables. *)
TypeOK ==
  /\ initial \in 0..MaxInitial /\ bounded \in BOOLEAN
  /\ value \in Nat /\ timeouts \in 0..GCAfter /\ extra \in 0..MaxExtra
  /\ waiters \in Seq(Acquire)
  /\ call \in [Acquire -> {"none", "pending", "held", "released", "timeout", "cancelled"}]
  /\ armed \subseteq Acquire

(* No permit is lost or made: those held and those free are the initial    *)
(* ones and what was released without one, a bounded semaphore never has   *)
(* more than it began with free, and none is free while somebody waits.    *)
PermitsConserved ==
  /\ value + Cardinality(Holders) = initial + extra
  /\ bounded => value <= initial
  /\ \A a \in Acquire : Pending(a) => value = 0

(* Whoever waits is in the deque, where a release can reach it, and        *)
(* sweeping bounds those in it that have timed out.                        *)
WaitersSwept ==
  /\ \A a \in Acquire : Pending(a) => \E i \in DOMAIN waiters : waiters[i] = a
  /\ Cardinality({i \in DOMAIN waiters : call[waiters[i]] = "timeout"}) <= timeouts

(* A permit goes to the one who has waited longest. *)
LongestWaitingFirst ==
  \A i, j \in DOMAIN waiters :
    i < j /\ Pending(waiters[i]) /\ Pending(waiters[j]) /\ call'[waiters[j]] = "held"
      => call'[waiters[i]] # "pending"
FirstComeFirstServed == [][LongestWaitingFirst]_vars
=============================================================================
