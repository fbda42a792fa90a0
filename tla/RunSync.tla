-------------------------------- MODULE RunSync --------------------------------
(***************************************************************************)
(* tornado.ioloop.IOLoop.run_sync, called again and again on one loop:     *)
(* queue run(), start the loop, stop it when the future is done, or when   *)
(* the timeout finds a future it cannot cancel.  The loop runs batches, as *)
(* in EventLoop: the callbacks there were, then the timeouts that were     *)
(* due, and only then it looks whether it was stopped.  So a stop() that   *)
(* the done future queued may outlive its call.                            *)
(***************************************************************************)
EXTENDS Integers, Sequences

CONSTANTS
  MaxCalls,    \* bound of the calls of run_sync
  MaxTime      \* bound of the clock

VARIABLES
  call,      \* number of the call that runs, or ran last
  at,        \* "out", "batch", "due" or "wait"
  queue,     \* _callbacks: "run", "work", and stops with their call's number
  left,      \* what is left of the batch
  running,   \* the loop's _running
  future,    \* of the call: "none", "pending", "done", "cancelled"
  deadline,  \* of the call's timer, -1 if it has none or it is gone
  ripe,      \* the timer is among those the iteration found due
  now,       \* the clock
  outcome    \* what the last call answered

vars == <<call, at, queue, left, running, future, deadline, ripe, now, outcome>>

Run == [what |-> "run", of |-> 0]
Work == [what |-> "work", of |-> 0]
StopOf(n) == [what |-> "stop", of |-> n]
RelayOf(n) == [what |-> "relay", of |-> n]

Init ==
  /\ call = 0 /\ at = "out" /\ queue = <<>> /\ left = 0 /\ running = FALSE
  /\ future = "none" /\ deadline = -1 /\ ripe = FALSE /\ now = 0
  /\ outcome = "none"

(* With a timeout or without one; other work may be waiting in the loop.   *)
RunSync ==
  /\ at = "out" /\ call < MaxCalls
  /\ call' = call + 1
  /\ \E others \in {<<>>, <<Work>>} : queue' = queue \o <<Run>> \o others
  /\ deadline' \in {-1} \cup now + 1..MaxTime
  /\ future' = "none" /\ running' = TRUE /\ outcome' = "none"
  /\ at' = "wait"
  /\ UNCHANGED <<left, ripe, now>>

(* A new iteration, when there is something to do. *)
Gather ==
  /\ at = "wait"
  /\ queue # <<>> \/ deadline \in 0..now
  /\ left' = Len(queue)
  /\ ripe' = (deadline \in 0..now)
  /\ deadline' = IF ripe' THEN -1 ELSE deadline
  /\ at' = "batch"
  /\ UNCHANGED <<call, queue, running, future, now, outcome>>

(* The next of the batch is called, and queues what. *)
Pop(what) ==
  /\ at = "batch" /\ left > 0
  /\ left' = left - 1
  /\ queue' = Tail(queue) \o what
  /\ UNCHANGED <<call, at, deadline, ripe, now, outcome>>

(* run(): the function returns at once, and the stop is queued, or gives a *)
(* future to wait for.                                                     *)
CallRun ==
  /\ Head(queue) = Run
  /\ \/ Pop(<<StopOf(call)>>) /\ future' = "done"
     \/ Pop(<<>>) /\ future' = "pending"
  /\ UNCHANGED running

(* Work of the program's own, which may be what resolves the future: its   *)
(* done callbacks are queued.                                              *)
CallWork ==
  /\ Head(queue) = Work
  /\ \/ future = "pending" /\ future' = "done" /\ Pop(<<RelayOf(call)>>)
     \/ Pop(<<>>) /\ UNCHANGED future
  /\ UNCHANGED running

(* The done callback of add_future adds the callback that stops the loop.  *)
CallRelay ==
  /\ Head(queue).what = "relay"
  /\ Pop(<<StopOf(Head(queue).of)>>)
  /\ UNCHANGED <<future, running>>

CallStop ==
  /\ Head(queue).what = "stop"
  /\ Pop(<<>>)
  /\ running' = FALSE
  /\ UNCHANGED future

(* timeout_callback: cancel, and stop by itself only if that failed. *)
CallTimeout ==
  /\ at = "batch" /\ left = 0
  /\ at' = "due"
  /\ IF ~ripe THEN UNCHANGED <<queue, future, running>>
     ELSE IF future = "pending"
          THEN /\ future' = "cancelled" /\ queue' = Append(queue, RelayOf(call))
               /\ UNCHANGED running
          ELSE running' = FALSE /\ UNCHANGED <<queue, future>>
  /\ ripe' = FALSE
  /\ UNCHANGED <<call, left, deadline, now, outcome>>

(* The future is resolved by what a descriptor brings. *)
EventResolves ==
  /\ at = "wait" /\ future = "pending"
  /\ future' = "done" /\ queue' = Append(queue, RelayOf(call))
  /\ UNCHANGED <<call, at, left, running, deadline, ripe, now, outcome>>

(* Fault for the mutants: a future that is pending is taken for done. *)
LeaveAnyhow ==
  /\ at = "due"
  /\ IF running THEN at' = "wait" /\ UNCHANGED <<deadline, outcome>>
     ELSE at' = "out" /\ deadline' = -1 /\ outcome' = "result"
  /\ UNCHANGED <<call, queue, left, running, future, ripe, now>>

(* The loop goes on, or run_sync removes its timer and answers. *)
Leave ==
  /\ at = "due"
  /\ IF running THEN at' = "wait" /\ UNCHANGED <<deadline, outcome>>
     ELSE /\ at' = "out" /\ deadline' = -1
          /\ outcome' = IF future = "done" THEN "result" ELSE "timeout"
  /\ UNCHANGED <<call, queue, left, running, future, ripe, now>>

Tick ==
  /\ now < MaxTime
  /\ now' = now + 1
  /\ UNCHANGED <<call, at, queue, left, running, future, deadline, ripe, outcome>>

Next ==
  \/ RunSync \/ Gather \/ CallTimeout
  \/ queue # <<>> /\ (CallRun \/ CallWork \/ CallRelay \/ CallStop)
  \/ EventResolves \/ Leave \/ Tick

Spec == Init /\ [][Next]_vars

-----------------------------------------------------------------------------
(* The types of the variables. *)
TypeOK ==
  /\ call \in 0..MaxCalls /\ at \in {"out", "batch", "due", "wait"}
  /\ queue \in Seq({Run, Work} \cup {StopOf(n) : n \in 1..call} \cup {RelayOf(n) : n \in 1..call})
  /\ left \in 0..Len(queue) /\ running \in BOOLEAN /\ ripe \in BOOLEAN
  /\ future \in {"none", "pending", "done", "cancelled"}
  /\ deadline \in -1..MaxTime /\ now \in 0..MaxTime
  /\ outcome \in {"none", "result", "timeout"}

Ending(n) == {i \in DOMAIN queue : queue[i] \in {StopOf(n), RelayOf(n)}}

(* A result is only given once the yieldable is resolved; a call cannot be *)
(* left waiting for a stop that is not coming; and no call stops the loop  *)
(* twice.                                                                  *)
CallsEnd ==
  /\ outcome = "result" => future = "done"
  /\ at = "wait" /\ future \in {"done", "cancelled"} => Ending(call) # {}
  /\ \A n \in 1..call, i, j \in DOMAIN queue : {i, j} \subseteq Ending(n) => i = j

(* The docstring of run_sync says more, that the loop runs until the       *)
(* yieldable is resolved: a stop that an earlier call left behind ends a   *)
(* later one, which raises TimeoutError without a timeout.                 *)
=============================================================================
