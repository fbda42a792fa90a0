------------------------------- MODULE Executors -------------------------------
(***************************************************************************)
(* Futures that are answered from elsewhere: work of a thread pool, which  *)
(* the loop waits for through chain_future (IOLoop.run_in_executor) or     *)
(* with a callback (run_on_executor), and functions that answer through a  *)
(* callback of their own (return_future).  The threads end their work at   *)
(* any moment, also between two steps of the thread of the loop; whoever   *)
(* waits may cancel.                                                       *)
(***************************************************************************)
EXTENDS Integers, Sequences, FiniteSets, SequencesExt

CONSTANTS
  Call,          \* calls, of which each has a kind
  Threads        \* threads of the pool

VARIABLES
  kind,          \* of a call, one of Kinds
  work,          \* what became of it: the future of the pool, or the function
  watch,         \* "none", "checked" (it was not done, and add_done_callback
                 \* comes next) or "added"
  answer,        \* the future that the caller holds
  queue,         \* callbacks of the loop
  called,        \* of a call: how often the caller's callback ran
  cancelled      \* calls that were cancelled

vars == <<kind, work, watch, answer, queue, called, cancelled>>

Kinds == {"in executor", "in dummy", "on executor", "return_future"}
Done == {"result", "exception", "cancelled"}

Init ==
  /\ kind \in [Call -> Kinds]
  /\ work = [x \in Call |-> "none"] /\ watch = [x \in Call |-> "none"]
  /\ answer = [x \in Call |-> "none"] /\ queue = <<>>
  /\ called = [x \in Call |-> 0] /\ cancelled = {}

(* What is done once the work of x is: the chain goes on, or the callback. *)
WhenDone(x) == IF kind[x] \in {"in executor", "in dummy"} THEN <<"chain", x>> ELSE <<"callback", x>>

IdleThread ==
  Cardinality({x \in Call : kind[x] # "return_future" /\ work[x] = "running"}) < Threads

-----------------------------------------------------------------------------
(* Calls *)

(* submit, and future_add_done_callback up to its test of done().          *)
Submit(x) ==
  /\ kind[x] \in {"in executor", "on executor"} /\ work[x] = "none"
  /\ work' = [work EXCEPT ![x] = "pending"]
  /\ answer' = [answer EXCEPT ![x] = "waiting"]
  /\ watch' = [watch EXCEPT ![x] = "checked"]
  /\ UNCHANGED <<kind, queue, called, cancelled>>

(* ... or the work was done by then.                                       *)
SubmitSlowly(x) ==
  /\ kind[x] \in {"in executor", "on executor"} /\ work[x] = "none"
  /\ \E outcome \in {"result", "exception"} :
       /\ work' = [work EXCEPT ![x] = outcome]
       /\ answer' = [answer EXCEPT ![x] = IF kind[x] = "on executor" THEN outcome ELSE "waiting"]
  /\ IdleThread /\ \A y \in Call : work[y] # "pending"
  /\ queue' = Append(queue, WhenDone(x))
  /\ UNCHANGED <<kind, watch, called, cancelled>>

AddDoneCallback(x) ==
  /\ watch[x] = "checked"
  /\ watch' = [watch EXCEPT ![x] = "added"]
  /\ queue' = IF work[x] \in Done THEN Append(queue, WhenDone(x)) ELSE queue
  /\ UNCHANGED <<kind, work, answer, called, cancelled>>

(* DummyExecutor does the work at once.                                    *)
SubmitToDummy(x) ==
  /\ kind[x] = "in dummy" /\ work[x] = "none"
  /\ \E outcome \in {"result", "exception"} : work' = [work EXCEPT ![x] = outcome]
  /\ answer' = [answer EXCEPT ![x] = "waiting"]
  /\ queue' = Append(queue, WhenDone(x))
  /\ UNCHANGED <<kind, watch, called, cancelled>>

(* A function with @return_future answers now, fails now, which is raised  *)
(* to the caller and not told to the callback, or will answer later.       *)
ReturnFuture(x) ==
  /\ kind[x] = "return_future" /\ work[x] = "none"
  /\ \E outcome \in {"running", "result", "exception"} :
       /\ work' = [work EXCEPT ![x] = outcome]
       /\ answer' = [answer EXCEPT ![x] = IF outcome = "running" THEN "waiting" ELSE outcome]
       /\ called' = [called EXCEPT ![x] = IF outcome = "result" THEN 1 ELSE 0]
       /\ watch' = [watch EXCEPT ![x] = IF outcome = "running" THEN "added" ELSE "none"]
  /\ UNCHANGED <<kind, queue, cancelled>>

(* The function calls its callback later, or fails, which its stack context *)
(* gives to the future; what comes for a cancelled one is dropped.         *)
CallsBack(x) ==
  /\ kind[x] = "return_future" /\ work[x] = "running"
  /\ \E outcome \in {"result", "exception"} :
       /\ work' = [work EXCEPT ![x] = outcome]
       /\ answer' = [answer EXCEPT ![x] = IF @ = "waiting" THEN outcome ELSE @]
       /\ queue' = IF answer[x] = "waiting" THEN Append(queue, <<"callback", x>>) ELSE queue
  /\ UNCHANGED <<kind, watch, called, cancelled>>

-----------------------------------------------------------------------------
(* The threads *)

(* The future of a call with a callback is that of the pool.               *)
Answers(x, outcome) == IF kind[x] = "on executor" THEN [answer EXCEPT ![x] = outcome] ELSE answer

StartWork(x) ==
  /\ kind[x] # "return_future" /\ work[x] = "pending"
  /\ IdleThread
  /\ work' = [work EXCEPT ![x] = "running"]
  /\ UNCHANGED <<kind, watch, answer, queue, called, cancelled>>

EndWork(x) ==
  /\ kind[x] # "return_future" /\ work[x] = "running"
  /\ \E outcome \in {"result", "exception"} :
       work' = [work EXCEPT ![x] = outcome] /\ answer' = Answers(x, outcome)
  /\ queue' = IF watch[x] = "added" THEN Append(queue, WhenDone(x)) ELSE queue
  /\ UNCHANGED <<kind, watch, called, cancelled>>

-----------------------------------------------------------------------------
(* The caller and the loop *)

(* Work that has begun cannot be cancelled; a future that waits for it can. *)
Cancel(x) ==
  /\ answer[x] = "waiting" /\ (kind[x] = "on executor" => work[x] = "pending")
  /\ watch[x] # "checked"
  /\ cancelled' = cancelled \cup {x}
  /\ answer' = [answer EXCEPT ![x] = "cancelled"]
  /\ IF kind[x] = "in executor" \/ kind[x] = "in dummy" THEN UNCHANGED <<work, queue>>
     ELSE /\ work' = IF kind[x] = "on executor" THEN [work EXCEPT ![x] = "cancelled"] ELSE work
          /\ queue' = Append(queue, <<"callback", x>>)
  /\ UNCHANGED <<kind, watch, called>>

(* Fault for the mutants: what was answered or cancelled is answered again. *)
CopyAnyway(x) == [answer EXCEPT ![x] = work[x]]

(* chain_future's copy *)
Copy(x) == IF answer[x] \in Done THEN answer ELSE [answer EXCEPT ![x] = work[x]]

RunCallback ==
  /\ queue # <<>>
  /\ LET what == Head(queue)[1]
         x == Head(queue)[2]
     IN \/ /\ what = "chain" /\ kind[x] = "in executor"
           /\ queue' = Append(Tail(queue), <<"copy", x>>) /\ UNCHANGED <<answer, called>>
        \/ /\ what = "copy" \/ (what = "chain" /\ kind[x] = "in dummy")
           /\ answer' = Copy(x) /\ queue' = Tail(queue) /\ UNCHANGED called
        \/ /\ what = "callback"
           /\ called' = [called EXCEPT ![x] = IF answer[x] = "result" THEN @ + 1 ELSE @]
           /\ queue' = Tail(queue) /\ UNCHANGED answer
  /\ UNCHANGED <<kind, work, watch, cancelled>>

Next ==
  \/ \E x \in Call : \/ Submit(x) \/ SubmitSlowly(x) \/ AddDoneCallback(x) \/ SubmitToDummy(x)
                     \/ ReturnFuture(x) \/ CallsBack(x) \/ StartWork(x) \/ EndWork(x) \/ Cancel(x)
  \/ RunCallback

Spec == Init /\ [][Next]_vars

-----------------------------------------------------------------------------

TypeOK ==
  /\ kind \in [Call -> Kinds]
  /\ work \in [Call -> {"none", "pending", "running"} \cup Done]
  /\ watch \in [Call -> {"none", "checked", "added"}]
  /\ answer \in [Call -> {"none", "waiting"} \cup Done]
  /\ called \in [Call -> 0..1] /\ cancelled \subseteq Call

InQueue(x) == \E i \in 1..Len(queue) : queue[i][2] = x

(* Once the work is done and the loop has run what came of it, the caller  *)
(* has the outcome, at whatever step the thread ended (future_add_done_callback, *)
(* chain_future, concurrent.py 526-599); a call is told once, and only a   *)
(* result.                                                                 *)
OutcomeArrives ==
  \A x \in Call :
    work[x] \in Done /\ watch[x] # "checked" /\ ~InQueue(x) =>
      IF x \in cancelled THEN answer[x] = "cancelled" /\ called[x] = 0
      ELSE /\ answer[x] = work[x]
           /\ kind[x] \in {"on executor", "return_future"} =>
                called[x] = IF work[x] = "result" THEN 1 ELSE 0

(* A future that was cancelled stays so, whatever comes later.             *)
CancelledStays == \A x \in cancelled : answer[x] = "cancelled"

(* Answers from threads and callbacks arrive once. *)
ExecutorsSound == OutcomeArrives /\ CancelledStays
=============================================================================
