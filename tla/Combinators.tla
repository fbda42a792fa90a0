------------------------------ MODULE Combinators ------------------------------
(***************************************************************************)
(* tornado.gen.WaitIterator, multi_future and with_timeout: what is made   *)
(* of several futures, or of a future and a timer.  A behaviour is of one  *)
(* of them, mode.  The callbacks of a future that becomes done are queued  *)
(* on the loop, so between its answer and their run the other futures, the *)
(* timer and whoever waits may act.                                        *)
(*                                                                         *)
(* An input that is an asyncio future may also be cancelled.  Asking it    *)
(* for its exception then raises, so chain_future's copy, and the callback *)
(* that called it, stop there; the loop logs it.                           *)
(***************************************************************************)
EXTENDS Integers, Sequences, FiniteSets

CONSTANTS
  N            \* number of input futures

VARIABLES
  mode,        \* "iterator", "multi" or "timeout"
  state,       \* of the inputs: "pending", "value", "error", "cancelled"
  queue,       \* inputs whose done callback is queued
  unfinished,  \* _unfinished, or unfinished_children
  finished,    \* _finished of the WaitIterator
  result,      \* the future that was returned: [is, of]; "dropped" is one
               \* that is pending but that next() could not return
  current,     \* current_future, 0 for None
  got,         \* what the consumer of the WaitIterator was given, in order
  timer        \* of with_timeout: "armed", "fired", "removed"

vars == <<mode, state, queue, unfinished, finished, result, current, got, timer>>

Inputs == IF mode = "timeout" THEN {1} ELSE 1..N

No == [is |-> "none", of |-> 0]
Dropped == [is |-> "dropped", of |-> 0]
Pending == [is |-> "pending", of |-> 0]
Cancelled == [is |-> "cancelled", of |-> 0]
Answer(f) == [is |-> state[f], of |-> f]

(* The lists that hold each of fs once, in their order. *)
ListsOf(fs) ==
  {s \in UNION {[1..n -> fs] : n \in 0..N} :
     /\ \A i, j \in DOMAIN s : i < j => s[i] < s[j]
     /\ \A f \in fs : \E i \in DOMAIN s : s[i] = f}

(* Futures that are done at once have had their callbacks called. *)
InitIterator ==
  /\ mode = "iterator"
  /\ state \in [1..N -> {"pending", "value", "error", "cancelled"}]
  /\ finished \in ListsOf({f \in 1..N : state[f] # "pending"})
  /\ unfinished = 1..N
  /\ result = No

InitMulti ==
  /\ mode = "multi"
  /\ state \in [1..N -> {"pending", "value", "error", "cancelled"}]
  /\ \E f \in 1..N : state[f] = "pending"
  /\ unfinished = {f \in 1..N : state[f] = "pending"}
  /\ finished = <<>>
  /\ result = Pending

InitTimeout ==
  /\ mode = "timeout"
  /\ state = [f \in 1..N |-> "pending"]
  /\ unfinished = {1} /\ finished = <<>>
  /\ result = Pending

Init ==
  /\ InitIterator \/ InitMulti \/ InitTimeout
  /\ queue = <<>> /\ current = 0 /\ got = <<>> /\ timer = "armed"

(* An input becomes done. *)
Resolve(f) ==
  /\ f \in Inputs /\ state[f] = "pending"
  /\ \E r \in {"value", "error", "cancelled"} : state' = [state EXCEPT ![f] = r]
  /\ queue' = Append(queue, f)
  /\ UNCHANGED <<mode, unfinished, finished, result, current, got, timer>>

(* Whoever holds the future that was returned cancels it. *)
CancelResult ==
  /\ result.is = "pending"
  /\ result' = Cancelled
  /\ UNCHANGED <<mode, state, queue, unfinished, finished, current, got, timer>>

-----------------------------------------------------------------------------
(* WaitIterator *)

(* _return_result makes told of the running future; of an input that was   *)
(* cancelled it raises first, and leaves it, current_future and            *)
(* _unfinished as they are.                                                *)
ReturnResult(f, told, untold) ==
  IF state[f] = "cancelled"
  THEN result' = untold /\ UNCHANGED <<current, unfinished>>
  ELSE result' = told /\ current' = f /\ unfinished' = unfinished \ {f}

(* next(), by a consumer that has seen to its last answer; when it raises, *)
(* the consumer has no future, but the iterator has one that runs.         *)
NextResult ==
  /\ mode = "iterator"
  /\ result.is \in {"none", "cancelled", "dropped"}
  /\ finished # <<>> \/ unfinished # {}
  /\ IF finished # <<>>
     THEN /\ ReturnResult(Head(finished), Answer(Head(finished)), Dropped)
          /\ finished' = Tail(finished)
     ELSE result' = Pending /\ UNCHANGED <<finished, current, unfinished>>
  /\ UNCHANGED <<mode, state, queue, got, timer>>

(* What a done callback makes of the running future: nobody hears of the   *)
(* answer of one that was dropped.                                         *)
Told(f) == IF result.is = "dropped" THEN No ELSE Answer(f)

(* Fault for the mutants: a future that is done is given the next answer.  *)
IteratorDoneAgain ==
  /\ mode = "iterator" /\ queue # <<>>
  /\ queue' = Tail(queue)
  /\ IF result.is # "none"
     THEN ReturnResult(Head(queue), Told(Head(queue)), result) /\ UNCHANGED finished
     ELSE finished' = Append(finished, Head(queue)) /\ UNCHANGED <<result, current, unfinished>>
  /\ UNCHANGED <<mode, state, got, timer>>

(* _done_callback: to the future that waits, or to _finished. *)
IteratorDone ==
  /\ mode = "iterator" /\ queue # <<>>
  /\ queue' = Tail(queue)
  /\ IF result.is \in {"pending", "dropped"}
     THEN ReturnResult(Head(queue), Told(Head(queue)), result) /\ UNCHANGED finished
     ELSE finished' = Append(finished, Head(queue)) /\ UNCHANGED <<result, current, unfinished>>
  /\ UNCHANGED <<mode, state, got, timer>>

(* The consumer runs with the answer, and looks at current_future. *)
Consume ==
  /\ mode = "iterator" /\ result.is \in {"value", "error"}
  /\ got' = Append(got, result.of)
  /\ result' = No
  /\ UNCHANGED <<mode, state, queue, unfinished, finished, current, timer>>

-----------------------------------------------------------------------------
(* multi_future *)

Failed == {f \in 1..N : state[f] \in {"error", "cancelled"}}
FirstFailed == CHOOSE f \in Failed : \A g \in Failed : f <= g

(* The last one sets the result: the first error, or the list.  The        *)
(* CancelledError of a cancelled child is an Exception like any other, or  *)
(* from Python 3.8 on none that the callback catches: then it ends here.   *)
MultiDone ==
  /\ mode = "multi" /\ queue # <<>>
  /\ queue' = Tail(queue)
  /\ unfinished' = unfinished \ {Head(queue)}
  /\ \/ /\ unfinished' # {} \/ result.is # "pending"
        /\ UNCHANGED result
     \/ /\ unfinished' = {} /\ result.is = "pending"
        /\ result' = IF Failed = {} THEN [is |-> "value", of |-> 0]
                     ELSE [is |-> "error", of |-> FirstFailed]
     \/ /\ unfinished' = {} /\ Failed # {} /\ state[FirstFailed] = "cancelled"
        /\ UNCHANGED result
  /\ UNCHANGED <<mode, state, finished, current, got, timer>>

-----------------------------------------------------------------------------
(* with_timeout *)

(* chain_future's copy, which gives nothing when the input was cancelled;  *)
(* then remove_timeout, in any case.                                       *)
TimeoutDone ==
  /\ mode = "timeout" /\ queue # <<>>
  /\ queue' = Tail(queue)
  /\ result' = IF result.is = "pending" /\ state[Head(queue)] # "cancelled"
               THEN Answer(Head(queue)) ELSE result
  /\ timer' = IF timer = "armed" THEN "removed" ELSE timer
  /\ unfinished' = {}
  /\ UNCHANGED <<mode, state, finished, current, got>>

(* timeout_callback, while the answer may be on its way already. *)
TimerFires ==
  /\ mode = "timeout" /\ timer = "armed"
  /\ timer' = "fired"
  /\ result' = IF result.is = "pending" THEN [is |-> "timeout", of |-> 0] ELSE result
  /\ UNCHANGED <<mode, state, queue, unfinished, finished, current, got>>

Next ==
  \/ \E f \in 1..N : Resolve(f)
  \/ CancelResult \/ NextResult \/ IteratorDone \/ Consume
  \/ MultiDone \/ TimeoutDone \/ TimerFires

Spec == Init /\ [][Next]_vars

-----------------------------------------------------------------------------
(* The types of the variables. *)
TypeOK ==
  /\ mode \in {"iterator", "multi", "timeout"}
  /\ state \in [1..N -> {"pending", "value", "error", "cancelled"}]
  /\ queue \in Seq(1..N) /\ finished \in Seq(1..N) /\ got \in Seq(1..N)
  /\ unfinished \subseteq 1..N /\ current \in 0..N
  /\ result.is \in {"none", "pending", "dropped", "cancelled", "value", "error", "timeout"}
  /\ timer \in {"armed", "fired", "removed"}

PlacesOf(s, f) == {i \in DOMAIN s : s[i] = f}

(* Where an input that is done is: queued, kept, on its way or given. *)
Seen(f) ==
  Cardinality(PlacesOf(queue, f)) + Cardinality(PlacesOf(finished, f))
  + Cardinality(PlacesOf(got, f))
  + (IF result.of = f /\ result.is \in {"value", "error"} THEN 1 ELSE 0)

(* A WaitIterator gives every future once, with current_future its own.    *)
(* An input that was cancelled it never gives, and it says of it that it   *)
(* is not finished; only after it has met such a one may an answer be lost.*)
IteratorGivesAll ==
  mode = "iterator" =>
    /\ result.is \in {"value", "error"} => current = result.of
    /\ \A f \in 1..N :
         /\ Seen(f) <= 1
         /\ state[f] = "cancelled" => f \in unfinished /\ PlacesOf(got, f) = {}
         /\ state[f] # "pending" /\ Seen(f) = 0 =>
              \E g \in 1..N : state[g] = "cancelled" /\ Seen(g) = 0

(* multi() answers when all are done, with the first error of the list in  *)
(* its order, whatever order they came in; and does answer then, unless    *)
(* the first that failed was cancelled.                                    *)
MultiAnswers ==
  mode = "multi" =>
    /\ result.is \in {"value", "error"} => \A f \in 1..N : state[f] # "pending"
    /\ result.is = "value" => Failed = {}
    /\ result.is = "error" => result.of \in Failed /\ \A f \in Failed : result.of <= f
    /\ unfinished = {} /\ result.is = "pending" =>
         \E f \in Failed : state[f] = "cancelled" /\ \A g \in Failed : f <= g

(* A future that timed out stays so when the answer comes, no timer is     *)
(* left behind by one that was answered, and none waits without a timer    *)
(* unless its input was cancelled.                                         *)
TimeoutAnswers ==
  mode = "timeout" =>
    /\ result.is = "timeout" => timer = "fired"
    /\ unfinished = {} => timer # "armed"
    /\ result.is = "pending" /\ timer # "armed" => state[1] = "cancelled"

CombinatorsSound == IteratorGivesAll /\ MultiAnswers /\ TimeoutAnswers
=============================================================================
