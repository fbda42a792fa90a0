------------------------------- MODULE Coroutines -------------------------------
(***************************************************************************)
(* tornado.gen.Runner: how one coroutine is resumed.  It yields futures,   *)
(* None, Callback(k) and Wait(k), or something that cannot be yielded, and *)
(* is run again by callbacks on the loop, by the callbacks of its keys and *)
(* by exceptions of its stack context.  Many of these runs find nothing to *)
(* do, as run() looks at self.future again each time.                      *)
(*                                                                         *)
(* An exception that reaches a Runner whose yield point still waits is not *)
(* modelled: the yield point then answers a later yield.                   *)
(***************************************************************************)
EXTENDS Integers, FiniteSets

CONSTANTS
  Futures,     \* what others resolve
  Keys,        \* of Callback and Wait
  MaxYields    \* bound of the yields

None == "none"

VARIABLES
  pc,          \* "gen": the generator runs; "loop": run() is at its loop;
               \* "parked"; "finished"
  future,      \* self.future: one of Futures, "own", "moment" or None
  own,         \* the future the Runner made: "pending", "value", "error"
  state,       \* of each of Futures
  inner,       \* futures that will queue a run when they are done
  runs,        \* runs that are queued on the loop
  starting,    \* yield point whose start is queued
  point,       \* self.yield_point, a key that is waited for
  context,     \* the stack context of yield points is there
  pending,     \* pending_callbacks
  results,     \* keys in results
  failed,      \* had_exception
  result,      \* the coroutine's own future
  leaked,      \* LeakedCallbackError was raised
  asked,       \* what the generator yielded last
  yields

vars == <<pc, future, own, state, inner, runs, starting, point, context, pending,
          results, failed, result, leaked, asked, yields>>
outVars == <<result, leaked, failed>>
keyVars == <<point, pending, results>>

NoPoint == [type |-> None, key |-> None]
Points == [type : {"Callback", "Wait"}, key : Keys]

Init ==
  /\ pc = "gen" /\ future = None /\ own = "pending"
  /\ state = [f \in Futures |-> "pending"] /\ inner = {} /\ runs = 0
  /\ starting = NoPoint /\ point = None /\ context = FALSE
  /\ pending = {} /\ results = {} /\ failed = FALSE
  /\ result = None /\ leaked = FALSE /\ asked = None /\ yields = 0

Settled(f) ==
  CASE f \in Futures -> state[f] # "pending"
    [] f = "own" -> own # "pending"
    [] OTHER -> f = "moment"

-----------------------------------------------------------------------------
(* The generator has control, and yields *)

Yield(what) ==
  /\ pc = "gen" /\ yields < MaxYields
  /\ yields' = yields + 1
  /\ asked' = what

(* A future that is done already is taken at once by the loop of run(). *)
YieldFuture(f) ==
  /\ Yield(f)
  /\ future' = f
  /\ IF state[f] # "pending" THEN pc' = "loop" /\ UNCHANGED inner
                             ELSE pc' = "parked" /\ inner' = inner \cup {f}
  /\ UNCHANGED <<own, state, runs, starting, context>>
  /\ UNCHANGED keyVars /\ UNCHANGED outVars

YieldMoment ==
  /\ Yield("moment")
  /\ future' = "moment" /\ runs' = runs + 1
  /\ pc' = "parked"
  /\ UNCHANGED <<own, state, inner, starting, context>>
  /\ UNCHANGED keyVars /\ UNCHANGED outVars

YieldBad ==
  /\ Yield("bad")
  /\ future' = "own" /\ own' = "error"
  /\ pc' = "loop"
  /\ UNCHANGED <<state, inner, runs, starting, context>>
  /\ UNCHANGED keyVars /\ UNCHANGED outVars

(* start_yield_point: register a key, or look for the result of one.  Keys *)
(* in use, or unknown, are errors.                                         *)
StartPoint(p) ==
  IF p.type = "Callback"
  THEN /\ own' = IF p.key \in pending THEN "error" ELSE "value"
       /\ pending' = pending \cup {p.key}
       /\ UNCHANGED <<point, results>>
  ELSE IF p.key \in pending \cap results
  THEN /\ own' = "value"
       /\ pending' = pending \ {p.key} /\ results' = results \ {p.key}
       /\ UNCHANGED point
  ELSE IF p.key \in pending
  THEN own' = "pending" /\ point' = p.key /\ UNCHANGED <<pending, results>>
  ELSE own' = "error" /\ UNCHANGED keyVars

(* The first yield point of all is started by a callback on the loop. *)
YieldPoint(p) ==
  /\ Yield(p.key)
  /\ future' = "own"
  /\ context' = TRUE
  /\ IF context
     THEN /\ StartPoint(p)
          /\ IF own' = "pending" THEN pc' = "parked" /\ inner' = inner \cup {"own"}
                                 ELSE pc' = "loop" /\ UNCHANGED inner
          /\ UNCHANGED starting
     ELSE /\ own' = "pending" /\ starting' = p /\ pc' = "parked"
          /\ UNCHANGED inner /\ UNCHANGED keyVars
  /\ UNCHANGED <<state, runs>> /\ UNCHANGED outVars

(* Callbacks that nobody waited for are an error that leaves the result    *)
(* unset, unless the generator met an exception.                           *)
Return ==
  /\ pc = "gen"
  /\ pc' = "finished"
  /\ future' = "moment"
  /\ leaked' = (pending # {} /\ ~failed)
  /\ result' = IF result = None /\ ~leaked' THEN "value" ELSE result
  /\ UNCHANGED <<own, state, inner, runs, starting, context, failed, asked, yields>>
  /\ UNCHANGED keyVars

Raise ==
  /\ pc = "gen"
  /\ pc' = "finished"
  /\ future' = "moment"
  /\ result' = IF result = None THEN "error" ELSE result
  /\ UNCHANGED <<own, state, inner, runs, starting, context, failed, leaked, asked, yields>>
  /\ UNCHANGED keyVars

-----------------------------------------------------------------------------
(* run() *)

(* Fault for the mutants: the future is not looked at again. *)
TakeAnyway ==
  /\ pc = "loop"
  /\ pc' = "gen" /\ future' = None
  /\ failed' = (failed \/ (future = "own" /\ own = "error"))
  /\ UNCHANGED <<own, state, inner, runs, starting, context, result, leaked, asked, yields>>
  /\ UNCHANGED keyVars

(* The loop of run(): park again, or give the generator what it asked for. *)
Take ==
  /\ pc = "loop"
  /\ IF ~Settled(future)
     THEN pc' = "parked" /\ UNCHANGED <<future, failed>>
     ELSE /\ pc' = "gen" /\ future' = None
          /\ failed' = (failed \/ (future = "own" /\ own = "error")
                               \/ (future \in Futures /\ state[future] = "error"))
  /\ UNCHANGED <<own, state, inner, runs, starting, context, result, leaked, asked, yields>>
  /\ UNCHANGED keyVars

RunPc == IF pc = "parked" THEN "loop" ELSE pc

(* A run that was queued on the loop; the loop runs nothing else meanwhile. *)
QueuedRun ==
  /\ runs > 0 /\ pc \in {"parked", "finished"}
  /\ runs' = runs - 1
  /\ pc' = RunPc
  /\ UNCHANGED <<future, own, state, inner, starting, context, asked, yields>>
  /\ UNCHANGED keyVars /\ UNCHANGED outVars

QueuedStart ==
  /\ starting # NoPoint /\ pc = "parked"
  /\ starting' = NoPoint
  /\ StartPoint(starting)
  /\ pc' = "loop"
  /\ UNCHANGED <<future, state, inner, runs, context, asked, yields>>
  /\ UNCHANGED outVars

-----------------------------------------------------------------------------
(* What others do, between callbacks or inside the generator's own code *)

Resolve(f) ==
  /\ state[f] = "pending" /\ pc # "loop"
  /\ \E r \in {"value", "error"} : state' = [state EXCEPT ![f] = r]
  /\ runs' = IF f \in inner THEN runs + 1 ELSE runs
  /\ inner' = inner \ {f}
  /\ UNCHANGED <<pc, future, own, starting, context, asked, yields>>
  /\ UNCHANGED keyVars /\ UNCHANGED outVars

(* Fault for the mutants: the yield point is answered and nobody runs.     *)
CallResultQuietly(k) ==
  /\ k \in pending \ results /\ pc # "loop"
  /\ results' = (results \cup {k}) \ {point} /\ pending' = pending \ {point}
  /\ own' = IF point = k THEN "value" ELSE own
  /\ point' = IF point = k THEN None ELSE point
  /\ UNCHANGED <<pc, future, state, inner, runs, starting, context, asked, yields>>
  /\ UNCHANGED outVars

(* set_result of a key, which is called once: if it is the one waited for, *)
(* the yield point is answered, and run() called.                          *)
CallResult(k) ==
  /\ k \in pending \ results /\ pc # "loop"
  /\ IF point = k
     THEN /\ own' = "value" /\ point' = None
          /\ pending' = pending \ {k}
          /\ pc' = RunPc
          /\ runs' = IF "own" \in inner THEN runs + 1 ELSE runs
          /\ inner' = inner \ {"own"}
          /\ UNCHANGED results
     ELSE /\ results' = results \cup {k}
          /\ UNCHANGED <<pc, own, point, pending, runs, inner>>
  /\ UNCHANGED <<future, state, starting, context, asked, yields>>
  /\ UNCHANGED outVars

(* handle_exception: only what the Runner waits for changes. *)
Interrupt ==
  /\ pc = "parked" /\ context /\ starting = NoPoint /\ point = None
  /\ future' = "own" /\ own' = "error" /\ asked' = "own"
  /\ pc' = "loop"
  /\ UNCHANGED <<state, inner, runs, starting, context, yields>>
  /\ UNCHANGED keyVars /\ UNCHANGED outVars

CancelResult ==
  /\ result = None /\ pc # "loop"
  /\ result' = "cancelled"
  /\ UNCHANGED <<pc, future, own, state, inner, runs, starting, context, failed, leaked, asked, yields>>
  /\ UNCHANGED keyVars

Next ==
  \/ \E f \in Futures : YieldFuture(f) \/ Resolve(f)
  \/ YieldMoment \/ YieldBad \/ Return \/ Raise \/ Take
  \/ \E p \in Points : YieldPoint(p)
  \/ QueuedRun \/ QueuedStart
  \/ \E k \in Keys : CallResult(k)
  \/ Interrupt \/ CancelResult

Spec == Init /\ [][Next]_vars

-----------------------------------------------------------------------------
(* The types of the variables. *)
TypeOK ==
  /\ pc \in {"gen", "loop", "parked", "finished"}
  /\ future \in Futures \cup {"own", "moment", None}
  /\ own \in {"pending", "value", "error"}
  /\ state \in [Futures -> {"pending", "value", "error"}]
  /\ inner \subseteq Futures \cup {"own"} /\ runs \in 0..MaxYields
  /\ starting \in Points \cup {NoPoint} /\ point \in Keys \cup {None}
  /\ pending \subseteq Keys /\ results \subseteq pending
  /\ result \in {None, "value", "error", "cancelled"}

(* A coroutine that is parked has either something that is not done, and   *)
(* somebody to run it when it is, or a run on the loop.                    *)
NeverStuck ==
  pc = "parked" =>
    \/ runs > 0
    \/ starting # NoPoint
    \/ future \in inner \ {"own"} /\ state[future] = "pending"
    \/ future = "own" /\ own = "pending" /\ point \in pending \ results

(* The result of the coroutine is missing only if callbacks were leaked. *)
ResultGiven == pc = "finished" /\ result = None => leaked /\ pending # {}

(* The generator goes on only when what it asked for last is there, though *)
(* runs for what it asked for earlier still come in.                       *)
GoesOnAnswered ==
  pc = "loop" /\ pc' = "gen" /\ asked \in Futures =>
    state[asked] # "pending" /\ future = asked

(* The result is given once. *)
ResultStays == result # None => result' = result

AnsweredYield == [][GoesOnAnswered /\ ResultStays]_vars
=============================================================================
