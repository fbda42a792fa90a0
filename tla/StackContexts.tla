----------------------------- MODULE StackContexts -----------------------------
(***************************************************************************)
(* tornado.stack_context in one thread: with-blocks of StackContext,       *)
(* ExceptionStackContext and NullContext, functions that are wrapped in    *)
(* some of them and called in others, and contexts that are deactivated.   *)
(*                                                                         *)
(* A value of _state.contexts is [all |-> the StackContexts, head |-> the  *)
(* innermost context of either kind].                                      *)
(***************************************************************************)
EXTENDS Integers, Sequences, FiniteSets, SequencesExt

CONSTANTS
  Ctx,           \* contexts, which are positive numbers, in the order they are made
  Kinds,         \* functions from Ctx to the kinds to look at
  MaxFrames,     \* bound of the blocks and calls one within the other
  MaxSaved       \* bound of the functions that are wrapped

VARIABLES
  kind,          \* of a context: StackContexts are "stack", "faulty" (leaving it
                 \* raises) or "broken" (entering it again does); exception
                 \* handlers are "passes" or "eats" (they return true)
  active,
  old,           \* old_contexts
  used,          \* contexts that were made
  depth,         \* length of the contexts of a StackContext
  state,         \* _state.contexts
  frames,        \* the blocks and calls the thread is in
  raising,       \* an exception is on its way out
  saved,         \* what the wrapped functions captured
  inconsistent,  \* a StackContextInconsistentError was raised
  broke,         \* entering a context failed in a call
  pulled         \* a context was deactivated while a block or a call was in it

vars == <<kind, active, old, used, depth, state, frames, raising, saved, inconsistent,
          broke, pulled>>

None == 0
Nothing == [all |-> <<>>, head |-> None]
Stacks == {"stack", "faulty", "broken"}

Init ==
  /\ kind \in Kinds
  /\ active = [c \in Ctx |-> TRUE] /\ old = [c \in Ctx |-> Nothing] /\ used = {}
  /\ depth = [c \in Ctx |-> 0] /\ state = Nothing /\ frames = <<>>
  /\ raising = FALSE /\ saved = <<>> /\ inconsistent = FALSE /\ broke = FALSE
  /\ pulled = FALSE

(* The contexts from the innermost outwards. *)
Chain(olds, head) ==
  LET from[c \in Ctx \cup {None}] ==
        IF c = None THEN <<>> ELSE <<c>> \o from[olds[c].head]
  IN from[head]

(* depth is only of use until one of these happened. *)
Counted(d) == IF broke' \/ pulled' THEN [c \in Ctx |-> 0] ELSE d

Room == Len(frames) < MaxFrames
Top == frames[Len(frames)]
Push(f) == frames' = Append(frames, f)
Pop == frames' = SubSeq(frames, 1, Len(frames) - 1)
In(type) == frames # <<>> /\ Top.type = type

-----------------------------------------------------------------------------
(* Blocks *)

Enter(c) ==
  /\ Room /\ ~raising /\ used = {d \in Ctx : d < c}
  /\ used' = used \cup {c}
  /\ old' = [old EXCEPT ![c] = state]
  /\ state' = [all |-> IF kind[c] \in Stacks THEN Append(state.all, c) ELSE state.all,
               head |-> c]
  /\ UNCHANGED <<kind, active, raising, saved, inconsistent, broke, pulled>>
  /\ depth' = Counted([depth EXCEPT ![c] = IF kind[c] \in Stacks THEN 1 ELSE 0])
  /\ Push([type |-> "with", ctx |-> c, new |-> state'])

(* __exit__, also when an exception leaves the block.                      *)
Exit ==
  /\ In("with")
  /\ UNCHANGED <<kind, active, old, used, saved, broke, pulled>>
  /\ LET c == Top.ctx
         out == kind[c] = "faulty" \/ (raising /\ kind[c] # "eats")
     IN /\ state' = old[c]
        /\ depth' = Counted([depth EXCEPT ![c] = IF kind[c] \in Stacks THEN @ - 1 ELSE @])
        /\ inconsistent' = (inconsistent \/ state # Top.new)
        /\ raising' = (out \/ state # Top.new)
  /\ Pop

EnterNull ==
  /\ Room /\ ~raising
  /\ Push([type |-> "null", old |-> state]) /\ state' = Nothing
  /\ UNCHANGED <<kind, active, old, used, depth, raising, saved, inconsistent, broke, pulled>>

ExitNull ==
  /\ In("null")
  /\ Pop /\ state' = Top.old
  /\ UNCHANGED <<kind, active, old, used, depth, raising, saved, inconsistent, broke, pulled>>

Raise ==
  /\ frames # <<>> /\ ~raising
  /\ raising' = TRUE
  /\ UNCHANGED <<kind, active, old, used, depth, state, frames, saved, inconsistent, broke, pulled>>

(* The loop has caught it. *)
Caught ==
  /\ frames = <<>> /\ raising
  /\ raising' = FALSE
  /\ UNCHANGED <<kind, active, old, used, depth, state, frames, saved, inconsistent, broke, pulled>>

InnermostOf(f) == CASE f.type = "with" -> f.ctx [] f.type = "call" -> f.contexts.head
                    [] f.type = "null" -> None

Deactivate(c) ==
  /\ c \in used /\ active[c]
  /\ active' = [active EXCEPT ![c] = FALSE]
  /\ UNCHANGED <<kind, old, used, state, frames, raising, saved, inconsistent, broke>>
  /\ pulled' = (pulled \/ \E i \in 1..Len(frames) : c \in ToSet(Chain(old, InnermostOf(frames[i]))))
  /\ depth' = Counted(depth)

-----------------------------------------------------------------------------
(* The chains that calls go along *)

Active(c) == active[c]

(* Contexts that are not active are passed over as one goes outwards.      *)
Skipped ==
  [c \in Ctx |->
     LET skip[d \in Ctx] ==
           IF old[d].head # None /\ ~active[old[d].head] THEN skip[old[d].head] ELSE old[d]
     IN skip[c]]

(* Fault for the mutants: only the innermost are looked at. *)
OnlyHead(captured) ==
  LET chain == SelectSeq(Chain(old, captured.head), Active)
  IN [contexts |-> [all |-> SelectSeq(captured.all, Active),
                    head |-> IF chain = <<>> THEN None ELSE chain[1]],
      old |-> old]

(* _remove_deactivated: the contexts of the chain are relinked. *)
RemoveDeactivated(captured) ==
  LET chain == SelectSeq(Chain(old, captured.head), Active)
  IN [contexts |-> [all |-> SelectSeq(captured.all, Active),
                    head |-> IF chain = <<>> THEN None ELSE chain[1]],
      old |-> [c \in Ctx |-> IF c \in ToSet(chain) THEN Skipped[c] ELSE old[c]]]

-----------------------------------------------------------------------------
(* Wrapped functions *)

Wrap ==
  /\ Len(saved) < MaxSaved /\ ~raising
  /\ saved' = Append(saved, [contexts |-> state, chain |-> Chain(old, state.head)])
  /\ UNCHANGED <<kind, active, old, used, depth, state, frames, raising, inconsistent, broke, pulled>>

(* The call, up to the function, which is not called if a context other    *)
(* than the outermost cannot be entered.                                   *)
Call(k) ==
  /\ Room /\ ~raising
  /\ LET r == RemoveDeactivated(saved[k].contexts)
         stack == r.contexts.all
         broken == {i \in 1..Len(stack) : kind[stack[i]] = "broken"}
         top == IF broken = {} THEN None
                ELSE r.old[stack[CHOOSE i \in broken : \A j \in broken : j <= i]].head
     IN /\ old' = r.old
        /\ saved' = [saved EXCEPT ![k].contexts = r.contexts]
        /\ broke' = (broke \/ broken # {}) /\ UNCHANGED pulled
        /\ depth' = Counted([c \in Ctx |-> IF c \in ToSet(stack) THEN depth[c] + 1 ELSE depth[c]])
        /\ raising' = (top # None)
        /\ state' = r.contexts
        /\ Push([type |-> "call", prev |-> state, contexts |-> r.contexts, top |-> top,
                 failed |-> broken # {}])
  /\ UNCHANGED <<kind, active, used, inconsistent>>

(* _handle_exception: what the contexts of a chain make of an exception.   *)
Leaves(chain) ==
  \/ \E i \in 1..Len(chain) : /\ kind[chain[i]] = "faulty"
                              /\ \A j \in (i + 1)..Len(chain) : kind[chain[j]] # "eats"
  \/ \A i \in 1..Len(chain) : kind[chain[i]] # "eats"

(* Contexts that are left: of an exception, those of the chain.  Else as   *)
(* many as could be entered, the last one first, and when one of them      *)
(* raises, the chain outside of it.                                        *)
Return ==
  /\ In("call")
  /\ UNCHANGED <<kind, active, old, used, saved, inconsistent, broke, pulled>>
  /\ LET stack == Top.contexts.all
         n == Cardinality({i \in 1..Len(stack) : kind[stack[i]] # "broken"})
         faulty == {i \in 1..n : kind[stack[i]] = "faulty"}
         last == CHOOSE i \in faulty : \A j \in faulty : j <= i
         chain == Chain(old, IF Top.top # None THEN Top.top ELSE Top.contexts.head)
         outside == Chain(old, old[stack[last]].head)
         left == IF raising THEN ToSet(chain)
                 ELSE IF faulty = {} THEN {stack[i] : i \in 1..n}
                 ELSE {stack[i] : i \in last..n} \cup ToSet(outside)
     IN /\ depth' = Counted([c \in Ctx |-> IF c \in left /\ kind[c] \in Stacks
                                          THEN depth[c] - 1 ELSE depth[c]])
        /\ raising' = IF raising THEN Leaves(chain)
                      ELSE IF faulty = {} THEN Top.failed ELSE Leaves(outside)
  /\ Pop /\ state' = Top.prev

Next ==
  \/ \E c \in Ctx : Enter(c) \/ Deactivate(c)
  \/ Exit \/ EnterNull \/ ExitNull \/ Raise \/ Caught \/ Wrap \/ Return
  \/ \E k \in 1..Len(saved) : Call(k)

Spec == Init /\ [][Next]_vars

-----------------------------------------------------------------------------

TypeOK ==
  /\ active \in [Ctx -> BOOLEAN] /\ used \subseteq Ctx
  /\ state.head \in Ctx \cup {None} /\ ToSet(state.all) \subseteq Ctx
  /\ Len(frames) \in 0..MaxFrames /\ Len(saved) \in 0..MaxSaved
  /\ raising \in BOOLEAN /\ inconsistent \in BOOLEAN /\ broke \in BOOLEAN

(* A function that is called now would run in those of the contexts it was *)
(* wrapped in that are still active, all of them and in their order, and   *)
(* its exceptions come to their handlers, the innermost first; whatever    *)
(* other calls have made of the chain, which they share.                   *)
OwnContexts ==
  \A k \in 1..Len(saved) :
    LET r == RemoveDeactivated(saved[k].contexts)
        chain == SelectSeq(saved[k].chain, Active)
    IN /\ Chain(r.old, r.contexts.head) = chain
       /\ Reverse(r.contexts.all) = SelectSeq(chain, LAMBDA c : kind[c] \in Stacks)

(* Contexts are entered as often as they are left, by blocks that end and  *)
(* functions that return or raise; and blocks end with the contexts they   *)
(* began with, without a StackContextInconsistentError.  That is, unless   *)
(* entering one has failed, or one was deactivated from within.            *)
Balanced ==
  ~broke /\ ~pulled =>
    /\ \A c \in Ctx : kind[c] \in Stacks =>
         depth[c] = Cardinality({i \in 1..Len(frames) :
                      \/ frames[i].type = "with" /\ frames[i].ctx = c
                      \/ frames[i].type = "call" /\ c \in ToSet(frames[i].contexts.all)})
    /\ ~inconsistent

ContextsSound == OwnContexts /\ Balanced
=============================================================================
