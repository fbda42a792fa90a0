------------------------------ MODULE AsyncioLoop ------------------------------
(***************************************************************************)
(* BaseAsyncIOLoop, the IOLoop of Python 3: handlers of file descriptors,  *)
(* timeouts and callbacks on an asyncio event loop.  A handler is watched  *)
(* for reads and for writes apart, each with a handle of asyncio.  When    *)
(* the selector returns, the handles of all events are queued before any   *)
(* of them runs; so a handler, or a callback, can remove what is queued,   *)
(* and open the same file descriptor again.                                *)
(***************************************************************************)
EXTENDS Integers, Sequences, FiniteSets, SequencesExt

CONSTANTS
  Fd, Callback,  \* file descriptors, which are numbers, and callbacks
  MaxGen         \* bound of the handlers that are made

VARIABLES
  handlers,      \* of a descriptor: the number of its handler, or 0
  readers, writers,
  watched,       \* asyncio's handles: [fd, event, gen], gen when it was made
  ready,         \* what asyncio runs next, handles and callbacks
  gens,          \* handlers made so far
  live,          \* of a callback: "new", "waiting", "done" or "dropped"
  wrong,         \* a handler was called for what it was not there for
  closing

vars == <<handlers, readers, writers, watched, ready, gens, live, wrong, closing>>

Events == {"R", "W"}

Init ==
  /\ handlers = [fd \in Fd |-> 0] /\ readers = {} /\ writers = {} /\ watched = {}
  /\ ready = <<>> /\ gens = 0 /\ live = [c \in Callback |-> "new"]
  /\ wrong = FALSE /\ closing = FALSE

-----------------------------------------------------------------------------
(* Handlers: what a call of the loop makes of these variables *)

Loop == [handlers |-> handlers, readers |-> readers, writers |-> writers,
         watched |-> watched, ready |-> ready, gens |-> gens]

Becomes(l) ==
  /\ handlers' = l.handlers /\ readers' = l.readers /\ writers' = l.writers
  /\ watched' = l.watched /\ ready' = l.ready /\ gens' = l.gens

(* The items of ws that are in S. *)
Kept(ws, S) ==
  LET at == {i \in DOMAIN ws : ws[i] \in S}
  IN [k \in 1..Cardinality(at) |->
        ws[CHOOSE i \in at : Cardinality({j \in at : j <= i}) = k]]

(* asyncio: a handle that is removed is cancelled, also where it is queued. *)
Unwatch(l, fd, event) ==
  LET gone == {h \in l.watched : h.fd = fd /\ h.event = event}
  IN [l EXCEPT !.watched = @ \ gone, !.ready = Kept(@, Range(@) \ gone)]

Watch(l, fd, event) ==
  [l EXCEPT !.watched = @ \cup {[type |-> "fd", fd |-> fd, event |-> event,
                                 gen |-> l.handlers[fd]]}]

AddReader(l, fd) == [Watch(l, fd, "R") EXCEPT !.readers = @ \cup {fd}]
AddWriter(l, fd) == [Watch(l, fd, "W") EXCEPT !.writers = @ \cup {fd}]
RemoveReader(l, fd) ==
  IF fd \in l.readers THEN [Unwatch(l, fd, "R") EXCEPT !.readers = @ \ {fd}] ELSE l
RemoveWriter(l, fd) ==
  IF fd \in l.writers THEN [Unwatch(l, fd, "W") EXCEPT !.writers = @ \ {fd}] ELSE l

AddHandler(l, fd, events) ==
  LET new == [l EXCEPT !.gens = @ + 1, !.handlers[fd] = l.gens + 1]
      r == IF "R" \in events THEN AddReader(new, fd) ELSE new
  IN IF "W" \in events THEN AddWriter(r, fd) ELSE r

UpdateHandler(l, fd, events) ==
  LET r == IF "R" \notin events THEN RemoveReader(l, fd)
           ELSE IF fd \in l.readers THEN l ELSE AddReader(l, fd)
  IN IF "W" \notin events THEN RemoveWriter(r, fd)
     ELSE IF fd \in r.writers THEN r ELSE AddWriter(r, fd)

(* Fault for the mutants: writes of the descriptor are still watched. *)
RemoveHandlerReads(l, fd) == [RemoveReader(l, fd) EXCEPT !.handlers[fd] = 0]

RemoveHandler(l, fd) == [RemoveWriter(RemoveReader(l, fd), fd) EXCEPT !.handlers[fd] = 0]

(* What one piece of the program does.  A descriptor that is closed is     *)
(* removed first, and its number may be that of a new one at once.         *)
Steps(l) ==
  {l} \cup {AddHandler(l, fd, events) : fd \in {f \in Fd : l.handlers[f] = 0 /\ l.gens < MaxGen},
                                        events \in SUBSET Events}
  \cup {UpdateHandler(l, fd, events) : fd \in {f \in Fd : l.handlers[f] # 0},
                                       events \in SUBSET Events}
  \cup {RemoveHandler(l, fd) : fd \in {f \in Fd : l.handlers[f] # 0}}
  \cup {AddHandler(RemoveHandler(l, fd), fd, events) :
          fd \in {f \in Fd : l.handlers[f] # 0 /\ l.gens < MaxGen}, events \in SUBSET Events}

-----------------------------------------------------------------------------
(* The loop *)

(* Before the loop runs, or from a task of asyncio: any step.              *)
Outside ==
  /\ ~closing /\ \E l \in Steps(Loop) : l # Loop /\ Becomes(l)
  /\ UNCHANGED <<live, wrong, closing>>

(* The selector has some events of what is watched; all are queued, as they *)
(* come from the system.                                                   *)
Select ==
  /\ \A i \in 1..Len(ready) : ready[i].type # "fd"
  /\ \E events \in SUBSET watched \ {{}} :
       \E order \in SetToSeqs(events) : ready' = ready \o order
  /\ ~closing
  /\ UNCHANGED <<handlers, readers, writers, watched, gens, live, wrong, closing>>

(* _handle_events looks the handler up, and calls it.                      *)
RunHandle ==
  /\ ready # <<>> /\ Head(ready).type = "fd" /\ ~closing
  /\ LET h == Head(ready)
     IN /\ wrong' = (wrong \/ handlers[h.fd] # h.gen
                     \/ h.fd \notin (IF h.event = "R" THEN readers ELSE writers))
        /\ \E l \in Steps([Loop EXCEPT !.ready = Tail(ready)]) : Becomes(l)
  /\ UNCHANGED <<live, closing>>

(* add_callback, from any thread, and call_at when its time has come;      *)
(* after close, the callback is dropped without a word.                    *)
AddCallback(c) ==
  /\ live[c] = "new"
  /\ live' = [live EXCEPT ![c] = IF closing THEN "dropped" ELSE "waiting"]
  /\ ready' = IF closing THEN ready ELSE Append(ready, [type |-> "callback", callback |-> c])
  /\ UNCHANGED <<handlers, readers, writers, watched, gens, wrong, closing>>

RunCallback ==
  /\ ready # <<>> /\ Head(ready).type = "callback" /\ ~closing
  /\ live' = [live EXCEPT ![Head(ready).callback] = "done"]
  /\ \E l \in Steps([Loop EXCEPT !.ready = Tail(ready)]) : Becomes(l)
  /\ UNCHANGED <<wrong, closing>>

(* close() removes all handlers; what was queued never runs.               *)
Close ==
  /\ ~closing /\ closing' = TRUE
  /\ handlers' = [fd \in Fd |-> 0] /\ readers' = {} /\ writers' = {} /\ watched' = {}
  /\ ready' = <<>>
  /\ live' = [c \in Callback |-> IF live[c] = "waiting" THEN "dropped" ELSE live[c]]
  /\ UNCHANGED <<gens, wrong>>

Next ==
  \/ Outside \/ Select \/ RunHandle \/ RunCallback \/ Close
  \/ \E c \in Callback : AddCallback(c)

Spec == Init /\ [][Next]_vars

-----------------------------------------------------------------------------

TypeOK ==
  /\ handlers \in [Fd -> 0..MaxGen] /\ readers \subseteq Fd /\ writers \subseteq Fd
  /\ gens \in 0..MaxGen /\ wrong \in BOOLEAN /\ closing \in BOOLEAN
  /\ live \in [Callback -> {"new", "waiting", "done", "dropped"}]

(* readers and writers say what asyncio watches, each for the handler that *)
(* there is, however handlers came and went (platform/asyncio.py 55-100).  *)
WatchedRight ==
  watched = {[type |-> "fd", fd |-> fd, event |-> "R", gen |-> handlers[fd]] : fd \in readers}
       \cup {[type |-> "fd", fd |-> fd, event |-> "W", gen |-> handlers[fd]] : fd \in writers}

(* No handler is called for an event of the one before it with the same    *)
(* descriptor, nor for one that it gave up (_handle_events); and none that *)
(* was removed is looked up.                                               *)
NoLateEvent == ~wrong /\ \A h \in watched : h.gen # 0

(* A callback waits in the queue once, or was run or dropped by close.     *)
CallbackOnce ==
  \A c \in Callback :
    Cardinality({i \in 1..Len(ready) : ready[i].type = "callback" /\ ready[i].callback = c})
      = IF live[c] = "waiting" THEN 1 ELSE 0

(* Handlers and callbacks on asyncio keep what they promise. *)
AsyncioSound == WatchedRight /\ NoLateEvent /\ CallbackOnce
=============================================================================
