------------------------------ MODULE EventLoop ------------------------------
(***************************************************************************)
(* tornado.ioloop.PollIOLoop: one iteration runs the callbacks there were  *)
(* when it began, then the timeouts that were due, then polls and runs the *)
(* handlers of the file descriptors that are ready.  Whatever runs may add *)
(* and remove callbacks, timeouts and handlers; another thread, or a       *)
(* signal handler, may add callbacks at any time, and wakes the poll       *)
(* through a pipe.                                                         *)
(*                                                                         *)
(* Callbacks are names, each added once.  Descriptors are numbers that are *)
(* used again; a registration is known by its number, gen.  A poll without *)
(* a timeout waits an hour (_POLL_TIMEOUT), which is for ever here.        *)
(***************************************************************************)
EXTENDS Integers, Sequences, FiniteSets

CONSTANTS
  Callback,    \* what add_callback is called with
  Timer,       \* what call_at returns
  Fd,          \* file descriptors
  CleanAfter,  \* cancellations tolerated in the heap, 512 in the code
  MaxTime,     \* bound of the clock
  MaxGen       \* numbers for registrations

VARIABLES
  pc,             \* where start() is; what it has called is "callback" or "handler"
  running,        \* _running
  stopped,        \* _stopped
  callbacks,      \* _callbacks
  batch,          \* what is left of ncallbacks
  heap,           \* _timeouts, in the order they are popped
  deadline,       \* of each timer, -1 while there is none
  dead,           \* timers whose callback is None
  due,            \* due_timeouts
  cancellations,  \* _cancellations
  handlers,       \* the registration of each descriptor, 0 if there is none
  events,         \* _events: descriptors polled, with the registration they had
  waker,          \* the pipe has something to read
  wait,           \* until when poll blocks, -1 for ever
  now,            \* the clock
  closing,        \* _closing
  adder           \* another thread in add_callback, and its callback

vars == <<pc, running, stopped, callbacks, batch, heap, deadline, dead, due,
          cancellations, handlers, events, waker, wait, now, closing, adder>>
timerVars == <<heap, deadline, dead, cancellations>>
fdVars == <<handlers, events>>
loopVars == <<pc, batch, due, wait>>

Idle == [at |-> "idle", cb |-> 0]

Init ==
  /\ pc = "out" /\ running = FALSE /\ stopped = FALSE
  /\ callbacks = <<>> /\ batch = 0
  /\ heap = <<>> /\ deadline = [t \in Timer |-> -1] /\ dead = {} /\ due = <<>>
  /\ cancellations = 0
  /\ handlers = [f \in Fd |-> 0] /\ events = {}
  /\ waker = FALSE /\ wait = 0 /\ now = 0 /\ closing = FALSE
  /\ adder = Idle

SeqRange(s) == {s[i] : i \in DOMAIN s}

(* The items of ws that are in S. *)
Kept(ws, S) ==
  LET at == {i \in DOMAIN ws : ws[i] \in S}
  IN [k \in 1..Cardinality(at) |->
        ws[CHOOSE i \in at : Cardinality({j \in at : j <= i}) = k]]

-----------------------------------------------------------------------------
(* What code that runs on the loop's thread may call *)

(* A callback that nobody has added: run ones may not come again. *)
Fresh(c) == c \in Callback /\ adder.cb # c /\ c \notin SeqRange(callbacks)

AddCallback ==
  /\ \E c \in Callback : Fresh(c) /\ callbacks' = Append(callbacks, c)
  /\ UNCHANGED <<running, stopped, waker>> /\ UNCHANGED timerVars /\ UNCHANGED fdVars

(* heappush, ordered by deadline and then by age. *)
CallAt ==
  \E t \in Timer, d \in 0..MaxTime :
    /\ deadline[t] = -1
    /\ deadline' = [deadline EXCEPT ![t] = d]
    /\ heap' = Kept(heap, {u \in Timer : deadline[u] <= d}) \o <<t>>
                 \o Kept(heap, {u \in Timer : deadline[u] > d})
    /\ UNCHANGED <<running, stopped, waker, callbacks, dead, cancellations>>
    /\ UNCHANGED fdVars

(* The timer stays in the heap; it may have run already. *)
RemoveTimeout ==
  /\ \E t \in Timer :
       /\ deadline[t] # -1 /\ t \notin dead
       /\ dead' = dead \cup {t}
       /\ cancellations' = cancellations + 1
  /\ UNCHANGED <<running, stopped, waker, callbacks, heap, deadline>> /\ UNCHANGED fdVars

(* A number that no handler and no event in flight has. *)
Unused == 1..MaxGen \ ({handlers[f] : f \in Fd} \cup {e.gen : e \in events})

AddHandler ==
  /\ \E f \in Fd, g \in Unused :
       /\ handlers[f] = 0
       /\ \A h \in Unused : g <= h
       /\ handlers' = [handlers EXCEPT ![f] = g]
  /\ UNCHANGED <<running, stopped, waker, callbacks, events>> /\ UNCHANGED timerVars

(* Fault for the mutants: events that were polled already stay. *)
RemoveHandlerKeepsEvents ==
  /\ \E f \in Fd : handlers[f] # 0 /\ handlers' = [handlers EXCEPT ![f] = 0]
  /\ UNCHANGED <<running, stopped, waker, callbacks, events>> /\ UNCHANGED timerVars

(* The events of the descriptor go with its handler. *)
RemoveHandler ==
  /\ \E f \in Fd :
       /\ handlers[f] # 0
       /\ handlers' = [handlers EXCEPT ![f] = 0]
       /\ events' = {e \in events : e.fd # f}
  /\ UNCHANGED <<running, stopped, waker, callbacks>> /\ UNCHANGED timerVars

Stop ==
  /\ running' = FALSE /\ stopped' = TRUE /\ waker' = TRUE
  /\ UNCHANGED callbacks /\ UNCHANGED timerVars /\ UNCHANGED fdVars

Code == AddCallback \/ CallAt \/ RemoveTimeout \/ AddHandler \/ RemoveHandler \/ Stop

(* Outside start() the thread may call the same. *)
Outside ==
  /\ pc = "out" /\ ~closing
  /\ Code
  /\ UNCHANGED <<now, closing, adder>> /\ UNCHANGED loopVars

-----------------------------------------------------------------------------
(* start() *)

Start ==
  /\ pc = "out" /\ ~running /\ ~closing
  /\ IF stopped
     THEN stopped' = FALSE /\ UNCHANGED <<pc, running>>
     ELSE pc' = "gather" /\ running' = TRUE /\ UNCHANGED stopped
  /\ UNCHANGED <<callbacks, batch, due, waker, wait, now, closing, adder>>
  /\ UNCHANGED timerVars /\ UNCHANGED fdVars

(* The places at the front of the heap that are dead or due. *)
Ripe ==
  CHOOSE n \in 0..Len(heap) :
    /\ \A i \in 1..n : heap[i] \in dead \/ deadline[heap[i]] <= now
    /\ n < Len(heap) => heap[n + 1] \notin dead /\ deadline[heap[n + 1]] > now

(* The length of the batch and the due timeouts; the heap is cleaned when  *)
(* cancellations are many and more than half of it.                        *)
Gather ==
  LET front == SubSeq(heap, 1, Ripe)
      rest == SubSeq(heap, Ripe + 1, Len(heap))
      c == cancellations - Cardinality({i \in 1..Ripe : heap[i] \in dead})
  IN /\ pc = "gather"
     /\ pc' = "callbacks"
     /\ batch' = Len(callbacks)
     /\ due' = Kept(front, Timer \ dead)
     /\ IF c > CleanAfter /\ c > Len(rest) \div 2
        THEN cancellations' = 0 /\ heap' = Kept(rest, Timer \ dead)
        ELSE cancellations' = c /\ heap' = rest
     /\ UNCHANGED <<running, stopped, callbacks, deadline, dead, waker, wait, now, closing, adder>>
     /\ UNCHANGED fdVars

(* popleft: the callback is gone, and is called. *)
PopCallback ==
  /\ pc = "callbacks" /\ batch > 0
  /\ callbacks' = Tail(callbacks)
  /\ batch' = batch - 1
  /\ pc' = "callback"
  /\ UNCHANGED <<running, stopped, due, waker, wait, now, closing, adder>>
  /\ UNCHANGED timerVars /\ UNCHANGED fdVars

(* A timeout that was cancelled after the loop took it is left out. *)
PopTimeout ==
  /\ pc = "callbacks" /\ batch = 0 /\ due # <<>>
  /\ due' = Tail(due)
  /\ pc' = IF Head(due) \in dead THEN pc ELSE "callback"
  /\ UNCHANGED <<running, stopped, callbacks, batch, waker, wait, now, closing, adder>>
  /\ UNCHANGED timerVars /\ UNCHANGED fdVars

(* A callback, timeout or handler does something, as often as it likes. *)
RunCode ==
  /\ pc \in {"callback", "handler"}
  /\ Code
  /\ UNCHANGED <<now, closing, adder>> /\ UNCHANGED loopVars

Return ==
  /\ pc \in {"callback", "handler"}
  /\ pc' = IF pc = "callback" THEN "callbacks" ELSE "events"
  /\ UNCHANGED <<running, stopped, callbacks, batch, due, waker, wait, now, closing, adder>>
  /\ UNCHANGED timerVars /\ UNCHANGED fdVars

(* How long to poll, or whether to go on at all. *)
Choose ==
  /\ pc = "callbacks" /\ batch = 0 /\ due = <<>>
  /\ wait' = IF callbacks # <<>> THEN 0 ELSE IF heap # <<>> THEN deadline[heap[1]] ELSE -1
  /\ IF running
     THEN pc' = "poll" /\ UNCHANGED stopped
     ELSE pc' = "out" /\ stopped' = FALSE
  /\ UNCHANGED <<running, callbacks, batch, due, waker, now, closing, adder>>
  /\ UNCHANGED timerVars /\ UNCHANGED fdVars

(* Descriptors are ready or not; with none, poll waits for its timeout.    *)
(* Descriptor 0 is the pipe of the waker.                                  *)
Poll ==
  /\ pc = "poll"
  /\ \E ready \in SUBSET {f \in Fd : handlers[f] # 0} :
       /\ ready # {} \/ waker \/ wait \in 0..now
       /\ events' = {[fd |-> f, gen |-> handlers[f]] : f \in ready}
                    \cup (IF waker THEN {[fd |-> 0, gen |-> 0]} ELSE {})
  /\ pc' = "events"
  /\ UNCHANGED <<running, stopped, callbacks, batch, due, handlers, waker, wait, now, closing, adder>>
  /\ UNCHANGED timerVars

(* EINTR *)
PollInterrupted ==
  /\ pc = "poll"
  /\ pc' = "gather"
  /\ UNCHANGED <<running, stopped, callbacks, batch, due, waker, wait, now, closing, adder>>
  /\ UNCHANGED timerVars /\ UNCHANGED fdVars

(* One event is popped and its handler called; the one of the pipe empties it. *)
PopEvent ==
  /\ pc = "events"
  /\ \E e \in events : /\ events' = events \ {e}
                       /\ waker' = (waker /\ e.fd # 0)
                       /\ pc' = IF e.fd = 0 THEN pc ELSE "handler"
  /\ UNCHANGED <<running, stopped, callbacks, batch, due, handlers, wait, now, closing, adder>>
  /\ UNCHANGED timerVars

NextIteration ==
  /\ pc = "events" /\ events = {}
  /\ pc' = "gather"
  /\ UNCHANGED <<running, stopped, callbacks, batch, due, waker, wait, now, closing, adder>>
  /\ UNCHANGED timerVars /\ UNCHANGED fdVars

-----------------------------------------------------------------------------
(* add_callback on another thread, and close() *)

ThreadChecks ==
  /\ adder.at = "idle" /\ ~closing
  /\ \E c \in Callback : Fresh(c) /\ adder' = [at |-> "checked", cb |-> c]
  /\ UNCHANGED <<running, stopped, waker, callbacks, now, closing>>
  /\ UNCHANGED timerVars /\ UNCHANGED fdVars /\ UNCHANGED loopVars

(* There is no _callbacks to append to once the loop is closed. *)
ThreadAppends ==
  /\ adder.at = "checked"
  /\ IF closing
     THEN adder' = [adder EXCEPT !.at = "raised"] /\ UNCHANGED callbacks
     ELSE adder' = [adder EXCEPT !.at = "appended"] /\ callbacks' = Append(callbacks, adder.cb)
  /\ UNCHANGED <<running, stopped, waker, now, closing>>
  /\ UNCHANGED timerVars /\ UNCHANGED fdVars /\ UNCHANGED loopVars

(* Fault for the mutants: the poll is not woken. *)
ThreadLeaves ==
  /\ adder.at = "appended"
  /\ adder' = Idle
  /\ UNCHANGED <<running, stopped, waker, callbacks, now, closing>>
  /\ UNCHANGED timerVars /\ UNCHANGED fdVars /\ UNCHANGED loopVars

ThreadWakes ==
  /\ adder.at = "appended"
  /\ waker' = ~closing
  /\ adder' = Idle
  /\ UNCHANGED <<running, stopped, callbacks, now, closing>>
  /\ UNCHANGED timerVars /\ UNCHANGED fdVars /\ UNCHANGED loopVars

(* Only when start() has returned; the descriptors are left or closed. *)
Close ==
  /\ pc = "out" /\ ~closing
  /\ closing' = TRUE
  /\ callbacks' = <<>> /\ heap' = <<>> /\ waker' = FALSE
  /\ UNCHANGED <<running, stopped, deadline, dead, cancellations, now, adder>>
  /\ UNCHANGED fdVars /\ UNCHANGED loopVars

Tick ==
  /\ now < MaxTime
  /\ now' = now + 1
  /\ UNCHANGED <<running, stopped, callbacks, waker, closing, adder>>
  /\ UNCHANGED timerVars /\ UNCHANGED fdVars /\ UNCHANGED loopVars

Next ==
  \/ Outside \/ Start \/ Gather \/ PopCallback \/ PopTimeout \/ RunCode \/ Return
  \/ Choose \/ Poll \/ PollInterrupted \/ PopEvent \/ NextIteration
  \/ ThreadChecks \/ ThreadAppends \/ ThreadWakes \/ Close \/ Tick

Spec == Init /\ [][Next]_vars

-----------------------------------------------------------------------------
(* Properties *)

(* The types of the variables. *)
TypeOK ==
  /\ pc \in {"out", "gather", "callbacks", "callback", "poll", "events", "handler"}
  /\ running \in BOOLEAN /\ stopped \in BOOLEAN /\ waker \in BOOLEAN /\ closing \in BOOLEAN
  /\ callbacks \in Seq(Callback) /\ batch \in 0..Len(callbacks)
  /\ heap \in Seq(Timer) /\ due \in Seq(Timer) /\ dead \subseteq Timer
  /\ deadline \in [Timer -> -1..MaxTime]
  /\ cancellations \in Nat
  /\ handlers \in [Fd -> 0..MaxGen]
  /\ wait \in -1..MaxTime /\ now \in 0..MaxTime
  /\ adder.at \in {"idle", "checked", "appended", "raised"}

(* The loop never blocks with a callback to run, a stop to obey or a       *)
(* timeout that is due, without something that ends the poll at once.      *)
NeverSleepsWithWork ==
  pc = "poll" /\ wait \notin 0..now =>
    /\ callbacks # <<>> => waker \/ adder.at = "appended"
    /\ ~running => waker
    /\ \A i \in DOMAIN heap : deadline[heap[i]] > now

(* An event is only handed to the registration it was polled for, though   *)
(* handlers that run in between remove descriptors and use numbers again.  *)
NoStaleEvent == \A e \in events : e.fd # 0 => e.gen = handlers[e.fd]

(* _cancellations is never behind the dead timers in the heap (or cleaning *)
(* would leave them there), though timers are cancelled after the loop     *)
(* took them; and the heap stays ordered by deadline.                      *)
DeadTimersCounted ==
  LET n == Cardinality({i \in DOMAIN heap : heap[i] \in dead}) IN
  /\ n <= cancellations
  /\ \A i, j \in DOMAIN heap : i < j => deadline[heap[i]] <= deadline[heap[j]]

LoopSound == NeverSleepsWithWork /\ NoStaleEvent /\ DeadTimersCounted
=============================================================================
