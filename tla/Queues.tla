-------------------------------- MODULE Queues -------------------------------
(***************************************************************************)
(* tornado.queues: Queue, PriorityQueue and LifoQueue.  A call of put, get *)
(* or join is a future; a waiting one stands in _putters or _getters and   *)
(* is resolved by another call, by its timeout or by a cancel.  All calls  *)
(* run on the thread of the event loop, so each is one step; what makes    *)
(* them hard is that a waiter may be dead when its turn comes.             *)
(*                                                                         *)
(* Every join without a timeout is given the one future of the event       *)
(* _finished, and whoever cancels it cancels it for all; a join with a     *)
(* timeout has a future of its own, and watches that one.                  *)
(*                                                                         *)
(* The item of put p is p itself, and its priority.  A consumer calls      *)
(* task_done once for each item it got, as the documentation asks.         *)
(***************************************************************************)
EXTENDS Integers, Sequences, FiniteSets, SequencesExt

CONSTANTS
  PutCall,   \* calls of put; numbers, for PriorityQueue orders the items
  GetCall,   \* calls of get
  JoinCall,  \* calls of join
  Kinds,     \* subclasses: "fifo", "lifo", "priority"
  MaxRoom,   \* bound of maxsize
  Nothing    \* no item

VARIABLES
  kind, maxsize,
  queue,       \* _queue
  getters,     \* _getters, futures
  putters,     \* _putters, futures
  unfinished,  \* _unfinished_tasks
  finished,    \* the future of the event _finished: "clear", "set", "cancelled"
  call,        \* the future of each call
  armed,       \* waiting calls with a timeout, until its handle is removed
  word,        \* what became of the future a join with a timeout watches,
               \* until that is copied to the join's own
  got,         \* the result of each get
  tasks        \* items a consumer holds and has still to call task_done for

vars == <<kind, maxsize, queue, getters, putters, unfinished, finished, call, armed,
          word, got, tasks>>

Call == PutCall \cup GetCall \cup JoinCall

Init ==
  /\ kind \in Kinds /\ maxsize \in 0..MaxRoom
  /\ queue = <<>> /\ getters = <<>> /\ putters = <<>>
  /\ unfinished = 0 /\ finished = "set"
  /\ call = [c \in Call |-> "none"]
  /\ armed = {} /\ word = [j \in JoinCall |-> "none"]
  /\ got = [g \in GetCall |-> Nothing]
  /\ tasks = {}

Pending(c) == call[c] = "pending"
Full == maxsize > 0 /\ Len(queue) >= maxsize

(* Fault for the mutants: dead waiters are not skipped. *)
LiveAll(waiters) == waiters

(* _consume_expired: waiters at the front whose futures are done go. *)
Live(waiters) ==
  LET n == CHOOSE i \in 0..Len(waiters) :
             /\ \A j \in 1..i : ~Pending(waiters[j])
             /\ i < Len(waiters) => Pending(waiters[i + 1])
  IN SubSeq(waiters, n + 1, Len(waiters))

(* _get of the three classes: the place of the item it takes. *)
Place(q) ==
  CHOOSE i \in DOMAIN q :
    \/ kind = "fifo" /\ i = 1
    \/ kind = "lifo" /\ i = Len(q)
    \/ kind = "priority" /\ \A j \in DOMAIN q : q[i] <= q[j]

Popped(q) == q[Place(q)]
Rest(q) == RemoveAt(q, Place(q))

(* future_set_result_unless_cancelled, on several futures at once; one     *)
(* that is done already keeps its outcome.                                 *)
Resolve(cs) ==
  call' = [c \in Call |-> IF c \in cs /\ call[c] \in {"none", "pending"}
                          THEN "done" ELSE call[c]]

(* __put_internal; clear replaces a future that was cancelled, too. *)
Accept(p, q) ==
  /\ unfinished' = unfinished + 1
  /\ finished' = "clear"
  /\ queue' = q

-----------------------------------------------------------------------------
(* put and put_nowait find a get that waits. *)
PutToGetter(p) ==
  LET waiting == Live(getters)
      q == Append(queue, p)
  IN /\ call[p] = "none"
     /\ waiting # <<>>
     /\ putters' = Live(putters)
     /\ getters' = Tail(waiting)
     /\ Accept(p, Rest(q))
     /\ got' = [got EXCEPT ![Head(waiting)] = Popped(q)]
     /\ tasks' = tasks \cup {Popped(q)}
     /\ Resolve({p, Head(waiting)})
     /\ UNCHANGED <<kind, maxsize, armed, word>>

PutInQueue(p) ==
  /\ call[p] = "none"
  /\ Live(getters) = <<>> /\ ~Full
  /\ putters' = Live(putters) /\ getters' = <<>>
  /\ Accept(p, Append(queue, p))
  /\ Resolve({p})
  /\ UNCHANGED <<kind, maxsize, armed, word, got, tasks>>

(* put waits for room, with a timeout or without. *)
PutWaits(p) ==
  /\ call[p] = "none"
  /\ Live(getters) = <<>> /\ Full
  /\ getters' = <<>>
  /\ putters' = Append(Live(putters), p)
  /\ call' = [call EXCEPT ![p] = "pending"]
  /\ armed' \in {armed, armed \cup {p}}
  /\ UNCHANGED <<kind, maxsize, queue, unfinished, finished, word, got, tasks>>

(* put_nowait raises QueueFull instead. *)
PutRefused(p) ==
  /\ call[p] = "none"
  /\ Live(getters) = <<>> /\ Full
  /\ getters' = <<>> /\ putters' = Live(putters)
  /\ call' = [call EXCEPT ![p] = "refused"]
  /\ UNCHANGED <<kind, maxsize, queue, unfinished, finished, armed, word, got, tasks>>

(* Fault for the mutants: the item of the waiting put is returned instead  *)
(* of the first one.                                                       *)
GetPuttersItem(g) ==
  LET waiting == Live(putters) IN
  /\ call[g] = "none"
  /\ waiting # <<>>
  /\ getters' = Live(getters) /\ putters' = Tail(waiting)
  /\ Accept(Head(waiting), queue)
  /\ got' = [got EXCEPT ![g] = Head(waiting)]
  /\ tasks' = tasks \cup {Head(waiting)}
  /\ Resolve({g, Head(waiting)})
  /\ UNCHANGED <<kind, maxsize, armed, word>>

(* get and get_nowait with a put that waits: its item goes into the queue  *)
(* first and the next item in order comes out.                             *)
GetFromPutter(g) ==
  LET waiting == Live(putters)
      q == Append(queue, Head(waiting))
  IN /\ call[g] = "none"
     /\ waiting # <<>>
     /\ getters' = Live(getters)
     /\ putters' = Tail(waiting)
     /\ Accept(Head(waiting), Rest(q))
     /\ got' = [got EXCEPT ![g] = Popped(q)]
     /\ tasks' = tasks \cup {Popped(q)}
     /\ Resolve({g, Head(waiting)})
     /\ UNCHANGED <<kind, maxsize, armed, word>>

GetFromQueue(g) ==
  /\ call[g] = "none"
  /\ Live(putters) = <<>> /\ queue # <<>>
  /\ putters' = <<>> /\ getters' = Live(getters)
  /\ queue' = Rest(queue)
  /\ got' = [got EXCEPT ![g] = Popped(queue)]
  /\ tasks' = tasks \cup {Popped(queue)}
  /\ Resolve({g})
  /\ UNCHANGED <<kind, maxsize, unfinished, finished, armed, word>>

GetWaits(g) ==
  /\ call[g] = "none"
  /\ Live(putters) = <<>> /\ queue = <<>>
  /\ putters' = <<>>
  /\ getters' = Append(Live(getters), g)
  /\ call' = [call EXCEPT ![g] = "pending"]
  /\ armed' \in {armed, armed \cup {g}}
  /\ UNCHANGED <<kind, maxsize, queue, unfinished, finished, word, got, tasks>>

(* get_nowait raises QueueEmpty instead. *)
GetRefused(g) ==
  /\ call[g] = "none"
  /\ Live(putters) = <<>> /\ queue = <<>>
  /\ putters' = <<>> /\ getters' = Live(getters)
  /\ call' = [call EXCEPT ![g] = "refused"]
  /\ UNCHANGED <<kind, maxsize, queue, unfinished, finished, armed, word, got, tasks>>

(* The joins that were given the future of the event itself, and the       *)
(* callbacks of it that are queued when it becomes r.                      *)
Sharing == {j \in JoinCall : Pending(j) /\ word[j] = "none"}
EventBecomes(r) ==
  /\ finished' = r
  /\ word' = [j \in JoinCall |-> IF word[j] = "clear" THEN r ELSE word[j]]

(* task_done; the last one sets the event every join waits for, unless its *)
(* future is done, which a cancelled one is.                               *)
TaskDone(item) ==
  /\ item \in tasks
  /\ tasks' = tasks \ {item}
  /\ unfinished > 0
  /\ unfinished' = unfinished - 1
  /\ IF unfinished = 1 /\ finished = "clear"
     THEN EventBecomes("set") /\ Resolve(Sharing)
     ELSE UNCHANGED <<finished, word, call>>
  /\ UNCHANGED <<kind, maxsize, queue, getters, putters, armed, got>>

(* join; of an event whose future was cancelled it gives that, and with a  *)
(* timeout it raises.                                                      *)
Join(j) ==
  /\ call[j] = "none"
  /\ call' = [call EXCEPT ![j] = IF finished = "clear" THEN "pending"
                                 ELSE IF finished = "set" THEN "done" ELSE finished]
  /\ \/ UNCHANGED <<armed, word>>
     \/ /\ finished = "clear"
        /\ armed' = armed \cup {j} /\ word' = [word EXCEPT ![j] = "clear"]
  /\ UNCHANGED <<kind, maxsize, queue, getters, putters, unfinished, finished, got, tasks>>

(* chain_future's copy, queued when the event's future became done, and    *)
(* then remove_timeout; of a cancelled future copy raises, and the join's  *)
(* own stays as it is.                                                     *)
Hear(j) ==
  /\ word[j] \in {"set", "cancelled"}
  /\ word' = [word EXCEPT ![j] = IF @ = "set" THEN "told" ELSE "lost"]
  /\ armed' = armed \ {j}
  /\ call' = [call EXCEPT ![j] = IF @ = "pending" /\ word[j] = "set" THEN "done" ELSE @]
  /\ UNCHANGED <<kind, maxsize, queue, getters, putters, unfinished, finished, got, tasks>>

(* on_timeout of _set_timeout and of the with_timeout in Event.wait; it    *)
(* does nothing to a future that was resolved in the same iteration.       *)
Timeout(c) ==
  /\ c \in armed
  /\ armed' = armed \ {c}
  /\ call' = [call EXCEPT ![c] = IF @ = "pending" THEN "timeout" ELSE @]
  /\ UNCHANGED <<kind, maxsize, queue, getters, putters, unfinished, finished, word, got, tasks>>

(* The done callback of a resolved put or get removes its timeout. *)
Disarm(c) ==
  /\ c \in armed \cap (PutCall \cup GetCall) /\ ~Pending(c)
  /\ armed' = armed \ {c}
  /\ UNCHANGED <<kind, maxsize, queue, getters, putters, unfinished, finished, call, word, got, tasks>>

(* The caller cancels the future it was given, which is the caller's alone *)
(* except for a join without a timeout.                                    *)
Cancel(c) ==
  /\ Pending(c) /\ c \notin Sharing
  /\ call' = [call EXCEPT ![c] = "cancelled"]
  /\ UNCHANGED <<kind, maxsize, queue, getters, putters, unfinished, finished, armed, word, got, tasks>>

CancelJoin(j) ==
  /\ j \in Sharing
  /\ EventBecomes("cancelled")
  /\ call' = [c \in Call |-> IF c \in Sharing THEN "cancelled" ELSE call[c]]
  /\ UNCHANGED <<kind, maxsize, queue, getters, putters, unfinished, armed, got, tasks>>

Next ==
  \/ \E p \in PutCall : PutToGetter(p) \/ PutInQueue(p) \/ PutWaits(p) \/ PutRefused(p)
  \/ \E g \in GetCall : GetFromPutter(g) \/ GetFromQueue(g) \/ GetWaits(g) \/ GetRefused(g)
  \/ \E item \in PutCall : TaskDone(item)
  \/ \E j \in JoinCall : Join(j) \/ Hear(j) \/ CancelJoin(j)
  \/ \E c \in Call : Timeout(c) \/ Disarm(c) \/ Cancel(c)

Spec == Init /\ [][Next]_vars

-----------------------------------------------------------------------------
(* Properties *)

(* The types of the variables. *)
TypeOK ==
  /\ kind \in Kinds /\ maxsize \in 0..MaxRoom
  /\ queue \in Seq(PutCall) /\ getters \in Seq(GetCall) /\ putters \in Seq(PutCall)
  /\ unfinished \in Nat /\ finished \in {"clear", "set", "cancelled"}
  /\ call \in [Call -> {"none", "pending", "done", "timeout", "cancelled", "refused"}]
  /\ armed \subseteq Call /\ tasks \subseteq PutCall
  /\ word \in [JoinCall -> {"none", "clear", "set", "cancelled", "told", "lost"}]
  /\ got \in [GetCall -> PutCall \cup {Nothing}]

(* The event is set only when every accepted item has its task_done, and a *)
(* join waits on it only while one has none; a join with a timeout hears   *)
(* of it or still has its timer.  Only a join that was cancelled takes     *)
(* this from others: their waits end with tasks undone, or one with a      *)
(* timeout is lost.                                                        *)
JoinsWait ==
  /\ finished = "clear" => unfinished > 0
  /\ finished = "set" => unfinished = 0
  /\ \A j \in JoinCall : Pending(j) =>
       /\ word[j] \in {"none", "clear"} => finished = "clear"
       /\ word[j] \in {"clear", "set", "cancelled"} => j \in armed
       /\ word[j] # "told"

(* Nobody waits in vain: a get waits only while the queue is empty and a   *)
(* put only while it is full (the assertions of put_nowait and             *)
(* get_nowait), a join as said; and no item goes to a get that gave up.    *)
NobodyWaitsInVain ==
  /\ \A g \in GetCall : got[g] # Nothing => call[g] = "done"
  /\ (\E g \in GetCall : Pending(g)) => queue = <<>>
  /\ (\E p \in PutCall : Pending(p)) => Full
  /\ unfinished = Len(queue) + Cardinality(tasks)
  /\ JoinsWait

(* The items of ws that are in S. *)
Kept(ws, S) ==
  LET at == {i \in DOMAIN ws : ws[i] \in S}
  IN [k \in 1..Cardinality(at) |->
        ws[CHOOSE i \in at : Cardinality({j \in at : j <= i}) = k]]

(* Every item is taken once at most and in order, and only a put that gave *)
(* up loses its item, whatever waiters time out or are cancelled.          *)
Waiting == Kept(putters, {p \in PutCall : Pending(p)})
Abstract == INSTANCE Channel WITH
              Item <- PutCall, Taker <- GetCall, MaxWait <- MaxRoom,
              fifo <- kind = "fifo", room <- maxsize,
              line <- queue \o Waiting, taken <- got
ImplementsChannel == Abstract!Spec
ChannelStep == [Abstract!Next]_Abstract!vars
=============================================================================
