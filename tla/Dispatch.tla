------------------------------ MODULE Dispatch -------------------------------
(***************************************************************************)
(* How a committed order comes to be matched: the web process commits it   *)
(* and publishes its product on chan:matching, the event loop of the       *)
(* matching server (run, reader, try_matching) puts the message in the     *)
(* queue of the product, and the product's thread (start_one_by_one) looks *)
(* at the book once more.  A thread that found nothing to deal sleeps      *)
(* until its queue has something (no_matching), so a lost message is a     *)
(* pair of orders that stay in the book.                                   *)
(*                                                                         *)
(* The book is abstracted to `crossing', the number of deals the thread    *)
(* would make if nobody else acted; Trading has the orders themselves.     *)
(* Messages say nothing but their product, so a queue is a number.  Redis  *)
(* and the database are external: channel and Faults.                      *)
(***************************************************************************)
EXTENDS Integers, FiniteSets

CONSTANTS
  Product,      \* product numbers
  Active,       \* those get_products returns when the server starts
  Web,          \* web server processes
  Nothing,      \* a web process that has nothing to publish
  Faults,       \* what may go wrong
  MaxFaults,    \* bound of how often it does
  MaxOrders,    \* bound of the orders committed
  MaxCrossing   \* bound of crossing

AllFaults ==
  {"start",       \* get_products raises when the server starts
   "early",       \* hours begin while the server is still starting
   "connection",  \* a locking read finds its connection lost
   "timeout",     \* a locking read fails in another way
   "settle",      \* an update or the commit of a deal fails
   "death",       \* a query outside the guarded blocks raises and ends the thread
   "publish",     \* a web process fails between commit and publish
   "restart"}     \* the server is stopped, or loses Redis, and starts again

(* What the code recovers from by itself. *)
Recovered == {"connection", "settle"}

ASSUME DispatchAssumption ==
  /\ Active \subseteq Product
  /\ Nothing \notin Product
  /\ Faults \subseteq AllFaults
  /\ MaxFaults \in Nat /\ MaxOrders \in Nat /\ MaxCrossing \in Nat

VARIABLES
  server,    \* the main thread of the matching server
  todo,      \* products start_workers has still to start
  worker,    \* where the thread of each product is
  queue,     \* _queues: messages waiting for the thread
  idle,      \* its no_matching
  fresh,     \* an order was committed since the pass under way first read
  channel,   \* messages published and not yet handled by the event loop
  web,       \* what each web process has committed and not yet published
  crossing,  \* deals to be made
  open,      \* products in their exchange hours
  orders,    \* orders committed so far
  faults     \* how many faults there were, and whether one is past recovery

vars == <<server, todo, worker, queue, idle, fresh, channel, web, crossing, open,
          orders, faults>>
serverVars == <<server, todo, channel>>
workerVars == <<worker, queue, idle, fresh>>
bookVars   == <<web, crossing, open, orders>>

Init ==
  /\ server = "starting"
  /\ todo = Active
  /\ worker = [p \in Product |-> "none"]
  /\ queue = [p \in Product |-> 0]
  /\ idle = [p \in Product |-> FALSE]
  /\ fresh = [p \in Product |-> FALSE]
  /\ channel = [p \in Product |-> 0]
  /\ web = [w \in Web |-> Nothing]
  /\ crossing = [p \in Product |-> 0]
  /\ open = {}
  /\ orders = 0
  /\ faults = [n |-> 0, hard |-> FALSE]

Fault(f) ==
  /\ f \in Faults
  /\ faults.n < MaxFaults
  /\ faults' = [n |-> faults.n + 1, hard |-> IF f \in Recovered THEN faults.hard ELSE TRUE]

-----------------------------------------------------------------------------
(* The main thread of the matching server *)

(* A thread starts with a message of its own in its queue, so it looks at  *)
(* the book once before it may sleep.                                      *)
Started(p, q) ==
  /\ worker' = [worker EXCEPT ![p] = "top"]
  /\ queue' = [queue EXCEPT ![p] = q]
  /\ idle' = [idle EXCEPT ![p] = FALSE]
  /\ fresh' = [fresh EXCEPT ![p] = FALSE]

(* start_workers, one product, with get_products called as it is meant: as *)
(* committed the call lacks its instance and raises TypeError.             *)
StartWorker(p) ==
  /\ server = "starting"
  /\ p \in todo
  /\ todo' = todo \ {p}
  /\ Started(p, 1)
  /\ UNCHANGED <<server, channel, faults>> /\ UNCHANGED bookVars

(* What get_products raises ends the process before run(): a database that *)
(* is not there yet, say.                                                  *)
StartFails ==
  /\ server = "starting" /\ todo = Active
  /\ Fault("start")
  /\ server' = "exited"
  /\ UNCHANGED <<todo, channel>> /\ UNCHANGED workerVars /\ UNCHANGED bookVars

(* run: first self.pub, which the threads use, then the subscription. *)
Connect ==
  /\ server = "starting"
  /\ todo = {}
  /\ server' = "connected"
  /\ UNCHANGED <<todo, channel, faults>> /\ UNCHANGED workerVars /\ UNCHANGED bookVars

Subscribe ==
  /\ server = "connected"
  /\ server' = "reading"
  /\ UNCHANGED <<todo, channel, faults>> /\ UNCHANGED workerVars /\ UNCHANGED bookVars

(* reader and the task it schedules: a thread for a product seen for the   *)
(* first time, and the message in its queue.  A thread that has died is    *)
(* still in _actives and is not replaced.                                  *)
TryMatching(p) ==
  /\ server = "reading"
  /\ channel[p] > 0
  /\ channel' = [channel EXCEPT ![p] = @ - 1]
  /\ IF worker[p] = "none"
     THEN Started(p, 2)
     ELSE /\ queue' = [queue EXCEPT ![p] = @ + 1]
          /\ UNCHANGED <<worker, idle, fresh>>
  /\ UNCHANGED <<server, todo, faults>> /\ UNCHANGED bookVars

(* Stopped and started; the threads are daemons and nothing is kept. *)
Restart ==
  /\ Fault("restart")
  /\ server' = "starting"
  /\ todo' = Active
  /\ channel' = [p \in Product |-> 0]
  /\ worker' = [p \in Product |-> "none"]
  /\ queue' = [p \in Product |-> 0]
  /\ UNCHANGED <<idle, fresh>> /\ UNCHANGED bookVars

-----------------------------------------------------------------------------
(* The thread of product p *)

At(p, pc) == worker' = [worker EXCEPT ![p] = pc]

(* Fault for the mutants: no_matching is not reset when a pass begins. *)
BeginPassKeepsIdle(p) ==
  /\ worker[p] = "top"
  /\ p \in open
  /\ queue[p] > 0 \/ ~idle[p]
  /\ queue' = [queue EXCEPT ![p] = IF @ > 0 THEN @ - 1 ELSE 0]
  /\ At(p, "readSale")
  /\ UNCHANGED <<idle, fresh, faults>> /\ UNCHANGED serverVars /\ UNCHANGED bookVars

(* In exchange hours, a message or work left by the last pass begins a     *)
(* pass; a message is taken even when there is work left.                  *)
BeginPass(p) ==
  /\ worker[p] = "top"
  /\ p \in open
  /\ queue[p] > 0 \/ ~idle[p]
  /\ queue' = [queue EXCEPT ![p] = IF @ > 0 THEN @ - 1 ELSE 0]
  /\ idle' = [idle EXCEPT ![p] = FALSE]
  /\ At(p, "readSale")
  /\ UNCHANGED <<fresh, faults>> /\ UNCHANGED serverVars /\ UNCHANGED bookVars

(* #1, the locking read of the sales. *)
ReadSale(p) ==
  /\ worker[p] = "readSale"
  /\ At(p, "readBuy")
  /\ fresh' = [fresh EXCEPT ![p] = FALSE]
  /\ UNCHANGED <<queue, idle, faults>> /\ UNCHANGED serverVars /\ UNCHANGED bookVars

(* #2, the locking read of the buys finds a pair to deal. *)
FindPair(p) ==
  /\ worker[p] = "readBuy"
  /\ crossing[p] > 0
  /\ At(p, "found")
  /\ UNCHANGED <<queue, idle, fresh, faults>> /\ UNCHANGED serverVars /\ UNCHANGED bookVars

(* Or there is none, or the pair there is has an order that came after #1. *)
FindNone(p) ==
  /\ worker[p] = "readBuy"
  /\ crossing[p] = 0 \/ fresh[p]
  /\ idle' = [idle EXCEPT ![p] = TRUE]
  /\ At(p, "report")
  /\ UNCHANGED <<queue, fresh, faults>> /\ UNCHANGED serverVars /\ UNCHANGED bookVars

(* Fault for the mutants: the new session is made, and the thread sleeps.   *)
ReconnectIdle(p) ==
  /\ worker[p] \in {"readSale", "readBuy"}
  /\ Fault("connection")
  /\ idle' = [idle EXCEPT ![p] = TRUE]
  /\ At(p, "top")
  /\ UNCHANGED <<queue, fresh>> /\ UNCHANGED serverVars /\ UNCHANGED bookVars

(* A read fails with the connection invalidated: a new session, and a      *)
(* message to itself.                                                      *)
Reconnect(p) ==
  /\ worker[p] \in {"readSale", "readBuy"}
  /\ Fault("connection")
  /\ queue' = [queue EXCEPT ![p] = @ + 1]
  /\ At(p, "top")
  /\ UNCHANGED <<idle, fresh>> /\ UNCHANGED serverVars /\ UNCHANGED bookVars

(* Any other DBAPIError, a lock wait timeout say, falls through both       *)
(* handlers, and the pass ends as if there were nothing to deal.           *)
ReadFails(p) ==
  /\ worker[p] \in {"readSale", "readBuy"}
  /\ Fault("timeout")
  /\ idle' = [idle EXCEPT ![p] = TRUE]
  /\ At(p, "report")
  /\ UNCHANGED <<queue, fresh>> /\ UNCHANGED serverVars /\ UNCHANGED bookVars

Settle(p) ==
  /\ worker[p] = "found"
  /\ crossing' = [crossing EXCEPT ![p] = @ - 1]
  /\ At(p, "report")
  /\ UNCHANGED <<queue, idle, fresh, faults, web, open, orders>> /\ UNCHANGED serverVars

(* The commit fails and the pass ends, or an update does, and the commit   *)
(* of the empty transaction after the rollback goes on as after a deal.    *)
SettleFails(p) ==
  /\ worker[p] = "found"
  /\ Fault("settle")
  /\ At(p, "report") \/ At(p, "top")
  /\ UNCHANGED <<queue, idle, fresh>> /\ UNCHANGED serverVars /\ UNCHANGED bookVars

(* The book, or the deal, is written to Redis through self.pub, which does *)
(* not exist before run() has made it: the AttributeError ends the thread. *)
Report(p) ==
  /\ worker[p] = "report"
  /\ At(p, IF server = "starting" THEN "dead" ELSE "top")
  /\ UNCHANGED <<queue, idle, fresh, faults>> /\ UNCHANGED serverVars /\ UNCHANGED bookVars

(* is_in_exchange and the queries behind the report are guarded by nothing. *)
Die(p) ==
  /\ worker[p] \in {"top", "report"}
  /\ Fault("death")
  /\ At(p, "dead")
  /\ UNCHANGED <<queue, idle, fresh>> /\ UNCHANGED serverVars /\ UNCHANGED bookVars

-----------------------------------------------------------------------------
(* The web processes and the hours *)

(* Fault for the mutants: an order is committed and not published. *)
PlaceOrderSilently(w, p) ==
  /\ web[w] = Nothing
  /\ p \in open
  /\ orders < MaxOrders
  /\ orders' = orders + 1
  /\ \E n \in crossing[p]..MaxCrossing : crossing' = [crossing EXCEPT ![p] = n]
  /\ fresh' = [fresh EXCEPT ![p] = TRUE]
  /\ UNCHANGED <<web, worker, queue, idle, open, faults>> /\ UNCHANGED serverVars

(* An order is committed.  It may make new deals possible and undoes none. *)
PlaceOrder(w, p) ==
  /\ web[w] = Nothing
  /\ p \in open
  /\ orders < MaxOrders
  /\ orders' = orders + 1
  /\ \E n \in 0..MaxCrossing :
       /\ crossing[p] > 0 => n > 0
       /\ crossing' = [crossing EXCEPT ![p] = n]
  /\ fresh' = [fresh EXCEPT ![p] = TRUE]
  /\ web' = [web EXCEPT ![w] = p]
  /\ UNCHANGED <<worker, queue, idle, open, faults>> /\ UNCHANGED serverVars

(* A cancel is committed.  The pair a thread has locked is not cancelled. *)
CancelOrder(w, p) ==
  /\ web[w] = Nothing
  /\ p \in open
  /\ orders < MaxOrders
  /\ orders' = orders + 1
  /\ \E n \in 0..crossing[p] :
       /\ worker[p] = "found" => n > 0
       /\ crossing' = [crossing EXCEPT ![p] = n]
  /\ web' = [web EXCEPT ![w] = p]
  /\ UNCHANGED <<open, faults>> /\ UNCHANGED serverVars /\ UNCHANGED workerVars

(* redis.publish reaches whoever is subscribed at that moment. *)
Publish(w) ==
  /\ web[w] # Nothing
  /\ web' = [web EXCEPT ![w] = Nothing]
  /\ channel' = IF server = "reading" THEN [channel EXCEPT ![web[w]] = @ + 1] ELSE channel
  /\ UNCHANGED <<server, todo, crossing, open, orders, faults>> /\ UNCHANGED workerVars

PublishFails(w) ==
  /\ web[w] # Nothing
  /\ Fault("publish")
  /\ web' = [web EXCEPT ![w] = Nothing]
  /\ UNCHANGED <<crossing, open, orders>> /\ UNCHANGED serverVars /\ UNCHANGED workerVars

(* The server is started before the hours begin, unless "early". *)
OpenHours(p) ==
  /\ p \notin open
  /\ open' = open \cup {p}
  /\ IF server = "reading" THEN UNCHANGED faults ELSE Fault("early")
  /\ UNCHANGED <<web, crossing, orders>> /\ UNCHANGED serverVars /\ UNCHANGED workerVars

CloseHours(p) ==
  /\ p \in open
  /\ open' = open \ {p}
  /\ UNCHANGED <<web, crossing, orders, faults>> /\ UNCHANGED serverVars
  /\ UNCHANGED workerVars

-----------------------------------------------------------------------------
ServerStep == StartFails \/ Connect \/ Subscribe \/ \E p \in Product : StartWorker(p)

WorkerStep(p) ==
  BeginPass(p) \/ ReadSale(p) \/ FindPair(p) \/ FindNone(p) \/ Reconnect(p)
  \/ ReadFails(p) \/ Settle(p) \/ SettleFails(p) \/ Report(p) \/ Die(p)

WebStep(w) ==
  Publish(w) \/ PublishFails(w) \/ \E p \in Product : PlaceOrder(w, p) \/ CancelOrder(w, p)

Next ==
  \/ ServerStep
  \/ Restart
  \/ \E p \in Product : TryMatching(p) \/ WorkerStep(p) \/ OpenHours(p) \/ CloseHours(p)
  \/ \E w \in Web : WebStep(w)

(* The event loop and every thread run, and a request that was begun goes  *)
(* on; no order, cancel, fault or hour has to come.                        *)
Fairness ==
  /\ WF_vars(ServerStep)
  /\ \A p \in Product : WF_vars(TryMatching(p)) /\ WF_vars(WorkerStep(p))
  /\ \A w \in Web : WF_vars(Publish(w) \/ PublishFails(w))

Spec == Init /\ [][Next]_vars
FairSpec == Spec /\ Fairness

-----------------------------------------------------------------------------
(* Properties *)

(* The types of the variables. *)
TypeOK ==
  /\ server \in {"starting", "connected", "reading", "exited"}
  /\ todo \subseteq Active
  /\ worker \in [Product -> {"none", "top", "readSale", "readBuy", "found", "report", "dead"}]
  /\ queue \in [Product -> Nat]
  /\ idle \in [Product -> BOOLEAN]
  /\ fresh \in [Product -> BOOLEAN]
  /\ channel \in [Product -> Nat]
  /\ web \in [Web -> Product \cup {Nothing}]
  /\ crossing \in [Product -> 0..MaxCrossing]
  /\ open \subseteq Product
  /\ orders \in 0..MaxOrders
  /\ faults \in [n : 0..MaxFaults, hard : BOOLEAN]

(* Somebody is on the way to the book of p: a message under way to its     *)
(* queue, or a pass that has not read yet, or the work of the last pass.   *)
Pending(p) == (\E w \in Web : web[w] = p) \/ channel[p] > 0 \/ queue[p] > 0

OnTheWay(p) ==
  \/ Pending(p)
  \/ worker[p] \in {"readSale", "readBuy", "found"}
  \/ worker[p] \in {"top", "report"} /\ ~idle[p]

(* A pair that crosses never waits for a thread that sleeps: what the      *)
(* publish after every commit, the 'Starting' and 'Reconnecting...'        *)
(* messages and the reset of no_matching are for.  The thread may set      *)
(* no_matching just after an order it did not see was committed.  It holds *)
(* until a fault strikes that the code does not recover from.              *)
NoLostWakeup == ~faults.hard => \A p \in Product : crossing[p] > 0 => OnTheWay(p)

(* The inductive invariant behind it: a pair that was found stays, hours   *)
(* begin and orders are committed with the server subscribed, no thread    *)
(* dies, a pass keeps no_matching FALSE until it has found nothing, and an *)
(* order it may have missed has a message of its own still to come.        *)
ServerUp ==
  /\ open # {} => server = "reading"
  /\ \A w \in Web : web[w] # Nothing => server = "reading"
  /\ \A p \in Product : worker[p] \in {"readSale", "readBuy", "found", "report"}
                          => server = "reading"

PairHeld == \A p \in Product : worker[p] = "found" => crossing[p] > 0

PassAwake ==
  \A p \in Product :
    /\ worker[p] # "dead"
    /\ worker[p] \in {"readSale", "readBuy", "found"} => ~idle[p]
    /\ worker[p] = "readBuy" /\ fresh[p] => Pending(p)

WakeInv == TypeOK /\ PairHeld /\ (~faults.hard => ServerUp /\ PassAwake) /\ NoLostWakeup

(* So, in the exchange hours, all that crosses is dealt in the end. *)
CrossingDealt ==
  \A p \in Product :
    (crossing[p] > 0) ~> (crossing[p] = 0 \/ p \notin open \/ faults.hard)

(* Whatever was lost before, once the server reads its channel a message   *)
(* in the queue of a thread makes it deal all that crosses, the whole      *)
(* backlog, unless the thread dies, the hours end or a fault strikes.      *)
MessageDrains ==
  \A p \in Product : \A n \in 0..MaxFaults :
    (server = "reading" /\ queue[p] > 0 /\ faults.n = n)
      ~> (crossing[p] = 0 \/ p \notin open \/ worker[p] = "dead" \/ faults.n # n)
=============================================================================
