------------------------------- MODULE Trading -------------------------------
(***************************************************************************)
(* Order entry, cancellation and matching as the two processes run them:   *)
(* one matching thread per product (MatchingServer.start_one_by_one) and   *)
(* single-threaded web processes (OrderHandler.insert_*_order, do_cancel), *)
(* which share the wx_order and wx_order_deal tables and nothing else.     *)
(* Every step is one statement, or one commit, of one transaction.         *)
(*                                                                         *)
(* The database is external.  `order' and `deals' are the committed rows;  *)
(* `lock' holds the row locks of SELECT ... FOR UPDATE, kept until the     *)
(* transaction ends.  The ORM declares no index but the primary key, so    *)
(* InnoDB at its default isolation level scans the table, locks every row  *)
(* it examines and keeps new rows out (ScanLocksTable = TRUE).  FALSE is   *)
(* the least SQL guarantees, as an index would give: the row returned is   *)
(* locked and no other.  Safety must hold for both.                        *)
(***************************************************************************)
EXTENDS OrderBook, FiniteSets, FiniteSetsExt

CONSTANTS
  Web,              \* web server processes; wxserver.sh starts one
  Free,             \* lock: nobody holds the row
  Abandoned,        \* lock: held by a session nobody refers to any more
  ScanLocksTable,   \* a locking read locks the whole table
  Development,      \* the `development' key of config.yaml
  MaxTime           \* bound of the clock

ASSUME TradingAssumption ==
  /\ ScanLocksTable \in BOOLEAN
  /\ Development \in BOOLEAN
  /\ MaxTime \in Nat
  /\ Product \cap Web = {}
  /\ Free \notin Product \cup Web
  /\ Abandoned \notin Product \cup Web
  /\ Free # Abandoned

VARIABLES
  order,       \* [OrderId -> Row or NoRow], the committed rows of wx_order
  deals,       \* the committed rows of wx_order_deal
  now,         \* time.time()
  midnight,    \* time.mktime(date.today().timetuple())
  lock,        \* who holds the row lock of an order
  hours,       \* the products whose exchange hours it is
  worker,      \* the matching thread of each product
  web,         \* each web process
  confirmed    \* orders whose owner was told the cancel succeeded

vars == <<order, deals, now, midnight, lock, hours, worker, web, confirmed>>

Rows == {i \in OrderId : order[i] # NoRow}

IdleWorker == [pc |-> "loop", from |-> 0, so |-> NoRow, bo |-> NoRow]
IdleWeb    == [pc |-> "idle", draft |-> NoRow, row |-> NoRow]

(* ProductHandler.is_in_exchange *)
InExchange(p) == Development \/ p \in hours

Init ==
  /\ order = [i \in OrderId |-> NoRow]
  /\ deals = {}
  /\ now = 1
  /\ midnight = 0
  /\ lock = [i \in OrderId |-> Free]
  /\ hours = {}
  /\ worker = [p \in Product |-> IdleWorker]
  /\ web = [w \in Web |-> IdleWeb]
  /\ confirmed = {}

-----------------------------------------------------------------------------
(* Row locks *)

(* The rows a locking read locks when it returns the given one. *)
Locked(row) ==
  IF ScanLocksTable THEN Rows ELSE {i \in OrderId : row # NoRow /\ i = row.id}

(* It waits while another transaction holds one of them. *)
CanLock(a, ids) == \A i \in ids : lock[i] \in {Free, a}
Lock(a, ids)    == lock' = [i \in OrderId |-> IF i \in ids THEN a ELSE lock[i]]

(* The end of a transaction gives its locks back; a return without close() *)
(* leaves them to a session that only the garbage collector will end.      *)
Pass(a, b) == lock' = [i \in OrderId |-> IF lock[i] = a THEN b ELSE lock[i]]
Release(a) == Pass(a, Free)

(* Some worker has scanned the table and keeps the gap after its last row. *)
GapLocked ==
  ScanLocksTable /\ \E p \in Product : worker[p].pc \in {"selectBuy", "selected"}

-----------------------------------------------------------------------------
(* The matching thread of product p *)

(* Fault: orders of earlier days are read too. *)
BeginPassAnyDay(p) ==
  /\ worker[p].pc = "loop"
  /\ InExchange(p)
  /\ worker' = [worker EXCEPT ![p] = [IdleWorker EXCEPT !.pc = "selectSale"]]
  /\ UNCHANGED <<order, deals, now, midnight, lock, hours, web, confirmed>>

(* Top of the loop: in exchange hours, today's midnight is computed. *)
BeginPass(p) ==
  /\ worker[p].pc = "loop"
  /\ InExchange(p)
  /\ worker' = [worker EXCEPT ![p] = [IdleWorker EXCEPT !.pc = "selectSale",
                                                        !.from = midnight]]
  /\ UNCHANGED <<order, deals, now, midnight, lock, hours, web, confirmed>>

(* Fault: a plain read, without FOR UPDATE. *)
SelectSaleUnlocked(p) ==
  /\ worker[p].pc = "selectSale"
  /\ \E so \in FirstOf(Best(order, p, "S", worker[p].from)) :
       worker' = [worker EXCEPT ![p] = [@ EXCEPT !.pc = "selectBuy", !.so = so]]
  /\ UNCHANGED <<order, deals, now, midnight, lock, hours, web, confirmed>>

(* #1, the locking read of the cheapest sale. *)
SelectSale(p) ==
  /\ worker[p].pc = "selectSale"
  /\ \E so \in FirstOf(Best(order, p, "S", worker[p].from)) :
       /\ CanLock(p, Locked(so))
       /\ Lock(p, Locked(so))
       /\ worker' = [worker EXCEPT ![p] = [@ EXCEPT !.pc = "selectBuy", !.so = so]]
  /\ UNCHANGED <<order, deals, now, midnight, hours, web, confirmed>>

(* Fault: a plain read, without FOR UPDATE. *)
SelectBuyUnlocked(p) ==
  /\ worker[p].pc = "selectBuy"
  /\ \E bo \in FirstOf(Best(order, p, "B", worker[p].from)) :
       worker' = [worker EXCEPT ![p] = [@ EXCEPT !.pc = "selected", !.bo = bo]]
  /\ UNCHANGED <<order, deals, now, midnight, lock, hours, web, confirmed>>

(* #2, the locking read of the dearest buy, in the same transaction. *)
SelectBuy(p) ==
  /\ worker[p].pc = "selectBuy"
  /\ \E bo \in FirstOf(Best(order, p, "B", worker[p].from)) :
       /\ CanLock(p, Locked(bo))
       /\ Lock(p, Locked(bo))
       /\ worker' = [worker EXCEPT ![p] = [@ EXCEPT !.pc = "selected", !.bo = bo]]
  /\ UNCHANGED <<order, deals, now, midnight, hours, web, confirmed>>

(* A read fails: a lock wait timed out, and the pass ends as if no order   *)
(* had been found, or the connection was lost, and a new session is made.  *)
SelectFails(p) ==
  /\ worker[p].pc \in {"selectSale", "selectBuy"}
  /\ worker' = [worker EXCEPT ![p] = IdleWorker]
  /\ Release(p)
  /\ UNCHANGED <<order, deals, now, midnight, hours, web, confirmed>>

(* One side is empty, or the sale asks more than the buyer bids. *)
NoMatch(p) ==
  /\ worker[p].pc = "selected"
  /\ ~Crosses(worker[p].so, worker[p].bo)
  /\ worker' = [worker EXCEPT ![p] = IdleWorker]
  /\ Release(p)
  /\ UNCHANGED <<order, deals, now, midnight, hours, web, confirmed>>

(* Both updates and the new deal, committed together.  The rows updated    *)
(* are the committed ones, the volume and the statuses are decided from    *)
(* the rows read.                                                          *)
Settle(p) ==
  LET so == worker[p].so
      bo == worker[p].bo
      v  == DealVolume(so, bo)
  IN /\ worker[p].pc = "selected"
     /\ Crosses(so, bo)
     /\ order' = [order EXCEPT ![so.id] = Fill(@, v, DealStatus(so, bo)),
                               ![bo.id] = Fill(@, v, DealStatus(bo, so))]
     /\ deals' = deals \cup {NewDeal(so, bo)}
     /\ worker' = [worker EXCEPT ![p] = IdleWorker]
     /\ Release(p)
     /\ UNCHANGED <<now, midnight, hours, web, confirmed>>

(* An update, the insert or the commit fails: rollback. *)
SettleFails(p) ==
  /\ worker[p].pc = "selected"
  /\ Crosses(worker[p].so, worker[p].bo)
  /\ worker' = [worker EXCEPT ![p] = IdleWorker]
  /\ Release(p)
  /\ UNCHANGED <<order, deals, now, midnight, hours, web, confirmed>>

(* The matching server is killed and started again; the database rolls     *)
(* back what its threads had open.                                         *)
MatcherRestart ==
  /\ \E p \in Product : worker[p].pc # "loop"
  /\ worker' = [p \in Product |-> IdleWorker]
  /\ lock' = [i \in OrderId |-> IF lock[i] \in Product THEN Free ELSE lock[i]]
  /\ UNCHANGED <<order, deals, now, midnight, hours, web, confirmed>>

-----------------------------------------------------------------------------
(* The web process w *)

(* insert_buy_order, insert_sale_order: the checks pass (the funds and the *)
(* holdings they admit are the subject of Funds) and the order is stamped. *)
SubmitOrder(w) ==
  /\ web[w].pc = "idle"
  /\ \E a \in Request :
       /\ InExchange(a.p_no)
       /\ web' = [web EXCEPT ![w] = [@ EXCEPT !.pc = "insert",
                                               !.draft = [ask |-> a, created_at |-> now]]]
  /\ UNCHANGED <<order, deals, now, midnight, lock, hours, worker, confirmed>>

(* The INSERT and its commit, once no transaction locks the gap it goes in. *)
InsertOrder(w) ==
  /\ web[w].pc = "insert"
  /\ ~GapLocked
  /\ \E i \in OrderId \ Rows :
       /\ \A j \in OrderId \ Rows : i <= j
       /\ order' = [order EXCEPT ![i] = NewRow(i, web[w].draft.ask,
                                           web[w].draft.created_at)]
  /\ web' = [web EXCEPT ![w] = IdleWeb]
  /\ UNCHANGED <<deals, now, midnight, lock, hours, worker, confirmed>>

InsertFails(w) ==
  /\ web[w].pc = "insert"
  /\ web' = [web EXCEPT ![w] = IdleWeb]
  /\ UNCHANGED <<order, deals, now, midnight, lock, hours, worker, confirmed>>

(* Fault: a plain read, without FOR UPDATE. *)
CancelSelectUnlocked(w) ==
  /\ web[w].pc = "idle"
  /\ \E i \in Rows :
       web' = [web EXCEPT ![w] = [@ EXCEPT !.pc = "cancel", !.row = order[i]]]
  /\ UNCHANGED <<order, deals, now, midnight, lock, hours, worker, confirmed>>

(* do_cancel reads the order FOR UPDATE by its primary key. *)
CancelSelect(w) ==
  /\ web[w].pc = "idle"
  /\ \E i \in Rows :
       /\ CanLock(w, {i})
       /\ Lock(w, {i})
       /\ web' = [web EXCEPT ![w] = [@ EXCEPT !.pc = "cancel", !.row = order[i]]]
  /\ UNCHANGED <<order, deals, now, midnight, hours, worker, confirmed>>

(* Outside exchange hours it returns without ending its session. *)
CancelRefused(w) ==
  /\ web[w].pc = "cancel"
  /\ ~InExchange(web[w].row.p_no)
  /\ web' = [web EXCEPT ![w] = IdleWeb]
  /\ Pass(w, Abandoned)
  /\ UNCHANGED <<order, deals, now, midnight, hours, worker, confirmed>>

(* The status decided from the row read is written and committed, and the  *)
(* owner is told so whatever that status was.                              *)
CancelCommit(w) ==
  LET row == web[w].row
  IN /\ web[w].pc = "cancel"
     /\ InExchange(row.p_no)
     /\ order' = [order EXCEPT ![row.id].status = CancelStatus(row.status)]
     /\ confirmed' = confirmed \cup {row.id}
     /\ web' = [web EXCEPT ![w] = IdleWeb]
     /\ Release(w)
     /\ UNCHANGED <<deals, now, midnight, hours, worker>>

(* The commit fails, or the process is killed: rollback. *)
CancelFails(w) ==
  /\ web[w].pc = "cancel"
  /\ web' = [web EXCEPT ![w] = IdleWeb]
  /\ Release(w)
  /\ UNCHANGED <<order, deals, now, midnight, hours, worker, confirmed>>

(* The garbage collector ends the abandoned sessions and their connections *)
(* roll back.                                                              *)
Collect ==
  /\ \E i \in OrderId : lock[i] = Abandoned
  /\ Release(Abandoned)
  /\ UNCHANGED <<order, deals, now, midnight, hours, worker, web, confirmed>>

-----------------------------------------------------------------------------
(* Time *)

(* The hours of a product begin or end; a pass or a request under way goes *)
(* on.  In development nobody looks at them.                               *)
OpenHours(p) ==
  /\ ~Development
  /\ p \notin hours
  /\ hours' = hours \cup {p}
  /\ UNCHANGED <<order, deals, now, midnight, lock, worker, web, confirmed>>

CloseHours(p) ==
  /\ p \in hours
  /\ hours' = hours \ {p}
  /\ UNCHANGED <<order, deals, now, midnight, lock, worker, web, confirmed>>

Tick ==
  /\ now < MaxTime
  /\ now' = now + 1
  /\ UNCHANGED <<order, deals, midnight, lock, hours, worker, web, confirmed>>

(* Trading ends hours before midnight and a lock wait lasts seconds, so in *)
(* production nothing is under way when the date changes.                  *)
Quiet ==
  /\ hours = {}
  /\ \A p \in Product : worker[p].pc = "loop"
  /\ \A w \in Web : web[w].pc = "idle"

NextDay ==
  /\ now < MaxTime
  /\ Development \/ Quiet
  /\ midnight' = now
  /\ now' = now + 1
  /\ UNCHANGED <<order, deals, lock, hours, worker, web, confirmed>>

-----------------------------------------------------------------------------
WorkerStep(p) ==
  BeginPass(p) \/ SelectSale(p) \/ SelectBuy(p) \/ SelectFails(p)
  \/ NoMatch(p) \/ Settle(p) \/ SettleFails(p)

WebStep(w) ==
  SubmitOrder(w) \/ InsertOrder(w) \/ InsertFails(w) \/ CancelSelect(w)
  \/ CancelRefused(w) \/ CancelCommit(w) \/ CancelFails(w)

Environment ==
  MatcherRestart \/ Collect \/ Tick \/ NextDay
  \/ \E p \in Product : OpenHours(p) \/ CloseHours(p)

Next ==
  \/ \E p \in Product : WorkerStep(p)
  \/ \E w \in Web : WebStep(w)
  \/ Environment

Spec == Init /\ [][Next]_vars

-----------------------------------------------------------------------------
(* Properties *)

TypeOK ==
  /\ order \in [OrderId -> Row \cup {NoRow}]
  /\ deals \subseteq Deal
  /\ now \in Nat /\ midnight \in Nat
  /\ lock \in [OrderId -> Product \cup Web \cup {Free, Abandoned}]
  /\ hours \subseteq Product
  /\ worker \in [Product -> [pc: {"loop", "selectSale", "selectBuy", "selected"},
                            from: Nat, so: Row \cup {NoRow}, bo: Row \cup {NoRow}]]
  /\ web \in [Web -> [pc: {"idle", "insert", "cancel"}, draft: Draft \cup {NoRow},
                      row: Row \cup {NoRow}]]
  /\ confirmed \subseteq OrderId

(* The status of every order tells how much of it was dealt, whatever the  *)
(* passes, the cancels and the failures between them: the two writers of   *)
(* the column (start_one_by_one and do_cancel) each decide it from a row   *)
(* they read in an earlier step.  No order is ever dealt beyond its volume.*)
Sound(r) ==
  /\ r.deal_volume <= r.volume
  /\ r.status = Finished <=> r.deal_volume = r.volume
  /\ r.status \in {Committed, Closed} <=> r.deal_volume = 0
  /\ r.status \in {PartialFinished, PartialClosed}
       <=> 0 < r.deal_volume /\ r.deal_volume < r.volume

StatusSound == \A i \in Rows : Sound(order[i])

(* Every deal is between a sale and a buy of its product, at a price the   *)
(* seller asked for or more and the buyer bid or less.                     *)
WithinLimits(d) ==
  LET so == order[d.so_id]
      bo == order[d.bo_id]
  IN /\ {d.so_id, d.bo_id} \subseteq Rows
     /\ so.direction = "S" /\ bo.direction = "B"
     /\ so.p_no = d.p_no /\ bo.p_no = d.p_no
     /\ so.price <= d.price /\ d.price <= bo.price

DealsWithinLimits == \A d \in deals : WithinLimits(d)

(* Every deal finished one of its two orders, so no pair is dealt twice    *)
(* and no deal row stands for two fills.                                   *)
ExhaustsOne(d) ==
  \E i \in {d.so_id, d.bo_id} : i \in Rows /\ order[i].status = Finished

DealExhaustsOne == \A d \in deals : ExhaustsOne(d)

(* wx_order and wx_order_deal agree: what an order says was dealt of it is *)
(* the sum of the deals that name it.  The funds and the holdings of the   *)
(* users are computed from the deals, what is left in the book from the    *)
(* orders.                                                                 *)
DealsOf(i)     == {d \in deals : i \in {d.so_id, d.bo_id}}
VolumeDealt(i) == SumFunction([d \in DealsOf(i) |-> d.volume])

Conservation == \A i \in Rows : order[i].deal_volume = VolumeDealt(i)

(* An order whose owner was told "success" by do_cancel is out of the book *)
(* for good.                                                               *)
CancelledOutOfBook == \A i \in confirmed : i \in Rows /\ order[i].status \in Terminal

(* And it was cancelled: what OrderCancelHandler answers the owner.        *)
CancelAnswerTrue ==
  \A i \in confirmed : order[i].status \in {Closed, PartialClosed}

(* What the code relies on between its locking reads and its commit: the   *)
(* rows a pass or a cancel has read are locked by it and still the         *)
(* committed ones, and those of a pass may be dealt.                       *)
ReadBy(a, row) == row.id \in OrderId /\ lock[row.id] = a /\ order[row.id] = row

PassReads(p) ==
  LET w == worker[p]
  IN /\ w.pc \in {"loop", "selectSale"} => w.so = NoRow
     /\ w.pc # "selected" => w.bo = NoRow
     /\ w.so # NoRow => ReadBy(p, w.so) /\ Eligible(w.so, p, "S", w.from)
     /\ w.bo # NoRow => ReadBy(p, w.bo) /\ Eligible(w.bo, p, "B", w.from)

RequestReads(w) ==
  /\ web[w].pc = "insert" => web[w].draft # NoRow /\ web[w].draft.created_at <= now
  /\ web[w].pc = "cancel" => web[w].row # NoRow /\ ReadBy(w, web[w].row)

WorkerReads == \A p \in Product : PassReads(p)
WebReads    == \A w \in Web : RequestReads(w)

RowsKeyed == \A i \in Rows : order[i].id = i

PassesOfToday ==
  ~Development => \A p \in Product : worker[p].pc # "loop" => worker[p].from = midnight

(* The inductive invariant the theorems of Trading_proofs rest on. *)
IInv ==
  /\ TypeOK
  /\ RowsKeyed
  /\ WorkerReads
  /\ WebReads
  /\ PassesOfToday
  /\ StatusSound
  /\ DealsWithinLimits
  /\ DealExhaustsOne
  /\ CancelledOutOfBook

(* Whenever a deal is committed, its two orders are at that moment the     *)
(* first of their sides in price, then in time, among today's orders: no   *)
(* order placed or cancelled while the pass was under way is overtaken.    *)
PriceTimePriority ==
  [][\A d \in deals' \ deals :
       /\ order[d.so_id] \in Best(order, d.p_no, "S", midnight)
       /\ order[d.bo_id] \in Best(order, d.p_no, "B", midnight)]_vars

(* The two processes together do what Exchange promises in single steps:   *)
(* every commit is one placement, one trade or one cancel, decided on the  *)
(* rows as they are at the commit, and nothing else is ever visible.       *)
Abstract == INSTANCE Exchange WITH
              order <- order, deals <- deals, now <- now, midnight <- midnight
ImplementsExchange == Abstract!Spec
=============================================================================
