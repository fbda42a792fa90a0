--------------------------- MODULE Trading_proofs ----------------------------
(***************************************************************************)
(* Theorems about Trading, for every set of products, orders, requests and *)
(* web processes, both extents of the row locks and both modes.            *)
(***************************************************************************)
EXTENDS Trading, Sums, TLAPS

USE OrderBookAssumption, TradingAssumption

-----------------------------------------------------------------------------
(* Facts about the operators of OrderBook. *)

(* What the statuses are, for the provers. *)
LEMMA StatusFacts ==
  /\ Live \subseteq Status /\ Terminal \subseteq Status
  /\ Live \cap Terminal = {}
  /\ Committed \in Status /\ Finished \in Status /\ PartialFinished \in Status
  /\ \A s \in Status : CancelStatus(s) \in Status
BY DEF Live, Terminal, Status, Pending, Committed, Finished, Closed, PartialFinished,
       PartialClosed, CancelStatus

(* A deal of two orders that have something left leaves nothing of one of  *)
(* them and never takes more than either has.                              *)
LEMMA DealVolumeBounds ==
  ASSUME NEW so \in Row, NEW bo \in Row,
         so.deal_volume < so.volume, bo.deal_volume < bo.volume
  PROVE  /\ DealVolume(so, bo) \in Nat \ {0}
         /\ DealVolume(so, bo) <= Left(so) /\ DealVolume(so, bo) <= Left(bo)
         /\ DealVolume(so, bo) = Left(so) \/ DealVolume(so, bo) = Left(bo)
         /\ DealStatus(so, bo) = Finished <=> DealVolume(so, bo) = Left(so)
         /\ DealStatus(bo, so) = Finished <=> DealVolume(so, bo) = Left(bo)
 <1>1. so.deal_volume \in Nat /\ bo.deal_volume \in Nat /\ so.volume \in Nat /\ bo.volume \in Nat
   BY DEF Row
 <1>2. Left(so) \in Nat \ {0} /\ Left(bo) \in Nat \ {0}
   BY <1>1 DEF Left
 <1>3. QED
   BY <1>2 DEF DealVolume, DealStatus, Finished, PartialFinished

(* What the update of one side of a deal makes of its row. *)
LEMMA FillFacts ==
  ASSUME NEW r \in Row, NEW v \in Nat \ {0}, NEW s \in {Finished, PartialFinished},
         v <= Left(r), s = Finished <=> v = Left(r)
  PROVE  /\ Fill(r, v, s) \in Row
         /\ Sound(Fill(r, v, s))
         /\ Fill(r, v, s).status = s
         /\ Fill(r, v, s).id = r.id /\ Fill(r, v, s).p_no = r.p_no
         /\ Fill(r, v, s).direction = r.direction /\ Fill(r, v, s).price = r.price
 <1>1. /\ r.deal_volume \in Nat /\ r.volume \in Nat
       /\ r.volume - r.deal_volume >= v
   BY DEF Row, Left
 <1>2. s \in Status
   BY StatusFacts
 <1>3. Fill(r, v, s) \in Row
  <2>1. r.deal_volume + v \in Nat
    BY <1>1
  <2>2. QED
    BY <1>2, <2>1 DEF Fill, Row
 <1>4. /\ Fill(r, v, s).status = s /\ Fill(r, v, s).deal_volume = r.deal_volume + v
       /\ Fill(r, v, s).id = r.id /\ Fill(r, v, s).p_no = r.p_no
       /\ Fill(r, v, s).volume = r.volume
       /\ Fill(r, v, s).direction = r.direction /\ Fill(r, v, s).price = r.price
   BY DEF Fill, Row
 <1>5. Sound(Fill(r, v, s))
   BY <1>1, <1>4 DEF Sound, Left, Finished, PartialFinished, Committed, Closed, PartialClosed
 <1>6. QED
   BY <1>3, <1>4, <1>5

(* What a cancel makes of a row. *)
LEMMA CancelFacts ==
  ASSUME NEW r \in Row, Sound(r), NEW c, c = [r EXCEPT !.status = CancelStatus(r.status)]
  PROVE  /\ c \in Row
         /\ Sound(c)
         /\ r.status = Finished <=> c.status = Finished
         /\ c.id = r.id /\ c.p_no = r.p_no /\ c.direction = r.direction
         /\ c.price = r.price
         /\ c.status \in Terminal
         /\ r.status \notin Live => c = r
 <1>1. r.status \in Status
   BY DEF Row
 <1>2. CancelStatus(r.status) \in Status
   BY <1>1, StatusFacts
 <1>3. c \in Row
   BY <1>2 DEF Row
 <1>4. /\ c.status = CancelStatus(r.status) /\ c.deal_volume = r.deal_volume
       /\ c.volume = r.volume /\ c.id = r.id /\ c.p_no = r.p_no
       /\ c.direction = r.direction /\ c.price = r.price
   BY DEF Row
 <1>5. r.deal_volume \in Nat /\ r.volume \in Nat \ {0}
   BY DEF Row
 <1>6. r.status # Pending
   BY <1>5 DEF Sound, Finished, PartialFinished, Committed, Closed, PartialClosed, Pending
 <1>7. c.status \in Terminal /\ (r.status = Finished <=> c.status = Finished)
   BY <1>1, <1>4, <1>6 DEF Status, Terminal, CancelStatus, Finished, PartialFinished,
      Committed, Closed, PartialClosed, Pending
 <1>8. Sound(c)
   BY <1>4, <1>5 DEF Sound, CancelStatus, Finished, PartialFinished, Committed, Closed,
      PartialClosed
 <1>9. ASSUME r.status \notin Live PROVE c = r
  <2>1. CancelStatus(r.status) = r.status
    BY <1>1, <1>6, <1>9 DEF Status, Live, CancelStatus, Finished, PartialFinished,
       Committed, Closed, PartialClosed, Pending
  <2>2. QED
    BY <2>1 DEF Row
 <1>10. QED
   BY <1>3, <1>4, <1>7, <1>8, <1>9

(* A new row. *)
LEMMA NewRowFacts ==
  ASSUME NEW i \in OrderId, NEW a \in Request, NEW t \in Nat
  PROVE  NewRow(i, a, t) \in Row /\ Sound(NewRow(i, a, t)) /\ NewRow(i, a, t).id = i
 <1>1. a \in [p_no: Product, direction: Direction, volume: Volume, price: Price]
   OBVIOUS
 <1>2. a.volume \in Nat \ {0}
   BY <1>1
 <1>3. NewRow(i, a, t) \in Row
   BY <1>1, StatusFacts DEF NewRow, Row
 <1>4. Sound(NewRow(i, a, t))
   BY <1>2 DEF NewRow, Sound, Finished, PartialFinished, Committed, Closed, PartialClosed
 <1>5. QED
   BY <1>3, <1>4 DEF NewRow

(* What LIMIT 1 returns: None, or an eligible row of the table. *)
LEMMA FirstOfBest ==
  ASSUME NEW p, NEW dir, NEW from, NEW r \in FirstOf(Best(order, p, dir, from))
  PROVE  r = NoRow \/ \E i \in OrderId : r = order[i] /\ Eligible(order[i], p, dir, from)
BY DEF FirstOf, Best

-----------------------------------------------------------------------------
(* The invariant holds initially, and every action preserves it. *)

WorkerState == [pc: {"loop", "selectSale", "selectBuy", "selected"}, from: Nat,
                so: Row \cup {NoRow}, bo: Row \cup {NoRow}]
WebState    == [pc: {"idle", "insert", "cancel"}, draft: Draft \cup {NoRow},
                row: Row \cup {NoRow}]

LEMMA IdleTyped == IdleWorker \in WorkerState /\ IdleWeb \in WebState
BY DEF IdleWorker, IdleWeb, WorkerState, WebState

LEMMA InitIInv == Init => IInv
 <1> SUFFICES ASSUME Init PROVE IInv
   OBVIOUS
 <1>1. TypeOK
   BY IdleTyped DEF Init, TypeOK, WorkerState, WebState
 <1>2. Rows = {}
   BY DEF Init, Rows
 <1>3. RowsKeyed /\ StatusSound /\ DealsWithinLimits /\ DealExhaustsOne /\ CancelledOutOfBook
   BY <1>2 DEF Init, RowsKeyed, StatusSound, DealsWithinLimits, DealExhaustsOne,
      CancelledOutOfBook
 <1>4. WorkerReads /\ WebReads /\ PassesOfToday
   BY DEF Init, WorkerReads, PassReads, WebReads, RequestReads, PassesOfToday, IdleWorker, IdleWeb
 <1>5. QED
   BY <1>1, <1>3, <1>4 DEF IInv

(* A step that leaves the committed rows alone leaves what is said of them. *)
LEMMA SameTables ==
  ASSUME IInv, UNCHANGED <<order, deals, confirmed>>
  PROVE  /\ RowsKeyed' /\ StatusSound' /\ DealsWithinLimits'
         /\ DealExhaustsOne' /\ CancelledOutOfBook'
BY DEF IInv, RowsKeyed, StatusSound, DealsWithinLimits, WithinLimits, DealExhaustsOne,
       ExhaustsOne, CancelledOutOfBook, Rows

(* A step that rewrites rows, each into a sound one of the same order that *)
(* stays finished or out of the book if it was, leaves what is said of the *)
(* orders and of the deals so far.                                         *)
Evolves(r, s) ==
  /\ s \in Row /\ Sound(s)
  /\ s.id = r.id /\ s.p_no = r.p_no /\ s.direction = r.direction /\ s.price = r.price
  /\ r.status = Finished => s.status = Finished
  /\ r.status \in Terminal => s.status \in Terminal

LEMMA EvolvedTables ==
  ASSUME IInv,
         \A i \in OrderId :
           order'[i] # order[i] => order[i] # NoRow /\ Evolves(order[i], order'[i])
  PROVE  /\ RowsKeyed' /\ StatusSound'
         /\ \A d \in deals : WithinLimits(d)' /\ ExhaustsOne(d)'
         /\ \A i \in confirmed : i \in Rows' /\ order'[i].status \in Terminal
 <1>1. \A i \in OrderId : Evolves(order[i], order'[i]) => order'[i] # NoRow
   BY DEF Evolves
 <1>2. RowsKeyed' /\ StatusSound'
   BY <1>1 DEF IInv, RowsKeyed, StatusSound, Rows, Evolves
 <1>3. \A i \in Rows : /\ i \in Rows' /\ order'[i].p_no = order[i].p_no
                       /\ order'[i].direction = order[i].direction
                       /\ order'[i].price = order[i].price
                       /\ order[i].status = Finished => order'[i].status = Finished
                       /\ order[i].status \in Terminal => order'[i].status \in Terminal
   BY <1>1 DEF Rows, Evolves
 <1>4. ASSUME NEW d \in deals PROVE WithinLimits(d)'
   BY <1>3 DEF IInv, DealsWithinLimits, WithinLimits
 <1>5. ASSUME NEW d \in deals PROVE ExhaustsOne(d)'
   BY <1>3 DEF IInv, DealExhaustsOne, ExhaustsOne
 <1>6. \A i \in confirmed : i \in Rows' /\ order'[i].status \in Terminal
   BY <1>3 DEF IInv, CancelledOutOfBook
 <1>7. QED
   BY <1>2, <1>4, <1>5, <1>6

(* Whoever holds its locks on rows nobody writes keeps what it has read. *)
LEMMA PassKeepsReads ==
  ASSUME NEW p \in Product, PassReads(p), worker'[p] = worker[p],
         \A i \in OrderId : lock[i] = p => lock'[i] = p /\ order'[i] = order[i]
  PROVE  PassReads(p)'
BY DEF PassReads, ReadBy

LEMMA RequestKeepsReads ==
  ASSUME TypeOK, NEW w \in Web, RequestReads(w), web'[w] = web[w],
         now' \in Nat, now <= now',
         \A i \in OrderId : lock[i] = w => lock'[i] = w /\ order'[i] = order[i]
  PROVE  RequestReads(w)'
 <1>1. web[w].draft # NoRow => web[w].draft \in Draft
   BY DEF TypeOK
 <1>2. web[w].pc = "insert" => web[w].draft.created_at <= now'
   BY <1>1 DEF RequestReads, Draft, TypeOK
 <1>3. QED
   BY <1>2 DEF RequestReads, ReadBy

(* A transaction that takes free rows, or ends, disturbs no other's locks. *)
LEMMA LockKeepsOthers ==
  ASSUME NEW a \in Product \cup Web, NEW ids \in SUBSET OrderId, CanLock(a, ids),
         Lock(a, ids), NEW b \in Product \cup Web, NEW i \in OrderId, lock[i] = b
  PROVE  lock'[i] = b
BY DEF CanLock, Lock

LEMMA PassKeepsOthers ==
  ASSUME NEW a, NEW c, Pass(a, c), NEW b, b # a, NEW i \in OrderId, lock[i] = b
  PROVE  lock'[i] = b
BY DEF Pass

(* A pass that ends, whatever its reason, with nothing written. *)
LEMMA PassEnds ==
  ASSUME IInv, NEW p \in Product, worker' = [worker EXCEPT ![p] = IdleWorker], Release(p),
         UNCHANGED <<order, deals, now, midnight, hours, web, confirmed>>
  PROVE  IInv'
 <1>1. TypeOK'
   BY IdleTyped DEF IInv, TypeOK, Release, Pass, WorkerState
 <1>2. WorkerReads'
  <2> SUFFICES ASSUME NEW q \in Product PROVE PassReads(q)'
    BY DEF WorkerReads
  <2>1. CASE q = p
    BY <2>1 DEF IInv, TypeOK, IdleWorker, PassReads
  <2>2. CASE q # p
   <3>1. worker'[q] = worker[q]
     BY <2>2 DEF IInv, TypeOK
   <3>2. \A i \in OrderId : lock[i] = q => lock'[i] = q
     BY <2>2, PassKeepsOthers DEF Release
   <3>3. PassReads(q)
     BY DEF IInv, WorkerReads
   <3>4. QED
     BY <3>1, <3>2, <3>3, PassKeepsReads
  <2>3. QED
    BY <2>1, <2>2
 <1>3. WebReads'
   BY DEF IInv, TypeOK, WebReads, RequestReads, ReadBy, Release, Pass
 <1>4. PassesOfToday'
   BY DEF IInv, TypeOK, PassesOfToday, IdleWorker
 <1>5. QED
   BY <1>1, <1>2, <1>3, <1>4, SameTables DEF IInv

LEMMA StepBeginPass ==
  ASSUME IInv, NEW p \in Product, BeginPass(p)
  PROVE  IInv'
 <1>1. TypeOK'
   BY IdleTyped DEF IInv, TypeOK, BeginPass, WorkerState
 <1>2. WorkerReads'
   BY DEF IInv, TypeOK, WorkerReads, PassReads, ReadBy, BeginPass, IdleWorker
 <1>3. WebReads'
   BY DEF IInv, WebReads, RequestReads, ReadBy, BeginPass
 <1>4. PassesOfToday'
   BY DEF IInv, TypeOK, PassesOfToday, BeginPass, IdleWorker
 <1>5. QED
   BY <1>1, <1>2, <1>3, <1>4, SameTables DEF IInv, BeginPass

(* What a locking read of a pass returns is a row it may deal, locked. *)
LEMMA LockingRead ==
  ASSUME IInv, NEW p \in Product, NEW dir, NEW from,
         NEW r \in FirstOf(Best(order, p, dir, from)),
         CanLock(p, Locked(r)), Lock(p, Locked(r)), UNCHANGED order
  PROVE  /\ Locked(r) \subseteq OrderId
         /\ r \in Row \cup {NoRow}
         /\ r # NoRow => ReadBy(p, r)' /\ Eligible(r, p, dir, from)
         /\ lock' \in [OrderId -> Product \cup Web \cup {Free, Abandoned}]
         /\ \A b \in Product \cup Web, i \in OrderId : lock[i] = b => lock'[i] = b
 <1>1. Locked(r) \subseteq OrderId
   BY DEF Locked, Rows
 <1>2. ASSUME r # NoRow
       PROVE  r \in Row /\ ReadBy(p, r)' /\ Eligible(r, p, dir, from)
  <2>1. PICK i \in OrderId : r = order[i] /\ Eligible(order[i], p, dir, from)
    BY <1>2, FirstOfBest
  <2>2. r.id = i /\ i \in Locked(r)
    BY <1>2, <2>1 DEF IInv, RowsKeyed, Rows, Locked
  <2>3. r \in Row
    BY <1>2, <2>1 DEF IInv, TypeOK
  <2>4. QED
    BY <2>1, <2>2, <2>3 DEF Lock, ReadBy
 <1>3. lock' \in [OrderId -> Product \cup Web \cup {Free, Abandoned}]
   BY <1>1 DEF Lock, IInv, TypeOK
 <1>4. \A b \in Product \cup Web, i \in OrderId : lock[i] = b => lock'[i] = b
   BY <1>1, LockKeepsOthers
 <1>5. QED
   BY <1>1, <1>2, <1>3, <1>4

LEMMA StepSelectSale ==
  ASSUME IInv, NEW p \in Product, SelectSale(p)
  PROVE  IInv'
 <1>1. PICK so \in FirstOf(Best(order, p, "S", worker[p].from)) :
         /\ CanLock(p, Locked(so))
         /\ Lock(p, Locked(so))
         /\ worker' = [worker EXCEPT ![p] = [@ EXCEPT !.pc = "selectBuy", !.so = so]]
   BY DEF SelectSale
 <1>2. UNCHANGED <<order, deals, now, midnight, hours, web, confirmed>>
   BY DEF SelectSale
 <1>3. /\ so \in Row \cup {NoRow}
       /\ so # NoRow => ReadBy(p, so)' /\ Eligible(so, p, "S", worker[p].from)
       /\ lock' \in [OrderId -> Product \cup Web \cup {Free, Abandoned}]
       /\ \A b \in Product \cup Web, i \in OrderId : lock[i] = b => lock'[i] = b
   BY <1>1, <1>2, LockingRead
 <1>4. /\ worker'[p].pc = "selectBuy" /\ worker'[p].so = so
       /\ worker'[p].bo = worker[p].bo /\ worker'[p].from = worker[p].from
       /\ \A q \in Product \ {p} : worker'[q] = worker[q]
       /\ worker' \in [Product -> WorkerState]
  <2>1. worker \in [Product -> WorkerState]
    BY DEF IInv, TypeOK, WorkerState
  <2>2. worker[p] \in WorkerState
    BY <2>1
  <2> DEFINE W == [worker[p] EXCEPT !.pc = "selectBuy", !.so = so]
  <2>3. /\ W \in WorkerState /\ W.pc = "selectBuy" /\ W.so = so
        /\ W.bo = worker[p].bo /\ W.from = worker[p].from
    BY <1>3, <2>2 DEF WorkerState
  <2>4. worker' = [worker EXCEPT ![p] = W]
    BY <1>1
  <2> HIDE DEF W
  <2>5. QED
    BY <2>1, <2>3, <2>4
 <1>5. TypeOK'
   BY <1>2, <1>3, <1>4 DEF IInv, TypeOK, WorkerState
 <1>6. ASSUME NEW q \in Product PROVE PassReads(q)'
  <2>1. PassReads(q)
    BY DEF IInv, WorkerReads
  <2>2. CASE q = p
    BY <1>3, <1>4, <2>1, <2>2 DEF PassReads, SelectSale
  <2>3. CASE q # p
    BY <1>2, <1>3, <1>4, <2>1, <2>3, PassKeepsReads
  <2>4. QED
    BY <2>2, <2>3
 <1>7. ASSUME NEW w \in Web PROVE RequestReads(w)'
   BY <1>2, <1>3, RequestKeepsReads DEF IInv, TypeOK, WebReads
 <1>8. PassesOfToday'
   BY <1>2, <1>4 DEF IInv, PassesOfToday, SelectSale
 <1>9. QED
   BY <1>2, <1>5, <1>6, <1>7, <1>8, SameTables DEF IInv, WorkerReads, WebReads

LEMMA StepSelectBuy ==
  ASSUME IInv, NEW p \in Product, SelectBuy(p)
  PROVE  IInv'
 <1>1. PICK bo \in FirstOf(Best(order, p, "B", worker[p].from)) :
         /\ CanLock(p, Locked(bo))
         /\ Lock(p, Locked(bo))
         /\ worker' = [worker EXCEPT ![p] = [@ EXCEPT !.pc = "selected", !.bo = bo]]
   BY DEF SelectBuy
 <1>2. UNCHANGED <<order, deals, now, midnight, hours, web, confirmed>>
   BY DEF SelectBuy
 <1>3. /\ bo \in Row \cup {NoRow}
       /\ bo # NoRow => ReadBy(p, bo)' /\ Eligible(bo, p, "B", worker[p].from)
       /\ lock' \in [OrderId -> Product \cup Web \cup {Free, Abandoned}]
       /\ \A b \in Product \cup Web, i \in OrderId : lock[i] = b => lock'[i] = b
   BY <1>1, <1>2, LockingRead
 <1>4. /\ worker'[p].pc = "selected" /\ worker'[p].bo = bo
       /\ worker'[p].so = worker[p].so /\ worker'[p].from = worker[p].from
       /\ \A q \in Product \ {p} : worker'[q] = worker[q]
       /\ worker' \in [Product -> WorkerState]
  <2>1. worker \in [Product -> WorkerState]
    BY DEF IInv, TypeOK, WorkerState
  <2>2. worker[p] \in WorkerState
    BY <2>1
  <2> DEFINE W == [worker[p] EXCEPT !.pc = "selected", !.bo = bo]
  <2>3. /\ W \in WorkerState /\ W.pc = "selected" /\ W.bo = bo
        /\ W.so = worker[p].so /\ W.from = worker[p].from
    BY <1>3, <2>2 DEF WorkerState
  <2>4. worker' = [worker EXCEPT ![p] = W]
    BY <1>1
  <2> HIDE DEF W
  <2>5. QED
    BY <2>1, <2>3, <2>4
 <1>5. TypeOK'
   BY <1>2, <1>3, <1>4 DEF IInv, TypeOK, WorkerState
 <1>6. ASSUME NEW q \in Product PROVE PassReads(q)'
  <2>1. PassReads(q)
    BY DEF IInv, WorkerReads
  <2>2. CASE q = p
   <3>1. ASSUME NEW so, so = worker[p].so, so # NoRow
         PROVE  ReadBy(p, so)' /\ Eligible(so, p, "S", worker[p].from)
    <4>1. so.id \in OrderId /\ lock[so.id] = p /\ order[so.id] = so
      BY <2>1, <2>2, <3>1 DEF PassReads, ReadBy
    <4>2. lock'[so.id] = p /\ order'[so.id] = so
      BY <1>2, <1>3, <4>1
    <4>3. Eligible(so, p, "S", worker[p].from)
      BY <2>1, <2>2, <3>1 DEF PassReads
    <4>4. QED
      BY <4>1, <4>2, <4>3 DEF ReadBy
   <3>2. QED
     BY <1>3, <1>4, <2>1, <2>2, <3>1 DEF PassReads
  <2>3. CASE q # p
    BY <1>2, <1>3, <1>4, <2>1, <2>3, PassKeepsReads
  <2>4. QED
    BY <2>2, <2>3
 <1>7. ASSUME NEW w \in Web PROVE RequestReads(w)'
   BY <1>2, <1>3, RequestKeepsReads DEF IInv, TypeOK, WebReads
 <1>8. PassesOfToday'
   BY <1>2, <1>4 DEF IInv, PassesOfToday, SelectBuy
 <1>9. QED
   BY <1>2, <1>5, <1>6, <1>7, <1>8, SameTables DEF IInv, WorkerReads, WebReads

(* The two rows a pass is about to deal, as they are in the table. *)
LEMMA PairRead ==
  ASSUME IInv, NEW p \in Product, worker[p].pc = "selected",
         Crosses(worker[p].so, worker[p].bo)
  PROVE  LET so == worker[p].so
             bo == worker[p].bo
         IN /\ so \in Row /\ bo \in Row /\ so.id # bo.id
            /\ ReadBy(p, so) /\ Eligible(so, p, "S", worker[p].from)
            /\ ReadBy(p, bo) /\ Eligible(bo, p, "B", worker[p].from)
            /\ so.price <= bo.price
 <1> DEFINE so == worker[p].so
            bo == worker[p].bo
 <1>1. so # NoRow /\ bo # NoRow /\ so.price <= bo.price
   BY DEF Crosses
 <1>2. so \in Row /\ bo \in Row
   BY <1>1 DEF IInv, TypeOK
 <1>3. PassReads(p)
   BY DEF IInv, WorkerReads
 <1>4. /\ ReadBy(p, so) /\ Eligible(so, p, "S", worker[p].from)
       /\ ReadBy(p, bo) /\ Eligible(bo, p, "B", worker[p].from)
   BY <1>1, <1>3 DEF PassReads
 <1>5. so.direction = "S" /\ bo.direction = "B"
   BY <1>4 DEF Eligible
 <1>6. order[so.id] = so /\ order[bo.id] = bo
   BY <1>4 DEF ReadBy
 <1>7. so.id # bo.id
   BY <1>5, <1>6
 <1>8. QED
   BY <1>1, <1>2, <1>4, <1>7

(* What the commit of a deal makes of the tables. *)
LEMMA SettleTables ==
  ASSUME IInv, NEW p \in Product, Settle(p)
  PROVE  LET so == worker[p].so
             bo == worker[p].bo
             v  == DealVolume(so, bo)
         IN /\ order'[so.id] = Fill(so, v, DealStatus(so, bo))
            /\ order'[bo.id] = Fill(bo, v, DealStatus(bo, so))
            /\ Evolves(so, order'[so.id]) /\ Evolves(bo, order'[bo.id])
            /\ \A i \in OrderId \ {so.id, bo.id} : order'[i] = order[i]
            /\ order' \in [OrderId -> Row \cup {NoRow}]
            /\ NewDeal(so, bo) \in Deal
            /\ order'[so.id].status = Finished \/ order'[bo.id].status = Finished
            /\ so.price <= DealPrice(so, bo) /\ DealPrice(so, bo) <= bo.price
 <1> DEFINE so == worker[p].so
            bo == worker[p].bo
            v  == DealVolume(so, bo)
            sf == Fill(so, v, DealStatus(so, bo))
            bf == Fill(bo, v, DealStatus(bo, so))
 <1>1. /\ so \in Row /\ bo \in Row /\ so.id # bo.id /\ so.price <= bo.price
       /\ ReadBy(p, so) /\ Eligible(so, p, "S", worker[p].from)
       /\ ReadBy(p, bo) /\ Eligible(bo, p, "B", worker[p].from)
   BY PairRead DEF Settle
 <1>2. /\ so.id \in OrderId /\ order[so.id] = so /\ bo.id \in OrderId /\ order[bo.id] = bo
       /\ so.status \in Live /\ bo.status \in Live /\ so.p_no = p
       /\ so.deal_volume < so.volume /\ bo.deal_volume < bo.volume
   BY <1>1 DEF ReadBy, Eligible
 <1>3. /\ v \in Nat \ {0} /\ v <= Left(so) /\ v <= Left(bo)
       /\ v = Left(so) \/ v = Left(bo)
       /\ DealStatus(so, bo) = Finished <=> v = Left(so)
       /\ DealStatus(bo, so) = Finished <=> v = Left(bo)
   BY <1>1, <1>2, DealVolumeBounds
 <1>4. /\ DealStatus(so, bo) \in {Finished, PartialFinished}
       /\ DealStatus(bo, so) \in {Finished, PartialFinished}
   BY DEF DealStatus
 <1>5. Evolves(so, sf) /\ sf.status = DealStatus(so, bo)
  <2>1. so.status \notin Terminal /\ so.status # Finished
    BY <1>2, StatusFacts DEF Terminal
  <2> HIDE DEF so, v
  <2>2. QED
    BY <1>1, <1>3, <1>4, <2>1, FillFacts DEF Evolves
 <1>6. Evolves(bo, bf) /\ bf.status = DealStatus(bo, so)
  <2>1. bo.status \notin Terminal /\ bo.status # Finished
    BY <1>2, StatusFacts DEF Terminal
  <2> HIDE DEF bo, v
  <2>2. QED
    BY <1>1, <1>3, <1>4, <2>1, FillFacts DEF Evolves
 <1>7. order' = [order EXCEPT ![so.id] = Fill(order[so.id], v, DealStatus(so, bo)),
                              ![bo.id] = Fill(order[bo.id], v, DealStatus(bo, so))]
   BY <1>1 DEF Settle
 <1>8. order \in [OrderId -> Row \cup {NoRow}]
   BY DEF IInv, TypeOK
 <1>9. /\ order'[so.id] = sf /\ order'[bo.id] = bf
       /\ \A i \in OrderId \ {so.id, bo.id} : order'[i] = order[i]
       /\ order' \in [OrderId -> Row \cup {NoRow}]
  <2>1. sf \in Row /\ bf \in Row
    BY <1>5, <1>6 DEF Evolves
  <2> HIDE DEF so, bo, v, sf, bf
  <2>2. QED
    BY <1>1, <1>2, <1>7, <1>8, <2>1 DEF sf, bf
 <1>10. DealPrice(so, bo) \in Price /\ so.price <= DealPrice(so, bo) /\ DealPrice(so, bo) <= bo.price
  <2>1. so.price \in Price /\ bo.price \in Price /\ so.price <= bo.price
    BY <1>1 DEF Row
  <2>2. so.price \in Nat /\ bo.price \in Nat
    BY <2>1
  <2>3. DealPrice(so, bo) = so.price \/ DealPrice(so, bo) = bo.price
    BY DEF DealPrice
  <2>4. QED
    BY <2>1, <2>2, <2>3
 <1>11. NewDeal(so, bo) \in Deal
   BY <1>2, <1>3, <1>10 DEF NewDeal, Deal
 <1>12. QED
   BY <1>3, <1>5, <1>6, <1>9, <1>10, <1>11

LEMMA StepSettle ==
  ASSUME IInv, NEW p \in Product, Settle(p)
  PROVE  IInv'
 <1> DEFINE so == worker[p].so
            bo == worker[p].bo
            d  == NewDeal(so, bo)
 <1>1. /\ so \in Row /\ bo \in Row /\ so.id # bo.id /\ so.price <= bo.price
       /\ so.id \in OrderId /\ lock[so.id] = p /\ order[so.id] = so
       /\ bo.id \in OrderId /\ lock[bo.id] = p /\ order[bo.id] = bo
       /\ so.direction = "S" /\ so.p_no = p /\ bo.direction = "B" /\ bo.p_no = p
   BY PairRead DEF Settle, ReadBy, Eligible
 <1>2. /\ Evolves(so, order'[so.id]) /\ Evolves(bo, order'[bo.id])
       /\ \A i \in OrderId \ {so.id, bo.id} : order'[i] = order[i]
       /\ order' \in [OrderId -> Row \cup {NoRow}]
       /\ d \in Deal
       /\ order'[so.id].status = Finished \/ order'[bo.id].status = Finished
       /\ so.price <= DealPrice(so, bo) /\ DealPrice(so, bo) <= bo.price
   BY SettleTables
 <1>3. /\ deals' = deals \cup {d} /\ Release(p)
       /\ worker' = [worker EXCEPT ![p] = IdleWorker]
       /\ UNCHANGED <<now, midnight, hours, web, confirmed>>
   BY DEF Settle
 <1>4. TypeOK'
  <2>1. worker' \in [Product -> WorkerState]
    BY <1>3, IdleTyped DEF IInv, TypeOK, WorkerState
  <2>2. lock' \in [OrderId -> Product \cup Web \cup {Free, Abandoned}]
    BY <1>3 DEF IInv, TypeOK, Release, Pass
  <2> HIDE DEF d
  <2>3. QED
    BY <1>2, <1>3, <2>1, <2>2 DEF IInv, TypeOK, WorkerState
 <1>5. \A i \in OrderId :
         order'[i] # order[i] => order[i] # NoRow /\ Evolves(order[i], order'[i])
   BY <1>1, <1>2
 <1>6. /\ RowsKeyed' /\ StatusSound'
       /\ \A e \in deals : WithinLimits(e)' /\ ExhaustsOne(e)'
       /\ \A i \in confirmed : i \in Rows' /\ order'[i].status \in Terminal
   BY <1>5, EvolvedTables
 <1>7. /\ so.id \in Rows' /\ bo.id \in Rows'
       /\ order'[so.id].direction = "S" /\ order'[bo.id].direction = "B"
       /\ order'[so.id].p_no = p /\ order'[bo.id].p_no = p
       /\ order'[so.id].price = so.price /\ order'[bo.id].price = bo.price
   BY <1>1, <1>2 DEF Evolves, Rows
 <1>8. /\ d.so_id = so.id /\ d.bo_id = bo.id /\ d.p_no = p
       /\ d.price = DealPrice(so, bo)
   BY <1>1 DEF NewDeal
 <1>9. ASSUME NEW e \in deals' PROVE WithinLimits(e)' /\ ExhaustsOne(e)'
  <2>1. CASE e \in deals
    BY <1>6, <2>1
  <2>2. CASE e = d
   <3> HIDE DEF d, so, bo
   <3>1. /\ e.so_id = so.id /\ e.bo_id = bo.id /\ e.p_no = p
         /\ e.price = DealPrice(so, bo)
     BY <1>8, <2>2
   <3>2. WithinLimits(e)'
     BY <1>2, <1>7, <3>1 DEF WithinLimits
   <3>3. ExhaustsOne(e)'
     BY <1>2, <1>7, <3>1 DEF ExhaustsOne
   <3>4. QED
     BY <3>2, <3>3
  <2>3. QED
    BY <1>3, <2>1, <2>2
 <1>10. DealsWithinLimits' /\ DealExhaustsOne' /\ CancelledOutOfBook'
   BY <1>3, <1>6, <1>9 DEF DealsWithinLimits, DealExhaustsOne, CancelledOutOfBook
 <1>11. ASSUME NEW q \in Product PROVE PassReads(q)'
  <2>1. CASE q = p
    BY <1>3, <2>1 DEF IInv, TypeOK, IdleWorker, PassReads
  <2>2. CASE q # p
   <3>1. \A i \in OrderId : lock[i] = q => lock'[i] = q /\ order'[i] = order[i]
    <4> HIDE DEF so, bo
    <4>1. QED
      BY <1>1, <1>2, <1>3, <2>2, PassKeepsOthers DEF Release
   <3>2. PassReads(q) /\ worker'[q] = worker[q]
     BY <1>3, <2>2 DEF IInv, WorkerReads, TypeOK
   <3>3. QED
     BY <3>1, <3>2, PassKeepsReads
  <2>3. QED
    BY <2>1, <2>2
 <1>12. ASSUME NEW w \in Web PROVE RequestReads(w)'
  <2>1. \A i \in OrderId : lock[i] = w => lock'[i] = w /\ order'[i] = order[i]
   <3> HIDE DEF so, bo
   <3>1. w # p
     OBVIOUS
   <3>2. QED
     BY <1>1, <1>2, <1>3, <3>1, PassKeepsOthers DEF Release
  <2>2. RequestReads(w) /\ web'[w] = web[w] /\ now' \in Nat /\ now <= now'
    BY <1>3 DEF IInv, WebReads, TypeOK
  <2>3. QED
    BY <2>1, <2>2, RequestKeepsReads DEF IInv
 <1>13. PassesOfToday'
   BY <1>3 DEF IInv, TypeOK, PassesOfToday, IdleWorker
 <1>14. QED
   BY <1>4, <1>6, <1>10, <1>11, <1>12, <1>13 DEF IInv, WorkerReads, WebReads

LEMMA StepMatcherRestart ==
  ASSUME IInv, MatcherRestart
  PROVE  IInv'
 <1>1. TypeOK'
   BY IdleTyped DEF IInv, TypeOK, MatcherRestart, WorkerState
 <1>2. ASSUME NEW q \in Product PROVE PassReads(q)'
   BY DEF MatcherRestart, PassReads, IdleWorker
 <1>3. ASSUME NEW w \in Web PROVE RequestReads(w)'
  <2>1. \A i \in OrderId : lock[i] = w => lock'[i] = w /\ order'[i] = order[i]
    BY DEF MatcherRestart
  <2>2. RequestReads(w) /\ web'[w] = web[w] /\ now' \in Nat /\ now <= now'
    BY DEF IInv, WebReads, TypeOK, MatcherRestart
  <2>3. QED
    BY <2>1, <2>2, RequestKeepsReads DEF IInv
 <1>4. PassesOfToday'
   BY DEF IInv, PassesOfToday, MatcherRestart, IdleWorker
 <1>5. QED
   BY <1>1, <1>2, <1>3, <1>4, SameTables DEF IInv, WorkerReads, WebReads, MatcherRestart

(* A step of one web process that writes no row of an order. *)
LEMMA WebStepReads ==
  ASSUME IInv, NEW w \in Web, NEW s \in WebState, web' = [web EXCEPT ![w] = s],
         \A b \in (Product \cup Web) \ {w}, i \in OrderId :
           lock[i] = b => lock'[i] = b /\ order'[i] = order[i],
         lock' \in [OrderId -> Product \cup Web \cup {Free, Abandoned}],
         UNCHANGED <<now, midnight, hours, worker>>,
         RequestReads(w)'
  PROVE  WorkerReads' /\ WebReads' /\ PassesOfToday' /\ web' \in [Web -> WebState]
 <1>1. ASSUME NEW q \in Product PROVE PassReads(q)'
   BY PassKeepsReads DEF IInv, WorkerReads
 <1>2. ASSUME NEW x \in Web PROVE RequestReads(x)'
  <2>1. CASE x = w
    BY <2>1
  <2>2. CASE x # w
   <3>1. RequestReads(x) /\ web'[x] = web[x] /\ now' \in Nat /\ now <= now'
     BY <2>2 DEF IInv, WebReads, TypeOK
   <3>2. QED
     BY <2>2, <3>1, RequestKeepsReads DEF IInv
  <2>3. QED
    BY <2>1, <2>2
 <1>3. PassesOfToday'
   BY DEF IInv, PassesOfToday
 <1>4. web' \in [Web -> WebState]
   BY DEF IInv, TypeOK, WebState
 <1>5. QED
   BY <1>1, <1>2, <1>3, <1>4 DEF WorkerReads, WebReads

(* A request that ends, whatever its reason, with nothing written. *)
LEMMA RequestEnds ==
  ASSUME IInv, NEW w \in Web, web' = [web EXCEPT ![w] = IdleWeb],
         NEW c \in {Free, Abandoned}, Pass(w, c) \/ lock' = lock,
         UNCHANGED <<order, deals, now, midnight, hours, worker, confirmed>>
  PROVE  IInv'
 <1>1. lock' \in [OrderId -> Product \cup Web \cup {Free, Abandoned}]
   BY DEF IInv, TypeOK, Pass
 <1>2. \A b \in (Product \cup Web) \ {w}, i \in OrderId :
         lock[i] = b => lock'[i] = b /\ order'[i] = order[i]
   BY DEF Pass
 <1>3. RequestReads(w)'
   BY DEF IInv, TypeOK, RequestReads, IdleWeb
 <1>4. WorkerReads' /\ WebReads' /\ PassesOfToday' /\ web' \in [Web -> WebState]
   BY <1>1, <1>2, <1>3, IdleTyped, WebStepReads
 <1>5. TypeOK'
   BY <1>1, <1>4 DEF IInv, TypeOK, WebState
 <1>6. QED
   BY <1>4, <1>5, SameTables DEF IInv

LEMMA StepSubmitOrder ==
  ASSUME IInv, NEW w \in Web, SubmitOrder(w)
  PROVE  IInv'
 <1>1. PICK a \in Request :
         web' = [web EXCEPT ![w] = [@ EXCEPT !.pc = "insert",
                                             !.draft = [ask |-> a, created_at |-> now]]]
   BY DEF SubmitOrder
 <1> DEFINE d == [ask |-> a, created_at |-> now]
            s == [web[w] EXCEPT !.pc = "insert", !.draft = d]
 <1>2. UNCHANGED <<order, deals, now, midnight, lock, hours, worker, confirmed>>
   BY DEF SubmitOrder
 <1>3. d \in Draft /\ d # NoRow /\ d.created_at = now
   BY DEF IInv, TypeOK, Draft
 <1>4. web[w] \in WebState
   BY DEF IInv, TypeOK, WebState
 <1>5. s \in WebState /\ s.pc = "insert" /\ s.draft = d
  <2> HIDE DEF d
  <2>1. QED
    BY <1>3, <1>4 DEF WebState
 <1>6. web' = [web EXCEPT ![w] = s] /\ web'[w] = s
   BY <1>1 DEF IInv, TypeOK
 <1>7. RequestReads(w)'
  <2> HIDE DEF d, s
  <2>1. QED
    BY <1>2, <1>3, <1>5, <1>6 DEF RequestReads, IInv, TypeOK
 <1>8. lock' \in [OrderId -> Product \cup Web \cup {Free, Abandoned}]
   BY <1>2 DEF IInv, TypeOK
 <1>9. WorkerReads' /\ WebReads' /\ PassesOfToday' /\ web' \in [Web -> WebState]
  <2> HIDE DEF s
  <2>1. QED
    BY <1>2, <1>5, <1>6, <1>7, <1>8, WebStepReads
 <1>10. TypeOK'
   BY <1>2, <1>9 DEF IInv, TypeOK, WebState
 <1>11. QED
   BY <1>2, <1>9, <1>10, SameTables DEF IInv

LEMMA StepCancelSelect ==
  ASSUME IInv, NEW w \in Web, CancelSelect(w)
  PROVE  IInv'
 <1>1. PICK i \in Rows :
         /\ CanLock(w, {i})
         /\ Lock(w, {i})
         /\ web' = [web EXCEPT ![w] = [@ EXCEPT !.pc = "cancel", !.row = order[i]]]
   BY DEF CancelSelect
 <1> DEFINE s == [web[w] EXCEPT !.pc = "cancel", !.row = order[i]]
 <1>2. UNCHANGED <<order, deals, now, midnight, hours, worker, confirmed>>
   BY DEF CancelSelect
 <1>3. i \in OrderId /\ order[i] \in Row /\ order[i] # NoRow /\ order[i].id = i
   BY DEF IInv, TypeOK, Rows, RowsKeyed
 <1>4. web[w] \in WebState
   BY DEF IInv, TypeOK, WebState
 <1>5. s \in WebState /\ s.pc = "cancel" /\ s.row = order[i]
   BY <1>3, <1>4 DEF WebState
 <1>6. web' = [web EXCEPT ![w] = s] /\ web'[w] = s
   BY <1>1 DEF IInv, TypeOK
 <1>7. RequestReads(w)'
  <2>1. lock'[i] = w
    BY <1>1, <1>3 DEF Lock
  <2> HIDE DEF s
  <2>2. QED
    BY <1>2, <1>3, <1>5, <1>6, <2>1 DEF RequestReads, ReadBy
 <1>8. /\ lock' \in [OrderId -> Product \cup Web \cup {Free, Abandoned}]
       /\ \A b \in (Product \cup Web) \ {w}, j \in OrderId :
            lock[j] = b => lock'[j] = b /\ order'[j] = order[j]
   BY <1>1, <1>2, <1>3 DEF IInv, TypeOK, CanLock, Lock
 <1>9. WorkerReads' /\ WebReads' /\ PassesOfToday' /\ web' \in [Web -> WebState]
  <2> HIDE DEF s
  <2>1. QED
    BY <1>2, <1>5, <1>6, <1>7, <1>8, WebStepReads
 <1>10. TypeOK'
   BY <1>2, <1>8, <1>9 DEF IInv, TypeOK, WebState
 <1>11. QED
   BY <1>2, <1>9, <1>10, SameTables DEF IInv

LEMMA StepInsertOrder ==
  ASSUME IInv, NEW w \in Web, InsertOrder(w)
  PROVE  IInv'
 <1>1. PICK i \in OrderId \ Rows :
         order' = [order EXCEPT ![i] = NewRow(i, web[w].draft.ask, web[w].draft.created_at)]
   BY DEF InsertOrder
 <1> DEFINE r == NewRow(i, web[w].draft.ask, web[w].draft.created_at)
 <1>2. /\ web[w].pc = "insert" /\ web' = [web EXCEPT ![w] = IdleWeb]
       /\ UNCHANGED <<deals, now, midnight, lock, hours, worker, confirmed>>
   BY DEF InsertOrder
 <1>3. web[w].draft \in Draft
   BY <1>2 DEF IInv, TypeOK, WebReads, RequestReads
 <1>4. r \in Row /\ Sound(r) /\ r.id = i
   BY <1>3, NewRowFacts DEF Draft
 <1>5. order[i] = NoRow /\ i \in OrderId
   BY <1>1 DEF Rows
 <1>6. /\ order'[i] = r /\ r # NoRow
       /\ \A j \in OrderId : j # i => order'[j] = order[j]
       /\ order' \in [OrderId -> Row \cup {NoRow}]
       /\ Rows' = Rows \cup {i}
  <2> HIDE DEF r
  <2>1. /\ order'[i] = r /\ r # NoRow
        /\ \A j \in OrderId : j # i => order'[j] = order[j]
        /\ order' \in [OrderId -> Row \cup {NoRow}]
    BY <1>1, <1>4, <1>5 DEF IInv, TypeOK, r
  <2>2. QED
    BY <1>5, <2>1 DEF Rows
 <1>7. \A j \in Rows : j \in Rows' /\ order'[j] = order[j]
   BY <1>5, <1>6 DEF Rows
 <1>8. RowsKeyed' /\ StatusSound'
   BY <1>4, <1>6, <1>7 DEF IInv, RowsKeyed, StatusSound
 <1>9. DealsWithinLimits' /\ DealExhaustsOne' /\ CancelledOutOfBook'
  <2>1. ASSUME NEW d \in deals PROVE WithinLimits(d)'
    BY <1>7 DEF IInv, DealsWithinLimits, WithinLimits
  <2>2. ASSUME NEW d \in deals PROVE ExhaustsOne(d)'
    BY <1>7 DEF IInv, DealExhaustsOne, ExhaustsOne
  <2>3. QED
    BY <1>2, <1>7, <2>1, <2>2 DEF IInv, DealsWithinLimits, DealExhaustsOne, CancelledOutOfBook
 <1>10. ASSUME NEW q \in Product PROVE PassReads(q)'
  <2>1. PassReads(q)
    BY DEF IInv, WorkerReads
  <2>2. worker[q].so # NoRow => worker[q].so.id # i
    BY <1>5, <2>1 DEF PassReads, ReadBy
  <2>3. worker[q].bo # NoRow => worker[q].bo.id # i
    BY <1>5, <2>1 DEF PassReads, ReadBy
  <2>4. QED
    BY <1>2, <1>6, <2>1, <2>2, <2>3 DEF PassReads, ReadBy
 <1>11. ASSUME NEW x \in Web PROVE RequestReads(x)'
  <2>1. RequestReads(x)
    BY DEF IInv, WebReads
  <2>2. CASE x = w
    BY <1>2, <2>2 DEF IInv, TypeOK, RequestReads, IdleWeb
  <2>3. CASE x # w
   <3>1. web'[x] = web[x]
     BY <1>2, <2>3 DEF IInv, TypeOK
   <3>2. web[x].pc = "cancel" => web[x].row.id # i
     BY <1>5, <2>1 DEF RequestReads, ReadBy
   <3>3. QED
     BY <1>2, <1>6, <2>1, <3>1, <3>2 DEF RequestReads, ReadBy
  <2>4. QED
    BY <2>2, <2>3
 <1>12. TypeOK'
   BY <1>2, <1>6, IdleTyped DEF IInv, TypeOK, WebState
 <1>13. PassesOfToday'
   BY <1>2 DEF IInv, PassesOfToday
 <1>14. QED
   BY <1>8, <1>9, <1>10, <1>11, <1>12, <1>13 DEF IInv, WorkerReads, WebReads

LEMMA CancelTables ==
  ASSUME IInv, NEW w \in Web, CancelCommit(w)
  PROVE  LET row == web[w].row
         IN /\ row \in Row /\ row.id \in OrderId /\ lock[row.id] = w /\ order[row.id] = row
            /\ order'[row.id] = [row EXCEPT !.status = CancelStatus(row.status)]
            /\ Evolves(row, order'[row.id]) /\ order'[row.id].status \in Terminal
            /\ row.status \notin Live => order' = order
            /\ \A i \in OrderId \ {row.id} : order'[i] = order[i]
            /\ order' \in [OrderId -> Row \cup {NoRow}]
 <1> DEFINE row == web[w].row
            c   == [row EXCEPT !.status = CancelStatus(row.status)]
 <1>1. row # NoRow /\ row.id \in OrderId /\ lock[row.id] = w /\ order[row.id] = row
   BY DEF CancelCommit, IInv, WebReads, RequestReads, ReadBy
 <1>2. row \in Row
   BY <1>1 DEF IInv, TypeOK
 <1>3. Sound(row)
   BY <1>1 DEF IInv, StatusSound, Rows
 <1>4. /\ c \in Row /\ Sound(c) /\ (row.status = Finished <=> c.status = Finished)
       /\ c.id = row.id /\ c.p_no = row.p_no /\ c.direction = row.direction
       /\ c.price = row.price /\ c.status \in Terminal
       /\ row.status \notin Live => c = row
   BY <1>2, <1>3, CancelFacts
 <1>5. Evolves(row, c)
   BY <1>4 DEF Evolves
 <1>6. order' = [order EXCEPT ![row.id] = [order[row.id] EXCEPT !.status = CancelStatus(row.status)]]
   BY DEF CancelCommit
 <1>7. order' = [order EXCEPT ![row.id] = c]
   BY <1>1, <1>6
 <1>8. order \in [OrderId -> Row \cup {NoRow}]
   BY DEF IInv, TypeOK
 <1>9. /\ order'[row.id] = c
       /\ \A i \in OrderId \ {row.id} : order'[i] = order[i]
       /\ order' \in [OrderId -> Row \cup {NoRow}]
  <2> HIDE DEF c, row
  <2>1. QED
    BY <1>1, <1>4, <1>7, <1>8
 <1>10. row.status \notin Live => order' = order
  <2> HIDE DEF c, row
  <2>1. QED
    BY <1>1, <1>4, <1>7, <1>8
 <1>11. QED
   BY <1>1, <1>2, <1>4, <1>5, <1>9, <1>10

LEMMA StepCancelCommit ==
  ASSUME IInv, NEW w \in Web, CancelCommit(w)
  PROVE  IInv'
 <1> DEFINE row == web[w].row
 <1>1. /\ row \in Row /\ row.id \in OrderId /\ lock[row.id] = w /\ order[row.id] = row
       /\ Evolves(row, order'[row.id]) /\ order'[row.id].status \in Terminal
       /\ \A i \in OrderId \ {row.id} : order'[i] = order[i]
       /\ order' \in [OrderId -> Row \cup {NoRow}]
   BY CancelTables
 <1>2. /\ confirmed' = confirmed \cup {row.id} /\ Release(w)
       /\ web' = [web EXCEPT ![w] = IdleWeb]
       /\ UNCHANGED <<deals, now, midnight, hours, worker>>
   BY DEF CancelCommit
 <1>3. \A i \in OrderId :
         order'[i] # order[i] => order[i] # NoRow /\ Evolves(order[i], order'[i])
   BY <1>1
 <1>4. /\ RowsKeyed' /\ StatusSound'
       /\ \A d \in deals : WithinLimits(d)' /\ ExhaustsOne(d)'
       /\ \A i \in confirmed : i \in Rows' /\ order'[i].status \in Terminal
   BY <1>3, EvolvedTables
 <1>5. row.id \in Rows'
   BY <1>1 DEF Rows, Evolves
 <1>6. DealsWithinLimits' /\ DealExhaustsOne' /\ CancelledOutOfBook'
  <2> HIDE DEF row
  <2>1. DealsWithinLimits' /\ DealExhaustsOne'
    BY <1>2, <1>4 DEF DealsWithinLimits, DealExhaustsOne
  <2>2. CancelledOutOfBook'
    BY <1>1, <1>2, <1>4, <1>5 DEF CancelledOutOfBook
  <2>3. QED
    BY <2>1, <2>2
 <1>7. lock' \in [OrderId -> Product \cup Web \cup {Free, Abandoned}]
   BY <1>2 DEF IInv, TypeOK, Release, Pass
 <1>8. \A b \in (Product \cup Web) \ {w}, i \in OrderId :
         lock[i] = b => lock'[i] = b /\ order'[i] = order[i]
  <2> HIDE DEF row
  <2>1. QED
    BY <1>1, <1>2 DEF Release, Pass
 <1>9. RequestReads(w)'
   BY <1>2 DEF IInv, TypeOK, RequestReads, IdleWeb
 <1>10. WorkerReads' /\ WebReads' /\ PassesOfToday' /\ web' \in [Web -> WebState]
   BY <1>2, <1>7, <1>8, <1>9, IdleTyped, WebStepReads
 <1>11. TypeOK'
  <2> HIDE DEF row
  <2>1. QED
    BY <1>1, <1>2, <1>7, <1>10 DEF IInv, TypeOK, WebState
 <1>12. QED
   BY <1>4, <1>6, <1>10, <1>11 DEF IInv

LEMMA StepTime ==
  ASSUME IInv,
         \/ Tick \/ NextDay \/ Collect
         \/ \E p \in Product : OpenHours(p) \/ CloseHours(p)
  PROVE  IInv'
 <1>1. /\ UNCHANGED <<order, deals, worker, web, confirmed>>
       /\ now' \in Nat /\ now <= now' /\ midnight' \in Nat /\ hours' \subseteq Product
   BY DEF IInv, TypeOK, Tick, NextDay, Collect, OpenHours, CloseHours
 <1>2. /\ lock' \in [OrderId -> Product \cup Web \cup {Free, Abandoned}]
       /\ \A b \in Product \cup Web, i \in OrderId : lock[i] = b => lock'[i] = b
   BY DEF IInv, TypeOK, Tick, NextDay, Collect, OpenHours, CloseHours, Release, Pass
 <1>3. TypeOK'
   BY <1>1, <1>2 DEF IInv, TypeOK
 <1>4. ASSUME NEW q \in Product PROVE PassReads(q)'
   BY <1>1, <1>2, PassKeepsReads DEF IInv, WorkerReads
 <1>5. ASSUME NEW w \in Web PROVE RequestReads(w)'
   BY <1>1, <1>2, RequestKeepsReads DEF IInv, WebReads
 <1>6. PassesOfToday'
  <2>1. CASE NextDay
    BY <1>1, <2>1 DEF NextDay, Quiet, PassesOfToday
  <2>2. CASE ~NextDay
    BY <1>1, <2>2 DEF IInv, PassesOfToday, Tick, Collect, OpenHours, CloseHours
  <2>3. QED
    BY <2>1, <2>2
 <1>7. QED
   BY <1>1, <1>3, <1>4, <1>5, <1>6, SameTables DEF IInv, WorkerReads, WebReads

(* Every step preserves the invariant. *)
LEMMA NextIInv == IInv /\ [Next]_vars => IInv'
 <1> SUFFICES ASSUME IInv, [Next]_vars PROVE IInv'
   OBVIOUS
 <1>1. ASSUME NEW p \in Product, WorkerStep(p) PROVE IInv'
  <2>1. CASE BeginPass(p)
    BY <2>1, StepBeginPass
  <2>2. CASE SelectSale(p)
    BY <2>2, StepSelectSale
  <2>3. CASE SelectBuy(p)
    BY <2>3, StepSelectBuy
  <2>4. CASE SelectFails(p) \/ NoMatch(p) \/ SettleFails(p)
    BY <2>4, PassEnds DEF SelectFails, NoMatch, SettleFails
  <2>5. CASE Settle(p)
    BY <2>5, StepSettle
  <2>6. QED
    BY <1>1, <2>1, <2>2, <2>3, <2>4, <2>5 DEF WorkerStep
 <1>2. ASSUME NEW w \in Web, WebStep(w) PROVE IInv'
  <2>1. CASE SubmitOrder(w)
    BY <2>1, StepSubmitOrder
  <2>2. CASE InsertOrder(w)
    BY <2>2, StepInsertOrder
  <2>3. CASE InsertFails(w) \/ CancelRefused(w) \/ CancelFails(w)
    BY <2>3, RequestEnds DEF InsertFails, CancelRefused, CancelFails, Release
  <2>4. CASE CancelSelect(w)
    BY <2>4, StepCancelSelect
  <2>5. CASE CancelCommit(w)
    BY <2>5, StepCancelCommit
  <2>6. QED
    BY <1>2, <2>1, <2>2, <2>3, <2>4, <2>5 DEF WebStep
 <1>3. ASSUME Environment PROVE IInv'
   BY <1>3, StepMatcherRestart, StepTime DEF Environment
 <1>4. CASE UNCHANGED vars
  <2>1. \A q \in Product : PassReads(q)'
    BY <1>4, PassKeepsReads DEF vars, IInv, WorkerReads
  <2>2. \A w \in Web : RequestReads(w)'
    BY <1>4 DEF vars, IInv, WebReads, RequestReads, ReadBy
  <2>3. TypeOK' /\ PassesOfToday'
    BY <1>4 DEF vars, IInv, TypeOK, PassesOfToday
  <2>4. QED
    BY <1>4, <2>1, <2>2, <2>3, SameTables DEF vars, IInv, WorkerReads, WebReads
 <1>5. QED
   BY <1>1, <1>2, <1>3, <1>4 DEF Next

-----------------------------------------------------------------------------
(* The theorems. *)

(* The strengthening of the safety properties holds in every behaviour. *)
THEOREM Invariance == Spec => []IInv
  BY InitIInv, NextIInv, PTL DEF Spec

(* Every variable keeps its type: rows stay rows of the table, and the     *)
(* threads and requests stay at the places the code has.                   *)
THEOREM TypeCorrect == Spec => []TypeOK
 <1>1. IInv => TypeOK
   BY DEF IInv
 <1>2. QED
   BY <1>1, Invariance, PTL

(* The status of an order always tells how much of it was dealt, and none  *)
(* is dealt beyond its volume.                                             *)
THEOREM StatusesSound == Spec => []StatusSound
 <1>1. IInv => StatusSound
   BY DEF IInv
 <1>2. QED
   BY <1>1, Invariance, PTL

(* Every deal respects the limits of both orders. *)
THEOREM LimitsRespected == Spec => []DealsWithinLimits
 <1>1. IInv => DealsWithinLimits
   BY DEF IInv
 <1>2. QED
   BY <1>1, Invariance, PTL

(* Every deal finished one of its orders. *)
THEOREM DealsExhaust == Spec => []DealExhaustsOne
 <1>1. IInv => DealExhaustsOne
   BY DEF IInv
 <1>2. QED
   BY <1>1, Invariance, PTL

(* A confirmed cancel leaves the order out of the book for good. *)
THEOREM CancelsHold == Spec => []CancelledOutOfBook
 <1>1. IInv => CancelledOutOfBook
   BY DEF IInv
 <1>2. QED
   BY <1>1, Invariance, PTL

-----------------------------------------------------------------------------
(* The two tables agree: what is dealt of an order is the sum of its deals. *)

(* The inductive form: the sums are over finitely many deals. *)
Balanced == IsFiniteSet(deals) /\ Conservation

(* What an order says was dealt of it is a sum of finitely many numbers. *)
LEMMA DealsSummed ==
  ASSUME TypeOK, IsFiniteSet(deals), NEW i
  PROVE  IsFiniteSet(DealsOf(i)) /\ \A d \in DealsOf(i) : d.volume \in Int
 <1>1. IsFiniteSet(DealsOf(i))
   BY FS_Subset DEF DealsOf
 <1>2. QED
   BY <1>1 DEF DealsOf, TypeOK, Deal

(* A new deal counts for its two orders and for no other. *)
LEMMA NewDealSummed ==
  ASSUME TypeOK, IsFiniteSet(deals), NEW d \in Deal, d \notin deals,
         deals' = deals \cup {d}, NEW i
  PROVE  /\ i \in {d.so_id, d.bo_id} => VolumeDealt(i)' = VolumeDealt(i) + d.volume
         /\ i \notin {d.so_id, d.bo_id} => VolumeDealt(i)' = VolumeDealt(i)
 <1> DEFINE f == [e \in DealsOf(i) |-> e.volume]
            g == [e \in DealsOf(i)' |-> e.volume]
 <1>1. IsFiniteSet(DOMAIN f) /\ \A e \in DOMAIN f : f[e] \in Int
   BY DealsSummed
 <1>2. d \notin DOMAIN f /\ DOMAIN g \ {d} = DOMAIN f \ {d}
   BY DEF DealsOf
 <1>3. \A e \in DOMAIN f \ {d} : g[e] = f[e]
   BY DEF DealsOf
 <1>4. /\ i \in {d.so_id, d.bo_id} => Share(g, d) = d.volume
       /\ i \notin {d.so_id, d.bo_id} => Share(g, d) = 0
   BY DEF DealsOf, Share
 <1>5. VolumeDealt(i) = SumFunction(f) /\ VolumeDealt(i)' = SumFunction(g)
   BY DEF VolumeDealt
 <1>6. d.volume \in Int
   BY DEF Deal
 <1> HIDE DEF f, g
 <1>7. Share(f, d) = 0 /\ Share(g, d) \in Int /\ SumFunction(f) \in Int
   BY <1>1, <1>2, <1>4, <1>6, SumIsInt DEF Share
 <1>8. SumFunction(g) = SumFunction(f) - Share(f, d) + Share(g, d)
   BY <1>1, <1>2, <1>3, <1>7, SumChange
 <1>9. QED
   BY <1>4, <1>5, <1>6, <1>7, <1>8

(* A deal is a row of its own: its two orders were still in the book, and  *)
(* every deal there is finished one of its own.                            *)
LEMMA DealIsNew ==
  ASSUME IInv, NEW p \in Product, Settle(p)
  PROVE  NewDeal(worker[p].so, worker[p].bo) \notin deals
 <1> DEFINE so == worker[p].so
            bo == worker[p].bo
            d  == NewDeal(so, bo)
 <1>1. /\ order[so.id] = so /\ so.status # Finished
       /\ order[bo.id] = bo /\ bo.status # Finished
   BY PairRead DEF Settle, ReadBy, Eligible, Live, Committed, PartialFinished, Finished
 <1>2. d.so_id = so.id /\ d.bo_id = bo.id
   BY DEF NewDeal
 <1>3. ASSUME d \in deals PROVE FALSE
  <2>1. ExhaustsOne(d)
    BY <1>3 DEF IInv, DealExhaustsOne
  <2> HIDE DEF d, so, bo
  <2>2. QED
    BY <1>1, <1>2, <2>1 DEF ExhaustsOne
 <1>4. QED
   BY <1>3

(* The volume a pass adds to its two orders is the volume of its deal. *)
LEMMA SettleBalances ==
  ASSUME IInv, Balanced, NEW p \in Product, Settle(p)
  PROVE  Balanced'
 <1> DEFINE so == worker[p].so
            bo == worker[p].bo
            v  == DealVolume(so, bo)
            d  == NewDeal(so, bo)
 <1>1. /\ so \in Row /\ bo \in Row /\ so.id # bo.id
       /\ so.id \in Rows /\ bo.id \in Rows /\ order[so.id] = so /\ order[bo.id] = bo
   BY PairRead DEF Settle, ReadBy, Eligible, Rows
 <1>2. /\ order'[so.id] = Fill(so, v, DealStatus(so, bo))
       /\ order'[bo.id] = Fill(bo, v, DealStatus(bo, so))
       /\ \A i \in OrderId \ {so.id, bo.id} : order'[i] = order[i]
       /\ d \in Deal
   BY SettleTables
 <1>3. d.so_id = so.id /\ d.bo_id = bo.id /\ d.volume = v
   BY DEF NewDeal
 <1>4. deals' = deals \cup {d} /\ d \notin deals
   BY DealIsNew DEF Settle
 <1>5. so.deal_volume \in Nat /\ bo.deal_volume \in Nat
   BY <1>1 DEF Row
 <1>6. /\ order'[so.id].deal_volume = so.deal_volume + v
       /\ order'[bo.id].deal_volume = bo.deal_volume + v
  <2> HIDE DEF so, bo, v
  <2>1. QED
    BY <1>1, <1>2 DEF Fill, Row
 <1> HIDE DEF so, bo, v, d
 <1>7. IsFiniteSet(deals')
   BY <1>4, FS_AddElement DEF Balanced
 <1>8. ASSUME NEW i \in Rows' PROVE order'[i].deal_volume = VolumeDealt(i)'
  <2>1. /\ i \in {so.id, bo.id} => VolumeDealt(i)' = VolumeDealt(i) + v
        /\ i \notin {so.id, bo.id} => VolumeDealt(i)' = VolumeDealt(i)
    BY <1>2, <1>3, <1>4, NewDealSummed DEF Balanced, IInv
  <2>2. i \in Rows
    BY <1>1, <1>2, <1>8 DEF Rows
  <2>3. order[i].deal_volume = VolumeDealt(i)
    BY <2>2 DEF Balanced, Conservation
  <2>4. CASE i \in {so.id, bo.id}
    BY <1>1, <1>6, <2>1, <2>3, <2>4
  <2>5. CASE i \notin {so.id, bo.id}
    BY <1>2, <2>1, <2>2, <2>3, <2>5 DEF Rows
  <2>6. QED
    BY <2>4, <2>5
 <1>9. QED
   BY <1>7, <1>8 DEF Balanced, Conservation

(* Nothing is dealt of a new order. *)
LEMMA InsertBalances ==
  ASSUME IInv, Balanced, NEW w \in Web, InsertOrder(w)
  PROVE  Balanced'
 <1>1. PICK i \in OrderId \ Rows :
         order' = [order EXCEPT ![i] = NewRow(i, web[w].draft.ask, web[w].draft.created_at)]
   BY DEF InsertOrder
 <1>2. /\ UNCHANGED deals
       /\ order'[i].deal_volume = 0
       /\ \A j \in OrderId \ {i} : order'[j] = order[j]
   BY <1>1 DEF InsertOrder, NewRow, IInv, TypeOK
 <1>3. \A j : VolumeDealt(j)' = VolumeDealt(j)
   BY <1>2 DEF VolumeDealt, DealsOf
 <1>4. VolumeDealt(i) = 0
  <2>1. DealsOf(i) = {}
    BY DEF DealsOf, IInv, DealsWithinLimits, WithinLimits
  <2>2. QED
    BY <2>1, SumOfNone DEF VolumeDealt
 <1>5. ASSUME NEW j \in Rows' PROVE order'[j].deal_volume = VolumeDealt(j)'
  <2>1. CASE j = i
    BY <1>2, <1>3, <1>4, <2>1
  <2>2. CASE j # i
    BY <1>2, <1>3, <1>5, <2>2 DEF Rows, Balanced, Conservation
  <2>3. QED
    BY <2>1, <2>2
 <1>6. QED
   BY <1>2, <1>5 DEF Balanced, Conservation

(* A step that changes at most statuses. *)
LEMMA StatusesBalance ==
  ASSUME Balanced, UNCHANGED deals,
         \A i \in OrderId : order'[i] # order[i] =>
           order[i] # NoRow /\ order'[i].deal_volume = order[i].deal_volume
  PROVE  Balanced'
BY DEF Balanced, Conservation, VolumeDealt, DealsOf, Rows

LEMMA CancelBalances ==
  ASSUME IInv, Balanced, NEW w \in Web, CancelCommit(w)
  PROVE  Balanced'
 <1> DEFINE row == web[w].row
 <1>1. row \in Row /\ row.id \in OrderId /\ order[row.id] = row
   BY CancelTables
 <1>2. /\ order' = [order EXCEPT ![row.id].status = CancelStatus(row.status)]
       /\ UNCHANGED deals
   BY DEF CancelCommit
 <1> HIDE DEF row
 <1>3. \A i \in OrderId : order'[i] # order[i] =>
         order[i] # NoRow /\ order'[i].deal_volume = order[i].deal_volume
   BY <1>1, <1>2 DEF IInv, TypeOK, Row
 <1>4. QED
   BY <1>2, <1>3, StatusesBalance

LEMMA NextBalances == IInv /\ Balanced /\ [Next]_vars => Balanced'
 <1> SUFFICES ASSUME IInv, Balanced, [Next]_vars PROVE Balanced'
   OBVIOUS
 <1>1. ASSUME UNCHANGED <<order, deals>> PROVE Balanced'
   BY <1>1, StatusesBalance
 <1>2. ASSUME NEW p \in Product, WorkerStep(p) PROVE Balanced'
   BY <1>1, <1>2, SettleBalances
   DEF WorkerStep, BeginPass, SelectSale, SelectBuy, SelectFails, NoMatch, SettleFails
 <1>3. ASSUME NEW w \in Web, WebStep(w) PROVE Balanced'
   BY <1>1, <1>3, InsertBalances, CancelBalances
   DEF WebStep, SubmitOrder, InsertFails, CancelSelect, CancelRefused, CancelFails
 <1>4. ASSUME Environment PROVE Balanced'
   BY <1>1, <1>4
   DEF Environment, MatcherRestart, Collect, Tick, NextDay, OpenHours, CloseHours
 <1>5. QED
   BY <1>1, <1>2, <1>3, <1>4 DEF Next, vars

(* wx_order and wx_order_deal agree after every commit: the deal_volume of *)
(* an order is the sum of the deals that name it, whatever passes, cancels *)
(* and failures come between (start_one_by_one adds the volume to both     *)
(* rows in the database and inserts the deal in the same transaction).     *)
THEOREM BooksBalance == Spec => []Conservation
 <1>1. Init => Balanced
  <2> SUFFICES ASSUME Init PROVE Balanced
    OBVIOUS
  <2>1. IsFiniteSet(deals) /\ Rows = {}
    BY FS_EmptySet DEF Init, Rows
  <2>2. QED
    BY <2>1 DEF Balanced, Conservation
 <1>2. Balanced => Conservation
   BY DEF Balanced
 <1>3. QED
   BY <1>1, <1>2, NextBalances, Invariance, PTL DEF Spec

-----------------------------------------------------------------------------
(* In production every step is a step of Exchange or leaves the tables and *)
(* the clock alone.                                                        *)

(* The operators of OrderBook are the same seen from Exchange. *)
LEMMA SameOperators ==
  /\ \A i, a, t : Abstract!NewRow(i, a, t) = NewRow(i, a, t)
  /\ \A r, p, dir, from : Abstract!Eligible(r, p, dir, from) <=> Eligible(r, p, dir, from)
  /\ \A so, bo : Abstract!DealVolume(so, bo) = DealVolume(so, bo)
  /\ \A so, bo : Abstract!DealStatus(so, bo) = DealStatus(so, bo)
  /\ \A r, v, s : Abstract!Fill(r, v, s) = Fill(r, v, s)
  /\ \A s : Abstract!CancelStatus(s) = CancelStatus(s)
  /\ Abstract!Live = Live
BY DEF Abstract!NewRow, NewRow, Abstract!Eligible, Eligible, Abstract!DealVolume, DealVolume,
   Abstract!Left, Left, Abstract!DealStatus, DealStatus, Abstract!Fill, Fill, Abstract!Live, Live,
   Abstract!CancelStatus, CancelStatus, Abstract!Committed, Committed, Abstract!Finished,
   Finished, Abstract!PartialFinished, PartialFinished, Abstract!Closed, Closed,
   Abstract!PartialClosed, PartialClosed

LEMMA SettleTrades ==
  ASSUME IInv, ~Development, NEW p \in Product, Settle(p)
  PROVE  \E s, b \in OrderId : Abstract!Trade(s, b)
 <1> DEFINE so == worker[p].so
            bo == worker[p].bo
            v  == DealVolume(so, bo)
            d  == NewDeal(so, bo)
 <1>1. worker[p].pc = "selected" /\ worker[p].from = midnight
   BY DEF Settle, IInv, PassesOfToday
 <1>2. /\ so \in Row /\ bo \in Row /\ so.id # bo.id
       /\ so.id \in OrderId /\ order[so.id] = so /\ Eligible(so, p, "S", midnight)
       /\ bo.id \in OrderId /\ order[bo.id] = bo /\ Eligible(bo, p, "B", midnight)
   BY <1>1, PairRead DEF Settle, ReadBy
 <1>4. d = [p_no |-> so.p_no, so_id |-> so.id, bo_id |-> bo.id, volume |-> v,
             price |-> DealPrice(so, bo)]
   BY DEF NewDeal
 <1>5. d \notin deals
   BY DealIsNew
 <1>6. /\ DealPrice(so, bo) \in Price
       /\ so.price <= DealPrice(so, bo) /\ DealPrice(so, bo) <= bo.price
  <2>1. d \in Deal
    BY SettleTables
  <2>2. DealPrice(so, bo) \in Price
    BY <1>2 DEF DealPrice, Row
  <2>3. QED
    BY <2>2, SettleTables
 <1>7. /\ order' = [order EXCEPT ![so.id] = Fill(order[so.id], v, DealStatus(so, bo)),
                                 ![bo.id] = Fill(order[bo.id], v, DealStatus(bo, so))]
       /\ deals' = deals \cup {d}
       /\ UNCHANGED <<now, midnight>>
   BY DEF Settle
 <1>8. Abstract!Trade(so.id, bo.id)
  <2> HIDE DEF so, bo
  <2>1. QED
    BY <1>2, <1>4, <1>5, <1>6, <1>7, SameOperators DEF Abstract!Trade
 <1>9. QED
   BY <1>2, <1>8

LEMMA InsertPlaces ==
  ASSUME IInv, NEW w \in Web, InsertOrder(w)
  PROVE  \E i \in OrderId : Abstract!Place(i)
 <1>1. PICK i \in OrderId \ Rows :
         order' = [order EXCEPT ![i] = NewRow(i, web[w].draft.ask, web[w].draft.created_at)]
   BY DEF InsertOrder
 <1>2. web[w].draft \in Draft /\ web[w].draft.created_at <= now
   BY DEF InsertOrder, IInv, TypeOK, WebReads, RequestReads
 <1>3. web[w].draft.ask \in Request /\ web[w].draft.created_at \in 0..now
   BY <1>2 DEF Draft, IInv, TypeOK
 <1>4. Abstract!Place(i)
   BY <1>1, <1>3, SameOperators DEF InsertOrder, Rows, Abstract!Place
 <1>5. QED
   BY <1>1, <1>4

LEMMA CommitCancels ==
  ASSUME IInv, NEW w \in Web, CancelCommit(w)
  PROVE  UNCHANGED Abstract!vars \/ \E i \in OrderId : Abstract!Cancel(i)
 <1> DEFINE row == web[w].row
 <1>1. /\ row \in Row /\ row.id \in OrderId /\ order[row.id] = row
       /\ row.status \notin Live => order' = order
   BY CancelTables
 <1>2. /\ order' = [order EXCEPT ![row.id] = [order[row.id] EXCEPT !.status = CancelStatus(row.status)]]
       /\ UNCHANGED <<deals, now, midnight>>
   BY DEF CancelCommit
 <1>3. CASE row.status \in Live
  <2>1. order[row.id] # NoRow
    BY <1>1
  <2> HIDE DEF row
  <2>2. Abstract!Cancel(row.id)
    BY <1>1, <1>2, <1>3, <2>1, SameOperators DEF Abstract!Cancel
  <2>3. QED
    BY <1>1, <2>2
 <1>4. CASE row.status \notin Live
   BY <1>1, <1>2, <1>4 DEF Abstract!vars
 <1>5. QED
   BY <1>3, <1>4

LEMMA StepSimulation ==
  ASSUME ~Development
  PROVE  IInv /\ [Next]_vars => [Abstract!Next]_Abstract!vars
 <1> SUFFICES ASSUME IInv, [Next]_vars PROVE Abstract!Next \/ UNCHANGED Abstract!vars
   OBVIOUS
 <1>1. ASSUME NEW p \in Product, WorkerStep(p)
       PROVE  Abstract!Next \/ UNCHANGED Abstract!vars
  <2>1. CASE Settle(p)
    BY <2>1, SettleTrades DEF Abstract!Next
  <2>2. CASE ~Settle(p)
    BY <1>1, <2>2 DEF WorkerStep, BeginPass, SelectSale, SelectBuy, SelectFails, NoMatch,
       SettleFails, Abstract!vars
  <2>3. QED
    BY <2>1, <2>2
 <1>2. ASSUME NEW w \in Web, WebStep(w)
       PROVE  Abstract!Next \/ UNCHANGED Abstract!vars
  <2>1. CASE InsertOrder(w)
    BY <2>1, InsertPlaces DEF Abstract!Next
  <2>2. CASE CancelCommit(w)
    BY <2>2, CommitCancels DEF Abstract!Next
  <2>3. CASE ~InsertOrder(w) /\ ~CancelCommit(w)
    BY <1>2, <2>3 DEF WebStep, SubmitOrder, InsertFails, CancelSelect, CancelRefused,
       CancelFails, Abstract!vars
  <2>4. QED
    BY <2>1, <2>2, <2>3
 <1>3. ASSUME Environment
       PROVE  Abstract!Next \/ UNCHANGED Abstract!vars
  <2>1. CASE Tick
    BY <2>1 DEF Tick, Abstract!Tick, Abstract!Next, IInv, TypeOK
  <2>2. CASE NextDay
    BY <2>2 DEF NextDay, Abstract!NextDay, Abstract!Next
  <2>3. CASE ~Tick /\ ~NextDay
    BY <1>3, <2>3 DEF Environment, MatcherRestart, Collect, OpenHours, CloseHours, Abstract!vars
  <2>4. QED
    BY <2>1, <2>2, <2>3
 <1>4. CASE UNCHANGED vars
   BY <1>4 DEF vars, Abstract!vars
 <1>5. QED
   BY <1>1, <1>2, <1>3, <1>4 DEF Next

(* The matching threads and the web processes, with their locks, failures  *)
(* and restarts, implement the single-step exchange: in particular every   *)
(* deal is between two orders of the day that are both in the book when it *)
(* is committed, and no order dealt out or cancelled ever changes again.   *)
THEOREM Refinement ==
  ASSUME ~Development
  PROVE  Spec => ImplementsExchange
 <1>1. Init => Abstract!Init
   BY DEF Init, Abstract!Init
 <1>2. IInv /\ [Next]_vars => [Abstract!Next]_Abstract!vars
   BY StepSimulation
 <1>3. QED
   BY <1>1, <1>2, Invariance, PTL DEF Spec, Abstract!Spec, ImplementsExchange

-----------------------------------------------------------------------------
(* Where a locking read locks the table, a deal takes the best orders.     *)

Holds(p) == worker[p].pc \in {"selectBuy", "selected"}

(* A pass that has read a side keeps every row locked, and what it read is *)
(* still the first of its side.                                            *)
BestRead(p) ==
  Holds(p) =>
    /\ \A i \in Rows : lock[i] = p
    /\ worker[p].so # NoRow => worker[p].so \in Best(order, p, "S", worker[p].from)
    /\ worker[p].bo # NoRow => worker[p].bo \in Best(order, p, "B", worker[p].from)

BestReads == \A p \in Product : BestRead(p)

LEMMA BestReadKept ==
  ASSUME NEW p \in Product, BestRead(p), worker'[p] = worker[p], Holds(p) => order' = order,
         Holds(p) => \A i \in Rows : lock[i] = p => lock'[i] = p
  PROVE  BestRead(p)'
BY DEF BestRead, Holds, Best, Rows

(* Nobody else writes a row, or locks one, while a pass holds the table.   *)
LEMMA TableHeld ==
  ASSUME IInv, ScanLocksTable, BestReads, NEW p \in Product, Holds(p)
  PROVE  /\ \A w \in Web : ~InsertOrder(w) /\ ~CancelCommit(w) /\ ~CancelSelect(w)
         /\ \A q \in Product \ {p} : ~Settle(q)
 <1>1. \A i \in Rows : lock[i] = p
   BY DEF BestReads, BestRead
 <1>2. ASSUME NEW w \in Web PROVE ~InsertOrder(w)
   BY DEF InsertOrder, GapLocked, Holds
 <1>3. ASSUME NEW w \in Web, CancelCommit(w) PROVE FALSE
  <2>1. web[w].row \in Row /\ ReadBy(w, web[w].row)
    BY <1>3 DEF CancelCommit, IInv, TypeOK, WebReads, RequestReads
  <2>2. web[w].row.id \in Rows /\ lock[web[w].row.id] = w
    BY <2>1 DEF ReadBy, Rows
  <2>3. QED
    BY <1>1, <2>2
 <1>4. ASSUME NEW w \in Web, CancelSelect(w) PROVE FALSE
   BY <1>1, <1>4 DEF CancelSelect, CanLock
 <1>5. ASSUME NEW q \in Product \ {p}, Settle(q) PROVE FALSE
  <2>1. worker[q].so \in Row /\ ReadBy(q, worker[q].so)
    BY <1>5, PairRead DEF Settle
  <2>2. worker[q].so.id \in Rows /\ lock[worker[q].so.id] = q
    BY <2>1 DEF ReadBy, Rows
  <2>3. QED
    BY <1>1, <2>2
 <1>6. QED
   BY <1>2, <1>3, <1>4, <1>5

(* A step in which p itself does nothing. *)
LEMMA OthersKeepBest ==
  ASSUME IInv, ScanLocksTable, BestReads, NEW p \in Product, worker'[p] = worker[p],
         \/ \E q \in Product \ {p} : WorkerStep(q)
         \/ \E w \in Web : WebStep(w)
         \/ Collect \/ Tick \/ NextDay
         \/ \E q \in Product : OpenHours(q) \/ CloseHours(q)
  PROVE  BestRead(p)'
 <1>1. BestRead(p)
   BY DEF BestReads
 <1>2. CASE ~Holds(p)
   BY <1>1, <1>2, BestReadKept
 <1>3. CASE Holds(p)
  <2>1. ASSUME NEW q \in Product \ {p}, WorkerStep(q) PROVE BestRead(p)'
   <3>1. ~Settle(q)
     BY <1>3, TableHeld
   <3>2. order' = order
     BY <2>1, <3>1 DEF WorkerStep, BeginPass, SelectSale, SelectBuy, SelectFails, NoMatch,
        SettleFails
   <3>3. \A i \in OrderId : lock[i] = p => lock'[i] = p
    <4>1. ASSUME NEW ids \in SUBSET OrderId, CanLock(q, ids), Lock(q, ids)
          PROVE  \A i \in OrderId : lock[i] = p => lock'[i] = p
      BY <4>1, LockKeepsOthers
    <4>2. \A row : Locked(row) \in SUBSET OrderId
      BY DEF Locked, Rows
    <4>3. CASE SelectSale(q)
      BY <4>1, <4>2, <4>3 DEF SelectSale
    <4>4. CASE SelectBuy(q)
      BY <4>1, <4>2, <4>4 DEF SelectBuy
    <4>5. CASE BeginPass(q)
      BY <4>5 DEF BeginPass
    <4>6. CASE SelectFails(q) \/ NoMatch(q) \/ SettleFails(q)
      BY <4>6, PassKeepsOthers DEF SelectFails, NoMatch, SettleFails, Release
    <4>7. QED
      BY <2>1, <3>1, <4>3, <4>4, <4>5, <4>6 DEF WorkerStep
   <3>4. QED
     BY <1>1, <3>2, <3>3, BestReadKept DEF Rows
  <2>2. ASSUME NEW w \in Web, WebStep(w) PROVE BestRead(p)'
   <3>1. ~InsertOrder(w) /\ ~CancelCommit(w) /\ ~CancelSelect(w)
     BY <1>3, TableHeld
   <3>2. order' = order
     BY <2>2, <3>1 DEF WebStep, SubmitOrder, InsertFails, CancelRefused, CancelFails
   <3>3. \A i \in OrderId : lock[i] = p => lock'[i] = p
     BY <2>2, <3>1 DEF WebStep, SubmitOrder, InsertFails, CancelRefused, CancelFails,
        Release, Pass
   <3>4. QED
     BY <1>1, <3>2, <3>3, BestReadKept DEF Rows
  <2>3. CASE \/ Collect \/ Tick \/ NextDay
             \/ \E q \in Product : OpenHours(q) \/ CloseHours(q)
   <3>1. order' = order /\ \A i \in OrderId : lock[i] = p => lock'[i] = p
     BY <2>3 DEF Collect, Tick, NextDay, OpenHours, CloseHours, Release, Pass
   <3>2. QED
     BY <1>1, <3>1, BestReadKept DEF Rows
  <2>4. QED
    BY <2>1, <2>2, <2>3
 <1>4. QED
   BY <1>2, <1>3

(* A step of the pass itself. *)
LEMMA PassReadsBest ==
  ASSUME IInv, ScanLocksTable, BestReads, NEW p \in Product, WorkerStep(p)
  PROVE  BestRead(p)'
 <1>1. BestRead(p) /\ PassReads(p)
   BY DEF BestReads, IInv, WorkerReads
 <1>2. worker \in [Product -> WorkerState] /\ worker[p] \in WorkerState
   BY DEF IInv, TypeOK, WorkerState
 <1>3. \A row : Locked(row) = Rows
   BY DEF Locked
 <1>4. CASE SelectSale(p)
  <2>1. PICK so \in FirstOf(Best(order, p, "S", worker[p].from)) :
          /\ Lock(p, Rows)
          /\ worker' = [worker EXCEPT ![p] = [@ EXCEPT !.pc = "selectBuy", !.so = so]]
    BY <1>3, <1>4 DEF SelectSale
  <2>2. worker'[p].so = so /\ worker'[p].bo = worker[p].bo /\ worker'[p].from = worker[p].from
    BY <1>2, <2>1 DEF WorkerState
  <2>3. worker[p].bo = NoRow /\ order' = order
    BY <1>1, <1>4 DEF SelectSale, PassReads
  <2>4. so # NoRow => so \in Best(order, p, "S", worker[p].from)
    BY <2>1 DEF FirstOf
  <2>5. \A i \in Rows : lock'[i] = p
    BY <2>1 DEF Lock, Rows
  <2>6. QED
    BY <2>2, <2>3, <2>4, <2>5 DEF BestRead, Best, Rows
 <1>5. CASE SelectBuy(p)
  <2>1. PICK bo \in FirstOf(Best(order, p, "B", worker[p].from)) :
          /\ Lock(p, Rows)
          /\ worker' = [worker EXCEPT ![p] = [@ EXCEPT !.pc = "selected", !.bo = bo]]
    BY <1>3, <1>5 DEF SelectBuy
  <2>2. worker'[p].so = worker[p].so /\ worker'[p].bo = bo /\ worker'[p].from = worker[p].from
    BY <1>2, <2>1 DEF WorkerState
  <2>3. Holds(p) /\ order' = order
    BY <1>5 DEF SelectBuy, Holds
  <2>4. bo # NoRow => bo \in Best(order, p, "B", worker[p].from)
    BY <2>1 DEF FirstOf
  <2>5. \A i \in Rows : lock'[i] = p
    BY <2>1 DEF Lock, Rows
  <2>6. QED
    BY <1>1, <2>2, <2>3, <2>4, <2>5 DEF BestRead, Best, Rows
 <1>6. CASE BeginPass(p) \/ SelectFails(p) \/ NoMatch(p) \/ Settle(p) \/ SettleFails(p)
  <2>1. CASE BeginPass(p)
   <3>1. worker'[p] = [IdleWorker EXCEPT !.pc = "selectSale", !.from = midnight]
     BY <1>2, <2>1 DEF BeginPass
   <3>2. worker'[p].pc = "selectSale"
     BY <3>1 DEF IdleWorker
   <3>3. QED
     BY <3>2 DEF BestRead, Holds
  <2>2. CASE SelectFails(p) \/ NoMatch(p) \/ Settle(p) \/ SettleFails(p)
   <3>1. worker'[p] = IdleWorker
     BY <1>2, <2>2 DEF SelectFails, NoMatch, Settle, SettleFails
   <3>2. worker'[p].pc = "loop"
     BY <3>1 DEF IdleWorker
   <3>3. QED
     BY <3>2 DEF BestRead, Holds
  <2>3. QED
    BY <1>6, <2>1, <2>2
 <1>7. QED
   BY <1>4, <1>5, <1>6 DEF WorkerStep

LEMMA NextBestReads ==
  ASSUME ScanLocksTable
  PROVE  IInv /\ BestReads /\ [Next]_vars => BestReads'
 <1> SUFFICES ASSUME IInv, BestReads, [Next]_vars, NEW p \in Product PROVE BestRead(p)'
   BY DEF BestReads
 <1>1. ASSUME NEW q \in Product, WorkerStep(q) PROVE BestRead(p)'
  <2>1. CASE q = p
    BY <1>1, <2>1, PassReadsBest
  <2>2. CASE q # p
   <3>1. worker'[p] = worker[p]
     BY <1>1, <2>2 DEF WorkerStep, BeginPass, SelectSale, SelectBuy, SelectFails, NoMatch,
        Settle, SettleFails, IInv, TypeOK
   <3>2. QED
     BY <1>1, <2>2, <3>1, OthersKeepBest
  <2>3. QED
    BY <2>1, <2>2
 <1>2. ASSUME NEW w \in Web, WebStep(w) PROVE BestRead(p)'
  <2>1. worker' = worker
    BY <1>2 DEF WebStep, SubmitOrder, InsertOrder, InsertFails, CancelSelect, CancelRefused,
       CancelCommit, CancelFails
  <2>2. QED
    BY <1>2, <2>1, OthersKeepBest
 <1>3. CASE MatcherRestart
   BY <1>3 DEF MatcherRestart, IdleWorker, BestRead, Holds
 <1>4. CASE \/ Collect \/ Tick \/ NextDay
            \/ \E q \in Product : OpenHours(q) \/ CloseHours(q)
  <2>1. worker' = worker
    BY <1>4 DEF Collect, Tick, NextDay, OpenHours, CloseHours
  <2>2. QED
    BY <1>4, <2>1, OthersKeepBest
 <1>5. CASE UNCHANGED vars
   BY <1>5, BestReadKept DEF vars, BestReads
 <1>6. QED
   BY <1>1, <1>2, <1>3, <1>4, <1>5 DEF Next, Environment

(* When a deal is committed its orders are the first of their sides, in    *)
(* price and then in time, among the orders of the day: none that was      *)
(* placed or cancelled while the pass was under way is overtaken.  That is *)
(* so where the reads of start_one_by_one lock the table they scan, and    *)
(* while no pass lasts past midnight.                                      *)
THEOREM PriorityKept ==
  ASSUME ScanLocksTable, ~Development
  PROVE  Spec => PriceTimePriority
 <1>1. Init => BestReads
   BY DEF Init, BestReads, BestRead, Holds, IdleWorker
 <1>2. IInv /\ BestReads /\ [Next]_vars => BestReads'
   BY NextBestReads
 <1>3. IInv /\ BestReads /\ [Next]_vars =>
         [\A d \in deals' \ deals :
            /\ order[d.so_id] \in Best(order, d.p_no, "S", midnight)
            /\ order[d.bo_id] \in Best(order, d.p_no, "B", midnight)]_vars
  <2> SUFFICES ASSUME IInv, BestReads, Next, NEW d \in deals' \ deals
      PROVE  /\ order[d.so_id] \in Best(order, d.p_no, "S", midnight)
             /\ order[d.bo_id] \in Best(order, d.p_no, "B", midnight)
    OBVIOUS
  <2>1. PICK p \in Product : Settle(p)
    BY DEF Next, WorkerStep, BeginPass, SelectSale, SelectBuy, SelectFails, NoMatch, SettleFails,
       WebStep, SubmitOrder, InsertOrder, InsertFails, CancelSelect, CancelRefused,
       CancelCommit, CancelFails, Environment, MatcherRestart, Collect, Tick, NextDay,
       OpenHours, CloseHours
  <2> DEFINE so == worker[p].so
             bo == worker[p].bo
  <2>2. d = NewDeal(so, bo) /\ worker[p].pc = "selected"
    BY <2>1 DEF Settle
  <2>3. worker[p].from = midnight
    BY <2>2 DEF IInv, PassesOfToday
  <2>4. /\ so \in Row /\ ReadBy(p, so) /\ Eligible(so, p, "S", midnight)
        /\ bo \in Row /\ ReadBy(p, bo)
    BY <2>1, <2>3, PairRead DEF Settle
  <2>5. so \in Best(order, p, "S", midnight) /\ bo \in Best(order, p, "B", midnight)
    BY <2>2, <2>3, <2>4 DEF BestReads, BestRead, Holds
  <2>6. d.so_id = so.id /\ d.bo_id = bo.id /\ d.p_no = p
    BY <2>2, <2>4 DEF NewDeal, Eligible
  <2>7. QED
    BY <2>4, <2>5, <2>6 DEF ReadBy
 <1>4. QED
   BY <1>1, <1>2, <1>3, Invariance, PTL DEF Spec, PriceTimePriority
=============================================================================
