------------------------------ MODULE OrderBook ------------------------------
(***************************************************************************)
(* The rows of wx_order and wx_order_deal, and the pure decisions the      *)
(* matching server takes on them: which orders are eligible, which of them *)
(* comes first, at what price and for what volume two orders are dealt,    *)
(* and the statuses they are left in.                                      *)
(***************************************************************************)
EXTENDS Integers

CONSTANTS
  Product,   \* product numbers, the p_no column
  OrderId,   \* order ids the AUTO_INCREMENT column can hand out
  Price,     \* prices inside the day's price band, in cents
  Volume,    \* order volumes
  Request,   \* what users ask for: product, direction, volume and price
  NoRow      \* what one_or_none() returns when no row matches

(* Order.py, the values of the status column *)
Pending         == 0
Committed       == 1
Finished        == 2
Closed          == 3
PartialFinished == 4
PartialClosed   == 5

Status   == {Pending, Committed, Finished, Closed, PartialFinished, PartialClosed}
Live     == {Committed, PartialFinished}             \* still in the book
Terminal == {Finished, Closed, PartialClosed}        \* out of the book for good

Direction == {"B", "S"}

(* A new order before its INSERT, and the row the table keeps. *)
Draft == [ask: Request, created_at: Nat]

Row == [id: OrderId, p_no: Product, direction: Direction, volume: Volume,
        price: Price, deal_volume: Nat, status: Status, created_at: Nat]

Deal == [p_no: Product, so_id: OrderId, bo_id: OrderId, volume: Nat \ {0},
         price: Price]

ASSUME OrderBookAssumption ==
  /\ OrderId \subseteq Nat
  /\ Price \subseteq Nat
  /\ Volume \subseteq Nat \ {0}
  /\ Request \subseteq [p_no: Product, direction: Direction, volume: Volume,
                       price: Price]
  /\ NoRow \notin Row \cup Draft

(* The row insert_buy_order and insert_sale_order add for a request a,     *)
(* stamped at t.                                                           *)
NewRow(id, a, t) ==
  [id |-> id, p_no |-> a.p_no, direction |-> a.direction, volume |-> a.volume,
   price |-> a.price, deal_volume |-> 0, status |-> Committed, created_at |-> t]

(* The volume of an order that is not dealt yet. *)
Left(row) == row.volume - row.deal_volume

(* Faults for the mutants: no test of the status and a volume test off by  *)
(* one, and no test of the product.                                        *)
EligibleWhenDone(row, p, dir, from) ==
  /\ row # NoRow /\ row.p_no = p /\ row.direction = dir /\ row.created_at > from
  /\ row.deal_volume <= row.volume

EligibleAnyProduct(row, p, dir, from) ==
  /\ row # NoRow /\ row.status \in Live /\ row.direction = dir
  /\ row.created_at > from /\ row.deal_volume < row.volume

(* The filter of both locking reads of start_one_by_one. *)
Eligible(row, p, dir, from) ==
  /\ row # NoRow
  /\ row.status \in Live
  /\ row.p_no = p
  /\ row.direction = dir
  /\ row.created_at > from
  /\ row.deal_volume < row.volume

(* The ORDER BY of those reads: price first, the best for the other side,  *)
(* then the older order.  Rows equal in both come in any order.            *)
Before(a, b) ==
  \/ a.direction = "S" /\ a.price < b.price
  \/ a.direction = "B" /\ a.price > b.price
  \/ a.price = b.price /\ a.created_at < b.created_at

(* The rows LIMIT 1 may return. *)
Best(table, p, dir, from) ==
  {a \in {table[i] : i \in OrderId} :
     /\ Eligible(a, p, dir, from)
     /\ \A j \in OrderId :
          Eligible(table[j], p, dir, from) => ~Before(table[j], a)}

(* one_or_none(): one of those rows, or None. *)
FirstOf(rows) == IF rows = {} THEN {NoRow} ELSE rows

(* Two rows a pass may deal: both found, the sale asking no more than the  *)
(* buyer bids.                                                             *)
Crosses(so, bo) == so # NoRow /\ bo # NoRow /\ so.price <= bo.price

(* The price of the deal: the older order's, the sale's on a tie. *)
DealPrice(so, bo) == IF so.created_at <= bo.created_at THEN so.price ELSE bo.price

DealVolume(so, bo) == IF Left(so) <= Left(bo) THEN Left(so) ELSE Left(bo)

(* Fault: an order dealt exactly is left in the book. *)
DealStatusStrict(row, other) == IF Left(row) < Left(other) THEN Finished ELSE PartialFinished

(* The status an order is left in when dealt against other. *)
DealStatus(row, other) == IF Left(row) <= Left(other) THEN Finished ELSE PartialFinished

(* Fault: the volume is assigned, not added. *)
FillAssigned(row, v, s) == [row EXCEPT !.deal_volume = v, !.status = s]

(* The UPDATE of one side: the volume is added by the database, the status *)
(* was decided from the row read.                                          *)
Fill(row, v, s) == [row EXCEPT !.deal_volume = @ + v, !.status = s]

(* The row of wx_order_deal. *)
NewDeal(so, bo) ==
  [p_no |-> so.p_no, so_id |-> so.id, bo_id |-> bo.id,
   volume |-> DealVolume(so, bo), price |-> DealPrice(so, bo)]

(* Fault: a partly dealt order cannot be cancelled. *)
CancelStatusCommittedOnly(s) == IF s = Committed THEN Closed ELSE s

(* What do_cancel makes of a status; its test for Pending compares the     *)
(* class attribute Order.status and is never true.                         *)
CancelStatus(s) ==
  CASE s = Committed       -> Closed
    [] s = PartialFinished -> PartialClosed
    [] OTHER               -> s
=============================================================================
