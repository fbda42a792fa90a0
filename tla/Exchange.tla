------------------------------ MODULE Exchange -------------------------------
(***************************************************************************)
(* What the trading system promises its users, with every operation in one *)
(* step: an order is placed, two orders of the day that cross are dealt    *)
(* within both limits, an order still in the book is cancelled.  It says   *)
(* nothing of transactions, locks, threads or failures; Trading is shown   *)
(* to implement it.                                                        *)
(***************************************************************************)
EXTENDS OrderBook

VARIABLES
  order,     \* the rows of wx_order, NoRow for an id not handed out
  deals,     \* the rows of wx_order_deal
  now,       \* the wall clock
  midnight   \* the instant today began, the bound of the day's orders

vars == <<order, deals, now, midnight>>

Init ==
  /\ order = [i \in OrderId |-> NoRow]
  /\ deals = {}
  /\ now = 1
  /\ midnight = 0

(* An order appears, stamped no later than now. *)
Place(id) ==
  /\ order[id] = NoRow
  /\ \E a \in Request, t \in 0..now :
       order' = [order EXCEPT ![id] = NewRow(id, a, t)]
  /\ UNCHANGED <<deals, now, midnight>>

(* A sale and a buy of today that cross are dealt for all that the smaller *)
(* of them has left, at a price neither of them refused.                   *)
Trade(s, b) ==
  /\ \E p \in Product : /\ Eligible(order[s], p, "S", midnight)
                        /\ Eligible(order[b], p, "B", midnight)
  /\ LET so == order[s]
         bo == order[b]
         v  == DealVolume(so, bo)
     IN /\ order' = [order EXCEPT ![s] = Fill(@, v, DealStatus(so, bo)),
                                  ![b] = Fill(@, v, DealStatus(bo, so))]
        /\ \E pr \in Price :
             /\ so.price <= pr /\ pr <= bo.price
             /\ LET d == [p_no |-> so.p_no, so_id |-> s, bo_id |-> b,
                          volume |-> v, price |-> pr]
                IN /\ d \notin deals
                   /\ deals' = deals \cup {d}
  /\ UNCHANGED <<now, midnight>>

(* An order leaves the book and keeps what was dealt. *)
Cancel(id) ==
  /\ order[id] # NoRow
  /\ order[id].status \in Live
  /\ order' = [order EXCEPT ![id].status = CancelStatus(order[id].status)]
  /\ UNCHANGED <<deals, now, midnight>>

Tick ==
  /\ now' \in Nat
  /\ now' > now
  /\ UNCHANGED <<order, deals, midnight>>

NextDay ==
  /\ midnight' = now
  /\ now' = now + 1
  /\ UNCHANGED <<order, deals>>

Next ==
  \/ \E i \in OrderId : Place(i) \/ Cancel(i)
  \/ \E s, b \in OrderId : Trade(s, b)
  \/ Tick
  \/ NextDay

Spec == Init /\ [][Next]_vars
=============================================================================
