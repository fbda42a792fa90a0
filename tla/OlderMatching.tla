----------------------------- MODULE OlderMatching -----------------------------
(***************************************************************************)
(* MatchingServer.start, the matching loop that was there before           *)
(* start_one_by_one (Trading): it locks the best rows of both sides and    *)
(* matches them in two nested loops within one transaction.  Orders keep   *)
(* coming, and may be cancelled, while a pass runs; a statement, a read or *)
(* the commit may fail.                                                    *)
(*                                                                         *)
(* An order is its number, which is also its turn; the worker serves one   *)
(* product on one day.                                                     *)
(***************************************************************************)
EXTENDS Integers, Sequences, FiniteSets, SequencesExt

CONSTANTS
  Sale, Buy,     \* the orders of each side, which are natural numbers
  Price,
  MaxVolume,     \* bound of the volume of an order
  Top,           \* rows of a side that are read, 5 in the code
  MaxFaults      \* bound of the failures of the database

VARIABLES
  orders,        \* the table, as committed
  messages,      \* length of the queue of the product
  pc,            \* "idle", "pass", "commit" or "dead", the thread has ended
  pass,          \* the local variables of a pass, of the last one when idle
  pending,       \* what the transaction has made of the orders
  faults,        \* failures so far
  stale          \* a pass has run on the rows of an earlier one

vars == <<orders, messages, pc, pass, pending, faults, stale>>

Order == Sale \cup Buy
None == [volume |-> 0, status |-> "same"]
Live == {"committed", "partial"}

NoRows == [s |-> <<>>, b |-> <<>>, i |-> 0, sold |-> 0, left |-> 0, finished |-> {},
           locked |-> {}]

Init ==
  /\ \E p \in [Order -> Price], v \in [Order -> 1..MaxVolume] :
       orders = [o \in Order |-> [price |-> p[o], volume |-> v[o], dealt |-> 0,
                                  status |-> "none"]]
  /\ messages = 0 /\ pc = "idle" /\ pass = NoRows
  /\ pending = [o \in Order |-> None] /\ faults = 0 /\ stale = FALSE

-----------------------------------------------------------------------------
(* The rows *)

Open(side) == {o \in side : /\ orders[o].status \in Live
                            /\ orders[o].dealt < orders[o].volume}

Row(o) == [id |-> o, price |-> orders[o].price, volume |-> orders[o].volume - orders[o].dealt]

Cheapest(a, b) == \/ orders[a].price < orders[b].price
                  \/ orders[a].price = orders[b].price /\ a < b
Dearest(a, b) == \/ orders[a].price > orders[b].price
                 \/ orders[a].price = orders[b].price /\ a < b

(* The orders of a set, as ORDER BY has them: in one way, as no two have   *)
(* the same turn.                                                          *)
Sorted(S, Before(_, _)) ==
  {all \in [1..Cardinality(S) -> S] :
     \A i, j \in 1..Cardinality(S) : i < j => Before(all[i], all[j])}

Best(all) == [k \in 1..(IF Len(all) < Top THEN Len(all) ELSE Top) |-> Row(all[k])]

(* Rows that other transactions cannot change now. *)
Ids(rows) == {rows[k].id : k \in 1..Len(rows)}
Locked == IF pc \notin {"pass", "commit"} THEN {}
          ELSE pass.locked \cup {o \in Order : pending[o] # None}

-----------------------------------------------------------------------------
(* Other programs *)

Enter(o) ==
  /\ orders[o].status = "none" /\ \A p \in Order : orders[p].status = "none" => o <= p
  /\ orders' = [orders EXCEPT ![o].status = "committed"]
  /\ messages' = messages + 1
  /\ UNCHANGED <<pc, pass, pending, faults, stale>>

Cancel(o) ==
  /\ orders[o].status \in Live /\ o \notin Locked
  /\ orders' = [orders EXCEPT ![o].status = "cancelled"]
  /\ UNCHANGED <<messages, pc, pass, pending, faults, stale>>

-----------------------------------------------------------------------------
(* The loop *)

Begin(s, b, locked) == [s |-> s, b |-> b, i |-> 1, left |-> 0, finished |-> {},
                        sold |-> 0, locked |-> locked]
Sales == {Best(all) : all \in Sorted(Open(Sale), Cheapest)}
Buys == {Best(all) : all \in Sorted(Open(Buy), Dearest)}

Read ==
  /\ pc = "idle" /\ messages > 0
  /\ messages' = messages - 1
  /\ \E s \in Sales, b \in Buys : pass' = Begin(s, b, Ids(s) \cup Ids(b))
  /\ pc' = "pass"
  /\ UNCHANGED <<orders, pending, faults, stale>>

(* The connection was lost: a new session, and a message to try again.     *)
ReadDisconnected ==
  /\ pc = "idle" /\ messages > 0 /\ faults < MaxFaults
  /\ faults' = faults + 1
  /\ UNCHANGED <<orders, messages, pc, pass, pending, stale>>

(* Another error of the database is passed over.  The pass goes on with    *)
(* the rows of the last one, the buys or both; if there was none, it ends  *)
(* the thread.                                                             *)
ReadFails ==
  /\ pc = "idle" /\ messages > 0 /\ faults < MaxFaults
  /\ faults' = faults + 1 /\ messages' = messages - 1
  /\ IF pass = NoRows
     THEN pc' = "dead" /\ UNCHANGED <<pass, stale>>
     ELSE /\ pc' = "pass" /\ stale' = TRUE
          /\ pass' \in {Begin(pass.s, pass.b, {})}
                       \cup {Begin(s, pass.b, Ids(s)) : s \in Sales}
  /\ UNCHANGED <<orders, pending>>

(* What the current sale still has, and the first buy that is not finished *)
(* (0 if there is none).                                                   *)
Sold == pass.s[pass.i].volume - pass.sold
First(S) == IF S = {} THEN 0 ELSE CHOOSE k \in S : \A l \in S : k <= l
BuyRow == First({k \in 1..Len(pass.b) : pass.b[k].id \notin pass.finished})

(* Fault for the mutants: what is left of a buy is forgotten. *)
WholeVolume == pass.b[BuyRow].volume

(* Of a buy that an earlier sale has matched in part, left_bvolume is left. *)
BuyVolume == IF pass.left > 0 THEN pass.left ELSE pass.b[BuyRow].volume

Crosses == BuyRow # 0 /\ pass.b[BuyRow].price >= pass.s[pass.i].price

Dealt(o, v, status) == [volume |-> pending[o].volume + v, status |-> status]

NextSale(p) == [p EXCEPT !.i = @ + 1, !.sold = 0]

(* The pair that the loops have come to is matched; then another buy is    *)
(* tried for the same sale, or it is the next sale's turn.                 *)
Match ==
  /\ pc = "pass" /\ pass.i <= Len(pass.s) /\ Crosses
  /\ LET s == pass.s[pass.i].id
         b == pass.b[BuyRow].id
         bv == BuyVolume
         v == IF Sold < bv THEN Sold ELSE bv
     IN /\ pending' = [pending EXCEPT
             ![s] = Dealt(s, v, IF Sold > bv THEN "partial" ELSE "finished"),
             ![b] = Dealt(b, v, IF bv > Sold THEN "partial" ELSE "finished")]
        /\ pass' = IF bv < Sold
                   THEN [pass EXCEPT !.finished = @ \cup {b}, !.sold = @ + v, !.left = 0]
                   ELSE IF bv = Sold
                   THEN NextSale([pass EXCEPT !.finished = @ \cup {b}, !.left = 0])
                   ELSE NextSale([pass EXCEPT !.left = bv - Sold])
  /\ UNCHANGED <<orders, messages, pc, faults, stale>>

(* An UPDATE fails.  All of the pass is rolled back; but where prices and  *)
(* volumes are equal the handler itself fails (e.arg), and the thread ends *)
(* with its transaction.                                                   *)
MatchFails ==
  /\ pc = "pass" /\ pass.i <= Len(pass.s) /\ Crosses /\ faults < MaxFaults
  /\ faults' = faults + 1
  /\ pending' = [o \in Order |-> None]
  /\ pc' = IF pass.b[BuyRow].price = pass.s[pass.i].price /\ BuyVolume = Sold
           THEN "dead" ELSE "commit"
  /\ UNCHANGED <<orders, messages, pass, stale>>

(* No buy is left for this sale: the next one comes to the same end.       *)
EndPass ==
  /\ pc = "pass" /\ ~(pass.i <= Len(pass.s) /\ Crosses)
  /\ pc' = "commit"
  /\ UNCHANGED <<orders, messages, pass, pending, faults, stale>>

Commit ==
  /\ pc = "commit"
  /\ orders' = [o \in Order |->
       IF pending[o] = None THEN orders[o]
       ELSE [orders[o] EXCEPT !.dealt = @ + pending[o].volume, !.status = pending[o].status]]
  /\ pending' = [o \in Order |-> None] /\ pc' = "idle"
  /\ UNCHANGED <<messages, pass, faults, stale>>

CommitFails ==
  /\ pc = "commit" /\ faults < MaxFaults
  /\ faults' = faults + 1
  /\ pending' = [o \in Order |-> None] /\ pc' = "idle"
  /\ UNCHANGED <<orders, messages, pass, stale>>

Next ==
  \/ \E o \in Order : Enter(o) \/ Cancel(o)
  \/ Read \/ ReadDisconnected \/ ReadFails
  \/ Match \/ MatchFails \/ EndPass \/ Commit \/ CommitFails

Spec == Init /\ [][Next]_vars

-----------------------------------------------------------------------------

TypeOK ==
  /\ \A o \in Order : /\ orders[o].price \in Price /\ orders[o].volume \in 1..MaxVolume
                      /\ orders[o].dealt \in 0..(MaxVolume * (MaxFaults + 1))
                      /\ orders[o].status \in Live \cup {"none", "finished", "cancelled"}
                      /\ pending[o].volume \in 0..MaxVolume
  /\ messages \in 0..Cardinality(Order) /\ pc \in {"idle", "pass", "commit", "dead"}
  /\ pass.left \in 0..MaxVolume /\ faults \in 0..MaxFaults /\ stale \in BOOLEAN

(* As long as no pass ran on rows that were not read for it, whatever else *)
(* failed, orders are filled up to their volume and are finished just then *)
(* (start, MatchingServer.py 213-430).                                     *)
FilledExactly ==
  ~stale => \A o \in Order :
    /\ orders[o].dealt <= orders[o].volume
    /\ orders[o].status # "cancelled" =>
         (orders[o].status = "finished" <=> orders[o].dealt = orders[o].volume)

(* Sum of the volumes of the first k rows. *)
UptoRow(rows, k) == SumFunctionOnSet([x \in DOMAIN rows |-> rows[x].volume], 1..k)

(* Volume traded by the pass, in units: the nth unit offered by the sales, *)
(* cheapest first, meets the nth unit of the buys, dearest first, up to    *)
(* the first pair whose prices do not cross.                               *)
UnitPrice(rows, n) == LET k == First({x \in 1..Len(rows) : UptoRow(rows, x) >= n})
                      IN rows[k].price
Total(rows) == UptoRow(rows, Len(rows))
Traded(s, b) ==
  {n \in 1..(Top * MaxVolume) :
     /\ n <= Total(s) /\ n <= Total(b)
     /\ \A l \in 1..n : UnitPrice(s, l) <= UnitPrice(b, l)}

(* When a pass has matched all it could, each order has dealt what the     *)
(* crossing of the two columns of rows gives it, in spite of the nested    *)
(* loops and the volume carried from one sale to the next.                 *)
PassExact ==
  pc = "commit" /\ (\E o \in Order : pending[o] # None) =>
    \A rows \in {pass.s, pass.b} : \A k \in 1..Len(rows) :
      pending[rows[k].id].volume =
        Cardinality({n \in Traded(pass.s, pass.b) : UptoRow(rows, k - 1) < n /\ n <= UptoRow(rows, k)})

OlderSound == FilledExactly /\ PassExact
=============================================================================
