---------------------------- MODULE Funds_proofs -----------------------------
(***************************************************************************)
(* Theorems about Funds, for any orders, withdrawals, deposits, grants and *)
(* prices: how far an order or a withdrawal that is admitted on sums read  *)
(* in several sessions may exceed the user's money or holdings.            *)
(*                                                                         *)
(* The sums are over the rows that exist; a step changes one row, and with *)
(* it each sum by the difference of the shares of that row (SumChange).    *)
(* So a step comes down to the arithmetic of a few numbers.                *)
(***************************************************************************)
EXTENDS Funds, Sums, TLAPS

USE OrderBookAssumption, FundsAssumption

-----------------------------------------------------------------------------
(* The inductive invariant. *)

(* All that came in, what negative withdrawals were taken for among it,    *)
(* and what is left of it when no order is open.                           *)
CameIn == Scale * deposit + income + Lent
Net    == CameIn - consumed - Withdrawn("finished")

WebType == [at: {"idle", "available", "inUsing", "inSale", "insert"},
            ask: Request \cup WithdrawAsk \cup {NoRow},
            kept: Nat, seen: Nat, moved: Nat]

USE DEF WebType

Buys(a)  == a \in Request /\ a.direction = "B"
Sells(a) == a \in Request /\ a.direction = "S"
Pays(a)  == a \in WithdrawAsk \/ Buys(a)

RowsFinite ==
  /\ IsFiniteSet({i \in OrderId : order[i] # NoRow})
  /\ IsFiniteSet({w \in WithdrawId : withdrawal[w] # NoRow})

(* No order is of a later day, or dealt beyond its volume. *)
RowsSound ==
  \A i \in OrderId : order[i] # NoRow =>
    order[i].created_at <= today /\ order[i].deal_volume <= order[i].volume

AsksSound ==
  /\ web.at = "available" => web.ask \in WithdrawAsk
  /\ web.at = "inUsing" => Pays(web.ask)
  /\ web.at = "inSale" => Sells(web.ask)
  /\ web.at = "insert" => Pays(web.ask) \/ Sells(web.ask)

(* A withdrawal counts with its sign. *)
SumsSplit == \A s \in WithdrawStatus : Withdrawn(s) = Asked(s) - Negative(s)

(* What was read is still there, up to what was settled since; and once    *)
(* the request is admitted, what it needs is, or it is no more than the    *)
(* negative withdrawals were taken for.  Those that pend come off the      *)
(* money in use when it is read.                                           *)
MoneyRead ==
  /\ web.at = "available" => Scale * blocked <= web.kept + web.moved
  /\ web.at = "inUsing" =>
       /\ web.seen + Negative("pending") <= CameIn
       /\ web.seen # 0 => web.seen + Negative("pending") <= Net + web.moved
       /\ web.seen # 0 /\ web.ask \in WithdrawAsk =>
            web.seen + Negative("pending") - web.kept <= Net - Scale * blocked + web.moved
  /\ web.at = "insert" /\ Pays(web.ask) /\ Need(web.ask) > 0 =>
       /\ Promised + Need(web.ask) <= CameIn
       /\ \/ Promised + Need(web.ask) <= Lent
          \/ /\ Need(web.ask) <= Net - Promised + web.moved
             /\ web.ask \in WithdrawAsk =>
                  Need(web.ask) <= Net - Promised - Scale * blocked + web.moved

HoldingRead ==
  /\ web.at = "inSale" => web.seen = 0 \/ web.seen <= held + web.moved
  /\ web.at = "insert" /\ Sells(web.ask) =>
       web.ask.volume + Frozen <= held - InSale + web.moved

FundsInv ==
  /\ TypeOK
  /\ RowsFinite
  /\ RowsSound
  /\ SumsSplit
  /\ AsksSound
  /\ MoneyRead
  /\ HoldingRead
  /\ OpenWithinMoney

-----------------------------------------------------------------------------
(* The numbers *)

LEMMA ProductNat ==
  ASSUME NEW a \in Nat, NEW b \in Nat
  PROVE  a * b \in Nat
OBVIOUS

(* What an order costs grows with its volume and its price. *)
LEMMA CostFacts ==
  /\ \A v, pr \in Nat : Cost(v, pr) \in Nat
  /\ \A v, w, pr \in Nat : v <= w => Cost(w - v, pr) = Cost(w, pr) - Cost(v, pr)
  /\ \A v, pr, qr \in Nat : pr <= qr => Cost(v, pr) <= Cost(v, qr)
  /\ \A v, pr \in Nat : Proceeds(v, pr) \in Nat
  /\ \A v, pr \in Nat : Cost(v, pr) = Scale * v * pr + v * pr * Bonus
 <1>1. Scale + Bonus \in Nat /\ Scale - Bonus \in Nat /\ Scale \in Nat /\ Bonus \in Nat
   OBVIOUS
 <1>2. \A v, pr \in Nat : Cost(v, pr) \in Nat /\ Proceeds(v, pr) \in Nat
   BY <1>1, ProductNat DEF Cost, Proceeds
 <1>3. ASSUME NEW v \in Nat, NEW w \in Nat, NEW pr \in Nat, v <= w
       PROVE  Cost(w - v, pr) = Cost(w, pr) - Cost(v, pr)
  <2>1. (w - v) * pr = w * pr - v * pr
    BY <1>3
  <2>2. w * pr \in Nat /\ v * pr \in Nat
    BY ProductNat
  <2>3. QED
    BY <1>1, <2>1, <2>2 DEF Cost
 <1>4. ASSUME NEW v \in Nat, NEW pr \in Nat, NEW qr \in Nat, pr <= qr
       PROVE  Cost(v, pr) <= Cost(v, qr)
  <2>1. qr - pr \in Nat /\ Cost(v, qr - pr) \in Nat
    BY <1>2, <1>4
  <2>2. v * (qr - pr) = v * qr - v * pr /\ v * qr \in Nat /\ v * pr \in Nat
    BY <1>4, ProductNat
  <2>3. Cost(v, qr - pr) = Cost(v, qr) - Cost(v, pr)
    BY <1>1, <2>2 DEF Cost
  <2>4. QED
    BY <1>2, <2>1, <2>3
 <1>5. ASSUME NEW v \in Nat, NEW pr \in Nat
       PROVE  Cost(v, pr) = Scale * v * pr + v * pr * Bonus
  <2>1. v * pr \in Nat /\ Scale * v * pr = v * pr * Scale
    BY <1>1, ProductNat
  <2>2. QED
    BY <1>1, <2>1 DEF Cost
 <1>6. QED
   BY <1>2, <1>3, <1>4, <1>5

(* Requests of the two kinds are told apart. *)
LEMMA AsksApart ==
  /\ \A a \in WithdrawAsk : a \notin Request
  /\ \A a \in Request : a.volume \in Nat \ {0} /\ a.price \in Nat /\ a.direction \in {"B", "S"}
  /\ \A a \in WithdrawAsk : a.amount \in Int
 <1>1. \A a \in WithdrawAsk : DOMAIN a = {"amount"} /\ a.amount \in Int
   BY DEF WithdrawAsk
 <1>2. \A a \in Request : a \in [p_no: Product, direction: Direction, volume: Volume, price: Price]
   OBVIOUS
 <1>3. \A a \in Request : DOMAIN a = {"p_no", "direction", "volume", "price"}
   BY <1>2
 <1>4. \A a \in Request : a.volume \in Nat \ {0} /\ a.price \in Nat /\ a.direction \in {"B", "S"}
   BY <1>2 DEF Direction
 <1>5. {"amount"} # {"p_no", "direction", "volume", "price"}
   OBVIOUS
 <1>6. QED
   BY <1>1, <1>3, <1>4, <1>5

-----------------------------------------------------------------------------
(* The sums *)

(* What a row adds to each of them. *)
IsOpen(row, dir) ==
  /\ row # NoRow /\ row.direction = dir
  /\ row.status \in Live /\ row.created_at = today

BuyingOf(row) == IF IsOpen(row, "B") THEN Cost(Left(row), row.price) ELSE 0
SaleOf(row)   == IF IsOpen(row, "S") THEN Left(row) ELSE 0

AmountOf(row, status) == IF row # NoRow /\ row.status = status THEN row.amount ELSE 0

LEMMA RowLeft ==
  ASSUME NEW row \in Row, row.deal_volume <= row.volume
  PROVE  /\ Left(row) \in Nat /\ row.price \in Nat /\ row.volume \in Nat
         /\ row.deal_volume \in Nat /\ Cost(Left(row), row.price) \in Nat
 <1>1. /\ row.price \in Nat /\ row.volume \in Nat /\ row.deal_volume \in Nat
   BY DEF Row
 <1>2. Left(row) \in Nat
   BY <1>1 DEF Left
 <1>3. QED
   BY <1>1, <1>2, CostFacts

LEMMA OpenSummed ==
  ASSUME TypeOK, RowsFinite, RowsSound, NEW dir
  PROVE  /\ IsFiniteSet(Open(dir))
         /\ \A i \in Open(dir) : Left(order[i]) \in Nat /\ Cost(Left(order[i]), order[i].price) \in Nat
 <1>1. Open(dir) \subseteq {i \in OrderId : order[i] # NoRow}
   BY DEF Open, Orders
 <1>2. IsFiniteSet(Open(dir))
   BY <1>1, FS_Subset DEF RowsFinite
 <1>3. \A i \in Open(dir) : order[i] \in Row /\ order[i].deal_volume <= order[i].volume
   BY <1>1 DEF TypeOK, RowsSound
 <1>4. QED
   BY <1>2, <1>3, RowLeft

Rows == [WithdrawId -> WithdrawRow \cup {NoRow}]

RowsOf(wd, status) == {w \in WithdrawId : wd[w] # NoRow /\ wd[w].status = status}

(* The sum of f over the amounts of the rows of a status. *)
Total(wd, f, status) == SumFunction([w \in RowsOf(wd, status) |-> f[wd[w].amount]])

Signed == [x \in Int |-> x]
Above  == [x \in Int |-> Positive(x)]
Below  == [x \in Int |-> Positive(-x)]

(* What a row of amount x adds to a sum. *)
Weights == {f \in [Int -> Int] : f[0] = 0}

LEMMA WeightFacts ==
  /\ Signed \in Weights /\ Above \in Weights /\ Below \in Weights
  /\ \A x \in Int : /\ Signed[x] = x /\ Above[x] = Positive(x) /\ Below[x] = Positive(-x)
                   /\ Above[x] \in Nat /\ Below[x] \in Nat /\ x = Above[x] - Below[x]
BY DEF Signed, Above, Below, Weights, Positive

LEMMA TotalFacts ==
  ASSUME NEW wd \in Rows, IsFiniteSet({w \in WithdrawId : wd[w] # NoRow}),
         NEW f \in Weights, NEW status
  PROVE  /\ Total(wd, f, status) \in Int
         /\ (\A x \in Int : f[x] \in Nat) => Total(wd, f, status) \in Nat
 <1> DEFINE g == [w \in RowsOf(wd, status) |-> f[wd[w].amount]]
 <1>1. IsFiniteSet(DOMAIN g)
   BY FS_Subset DEF RowsOf
 <1>2. \A w \in DOMAIN g : wd[w].amount \in Int /\ f[wd[w].amount] \in Int
   BY DEF Rows, RowsOf, WithdrawRow, Weights
 <1>3. Total(wd, f, status) = SumFunction(g)
   BY DEF Total
 <1>4. (\A x \in Int : f[x] \in Nat) => \A w \in DOMAIN g : g[w] \in Nat
   BY <1>2
 <1>5. \A w \in DOMAIN g : g[w] \in Int
   BY <1>2
 <1> HIDE DEF g
 <1>6. QED
   BY <1>1, <1>3, <1>4, <1>5, SumIsInt, SumIsNat

(* The three sums of Funds. *)
LEMMA TotalsAre ==
  ASSUME NEW wd \in Rows, NEW status
  PROVE  /\ SumFunction([w \in RowsOf(wd, status) |-> wd[w].amount]) = Total(wd, Signed, status)
         /\ SumFunction([w \in RowsOf(wd, status) |-> Positive(wd[w].amount)])
              = Total(wd, Above, status)
         /\ SumFunction([w \in RowsOf(wd, status) |-> Positive(-wd[w].amount)])
              = Total(wd, Below, status)
 <1>1. \A w \in RowsOf(wd, status) : wd[w].amount \in Int
   BY DEF Rows, RowsOf, WithdrawRow
 <1>2. /\ [w \in RowsOf(wd, status) |-> wd[w].amount]
            = [w \in RowsOf(wd, status) |-> Signed[wd[w].amount]]
       /\ [w \in RowsOf(wd, status) |-> Positive(wd[w].amount)]
            = [w \in RowsOf(wd, status) |-> Above[wd[w].amount]]
       /\ [w \in RowsOf(wd, status) |-> Positive(-wd[w].amount)]
            = [w \in RowsOf(wd, status) |-> Below[wd[w].amount]]
   BY <1>1, WeightFacts
 <1>3. QED
   BY <1>2 DEF Total

LEMMA WithdrawnIs ==
  ASSUME withdrawal \in Rows, NEW status
  PROVE  /\ Withdrawn(status) = Scale * Total(withdrawal, Signed, status)
         /\ Asked(status) = Scale * Total(withdrawal, Above, status)
         /\ Negative(status) = Scale * Total(withdrawal, Below, status)
 <1>1. Withdrawals(status) = RowsOf(withdrawal, status)
   BY DEF Withdrawals, RowsOf
 <1>2. QED
   BY <1>1, TotalsAre DEF Withdrawn, Asked, Negative

LEMMA WithdrawnBecomes ==
  ASSUME withdrawal' \in Rows, NEW status
  PROVE  /\ Withdrawn(status)' = Scale * Total(withdrawal', Signed, status)
         /\ Asked(status)' = Scale * Total(withdrawal', Above, status)
         /\ Negative(status)' = Scale * Total(withdrawal', Below, status)
 <1>1. Withdrawals(status)' = RowsOf(withdrawal', status)
   BY DEF Withdrawals, RowsOf
 <1>2. QED
   BY <1>1, TotalsAre DEF Withdrawn, Asked, Negative, Positive

LEMMA ScaledInt ==
  ASSUME NEW x \in Int, NEW y \in Int, NEW z \in Int
  PROVE  /\ Scale * x \in Int /\ (x \in Nat => Scale * x \in Nat)
         /\ Scale * (x - y) = Scale * x - Scale * y
         /\ Scale * (x - y + z) = Scale * x - Scale * y + Scale * z
OBVIOUS

LEMMA WithdrawnTyped ==
  ASSUME TypeOK, RowsFinite, NEW status
  PROVE  Withdrawn(status) \in Int /\ Asked(status) \in Nat /\ Negative(status) \in Nat
 <1>1. withdrawal \in Rows
   BY DEF TypeOK, Rows
 <1>2. /\ Total(withdrawal, Signed, status) \in Int
       /\ Total(withdrawal, Above, status) \in Nat
       /\ Total(withdrawal, Below, status) \in Nat
   BY <1>1, TotalFacts, WeightFacts DEF RowsFinite
 <1>3. QED
   BY <1>1, <1>2, WithdrawnIs, ScaledInt

LEMMA SumsTyped ==
  ASSUME TypeOK, RowsFinite, RowsSound, SumsSplit
  PROVE  /\ InBuying \in Nat /\ InSale \in Nat /\ Promised \in Nat
         /\ InUsing = Promised - Negative("pending")
         /\ \A status : Withdrawn(status) \in Int /\ Asked(status) \in Nat /\ Negative(status) \in Nat
         /\ Lent \in Nat /\ Negative("pending") <= Lent
         /\ CameIn \in Nat /\ Lent <= CameIn /\ Net \in Int
         /\ Available \in Nat /\ Available + Negative("pending") <= CameIn
         /\ (Available # 0 => Available = Net - Lent)
 <1> DEFINE f == [i \in Open("B") |-> Cost(Left(order[i]), order[i].price)]
            g == [i \in Open("S") |-> Left(order[i])]
 <1>1. InBuying \in Nat
  <2>1. IsFiniteSet(DOMAIN f) /\ \A i \in DOMAIN f : f[i] \in Nat
    BY OpenSummed
  <2>2. InBuying = SumFunction(f)
    BY DEF InBuying
  <2> HIDE DEF f
  <2>3. QED
    BY <2>1, <2>2, SumIsNat
 <1>2. InSale \in Nat
  <2>1. IsFiniteSet(DOMAIN g) /\ \A i \in DOMAIN g : g[i] \in Nat
    BY OpenSummed
  <2>2. InSale = SumFunction(g)
    BY DEF InSale
  <2> HIDE DEF g
  <2>3. QED
    BY <2>1, <2>2, SumIsNat
 <1>3. \A status : Withdrawn(status) \in Int /\ Asked(status) \in Nat /\ Negative(status) \in Nat
   BY WithdrawnTyped
 <1>4. /\ Negative("pending") \in Nat /\ Negative("refused") \in Nat /\ Negative("finished") \in Nat
       /\ Asked("pending") \in Nat /\ Asked("finished") \in Nat /\ Withdrawn("finished") \in Int
       /\ Withdrawn("pending") = Asked("pending") - Negative("pending")
       /\ Withdrawn("finished") = Asked("finished") - Negative("finished")
       /\ consumed \in Nat /\ income \in Nat /\ Scale * deposit \in Nat
   BY <1>3, ProductNat DEF SumsSplit, WithdrawStatus, TypeOK
 <1>5. Lent \in Nat /\ Negative("pending") + Negative("finished") <= Lent
   BY <1>4 DEF Lent
 <1>6. CameIn \in Nat /\ Lent <= CameIn
   BY <1>4, <1>5 DEF CameIn
 <1>7. Net \in Int /\ Net <= CameIn + Negative("finished")
   BY <1>4, <1>6 DEF Net
 <1>8. Available = Positive(Net - Lent)
  <2>1. Scale * deposit + income - consumed - Withdrawn("finished") = Net - Lent
    BY <1>4, <1>5 DEF Net, CameIn
  <2>2. QED
    BY <2>1 DEF Available
 <1>9. /\ Available \in Nat /\ (Available # 0 => Available = Net - Lent)
       /\ Available + Negative("pending") <= CameIn
   BY <1>4, <1>5, <1>6, <1>7, <1>8 DEF Positive
 <1>10. Promised \in Nat /\ InUsing = Promised - Negative("pending")
   BY <1>1, <1>4 DEF InUsing, Promised
 <1>11. QED
   BY <1>1, <1>2, <1>3, <1>4, <1>5, <1>6, <1>7, <1>9, <1>10

(* A row of wx_order is added or changed. *)
LEMMA OrderChanged ==
  ASSUME TypeOK, RowsFinite, RowsSound, NEW i \in OrderId, NEW r \in Row,
         order' = [order EXCEPT ![i] = r], UNCHANGED today,
         r.created_at <= today, r.deal_volume <= r.volume
  PROVE  /\ InBuying' = InBuying - BuyingOf(order[i]) + BuyingOf(r)
         /\ InSale' = InSale - SaleOf(order[i]) + SaleOf(r)
         /\ IsFiniteSet({j \in OrderId : order'[j] # NoRow}) /\ RowsSound'
         /\ order' \in [OrderId -> Row \cup {NoRow}]
         /\ \A j \in OrderId \ {i} : order'[j] = order[j]
         /\ order'[i] = r
 <1>1. /\ order' \in [OrderId -> Row \cup {NoRow}]
       /\ order'[i] = r /\ r # NoRow
       /\ \A j \in OrderId \ {i} : order'[j] = order[j]
   BY DEF TypeOK
 <1>2. IsFiniteSet({j \in OrderId : order'[j] # NoRow})
  <2>1. {j \in OrderId : order'[j] # NoRow} \subseteq {j \in OrderId : order[j] # NoRow} \cup {i}
    BY <1>1
  <2>2. IsFiniteSet({j \in OrderId : order[j] # NoRow} \cup {i})
    BY FS_AddElement DEF RowsFinite
  <2>3. QED
    BY <2>1, <2>2, FS_Subset
 <1>3. RowsSound'
   BY <1>1 DEF RowsSound
 <1>4. \A dir : Open(dir)' \ {i} = Open(dir) \ {i}
   BY <1>1 DEF Open, Orders
 <1>5. \A dir : i \in Open(dir)' <=> IsOpen(r, dir)
   BY <1>1 DEF Open, Orders, IsOpen
 <1>6. \A dir : i \in Open(dir) <=> IsOpen(order[i], dir)
   BY DEF Open, Orders, IsOpen
 <1>7. Left(r) \in Nat /\ Cost(Left(r), r.price) \in Nat
   BY RowLeft
 <1>8. InBuying' = InBuying - BuyingOf(order[i]) + BuyingOf(r)
  <2> DEFINE f == [j \in Open("B") |-> Cost(Left(order[j]), order[j].price)]
             g == [j \in Open("B")' |-> Cost(Left(order'[j]), order'[j].price)]
  <2>1. IsFiniteSet(DOMAIN f) /\ \A j \in DOMAIN f : f[j] \in Int
    BY OpenSummed
  <2>2. DOMAIN g \ {i} = DOMAIN f \ {i}
    BY <1>4
  <2>3. \A j \in DOMAIN f \ {i} : g[j] = f[j]
   <3>1. ASSUME NEW j \in Open("B") \ {i} PROVE j \in Open("B")' /\ order'[j] = order[j]
     BY <1>1, <1>4 DEF Open, Orders
   <3>2. QED
     BY <3>1
  <2>4. Share(f, i) = BuyingOf(order[i])
    BY <1>6 DEF Share, BuyingOf
  <2>5. Share(g, i) = BuyingOf(r) /\ Share(g, i) \in Int
    BY <1>1, <1>5, <1>7 DEF Share, BuyingOf
  <2>6. InBuying = SumFunction(f) /\ InBuying' = SumFunction(g)
    BY DEF InBuying, Cost
  <2> HIDE DEF f, g
  <2>7. SumFunction(g) = SumFunction(f) - Share(f, i) + Share(g, i)
    BY <2>1, <2>2, <2>3, <2>5, SumChange
  <2>8. QED
    BY <2>4, <2>5, <2>6, <2>7
 <1>9. InSale' = InSale - SaleOf(order[i]) + SaleOf(r)
  <2> DEFINE f == [j \in Open("S") |-> Left(order[j])]
             g == [j \in Open("S")' |-> Left(order'[j])]
  <2>1. IsFiniteSet(DOMAIN f) /\ \A j \in DOMAIN f : f[j] \in Int
    BY OpenSummed
  <2>2. DOMAIN g \ {i} = DOMAIN f \ {i}
    BY <1>4
  <2>3. \A j \in DOMAIN f \ {i} : g[j] = f[j]
   <3>1. ASSUME NEW j \in Open("S") \ {i} PROVE j \in Open("S")' /\ order'[j] = order[j]
     BY <1>1, <1>4 DEF Open, Orders
   <3>2. QED
     BY <3>1
  <2>4. Share(f, i) = SaleOf(order[i])
    BY <1>6 DEF Share, SaleOf
  <2>5. Share(g, i) = SaleOf(r) /\ Share(g, i) \in Int
    BY <1>1, <1>5, <1>7 DEF Share, SaleOf
  <2>6. InSale = SumFunction(f) /\ InSale' = SumFunction(g)
    BY DEF InSale, Left
  <2> HIDE DEF f, g
  <2>7. SumFunction(g) = SumFunction(f) - Share(f, i) + Share(g, i)
    BY <2>1, <2>2, <2>3, <2>5, SumChange
  <2>8. QED
    BY <2>4, <2>5, <2>6, <2>7
 <1>10. QED
   BY <1>1, <1>2, <1>3, <1>8, <1>9

(* A row of wx_user_withdraw is added or changed. *)
LEMMA WithdrawalChanged ==
  ASSUME TypeOK, RowsFinite, SumsSplit, NEW w \in WithdrawId, NEW r \in WithdrawRow,
         withdrawal' = [withdrawal EXCEPT ![w] = r]
  PROVE  /\ \A status : /\ Withdrawn(status)'
                             = Withdrawn(status) - Scale * AmountOf(withdrawal[w], status)
                                                 + Scale * AmountOf(r, status)
                        /\ Asked(status)'
                             = Asked(status) - Scale * Positive(AmountOf(withdrawal[w], status))
                                             + Scale * Positive(AmountOf(r, status))
                        /\ Negative(status)'
                             = Negative(status) - Scale * Positive(-AmountOf(withdrawal[w], status))
                                                + Scale * Positive(-AmountOf(r, status))
         /\ SumsSplit'
         /\ IsFiniteSet({u \in WithdrawId : withdrawal'[u] # NoRow})
         /\ withdrawal' \in [WithdrawId -> WithdrawRow \cup {NoRow}]
         /\ withdrawal'[w] = r /\ r # NoRow
         /\ \A u \in WithdrawId \ {w} : withdrawal'[u] = withdrawal[u]
 <1>1. /\ withdrawal \in Rows /\ withdrawal' \in Rows
       /\ withdrawal'[w] = r /\ r # NoRow
       /\ \A u \in WithdrawId \ {w} : withdrawal'[u] = withdrawal[u]
   BY DEF TypeOK, Rows
 <1>2. IsFiniteSet({u \in WithdrawId : withdrawal'[u] # NoRow})
  <2>1. {u \in WithdrawId : withdrawal'[u] # NoRow} \subseteq {u \in WithdrawId : withdrawal[u] # NoRow} \cup {w}
    BY <1>1
  <2>2. IsFiniteSet({u \in WithdrawId : withdrawal[u] # NoRow} \cup {w})
    BY FS_AddElement DEF RowsFinite
  <2>3. QED
    BY <2>1, <2>2, FS_Subset
 <1>3. ASSUME NEW status
       PROVE  /\ Withdrawn(status)' = Withdrawn(status) - Scale * AmountOf(withdrawal[w], status)
                                                        + Scale * AmountOf(r, status)
              /\ Asked(status)' = Asked(status) - Scale * Positive(AmountOf(withdrawal[w], status))
                                                + Scale * Positive(AmountOf(r, status))
              /\ Negative(status)' = Negative(status)
                                       - Scale * Positive(-AmountOf(withdrawal[w], status))
                                       + Scale * Positive(-AmountOf(r, status))
              /\ status \in WithdrawStatus => Withdrawn(status)' = Asked(status)' - Negative(status)'
  <2> DEFINE x == AmountOf(withdrawal[w], status)
             y == AmountOf(r, status)
  <2>1. x \in Int /\ y \in Int
   <3>1. \A q \in WithdrawRow : q.amount \in Int
     BY DEF WithdrawRow
   <3>2. withdrawal[w] # NoRow => withdrawal[w] \in WithdrawRow
     BY <1>1 DEF Rows
   <3>3. QED
     BY <3>1, <3>2 DEF AmountOf
  <2> HIDE DEF x, y
  <2>2. ASSUME NEW f \in Weights
        PROVE  /\ Total(withdrawal', f, status) = Total(withdrawal, f, status) - f[x] + f[y]
               /\ Total(withdrawal, f, status) \in Int /\ f[x] \in Int /\ f[y] \in Int
   <3> DEFINE g == [u \in RowsOf(withdrawal, status) |-> f[withdrawal[u].amount]]
              h == [u \in RowsOf(withdrawal', status) |-> f[withdrawal'[u].amount]]
   <3>a. IsFiniteSet(DOMAIN g) /\ \A u \in DOMAIN g : g[u] \in Int
    <4>1. IsFiniteSet(DOMAIN g)
      BY FS_Subset DEF RowsFinite, RowsOf
    <4>2. \A u \in DOMAIN g : g[u] \in Int
      BY <1>1 DEF Rows, RowsOf, WithdrawRow, Weights
    <4>3. QED
      BY <4>1, <4>2
   <3>b. DOMAIN h \ {w} = DOMAIN g \ {w} /\ \A u \in DOMAIN g \ {w} : h[u] = g[u]
     BY <1>1 DEF RowsOf
   <3>c. f[0] = 0 /\ r.amount \in Int /\ f[r.amount] \in Int
     BY DEF Weights, WithdrawRow
   <3>d. Share(g, w) = f[x]
     BY <3>c DEF Share, AmountOf, RowsOf, x
   <3>e. Share(h, w) = f[y] /\ Share(h, w) \in Int
    <4>1. w \in RowsOf(withdrawal', status) <=> r.status = status
      BY <1>1 DEF RowsOf
    <4>2. QED
      BY <1>1, <3>c, <4>1 DEF Share, AmountOf, y
   <3>f. /\ Total(withdrawal, f, status) = SumFunction(g)
         /\ Total(withdrawal', f, status) = SumFunction(h)
     BY DEF Total
   <3> HIDE DEF g, h
   <3>1. Total(withdrawal', f, status) = Total(withdrawal, f, status) - f[x] + f[y]
    <4>1. SumFunction(h) = SumFunction(g) - Share(g, w) + Share(h, w)
      BY <3>a, <3>b, <3>e, SumChange
    <4>2. QED
      BY <3>d, <3>e, <3>f, <4>1
   <3>2. Total(withdrawal, f, status) \in Int
     BY <1>1, TotalFacts DEF RowsFinite
   <3>3. QED
     BY <2>1, <3>1, <3>2 DEF Weights
  <2>3. ASSUME NEW f \in Weights
        PROVE  Scale * Total(withdrawal', f, status)
                 = Scale * Total(withdrawal, f, status) - Scale * f[x] + Scale * f[y]
   <3>1. Scale * (Total(withdrawal, f, status) - f[x] + f[y])
           = Scale * Total(withdrawal, f, status) - Scale * f[x] + Scale * f[y]
     BY <2>2, ScaledInt
   <3>2. QED
     BY <2>2, <3>1, Zenon
  <2>4. /\ Withdrawn(status)' = Withdrawn(status) - Scale * x + Scale * y
        /\ Asked(status)' = Asked(status) - Scale * Positive(x) + Scale * Positive(y)
        /\ Negative(status)' = Negative(status) - Scale * Positive(-x) + Scale * Positive(-y)
    BY <1>1, <2>1, <2>3, WithdrawnIs, WithdrawnBecomes, WeightFacts
  <2>5. ASSUME NEW z \in Int
        PROVE  /\ Scale * z = Scale * Positive(z) - Scale * Positive(-z)
               /\ Scale * z \in Int /\ Scale * Positive(z) \in Int /\ Scale * Positive(-z) \in Int
   <3>1. Positive(z) \in Int /\ Positive(-z) \in Int /\ z = Positive(z) - Positive(-z)
     BY DEF Positive
   <3>2. QED
     BY <3>1, ScaledInt
  <2>6. Withdrawn(status) \in Int /\ Asked(status) \in Nat /\ Negative(status) \in Nat
    BY WithdrawnTyped
  <2>7. /\ Scale * x = Scale * Positive(x) - Scale * Positive(-x)
        /\ Scale * y = Scale * Positive(y) - Scale * Positive(-y)
        /\ Scale * Positive(x) \in Int /\ Scale * Positive(-x) \in Int
        /\ Scale * Positive(y) \in Int /\ Scale * Positive(-y) \in Int
    BY <2>1, <2>5
  <2>8. status \in WithdrawStatus => Withdrawn(status)' = Asked(status)' - Negative(status)'
    BY <2>4, <2>6, <2>7 DEF SumsSplit
  <2>9. QED
    BY <2>4, <2>8 DEF x, y
 <1>4. SumsSplit'
   BY <1>3 DEF SumsSplit
 <1>5. QED
   BY <1>1, <1>2, <1>3, <1>4 DEF Rows

-----------------------------------------------------------------------------
(* What goes on while a request is under way *)

(* What a request needs, and what its order costs with the bonus. *)
LEMMA NeedFacts ==
  /\ \A a \in WithdrawAsk : /\ Need(a) = Scale * a.amount /\ Need(a) \in Int
                            /\ Need(a) > 0 <=> a.amount > 0
  /\ \A a \in Request : /\ Need(a) \in Nat /\ BonusOf(a) \in Nat
                        /\ Cost(a.volume, a.price) = Need(a) + BonusOf(a)
                        /\ Need(a) = 0 => a.price = 0 /\ BonusOf(a) = 0
 <1>1. ASSUME NEW a \in WithdrawAsk
       PROVE  Need(a) = Scale * a.amount /\ Need(a) \in Int /\ (Need(a) > 0 <=> a.amount > 0)
  <2>1. a.amount \in Int
    BY AsksApart
  <2>2. QED
    BY <2>1 DEF Need
 <1>2. ASSUME NEW a \in Request
       PROVE  /\ Need(a) \in Nat /\ BonusOf(a) \in Nat
              /\ Cost(a.volume, a.price) = Need(a) + BonusOf(a)
              /\ Need(a) = 0 => a.price = 0 /\ BonusOf(a) = 0
  <2>1. a \notin WithdrawAsk /\ a.volume \in Nat \ {0} /\ a.price \in Nat
    BY AsksApart
  <2>2. Need(a) = Scale * a.volume * a.price
    BY <2>1 DEF Need
  <2>3. a.volume * a.price \in Nat /\ Scale * a.volume \in Nat \ {0}
    BY <2>1, ProductNat
  <2>4. Need(a) \in Nat /\ BonusOf(a) \in Nat
    BY <2>1, <2>2, <2>3, ProductNat DEF BonusOf
  <2>5. Cost(a.volume, a.price) = Need(a) + BonusOf(a)
    BY <2>1, <2>2, CostFacts DEF BonusOf
  <2>6. ASSUME a.price # 0 PROVE Need(a) # 0
    BY <2>1, <2>2, <2>3, <2>6
  <2>7. a.price = 0 => BonusOf(a) = 0
    BY <2>1 DEF BonusOf
  <2>8. QED
    BY <2>4, <2>5, <2>6, <2>7
 <1>3. QED
   BY <1>1, <1>2

LEMMA DuringFields ==
  ASSUME TypeOK, NEW at, NEW x \in Nat, web' = During(at, x)
  PROVE  /\ web'.at = web.at /\ web'.ask = web.ask
         /\ web'.kept = web.kept /\ web'.seen = web.seen
         /\ web'.moved = (IF web.at = at THEN web.moved + x ELSE web.moved)
         /\ web'.moved \in Nat
         /\ web' \in WebType
 <1>1. web \in WebType
   BY DEF TypeOK
 <1>2. CASE web.at = at
  <2>1. web' = [web EXCEPT !.moved = web.moved + x]
    BY <1>2 DEF During
  <2>2. web.moved + x \in Nat
    BY <1>1
  <2>3. QED
    BY <1>1, <1>2, <2>1, <2>2
 <1>3. CASE web.at # at
   BY <1>1, <1>3 DEF During
 <1>4. QED
   BY <1>2, <1>3

LEMMA StillWithin ==
  ASSUME NEW u \in Int, NEW v \in Int, v <= u, NEW c \in Int, NEW d \in Int, c <= d
  PROVE  \A b \in Nat : u <= c + b => v <= d + b
OBVIOUS

(* A step that settles something keeps what a request has read, if what it *)
(* takes from the money or the holdings it also takes from what is open,   *)
(* or adds to what was moved since the read.                               *)
LEMMA Meanwhile ==
  ASSUME FundsInv,
         web'.at = web.at, web'.ask = web.ask, web'.kept = web.kept,
         web'.seen = web.seen, web'.moved \in Nat,
         CameIn' \in Nat, Net' \in Int, Promised' \in Int, InSale' \in Int,
         held' \in Int, Scale * blocked' \in Nat,
         CameIn <= CameIn', Promised' <= Promised, Lent' = Lent,
         Negative("pending")' \in Int, Negative("pending")' <= Negative("pending"),
         web.at = "available" =>
           Scale * blocked' - web'.moved <= Scale * blocked - web.moved,
         web.at = "inUsing" =>
           /\ Net + web.moved <= Net' + web'.moved
           /\ Net - Scale * blocked + web.moved <= Net' - Scale * blocked' + web'.moved,
         web.at = "insert" =>
           /\ Net - Promised + web.moved <= Net' - Promised' + web'.moved
           /\ Net - Promised - Scale * blocked + web.moved
                <= Net' - Promised' - Scale * blocked' + web'.moved
           /\ held - InSale + web.moved <= held' - InSale' + web'.moved,
         web.at = "inSale" => held + web.moved <= held' + web'.moved
  PROVE  AsksSound' /\ MoneyRead' /\ HoldingRead' /\ OpenWithinMoney'
 <1>1. /\ Promised \in Nat /\ InSale \in Nat /\ CameIn \in Nat /\ Net \in Int
       /\ Lent \in Nat /\ Negative("pending") \in Nat
       /\ held \in Int /\ Scale * blocked \in Nat
       /\ web.moved \in Nat /\ web.kept \in Nat /\ web.seen \in Nat
   BY SumsTyped, ProductNat DEF FundsInv, TypeOK
 <1>2. AsksSound'
   BY DEF FundsInv, AsksSound, Pays, Sells, Buys
 <1>3. /\ \A a : Pays(a) => Need(a) \in Int
       /\ \A a : Sells(a) => a.volume + Frozen \in Nat
   BY NeedFacts, AsksApart DEF Pays, Buys, Sells
 <1>4. MoneyRead'
  <2>1. web.at = "available" => Scale * blocked' <= web'.kept + web'.moved
    BY <1>1 DEF FundsInv, MoneyRead
  <2>2. ASSUME web.at = "inUsing"
        PROVE  /\ web'.seen + Negative("pending")' <= CameIn'
               /\ web'.seen # 0 => web'.seen + Negative("pending")' <= Net' + web'.moved
               /\ web'.seen # 0 /\ web'.ask \in WithdrawAsk =>
                    web'.seen + Negative("pending")' - web'.kept
                      <= Net' - Scale * blocked' + web'.moved
    BY <1>1, <2>2 DEF FundsInv, MoneyRead
  <2>3. ASSUME web.at = "insert", Pays(web.ask), Need(web.ask) > 0
        PROVE  /\ Promised' + Need(web.ask) <= CameIn'
               /\ \/ Promised' + Need(web.ask) <= Lent'
                  \/ /\ Need(web.ask) <= Net' - Promised' + web'.moved
                     /\ web.ask \in WithdrawAsk =>
                          Need(web.ask) <= Net' - Promised' - Scale * blocked' + web'.moved
    BY <1>1, <1>3, <2>3 DEF FundsInv, MoneyRead
  <2>4. QED
    BY <2>1, <2>2, <2>3 DEF MoneyRead, Pays, Buys, Need
 <1>5. HoldingRead'
  <2>1. web.at = "inSale" => web'.seen = 0 \/ web'.seen <= held' + web'.moved
    BY <1>1 DEF FundsInv, HoldingRead
  <2>2. ASSUME web.at = "insert", Sells(web.ask)
        PROVE  web.ask.volume + Frozen <= held' - InSale' + web'.moved
    BY <1>1, <1>3, <2>2 DEF FundsInv, HoldingRead
  <2>3. QED
    BY <2>1, <2>2 DEF HoldingRead, Sells
 <1>6. OpenWithinMoney'
  <2>1. \A c \in Nat : Promised <= CameIn + c => Promised' <= CameIn' + c
   <3>1. Promised' <= Promised /\ Promised' \in Int
     OBVIOUS
   <3>2. Promised \in Int /\ CameIn \in Int
     BY <1>1
   <3>3. CameIn <= CameIn'
     OBVIOUS
   <3>4. CameIn' \in Int
     OBVIOUS
   <3>5. QED
     BY <3>1, <3>2, <3>3, <3>4, StillWithin, Zenon
  <2>2. PICK b \in {0} \cup {BonusOf(a) : a \in Request} : Promised <= CameIn + b
    BY DEF FundsInv, OpenWithinMoney, CameIn
  <2>3. b \in Nat
    BY NeedFacts
  <2>4. Promised' <= CameIn' + b
    BY <2>1, <2>2, <2>3
  <2>5. QED
    BY <2>4 DEF OpenWithinMoney, CameIn
 <1>7. QED
   BY <1>2, <1>4, <1>5, <1>6

-----------------------------------------------------------------------------
(* The steps of a request *)

SameOrders == UNCHANGED <<order, today>>

LEMMA OrdersKept ==
  ASSUME SameOrders
  PROVE  /\ InBuying' = InBuying /\ InSale' = InSale
         /\ {i \in OrderId : order'[i] # NoRow} = {i \in OrderId : order[i] # NoRow}
         /\ RowsSound' = RowsSound
 <1>1. order' = order /\ today' = today
   BY DEF SameOrders
 <1>2. \A dir : Open(dir)' = Open(dir)
   BY <1>1 DEF Open, Orders
 <1>3. InBuying' = InBuying /\ InSale' = InSale
   BY <1>1, <1>2 DEF InBuying, InSale, Cost, Left
 <1>4. QED
   BY <1>1, <1>3 DEF RowsSound

LEMMA WithdrawalsKept ==
  ASSUME UNCHANGED withdrawal
  PROVE  /\ \A status : /\ Withdrawn(status)' = Withdrawn(status)
                        /\ Asked(status)' = Asked(status)
                        /\ Negative(status)' = Negative(status)
         /\ Lent' = Lent /\ SumsSplit' = SumsSplit
         /\ {w \in WithdrawId : withdrawal'[w] # NoRow} = {w \in WithdrawId : withdrawal[w] # NoRow}
 <1>1. \A status : Withdrawals(status)' = Withdrawals(status)
   BY DEF Withdrawals
 <1>2. \A status : /\ Withdrawn(status)' = Withdrawn(status)
                   /\ Asked(status)' = Asked(status)
                   /\ Negative(status)' = Negative(status)
   BY <1>1 DEF Withdrawn, Asked, Negative, Positive
 <1>3. Lent' = Lent /\ SumsSplit' = SumsSplit
   BY <1>2 DEF Lent, SumsSplit
 <1>4. QED
   BY <1>2, <1>3

(* A step of the request that writes nothing but web. *)
LEMMA OnlyWeb ==
  ASSUME FundsInv, UNCHANGED <<order, withdrawal, account, today>>,
         web' \in WebType
  PROVE  /\ CameIn' = CameIn /\ Net' = Net /\ Promised' = Promised /\ InSale' = InSale
         /\ Lent' = Lent /\ Negative("pending")' = Negative("pending")
         /\ held' = held /\ blocked' = blocked /\ SumsSplit'
         /\ TypeOK' /\ RowsFinite' /\ RowsSound' /\ OpenWithinMoney'
 <1>1. SameOrders /\ UNCHANGED <<withdrawal, deposit, blocked, income, consumed, held>>
   BY DEF account, SameOrders
 <1>2. /\ CameIn' = CameIn /\ Net' = Net /\ Promised' = Promised /\ InSale' = InSale
       /\ Lent' = Lent /\ Negative("pending")' = Negative("pending") /\ SumsSplit'
   BY <1>1, OrdersKept, WithdrawalsKept DEF CameIn, Net, Promised, FundsInv
 <1>3. TypeOK'
   BY <1>1 DEF FundsInv, TypeOK, SameOrders
 <1>4. RowsFinite' /\ RowsSound'
   BY <1>1, OrdersKept, WithdrawalsKept DEF FundsInv, RowsFinite
 <1>5. OpenWithinMoney'
  <2>1. PICK b \in {0} \cup {BonusOf(a) : a \in Request} : Promised <= CameIn + b
    BY DEF FundsInv, OpenWithinMoney, CameIn
  <2>2. Promised' <= CameIn' + b
    BY <1>2, <2>1
  <2>3. QED
    BY <2>2 DEF OpenWithinMoney, CameIn
 <1>6. QED
   BY <1>1, <1>2, <1>3, <1>4, <1>5

LEMMA IdleKeeps ==
  ASSUME FundsInv, UNCHANGED <<order, withdrawal, account, today>>, web' = IdleWeb
  PROVE  FundsInv'
 <1>1. /\ web' \in WebType
       /\ web'.at = "idle"
   BY DEF IdleWeb
 <1>2. AsksSound' /\ MoneyRead' /\ HoldingRead'
   BY <1>1 DEF AsksSound, MoneyRead, HoldingRead
 <1>3. QED
   BY <1>1, <1>2, OnlyWeb DEF FundsInv

LEMMA CheckBuyKeeps ==
  ASSUME FundsInv, CheckBuy
  PROVE  FundsInv'
 <1>1. PICK a \in Request :
         /\ a.direction = "B"
         /\ web' = [IdleWeb EXCEPT !.at = "inUsing", !.ask = a, !.seen = Available]
   BY DEF CheckBuy
 <1>2. /\ Available \in Nat /\ Available + Negative("pending") <= CameIn
       /\ (Available # 0 => Available = Net - Lent) /\ Net \in Int
       /\ Lent \in Nat /\ Negative("pending") \in Nat /\ Negative("pending") <= Lent
   BY SumsTyped DEF FundsInv
 <1>3. web' = [at |-> "inUsing", ask |-> a, kept |-> 0, seen |-> Available, moved |-> 0]
   BY <1>1 DEF IdleWeb
 <1>4. web' \in WebType
   BY <1>2, <1>3
 <1>5. /\ CameIn' = CameIn /\ Net' = Net /\ Negative("pending")' = Negative("pending")
       /\ TypeOK' /\ RowsFinite' /\ RowsSound' /\ SumsSplit' /\ OpenWithinMoney'
   BY <1>4, OnlyWeb DEF CheckBuy
 <1>6. a \notin WithdrawAsk
   BY AsksApart
 <1>7. AsksSound'
   BY <1>1, <1>3 DEF AsksSound, Pays, Buys
 <1>8. MoneyRead'
   BY <1>2, <1>3, <1>5, <1>6 DEF MoneyRead
 <1>9. HoldingRead'
   BY <1>3 DEF HoldingRead
 <1>10. QED
   BY <1>5, <1>7, <1>8, <1>9 DEF FundsInv

LEMMA CheckWithdrawKeeps ==
  ASSUME FundsInv, CheckWithdraw
  PROVE  FundsInv'
 <1>1. PICK a \in WithdrawAsk :
         web' = [IdleWeb EXCEPT !.at = "available", !.ask = a, !.kept = Scale * blocked]
   BY DEF CheckWithdraw
 <1>2. Scale * blocked \in Nat
   BY ProductNat DEF FundsInv, TypeOK
 <1>3. web' = [at |-> "available", ask |-> a, kept |-> Scale * blocked, seen |-> 0, moved |-> 0]
   BY <1>1 DEF IdleWeb
 <1>4. web' \in WebType
   BY <1>2, <1>3
 <1>5. blocked' = blocked /\ TypeOK' /\ RowsFinite' /\ RowsSound' /\ SumsSplit' /\ OpenWithinMoney'
   BY <1>4, OnlyWeb DEF CheckWithdraw
 <1>6. AsksSound'
   BY <1>1, <1>3 DEF AsksSound
 <1>7. MoneyRead'
  <2>1. Scale * blocked' <= web'.kept + web'.moved
    BY <1>2, <1>3, <1>5
  <2>2. QED
    BY <1>3, <2>1 DEF MoneyRead
 <1>8. HoldingRead'
   BY <1>3 DEF HoldingRead
 <1>9. QED
   BY <1>5, <1>6, <1>7, <1>8 DEF FundsInv

LEMMA ReadAvailableKeeps ==
  ASSUME FundsInv, ReadAvailable
  PROVE  FundsInv'
 <1>1. /\ Available \in Nat /\ Available + Negative("pending") <= CameIn
       /\ (Available # 0 => Available = Net - Lent) /\ Net \in Int
       /\ Lent \in Nat /\ Negative("pending") \in Nat /\ Negative("pending") <= Lent
       /\ Scale * blocked \in Nat
   BY SumsTyped, ProductNat DEF FundsInv, TypeOK
 <1>2. /\ web'.at = "inUsing" /\ web'.seen = Available
       /\ web'.ask = web.ask /\ web'.kept = web.kept /\ web'.moved = web.moved
       /\ web' \in WebType
   BY <1>1 DEF ReadAvailable, FundsInv, TypeOK
 <1>3. web.ask \in WithdrawAsk /\ Scale * blocked <= web.kept + web.moved
       /\ web.kept \in Nat /\ web.moved \in Nat
   BY DEF ReadAvailable, FundsInv, AsksSound, MoneyRead, TypeOK
 <1>4. /\ CameIn' = CameIn /\ Net' = Net /\ blocked' = blocked
       /\ Negative("pending")' = Negative("pending")
       /\ TypeOK' /\ RowsFinite' /\ RowsSound' /\ SumsSplit' /\ OpenWithinMoney'
   BY <1>2, OnlyWeb DEF ReadAvailable
 <1>5. AsksSound'
   BY <1>2, <1>3 DEF AsksSound, Pays
 <1>6. MoneyRead'
  <2>1. /\ web'.seen + Negative("pending")' <= CameIn'
        /\ web'.seen # 0 => web'.seen + Negative("pending")' <= Net' + web'.moved
    BY <1>1, <1>2, <1>3, <1>4
  <2>2. web'.seen # 0 => web'.seen + Negative("pending")' - web'.kept
                           <= Net' - Scale * blocked' + web'.moved
    BY <1>1, <1>2, <1>3, <1>4
  <2>3. QED
    BY <1>2, <2>1, <2>2 DEF MoneyRead
 <1>7. HoldingRead'
   BY <1>2 DEF HoldingRead
 <1>8. QED
   BY <1>4, <1>5, <1>6, <1>7 DEF FundsInv

(* The request is admitted or given up. *)
LEMMA AdmitKeeps ==
  ASSUME FundsInv, Admit
  PROVE  FundsInv'
 <1>1. /\ web.at = "inUsing" /\ Pays(web.ask) /\ web \in WebType
       /\ Need(web.ask) \in Int
   BY NeedFacts DEF Admit, FundsInv, TypeOK, AsksSound, Pays, Buys
 <1>2. /\ Promised \in Nat /\ InUsing = Promised - Negative("pending")
       /\ Negative("pending") \in Nat /\ Negative("pending") <= Lent /\ Lent \in Nat
       /\ Lent <= CameIn /\ CameIn \in Nat /\ Net \in Int /\ Scale * blocked \in Nat
       /\ web.seen \in Nat /\ web.kept \in Nat /\ web.moved \in Nat
   BY <1>1, SumsTyped, ProductNat DEF FundsInv, TypeOK
 <1>3. /\ web.seen + Negative("pending") <= CameIn
       /\ web.seen # 0 => web.seen + Negative("pending") <= Net + web.moved
       /\ web.seen # 0 /\ web.ask \in WithdrawAsk =>
            web.seen + Negative("pending") - web.kept <= Net - Scale * blocked + web.moved
   BY <1>1 DEF FundsInv, MoneyRead
 <1>4. CASE Need(web.ask) <= Positive(web.seen - InUsing) - web.kept
  <2>1. web' = [web EXCEPT !.at = "insert"]
    BY <1>4 DEF Admit
  <2>2. /\ web'.at = "insert" /\ web'.ask = web.ask /\ web'.moved = web.moved
        /\ web' \in WebType
    BY <1>1, <2>1
  <2>3. /\ CameIn' = CameIn /\ Net' = Net /\ Promised' = Promised /\ blocked' = blocked
        /\ Lent' = Lent
        /\ TypeOK' /\ RowsFinite' /\ RowsSound' /\ SumsSplit' /\ OpenWithinMoney'
    BY <2>2, OnlyWeb DEF Admit
  <2>4. AsksSound'
    BY <1>1, <2>2 DEF AsksSound, Pays, Buys
  <2>5. ASSUME Need(web.ask) > 0
        PROVE  /\ Promised + Need(web.ask) <= CameIn
               /\ \/ Promised + Need(web.ask) <= Lent
                  \/ /\ Need(web.ask) <= Net - Promised + web.moved
                     /\ web.ask \in WithdrawAsk =>
                          Need(web.ask) <= Net - Promised - Scale * blocked + web.moved
   <3>1. web.seen - InUsing > 0 /\ Positive(web.seen - InUsing) = web.seen - InUsing
     BY <1>1, <1>2, <1>4, <2>5 DEF Positive
   <3>2. Need(web.ask) + Promised + web.kept <= web.seen + Negative("pending")
     BY <1>1, <1>2, <1>4, <3>1
   <3>3. CASE web.seen = 0
     BY <1>1, <1>2, <3>2, <3>3
   <3>4. CASE web.seen # 0
     BY <1>1, <1>2, <1>3, <3>2, <3>4
   <3>5. QED
     BY <3>3, <3>4
  <2>6. MoneyRead'
   <3>1. Pays(web.ask)' <=> Pays(web.ask)
     BY <2>2 DEF Pays, Buys
   <3>2. Need(web.ask)' = Need(web.ask)
     BY <2>2 DEF Need
   <3>3. QED
     BY <2>2, <2>3, <2>5, <3>1, <3>2 DEF MoneyRead
  <2>7. HoldingRead'
   <3>1. ~Sells(web.ask)
     BY <1>1, AsksApart DEF Sells, Pays, Buys
   <3>2. QED
     BY <2>2, <3>1 DEF HoldingRead, Sells
  <2>8. QED
    BY <2>3, <2>4, <2>6, <2>7 DEF FundsInv
 <1>5. CASE ~(Need(web.ask) <= Positive(web.seen - InUsing) - web.kept)
  <2>1. web' = IdleWeb
    BY <1>5 DEF Admit
  <2>2. QED
    BY <2>1, IdleKeeps DEF Admit
 <1>6. QED
   BY <1>4, <1>5

LEMMA CheckSaleKeeps ==
  ASSUME FundsInv, CheckSale
  PROVE  FundsInv'
 <1>1. PICK a \in Request :
         /\ a.direction = "S"
         /\ web' = [IdleWeb EXCEPT !.at = "inSale", !.ask = a, !.seen = Holding]
   BY DEF CheckSale
 <1>2. held \in Int /\ Holding \in Nat /\ (Holding = 0 \/ Holding <= held)
   BY DEF Holding, Positive, FundsInv, TypeOK
 <1>3. web' = [at |-> "inSale", ask |-> a, kept |-> 0, seen |-> Holding, moved |-> 0]
   BY <1>1 DEF IdleWeb
 <1>4. web' \in WebType
   BY <1>2, <1>3
 <1>5. held' = held /\ TypeOK' /\ RowsFinite' /\ RowsSound' /\ SumsSplit' /\ OpenWithinMoney'
   BY <1>4, OnlyWeb DEF CheckSale
 <1>6. AsksSound'
   BY <1>1, <1>3 DEF AsksSound, Sells
 <1>7. MoneyRead'
   BY <1>3 DEF MoneyRead
 <1>8. HoldingRead'
   BY <1>2, <1>3, <1>5 DEF HoldingRead
 <1>9. QED
   BY <1>5, <1>6, <1>7, <1>8 DEF FundsInv

LEMMA AdmitSaleKeeps ==
  ASSUME FundsInv, AdmitSale
  PROVE  FundsInv'
 <1>1. /\ web.at = "inSale" /\ Sells(web.ask) /\ web \in WebType
       /\ web.ask.volume \in Nat \ {0}
   BY AsksApart DEF AdmitSale, FundsInv, TypeOK, AsksSound, Sells
 <1>2. /\ InSale \in Nat /\ held \in Int /\ web.seen \in Nat /\ web.moved \in Nat
       /\ web.seen = 0 \/ web.seen <= held + web.moved
   BY <1>1, SumsTyped DEF FundsInv, TypeOK, HoldingRead
 <1>3. CASE web.ask.volume <= web.seen - InSale - Frozen
  <2>1. web' = [web EXCEPT !.at = "insert"]
    BY <1>3 DEF AdmitSale
  <2>2. /\ web'.at = "insert" /\ web'.ask = web.ask /\ web'.moved = web.moved
        /\ web' \in WebType
    BY <1>1, <2>1
  <2>3. /\ InSale' = InSale /\ held' = held
        /\ TypeOK' /\ RowsFinite' /\ RowsSound' /\ SumsSplit' /\ OpenWithinMoney'
    BY <2>2, OnlyWeb DEF AdmitSale
  <2>4. AsksSound'
    BY <1>1, <2>2 DEF AsksSound, Sells
  <2>5. ~Pays(web.ask)
    BY <1>1, AsksApart DEF Sells, Pays, Buys
  <2>6. MoneyRead'
    BY <2>2, <2>5 DEF MoneyRead, Pays, Buys
  <2>7. web.ask.volume + Frozen <= held - InSale + web.moved
    BY <1>1, <1>2, <1>3
  <2>8. HoldingRead'
    BY <2>2, <2>3, <2>7 DEF HoldingRead
  <2>9. QED
    BY <2>3, <2>4, <2>6, <2>8 DEF FundsInv
 <1>4. CASE ~(web.ask.volume <= web.seen - InSale - Frozen)
  <2>1. web' = IdleWeb
    BY <1>4 DEF AdmitSale
  <2>2. QED
    BY <2>1, IdleKeeps DEF AdmitSale
 <1>5. QED
   BY <1>3, <1>4

(* The commit of an order: what it adds to the sums. *)
LEMMA OrderInserted ==
  ASSUME FundsInv, InsertOrder
  PROVE  /\ web.ask \in Request /\ web.at = "insert"
         /\ Promised' = Promised + (IF web.ask.direction = "B" THEN Cost(web.ask.volume, web.ask.price) ELSE 0)
         /\ InSale' = InSale + (IF web.ask.direction = "S" THEN web.ask.volume ELSE 0)
         /\ CameIn' = CameIn /\ Net' = Net /\ held' = held /\ Lent' = Lent
         /\ \A status : Negative(status)' = Negative(status)
         /\ TypeOK' /\ RowsFinite' /\ RowsSound' /\ SumsSplit'
         /\ web' = IdleWeb /\ withdrawal' = withdrawal /\ blocked' = blocked
         /\ \A j \in OrderId : order[j] = NoRow /\ order'[j] # NoRow =>
              order'[j] = NewRow(j, web.ask, today)
 <1> DEFINE a == web.ask
 <1>1. PICK i \in OrderId : order[i] = NoRow /\ order' = [order EXCEPT ![i] = NewRow(i, a, today)]
   BY DEF InsertOrder
 <1> DEFINE r == NewRow(i, a, today)
 <1>2. a \in Request /\ today \in Nat
   BY DEF InsertOrder, FundsInv, TypeOK
 <1>3. a \in [p_no: Product, direction: Direction, volume: Volume, price: Price]
   BY <1>2
 <1>4. r \in Row
   BY <1>2, <1>3 DEF NewRow, Row, Status, Committed
 <1>5. /\ r.created_at = today /\ r.deal_volume = 0 /\ r.volume = a.volume
       /\ r.price = a.price /\ r.direction = a.direction /\ r.status = Committed
   BY DEF NewRow
 <1>6. a.volume \in Nat \ {0} /\ a.price \in Nat
   BY <1>2, AsksApart
 <1>7. r # NoRow /\ Left(r) = a.volume
   BY <1>4, <1>5, <1>6 DEF Left
 <1>8. /\ BuyingOf(r) = (IF a.direction = "B" THEN Cost(a.volume, a.price) ELSE 0)
       /\ SaleOf(r) = (IF a.direction = "S" THEN a.volume ELSE 0)
  <2> HIDE DEF r
  <2>1. QED
    BY <1>5, <1>7 DEF BuyingOf, SaleOf, IsOpen, Live
 <1>9. BuyingOf(order[i]) = 0 /\ SaleOf(order[i]) = 0
   BY <1>1 DEF BuyingOf, SaleOf, IsOpen
 <1> HIDE DEF r
 <1>10. UNCHANGED <<withdrawal, deposit, blocked, income, consumed, held, today>> /\ web' = IdleWeb
   BY DEF InsertOrder, account
 <1>11. order' = [order EXCEPT ![i] = r]
   BY <1>1 DEF r
 <1>12. /\ InBuying' = InBuying - BuyingOf(order[i]) + BuyingOf(r)
        /\ InSale' = InSale - SaleOf(order[i]) + SaleOf(r)
        /\ IsFiniteSet({j \in OrderId : order'[j] # NoRow}) /\ RowsSound'
        /\ order' \in [OrderId -> Row \cup {NoRow}]
        /\ \A j \in OrderId \ {i} : order'[j] = order[j]
        /\ order'[i] = r
  <2>1. r.created_at <= today /\ r.deal_volume <= r.volume
    BY <1>2, <1>5, <1>6
  <2>2. QED
    BY <1>4, <1>10, <1>11, <2>1, OrderChanged DEF FundsInv
 <1>13. InBuying \in Nat /\ InSale \in Nat /\ Asked("pending") \in Nat
   BY SumsTyped DEF FundsInv
 <1>14. Cost(a.volume, a.price) \in Nat
   BY <1>6, CostFacts
 <1>15. /\ \A status : /\ Withdrawn(status)' = Withdrawn(status) /\ Asked(status)' = Asked(status)
                        /\ Negative(status)' = Negative(status)
        /\ Lent' = Lent /\ SumsSplit'
   BY <1>10, WithdrawalsKept DEF FundsInv
 <1>16. InBuying' = InBuying + (IF a.direction = "B" THEN Cost(a.volume, a.price) ELSE 0)
   BY <1>8, <1>9, <1>12, <1>13, <1>14
 <1>17. Promised' = Promised + (IF a.direction = "B" THEN Cost(a.volume, a.price) ELSE 0)
   BY <1>13, <1>14, <1>15, <1>16 DEF Promised
 <1>18. InSale' = InSale + (IF a.direction = "S" THEN a.volume ELSE 0)
   BY <1>6, <1>8, <1>9, <1>12, <1>13
 <1>19. CameIn' = CameIn /\ Net' = Net
   BY <1>10, <1>15 DEF CameIn, Net
 <1>20. TypeOK'
   BY <1>10, <1>12 DEF TypeOK, FundsInv, IdleWeb
 <1>21. RowsFinite'
   BY <1>10, <1>12 DEF RowsFinite, FundsInv
 <1>22. \A j \in OrderId : order[j] = NoRow /\ order'[j] # NoRow => order'[j] = NewRow(j, a, today)
   BY <1>12 DEF r
 <1>23. QED
   BY <1>2, <1>10, <1>12, <1>15, <1>17, <1>18, <1>19, <1>20, <1>21, <1>22 DEF InsertOrder

LEMMA InsertOrderKeeps ==
  ASSUME FundsInv, InsertOrder
  PROVE  FundsInv'
 <1> DEFINE a == web.ask
 <1>1. /\ a \in Request /\ web.at = "insert" /\ web' = IdleWeb
       /\ CameIn' = CameIn /\ TypeOK' /\ RowsFinite' /\ RowsSound' /\ SumsSplit'
       /\ Promised' = Promised + (IF a.direction = "B" THEN Cost(a.volume, a.price) ELSE 0)
   BY OrderInserted
 <1>2. AsksSound' /\ MoneyRead' /\ HoldingRead'
   BY <1>1 DEF IdleWeb, AsksSound, MoneyRead, HoldingRead
 <1>3. Promised \in Nat /\ CameIn \in Nat
   BY SumsTyped DEF FundsInv
 <1>4. /\ Need(a) \in Nat /\ BonusOf(a) \in Nat /\ Cost(a.volume, a.price) = Need(a) + BonusOf(a)
       /\ Need(a) = 0 => BonusOf(a) = 0
   BY <1>1, NeedFacts
 <1>5. \E b \in {0} \cup {BonusOf(c) : c \in Request} : Promised' <= CameIn' + b
  <2>1. CASE a.direction = "B" /\ Need(a) > 0
   <3>1. Promised + Need(a) <= CameIn
     BY <1>1, <2>1 DEF FundsInv, MoneyRead, Pays, Buys
   <3>2. Promised' <= CameIn' + BonusOf(a)
     BY <1>1, <1>3, <1>4, <2>1, <3>1
   <3>3. QED
     BY <1>1, <3>2
  <2>2. CASE a.direction # "B" \/ ~(Need(a) > 0)
   <3>1. Promised' = Promised
     BY <1>1, <1>3, <1>4, <2>2
   <3>2. QED
     BY <1>1, <3>1 DEF FundsInv, OpenWithinMoney, CameIn
  <2>3. QED
    BY <2>1, <2>2
 <1>6. OpenWithinMoney'
   BY <1>5 DEF OpenWithinMoney, CameIn
 <1>7. QED
   BY <1>1, <1>2, <1>6 DEF FundsInv

(* The commit of a withdrawal: what is asked for is promised, and one of a *)
(* negative amount was taken for money that came in.                       *)
LEMMA WithdrawalInserted ==
  ASSUME FundsInv, InsertWithdrawal
  PROVE  /\ web.ask \in WithdrawAsk /\ web.at = "insert" /\ web' = IdleWeb
         /\ Promised' = Promised + Positive(Need(web.ask))
         /\ Lent' = Lent + Positive(-Need(web.ask)) /\ Negative("pending")' \in Nat
         /\ Withdrawn("finished")' = Withdrawn("finished")
         /\ CameIn' = CameIn + Positive(-Need(web.ask)) /\ blocked' = blocked
         /\ Net' = Net + Positive(-Need(web.ask))
         /\ TypeOK' /\ RowsFinite' /\ RowsSound' /\ SumsSplit' /\ order' = order
         /\ \A u \in WithdrawId : withdrawal[u] = NoRow /\ withdrawal'[u] # NoRow =>
              withdrawal'[u].amount = web.ask.amount
 <1> DEFINE a == web.ask
 <1>1. PICK w \in WithdrawId :
         withdrawal[w] = NoRow /\ withdrawal' = [withdrawal EXCEPT ![w] = NewWithdrawal(a)]
   BY DEF InsertWithdrawal
 <1> DEFINE r == NewWithdrawal(a)
 <1>2. a \in WithdrawAsk /\ r \in WithdrawRow /\ r.amount = a.amount /\ r.status = "pending"
   BY DEF InsertWithdrawal, NewWithdrawal, WithdrawAsk, WithdrawRow, WithdrawStatus
 <1> HIDE DEF r
 <1>3. withdrawal' = [withdrawal EXCEPT ![w] = r]
   BY <1>1 DEF r
 <1>4. UNCHANGED <<order, deposit, blocked, income, consumed, held, today>> /\ web' = IdleWeb
   BY DEF InsertWithdrawal, account
 <1>5. /\ \A status :
            /\ Withdrawn(status)'
                 = Withdrawn(status) - Scale * AmountOf(withdrawal[w], status)
                                     + Scale * AmountOf(r, status)
            /\ Asked(status)'
                 = Asked(status) - Scale * Positive(AmountOf(withdrawal[w], status))
                                 + Scale * Positive(AmountOf(r, status))
            /\ Negative(status)'
                 = Negative(status) - Scale * Positive(-AmountOf(withdrawal[w], status))
                                    + Scale * Positive(-AmountOf(r, status))
       /\ SumsSplit'
       /\ IsFiniteSet({u \in WithdrawId : withdrawal'[u] # NoRow})
       /\ withdrawal' \in [WithdrawId -> WithdrawRow \cup {NoRow}]
       /\ withdrawal'[w] = r /\ \A u \in WithdrawId \ {w} : withdrawal'[u] = withdrawal[u]
   BY <1>2, <1>3, WithdrawalChanged DEF FundsInv
 <1>6. /\ InBuying \in Nat /\ Asked("pending") \in Nat /\ Withdrawn("finished") \in Int
       /\ Negative("pending") \in Nat /\ Negative("refused") \in Nat /\ Negative("finished") \in Nat
       /\ Lent \in Nat /\ CameIn \in Nat /\ Net \in Int
       /\ Scale * deposit \in Nat /\ income \in Nat /\ consumed \in Nat
   BY SumsTyped, ProductNat DEF FundsInv, TypeOK
 <1>7. a.amount \in Int /\ Need(a) = Scale * a.amount /\ Need(a) \in Int
   BY <1>2, NeedFacts, AsksApart
 <1>8. /\ Scale * Positive(a.amount) = Positive(Need(a))
       /\ Scale * Positive(-a.amount) = Positive(-Need(a))
       /\ Positive(Need(a)) \in Nat /\ Positive(-Need(a)) \in Nat
  <2>1. CASE a.amount <= 0
   <3>1. Need(a) <= 0 /\ Scale * (-a.amount) = -Need(a) /\ -Need(a) \in Nat
     BY <1>7, <2>1
   <3>2. QED
     BY <1>7, <2>1, <3>1 DEF Positive
  <2>2. CASE ~(a.amount <= 0)
   <3>1. Need(a) > 0 /\ -Need(a) <= 0 /\ -a.amount <= 0
     BY <1>7, <2>2
   <3>2. QED
     BY <1>7, <2>2, <3>1 DEF Positive
  <2>3. QED
    BY <2>1, <2>2
 <1>9. \A status : AmountOf(withdrawal[w], status) = 0
   BY <1>1 DEF AmountOf
 <1>10. /\ AmountOf(r, "pending") = a.amount
        /\ AmountOf(r, "finished") = 0 /\ AmountOf(r, "refused") = 0
   BY <1>2 DEF AmountOf
 <1>11. Scale * 0 = 0 /\ Positive(0) = 0 /\ Positive(-0) = 0
   BY DEF Positive
 <1>12. /\ Asked("pending")' = Asked("pending") + Positive(Need(a))
        /\ Negative("pending")' = Negative("pending") + Positive(-Need(a))
   BY <1>5, <1>6, <1>8, <1>9, <1>10, <1>11
 <1>13. /\ Withdrawn("finished")' = Withdrawn("finished")
        /\ Negative("finished")' = Negative("finished")
        /\ Negative("refused")' = Negative("refused")
   BY <1>5, <1>6, <1>9, <1>10, <1>11
 <1> DEFINE up == Positive(Need(a))
            down == Positive(-Need(a))
 <1>14. up \in Nat /\ down \in Nat
   BY <1>8
 <1>15. InBuying' = InBuying /\ RowsSound' = RowsSound
   BY <1>4, OrdersKept DEF SameOrders
 <1> HIDE DEF up, down
 <1>16. Promised' = Promised + up
   BY <1>6, <1>12, <1>14, <1>15 DEF Promised, up
 <1>17. Lent' = Lent + down
   BY <1>6, <1>12, <1>13, <1>14 DEF Lent, down
 <1>18. CameIn' = CameIn + down
   BY <1>4, <1>6, <1>14, <1>17 DEF CameIn
 <1>19. Net' = Net + down
   BY <1>4, <1>6, <1>13, <1>14, <1>18 DEF Net
 <1>20. TypeOK'
   BY <1>4, <1>5 DEF TypeOK, FundsInv, IdleWeb
 <1>21. RowsFinite' /\ RowsSound'
   BY <1>4, <1>5, <1>15 DEF RowsFinite, FundsInv
 <1>22. \A u \in WithdrawId : withdrawal[u] = NoRow /\ withdrawal'[u] # NoRow =>
          withdrawal'[u].amount = a.amount
   BY <1>2, <1>5
 <1>23. Negative("pending")' \in Nat
   BY <1>6, <1>12, <1>14 DEF down
 <1>24. QED
   BY <1>2, <1>4, <1>5, <1>13, <1>16, <1>17, <1>18, <1>19, <1>20, <1>21, <1>22, <1>23
      DEF InsertWithdrawal, up, down

LEMMA InsertWithdrawalKeeps ==
  ASSUME FundsInv, InsertWithdrawal
  PROVE  FundsInv'
 <1> DEFINE a == web.ask
 <1>1. /\ a \in WithdrawAsk /\ web.at = "insert" /\ web' = IdleWeb
       /\ CameIn' = CameIn + Positive(-Need(a))
       /\ TypeOK' /\ RowsFinite' /\ RowsSound' /\ SumsSplit'
       /\ Promised' = Promised + Positive(Need(a))
   BY WithdrawalInserted
 <1>2. AsksSound' /\ MoneyRead' /\ HoldingRead'
   BY <1>1 DEF IdleWeb, AsksSound, MoneyRead, HoldingRead
 <1>3. Promised \in Nat /\ CameIn \in Nat /\ Need(a) \in Int
   BY <1>1, SumsTyped, NeedFacts DEF FundsInv
 <1>4. CASE Need(a) > 0
  <2>1. Promised + Need(a) <= CameIn
    BY <1>1, <1>3, <1>4 DEF FundsInv, MoneyRead, Pays
  <2>2. Promised' <= CameIn' + 0
    BY <1>1, <1>3, <1>4, <2>1 DEF Positive
  <2>3. OpenWithinMoney'
    BY <2>2 DEF OpenWithinMoney, CameIn
  <2>4. QED
    BY <1>1, <1>2, <2>3 DEF FundsInv
 <1>5. CASE ~(Need(a) > 0)
  <2>1. Promised' = Promised /\ CameIn <= CameIn' /\ CameIn' \in Nat
    BY <1>1, <1>3, <1>5 DEF Positive
  <2>2. PICK b \in {0} \cup {BonusOf(c) : c \in Request} : Promised <= CameIn + b
    BY DEF FundsInv, OpenWithinMoney, CameIn
  <2>3. b \in Nat
    BY NeedFacts
  <2>4. Promised' <= CameIn' + b
   <3>1. Promised \in Int /\ CameIn \in Int /\ CameIn' \in Int
     BY <1>3, <2>1
   <3>2. Promised <= CameIn' + b
    <4>1. Promised <= Promised
      BY <3>1
    <4>2. QED
      BY <2>1, <2>2, <2>3, <3>1, <4>1, StillWithin, Zenon
   <3>3. QED
     BY <2>1, <3>2, Zenon
  <2>5. OpenWithinMoney'
    BY <2>4 DEF OpenWithinMoney, CameIn
  <2>6. QED
    BY <1>1, <1>2, <2>5 DEF FundsInv
 <1>6. QED
   BY <1>4, <1>5

-----------------------------------------------------------------------------
(* What goes on meanwhile *)

(* An open order, and the row a deal or a cancellation makes of it. *)
LEMMA OpenRow ==
  ASSUME FundsInv, NEW dir, NEW i \in Open(dir)
  PROVE  /\ i \in OrderId /\ order[i] \in Row /\ IsOpen(order[i], dir)
         /\ order[i].created_at = today /\ order[i].direction = dir
         /\ today \in Nat /\ order[i].deal_volume <= order[i].volume
         /\ Left(order[i]) \in Nat /\ order[i].price \in Nat
         /\ order[i].volume \in Nat /\ order[i].deal_volume \in Nat
 <1>1. /\ i \in OrderId /\ order[i] # NoRow /\ order[i].direction = dir
       /\ order[i].status \in Live /\ order[i].created_at = today
   BY DEF Open, Orders
 <1>2. order[i] \in Row /\ order[i].deal_volume <= order[i].volume /\ today \in Nat
   BY <1>1 DEF FundsInv, TypeOK, RowsSound
 <1>3. QED
   BY <1>1, <1>2, RowLeft DEF IsOpen

LEMMA CancelKeeps ==
  ASSUME FundsInv, Cancel
  PROVE  FundsInv'
 <1>1. PICK dir \in Direction : \E i \in Open(dir) : order' = [order EXCEPT ![i].status = CancelStatus(@)]
   BY DEF Cancel, Direction
 <1>0. PICK i \in Open(dir) : order' = [order EXCEPT ![i].status = CancelStatus(@)]
   BY <1>1
 <1> DEFINE row == order[i]
            r == [row EXCEPT !.status = CancelStatus(row.status)]
 <1>2. /\ i \in OrderId /\ row \in Row /\ IsOpen(row, dir) /\ row.direction = dir
       /\ row.created_at = today /\ today \in Nat /\ row.deal_volume <= row.volume
   BY OpenRow
 <1>3. /\ r \in Row /\ r.created_at = today /\ r.deal_volume = row.deal_volume
       /\ r.volume = row.volume /\ r.status \notin Live
   BY <1>2 DEF Row, IsOpen, CancelStatus, Live, Status, Committed, PartialFinished,
               Closed, PartialClosed, Pending, Finished
 <1>4. order' = [order EXCEPT ![i] = r]
   BY <1>0
 <1> HIDE DEF r
 <1>5. UNCHANGED <<withdrawal, deposit, blocked, income, consumed, held, today, web>> /\ web.at = "idle"
   BY DEF Cancel, account
 <1>6. /\ InBuying' = InBuying - BuyingOf(row) + BuyingOf(r)
       /\ InSale' = InSale - SaleOf(row) + SaleOf(r)
       /\ IsFiniteSet({j \in OrderId : order'[j] # NoRow}) /\ RowsSound'
       /\ order' \in [OrderId -> Row \cup {NoRow}]
  <2>1. r.created_at <= today /\ r.deal_volume <= r.volume
    BY <1>2, <1>3
  <2>2. QED
    BY <1>2, <1>3, <1>4, <1>5, <2>1, OrderChanged DEF FundsInv
 <1>7. BuyingOf(r) = 0 /\ SaleOf(r) = 0
   BY <1>3 DEF BuyingOf, SaleOf, IsOpen
 <1>8. BuyingOf(row) \in Nat /\ SaleOf(row) \in Nat
   BY <1>2, RowLeft DEF BuyingOf, SaleOf
 <1>9. InBuying \in Nat /\ InSale \in Nat /\ Asked("pending") \in Nat /\ CameIn \in Nat /\ Net \in Int
   BY SumsTyped DEF FundsInv
 <1>10. /\ \A status : /\ Withdrawn(status)' = Withdrawn(status) /\ Asked(status)' = Asked(status)
                        /\ Negative(status)' = Negative(status)
        /\ Lent' = Lent /\ SumsSplit'
   BY <1>5, WithdrawalsKept DEF FundsInv
 <1>11. Promised' \in Int /\ Promised' <= Promised /\ InSale' \in Int
   BY <1>6, <1>7, <1>8, <1>9, <1>10 DEF Promised
 <1>12. CameIn' = CameIn /\ Net' = Net
   BY <1>5, <1>10 DEF CameIn, Net
 <1>13. TypeOK' /\ RowsFinite'
   BY <1>5, <1>6 DEF TypeOK, RowsFinite, FundsInv
 <1>14. AsksSound' /\ MoneyRead' /\ HoldingRead'
   BY <1>5 DEF AsksSound, MoneyRead, HoldingRead
 <1>15. OpenWithinMoney'
  <2>1. PICK b \in {0} \cup {BonusOf(a) : a \in Request} : Promised <= CameIn + b
    BY DEF FundsInv, OpenWithinMoney, CameIn
  <2>2. Promised \in Int /\ b \in Nat
    BY SumsTyped, NeedFacts DEF FundsInv
  <2>3. Promised' <= CameIn' + b
    BY <1>9, <1>11, <1>12, <2>1, <2>2
  <2>4. QED
    BY <2>3 DEF OpenWithinMoney, CameIn
 <1>16. QED
   BY <1>6, <1>10, <1>13, <1>14, <1>15 DEF FundsInv

(* A deal of v on an open order: what it does to the row and the sums. *)
LEMMA DealRow ==
  ASSUME FundsInv, NEW dir \in Direction, NEW i \in Open(dir), NEW v \in 1..Left(order[i]),
         order' = [order EXCEPT ![i] = Filled(@, v)], UNCHANGED today
  PROVE  /\ InBuying' = InBuying - (IF dir = "B" THEN Cost(v, order[i].price) ELSE 0)
         /\ InSale' = InSale - (IF dir = "S" THEN v ELSE 0)
         /\ IsFiniteSet({j \in OrderId : order'[j] # NoRow}) /\ RowsSound'
         /\ order' \in [OrderId -> Row \cup {NoRow}]
         /\ \A j \in OrderId : order[j] = NoRow => order'[j] = NoRow
 <1> DEFINE row == order[i]
            r == Filled(row, v)
 <1>1. /\ i \in OrderId /\ row \in Row /\ IsOpen(row, dir) /\ row.direction = dir
       /\ row.created_at = today /\ today \in Nat /\ row.deal_volume <= row.volume
       /\ Left(row) \in Nat /\ row.price \in Nat
       /\ row.volume \in Nat /\ row.deal_volume \in Nat
   BY OpenRow
 <1>2. v \in Nat /\ v <= Left(row)
   BY <1>1
 <1>3. /\ r \in Row /\ r.created_at = today /\ r.deal_volume = row.deal_volume + v
       /\ r.volume = row.volume /\ r.price = row.price /\ r.direction = dir
       /\ r.status = (IF v = Left(row) THEN Finished ELSE PartialFinished)
  <2>1. PICK s \in Status : s = (IF v = Left(row) THEN Finished ELSE PartialFinished)
    BY DEF Status
  <2>2. r = [row EXCEPT !.deal_volume = row.deal_volume + v, !.status = s]
    BY <2>1 DEF Filled, Fill
  <2>3. row.deal_volume + v \in Nat
    BY <1>1, <1>2
  <2>4. QED
    BY <1>1, <2>1, <2>2, <2>3 DEF Row
 <1>4. order' = [order EXCEPT ![i] = r]
   OBVIOUS
 <1>5. Left(row) = row.volume - row.deal_volume
   BY DEF Left
 <1> HIDE DEF r
 <1>6. r.created_at <= today /\ r.deal_volume <= r.volume /\ Left(r) = Left(row) - v
   BY <1>1, <1>2, <1>3, <1>5 DEF Left
 <1>7. /\ InBuying' = InBuying - BuyingOf(row) + BuyingOf(r)
       /\ InSale' = InSale - SaleOf(row) + SaleOf(r)
       /\ IsFiniteSet({j \in OrderId : order'[j] # NoRow}) /\ RowsSound'
       /\ order' \in [OrderId -> Row \cup {NoRow}]
       /\ \A j \in OrderId \ {i} : order'[j] = order[j]
   BY <1>1, <1>3, <1>4, <1>6, OrderChanged DEF FundsInv
 <1>8. order[i] # NoRow
   BY <1>1 DEF IsOpen
 <1>9. v = Left(row) => Cost(v, row.price) = Cost(Left(row), row.price)
   OBVIOUS
 <1>10. Cost(Left(row) - v, row.price) = Cost(Left(row), row.price) - Cost(v, row.price)
   BY <1>1, <1>2, CostFacts
 <1>11. Cost(Left(row), row.price) \in Nat /\ Cost(v, row.price) \in Nat
   BY <1>1, <1>2, CostFacts
 <1>12. IsOpen(r, dir) <=> v # Left(row)
   BY <1>3 DEF IsOpen, Live, Finished, PartialFinished, Committed
 <1>13. \A d : d # dir => ~IsOpen(r, d) /\ ~IsOpen(row, d)
   BY <1>1, <1>3 DEF IsOpen
 <1>14. InBuying \in Nat /\ InSale \in Nat
   BY SumsTyped DEF FundsInv
 <1>15. CASE dir = "B"
  <2>1. BuyingOf(row) = Cost(Left(row), row.price)
    BY <1>1, <1>15 DEF BuyingOf
  <2>2. BuyingOf(r) = Cost(Left(row), row.price) - Cost(v, row.price)
   <3>1. CASE v = Left(row)
     BY <1>9, <1>11, <1>12, <1>15, <3>1 DEF BuyingOf
   <3>2. CASE v # Left(row)
     BY <1>3, <1>6, <1>10, <1>12, <1>15, <3>2 DEF BuyingOf
   <3>3. QED
     BY <3>1, <3>2
  <2>3. SaleOf(row) = 0 /\ SaleOf(r) = 0
    BY <1>13, <1>15 DEF SaleOf
  <2>4. InBuying' = InBuying - Cost(v, row.price)
    BY <1>7, <1>11, <1>14, <2>1, <2>2
  <2>5. InSale' = InSale
    BY <1>7, <1>14, <2>3
  <2>6. QED
    BY <1>7, <1>8, <1>14, <1>15, <2>4, <2>5
 <1>16. CASE dir = "S"
  <2>1. SaleOf(row) = Left(row)
    BY <1>1, <1>16 DEF SaleOf
  <2>2. SaleOf(r) = Left(row) - v
    BY <1>1, <1>2, <1>6, <1>12, <1>16 DEF SaleOf
  <2>3. BuyingOf(row) = 0 /\ BuyingOf(r) = 0
    BY <1>13, <1>16 DEF BuyingOf
  <2>4. InSale' = InSale - v
    BY <1>1, <1>2, <1>7, <1>14, <2>1, <2>2
  <2>5. InBuying' = InBuying
    BY <1>7, <1>14, <2>3
  <2>6. QED
    BY <1>7, <1>8, <1>14, <1>16, <2>4, <2>5
 <1>17. QED
   BY <1>15, <1>16 DEF Direction

(* A buy order of the user is dealt: what is paid was promised at its      *)
(* limit, or more.                                                         *)
LEMMA BoughtKeeps ==
  ASSUME FundsInv, NEW i \in Open("B"), NEW pr \in Price, NEW v \in 1..Left(order[i]),
         Bought(i, v, pr)
  PROVE  FundsInv'
 <1> DEFINE paid == Cost(v, pr)
            promised == Cost(v, order[i].price)
 <1>1. /\ Left(order[i]) \in Nat /\ order[i].price \in Nat
   BY OpenRow
 <1>2. v \in Nat \ {0} /\ pr \in Nat /\ pr <= order[i].price
   BY <1>1 DEF Bought
 <1>3. paid \in Nat /\ promised \in Nat /\ paid <= promised
   BY <1>1, <1>2, CostFacts
 <1> HIDE DEF paid, promised
 <1>4. /\ UNCHANGED <<withdrawal, deposit, blocked, income, today>>
       /\ consumed' = consumed + paid /\ held' = held + v
       /\ web' = During("inUsing", promised)
       /\ order' = [order EXCEPT ![i] = Filled(@, v)]
   BY DEF Bought, paid, promised
 <1>5. /\ InBuying' = InBuying - promised /\ InSale' = InSale
       /\ IsFiniteSet({j \in OrderId : order'[j] # NoRow}) /\ RowsSound'
       /\ order' \in [OrderId -> Row \cup {NoRow}]
  <2>1. InSale \in Nat
    BY SumsTyped DEF FundsInv
  <2>2. "B" \in Direction
    BY DEF Direction
  <2>3. /\ InBuying' = InBuying - promised /\ InSale' = InSale - 0
        /\ IsFiniteSet({j \in OrderId : order'[j] # NoRow}) /\ RowsSound'
        /\ order' \in [OrderId -> Row \cup {NoRow}]
    BY <1>4, <2>2, DealRow DEF promised
  <2>4. QED
    BY <2>1, <2>3
 <1>6. /\ web'.at = web.at /\ web'.ask = web.ask
       /\ web'.kept = web.kept /\ web'.seen = web.seen
       /\ web'.moved = (IF web.at = "inUsing" THEN web.moved + promised ELSE web.moved)
       /\ web'.moved \in Nat /\ web' \in WebType
   BY <1>3, <1>4, DuringFields DEF FundsInv
 <1>7. /\ InBuying \in Nat /\ InSale \in Nat /\ Asked("pending") \in Nat
       /\ Withdrawn("finished") \in Int /\ CameIn \in Nat /\ Net \in Int
       /\ Lent \in Nat /\ Negative("pending") \in Nat
       /\ Scale * blocked \in Nat /\ consumed \in Nat /\ held \in Int /\ web.moved \in Nat
   BY SumsTyped, ProductNat DEF FundsInv, TypeOK
 <1>8. /\ \A status : /\ Withdrawn(status)' = Withdrawn(status) /\ Asked(status)' = Asked(status)
                       /\ Negative(status)' = Negative(status)
       /\ Lent' = Lent /\ SumsSplit'
   BY <1>4, WithdrawalsKept DEF FundsInv
 <1>9. Promised' = Promised - promised /\ Promised \in Nat
   BY <1>3, <1>5, <1>7, <1>8 DEF Promised
 <1>10. CameIn' = CameIn
   BY <1>4, <1>8 DEF CameIn
 <1>11. Net' = Net - paid
   BY <1>3, <1>4, <1>7, <1>8, <1>10 DEF Net
 <1>12. blocked' = blocked /\ Scale * blocked' = Scale * blocked
   BY <1>4
 <1>13. AsksSound' /\ MoneyRead' /\ HoldingRead' /\ OpenWithinMoney'
  <2>0. /\ Lent' = Lent /\ Negative("pending")' \in Int
        /\ Negative("pending")' <= Negative("pending")
    BY <1>7, <1>8
  <2>1. CameIn' \in Nat /\ Net' \in Int /\ Promised' \in Int /\ InSale' \in Int /\ held' \in Int
    BY <1>2, <1>3, <1>4, <1>5, <1>7, <1>9, <1>10, <1>11
  <2>2. CameIn <= CameIn' /\ Promised' <= Promised /\ Scale * blocked' \in Nat
    BY <1>3, <1>7, <1>9, <1>10, <1>12
  <2>3. web.at = "available" => Scale * blocked' - web'.moved <= Scale * blocked - web.moved
    BY <1>6, <1>7, <1>12
  <2>4. web.at = "inUsing" =>
         /\ Net + web.moved <= Net' + web'.moved
         /\ Net - Scale * blocked + web.moved <= Net' - Scale * blocked' + web'.moved
    BY <1>3, <1>6, <1>7, <1>11, <1>12
  <2>5. web.at = "insert" =>
         /\ Net - Promised + web.moved <= Net' - Promised' + web'.moved
         /\ Net - Promised - Scale * blocked + web.moved
              <= Net' - Promised' - Scale * blocked' + web'.moved
         /\ held - InSale + web.moved <= held' - InSale' + web'.moved
    BY <1>2, <1>3, <1>4, <1>5, <1>6, <1>7, <1>9, <1>11, <1>12
  <2>6. web.at = "inSale" => held + web.moved <= held' + web'.moved
    BY <1>2, <1>4, <1>6, <1>7
  <2>7. QED
    BY <1>6, <2>0, <2>1, <2>2, <2>3, <2>4, <2>5, <2>6, Meanwhile
 <1>14. TypeOK'
  <2>1. consumed' \in Nat /\ held' \in Int
    BY <1>2, <1>3, <1>4, <1>7
  <2>2. QED
    BY <1>4, <1>5, <1>6, <2>1 DEF TypeOK, FundsInv
 <1>15. RowsFinite'
   BY <1>4, <1>5 DEF RowsFinite, FundsInv
 <1>16. QED
   BY <1>5, <1>8, <1>13, <1>14, <1>15 DEF FundsInv

(* A sale of the user is dealt. *)
LEMMA SoldKeeps ==
  ASSUME FundsInv, NEW i \in Open("S"), NEW pr \in Price, NEW v \in 1..Left(order[i]),
         Sold(i, v, pr)
  PROVE  FundsInv'
 <1> DEFINE got == Proceeds(v, pr)
 <1>1. Left(order[i]) \in Nat
   BY OpenRow
 <1>2. v \in Nat \ {0} /\ pr \in Nat /\ got \in Nat
   BY <1>1, CostFacts
 <1> HIDE DEF got
 <1>3. /\ UNCHANGED <<withdrawal, deposit, blocked, consumed, today>>
       /\ income' = income + got /\ held' = held - v
       /\ web' = During("inSale", v)
       /\ order' = [order EXCEPT ![i] = Filled(@, v)]
   BY DEF Sold, got
 <1>4. /\ InBuying' = InBuying /\ InSale' = InSale - v
       /\ IsFiniteSet({j \in OrderId : order'[j] # NoRow}) /\ RowsSound'
       /\ order' \in [OrderId -> Row \cup {NoRow}]
  <2>1. InBuying \in Nat
    BY SumsTyped DEF FundsInv
  <2>2. "S" \in Direction
    BY DEF Direction
  <2>3. /\ InBuying' = InBuying - 0 /\ InSale' = InSale - v
        /\ IsFiniteSet({j \in OrderId : order'[j] # NoRow}) /\ RowsSound'
        /\ order' \in [OrderId -> Row \cup {NoRow}]
    BY <1>3, <2>2, DealRow
  <2>4. QED
    BY <2>1, <2>3
 <1>5. /\ web'.at = web.at /\ web'.ask = web.ask
       /\ web'.kept = web.kept /\ web'.seen = web.seen
       /\ web'.moved = (IF web.at = "inSale" THEN web.moved + v ELSE web.moved)
       /\ web'.moved \in Nat /\ web' \in WebType
   BY <1>2, <1>3, DuringFields DEF FundsInv
 <1>6. /\ InBuying \in Nat /\ InSale \in Nat /\ Asked("pending") \in Nat
       /\ Lent \in Nat /\ Negative("pending") \in Nat
       /\ Withdrawn("finished") \in Int /\ CameIn \in Nat /\ Net \in Int
       /\ Scale * blocked \in Nat /\ Scale * deposit \in Nat /\ income \in Nat
       /\ consumed \in Nat /\ held \in Int /\ web.moved \in Nat
   BY SumsTyped, ProductNat DEF FundsInv, TypeOK
 <1>7. /\ \A status : /\ Withdrawn(status)' = Withdrawn(status) /\ Asked(status)' = Asked(status)
                       /\ Negative(status)' = Negative(status)
       /\ Lent' = Lent /\ SumsSplit'
   BY <1>3, WithdrawalsKept DEF FundsInv
 <1>8. Promised' = Promised /\ Promised \in Nat
   BY <1>4, <1>6, <1>7 DEF Promised
 <1>9. CameIn' = CameIn + got
   BY <1>2, <1>3, <1>6, <1>7 DEF CameIn
 <1>10. Net' = Net + got
   BY <1>2, <1>3, <1>6, <1>7, <1>9 DEF Net
 <1>11. blocked' = blocked /\ Scale * blocked' = Scale * blocked
   BY <1>3
 <1>12. AsksSound' /\ MoneyRead' /\ HoldingRead' /\ OpenWithinMoney'
  <2>0. /\ Lent' = Lent /\ Negative("pending")' \in Int
        /\ Negative("pending")' <= Negative("pending")
    BY <1>6, <1>7
  <2>1. CameIn' \in Nat /\ Net' \in Int /\ Promised' \in Int /\ InSale' \in Int /\ held' \in Int
    BY <1>2, <1>3, <1>4, <1>6, <1>8, <1>9, <1>10
  <2>2. CameIn <= CameIn' /\ Promised' <= Promised /\ Scale * blocked' \in Nat
    BY <1>2, <1>6, <1>8, <1>9, <1>11
  <2>3. web.at = "available" => Scale * blocked' - web'.moved <= Scale * blocked - web.moved
    BY <1>5, <1>6, <1>11
  <2>4. web.at = "inUsing" =>
         /\ Net + web.moved <= Net' + web'.moved
         /\ Net - Scale * blocked + web.moved <= Net' - Scale * blocked' + web'.moved
    BY <1>2, <1>5, <1>6, <1>10, <1>11
  <2>5. web.at = "insert" =>
         /\ Net - Promised + web.moved <= Net' - Promised' + web'.moved
         /\ Net - Promised - Scale * blocked + web.moved
              <= Net' - Promised' - Scale * blocked' + web'.moved
         /\ held - InSale + web.moved <= held' - InSale' + web'.moved
    BY <1>2, <1>3, <1>4, <1>5, <1>6, <1>8, <1>10, <1>11
  <2>6. web.at = "inSale" => held + web.moved <= held' + web'.moved
    BY <1>2, <1>3, <1>5, <1>6
  <2>7. QED
    BY <1>5, <2>0, <2>1, <2>2, <2>3, <2>4, <2>5, <2>6, Meanwhile
 <1>13. TypeOK'
  <2>1. income' \in Nat /\ held' \in Int
    BY <1>2, <1>3, <1>6
  <2>2. QED
    BY <1>3, <1>4, <1>5, <2>1 DEF TypeOK, FundsInv
 <1>14. RowsFinite'
   BY <1>3, <1>4 DEF RowsFinite, FundsInv
 <1>15. QED
   BY <1>4, <1>7, <1>12, <1>13, <1>14 DEF FundsInv

(* A pending withdrawal is paid out or refused. *)
LEMMA WithdrawalEnds ==
  ASSUME FundsInv, NEW w \in WithdrawId, withdrawal[w] # NoRow, withdrawal[w].status = "pending",
         NEW s \in {"finished", "refused"},
         withdrawal' = [withdrawal EXCEPT ![w].status = s],
         UNCHANGED <<order, account, today>>,
         web' = During("inUsing", IF s = "finished" THEN Scale * Positive(withdrawal[w].amount) ELSE 0)
  PROVE  FundsInv' /\ \A u \in WithdrawId : withdrawal[u] = NoRow => withdrawal'[u] = NoRow
 <1> DEFINE row == withdrawal[w]
            r == [row EXCEPT !.status = s]
            amount == Scale * Positive(row.amount)
            lent == Scale * Positive(-row.amount)
            paid == IF s = "finished" THEN amount ELSE 0
            back == IF s = "finished" THEN lent ELSE 0
 <1>1. row \in WithdrawRow
   BY DEF FundsInv, TypeOK
 <1>2. /\ r \in WithdrawRow /\ r.amount = row.amount /\ r.status = s
       /\ row.amount \in Int
   BY <1>1 DEF WithdrawRow, WithdrawStatus
 <1>3. withdrawal' = [withdrawal EXCEPT ![w] = r]
   OBVIOUS
 <1>4. AmountOf(row, "pending") = row.amount /\ AmountOf(row, "finished") = 0 /\ AmountOf(row, "refused") = 0
   BY DEF AmountOf
 <1>5. r # NoRow
   BY <1>2
 <1> HIDE DEF r
 <1>6. /\ AmountOf(r, "pending") = 0
       /\ AmountOf(r, "finished") = (IF s = "finished" THEN row.amount ELSE 0)
       /\ AmountOf(r, "refused") = (IF s = "finished" THEN 0 ELSE row.amount)
   BY <1>2, <1>5 DEF AmountOf
 <1>7. /\ \A status :
            /\ Withdrawn(status)'
                 = Withdrawn(status) - Scale * AmountOf(row, status) + Scale * AmountOf(r, status)
            /\ Asked(status)'
                 = Asked(status) - Scale * Positive(AmountOf(row, status))
                                 + Scale * Positive(AmountOf(r, status))
            /\ Negative(status)'
                 = Negative(status) - Scale * Positive(-AmountOf(row, status))
                                    + Scale * Positive(-AmountOf(r, status))
       /\ SumsSplit'
       /\ IsFiniteSet({u \in WithdrawId : withdrawal'[u] # NoRow})
       /\ withdrawal' \in [WithdrawId -> WithdrawRow \cup {NoRow}]
       /\ \A u \in WithdrawId \ {w} : withdrawal'[u] = withdrawal[u]
   BY <1>2, <1>3, WithdrawalChanged DEF FundsInv
 <1>8. /\ amount \in Nat /\ paid \in Nat /\ paid <= amount /\ lent \in Nat /\ back \in Nat
       /\ Scale * row.amount = amount - lent
  <2>1. Positive(row.amount) \in Nat /\ Positive(-row.amount) \in Nat
    BY <1>2 DEF Positive
  <2>2. row.amount = Positive(row.amount) - Positive(-row.amount)
    BY <1>2 DEF Positive
  <2>3. Scale * row.amount = amount - lent
   <3>1. Scale * (Positive(row.amount) - Positive(-row.amount)) = amount - lent
     BY <2>1, ScaledInt
   <3>2. QED
     BY <2>2, <3>1, Zenon
  <2>4. QED
    BY <2>1, <2>3, ProductNat
 <1>9. Scale * 0 = 0 /\ Positive(0) = 0 /\ Positive(-0) = 0
   BY DEF Positive
 <1>10. web' = During("inUsing", paid)
   OBVIOUS
 <1>a. /\ Withdrawn("finished")' = Withdrawn("finished") - 0 + (IF s = "finished" THEN Scale * row.amount ELSE 0)
       /\ Asked("pending")' = Asked("pending") - amount + 0
       /\ Negative("pending")' = Negative("pending") - lent + 0
       /\ Negative("finished")' = Negative("finished") - 0 + (IF s = "finished" THEN lent ELSE 0)
       /\ Negative("refused")' = Negative("refused") - 0 + (IF s = "finished" THEN 0 ELSE lent)
   BY <1>4, <1>6, <1>7, <1>9
 <1>b. /\ paid = (IF s = "finished" THEN amount ELSE 0) /\ back = (IF s = "finished" THEN lent ELSE 0)
       /\ (IF s = "finished" THEN Scale * row.amount ELSE 0) = paid - back
   BY <1>8
 <1> HIDE DEF amount, paid, row, lent, back
 <1>11. /\ InBuying \in Nat /\ InSale \in Nat /\ Asked("pending") \in Nat
        /\ Negative("pending") \in Nat /\ Negative("refused") \in Nat
        /\ Negative("finished") \in Nat /\ Lent \in Nat
        /\ Withdrawn("finished") \in Int /\ CameIn \in Nat /\ Net \in Int
        /\ Scale * deposit \in Nat /\ income \in Nat
        /\ Scale * blocked \in Nat /\ consumed \in Nat /\ held \in Int /\ web.moved \in Nat
   BY SumsTyped, ProductNat DEF FundsInv, TypeOK
 <1>12. UNCHANGED <<order, deposit, blocked, income, consumed, held, today>>
   BY DEF account
 <1>13. /\ InBuying' = InBuying /\ InSale' = InSale
        /\ {i \in OrderId : order'[i] # NoRow} = {i \in OrderId : order[i] # NoRow}
        /\ RowsSound' = RowsSound
   BY <1>12, OrdersKept DEF SameOrders
 <1>14. /\ Asked("pending")' = Asked("pending") - amount
        /\ Negative("pending")' = Negative("pending") - lent
        /\ Withdrawn("finished")' = Withdrawn("finished") + paid - back
   BY <1>8, <1>11, <1>a, <1>b
 <1>15. Lent' = Lent
   BY <1>8, <1>11, <1>14, <1>a DEF Lent
 <1>16. Promised' = Promised - amount /\ Promised \in Nat
   BY <1>8, <1>11, <1>13, <1>14 DEF Promised
 <1>17. CameIn' = CameIn
   BY <1>12, <1>15 DEF CameIn
 <1>18. Net' = Net - paid + back
   BY <1>8, <1>11, <1>12, <1>14, <1>17 DEF Net
 <1>19. blocked' = blocked /\ Scale * blocked' = Scale * blocked /\ held' = held
   BY <1>12
 <1>20. /\ web'.at = web.at /\ web'.ask = web.ask
        /\ web'.kept = web.kept /\ web'.seen = web.seen
        /\ web'.moved = (IF web.at = "inUsing" THEN web.moved + paid ELSE web.moved)
        /\ web'.moved \in Nat /\ web' \in WebType
   BY <1>8, <1>10, DuringFields DEF FundsInv
 <1>21. AsksSound' /\ MoneyRead' /\ HoldingRead' /\ OpenWithinMoney'
  <2>0. /\ Lent' = Lent /\ Negative("pending")' \in Int
        /\ Negative("pending")' <= Negative("pending")
    BY <1>8, <1>11, <1>14, <1>15
  <2>1. CameIn' \in Nat /\ Net' \in Int /\ Promised' \in Int /\ InSale' \in Int /\ held' \in Int
    BY <1>8, <1>11, <1>13, <1>16, <1>17, <1>18, <1>19
  <2>2. CameIn <= CameIn' /\ Promised' <= Promised /\ Scale * blocked' \in Nat
    BY <1>8, <1>11, <1>16, <1>17, <1>19
  <2>3. web.at = "available" => Scale * blocked' - web'.moved <= Scale * blocked - web.moved
    BY <1>11, <1>19, <1>20
  <2>4. web.at = "inUsing" =>
         /\ Net + web.moved <= Net' + web'.moved
         /\ Net - Scale * blocked + web.moved <= Net' - Scale * blocked' + web'.moved
    BY <1>8, <1>11, <1>18, <1>19, <1>20
  <2>5. web.at = "insert" =>
         /\ Net - Promised + web.moved <= Net' - Promised' + web'.moved
         /\ Net - Promised - Scale * blocked + web.moved
              <= Net' - Promised' - Scale * blocked' + web'.moved
         /\ held - InSale + web.moved <= held' - InSale' + web'.moved
    BY <1>8, <1>11, <1>13, <1>16, <1>18, <1>19, <1>20
  <2>6. web.at = "inSale" => held + web.moved <= held' + web'.moved
    BY <1>11, <1>19, <1>20
  <2>7. QED
    BY <1>20, <2>0, <2>1, <2>2, <2>3, <2>4, <2>5, <2>6, Meanwhile
 <1>22. TypeOK'
   BY <1>7, <1>12, <1>20 DEF TypeOK, FundsInv
 <1>23. RowsFinite' /\ RowsSound'
   BY <1>7, <1>13 DEF RowsFinite, FundsInv
 <1>24. QED
   BY <1>7, <1>21, <1>22, <1>23 DEF FundsInv

LEMMA DepositKeeps ==
  ASSUME FundsInv, Deposit
  PROVE  FundsInv'
 <1>1. PICK m \in Deposits, free \in CanWithdraw :
         /\ deposit' = deposit + m
         /\ blocked' = (IF free THEN blocked ELSE blocked + m)
         /\ web' = (IF free THEN web ELSE During("available", Scale * m))
   BY DEF Deposit
 <1>2. /\ m \in Nat \ {0} /\ free \in BOOLEAN /\ deposit \in Nat
       /\ blocked \in Nat /\ blocked <= deposit
   BY DEF FundsInv, TypeOK
 <1> DEFINE more == Scale * m
            kept == IF free THEN 0 ELSE more
 <1>3. /\ more \in Nat /\ kept \in Nat /\ kept <= more
       /\ Scale * (deposit + m) = Scale * deposit + more
       /\ Scale * (blocked + m) = Scale * blocked + more
       /\ Scale * deposit \in Nat /\ Scale * blocked \in Nat
   BY <1>2, ProductNat
 <1>4. Scale * deposit' = Scale * deposit + more /\ Scale * blocked' = Scale * blocked + kept
   BY <1>1, <1>2, <1>3
 <1>5. /\ web'.at = web.at /\ web'.ask = web.ask
       /\ web'.kept = web.kept /\ web'.seen = web.seen
       /\ web'.moved = (IF web.at = "available" THEN web.moved + kept ELSE web.moved)
       /\ web'.moved \in Nat /\ web' \in WebType
  <2>1. CASE free
   <3>1. web' = web /\ kept = 0 /\ web \in WebType
     BY <1>1, <2>1 DEF FundsInv, TypeOK
   <3>2. QED
     BY <3>1
  <2>2. CASE ~free
   <3>1. web' = During("available", kept)
     BY <1>1, <2>2
   <3> HIDE DEF kept
   <3>2. QED
     BY <1>3, <3>1, DuringFields DEF FundsInv
  <2>3. QED
    BY <2>1, <2>2
 <1>6. TypeOK'
  <2>1. deposit' \in Nat /\ blocked' \in 0..deposit'
    BY <1>1, <1>2
  <2>2. QED
    BY <1>5, <2>1 DEF Deposit, TypeOK, FundsInv
 <1> HIDE DEF more, kept
 <1>7. UNCHANGED <<order, withdrawal, income, consumed, held, today>>
   BY DEF Deposit
 <1>8. /\ InBuying \in Nat /\ InSale \in Nat /\ Asked("pending") \in Nat
       /\ Lent \in Nat /\ Negative("pending") \in Nat
       /\ Withdrawn("finished") \in Int /\ CameIn \in Nat /\ Net \in Int /\ income \in Nat
       /\ consumed \in Nat /\ held \in Int /\ web.moved \in Nat
   BY SumsTyped DEF FundsInv, TypeOK
 <1>9. /\ InBuying' = InBuying /\ InSale' = InSale /\ RowsSound' = RowsSound
       /\ {i \in OrderId : order'[i] # NoRow} = {i \in OrderId : order[i] # NoRow}
       /\ \A status : /\ Withdrawn(status)' = Withdrawn(status) /\ Asked(status)' = Asked(status)
                      /\ Negative(status)' = Negative(status)
       /\ Lent' = Lent /\ SumsSplit' = SumsSplit
   BY <1>7, OrdersKept, WithdrawalsKept DEF SameOrders
 <1>10. Promised' = Promised /\ Promised \in Nat
   BY <1>8, <1>9 DEF Promised
 <1>11. CameIn' = CameIn + more
   BY <1>3, <1>4, <1>7, <1>8, <1>9 DEF CameIn
 <1>12. Net' = Net + more
   BY <1>3, <1>7, <1>8, <1>9, <1>11 DEF Net
 <1>13. AsksSound' /\ MoneyRead' /\ HoldingRead' /\ OpenWithinMoney'
  <2>0. /\ Lent' = Lent /\ Negative("pending")' \in Int
        /\ Negative("pending")' <= Negative("pending")
    BY <1>8, <1>9
  <2>1. CameIn' \in Nat /\ Net' \in Int /\ Promised' \in Int /\ InSale' \in Int /\ held' \in Int
    BY <1>3, <1>7, <1>8, <1>9, <1>10, <1>11, <1>12
  <2>2. CameIn <= CameIn' /\ Promised' <= Promised /\ Scale * blocked' \in Nat
    BY <1>3, <1>4, <1>8, <1>10, <1>11
  <2>3. web.at = "available" => Scale * blocked' - web'.moved <= Scale * blocked - web.moved
    BY <1>3, <1>4, <1>5, <1>8
  <2>4. web.at = "inUsing" =>
         /\ Net + web.moved <= Net' + web'.moved
         /\ Net - Scale * blocked + web.moved <= Net' - Scale * blocked' + web'.moved
    BY <1>3, <1>4, <1>5, <1>8, <1>12
  <2>5. web.at = "insert" =>
         /\ Net - Promised + web.moved <= Net' - Promised' + web'.moved
         /\ Net - Promised - Scale * blocked + web.moved
              <= Net' - Promised' - Scale * blocked' + web'.moved
         /\ held - InSale + web.moved <= held' - InSale' + web'.moved
    BY <1>3, <1>4, <1>5, <1>7, <1>8, <1>9, <1>10, <1>12
  <2>6. web.at = "inSale" => held + web.moved <= held' + web'.moved
    BY <1>5, <1>7, <1>8
  <2>7. QED
    BY <1>5, <2>0, <2>1, <2>2, <2>3, <2>4, <2>5, <2>6, Meanwhile
 <1>14. RowsFinite' /\ RowsSound' /\ SumsSplit'
   BY <1>7, <1>9 DEF RowsFinite, FundsInv
 <1>15. QED
   BY <1>6, <1>13, <1>14 DEF FundsInv

LEMMA GrantKeeps ==
  ASSUME FundsInv, Grant
  PROVE  FundsInv'
 <1>1. PICK v \in Grants : held' = held + v
   BY DEF Grant
 <1>2. UNCHANGED <<order, withdrawal, deposit, blocked, income, consumed, today, web>>
   BY DEF Grant
 <1>3. v \in Nat /\ held \in Int
   BY DEF FundsInv, TypeOK
 <1>4. held' \in Int /\ held <= held'
   BY <1>1, <1>3
 <1>5. /\ InBuying' = InBuying /\ InSale' = InSale /\ RowsSound' = RowsSound
       /\ {i \in OrderId : order'[i] # NoRow} = {i \in OrderId : order[i] # NoRow}
       /\ \A status : /\ Withdrawn(status)' = Withdrawn(status) /\ Asked(status)' = Asked(status)
                      /\ Negative(status)' = Negative(status)
       /\ Lent' = Lent /\ SumsSplit' = SumsSplit
   BY <1>2, OrdersKept, WithdrawalsKept DEF SameOrders
 <1>6. CameIn' = CameIn /\ Net' = Net /\ Promised' = Promised /\ Scale * blocked' = Scale * blocked
   BY <1>2, <1>5 DEF CameIn, Net, Promised
 <1>7. /\ Lent \in Nat /\ Negative("pending") \in Nat
       /\ Promised \in Nat /\ InSale \in Nat /\ CameIn \in Nat /\ Net \in Int
       /\ Scale * blocked \in Nat /\ web.moved \in Nat
   BY SumsTyped, ProductNat DEF FundsInv, TypeOK
 <1>8. AsksSound' /\ MoneyRead' /\ HoldingRead' /\ OpenWithinMoney'
  <2>0. /\ Lent' = Lent /\ Negative("pending")' \in Int
        /\ Negative("pending")' <= Negative("pending")
    BY <1>5, <1>7
  <2>1. /\ web'.at = web.at /\ web'.ask = web.ask /\ web'.kept = web.kept
        /\ web'.seen = web.seen /\ web'.moved = web.moved
    BY <1>2
  <2>2. web.at = "insert" => held - InSale + web.moved <= held' - InSale' + web'.moved
    BY <1>3, <1>4, <1>5, <1>7, <2>1
  <2>3. web.at = "inSale" => held + web.moved <= held' + web'.moved
    BY <1>3, <1>4, <1>7, <2>1
  <2>4. /\ CameIn' \in Nat /\ Net' \in Int /\ Promised' \in Int /\ InSale' \in Int
        /\ CameIn <= CameIn' /\ Promised' <= Promised /\ Scale * blocked' \in Nat /\ web'.moved \in Nat
    BY <1>5, <1>6, <1>7, <2>1
  <2>5. /\ Scale * blocked' - web'.moved <= Scale * blocked - web.moved
        /\ Net + web.moved <= Net' + web'.moved
        /\ Net - Scale * blocked + web.moved <= Net' - Scale * blocked' + web'.moved
        /\ Net - Promised + web.moved <= Net' - Promised' + web'.moved
        /\ Net - Promised - Scale * blocked + web.moved
             <= Net' - Promised' - Scale * blocked' + web'.moved
    BY <1>6, <1>7, <2>1
  <2>6. QED
    BY <1>4, <2>0, <2>1, <2>2, <2>3, <2>4, <2>5, Meanwhile
 <1>9. TypeOK' /\ RowsFinite' /\ RowsSound' /\ SumsSplit'
   BY <1>2, <1>4, <1>5 DEF TypeOK, RowsFinite, FundsInv
 <1>10. QED
   BY <1>8, <1>9 DEF FundsInv

(* The next day no order is open yet. *)
LEMMA NextDayKeeps ==
  ASSUME FundsInv, NextDay
  PROVE  FundsInv'
 <1>1. /\ today' = today + 1 /\ today \in Nat /\ today' \in 0..MaxDay
       /\ UNCHANGED <<order, withdrawal, deposit, blocked, income, consumed, held, web>>
   BY DEF NextDay, account, FundsInv, TypeOK
 <1>2. ASSUME NEW dir PROVE Open(dir)' = {}
  <2>1. \A i \in OrderId : order[i] # NoRow => order[i] \in Row /\ order[i].created_at <= today
    BY DEF FundsInv, TypeOK, RowsSound
  <2>2. \A i \in OrderId : order[i] # NoRow => order[i].created_at \in Nat
    BY <2>1 DEF Row
  <2>3. \A i \in OrderId : order[i] # NoRow => order[i].created_at # today'
    BY <1>1, <2>1, <2>2
  <2>4. QED
    BY <1>1, <2>3 DEF Open, Orders
 <1>3. InBuying' = 0 /\ InSale' = 0
  <2>1. DOMAIN [i \in Open("B")' |-> Cost(Left(order'[i]), order'[i].price)] = {}
    BY <1>2
  <2>2. DOMAIN [i \in Open("S")' |-> Left(order'[i])] = {}
    BY <1>2
  <2>3. SumFunction([i \in Open("B")' |-> Cost(Left(order'[i]), order'[i].price)]) = 0
    BY <2>1, SumOfNone
  <2>4. SumFunction([i \in Open("S")' |-> Left(order'[i])]) = 0
    BY <2>2, SumOfNone
  <2>5. QED
    BY <2>3, <2>4 DEF InBuying, InSale, Cost, Left
 <1>4. /\ Lent \in Nat /\ Negative("pending") \in Nat
       /\ InBuying \in Nat /\ InSale \in Nat /\ Asked("pending") \in Nat
       /\ CameIn \in Nat /\ Net \in Int /\ Scale * blocked \in Nat
       /\ held \in Int /\ web.moved \in Nat
   BY SumsTyped, ProductNat DEF FundsInv, TypeOK
 <1>5. /\ \A status : /\ Withdrawn(status)' = Withdrawn(status) /\ Asked(status)' = Asked(status)
                       /\ Negative(status)' = Negative(status)
       /\ Lent' = Lent /\ SumsSplit'
   BY <1>1, WithdrawalsKept DEF FundsInv
 <1>6. Promised' \in Int /\ Promised' <= Promised /\ Promised \in Int
   BY <1>3, <1>4, <1>5 DEF Promised
 <1>7. CameIn' = CameIn /\ Net' = Net /\ Scale * blocked' = Scale * blocked
   BY <1>1, <1>5 DEF CameIn, Net
 <1>8. AsksSound' /\ MoneyRead' /\ HoldingRead' /\ OpenWithinMoney'
  <2>0. /\ Lent' = Lent /\ Negative("pending")' \in Int
        /\ Negative("pending")' <= Negative("pending")
    BY <1>4, <1>5
  <2>1. /\ web'.at = web.at /\ web'.ask = web.ask /\ web'.kept = web.kept
        /\ web'.seen = web.seen /\ web'.moved = web.moved /\ held' = held
    BY <1>1
  <2>2. /\ CameIn' \in Nat /\ Net' \in Int /\ InSale' \in Int /\ held' \in Int
        /\ CameIn <= CameIn' /\ Scale * blocked' \in Nat /\ web'.moved \in Nat
    BY <1>3, <1>4, <1>7, <2>1
  <2>3. /\ Scale * blocked' - web'.moved <= Scale * blocked - web.moved
        /\ Net + web.moved <= Net' + web'.moved
        /\ Net - Scale * blocked + web.moved <= Net' - Scale * blocked' + web'.moved
        /\ held + web.moved <= held' + web'.moved
    BY <1>4, <1>7, <2>1
  <2>4. /\ Net - Promised + web.moved <= Net' - Promised' + web'.moved
        /\ Net - Promised - Scale * blocked + web.moved
             <= Net' - Promised' - Scale * blocked' + web'.moved
        /\ held - InSale + web.moved <= held' - InSale' + web'.moved
    BY <1>3, <1>4, <1>6, <1>7, <2>1
  <2>5. QED
    BY <1>6, <2>0, <2>1, <2>2, <2>3, <2>4, Meanwhile
 <1>9. RowsSound'
  <2>1. \A i \in OrderId : order[i] # NoRow => order[i].created_at \in Nat /\ order[i].created_at <= today
    BY DEF FundsInv, TypeOK, RowsSound, Row
  <2>2. \A i \in OrderId : order[i] # NoRow => order[i].created_at <= today'
    BY <1>1, <2>1
  <2>3. QED
    BY <1>1, <2>2 DEF RowsSound, FundsInv
 <1>10. TypeOK' /\ RowsFinite'
   BY <1>1 DEF TypeOK, RowsFinite, FundsInv
 <1>11. QED
   BY <1>5, <1>8, <1>9, <1>10 DEF FundsInv

-----------------------------------------------------------------------------
(* The theorems *)

LEMMA InitSound == Init => FundsInv
 <1> SUFFICES ASSUME Init PROVE FundsInv
   OBVIOUS
 <1>1. /\ order = [i \in OrderId |-> NoRow] /\ withdrawal = [w \in WithdrawId |-> NoRow]
       /\ deposit = 0 /\ blocked = 0 /\ income = 0 /\ consumed = 0
       /\ held = Frozen /\ today = 0 /\ web = IdleWeb
   BY DEF Init
 <1>2. TypeOK
   BY <1>1 DEF TypeOK, IdleWeb
 <1>3. RowsFinite
  <2>1. {i \in OrderId : order[i] # NoRow} = {} /\ {w \in WithdrawId : withdrawal[w] # NoRow} = {}
    BY <1>1
  <2>2. QED
    BY <2>1, FS_EmptySet DEF RowsFinite
 <1>4. RowsSound
   BY <1>1 DEF RowsSound
 <1>5. AsksSound /\ MoneyRead /\ HoldingRead
   BY <1>1 DEF AsksSound, MoneyRead, HoldingRead, IdleWeb
 <1>6. Open("B") = {} /\ \A status : Withdrawals(status) = {}
   BY <1>1 DEF Open, Orders, Withdrawals
 <1>7. Promised = 0 /\ Lent = 0 /\ SumsSplit
  <2>1. DOMAIN [i \in Open("B") |-> Cost(Left(order[i]), order[i].price)] = {}
    BY <1>6
  <2>2. \A f : DOMAIN f = {} => SumFunction(f) = 0
    BY SumOfNone
  <2>3. InBuying = 0
    BY <2>1, SumOfNone DEF InBuying
  <2>4. \A status : /\ Withdrawn(status) = Scale * 0 /\ Asked(status) = Scale * 0
                     /\ Negative(status) = Scale * 0
    BY <1>6, <2>2 DEF Withdrawn, Asked, Negative
  <2>5. Scale * 0 = 0
    OBVIOUS
  <2>6. QED
    BY <2>3, <2>4, <2>5 DEF Promised, Lent, SumsSplit
 <1>8. OpenWithinMoney
  <2>1. Promised <= Scale * deposit + income + Lent + 0
    BY <1>1, <1>7
  <2>2. QED
    BY <2>1 DEF OpenWithinMoney
 <1>9. QED
   BY <1>2, <1>3, <1>4, <1>5, <1>7, <1>8 DEF FundsInv

LEMMA StutterKeeps ==
  ASSUME FundsInv, UNCHANGED vars
  PROVE  FundsInv'
 <1>1. /\ UNCHANGED <<order, withdrawal, account, today, web>>
       /\ UNCHANGED <<deposit, blocked, income, consumed, held>>
   BY DEF vars, account
 <1>2. web' \in WebType
   BY <1>1 DEF FundsInv, TypeOK
 <1>3. /\ CameIn' = CameIn /\ Net' = Net /\ Promised' = Promised /\ InSale' = InSale
       /\ Lent' = Lent /\ Negative("pending")' = Negative("pending")
       /\ held' = held /\ blocked' = blocked
       /\ TypeOK' /\ RowsFinite' /\ RowsSound' /\ SumsSplit' /\ OpenWithinMoney'
   BY <1>1, <1>2, OnlyWeb
 <1>4. AsksSound'
   BY <1>1 DEF AsksSound, FundsInv, Pays, Buys, Sells
 <1>5. MoneyRead'
   BY <1>1, <1>3 DEF MoneyRead, FundsInv, Pays, Buys, Need
 <1>6. HoldingRead'
   BY <1>1, <1>3 DEF HoldingRead, FundsInv, Sells
 <1>7. QED
   BY <1>3, <1>4, <1>5, <1>6 DEF FundsInv

LEMMA PayWithdrawalKeeps ==
  ASSUME FundsInv, PayWithdrawal
  PROVE  FundsInv' /\ \A u \in WithdrawId : withdrawal[u] = NoRow => withdrawal'[u] = NoRow
 <1>1. PICK w \in WithdrawId :
         /\ withdrawal[w] # NoRow /\ withdrawal[w].status = "pending"
         /\ withdrawal' = [withdrawal EXCEPT ![w].status = "finished"]
         /\ web' = During("inUsing", Scale * Positive(withdrawal[w].amount))
   BY DEF PayWithdrawal
 <1>2. UNCHANGED <<order, account, today>>
   BY DEF PayWithdrawal
 <1>3. QED
   BY <1>1, <1>2, WithdrawalEnds

LEMMA RefuseWithdrawalKeeps ==
  ASSUME FundsInv, RefuseWithdrawal
  PROVE  FundsInv' /\ \A u \in WithdrawId : withdrawal[u] = NoRow => withdrawal'[u] = NoRow
 <1>1. PICK w \in WithdrawId :
         /\ withdrawal[w] # NoRow /\ withdrawal[w].status = "pending"
         /\ withdrawal' = [withdrawal EXCEPT ![w].status = "refused"]
   BY DEF RefuseWithdrawal
 <1>2. UNCHANGED <<order, account, today>> /\ web' = web
   BY DEF RefuseWithdrawal
 <1>3. web' = During("inUsing", 0)
  <2>1. web \in WebType
    BY DEF FundsInv, TypeOK
  <2>2. web = [web EXCEPT !.moved = web.moved + 0]
    BY <2>1
  <2>3. QED
    BY <1>2, <2>2 DEF During
 <1>4. QED
   BY <1>1, <1>2, <1>3, WithdrawalEnds

(* Only the commit of a request adds a row. *)
LEMMA NoRowAdded ==
  ASSUME FundsInv, [Next]_vars, ~InsertOrder, ~InsertWithdrawal
  PROVE  /\ \A i \in OrderId : order[i] = NoRow => order'[i] = NoRow
         /\ \A w \in WithdrawId : withdrawal[w] = NoRow => withdrawal'[w] = NoRow
 <1>1. CASE UNCHANGED <<order, withdrawal>>
   BY <1>1
 <1>2. CASE Cancel
  <2>1. PICK i \in OrderId : order[i] # NoRow /\ \E r : order' = [order EXCEPT ![i] = r]
    BY <1>2 DEF Cancel, Open, Orders
  <2>2. QED
    BY <1>2, <2>1 DEF Cancel, FundsInv, TypeOK
 <1>3. CASE Match
  <2>1. PICK i \in OrderId : order[i] # NoRow /\ \E r : order' = [order EXCEPT ![i] = r]
    BY <1>3 DEF Match, Bought, Sold, Open, Orders
  <2>2. withdrawal' = withdrawal
    BY <1>3 DEF Match, Bought, Sold
  <2>3. QED
    BY <2>1, <2>2 DEF FundsInv, TypeOK
 <1>4. CASE PayWithdrawal
   BY <1>4, PayWithdrawalKeeps DEF PayWithdrawal
 <1>5. CASE RefuseWithdrawal
   BY <1>5, RefuseWithdrawalKeeps DEF RefuseWithdrawal
 <1>6. QED
   BY <1>1, <1>2, <1>3, <1>4, <1>5
      DEF Next, WebStep, BackOffice, CheckBuy, CheckWithdraw, ReadAvailable, Admit, CheckSale,
          AdmitSale, RequestFails, Deposit, Grant, NextDay, vars

(* The inductive invariant holds of every reachable state. *)
LEMMA NextKeeps ==
  FundsInv /\ [Next]_vars => FundsInv'
 <1> SUFFICES ASSUME FundsInv, [Next]_vars PROVE FundsInv'
   OBVIOUS
 <1>1. CASE WebStep
  <2>1. CASE RequestFails
    BY <2>1, IdleKeeps DEF RequestFails
  <2>2. QED
    BY <1>1, <2>1, CheckBuyKeeps, CheckWithdrawKeeps, ReadAvailableKeeps, AdmitKeeps,
       CheckSaleKeeps, AdmitSaleKeeps, InsertOrderKeeps, InsertWithdrawalKeeps, CancelKeeps
       DEF WebStep
 <1>2. CASE Match
   BY <1>2, BoughtKeeps, SoldKeeps DEF Match
 <1>3. CASE BackOffice
   BY <1>3, PayWithdrawalKeeps, RefuseWithdrawalKeeps, DepositKeeps, GrantKeeps DEF BackOffice
 <1>4. CASE NextDay
   BY <1>4, NextDayKeeps
 <1>5. CASE UNCHANGED vars
   BY <1>5, StutterKeeps
 <1>6. QED
   BY <1>1, <1>2, <1>3, <1>4, <1>5 DEF Next

(* In every reachable state what a request has read is still there, up to  *)
(* what was settled since and what withdrawals of negative amounts were    *)
(* taken for, however deals, payments and deposits come between its        *)
(* sessions.                                                               *)
THEOREM ReadsHold == Spec => []FundsInv
 <1>1. QED
   BY InitSound, NextKeeps, PTL DEF Spec

(* The rows, the sums and the request keep their types. *)
THEOREM TypeCorrect == Spec => []TypeOK
 <1>1. FundsInv => TypeOK
   BY DEF FundsInv
 <1>2. QED
   BY <1>1, ReadsHold, PTL

(* The open orders and withdrawals never promise more than ever came in,   *)
(* one bonus, and what withdrawals of negative amounts were taken for,     *)
(* whatever is settled between the reads of a request.                     *)
THEOREM PromisesWithinMoney == Spec => []OpenWithinMoney
 <1>1. FundsInv => OpenWithinMoney
   BY DEF FundsInv
 <1>2. QED
   BY <1>1, ReadsHold, PTL

(* A sale that is committed is covered by the holdings, with the other     *)
(* sales and the frozen volume, up to what was sold between its reads.     *)
THEOREM SalesCovered == Spec => SaleCovered
 <1>1. ASSUME FundsInv, [Next]_vars
       PROVE  [\A i \in OrderId :
                 order[i] = NoRow /\ order'[i] # NoRow /\ order'[i].direction = "S"
                   => held' - InSale' >= Frozen - web.moved]_vars
  <2>1. SUFFICES ASSUME NEW i \in OrderId, order[i] = NoRow, order'[i] # NoRow,
                        order'[i].direction = "S"
                 PROVE  held' - InSale' >= Frozen - web.moved
    OBVIOUS
  <2>2. CASE InsertOrder
   <3>1. /\ web.ask \in Request /\ web.at = "insert" /\ held' = held
         /\ InSale' = InSale + (IF web.ask.direction = "S" THEN web.ask.volume ELSE 0)
         /\ order'[i] = NewRow(i, web.ask, today)
     BY <1>1, <2>1, <2>2, OrderInserted
   <3>2. web.ask.direction = "S"
     BY <2>1, <3>1 DEF NewRow
   <3>3. web.ask.volume + Frozen <= held - InSale + web.moved
     BY <1>1, <3>1, <3>2 DEF FundsInv, HoldingRead, Sells
   <3>4. InSale \in Nat /\ held \in Int /\ web.moved \in Nat /\ web.ask.volume \in Nat
     BY <1>1, <3>1, SumsTyped, AsksApart DEF FundsInv, TypeOK
   <3>5. QED
     BY <3>1, <3>2, <3>3, <3>4
  <2>3. CASE InsertWithdrawal
    BY <2>1, <2>3 DEF InsertWithdrawal
  <2>4. CASE ~InsertOrder /\ ~InsertWithdrawal
    BY <1>1, <2>1, <2>4, NoRowAdded
  <2>5. QED
    BY <2>2, <2>3, <2>4
 <1>2. QED
   BY <1>1, ReadsHold, PTL DEF Spec, SaleCovered

(* What is left of the user's money is the net less what is promised. *)
LEMMA UncommittedIs ==
  FundsInv => Uncommitted >= Net - Lent - Promised /\ Uncommitted \in Int
 <1> SUFFICES ASSUME FundsInv PROVE Uncommitted >= Net - Lent - Promised /\ Uncommitted \in Int
   OBVIOUS
 <1>1. /\ Promised \in Nat /\ InUsing = Promised - Negative("pending")
       /\ Negative("pending") \in Nat /\ Withdrawn("finished") \in Int /\ Lent \in Nat
       /\ Scale * deposit \in Nat /\ income \in Nat /\ consumed \in Nat
   BY SumsTyped, ProductNat DEF FundsInv, TypeOK
 <1>2. QED
   BY <1>1 DEF Uncommitted, Net, CameIn

(* At prices above zero, a buy order or a withdrawal of a positive amount  *)
(* that is committed is covered by the user's money together with all that *)
(* is promised, up to its bonus, to what was settled between its reads and *)
(* to the negative withdrawals; or all that is promised is within those.   *)
(* An order at price zero needs nothing and is admitted whatever else is   *)
(* promised.                                                               *)
THEOREM MoneyIsCovered == 0 \notin Price => (Spec => MoneyCovered)
 <1> SUFFICES ASSUME 0 \notin Price PROVE Spec => MoneyCovered
   OBVIOUS
 <1>1. ASSUME FundsInv, [Next]_vars
       PROVE  [/\ \A i \in OrderId :
                    order[i] = NoRow /\ order'[i] # NoRow /\ order'[i].direction = "B" =>
                      \/ Uncommitted' >= -web.moved - BonusOf(order'[i]) - Lent'
                      \/ Promised' <= Lent' + BonusOf(order'[i])
               /\ \A w \in WithdrawId :
                    withdrawal[w] = NoRow /\ withdrawal'[w] # NoRow /\ withdrawal'[w].amount > 0 =>
                      \/ Uncommitted' >= Scale * blocked - web.moved - Lent'
                      \/ Promised' <= Lent']_vars
  <2>1. /\ Promised \in Nat /\ Net \in Int /\ Scale * blocked \in Nat /\ web.moved \in Nat
        /\ Lent \in Nat
    BY <1>1, SumsTyped, ProductNat DEF FundsInv, TypeOK
  <2>2. ASSUME FundsInv'
        PROVE  Uncommitted' >= Net' - Lent' - Promised' /\ Uncommitted' \in Int
   <3>1. (FundsInv => Uncommitted >= Net - Lent - Promised /\ Uncommitted \in Int)'
     BY UncommittedIs, PTL
   <3>2. QED
     BY <2>2, <3>1
  <2>3. FundsInv'
    BY <1>1, NextKeeps
  <2>4. CASE InsertOrder
   <3>1. /\ web.ask \in Request /\ web.at = "insert" /\ Net' = Net /\ withdrawal' = withdrawal
         /\ Lent' = Lent
         /\ Promised' = Promised + (IF web.ask.direction = "B" THEN Cost(web.ask.volume, web.ask.price) ELSE 0)
     BY <1>1, <2>4, OrderInserted
   <3>2. ASSUME NEW i \in OrderId, order[i] = NoRow, order'[i] # NoRow, order'[i].direction = "B"
         PROVE  \/ Uncommitted' >= -web.moved - BonusOf(order'[i]) - Lent'
                \/ Promised' <= Lent' + BonusOf(order'[i])
    <4>1. order'[i] = NewRow(i, web.ask, today)
      BY <1>1, <2>4, <3>2, OrderInserted
    <4>2. web.ask.direction = "B" /\ BonusOf(order'[i]) = BonusOf(web.ask)
      BY <3>2, <4>1 DEF NewRow, BonusOf
    <4>3. web.ask \in [p_no: Product, direction: Direction, volume: Volume, price: Price]
      BY <3>1
    <4>4. /\ Need(web.ask) \in Nat \ {0} /\ BonusOf(web.ask) \in Nat
          /\ Cost(web.ask.volume, web.ask.price) = Need(web.ask) + BonusOf(web.ask)
      BY <3>1, <4>3, NeedFacts
    <4>5. Promised + Need(web.ask) <= Lent \/ Need(web.ask) <= Net - Promised + web.moved
      BY <1>1, <3>1, <4>2, <4>4 DEF FundsInv, MoneyRead, Pays, Buys
    <4>6. Uncommitted' >= Net - Lent - Promised' /\ Uncommitted' \in Int
      BY <2>2, <2>3, <3>1
    <4>7. Promised' = Promised + Need(web.ask) + BonusOf(web.ask)
      BY <3>1, <4>2, <4>4, <2>1
    <4>8. QED
      BY <2>1, <3>1, <4>2, <4>4, <4>5, <4>6, <4>7
   <3>3. QED
     BY <3>1, <3>2
  <2>5. CASE InsertWithdrawal
   <3>1. /\ web.ask \in WithdrawAsk /\ web.at = "insert" /\ order' = order
         /\ Promised' = Promised + Positive(Need(web.ask))
         /\ Lent' = Lent + Positive(-Need(web.ask))
         /\ Net' = Net + Positive(-Need(web.ask)) /\ Need(web.ask) \in Int
         /\ Need(web.ask) > 0 <=> web.ask.amount > 0
         /\ \A u \in WithdrawId : withdrawal[u] = NoRow /\ withdrawal'[u] # NoRow =>
              withdrawal'[u].amount = web.ask.amount
     BY <1>1, <2>5, WithdrawalInserted, NeedFacts
   <3>2. ASSUME NEW w \in WithdrawId, withdrawal[w] = NoRow, withdrawal'[w] # NoRow,
                withdrawal'[w].amount > 0
         PROVE  \/ Uncommitted' >= Scale * blocked - web.moved - Lent'
                \/ Promised' <= Lent'
    <4>1. Need(web.ask) > 0
      BY <3>1, <3>2
    <4>2. Promised' = Promised + Need(web.ask) /\ Lent' = Lent /\ Net' = Net
      BY <2>1, <3>1, <4>1 DEF Positive
    <4>3. \/ Promised + Need(web.ask) <= Lent
          \/ Need(web.ask) <= Net - Promised - Scale * blocked + web.moved
      BY <1>1, <3>1, <4>1 DEF FundsInv, MoneyRead, Pays
    <4>4. Uncommitted' >= Net - Lent - Promised' /\ Uncommitted' \in Int
      BY <2>2, <2>3, <4>2
    <4>5. QED
      BY <2>1, <3>1, <4>2, <4>3, <4>4
   <3>3. QED
     BY <3>1, <3>2
  <2>6. CASE ~InsertOrder /\ ~InsertWithdrawal
    BY <1>1, <2>6, NoRowAdded
  <2>7. QED
    BY <2>4, <2>5, <2>6
 <1>2. QED
   BY <1>1, ReadsHold, PTL DEF Spec, MoneyCovered
=============================================================================
