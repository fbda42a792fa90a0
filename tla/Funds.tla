-------------------------------- MODULE Funds --------------------------------
(***************************************************************************)
(* What one user may spend and sell.  Neither is stored: before an order   *)
(* or a withdrawal is admitted, UserHandler adds up the deposits, deals,   *)
(* withdrawals and open orders of the user, in several sessions one after  *)
(* the other, and the row is inserted in yet another.  Meanwhile the       *)
(* matching threads deal the user's orders and the back office pays        *)
(* withdrawals out.                                                        *)
(*                                                                         *)
(* One user, one product and one web process, which handles one request at *)
(* a time.  A session reads one snapshot (REPEATABLE READ, the default of  *)
(* InnoDB), so all sums of one session are one step.  A deal is one step   *)
(* within the limit of the order, as Trading shows; one of the user with   *)
(* himself is two.  Money is counted in units of 1/Scale of the currency.  *)
(*                                                                         *)
(* The volume of an order is checked to be above zero, the amount of a     *)
(* withdrawal is not: a pending withdrawal of a negative amount lowers the *)
(* money in use, and one that was paid raises the available money.         *)
(***************************************************************************)
EXTENDS OrderBook, Functions

CONSTANTS
  WithdrawId,  \* ids of withdrawals
  Amount,      \* amounts a user asks to withdraw, of any sign
  Deposits,    \* amounts of deposits
  CanWithdraw, \* the values of can_withdraw deposits have
  Grants,      \* volumes given to the user, or subscribed and paid
  Scale,       \* units of the currency
  Bonus,       \* bonus_ratio of the user, in 1/Scale
  Frozen,      \* volume the user was given and may not deal
  MaxDeposit,  \* bound of the deposits
  MaxHeld,     \* bound of the holdings before a grant
  MaxDay       \* bound of the days

(* UserWithdraw.Status*; StatusCancel is treated as StatusRefused is. *)
WithdrawStatus == {"pending", "refused", "finished"}
WithdrawRow    == [amount: Amount, status: WithdrawStatus]
WithdrawAsk    == [amount: Amount]

ASSUME FundsAssumption ==
  /\ WithdrawId \subseteq Nat
  /\ Amount \subseteq Int
  /\ NoRow \notin WithdrawRow
  /\ Deposits \subseteq Nat \ {0} /\ CanWithdraw \subseteq BOOLEAN
  /\ Grants \subseteq Nat \ {0}
  /\ Scale \in Nat \ {0} /\ Bonus \in 0..Scale
  /\ Frozen \in Nat
  /\ MaxDeposit \in Nat /\ MaxHeld \in Nat /\ MaxDay \in Nat

VARIABLES
  order,       \* the user's rows of wx_order, created_at the day
  withdrawal,  \* the user's rows of wx_user_withdraw
  deposit,     \* sum of the active rows of wx_user_money
  blocked,     \* the part of them that cannot be withdrawn
  income,      \* sum of the user's deals as seller, less the bonus
  consumed,    \* sum of the user's deals as buyer, with the bonus
  held,        \* given + bought + subscribed - sold
  today,
  web          \* the request being handled

vars == <<order, withdrawal, deposit, blocked, income, consumed, held, today, web>>
account == <<deposit, blocked, income, consumed, held>>

(* moved counts what was settled between the reads of the request; nothing *)
(* in the code depends on it.                                              *)
IdleWeb == [at |-> "idle", ask |-> NoRow, kept |-> 0, seen |-> 0, moved |-> 0]

Init ==
  /\ order = [i \in OrderId |-> NoRow]
  /\ withdrawal = [w \in WithdrawId |-> NoRow]
  /\ deposit = 0 /\ blocked = 0 /\ income = 0 /\ consumed = 0
  /\ held = Frozen
  /\ today = 0
  /\ web = IdleWeb

-----------------------------------------------------------------------------
(* The sums of UserHandler *)

Positive(x) == IF x <= 0 THEN 0 ELSE x

Cost(v, pr)     == v * pr * (Scale + Bonus)
Proceeds(v, pr) == v * pr * (Scale - Bonus)

Orders(dir) ==
  {i \in OrderId : order[i] # NoRow /\ order[i].direction = dir}

(* The user's orders of today that are still in the book. *)
Open(dir) == {i \in Orders(dir) : order[i].status \in Live /\ order[i].created_at = today}

Withdrawals(status) ==
  {w \in WithdrawId : withdrawal[w] # NoRow /\ withdrawal[w].status = status}

Withdrawn(status) ==
  Scale * SumFunction([w \in Withdrawals(status) |-> withdrawal[w].amount])

(* Fault: a withdrawal that was paid is forgotten. *)
AvailableUnpaid == Positive(Scale * deposit + income - consumed)

(* get_available_money, one session. *)
Available == Positive(Scale * deposit + income - consumed - Withdrawn("finished"))

InBuying == SumFunction([i \in Open("B") |-> Cost(Left(order[i]), order[i].price)])

(* get_in_using_money, one session. *)
InUsing == InBuying + Withdrawn("pending")

(* get_assets, the volume of the product. *)
Holding == Positive(held)

(* get_inusing_asset_volume, one session. *)
InSale == SumFunction([i \in Open("S") |-> Left(order[i])])

-----------------------------------------------------------------------------
(* A request of the user, session by session *)

(* The order must be paid for at its own limit, without the bonus. *)
Need(a) == IF a \in WithdrawAsk THEN Scale * a.amount ELSE Scale * a.volume * a.price

(* insert_buy_order: price and hours are right, the available money is read. *)
CheckBuy ==
  /\ web.at = "idle"
  /\ \E a \in Request :
       /\ a.direction = "B"
       /\ web' = [IdleWeb EXCEPT !.at = "inUsing", !.ask = a, !.seen = Available]
  /\ UNCHANGED <<order, withdrawal, account, today>>

(* get_can_withdraw_money: first the deposits that cannot be withdrawn ... *)
CheckWithdraw ==
  /\ web.at = "idle"
  /\ \E a \in WithdrawAsk :
       web' = [IdleWeb EXCEPT !.at = "available", !.ask = a, !.kept = Scale * blocked]
  /\ UNCHANGED <<order, withdrawal, account, today>>

(* ... then what get_can_used_money reads. *)
ReadAvailable ==
  /\ web.at = "available"
  /\ web' = [web EXCEPT !.at = "inUsing", !.seen = Available]
  /\ UNCHANGED <<order, withdrawal, account, today>>

(* Fault: money in open orders and withdrawals is not taken off. *)
AdmitAvailable ==
  /\ web.at = "inUsing"
  /\ web' = IF Need(web.ask) <= web.seen - web.kept
            THEN [web EXCEPT !.at = "insert"] ELSE IdleWeb
  /\ UNCHANGED <<order, withdrawal, account, today>>

(* The money in use is read and taken off; the request is refused when it  *)
(* needs more than is left.                                                *)
Admit ==
  /\ web.at = "inUsing"
  /\ web' = IF Need(web.ask) <= Positive(web.seen - InUsing) - web.kept
            THEN [web EXCEPT !.at = "insert"] ELSE IdleWeb
  /\ UNCHANGED <<order, withdrawal, account, today>>

(* insert_sale_order: price and hours are right, the holdings are read. *)
CheckSale ==
  /\ web.at = "idle"
  /\ \E a \in Request :
       /\ a.direction = "S"
       /\ web' = [IdleWeb EXCEPT !.at = "inSale", !.ask = a, !.seen = Holding]
  /\ UNCHANGED <<order, withdrawal, account, today>>

(* Fault: the frozen volume is not taken off. *)
AdmitSaleFrozen ==
  /\ web.at = "inSale"
  /\ web' = IF web.ask.volume <= web.seen - InSale
            THEN [web EXCEPT !.at = "insert"] ELSE IdleWeb
  /\ UNCHANGED <<order, withdrawal, account, today>>

(* The volume on sale is read and taken off, and the frozen volume. *)
AdmitSale ==
  /\ web.at = "inSale"
  /\ web' = IF web.ask.volume <= web.seen - InSale - Frozen
            THEN [web EXCEPT !.at = "insert"] ELSE IdleWeb
  /\ UNCHANGED <<order, withdrawal, account, today>>

(* The order is committed. *)
InsertOrder ==
  /\ web.at = "insert"
  /\ web.ask \in Request
  /\ \E i \in OrderId :
       /\ order[i] = NoRow
       /\ \A j \in OrderId : order[j] = NoRow => i <= j
       /\ order' = [order EXCEPT ![i] = NewRow(i, web.ask, today)]
  /\ web' = IdleWeb
  /\ UNCHANGED <<withdrawal, account, today>>

(* Fault: a withdrawal without its status. *)
NewWithdrawalUnset(a) == [amount |-> a.amount, status |-> NoRow]

NewWithdrawal(a) == [amount |-> a.amount, status |-> "pending"]

(* The withdrawal is committed. *)
InsertWithdrawal ==
  /\ web.at = "insert"
  /\ web.ask \in WithdrawAsk
  /\ \E w \in WithdrawId :
       /\ withdrawal[w] = NoRow
       /\ \A u \in WithdrawId : withdrawal[u] = NoRow => w <= u
       /\ withdrawal' = [withdrawal EXCEPT ![w] = NewWithdrawal(web.ask)]
  /\ web' = IdleWeb
  /\ UNCHANGED <<order, account, today>>

(* The commit fails, or the process is killed. *)
RequestFails ==
  /\ web.at # "idle"
  /\ web' = IdleWeb
  /\ UNCHANGED <<order, withdrawal, account, today>>

(* do_cancel, in one step: Trading shows that it acts as one. *)
Cancel ==
  /\ web.at = "idle"
  /\ \E i \in Open("B") \cup Open("S") :
       order' = [order EXCEPT ![i].status = CancelStatus(@)]
  /\ UNCHANGED <<withdrawal, account, today, web>>

-----------------------------------------------------------------------------
(* What goes on meanwhile *)

(* x is settled while the request is at the given read. *)
During(at, x) == IF web.at = at THEN [web EXCEPT !.moved = @ + x] ELSE web

(* The status of an order of which v more is dealt. *)
Filled(row, v) == Fill(row, v, IF v = Left(row) THEN Finished ELSE PartialFinished)

(* A matching thread deals v of a buy order of the user at price pr. *)
Bought(i, v, pr) ==
  /\ pr <= order[i].price
  /\ order' = [order EXCEPT ![i] = Filled(@, v)]
  /\ consumed' = consumed + Cost(v, pr)
  /\ held' = held + v
  /\ web' = During("inUsing", Cost(v, order[i].price))
  /\ UNCHANGED <<withdrawal, deposit, blocked, income, today>>

(* A matching thread deals v of a sale of the user at price pr. *)
Sold(i, v, pr) ==
  /\ pr >= order[i].price
  /\ order' = [order EXCEPT ![i] = Filled(@, v)]
  /\ income' = income + Proceeds(v, pr)
  /\ held' = held - v
  /\ web' = During("inSale", v)
  /\ UNCHANGED <<withdrawal, deposit, blocked, consumed, today>>

(* The back office pays a withdrawal out, or refuses it. *)
PayWithdrawal ==
  /\ \E w \in WithdrawId :
       /\ withdrawal[w] # NoRow
       /\ withdrawal[w].status = "pending"
       /\ withdrawal' = [withdrawal EXCEPT ![w].status = "finished"]
       /\ web' = During("inUsing", Scale * Positive(withdrawal[w].amount))
  /\ UNCHANGED <<order, account, today>>

RefuseWithdrawal ==
  /\ \E w \in WithdrawId :
       /\ withdrawal[w] # NoRow
       /\ withdrawal[w].status = "pending"
       /\ withdrawal' = [withdrawal EXCEPT ![w].status = "refused"]
  /\ UNCHANGED <<order, account, today, web>>

(* The back office enters a deposit, to be withdrawn again or not. *)
Deposit ==
  /\ \E m \in Deposits, free \in CanWithdraw :
       /\ deposit + m <= MaxDeposit
       /\ deposit' = deposit + m
       /\ blocked' = IF free THEN blocked ELSE blocked + m
       /\ web' = IF free THEN web ELSE During("available", Scale * m)
  /\ UNCHANGED <<order, withdrawal, income, consumed, held, today>>

(* A gift, or a subscription that was paid. *)
Grant ==
  /\ held <= MaxHeld
  /\ \E v \in Grants : held' = held + v
  /\ UNCHANGED <<order, withdrawal, deposit, blocked, income, consumed, today, web>>

(* Orders are entered in exchange hours only, so none is under way. *)
NextDay ==
  /\ today < MaxDay
  /\ web.at = "idle" \/ web.ask \in WithdrawAsk
  /\ today' = today + 1
  /\ UNCHANGED <<order, withdrawal, account, web>>

-----------------------------------------------------------------------------
WebStep ==
  CheckBuy \/ CheckWithdraw \/ ReadAvailable \/ Admit \/ CheckSale \/ AdmitSale
  \/ InsertOrder \/ InsertWithdrawal \/ RequestFails \/ Cancel

Match ==
  \/ \E i \in Open("B"), pr \in Price : \E v \in 1..Left(order[i]) : Bought(i, v, pr)
  \/ \E i \in Open("S"), pr \in Price : \E v \in 1..Left(order[i]) : Sold(i, v, pr)

BackOffice == PayWithdrawal \/ RefuseWithdrawal \/ Deposit \/ Grant

Next == WebStep \/ Match \/ BackOffice \/ NextDay

Spec == Init /\ [][Next]_vars

-----------------------------------------------------------------------------
(* Properties *)

TypeOK ==
  /\ order \in [OrderId -> Row \cup {NoRow}]
  /\ withdrawal \in [WithdrawId -> WithdrawRow \cup {NoRow}]
  /\ deposit \in Nat /\ blocked \in 0..deposit
  /\ income \in Nat /\ consumed \in Nat
  /\ held \in Int
  /\ today \in 0..MaxDay
  /\ web \in [at: {"idle", "available", "inUsing", "inSale", "insert"},
              ask: Request \cup WithdrawAsk \cup {NoRow},
              kept: Nat, seen: Nat, moved: Nat]

(* What is the user's and not promised to an order or a withdrawal. *)
Uncommitted ==
  Scale * deposit + income - consumed - Withdrawn("finished") - InUsing

(* An order is admitted against its price, and settled with the bonus. *)
BonusOf(a) == a.volume * a.price * Bonus

(* Withdrawals of a given status, those asked for and those of negative    *)
(* amounts, which nothing refuses.                                         *)
Asked(status) ==
  Scale * SumFunction([w \in Withdrawals(status) |-> Positive(withdrawal[w].amount)])
Negative(status) ==
  Scale * SumFunction([w \in Withdrawals(status) |-> Positive(-withdrawal[w].amount)])

(* What the user has made of nothing by withdrawals of negative amounts.   *)
Lent == Negative("pending") + Negative("refused") + Negative("finished")

(* What open orders and pending withdrawals may take. *)
Promised == InBuying + Asked("pending")

(* A buy order or a withdrawal is admitted only if the user's money covers *)
(* it together with all that is promised already, up to its bonus, and up  *)
(* to what was settled while the request was between its reads: a deal or  *)
(* a payment that comes after the available money was read and before the  *)
(* money in use was is counted in neither.  Negative withdrawals pass for  *)
(* money: the user falls short by no more than they come to or, when the   *)
(* money was spent before, promises no more than that, each time again.    *)
MoneyCovered ==
  [][/\ \A i \in OrderId :
          order[i] = NoRow /\ order'[i] # NoRow /\ order'[i].direction = "B" =>
            \/ Uncommitted' >= -web.moved - BonusOf(order'[i]) - Lent'
            \/ Promised' <= Lent' + BonusOf(order'[i])
     /\ \A w \in WithdrawId :
          withdrawal[w] = NoRow /\ withdrawal'[w] # NoRow /\ withdrawal'[w].amount > 0 =>
            \/ Uncommitted' >= Scale * blocked - web.moved - Lent'
            \/ Promised' <= Lent']_vars

(* A sale is admitted only if the user's holdings cover it together with   *)
(* the other sales and what is frozen, up to what was sold while the       *)
(* request was between its reads.                                          *)
SaleCovered ==
  [][\A i \in OrderId :
       order[i] = NoRow /\ order'[i] # NoRow /\ order'[i].direction = "S"
         => held' - InSale' >= Frozen - web.moved]_vars

(* Whatever is settled between the reads, the open orders and withdrawals  *)
(* together never promise more than ever came in, and one bonus; and what  *)
(* withdrawals of negative amounts were taken for.                         *)
OpenWithinMoney ==
  \E b \in {0} \cup {BonusOf(a) : a \in Request} :
    Promised <= Scale * deposit + income + Lent + b

(* UserWithdrawHandler answers that no more than the maximum may be        *)
(* withdrawn: at its commit, a withdrawal is within what                   *)
(* get_can_withdraw_money would then return.                               *)
WithdrawWithinMax ==
  [][\A w \in WithdrawId :
       withdrawal[w] = NoRow /\ withdrawal'[w] # NoRow
         => Scale * withdrawal'[w].amount
              <= Positive(Available - InUsing) - Scale * blocked]_vars
=============================================================================
