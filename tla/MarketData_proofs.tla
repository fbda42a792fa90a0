-------------------------- MODULE MarketData_proofs --------------------------
(***************************************************************************)
(* For all prices, volumes, numbers of deals and days: the closing price   *)
(* of the days before, which bounds the prices of every new order, is      *)
(* right in every history row; the stale default date of the current price *)
(* does no harm; and while no update fails the row that is written has the *)
(* price of the latest deal.                                               *)
(***************************************************************************)
EXTENDS MarketData, Sums, WellFoundedInduction

-----------------------------------------------------------------------------
(* The deal with the highest id exists *)

LEMMA MaxOfPositions ==
  ASSUME NEW n \in Nat, NEW D \in SUBSET (1..n), D # {}
  PROVE  Max(D) \in D /\ \A j \in D : Max(D) >= j
  BY LastPosition, Zenon DEF Max

-----------------------------------------------------------------------------
(* What the argument needs of the variables *)

Shapes ==
  /\ deals \in Seq(Deal)
  /\ today \in Day
  /\ history = [d \in Day |-> history[d]]
  /\ thread.od \in Deal \cup {None}
  /\ thread = [at |-> thread.at, od |-> thread.od,
               current_price |-> thread.current_price, start_date |-> thread.start_date]

(* The session holds a deal of today, and none between passes. *)
SessionOfToday ==
  /\ thread.od # None => thread.od.day = today
  /\ thread.at \in {"loop", "dead"} => thread.od = None

NoDealAhead == \A i \in DOMAIN deals : deals[i].day <= today

NoRowAhead == \A d \in Day : history[d] # None => d <= today

CloseInv == Shapes /\ SessionOfToday /\ NoDealAhead /\ NoRowAhead /\ LastPriceIsClose

(* A deal added today changes the latest price of no earlier days. *)
LEMMA LatestKept ==
  ASSUME Shapes, NEW e \in Deal, deals' = Append(deals, e),
         NEW d \in Day, d <= e.day, NEW x
  PROVE  Latest(0..(d - 1), x)' = Latest(0..(d - 1), x)
<1> DEFINE D == DealsOf(0..(d - 1))
<1>1. DOMAIN deals = 1..Len(deals) /\ DOMAIN deals' = 1..(Len(deals) + 1)
  BY DEF Shapes
<1>2. \A i \in DOMAIN deals : deals'[i] = deals[i]
  BY <1>1 DEF Shapes
<1>3. deals'[Len(deals) + 1] = e
  BY DEF Shapes
<1>4. Len(deals) + 1 \notin DealsOf(0..(d - 1))'
  BY <1>1, <1>3 DEF DealsOf, Deal, Day, Shapes
<1>5. DealsOf(0..(d - 1))' = D
  <2>1. \A i \in DOMAIN deals : i \in DealsOf(0..(d - 1))' <=> i \in D
    BY <1>1, <1>2 DEF DealsOf
  <2>2. \A i \in DealsOf(0..(d - 1))' : i \in DOMAIN deals
    BY <1>1, <1>4 DEF DealsOf, Shapes
  <2>3. D \subseteq DOMAIN deals
    BY DEF DealsOf
  <2>. QED BY <2>1, <2>2, <2>3
<1>6. CASE D = {}
  BY <1>5, <1>6 DEF Latest
<1>7. CASE D # {}
  <2>1. Len(deals) \in Nat /\ D \in SUBSET (1..Len(deals))
    BY <1>1 DEF DealsOf, Shapes
  <2>2. Max(D) \in DOMAIN deals
    BY <1>1, <1>7, <2>1, MaxOfPositions
  <2>. QED BY <1>2, <1>5, <1>7, <2>2 DEF Latest
<1>. QED BY <1>6, <1>7

(* Nothing to show for a step that leaves the deals, the rows and the day. *)
LEMMA RowsUntouched ==
  ASSUME CloseInv, UNCHANGED <<deals, history, today>>
  PROVE  NoDealAhead' /\ NoRowAhead' /\ LastPriceIsClose'
BY DEF CloseInv, NoDealAhead, NoRowAhead, LastPriceIsClose, Latest, DealsOf

-----------------------------------------------------------------------------
LEMMA InitCloseInv == Init => CloseInv
BY MarketAssumption
   DEF Init, CloseInv, Shapes, SessionOfToday, NoDealAhead, NoRowAhead,
       LastPriceIsClose, Day

LEMMA NextCloseInv == CloseInv /\ [Next]_vars => CloseInv'
<1>. SUFFICES ASSUME CloseInv, [Next]_vars PROVE CloseInv'
  OBVIOUS
<1>. USE DEF CloseInv
<1>1. CASE BeginPass
  <2>1. Shapes' /\ SessionOfToday'
    BY <1>1 DEF BeginPass, Shapes, SessionOfToday, Deal, shown
  <2>2. UNCHANGED <<deals, history, today>>
    BY <1>1 DEF BeginPass
  <2>. QED BY <2>1, <2>2, RowsUntouched
<1>2. CASE Update
  <2>1. Shapes' /\ SessionOfToday'
    BY <1>2 DEF Update, Shapes, SessionOfToday, shown
  <2>2. UNCHANGED <<deals, history, today>>
    BY <1>2 DEF Update
  <2>. QED BY <2>1, <2>2, RowsUntouched
<1>3. CASE UpdateFails
  <2>1. Shapes' /\ SessionOfToday'
    BY <1>3 DEF UpdateFails, Shapes, SessionOfToday, shown
  <2>2. UNCHANGED <<deals, history, today>>
    BY <1>3 DEF UpdateFails
  <2>. QED BY <2>1, <2>2, RowsUntouched
<1>4. CASE Commit
  <2>1. thread' = [thread EXCEPT !.at = "history"] /\ UNCHANGED <<history, today>>
    BY <1>4 DEF Commit
  <2>2. CASE thread.od = None
    <3>1. UNCHANGED <<deals, history, today>>
      BY <1>4, <2>1, <2>2 DEF Commit
    <3>2. Shapes' /\ SessionOfToday'
      BY <2>1, <3>1 DEF Shapes, SessionOfToday
    <3>. QED BY <3>1, <3>2, RowsUntouched
  <2>3. CASE thread.od # None
    <3>1. deals' = Append(deals, thread.od) /\ thread.od \in Deal /\ thread.od.day = today
      BY <1>4, <2>3 DEF Commit, Shapes, SessionOfToday
    <3>2. Shapes' /\ SessionOfToday'
      BY <2>1, <3>1 DEF Shapes, SessionOfToday
    <3>3. NoDealAhead'
      BY <2>1, <3>1 DEF NoDealAhead, Shapes, Day
    <3>4. NoRowAhead'
      BY <2>1 DEF NoRowAhead
    <3>5. LastPriceIsClose'
      <4>. SUFFICES ASSUME NEW d \in Day, history[d] # None
                    PROVE  history[d].last = Latest(0..(d - 1), IssuePrice)'
        BY <2>1 DEF LastPriceIsClose
      <4>1. d <= today
        BY DEF NoRowAhead
      <4>2. Latest(0..(d - 1), IssuePrice)' = Latest(0..(d - 1), IssuePrice)
        BY <3>1, <4>1, LatestKept
      <4>. QED BY <4>2 DEF LastPriceIsClose
    <3>. QED BY <3>2, <3>3, <3>4, <3>5
  <2>. QED BY <2>2, <2>3
<1>5. CASE CommitFails
  <2>1. Shapes' /\ SessionOfToday'
    BY <1>5 DEF CommitFails, Shapes, SessionOfToday, shown
  <2>2. UNCHANGED <<deals, history, today>>
    BY <1>5 DEF CommitFails
  <2>. QED BY <2>1, <2>2, RowsUntouched
<1>6. CASE UpdateHistory
  <2>. DEFINE row == HistoryRow(history[today], thread.current_price)
  <2>1. /\ history' = [history EXCEPT ![today] = row]
        /\ thread' = [thread EXCEPT !.at = "board"]
        /\ UNCHANGED <<deals, today>>
    BY <1>6 DEF UpdateHistory
  <2>2. Shapes' /\ SessionOfToday'
    BY <2>1 DEF Shapes, SessionOfToday
  <2>3. NoDealAhead'
    BY <2>1 DEF NoDealAhead
  <2>4. \A d \in Day : d # today => history'[d] = history[d]
    BY <2>1 DEF Shapes
  <2>5. history'[today] = row /\ today \in Day
    BY <2>1 DEF Shapes
  <2>6. NoRowAhead'
    BY <2>1, <2>4 DEF NoRowAhead, Shapes, Day
  <2>7. row.last = Latest(0..(today - 1), IssuePrice)
    <3>1. row.last = IF history[today] = None THEN LastPrice ELSE history[today].last
      BY DEF HistoryRow
    <3>. QED BY <2>5, <3>1 DEF LastPrice, LastPriceIsClose
  <2>8. \A d \in Day : Latest(0..(d - 1), IssuePrice)' = Latest(0..(d - 1), IssuePrice)
    BY <2>1 DEF Latest, DealsOf
  <2>9. LastPriceIsClose'
    BY <2>4, <2>5, <2>7, <2>8 DEF LastPriceIsClose
  <2>. QED BY <2>2, <2>3, <2>6, <2>9
<1>7. CASE PublishBoard
  <2>1. Shapes' /\ SessionOfToday'
    BY <1>7 DEF PublishBoard, Shapes, SessionOfToday
  <2>2. UNCHANGED <<deals, history, today>>
    BY <1>7 DEF PublishBoard
  <2>. QED BY <2>1, <2>2, RowsUntouched
<1>8. CASE PublishCandles
  <2>1. Shapes' /\ SessionOfToday'
    BY <1>8 DEF PublishCandles, Shapes, SessionOfToday
  <2>2. UNCHANGED <<deals, history, today>>
    BY <1>8 DEF PublishCandles
  <2>. QED BY <2>1, <2>2, RowsUntouched
<1>9. CASE Die
  <2>1. Shapes' /\ SessionOfToday'
    BY <1>9 DEF Die, Shapes, SessionOfToday, shown
  <2>2. UNCHANGED <<deals, history, today>>
    BY <1>9 DEF Die
  <2>. QED BY <2>1, <2>2, RowsUntouched
<1>10. CASE Restart
  <2>1. Shapes' /\ SessionOfToday'
    BY <1>10 DEF Restart, NewThread, Shapes, SessionOfToday, shown
  <2>2. UNCHANGED <<deals, history, today>>
    BY <1>10 DEF Restart
  <2>. QED BY <2>1, <2>2, RowsUntouched
<1>11. CASE NextDay
  <2>1. today' = today + 1 /\ today < MaxDay /\ UNCHANGED <<deals, history, thread>>
        /\ thread.od = None
    BY <1>11 DEF NextDay, SessionOfToday
  <2>2. today \in 0..MaxDay /\ today' \in Day
    BY <2>1, MarketAssumption DEF Shapes, Day
  <2>3. Shapes' /\ SessionOfToday'
    BY <2>1, <2>2 DEF Shapes, SessionOfToday
  <2>4. NoDealAhead'
    <3>1. \A i \in DOMAIN deals : deals[i] \in Deal
      BY DEF Shapes
    <3>2. \A i \in DOMAIN deals : deals[i].day \in 0..MaxDay
      BY <3>1 DEF Deal, Day
    <3>. QED BY <2>1, <2>2, <3>2, MarketAssumption DEF NoDealAhead
  <2>5. NoRowAhead'
    BY <2>1, <2>2 DEF NoRowAhead, Day
  <2>6. LastPriceIsClose'
    BY <2>1 DEF LastPriceIsClose, Latest, DealsOf
  <2>. QED BY <2>3, <2>4, <2>5, <2>6
<1>12. CASE UNCHANGED vars
  <2>1. Shapes' /\ SessionOfToday'
    BY <1>12 DEF vars, Shapes, SessionOfToday
  <2>2. UNCHANGED <<deals, history, today>>
    BY <1>12 DEF vars
  <2>. QED BY <2>1, <2>2, RowsUntouched
<1>. QED
  BY <1>1, <1>2, <1>3, <1>4, <1>5, <1>6, <1>7, <1>8, <1>9, <1>10, <1>11, <1>12
     DEF Next

(* In every reachable state the last_price of every history row is the     *)
(* price of the last deal of an earlier day, or the issue price: a row     *)
(* made late, after a failed pass, a death of the thread or a restart, is  *)
(* no exception (update_prodoct_history, Common.get_last_price).           *)
THEOREM CloseKept == Spec => []LastPriceIsClose
<1>1. CloseInv => LastPriceIsClose
  BY DEF CloseInv
<1>. QED BY <1>1, InitCloseInv, NextCloseInv, PTL DEF Spec

-----------------------------------------------------------------------------
(* The current price *)

(* Deals are numbered as they are made, day after day. *)
DaysAscend ==
  \A i, j \in DOMAIN deals : i <= j => deals[i].day <= deals[j].day

(* While no update fails, a pass that reaches the history has committed    *)
(* the deal in its session, the last one, and has its price.               *)
PassOfDeal ==
  /\ thread.at = "update" => thread.od # None
  /\ thread.at \in {"commit", "history"} /\ "update" \notin faults => thread.od # None
  /\ thread.at \in {"commit", "history"} /\ thread.od # None
       => thread.current_price = thread.od.price
  /\ thread.at = "history" /\ thread.od # None
       => Len(deals) > 0 /\ deals[Len(deals)] = thread.od

PriceInv == DaysAscend /\ PassOfDeal

LEMMA CommitKeepsPrice ==
  ASSUME CloseInv, PriceInv, Commit
  PROVE  PriceInv'
<1>1. thread' = [thread EXCEPT !.at = "history"] /\ UNCHANGED <<history, today, faults>>
  BY DEF Commit
<1>2. /\ thread'.at = "history" /\ thread'.od = thread.od
      /\ thread'.current_price = thread.current_price /\ thread.at = "commit"
  BY <1>1 DEF CloseInv, Shapes, Commit
<1>3. CASE thread.od = None
  <2>1. deals' = deals
    BY <1>3 DEF Commit
  <2>. QED BY <1>1, <1>2, <1>3, <2>1 DEF PriceInv, DaysAscend, PassOfDeal
<1>4. CASE thread.od # None
  <2>1. deals' = Append(deals, thread.od) /\ thread.od \in Deal /\ thread.od.day = today
    BY <1>4 DEF Commit, CloseInv, Shapes, SessionOfToday
  <2>2. /\ Len(deals') = Len(deals) + 1 /\ Len(deals) \in Nat
        /\ DOMAIN deals' = 1..(Len(deals) + 1) /\ DOMAIN deals = 1..Len(deals)
        /\ deals'[Len(deals) + 1] = thread.od
        /\ \A i \in DOMAIN deals : deals'[i] = deals[i]
    BY <2>1 DEF CloseInv, Shapes
  <2>3. DaysAscend'
    <3>. SUFFICES ASSUME NEW i \in DOMAIN deals', NEW j \in DOMAIN deals', i <= j
                  PROVE  deals'[i].day <= deals'[j].day
      BY DEF DaysAscend
    <3>1. CASE j \in DOMAIN deals
      <4>1. i \in DOMAIN deals
        BY <2>2, <3>1
      <4>. QED BY <2>2, <3>1, <4>1 DEF PriceInv, DaysAscend
    <3>2. CASE j = Len(deals) + 1
      <4>1. CASE i \in DOMAIN deals
        BY <2>1, <2>2, <3>2, <4>1 DEF CloseInv, NoDealAhead
      <4>2. CASE i = j
        <5>1. deals'[j].day = today /\ today \in 0..MaxDay
          BY <2>1, <2>2, <3>2 DEF CloseInv, Shapes, Day
        <5>. QED BY <4>2, <5>1, MarketAssumption
      <4>. QED BY <2>2, <3>2, <4>1, <4>2
    <3>. QED BY <2>2, <3>1, <3>2
  <2>4. PassOfDeal'
    BY <1>1, <1>2, <1>4, <2>2 DEF PriceInv, PassOfDeal
  <2>. QED BY <2>3, <2>4 DEF PriceInv
<1>. QED BY <1>3, <1>4

LEMMA NextPriceInv == CloseInv /\ PriceInv /\ [Next]_vars => PriceInv'
<1>. SUFFICES ASSUME CloseInv, PriceInv, [Next]_vars PROVE PriceInv'
  OBVIOUS
<1>. USE DEF PriceInv
<1>0. ASSUME UNCHANGED deals PROVE DaysAscend'
  BY <1>0 DEF DaysAscend
<1>1. CASE BeginPass
  <2>1. PICK p \in Price, v \in Volume :
          thread' = [at |-> "update", od |-> [price |-> p, volume |-> v, day |-> today],
                     current_price |-> IF thread.start_date = today
                                       THEN thread.current_price ELSE 0,
                     start_date |-> today]
    BY <1>1 DEF BeginPass
  <2>2. [price |-> p, volume |-> v, day |-> today] # None
    BY MarketAssumption DEF CloseInv, Shapes, Day
  <2>. QED BY <1>0, <1>1, <2>1, <2>2 DEF BeginPass, PassOfDeal
<1>2. CASE Update
  BY <1>0, <1>2 DEF Update, PassOfDeal, CloseInv, Shapes
<1>3. CASE UpdateFails
  <2>1. thread'.at = "commit" /\ thread'.od = None /\ "update" \in faults' /\ UNCHANGED deals
    BY <1>3 DEF UpdateFails, Fault, CloseInv, Shapes
  <2>. QED BY <1>0, <2>1 DEF PassOfDeal
<1>4. CASE Commit
  BY <1>4, CommitKeepsPrice
<1>5. CASE CommitFails \/ Die \/ Restart \/ UpdateHistory \/ PublishBoard \/ PublishCandles
  <2>1. UNCHANGED deals /\ thread'.at \notin {"update", "commit", "history"}
    <3>1. CASE CommitFails
      BY <3>1 DEF CommitFails, CloseInv, Shapes
    <3>2. CASE Die
      BY <3>2 DEF Die, CloseInv, Shapes
    <3>3. CASE Restart
      BY <3>3 DEF Restart, NewThread
    <3>4. CASE UpdateHistory
      BY <3>4 DEF UpdateHistory, CloseInv, Shapes
    <3>5. CASE PublishBoard
      BY <3>5 DEF PublishBoard, CloseInv, Shapes
    <3>6. CASE PublishCandles
      BY <3>6 DEF PublishCandles, CloseInv, Shapes
    <3>. QED BY <1>5, <3>1, <3>2, <3>3, <3>4, <3>5, <3>6
  <2>. QED BY <1>0, <2>1 DEF PassOfDeal
<1>6. CASE NextDay
  BY <1>0, <1>6 DEF NextDay, PassOfDeal
<1>7. CASE UNCHANGED vars
  BY <1>0, <1>7 DEF vars, PassOfDeal
<1>. QED BY <1>1, <1>2, <1>3, <1>4, <1>5, <1>6, <1>7 DEF Next

LEMMA InitPriceInv == Init => PriceInv
BY DEF Init, PriceInv, DaysAscend, PassOfDeal

(* The latest deal of all is the latest of any days up to today that have  *)
(* a deal at all and include today.                                        *)
LEMMA LatestOfSome ==
  ASSUME Shapes, NoDealAhead, DaysAscend, NEW d \in 0..today, DealsOf(d..today) # {}
  PROVE  DealsOf(0..today) # {} /\ Max(DealsOf(d..today)) = Max(DealsOf(0..today))
<1> DEFINE S == DealsOf(d..today)
           T == DealsOf(0..today)
<1>1. Len(deals) \in Nat /\ DOMAIN deals = 1..Len(deals) /\ today \in Nat
  BY MarketAssumption DEF Shapes, Day
<1>2. S \subseteq T /\ S \in SUBSET (1..Len(deals)) /\ T \in SUBSET (1..Len(deals))
  BY <1>1 DEF DealsOf
<1>3. Max(S) \in S /\ (\A j \in S : Max(S) >= j) /\ Max(T) \in T /\ (\A j \in T : Max(T) >= j)
  BY <1>1, <1>2, MaxOfPositions
<1>4. Max(S) <= Max(T) /\ Max(S) \in DOMAIN deals /\ Max(T) \in DOMAIN deals
  BY <1>1, <1>2, <1>3
<1>5. deals[Max(S)].day <= deals[Max(T)].day /\ deals[Max(T)].day <= today
  BY <1>4 DEF DaysAscend, NoDealAhead
<1>6. deals[Max(S)].day \in d..today /\ deals[Max(T)].day \in 0..today
  BY <1>3 DEF DealsOf
<1>7. Max(T) \in S
  BY <1>1, <1>4, <1>5, <1>6 DEF DealsOf
<1>8. Max(S) \in Nat /\ Max(T) \in Nat
  BY <1>1, <1>4
<1>. QED BY <1>2, <1>3, <1>4, <1>7, <1>8

(* The default date that get_current_price has kept since its process was  *)
(* started does no harm, however old it is and however many deals there    *)
(* were since (Common.get_current_price).                                  *)
THEOREM CurrentPriceKept == Spec => []CurrentPriceAgrees
<1>1. CloseInv /\ PriceInv => CurrentPriceAgrees
  <2>. SUFFICES ASSUME CloseInv, PriceInv, NEW d \in 0..today
                PROVE  CurrentPrice(d) = Latest(0..today, IssuePrice)
    BY DEF CurrentPriceAgrees
  <2>. USE DEF CloseInv, PriceInv
  <2>1. CASE DealsOf(d..today) # {}
    BY <2>1, LatestOfSome DEF CurrentPrice, Latest
  <2>2. CASE DealsOf(d..today) = {}
    <3>1. DealsOf(0..(today - 1)) = DealsOf(0..today)
      <4>1. today \in Nat /\ d \in Nat
        BY MarketAssumption DEF Shapes, Day
      <4>2. \A i \in DOMAIN deals : deals[i].day \in Nat
        <5>1. \A i \in DOMAIN deals : deals[i] \in Deal
          BY DEF Shapes
        <5>. QED BY <5>1 DEF Deal, Day
      <4>3. \A i \in DOMAIN deals : deals[i].day \notin d..today
        BY <2>2 DEF DealsOf
      <4>. QED BY <4>1, <4>2, <4>3 DEF DealsOf
    <3>. QED BY <2>2, <3>1 DEF CurrentPrice, LastPrice, Latest
  <2>. QED BY <2>1, <2>2
<1>. QED BY <1>1, InitCloseInv, NextCloseInv, InitPriceInv, NextPriceInv, PTL DEF Spec

(* While no update of the orders fails, whatever commits fail, threads die *)
(* and servers restart, a history row is written with the price of the     *)
(* latest deal (update_prodoct_history).                                   *)
THEOREM CurrentPriceWritten == Spec => CurrentIsLatestIfUpdated
<1>1. CloseInv /\ PriceInv /\ [Next]_vars => ["update" \notin faults => WritesLatest]_vars
  <2>. SUFFICES ASSUME CloseInv, PriceInv, Next, "update" \notin faults,
                       NEW d \in Day, history'[d] # history[d]
                PROVE  history'[d].current = Latest(0..today, IssuePrice)
    BY DEF WritesLatest
  <2>. USE DEF CloseInv, PriceInv
  <2>1. UpdateHistory
    BY DEF Next, BeginPass, Update, UpdateFails, Commit, CommitFails, PublishBoard,
           PublishCandles, Die, Restart, NextDay
  <2>2. d = today /\ history'[d] = HistoryRow(history[today], thread.current_price)
    BY <2>1 DEF UpdateHistory, Shapes
  <2>3. /\ thread.od \in Deal /\ thread.current_price = thread.od.price
        /\ Len(deals) > 0 /\ deals[Len(deals)] = thread.od /\ thread.od.day = today
    BY <2>1 DEF UpdateHistory, PassOfDeal, SessionOfToday, Shapes
  <2>4. history'[d].current = thread.od.price
    <3>1. thread.od.price # 0
      BY <2>3, MarketAssumption DEF Deal
    <3>. QED BY <2>2, <2>3, <3>1 DEF HistoryRow
  <2>5. Max(DealsOf(0..today)) = Len(deals) /\ DealsOf(0..today) # {}
    <3>1. Len(deals) \in Nat /\ DOMAIN deals = 1..Len(deals) /\ today \in Nat
      BY MarketAssumption DEF Shapes, Day
    <3>2. Len(deals) \in DealsOf(0..today) /\ DealsOf(0..today) \in SUBSET (1..Len(deals))
      BY <2>3, <3>1 DEF DealsOf
    <3>3. Max(DealsOf(0..today)) \in 1..Len(deals) /\ Max(DealsOf(0..today)) >= Len(deals)
      BY <3>1, <3>2, MaxOfPositions
    <3>. QED BY <3>1, <3>2, <3>3
  <2>. QED BY <2>3, <2>4, <2>5 DEF Latest
<1>. QED BY <1>1, InitCloseInv, NextCloseInv, InitPriceInv, NextPriceInv, PTL
         DEF Spec, CurrentIsLatestIfUpdated

-----------------------------------------------------------------------------
(* The types, and the totals of a row *)

(* Of finitely many numbers one is the greatest, and one the least. *)
LEMMA Extremes ==
  ASSUME NEW S \in SUBSET Nat, IsFiniteSet(S), S # {}
  PROVE  /\ Max(S) \in S /\ \A x \in S : Max(S) >= x
         /\ Min(S) \in S /\ \A x \in S : Min(S) <= x
<1> DEFINE Good(U) == \E m \in U : \A x \in U : m >= x
           Bad == {U \in SUBSET S : U # {} /\ ~Good(U)}
<1>1. Bad = {}
  <2>. SUFFICES ASSUME Bad # {} PROVE FALSE
    OBVIOUS
  <2>1. PICK U \in Bad : \A X \in SUBSET U : X # U => X \notin Bad
    <3>1. Bad \in SUBSET (SUBSET S)
      OBVIOUS
    <3>. HIDE DEF Bad
    <3>. QED BY <3>1, Smallest
  <2>2. U \in SUBSET S /\ U # {} /\ ~Good(U)
    BY <2>1
  <2>3. PICK e \in U : TRUE
    BY <2>2
  <2>. DEFINE R == U \ {e}
  <2>4. R # {}
    BY <2>2, <2>3
  <2>5. Good(R)
    BY <2>1, <2>2, <2>3, <2>4
  <2>6. PICK m \in R : \A x \in R : m >= x
    BY <2>5
  <2>7. m \in Nat /\ e \in Nat
    BY <2>2, <2>3, <2>6
  <2>8. Good(U)
    <3>1. CASE m >= e
      BY <2>3, <2>6, <3>1
    <3>2. CASE e >= m
      <4>1. \A x \in U : x \in Nat
        BY <2>2
      <4>2. \A x \in U : e >= x
        BY <2>6, <2>7, <3>2, <4>1
      <4>. QED BY <2>3, <4>2
    <3>. QED BY <2>7, <3>1, <3>2
  <2>. QED BY <2>2, <2>8
<1>2. Good(S)
  BY <1>1
<1>3. \E m \in S : \A x \in S : m <= x
  BY LeastNatural
<1>. QED BY <1>2, <1>3, Zenon DEF Max, Min

(* The deals of some days. *)
LEMMA DealsFinite ==
  ASSUME deals \in Seq(Deal), NEW D, D \subseteq DOMAIN deals
  PROVE  /\ IsFiniteSet(D)
         /\ \A i \in D : /\ deals[i].price \in Price /\ deals[i].price \in Nat \ {0}
                         /\ deals[i].volume \in Nat
                         /\ deals[i].price * deals[i].volume \in Nat
<1>1. D \subseteq 1..Len(deals) /\ Len(deals) \in Nat
  OBVIOUS
<1>2. IsFiniteSet(D)
  BY <1>1, FS_Interval, FS_Subset
<1>3. \A i \in D : deals[i] \in Deal
  OBVIOUS
<1>4. \A i \in D : /\ deals[i].price \in Price /\ deals[i].price \in Nat \ {0}
                   /\ deals[i].volume \in Nat
  BY <1>3, MarketAssumption DEF Deal
<1>5. \A a, b \in Nat : a * b \in Nat
  OBVIOUS
<1>. QED BY <1>2, <1>4, <1>5

(* Their totals; a total of more days has the wider range and the larger   *)
(* volume.                                                                 *)
LEMMA StatisticFacts ==
  ASSUME deals \in Seq(Deal), NEW d
  PROVE  /\ Statistic(d) \in Total
         /\ \A i \in DealsOf(d..today) :
              Statistic(d).min <= deals[i].price /\ deals[i].price <= Statistic(d).max
<1> DEFINE D == DealsOf(d..today)
           prices == {deals[i].price : i \in D}
           f == [i \in D |-> deals[i].volume]
           g == [i \in D |-> deals[i].price * deals[i].volume]
<1>1. D \subseteq DOMAIN deals
  BY DEF DealsOf
<1>2. /\ IsFiniteSet(D)
      /\ \A i \in D : /\ deals[i].price \in Nat \ {0} /\ deals[i].volume \in Nat
                      /\ deals[i].price * deals[i].volume \in Nat
  <2>. HIDE DEF D
  <2>. QED BY <1>1, DealsFinite
<1>3. SumFunction(f) \in Nat
  <2>1. IsFiniteSet(DOMAIN f) /\ \A x \in DOMAIN f : f[x] \in Nat
    BY <1>2
  <2>. HIDE DEF f
  <2>. QED BY <2>1, SumIsNat
<1>4. SumFunction(g) \in Nat
  <2>1. IsFiniteSet(DOMAIN g) /\ \A x \in DOMAIN g : g[x] \in Nat
    BY <1>2
  <2>. HIDE DEF g
  <2>. QED BY <2>1, SumIsNat
<1>5. CASE D = {}
  <2>1. Statistic(d) = [max |-> 0, min |-> 0, volume |-> 0, amount |-> 0]
    BY <1>5 DEF Statistic
  <2>. QED BY <1>5, <2>1 DEF Total
<1>6. CASE D # {}
  <2>1. Statistic(d) = [max |-> Max(prices), min |-> Min(prices),
                        volume |-> SumFunction(f), amount |-> SumFunction(g)]
    BY <1>6 DEF Statistic
  <2>2. prices \in SUBSET Nat /\ prices # {}
    BY <1>2, <1>6
  <2>3. IsFiniteSet(prices)
    <3>. DEFINE h == [i \in D |-> deals[i].price]
    <3>1. h \in Surjection(D, prices)
      BY DEF Surjection
    <3>. HIDE DEF D, h, prices
    <3>. QED BY <1>2, <3>1, FS_Surjection
  <2>4. /\ Max(prices) \in prices /\ \A x \in prices : Max(prices) >= x
        /\ Min(prices) \in prices /\ \A x \in prices : Min(prices) <= x
    <3>. HIDE DEF prices
    <3>. QED BY <2>2, <2>3, Extremes
  <2>5. Max(prices) \in Nat /\ Min(prices) \in Nat
    BY <2>2, <2>4
  <2>6. Statistic(d) \in Total
    <3>. HIDE DEF f, g, prices
    <3>. QED BY <1>3, <1>4, <2>1, <2>5 DEF Total
  <2>7. \A i \in D : deals[i].price \in prices
    OBVIOUS
  <2>. HIDE DEF prices, f, g, D
  <2>8. \A i \in D : Min(prices) <= deals[i].price /\ deals[i].price <= Max(prices)
    BY <1>2, <2>4, <2>5, <2>7
  <2>. QED BY <2>1, <2>6, <2>8 DEF D
<1>. QED BY <1>5, <1>6

LEMMA LatestNat ==
  ASSUME deals \in Seq(Deal), NEW days, NEW x \in Nat
  PROVE  Latest(days, x) \in Nat
<1>1. CASE DealsOf(days) = {}
  BY <1>1 DEF Latest
<1>2. CASE DealsOf(days) # {}
  <2>1. Len(deals) \in Nat /\ DealsOf(days) \in SUBSET (1..Len(deals))
    BY DEF DealsOf
  <2>2. Max(DealsOf(days)) \in 1..Len(deals)
    BY <1>2, <2>1, MaxOfPositions
  <2>3. deals[Max(DealsOf(days))] \in Deal
    BY <2>2
  <2>. QED BY <1>2, <2>3, MarketAssumption DEF Latest, Deal
<1>. QED BY <1>1, <1>2

LEMMA RowTyped ==
  ASSUME TypeOK, NEW row \in HRow \cup {None}, NEW price \in Nat
  PROVE  HistoryRow(row, price) \in HRow
<1>1. LastPrice \in Nat
  BY LatestNat, MarketAssumption DEF LastPrice, TypeOK
<1>2. Statistic(imported) \in Total
  BY StatisticFacts DEF TypeOK
<1>3. row # None => row.last \in Nat /\ row.open \in Nat /\ row.current \in Nat
  BY DEF HRow
<1>. DEFINE last == IF row = None THEN LastPrice ELSE row.last
            open == IF row = None THEN 0 ELSE row.open
            cur  == IF row = None THEN 0 ELSE row.current
<1>4. last \in Nat /\ open \in Nat /\ cur \in Nat
  BY <1>1, <1>3
<1>5. HistoryRow(row, price)
        = [last    |-> last,
           open    |-> IF open = 0 THEN price ELSE open,
           current |-> IF price # 0 THEN price ELSE IF cur = 0 THEN last ELSE cur,
           total   |-> Statistic(imported)]
  BY DEF HistoryRow
<1>. HIDE DEF last, open, cur
<1>. QED BY <1>2, <1>4, <1>5 DEF HRow

LEMMA CandleTyped ==
  ASSUME TypeOK, NEW d \in Day
  PROVE  Candle(d) \in [open: Nat, close: Nat, min: Nat, max: Nat] \cup {None}
<1>1. CASE history[d] = None
  BY <1>1 DEF Candle
<1>2. CASE history[d] # None
  <2>1. /\ history[d].open \in Nat /\ history[d].current \in Nat
        /\ history[d].total.min \in Nat /\ history[d].total.max \in Nat
    BY <1>2 DEF TypeOK, HRow, Total
  <2>. QED BY <1>2, <2>1 DEF Candle
<1>. QED BY <1>1, <1>2

LEMMA InitTyped == Init => TypeOK
<1>1. Init => today \in Day /\ 0 \in Day
  BY MarketAssumption DEF Init, Day
<1>. QED BY <1>1 DEF Init, TypeOK

LEMMA NextTyped == TypeOK /\ PassOfDeal /\ [Next]_vars => TypeOK'
<1>. SUFFICES ASSUME TypeOK, PassOfDeal, [Next]_vars PROVE TypeOK'
  OBVIOUS
<1>0. /\ today \in Nat /\ today <= MaxDay /\ MaxDay \in Nat /\ Price \subseteq Nat
      /\ today \in 0..today
  BY MarketAssumption DEF TypeOK, Day
<1>1. CASE BeginPass
  <2>1. PICK p \in Price, v \in Volume :
          thread' = [at |-> "update", od |-> [price |-> p, volume |-> v, day |-> today],
                     current_price |-> IF thread.start_date = today
                                       THEN thread.current_price ELSE 0,
                     start_date |-> today]
    BY <1>1 DEF BeginPass
  <2>2. [price |-> p, volume |-> v, day |-> today] \in Deal
    BY DEF Deal, TypeOK
  <2>3. UNCHANGED <<deals, history, board, candles, today, imported, faults>>
    BY <1>1 DEF BeginPass, shown
  <2>. QED BY <1>0, <2>1, <2>2, <2>3 DEF TypeOK
<1>2. CASE Update
  <2>1. thread.od.price \in Price
    BY <1>2 DEF Update, PassOfDeal, TypeOK, Deal
  <2>. QED BY <1>2, <2>1 DEF Update, TypeOK, shown
<1>3. CASE UpdateFails \/ CommitFails \/ Die
  <2>1. /\ faults' \subseteq Faults
        /\ UNCHANGED <<deals, history, board, candles, today, imported>>
    BY <1>3 DEF UpdateFails, CommitFails, Die, Fault, TypeOK, shown
  <2>2. \E a \in {"commit", "loop", "dead"} : thread' = [thread EXCEPT !.at = a, !.od = None]
    BY <1>3 DEF UpdateFails, CommitFails, Die
  <2>. QED BY <2>1, <2>2 DEF TypeOK
<1>4. CASE Commit
  BY <1>4 DEF Commit, TypeOK, shown
<1>5. CASE UpdateHistory
  <2>. DEFINE row == HistoryRow(history[today], thread.current_price)
  <2>1. row \in HRow
    BY <1>0, RowTyped DEF TypeOK
  <2>2. history' = [history EXCEPT ![today] = row] /\ thread' = [thread EXCEPT !.at = "board"]
        /\ UNCHANGED <<deals, board, candles, today, imported, faults>>
    BY <1>5 DEF UpdateHistory, shown
  <2>. HIDE DEF row
  <2>. QED BY <2>1, <2>2 DEF TypeOK
<1>6. CASE PublishBoard
  BY <1>6 DEF PublishBoard, TypeOK
<1>7. CASE PublishCandles
  <2>1. candles' \in [Day -> [open: Nat, close: Nat, min: Nat, max: Nat] \cup {None}]
    BY <1>7, CandleTyped DEF PublishCandles
  <2>. QED BY <1>7, <2>1 DEF PublishCandles, TypeOK
<1>8. CASE Restart
  BY <1>0, <1>8 DEF Restart, NewThread, Fault, TypeOK, shown
<1>9. CASE NextDay
  <2>1. today' = today + 1 /\ today' \in Day /\ 0..today \subseteq 0..today'
    BY <1>0, <1>9 DEF NextDay, Day
  <2>. QED BY <1>9, <2>1 DEF NextDay, TypeOK, shown
<1>10. CASE UNCHANGED vars
  BY <1>10 DEF vars, TypeOK
<1>. QED BY <1>1, <1>2, <1>3, <1>4, <1>5, <1>6, <1>7, <1>8, <1>9, <1>10 DEF Next

(* The rows, the keys and the thread keep their types; the totals of a row *)
(* are numbers whatever deals they are of.                                 *)
THEOREM TypeCorrect == Spec => []TypeOK
<1>1. PriceInv => PassOfDeal
  BY DEF PriceInv
<1>. QED
  BY <1>1, InitTyped, NextTyped, InitCloseInv, NextCloseInv, InitPriceInv, NextPriceInv, PTL
     DEF Spec

-----------------------------------------------------------------------------
(* Candles *)

(* While no update fails, every row is of a day that was dealt: it opens   *)
(* at the price of one of the deals of the day, and within its totals.     *)
Within(row) ==
  /\ row.open # 0
  /\ row.total.min <= row.open    /\ row.open    <= row.total.max
  /\ row.total.min <= row.current /\ row.current <= row.total.max

RowsOfDeals ==
  "update" \notin faults =>
    \A d \in Day : history[d] # None =>
      /\ Within(history[d])
      /\ \E i \in DealsOf({d}) : deals[i].price = history[d].open

MarketInv == TypeOK /\ CloseInv /\ PriceInv /\ RowsOfDeals /\ CandlesSound

LEMMA FaultsGrow ==
  ASSUME TypeOK, [Next]_vars
  PROVE  faults \subseteq faults'
BY DEF Next, BeginPass, Update, UpdateFails, Commit, CommitFails, UpdateHistory,
       PublishBoard, PublishCandles, Die, Restart, NextDay, Fault, vars

(* A row keeps its deal. *)
LEMMA DealsStay ==
  ASSUME TypeOK, [Next]_vars, NEW d, NEW i \in DealsOf({d})
  PROVE  i \in DealsOf({d})' /\ deals'[i] = deals[i]
<1>1. i \in DOMAIN deals /\ deals[i].day \in {d}
  BY DEF DealsOf
<1>2. \A e \in Deal : i \in DOMAIN Append(deals, e) /\ Append(deals, e)[i] = deals[i]
  BY <1>1 DEF TypeOK
<1>3. i \in DOMAIN deals' /\ deals'[i] = deals[i]
  <2>1. CASE Commit
    BY <1>1, <1>2, <2>1 DEF Commit, TypeOK
  <2>2. CASE ~Commit
    BY <1>1, <2>2 DEF Next, BeginPass, Update, UpdateFails, CommitFails, UpdateHistory,
       PublishBoard, PublishCandles, Die, Restart, NextDay, vars
  <2>. QED BY <2>1, <2>2
<1>. QED BY <1>1, <1>3 DEF DealsOf

(* The row written in a pass that committed its deal. *)
LEMMA RowWritten ==
  ASSUME MarketInv, UpdateHistory, thread.od # None
  PROVE  /\ today \in Day /\ history'[today].current = thread.od.price
         /\ history'[today].total = Statistic(imported)
         /\ thread.od.price \in Nat \ {0}
         /\ history'[today].open = (IF history[today] = None \/ history[today].open = 0
                                    THEN thread.od.price ELSE history[today].open)
         /\ Len(deals) \in DealsOf({today}) /\ deals[Len(deals)] = thread.od
         /\ DealsOf({today}) \subseteq DealsOf(imported..today)
<1>. USE DEF MarketInv
<1>1. /\ thread.od \in Deal /\ thread.current_price = thread.od.price
      /\ Len(deals) > 0 /\ deals[Len(deals)] = thread.od /\ thread.od.day = today
  BY DEF UpdateHistory, CloseInv, PriceInv, PassOfDeal, SessionOfToday, Shapes
<1>2. thread.od.price \in Nat \ {0} /\ today \in Day
  BY <1>1, MarketAssumption DEF Deal, TypeOK
<1>3. history'[today] = HistoryRow(history[today], thread.od.price)
  BY <1>1, <1>2 DEF UpdateHistory, TypeOK
<1>4. /\ history'[today].current = thread.od.price
      /\ history'[today].total = Statistic(imported)
      /\ history'[today].open = (IF history[today] = None \/ history[today].open = 0
                                 THEN thread.od.price ELSE history[today].open)
  BY <1>2, <1>3 DEF HistoryRow
<1>5. Len(deals) \in DealsOf({today})
  BY <1>1 DEF DealsOf, TypeOK
<1>6. today \in imported..today
  BY MarketAssumption DEF TypeOK, Day
<1>7. DealsOf({today}) \subseteq DealsOf(imported..today)
  BY <1>6 DEF DealsOf
<1>. QED BY <1>1, <1>2, <1>4, <1>5, <1>7

LEMMA RowsOfDealsKept ==
  ASSUME MarketInv, [Next]_vars
  PROVE  RowsOfDeals'
<1>. SUFFICES ASSUME "update" \notin faults', NEW d \in Day, history'[d] # None
              PROVE  /\ Within(history'[d])
                     /\ \E i \in DealsOf({d})' : deals'[i].price = history'[d].open
  BY DEF RowsOfDeals, Within
<1>1. "update" \notin faults /\ TypeOK
  BY FaultsGrow DEF MarketInv
<1>2. CASE history'[d] = history[d]
  <2>1. Within(history[d]) /\ \E i \in DealsOf({d}) : deals[i].price = history[d].open
    BY <1>1, <1>2 DEF MarketInv, RowsOfDeals
  <2>2. PICK i \in DealsOf({d}) : deals[i].price = history[d].open
    BY <2>1
  <2>3. i \in DealsOf({d})' /\ deals'[i] = deals[i]
    BY <1>1, DealsStay
  <2>. QED BY <1>2, <2>1, <2>2, <2>3
<1>3. CASE history'[d] # history[d]
  <2>1. UpdateHistory
    BY <1>3 DEF Next, BeginPass, Update, UpdateFails, Commit, CommitFails, PublishBoard,
           PublishCandles, Die, Restart, NextDay, vars
  <2>2. d = today /\ thread.od # None /\ UNCHANGED deals
    BY <1>1, <1>3, <2>1 DEF UpdateHistory, TypeOK, MarketInv, PriceInv, PassOfDeal
  <2>3. /\ history'[d].current = thread.od.price
        /\ history'[d].total = Statistic(imported)
        /\ thread.od.price \in Nat \ {0}
        /\ history'[d].open = (IF history[d] = None \/ history[d].open = 0
                               THEN thread.od.price ELSE history[d].open)
        /\ Len(deals) \in DealsOf({d}) /\ deals[Len(deals)] = thread.od
        /\ DealsOf({d}) \subseteq DealsOf(imported..today)
    BY <2>1, <2>2, RowWritten
  <2>4. PICK i \in DealsOf({d}) : deals[i].price = history'[d].open
    <3>1. CASE history[d] = None \/ history[d].open = 0
      BY <2>3, <3>1
    <3>2. CASE history[d] # None /\ history[d].open # 0
      BY <1>1, <2>3, <3>2 DEF MarketInv, RowsOfDeals
    <3>. QED BY <3>1, <3>2
  <2>5. \A j \in DealsOf({d}) : Statistic(imported).min <= deals[j].price
                                /\ deals[j].price <= Statistic(imported).max
    BY <1>1, <2>3, StatisticFacts DEF TypeOK
  <2>6. deals[i].price # 0
    <3>1. DealsOf({d}) \subseteq DOMAIN deals
      BY DEF DealsOf
    <3>. QED BY <1>1, <3>1, DealsFinite DEF TypeOK
  <2>7. Within(history'[d])
    BY <2>3, <2>4, <2>5, <2>6 DEF Within
  <2>8. DealsOf({d})' = DealsOf({d})
    BY <2>2 DEF DealsOf
  <2>. QED BY <2>2, <2>4, <2>7, <2>8
<1>. QED BY <1>2, <1>3

LEMMA CandlesKept ==
  ASSUME MarketInv, [Next]_vars
  PROVE  CandlesSound'
<1>1. "update" \notin faults' => "update" \notin faults
  BY FaultsGrow DEF MarketInv
<1>2. CASE PublishCandles
  <2>. SUFFICES ASSUME "update" \notin faults', NEW d \in Day, candles'[d] # None
                PROVE  /\ candles'[d].min <= candles'[d].open  /\ candles'[d].open  <= candles'[d].max
                       /\ candles'[d].min <= candles'[d].close /\ candles'[d].close <= candles'[d].max
    BY DEF CandlesSound
  <2>1. candles'[d] = Candle(d) /\ history[d] # None
    BY <1>2 DEF PublishCandles, Candle
  <2>2. Within(history[d])
    BY <1>1, <2>1 DEF MarketInv, RowsOfDeals
  <2>3. candles'[d] = [open |-> history[d].open, close |-> history[d].current,
                       min |-> history[d].total.min, max |-> history[d].total.max]
    BY <2>1, <2>2 DEF Candle, Within
  <2>. QED BY <2>2, <2>3 DEF Within
<1>3. CASE ~PublishCandles
  <2>1. candles' = candles
    BY <1>3 DEF Next, BeginPass, Update, UpdateFails, Commit, CommitFails, UpdateHistory,
       PublishBoard, Die, Restart, NextDay, vars, shown
  <2>. QED BY <1>1, <2>1 DEF MarketInv, CandlesSound
<1>. QED BY <1>2, <1>3

LEMMA InitMarket == Init => MarketInv
<1>1. Init => RowsOfDeals /\ CandlesSound
  BY DEF Init, RowsOfDeals, CandlesSound
<1>. QED BY <1>1, InitTyped, InitCloseInv, InitPriceInv DEF MarketInv

LEMMA NextMarket == MarketInv /\ [Next]_vars => MarketInv'
BY NextTyped, NextCloseInv, NextPriceInv, RowsOfDealsKept, CandlesKept DEF MarketInv, PriceInv

(* As long as no update failed every candle of the chart is one: it opens  *)
(* and closes within its range, whatever passes failed to commit, threads  *)
(* died and servers restarted, and from whichever day the totals count.    *)
THEOREM CandlesAreSound == Spec => []CandlesSound
<1>1. MarketInv => CandlesSound
  BY DEF MarketInv
<1>. QED BY <1>1, InitMarket, NextMarket, PTL DEF Spec

(* The row written after a committed deal has its price, and totals that   *)
(* miss no deal of the day, whatever went wrong before it.                 *)
THEOREM HistoryIsHealed == Spec => HistoryHeals
<1>1. ASSUME MarketInv, [Next]_vars
      PROVE  [thread.od # None /\ thread.at = "history" /\ thread'.at = "board" =>
               LET row == history'[today]
               IN /\ row.current = Latest({today}, 0)
                  /\ row.total.volume >= Statistic(today).volume
                  /\ row.total.max >= Statistic(today).max /\ row.total.min <= Statistic(today).min
                  /\ imported = today => row.total = Statistic(today)]_vars
  <2>. SUFFICES ASSUME Next, thread.od # None, thread.at = "history", thread'.at = "board"
                PROVE  /\ history'[today].current = Latest({today}, 0)
                       /\ history'[today].total.volume >= Statistic(today).volume
                       /\ history'[today].total.max >= Statistic(today).max
                       /\ history'[today].total.min <= Statistic(today).min
                       /\ imported = today => history'[today].total = Statistic(today)
    BY <1>1 DEF vars
  <2>1. UpdateHistory
    <3>1. ~Die
      BY <1>1 DEF Die, MarketInv, TypeOK
    <3>. QED BY <3>1 DEF Next, BeginPass, Update, UpdateFails, Commit, CommitFails, PublishBoard,
                         PublishCandles, Restart, NewThread, NextDay
  <2>2. /\ history'[today].current = thread.od.price
        /\ history'[today].total = Statistic(imported)
        /\ Len(deals) \in DealsOf({today}) /\ deals[Len(deals)] = thread.od
        /\ DealsOf({today}) \subseteq DealsOf(imported..today)
    BY <1>1, <2>1, RowWritten
  <2>3. deals \in Seq(Deal) /\ today \in Nat /\ DealsOf(today..today) = DealsOf({today})
    <3>1. deals \in Seq(Deal) /\ today \in Nat
      BY <1>1, MarketAssumption DEF MarketInv, TypeOK, Day
    <3>2. today..today = {today}
      BY <3>1
    <3>. QED BY <3>1, <3>2
  <2>4. Latest({today}, 0) = thread.od.price
    <3>1. DealsOf({today}) \in SUBSET (1..Len(deals)) /\ Len(deals) \in Nat
      BY <2>3 DEF DealsOf
    <3>2. Max(DealsOf({today})) \in DealsOf({today}) /\ Max(DealsOf({today})) >= Len(deals)
      BY <2>2, <3>1, MaxOfPositions
    <3>3. Max(DealsOf({today})) \in 1..Len(deals)
      BY <3>1, <3>2, Zenon
    <3>4. Max(DealsOf({today})) = Len(deals)
      <4>1. \A m \in 1..Len(deals) : m >= Len(deals) => m = Len(deals)
        BY <3>1
      <4>. QED BY <3>2, <3>3, <4>1, Zenon
    <3>. QED BY <2>2, <3>4 DEF Latest
  <2>. DEFINE S == DealsOf(imported..today)
              T == DealsOf(today..today)
              f == [i \in S |-> deals[i].volume]
              g == [i \in T |-> deals[i].volume]
  <2>5. S \subseteq DOMAIN deals /\ T \subseteq S /\ T # {} /\ S # {}
    BY <2>2, <2>3 DEF DealsOf
  <2>6. IsFiniteSet(S) /\ \A i \in S : deals[i].volume \in Nat
    <3>. HIDE DEF S
    <3>. QED BY <2>3, <2>5, DealsFinite
  <2>7. SumFunction(g) <= SumFunction(f)
    <3>1. IsFiniteSet(DOMAIN f) /\ (\A x \in DOMAIN f : f[x] \in Nat)
          /\ DOMAIN g \subseteq DOMAIN f /\ \A x \in DOMAIN g : g[x] = f[x]
      BY <2>5, <2>6
    <3>. HIDE DEF f, g
    <3>. QED BY <3>1, SumOfMore
  <2>8. Statistic(imported).volume = SumFunction(f) /\ Statistic(today).volume = SumFunction(g)
    BY <2>5 DEF Statistic
  <2>9. /\ Statistic(imported) \in Total /\ Statistic(today) \in Total
        /\ \A i \in S : Statistic(imported).min <= deals[i].price
                        /\ deals[i].price <= Statistic(imported).max
    BY <2>3, StatisticFacts
  <2>10. \E i, j \in T : Statistic(today).max = deals[i].price /\ Statistic(today).min = deals[j].price
    <3>. DEFINE prices == {deals[i].price : i \in T}
    <3>1. Statistic(today).max = Max(prices) /\ Statistic(today).min = Min(prices)
      BY <2>5 DEF Statistic
    <3>2. Max(prices) \in prices /\ Min(prices) \in prices
      <4>1. IsFiniteSet(T) /\ \A i \in T : deals[i].price \in Nat
        <5>1. T \subseteq DOMAIN deals
          BY <2>5
        <5>. HIDE DEF T
        <5>. QED BY <2>3, <5>1, DealsFinite
      <4>2. prices \in SUBSET Nat /\ prices # {}
        BY <2>5, <4>1
      <4>3. [i \in T |-> deals[i].price] \in Surjection(T, prices)
        BY DEF Surjection
      <4>. HIDE DEF T, prices
      <4>4. IsFiniteSet(prices)
        BY <4>1, <4>3, FS_Surjection
      <4>. QED BY <4>2, <4>4, Extremes
    <3>. HIDE DEF T
    <3>. QED BY <3>1, <3>2
  <2>11. Statistic(imported).max >= Statistic(today).max /\ Statistic(imported).min <= Statistic(today).min
    <3>. HIDE DEF S, T
    <3>1. PICK i, j \in T : Statistic(today).max = deals[i].price /\ Statistic(today).min = deals[j].price
      BY <2>10
    <3>2. i \in S /\ j \in S
      BY <2>5
    <3>. QED BY <2>9, <3>1, <3>2 DEF Total
  <2>12. Statistic(imported).volume >= Statistic(today).volume
    <3>. HIDE DEF f, g
    <3>. QED BY <2>7, <2>8, <2>9 DEF Total
  <2>. HIDE DEF S, T, f, g
  <2>. QED BY <2>2, <2>4, <2>11, <2>12
<1>. QED BY <1>1, InitMarket, NextMarket, PTL DEF Spec, HistoryHeals
=============================================================================
