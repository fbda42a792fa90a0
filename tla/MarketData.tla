----------------------------- MODULE MarketData ------------------------------
(***************************************************************************)
(* What the matching thread of one product writes after its deals: the row *)
(* of the day in wx_product_history, in a transaction of its own after the *)
(* one that commits the deal, and from it the Redis keys the pages show.   *)
(*                                                                         *)
(* Only this thread writes them.  The selection of the orders is that of   *)
(* Trading; here a pass has found a pair and deals it at some price.  The  *)
(* day changes between passes, as trading ends hours before midnight.      *)
(***************************************************************************)
EXTENDS Integers, Sequences, FiniteSetsExt

CONSTANTS
  Price,      \* prices of deals
  Volume,     \* volumes of deals
  IssuePrice, \* issue_price of the product
  None,       \* no deal, no history row, nothing published
  Faults,     \* what may go wrong, each once, a subset of AllFaults
  MaxDeals,   \* bound of the deals
  MaxDay      \* bound of the days

(* update:  an UPDATE of the orders fails and the transaction rolls back   *)
(* commit:  the COMMIT of the deal fails                                   *)
(* death:   a statement after it fails, which nothing catches (a failing   *)
(*          commit raises again in its handler, which reads e.arg)         *)
(* restart: the matching server is killed and started again                *)
AllFaults == {"update", "commit", "death", "restart"}

ASSUME MarketAssumption ==
  /\ Price \subseteq Nat \ {0} /\ Volume \subseteq Nat \ {0}
  /\ IssuePrice \in Nat \ {0}
  /\ Faults \subseteq AllFaults
  /\ MaxDeals \in Nat /\ MaxDay \in Nat
  /\ None \notin [price: Price, volume: Volume, day: 0..MaxDay]

VARIABLES
  deals,     \* wx_order_deal of the product, by id
  history,   \* the rows of wx_product_history, by work_date
  board,     \* REDIS_KEY_FOR_GENERAL_DATA_
  candles,   \* REDIS_KEY_FOR_CHART_K_DATA_, by date
  today,
  imported,  \* the day ProductHandler was imported by the matching server
  thread,    \* place, deal in the session, current_price, start_date
  faults     \* what went wrong so far

vars == <<deals, history, board, candles, today, imported, thread, faults>>
shown == <<board, candles>>

Day  == 0..MaxDay
Deal == [price: Price, volume: Volume, day: Day]

NewThread == [at |-> "loop", od |-> None, current_price |-> 0, start_date |-> today]

Init ==
  /\ deals = <<>>
  /\ history = [d \in Day |-> None]
  /\ board = None
  /\ candles = [d \in Day |-> None]
  /\ today = 0 /\ imported = 0
  /\ thread = [at |-> "loop", od |-> None, current_price |-> 0, start_date |-> 0]
  /\ faults = {}

Fault(f) == f \in Faults \ faults /\ faults' = faults \cup {f}

-----------------------------------------------------------------------------
(* The queries *)

DealsOf(days) == {i \in DOMAIN deals : deals[i].day \in days}

(* The price of the deal with the highest id. *)
Latest(days, default) ==
  IF DealsOf(days) = {} THEN default ELSE deals[Max(DealsOf(days))].price

(* Fault: today's deals count too. *)
LastPriceToday == Latest(0..today, IssuePrice)

(* Common.get_last_price; the default of its parameter is never used, as   *)
(* date.today() is the class method even on an instance.                   *)
LastPrice == Latest(0..(today - 1), IssuePrice)

(* Fault: ORDER BY id ASC. *)
CurrentPriceFirst(d) ==
  IF DealsOf(d..today) = {} THEN LastPrice ELSE deals[Min(DealsOf(d..today))].price

(* Common.get_current_price, its default date d evaluated at the import.   *)
CurrentPrice(d) == Latest(d..today, LastPrice)

(* get_statistic_total of the deals since day d. *)
Statistic(d) ==
  LET D      == DealsOf(d..today)
      prices == {deals[i].price : i \in D}
  IN IF D = {} THEN [max |-> 0, min |-> 0, volume |-> 0, amount |-> 0]
     ELSE [max    |-> Max(prices),
           min    |-> Min(prices),
           volume |-> SumFunction([i \in D |-> deals[i].volume]),
           amount |-> SumFunction([i \in D |-> deals[i].price * deals[i].volume])]

-----------------------------------------------------------------------------
(* The matching thread *)

(* Top of the loop, and a pair is found. *)
BeginPass ==
  /\ thread.at = "loop"
  /\ Len(deals) < MaxDeals
  /\ \E p \in Price, v \in Volume :
       thread' = [at            |-> "update",
                  od            |-> [price |-> p, volume |-> v, day |-> today],
                  current_price |-> IF thread.start_date = today
                                    THEN thread.current_price ELSE 0,
                  start_date    |-> today]
  /\ UNCHANGED <<deals, history, shown, today, imported, faults>>

(* Both orders are updated, the new deal is in the session. *)
Update ==
  /\ thread.at = "update"
  /\ thread' = [thread EXCEPT !.at = "commit", !.current_price = thread.od.price]
  /\ UNCHANGED <<deals, history, shown, today, imported, faults>>

(* Rolled back; current_price is as it was and the pass goes on. *)
UpdateFails ==
  /\ thread.at = "update"
  /\ Fault("update")
  /\ thread' = [thread EXCEPT !.at = "commit", !.od = None]
  /\ UNCHANGED <<deals, history, shown, today, imported>>

(* Fault: the deal is not dropped by the rollback. *)
CommitRolledBack ==
  /\ thread.at = "commit"
  /\ deals' = Append(deals, thread.od)
  /\ thread' = [thread EXCEPT !.at = "history"]
  /\ UNCHANGED <<history, shown, today, imported, faults>>

(* The commit, of an empty transaction after a rollback. *)
Commit ==
  /\ thread.at = "commit"
  /\ deals' = IF thread.od = None THEN deals ELSE Append(deals, thread.od)
  /\ thread' = [thread EXCEPT !.at = "history"]
  /\ UNCHANGED <<history, shown, today, imported, faults>>

CommitFails ==
  /\ thread.at = "commit"
  /\ Fault("commit")
  /\ thread' = [thread EXCEPT !.at = "loop", !.od = None]
  /\ UNCHANGED <<deals, history, shown, today, imported>>

(* The row of today before its totals: made, or brought up to date. *)
HistoryRow(row, price) ==
  LET last == IF row = None THEN LastPrice ELSE row.last
      open == IF row = None THEN 0 ELSE row.open
      cur  == IF row = None THEN 0 ELSE row.current
  IN [last    |-> last,
      open    |-> IF open = 0 THEN price ELSE open,
      current |-> IF price # 0 THEN price ELSE IF cur = 0 THEN last ELSE cur,
      total   |-> Statistic(imported)]

(* Fault: only the totals of a row that exists are updated. *)
UpdateHistoryTotals ==
  /\ thread.at = "history"
  /\ history' = [history EXCEPT ![today] =
                   IF @ = None THEN HistoryRow(@, thread.current_price)
                   ELSE [@ EXCEPT !.total = Statistic(imported)]]
  /\ thread' = [thread EXCEPT !.at = "board"]
  /\ UNCHANGED <<deals, shown, today, imported, faults>>

(* Fault: the totals are computed only when the row is made. *)
UpdateHistoryOnce ==
  /\ thread.at = "history"
  /\ history' = [history EXCEPT ![today] =
                   IF @ = None THEN HistoryRow(@, thread.current_price)
                   ELSE [@ EXCEPT !.current = thread.current_price]]
  /\ thread' = [thread EXCEPT !.at = "board"]
  /\ UNCHANGED <<deals, shown, today, imported, faults>>

(* update_prodoct_history *)
UpdateHistory ==
  /\ thread.at = "history"
  /\ history' = [history EXCEPT ![today] = HistoryRow(@, thread.current_price)]
  /\ thread' = [thread EXCEPT !.at = "board"]
  /\ UNCHANGED <<deals, shown, today, imported, faults>>

(* set_app_product_info_to_redis *)
PublishBoard ==
  /\ thread.at = "board"
  /\ board' = history[today]
  /\ thread' = [thread EXCEPT !.at = "candles"]
  /\ UNCHANGED <<deals, history, candles, today, imported, faults>>

(* A day as set_k_data_to_redis draws it; today is flat until it is opened. *)
Candle(d) ==
  LET row == history[d]
  IN IF row = None THEN None
     ELSE IF d = today /\ row.open = 0
          THEN [open |-> row.current, close |-> row.current,
                min |-> row.current, max |-> row.current]
          ELSE [open |-> row.open, close |-> row.current,
                min |-> row.total.min, max |-> row.total.max]

PublishCandles ==
  /\ thread.at = "candles"
  /\ candles' = [d \in Day |-> Candle(d)]
  /\ thread' = [thread EXCEPT !.at = "loop", !.od = None]
  /\ UNCHANGED <<deals, history, board, today, imported, faults>>

(* One of the statements after the commit fails and ends the thread. *)
Die ==
  /\ thread.at \in {"history", "board", "candles"}
  /\ Fault("death")
  /\ thread' = [thread EXCEPT !.at = "dead", !.od = None]
  /\ UNCHANGED <<deals, history, shown, today, imported>>

Restart ==
  /\ Fault("restart")
  /\ thread' = NewThread
  /\ imported' = today
  /\ UNCHANGED <<deals, history, shown, today>>

NextDay ==
  /\ today < MaxDay
  /\ thread.at \in {"loop", "dead"}
  /\ today' = today + 1
  /\ UNCHANGED <<deals, history, shown, imported, thread, faults>>

Next ==
  \/ BeginPass \/ Update \/ UpdateFails \/ Commit \/ CommitFails
  \/ UpdateHistory \/ PublishBoard \/ PublishCandles \/ Die
  \/ Restart \/ NextDay

Spec == Init /\ [][Next]_vars

-----------------------------------------------------------------------------
(* Properties *)

Total == [max: Nat, min: Nat, volume: Nat, amount: Nat]
HRow  == [last: Nat, open: Nat, current: Nat, total: Total]

TypeOK ==
  /\ deals \in Seq(Deal)
  /\ history \in [Day -> HRow \cup {None}]
  /\ board \in HRow \cup {None}
  /\ candles \in [Day -> [open: Nat, close: Nat, min: Nat, max: Nat] \cup {None}]
  /\ today \in Day /\ imported \in 0..today
  /\ thread \in [at: {"loop", "update", "commit", "history", "board", "candles", "dead"},
                 od: Deal \cup {None}, current_price: Price \cup {0}, start_date: 0..today]
  /\ faults \subseteq Faults

(* last_price is the closing price of the days before, by whatever passes, *)
(* failures and restarts the row came to be (ProductHistory: "yesterday's  *)
(* closing price").  The bounds of every new order are computed from it.   *)
LastPriceIsClose ==
  \A d \in Day : history[d] # None
    => history[d].last = Latest(0..(d - 1), IssuePrice)

(* The date that get_current_price got as a default when its process was   *)
(* started does no harm, however old it is.                                *)
CurrentPriceAgrees == \A d \in 0..today : CurrentPrice(d) = Latest(0..today, IssuePrice)

(* Whatever went wrong before, the row written after a committed deal has  *)
(* the price of that deal, and totals that miss no deal of the day; they   *)
(* are the totals of the day if the server was started on it.              *)
HistoryHeals ==
  [][thread.od # None /\ thread.at = "history" /\ thread'.at = "board" =>
       LET row == history'[today]
       IN /\ row.current = Latest({today}, 0)
          /\ row.total.volume >= Statistic(today).volume
          /\ row.total.max >= Statistic(today).max /\ row.total.min <= Statistic(today).min
          /\ imported = today => row.total = Statistic(today)]_vars

(* As long as no update failed, every candle of the chart is one: the day  *)
(* opens and closes within its range, whatever else goes wrong.            *)
CandlesSound ==
  "update" \notin faults =>
    \A d \in Day : candles[d] # None =>
      /\ candles[d].min <= candles[d].open  /\ candles[d].open  <= candles[d].max
      /\ candles[d].min <= candles[d].close /\ candles[d].close <= candles[d].max

(* current_price of a row is the price of the latest deal (ProductHistory: *)
(* "price of the latest deal") when it is written.                         *)
WritesLatest ==
  \A d \in Day : history'[d] # history[d]
    => history'[d].current = Latest(0..today, IssuePrice)

CurrentIsLatest == [][WritesLatest]_vars

(* It is, as long as no update failed.                                     *)
CurrentIsLatestIfUpdated == []["update" \notin faults => WritesLatest]_vars
=============================================================================
