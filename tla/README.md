# Specifications of the wxpm trading system

This directory models `src/wxpm-server-new1225`, a small stock exchange: users place sales and buys of products through
a Tornado web server, a matching server deals the orders that cross, and both share a MySQL database and a Redis
instance. It also models the parts of Tornado (`src/tornado-master/tornado`, kept in the repository) that carry these
servers: loops, coroutines, queues, streams, the HTTP server and clients, websockets, processes. The modules are TLA+;
TLC checks them on small instances and TLAPS proves the main safety properties for all instances. Paths of the exchange
are relative to `src/wxpm-server-new1225`, those of Tornado to `src/tornado-master/tornado`.

## 1. Inventory

`wxserver.sh` starts two processes, `WebServer.py` and `MatchingServer.py`. The web server handles one request at a time
on one thread. The matching server has an event loop on its main thread and one worker thread per product.

### The exchange

| component | state | operations | interacts with |
|---|---|---|---|
| order book (`ORM/Tables/Order.py`, `OrderDeal.py`) | rows of `wx_order`, `wx_order_deal` | insert, status change, fill | written by the web server and by every matching thread |
| order entry and cancel (`Commands/OrderHandler.py`) | one transaction per request | `insert_buy_order`, `insert_sale_order`, `do_cancel` | book (row locks), exchange hours, funds; then a message on `chan:matching` |
| matching (`MatchingServer.start_one_by_one`) | session of the thread, the two rows read, `current_price`, `no_matching` | read sale, read buy, deal, commit or rollback | book (row locks), market data, Redis |
| dispatch (`MatchingServer.run`, `reader`, `try_matching`, `start_workers`) | `_actives`, `_queues`, the Redis connections | start a thread, queue a message | Redis pub/sub from the web server, queues to the threads |
| market data (`ProductHandler.update_prodoct_history`, `set_*_to_redis`) | `wx_product_history`, Redis keys | update after every deal | deals, `current_price` of the thread |
| funds and holdings (`Commands/UserHandler.py`) | derived: sums over money, deals, orders, withdrawals | `get_can_used_money`, `get_can_sale_asset_volume`, `get_can_withdraw_money` | read by order entry and by the withdrawal page |
| web session, message board, praise, addresses (`WebServer.py`) | one ORM session for all handlers; praise rows, a counter, a default flag | praise, un-praise, post, store an address | every handler that uses `self.session` |
| TCP broadcast server (`Server.py`) | connections, one listener of a Redis channel | read a command, write an update to all | Redis; started by nothing |
| older matching loop (`MatchingServer.start`) | rows of both sides, one transaction | match in two nested loops | book; superseded by `start_one_by_one` |
| referral tree (`UserHandler.get_suns`) | `referrer_id` of the users | count the descendants | - |
| registration, login, bank cards, product pages, websocket commands | rows and cookies | single inserts, read-only queries | - |
| legacy commands (`Commands/UserBuy.py` ...), B2c (Laravel), pages and scripts | - | - | called by nothing, or separate |

### Tornado

| component | state | operations |
|---|---|---|
| event loops (`ioloop.py`, `platform/asyncio.py`) | callbacks, timers, handlers of descriptors, the waker | `start`, `stop`, `add_callback` (from threads and signals), `call_at`, handlers; `PeriodicCallback`; `run_sync` |
| queues and locks (`queues.py`, `locks.py`) | items or permits, deques of waiters that may be dead | `put`, `get`, `join`, `acquire`, `release`, `wait`, `notify`, timeouts, cancels |
| coroutines (`gen.py`, `concurrent.py`, `stack_context.py`) | what a generator waits for, futures, captured contexts | yield, run, resolve; `multi`, `WaitIterator`, `with_timeout`; executors; `wrap`, deactivation |
| streams (`iostream.py`) | buffers, pending reads and writes, the registration on the loop | reads, writes, connect, TLS handshake, close |
| HTTP server (`http1connection.py`, `web.py`, `routing.py`) | the request on a connection, a handler and what it has written | read, answer, detach, close; files, cookies, routes |
| websockets (`websocket.py`) | messages, pings, the closing handshake | both ends |
| clients (`simple_httpclient.py`, `curl_httpclient.py`, `tcpclient.py`, `httpclient.py`) | a queue and slots, timers, a pool of handles, a cache of clients | `fetch`, redirects, timeouts, connect to two families, close |
| servers and processes (`tcpserver.py`, `netutil.py`, `process.py`) | listening sockets, children, exit callbacks | accept, stop, fork, wait |
| the rest (templates, logins of third parties, options, locales, logging, test support, other loops) | next to none | conversions and adapters |

What is hard in it:

* **Concurrency.** A web process and a matching thread write the same rows. The code decides new statuses from rows it
  read in earlier statements and relies on `SELECT ... FOR UPDATE` for them to be unchanged at the commit. Threads of
  several products scan the same table. Handlers share one ORM session.
* **Failure.** A read may lose its connection or time out, an update or a commit may fail, the server may be killed
  between any two statements, a thread may die of an exception outside its `try` blocks.
* **Delivery.** A thread that found nothing sleeps until its queue has a message; messages travel over a pub/sub channel
  that keeps nothing.
* **Time.** Orders are of their day; passes, hours and midnight interleave. Prices of deals depend on which order is
  older.
* **Derived state.** Funds are sums over tables that the matching thread is changing; market data is written after the
  deal, in another transaction; the praise counter is written apart from the praise rows.
* **Callbacks.** In Tornado everything happens on one thread, but between a decision and the callback that acts on it
  anything else may run: waiters time out, descriptors are closed and used again, streams close, timers race with
  answers, processes end and their pids come back.

What makes each part correct: orders and deals agree, no order is dealt beyond its volume or limit, deals respect price
and time priority, a confirmed cancel holds (order book, entry, matching); no pair that crosses is left waiting
(dispatch); the history row shows the deals that were made (market data); no admission lets a user spend the same money
or holdings twice (funds); the counter equals the rows, and there is at most one default address (web session); nobody
waits in vain, whatever is asked is answered once, and what one step has closed or given up the next one does not use
(Tornado). The file `PROJECT.json` lists every component and, under `hazards`, each of these dangers at its line.

## 2. Plan

All of the plan is done:

1. `OrderBook`, `Exchange`, `Trading`, `Trading_proofs`: orders, matching, cancels, down to statements and row locks.
2. `Dispatch`: from commit to match.
3. `Funds`, `Funds_proofs`: the admission checks in several sessions against a matching thread and the back office.
4. `MarketData`, `MarketData_proofs`: the history row after deals, failed deals, restarts and changes of day.
5. `WebSession`, `WebSession_proofs`: praise, messages and addresses in the session all handlers share.
6. The parts of Tornado, one module each, from the loop upwards; `Queues` as an implementation of `Channel`.
7. `OlderMatching` and `Broadcast`: the two older programs with state of their own.
8. `MCParts`: small instances of 6, 7 and `Dispatch` in one run.
9. The proofs about these parts: `Tornado_proofs` (what serves a request), `Parts_proofs` (what runs code: dispatch, the
   older programs, loops, futures), and in `MCParts` itself routing, queues and the theorems about the run.
10. `Sums`: sums over rows and filtered sequences, on which nearly all of the proofs stand.

What would come next: the invariants of the parts that are only model-checked (section 5), those of the
HTTP clients first; `RequestHandlers` composed with `HttpServing` in one run.

`Trading` composes the matching threads, the web processes and the database; it implements `Exchange`. `Dispatch` looks
at the same threads from the other side and abstracts the book to a number, so the two are checked apart. `Funds` takes
a deal or a cancel as one step and `MarketData` a pass that has found its pair, which `Trading` justifies. In the same
way `HttpServing` and `RequestHandlers` take from a stream what `IOStreams` shows of it, and coroutines from the loop
that a callback is called once. They read from open streams only: that a closed one still serves what is left in
its buffer, so that a request may be read after its connection ended, is left out.

## 3. Modules

### OrderBook

Constants `Product`, `OrderId`, `Price`, `Volume`, `Request`, `NoRow`, and the pure part of matching: `Eligible` and
`Before` are the filter and the `ORDER BY` of the two reads, `Best` the rows `LIMIT 1` may return, `DealPrice`,
`DealVolume` and `DealStatus` the branches after them, `Fill` the `UPDATE` of one side, `CancelStatus` the branches of
`do_cancel`. Users are left out (nothing here tells them apart), prices are whole cents.

### Exchange

The abstract specification: `Place`, `Trade`, `Cancel`, `Tick` and `NextDay`, each one step. A trade takes two eligible
orders of the day, all that the smaller has left, at a price within both limits.

### Trading

One action per statement group of the code. `order` and `deals` are the committed rows.

| action | code |
|---|---|
| `BeginPass`, `SelectSale`, `SelectBuy` | top of the loop; the two locking reads of `start_one_by_one` |
| `NoMatch`, `Settle` | `session.close()`; both updates, the new deal, the commit |
| `SelectFails`, `SettleFails`, `MatcherRestart` | exceptions in the reads; rollback; the process is killed |
| `SubmitOrder`, `InsertOrder`, `InsertFails` | the hours check and time stamp of `insert_*_order`; the commit or rollback |
| `CancelSelect`, `CancelRefused`, `CancelCommit`, `CancelFails` | `do_cancel`, its locking read, its early return, its commit |
| `Collect` | sessions dropped without `close()` are ended by the garbage collector |
| `OpenHours`, `CloseHours`, `Tick`, `NextDay` | exchange hours and the clock |

The database is external. A row is locked by its reader until the transaction ends. `ScanLocksTable` chooses between
what InnoDB does with these queries (no index but the primary key: the scan locks every row and the gap after them) and
the least SQL promises (the row returned). Safety is checked and proved for both. `Development` is the key of
`config.yaml` that keeps the exchange open; without it the date changes only when nothing is under way, since trading
ends at 15:00 and a lock wait lasts under a minute. `order` ids are handed out in order, as AUTO_INCREMENT does.

### Dispatch

`server` is the main thread of the matching server (starting, connected, reading, exited), `worker` the place of each
thread, `queue` the length of its queue (contents are never looked at), `idle` its `no_matching`, `channel` the messages
published and not yet handled, `web` what a request has committed and not yet published. The book is `crossing`, the
number of deals a thread would still make. `fresh` says that an order came after the first read of a pass: such an order
may or may not be seen by the second read. `Faults` names what may go wrong in an instance; `AllFaults` explains each.

At this commit `start_workers` raises in `get_products`, which it calls on the class instead of an instance, and the
server does not come up. The model takes the call as it is meant and has the exception as the fault `start`; everything
after it is modelled as it stands.

### Funds

One user, one product and the one web process that `wxserver.sh` starts. The code keeps no balance: `deposit`, `blocked`,
`income`, `consumed` and `held` are the sums the queries return over tables that only grow; open orders and withdrawals
are rows. A session reads one snapshot, so each function that opens one is one step, and everything else may happen
between two of them.

| action | code |
|---|---|
| `CheckBuy` | `insert_buy_order` up to and including the session of `get_available_money` |
| `CheckWithdraw`, `ReadAvailable` | the sessions of `get_can_withdraw_money` before the money in use is read |
| `Admit` | the session of `get_in_using_money`, the subtraction and the test |
| `CheckSale`, `AdmitSale` | `insert_sale_order` with the sessions of `get_assets` and of the two volumes to take off |
| `InsertOrder`, `InsertWithdrawal`, `RequestFails` | the commit, or its failure |
| `Cancel`, `Bought`, `Sold` | `do_cancel`; a matching thread deals an order of the user |
| `PayWithdrawal`, `RefuseWithdrawal`, `Deposit`, `Grant` | the back office (external) |

`web.moved` observes what was settled between the reads of the request; no guard looks at it. Money is counted in
`1/Scale` of the currency so that the bonus is exact; the rounding to cents is left out.

`UserWithdrawHandler.post` refuses an amount above the maximum and no other, so `Amount` has any integers. A pending
withdrawal of -x lowers the money in use by x, so its user may buy for x more than he has; once it is finished it raises
the money available, and once it is refused or left out the money was spent all the same. `Lent` is what withdrawals of
negative amounts come to, whatever became of them, and the properties about money are stated up to it.

### MarketData

The matching thread after it has found a pair. `thread.od` is the deal in its session (none after a rollback),
`thread.current_price` the variable that outlives a pass. `imported` is the day the process was started, at which the
default date of `get_statistic_total` was evaluated. A commit or query that fails after the deal ends the thread, as the
handler itself raises (`e.arg`).

| action | code |
|---|---|
| `BeginPass` | top of the loop, with the reset of `current_price` on a new day |
| `Update`, `UpdateFails` | both updates and the new deal; rollback, after which the code goes on to the commit |
| `Commit`, `CommitFails` | the commit; its handler |
| `UpdateHistory` | `update_prodoct_history` |
| `PublishBoard`, `PublishCandles` | `set_app_product_info_to_redis`, `set_k_data_to_redis` |
| `Die`, `Restart`, `NextDay` | an exception outside the handlers; the process; the calendar |

### WebSession

The web server has one SQLAlchemy session for all requests, so what one handler leaves in it the next one commits, rolls
back or is refused by. `db` is committed, `tx` what the session sees, `inactive` a session that waits for a rollback
after a failed flush. `web` is a handler that has committed once and goes on.

| action | code |
|---|---|
| `Praise`, `PraiseRow`, `PraiseRowFails` | `GetPraiseHandler`: the counter and its commit, then the row and its commit |
| `Unpraise`, `UnpraiseFails` | its other branch, which names `self.session.commit` without calling it |
| `PostMessage`, `DeleteMessage` | the message board |
| `StoreAddress`, `ClearDefault`, `ClearFails`, `WriteAddress`, `WriteFails`, `DeleteAddress` | the address handlers, one commit per row that loses the flag |
| `OtherCommits`, `OtherCloses`, `OtherFails`, `Crash` | every other handler, by what it does to the session; the process |

A new message keeps its counter from the handler that posts it; `is_default` is compared as text, so that any but an
empty one counts.

### Tornado and the older programs

Each of these modules is one object, or one protocol, with an action per method and per callback. What may run between
two callbacks does so in any order. Times are left out unless a property is about them: a timer that is armed may fire.

| module | code | its property | says |
|---|---|---|---|
| `EventLoop` | `PollIOLoop` | `LoopSound` | the loop never sleeps with a callback, a stop or a timer due; no event goes to a handler it was not polled for; dead timers are counted |
| `AsyncioLoop` | `BaseAsyncIOLoop` | `AsyncioSound` | what asyncio watches is what the handlers want; no handler is called for the event of an earlier one; a callback runs once |
| `PeriodicCallbacks` | `PeriodicCallback` | `OneTimer`, `ArmsOnSchedule` | start, stop and slow callbacks leave one timer, on the schedule |
| `RunSync` | `IOLoop.run_sync` | `CallsEnd` | a result is given only when there is one; no call waits for a `stop` that is not coming, or stops twice |
| `Queues`, `Channel` | `queues.py` | `NobodyWaitsInVain`, `ChannelStep` | waits have a reason, and only a cancelled join ends or loses those of others; a queue is a line of items each taken once |
| `Semaphores` | `Semaphore`, `BoundedSemaphore`, `Lock` | `PermitsConserved`, `WaitersSwept`, `LongestWaitingFirst` | no permit is lost to a dead waiter or made; the order of waiting is kept |
| `Conditions` | `Condition`, `Event` | `WaitersReachable`, `NotifyWakes` | a notify is not spent on a dead waiter while a live one is there; a wait for an event is lost only by a cancel of the future it shares |
| `Coroutines` | `gen.Runner` | `NeverStuck`, `ResultGiven`, `AnsweredYield` | a parked coroutine will be run; it goes on only with the answer it asked for |
| `Combinators` | `multi_future`, `WaitIterator`, `with_timeout` | `CombinatorsSound` | an iterator gives each future once, and loses none unless it has met a cancelled one; `multi` answers when all are done, with the first error of the list; what timed out stays so; none waits without a timer unless its input was cancelled |
| `Executors` | `run_on_executor`, `run_in_executor`, `return_future`, `chain_future` | `ExecutorsSound` | the outcome of a thread reaches the caller once, at whatever step the thread ends; what was cancelled stays so |
| `StackContexts` | `stack_context.py` | `ContextsSound` | a wrapped function runs in those of its contexts that are active, in order; contexts are left as often as entered |
| `IOStreams` | `BaseIOStream`, `IOStream`, `SSLIOStream` | `StreamSound`, `AnswersWrites` | reads and writes are answered, in order, whenever the connection ends; the stream listens for what it needs |
| `StreamBuffers` | `_StreamBuffer` | `BufferSound` | the pieces hold just the bytes appended and not yet written, in order; what was written is freed |
| `HttpServing` | `HTTP1Connection`, `HTTP1ServerConnection` | `ServingSound`, `RequestsInTurn` | the delegate of a request is told its end once; no stream leaks; requests do not overlap |
| `RequestHandlers` | `RequestHandler`, `_HandlerDelegate`, `@asynchronous`, `@stream_request_body` | `HandlerSound` | whatever raises, a request is answered once or its connection closed; the connection and a streaming handler do not wait for each other |
| `StaticFiles` | `StaticFileHandler` | `StaticSound` | a valid range is answered by just its bytes; the length is as promised; 304 only for a copy that is current, but for stale hashes |
| `Routing` | `Application`, `routing.py` | `RoutingSound`, `KeepsRequests` | a request goes to the rule whose turn is first; a name leads back to its rule; `add_handlers` takes nothing from earlier groups |
| `Cookies` | signed cookies, `xsrf_token` | `CookiesSound` | once the browser has a token, forms of all open pages are accepted; key rotation logs nobody out |
| `WebSockets` | `WebSocketHandler`, `WebSocketClientConnection`, `WebSocketProtocol13` | `WebSocketSound`, `QuietWhenTold` | a connection that begins to close ends; messages arrive in order, and none after `on_close` unless the application closed |
| `HttpClient` | `SimpleAsyncHTTPClient`, `_HTTPConnection` | `ClientsSound` | every fetch is answered once, within `max_clients`, through redirects and timeouts, but for redirects that a closed client drops |
| `CurlClient` | `CurlAsyncHTTPClient` | `CurlSound` | every fetch is answered once; a handle is free or with one request |
| `Connectors` | `TCPClient.connect`, `_Connector` | `ConnectorSound` | `connect` ends; one stream is given to the caller and the others are closed; an error only when all were tried |
| `ClientCache` | `AsyncHTTPClient`, `HTTPClient` | `CacheOfClientsSound` | a loop has one open client in the cache; callbacks of `fetch` are called once |
| `Servers` | `TCPServer`, `add_accept_handler`, `bind_sockets` | `StopHolds` | nothing is accepted after `stop`, not even by the accept loop that called it |
| `Workers` | `fork_processes` | `WorkersKnown` | the parent's dictionary is true of the processes; each task has one worker or has ended |
| `Subprocesses` | `Subprocess` | `SubprocessSound` | the end of a process is not missed and is told once, to its own callback, unless that was set too late |
| `OlderMatching` | `MatchingServer.start` | `OlderSound` | a pass deals what the two columns of rows cross in; orders are filled just up to their volume |
| `Broadcast` | `Server.py` | `BroadcastSound` | every client gets each good update since it connected, in order; a broken connection does not end the listener |

`MCParts` puts small instances of all of them into one run. A behaviour is of one part, named by `part`, and the parts
share the variables `v1` to `v17`; so the states are those of the parts one by one, and each property of the run is a
conjunction over parts. Nothing is composed there. The parts that `Parts_proofs` and `Tornado_proofs` have proofs about
are taken through them (`Tornado!H!Next` is the `Next` of `HttpServing`, which is `H` there), so that their theorems are
about the very formulas that the run checks; a constant or variable that several parts have carries the letter of its
part. `Dispatch` is there a second time, for the safety of which it has a theorem for every instance; its own run has the
liveness.

What was met on the way, of which the models keep the behaviour:

* `run_sync`: a `stop` queued by a future that was done as its timeout fired ends a later call, which then raises a
  `TimeoutError` (`RunSync`).
* `if timeout:` takes a timeout of 0 as none, in queues, locks and the HTTP client; the timeouts of the models are not 0.
* Whoever cancels a `join` or an `Event.wait` without a timeout cancels the one future all of them share: the others end
  with a `CancelledError`, one with a timeout waits on and loses its timer, and the event counts as set although tasks
  are unfinished, until the next `put` (`Queues`) or `clear` (`Conditions`).
* An input that is cancelled is no answer: `with_timeout` then never ends, as the timer goes and the result stays; a
  `WaitIterator` loses it, and `done()` stays false, and if `next()` meets it the answer after it goes to a future nobody
  holds (`Combinators`).
* `finish` of a 204 with a body fails its assertion before anything is written, and the request is never answered
  (`RequestHandlers`); a suffix range longer than the file is answered by 500 (`StaticFiles`).
* An attempt that raises in `on_timeout` of `_Connector` leaves `connect()` waiting (`Connectors`).
* An `HTTPClient` whose client cannot be made leaves its loop open; a loop may be closed with its client open
  (`ClientCache`).
* A second `read_message` after the `None` of a closed websocket waits for ever; an application that closes may still get
  messages after `on_close`, and nothing keeps `write_message` from sending after the close frame: no property says
  otherwise (`WebSockets`).
* `set_exit_callback` for a process that has ended long ago may take the status of another one with its pid
  (`Subprocesses`).
* `xsrf_token` converts a token of version 1 only when no version is set; a signed value of version 1 and a dict of
  secrets raise (`Cookies`).
* In `MatchingServer.start` an error other than a lost connection leaves the rows of the pass before in use
  (`OlderMatching`).

## 4. Runs

| run | instance | checks |
|---|---|---|
| `trading_scan` | 1 product, 3 orders, 4 requests, 1 web process, table locks, clock to 2 | `TypeOK`, `Conservation`, `PriceTimePriority`, `ImplementsExchange` |
| `trading_rows` | 2 products, 3 orders, 2 requests each, 1 web process, row locks, development mode, clock to 2 | `IInv`, `StatusSound`, `DealExhaustsOne`, `CancelledOutOfBook`, `DealsWithinLimits` |
| `dispatch` | 2 products (1 active), 1 web process, 2 orders, 2 faults of any kind | `CrossingDealt`, `MessageDrains` |
| `funds` | 2 orders (buys or sales of 2), 2 withdrawals of 3 or -4, one deposit of 4, bonus 1/4, a frozen gift of 1, grants of 2, 2 days | `TypeOK`, `OpenWithinMoney`, `MoneyCovered`, `SaleCovered` |
| `market` | 3 deals, 3 prices, 2 volumes, 3 days, every fault once | `TypeOK`, `LastPriceIsClose`, `CurrentPriceAgrees`, `CandlesSound`, `HistoryHeals`, `CurrentIsLatestIfUpdated` |
| `web_session` | 2 users, 2 messages, 2 addresses, 2 faults of any kind, counters to 3 | `TypeOK`, `PraiseCounted`, `OneDefault` |
| `parts` | the instances in `MCParts` | `TypeOK`, one invariant for each group of parts (`WaitersSound` ... `SideProgramsSound`; `WakeUpsSound` is the `WakeInv` of `Dispatch`), `QueueImplementsChannel`, `StepsSound` |
| `cancel_answer` | 1 product, 3 orders, 2 requests, table locks | violates `CancelAnswerTrue` |
| `withdraw_answer` | 2 buys of 2, 2 withdrawals of 1 or 3, deposits that can be withdrawn | violates `WithdrawWithinMax` |
| `market_price` | as `market` | violates `CurrentIsLatest` |
| `web_unpraise` | as `web_session` | violates `CancelledStays` |
| `static_range` | one file of up to 3 bytes | violates `InvalidRangeIgnored` |

**Bounds.** Three orders are the fewest with a partly dealt order that is dealt again, an order overtaken by a third, or
a cancel of a partly dealt order. The requests make pairs that cross and one that does not, with equal and unequal
volumes and prices. Clock 2 gives orders of different age, a change of day, and in development mode a pass with orders
before and after midnight. `MaxTime` bounds the clock; `MaxOrders`, `MaxFaults` and `MaxCrossing` bound `Dispatch`.
Permuting web processes or products changes nothing in `Trading`, so symmetry is used there; the runs with liveness use
none. In `Funds` two orders and two withdrawals are the fewest with one settled while the other is being checked, in all
combinations; every request is dealt in one part or two. An amount of -4 lets through a buy that the money does not
cover. `MaxDeposit`, `MaxHeld` and `MaxDay` bound the rest. In
`MarketData` three deals and days give a row with a day before it that has deals and one that has none, and a range with
a middle; every fault happens at most once, in any order, so that a failed commit, a failed update and a restart meet in
one behaviour.

`WebSession` has two of everything that can meet: two users praise one message, one message goes while the other is
praised, one address takes the flag from the other, and two faults, so that one may strike while another is being dealt
with. In `parts` each instance has the fewest actors that get in each other's way (two or three waiters, descriptors,
requests or timers, a limit of one or two that they exceed), and enough steps for one to give up or come again. Where
a theorem covers every instance the run keeps a small one, on which each action happens and each mutant is seen (two
waits of a condition). Two joins, and two waits for an event, are the fewest with one that cancels and one that suffers.
`MaxCallsQu` bounds the calls of a queue that are made in a behaviour; which gets and which joins these are makes no
difference, so both are symmetric. Which ends of a websocket ping, and how many frames they send then, is chosen in its
`Init`. The run has about 3.7 million states and takes three minutes; `funds` has twice as many and takes two.

**Deadlock** is checked in the runs of `Trading`, `Funds` and `WebSession`. In the others the system may stop: the
server exits or the thread dies for good (`Dispatch`, `MarketData`), a file was sent, or everybody in a part of
`MCParts` has what he asked for; that nobody stops before is what the properties of those runs say.

**What they show.** Whatever the threads, cancels, failures and restarts do, statuses and volumes stay consistent, deals
stay within both limits and are never repeated, a confirmed cancel holds, and all commits together look like the single
steps of `Exchange`. `PriceTimePriority` says that at the commit of a deal its orders are still first of their sides; it
needs the table locks (with the returned rows locked only, a better order can be committed in between) and the day not
to change during a pass. In development mode `Exchange` is not implemented either, for the latter reason (a
pass that began before midnight deals orders of the day before), so `trading_rows` checks the consistency only.

`NoLostWakeup` (which `WakeInv` implies) and `CrossingDealt` hold when reads lose their connections and deals are rolled back. They do not hold
when a read times out (the pass ends as if there were nothing to deal, and the message is spent), when a request fails
between commit and publish, or when hours begin before the server has subscribed; `MessageDrains` shows that the next
message makes up for all of these. It does not make up for a thread that has died: `_actives` still names it.

The money of a user is checked by reading what he has and then what he has promised. What is settled between the two
reads is counted in neither. `MoneyCovered` says that this is all that can go wrong, besides the bonus, which the check
leaves out, and `Lent`: an admission overdraws by no more than was settled meanwhile and the negative withdrawals come
to, or, after those were spent, promises no more than that again. `SaleCovered` says the same of holdings, and
`OpenWithinMoney` that what is promised at any time never exceeds what ever came in and was lent, so that overdrafts
do not pile up within a day.

`LastPriceIsClose` holds whatever fails. `HistoryHeals` says that the row written after a committed deal has its price
and misses no deal; it has the totals of the day only if the server was started that day (otherwise those since the
start, as a default argument is evaluated at the import). `CurrentPriceAgrees` says that the same slip in
`get_current_price` is harmless. `CurrentIsLatestIfUpdated` and `CandlesSound` say what holds as long as no update has
failed: no other failure puts a price into the history that no deal had.

`PraiseCounted` says that the two-commit praise errs on one side only: a counter is never below its rows, and above them
only while a praise is stored or where a handler ended half-way. `OneDefault` holds because the flags are cleared first:
a failure leaves no default address rather than two.

`parts` says of Tornado what the exchange takes for granted. Three things are worth knowing. Waiters that have timed out
stay in their deques, and every property of queues and locks is about passing them by. A stream that closes tells
everybody who waits before it calls the close callback, and `HttpServing` and `HttpClient` rest on that order. And a
refinement is checked there: `line`, what a queue holds in the sense of `Channel`, is its items followed by those of the
putters who still wait, so that a put that gives up takes its item with it. `StepsSound` collects what no step may do.

**Fairness.** `FairSpec` assumes that the event loop, each thread and a request that has committed go on (weak fairness
of each): they are an event loop, OS threads and a synchronous handler. No order, cancel, fault or hour is assumed. As
the hours may end at any time, `CrossingDealt` is conditional on them.

**Findings.** `cancel_answer`: `do_cancel` answers success for an order the matching thread has finished meanwhile, and
the page says it was cancelled. `withdraw_answer`: a buy that is dealt between the two reads lets a withdrawal above the
stated maximum pass. `market_price`: after a failed commit and a failed update the history shows a price no deal had.
`web_unpraise`: an un-praise that was confirmed is rolled back with the session by the next handler. `static_range`: a
range that ends before it begins is answered by 206, with no bytes or a negative length, where the comment says that an
invalid range is ignored.

Every property of a passing run has a mutant in `PROJECT.json`: an operator of the same module, marked as a fault, that
breaks one definition the way a slip in the code would, and that the run then reports.

## 5. Proofs

### Orders, dispatch, web session, market data

`Trading_proofs`, for all constants that satisfy the assumptions, both values of `ScanLocksTable` and `Development`:

* `Invariance`: `Spec => []IInv`. The safety properties are not inductive: that a status written from a row read earlier
  is right needs that the row is still the committed one. `IInv` adds this (`WorkerReads`, `WebReads`: what a pass or a
  cancel has read is locked by it and unchanged), that rows are keyed by their ids, and that a pass reads orders of
  today. The proof has a lemma per action; facts about `Fill`, `DealVolume`, `CancelStatus` and `NewRow` come first.
* `TypeCorrect`, `StatusesSound`, `LimitsRespected`, `DealsExhaust`, `CancelsHold` follow from it.
* `BooksBalance`: `Spec => []Conservation`, that the volume dealt of an order is the sum of its deals. Only `Settle`
  changes either; it adds one deal, new because every earlier deal of the pair finished one of its orders
  (`DealExhaustsOne`), and adds its volume to both rows.
* `Refinement`: without `Development`, `Spec => ImplementsExchange`, by the identity mapping: `InsertOrder` maps to
  `Place`, `Settle` to `Trade` (a new deal row, because every earlier deal of the pair finished one of its orders),
  `CancelCommit` to `Cancel` or a stutter, all else to the clock or a stutter.
* `PriorityKept`: with `ScanLocksTable` and without `Development`, `Spec => PriceTimePriority`. `BestReads` strengthens
  `IInv`: a pass that has read a side holds the lock of every row, and what it read is still among the first of its
  side. Then nobody else can insert, fill or cancel (`TableHeld`), so `Best` of either side stays what it was
  (`BestReadKept`).

`Parts_proofs`, first section: `DispatchTypes` for every set of faults; `WakeInvariance` and `WakeUpsKept` for faults the
code recovers from. `WakeInv` adds that hours and requests imply a subscribed server, that a thread in a pass has
`no_matching` FALSE, and that an order a pass may have missed still has a message coming.

`WebSession_proofs`: `TypeCorrect`, `DefaultKept` and `PraisesCounted`, for any users, messages, addresses and faults.
For the first, `DefaultInv` adds that a handler that clears the flags has all that are left on its list, and that the
session sees the flags as they are committed. For the second, `PraiseInv` compares the counter with the rows in what is
committed and in what the session sees (`Tallied`), less the one praise that is counted and not yet stored (`Owed`), and
adds that nothing else waits for a commit meanwhile: so whoever commits or rolls back, both agree afterwards.

`MarketData_proofs`: `CloseKept`, that is `Spec => []LastPriceIsClose`, from no assumption but `MarketAssumption`.
`CloseInv` adds that the session holds a deal of today only, and that no deal and no row is of a later day than today:
then a new deal leaves the latest price of earlier days as it is (`LatestKept`), and a new day has no row yet. That the
deal with the highest id exists needs a least natural number of a set, which `LeastNatural` derives from the library's
well-founded inclusion of finite sets.

`CurrentPriceKept` and `CurrentPriceWritten` add to it that the days of the deals ascend (`DaysAscend`) and that a pass
that reaches the history has the price of the last deal, while no update failed (`PassOfDeal`). So the stale default
date of `get_current_price` may only ask for more days than today, and the latest deal of those is the latest of all.

`TypeCorrect`, `CandlesAreSound` and `HistoryIsHealed` are about the row as a whole, with its totals (a sum), its range
(extrema over the deals of a day) and its opening price. While no update failed every row opens and closes within its
range and opens at the price of a deal of its day (`RowsOfDeals`); the candles in Redis are copies of rows, so this
carries over. A row that is written after a commit counts the deals from the day of the process to today, so it misses
none of today's and its range is no narrower.

### Sums and sequences

`Sums` has what the proofs need of the folds of the community modules. `SumFunctionOnSet` is a recursive function that
is chosen, and no induction over its arguments can be cited here: the library's induction theorems take an operator.
What can be cited is that the finite subsets of a set are well founded by inclusion (`WFMin`), so every induction is
put the other way round: of the sets that violate a statement take one that has no violating subset (`Smallest`) and
derive a contradiction. In this way the chosen function exists (`IsSumExists`) and is unique (`IsSumUnique`), and any
element may be taken off first (`SumRemove`); from these follow `SumChange`, that a sum changes by what one row adds
before and after, and `SumOfMore`. The same device gives the least natural number of a set and the last of some
positions of a sequence, and lists the positions of a sequence in their order (`ListExists`): from this follows what the
provers need of "the items of a sequence that are in a set" (`Selected...`). The modules of queues and locks state that
filter by ranks (`Kept`) and not by `SelectSeq`, whose recursion is local to its definition and cannot be unfolded.

### Funds

`Funds_proofs`, for all constants that satisfy the assumptions. `ReadsHold` is the inductive invariant `FundsInv`: what
a request has read is at most what is there now and what was settled since (`MoneyRead`, `HoldingRead`). So an admitted
request needs no more than is left, up to `web.moved`; as amounts may be negative, sums of withdrawals are taken apart
into those asked for (`Asked`) and those lent (`Negative`). The argument is an account: `Net` is all that came in less
what is gone, every open row promises a share of it, and each action moves a share from one sum to another or adds to `moved`
what it takes away. From it follow `TypeCorrect`, `PromisesWithinMoney` (`OpenWithinMoney`), `SalesCovered`
(`SaleCovered`) and `MoneyIsCovered` (`MoneyCovered`). The last one assumes that no price is 0: an order at price 0 needs
nothing, so it is admitted whatever was promised before, and the statement about its commit would not hold. The code
takes only prices between the stop prices of the day, which are above 0 as long as the close is.

### Tornado

There is a section for each of 23 parts, for any values of their constants, in `Tornado_proofs` (from `HttpServing` to
`WebSockets` in the table), `Parts_proofs` (from `EventLoop` to `StreamBuffers`) and `MCParts` (the last three). Each
has an inductive invariant, a lemma per action and the theorems; the assumptions are named at the top of a section and
say that bounds are numbers and kinds of calls differ.

| part | theorem | the invariant adds to the property |
|---|---|---|
| `HttpServing` | `ServingIsSound`, `RequestsApart` | for each place of the loop what the delegate was told last and whether the request was read (`ToldByPhase`, `ReadByPhase`), when nobody waits any more (`NobodyLeft`), and that a loop that waits hears of the close |
| `RequestHandlers` | `RequestsAreAnswered` | what a response looks like between two calls (`Consistent`), for each of the method bodies that may call each other; that `prepare` and the body are waited for by those who are still to answer |
| `Coroutines` | `NeverStuckForGood`, `AnswersAsked` | a yield point that is set has yet to be answered (`PointAwaited`), and somebody runs the coroutine once it is (`SomebodyRuns`); the future looked at is the one asked for |
| `Servers` | `StopIsFinal` | a handler finds itself removed exactly when its socket is closed; pending sockets are apart from those |
| `Workers` | `ParentKnowsWorkers` | the entries of `children` are of processes, one per task (`ByPid`), and forks come in order |
| `Subprocesses` | `EndsAreTold` | who has a pid and who waits for it (`OwnersApart`, `WaitersKnow`), and in which order a process ends, is reaped and told |
| `StaticFiles` | `FilesAreServed` | the body sent so far is the first piece of what is wanted (`OnItsWay`), positions and lengths agree, copies are of versions that were there |
| `Cookies` | `FormsAndLogins` | tokens are those that were made, signed values name keys that are known, a login that lasts was signed with a key that still counts |
| `Semaphores` | `PermitsAreKept` | nobody stands in the deque twice, or before he called |
| `Conditions` | `WaitsAreReached` | the same; a generation whose future was cancelled counts as set (`gone`) |
| `WebSockets` | `SocketsAreSound` | who has begun to close and waits for what (`Sound`); the messages in a buffer are numbered on from those delivered, and with them make up what the other end sent (`Line`); readers hold what was given (`ReadersInv`) |
| `EventLoop` | `LoopNeverSleeps` | timers are in their order, and no more of them are dead than are counted (`TimersSound`); a thread that adds a callback is known by the place it has come to (`AdderSound`); the poll waits for the first timer (`PollSound`) |
| `AsyncioLoop` | `AsyncioIsSound` | what asyncio watches, and what it has queued, is for the handlers there are (`Sound`), and every callback that waits is in the queue once |
| `PeriodicCallbacks` | `OnePeriodicTimer` | the one timer, or the call that will arm it, keeps to the schedule (`OnTime`) |
| `RunSync` | `SyncCallsEnd` | `run` is queued once (`RunOnce`); a stop, or what will queue it, comes of each future once (`OneEnding`) |
| `Executors` | `OutcomesArrive` | for each kind of call, what its work, its watcher, its answer and the queue may say together (`Fine`) |
| `Combinators` | `CombinatorsAnswerOnce` | an input that is done is in one of four places, if any (`Placed`), and has none only after a cancelled one (`Lost`); the inputs `multi` counts as undone are those whose callback has not run |
| `OlderMatching` | `OlderIsSound` | the loops have dealt the first units of both columns and no others (`RunAt`), rows are orders as they are while their locks are held (`FreshOl`) |
| `Broadcast` | `UpdatesArrive` | what a client got, and what is on its way, rises and is all the good updates since it connected, beside its replies (`ClientInv`) |
| `StreamBuffers` | `BytesKept` | the pieces are a chain of consecutive bytes from the first byte not yet freed to the last appended (`ChainSb`); the part of the first piece that was written is less than half of it, if it is small, and never all of it (`FreedSb`) |
| `Routing` | `RoutedWell`, `EarlierHandlersKeep` | `default_router` asks the groups by age and then the wildcard |
| `Queues` | `QueueWaitsFor`, `QueueIsChannel` | whoever waits stands in his deque once (`Standing`); what a join waits for or has heard (`JoinsKept`); an item is in one place: with its putter, in the queue, or with one getter (`ItemsOnce`) |
| `IOStreams` | `StreamTold` | what holds in the middle of a handler (`HalfIo`): `pending` counts the queued callbacks, a closed stream is unregistered and has nothing unanswered that no queued callback will answer; what holds once it returns (`SettledIo`): the close callback is queued if nothing else is pending; what an open stream listens for (`EarIo`) |

`QueueIsChannel` is a refinement. `line` of `Channel` is the queue followed by the items of the live putters, which is a
filter of a sequence that changes while it is filtered: a putter that gives up falls out of it wherever he stands, a get
moves the first live putter's item into the queue, and dead waiters are passed by unseen. `ChannelSteps` says that each
action is a step of `Channel` or leaves it unchanged.

Some assumptions are worth knowing. `Cookies` needs `Expires <= MaxAge` (30 and 31 days by default): a
value that ends before its cookie does logs the user out. `Routing` needs that `None` is no host. `StaticFiles` takes `None` outside
the offsets, and says of a suffix range that is longer than the file that it is answered by 500, as the code does.
`Conditions` needs finitely many waits, to count those woken, and `AsyncioLoop` finitely many descriptors.
`PeriodicCallbacks` needs that 0, which stands for no timer, is none. `IOStreams` takes sizes
above 0: an empty write that is made before a stream has connected, or while it shakes hands, has nothing to wait for and
is still answered only when the stream next tries to write, so `AnswersWrites` speaks of writes of something.

`MCParts` has what this means for the run `parts`, as theorems about its own `Spec`: `WaitersAreSound`,
`LoopsAreSound`, `CoroutinesAreSound`, `RequestsAreServed`, `WebSocketsAreSound`, `ProcessesAreSound`, `AnswersAreRight`,
`WakeUpsAreSound`, `SideProgramsAreSound`, `StreamsAreSound`, `QueueIsAChannel` and, of the steps of eight parts,
`StepsHold`. Each follows from the theorems of the parts and from the
fact that a behaviour of the run is one of a single part. `PartsBounds`, which is assumed there, is all the assumptions
of the parts; TLC evaluates it on the instance of the run.

### Model-checked only

* Liveness (`CrossingDealt`, `MessageDrains`), which the prover does not reach.
* `ContextsKept` and `ClientsSound`: five modules (`StackContexts` and the four clients) that have no inductive
  invariant yet.
* `TypeOK` of `MCParts`, as those five have a share in it.

## 6. Not modelled

* Registration, login, verification codes, bank cards, product pages: they validate input and do one insert or read. The
  websocket commands and the legacy order commands answer with read-only queries, or are called by nothing.
* The referral tree, the area table and the minute chart with the lists of the five best prices: one read each, with
  formatting.
* `MatchingServer2.py` is an earlier copy of the loop in `OlderMatching`.
* Tornado: templates, logins of third parties, parsing of headers, arguments and options, locales, logging, reloading,
  test support, resolvers, and the bridges to Twisted, WSGI and c-ares: conversions and adapters with next to no state.
  In the modelled parts: gzip and frame masks, lists of yield points, an exception that reaches a coroutine whose yield
  point still waits, pipes, TLS options. `PROJECT.json` says so for each component.
* The Laravel back office shares the database and none of the code; what it does to deposits and withdrawals is external
  in `Funds`. Pages and scripts are layout.
