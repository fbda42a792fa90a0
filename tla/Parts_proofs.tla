---------------------------- MODULE Parts_proofs ---------------------------
(***************************************************************************)
(* Theorems about parts that MCParts runs side by side: the programs of    *)
(* wxpm beside its trading server (how matching work is dispatched, the    *)
(* older matching loop and the TCP server of updates), and what Tornado    *)
(* runs code with (its loops, periodic callbacks, run_sync, executors and  *)
(* combinators of futures), and the bytes a stream has to write.  They     *)
(* take turns in using the variables v1, v2, ..., as the parts of MCParts  *)
(* do.                                                                     *)
(***************************************************************************)
EXTENDS Sums, Integers, Sequences, FiniteSets, FiniteSetTheorems, TLAPS

CONSTANTS Product, Listed, Web, NoValue, Faults, MaxFaultsDi, MaxOrders,
          MaxCrossing, Sale, Buy, Price, MaxVolume, Few, MaxFaults, Viewer,
          MaxLines, MaxUpdates, CallbackLo, Timer, FdLo, CleanAfter, MaxTimeLo,
          MaxGenLo, FdAs, CallbackAs, MaxGenAs, Period, Timers, MaxTimePc,
          MaxCallsRs, MaxTimeRs, N, Jobs, Threads, Large, MaxBytes

VARIABLES v1, v2, v3, v4, v5, v6, v7, v8, v9, v10, v11, v12, v13, v14, v15, v16, v17

-----------------------------------------------------------------------------
(* How a committed order comes to be matched                               *)

Di == INSTANCE Dispatch WITH
       Active <- Listed, Nothing <- NoValue, MaxFaults <- MaxFaultsDi, server <- v1, todo <- v2, worker <- v3,
       queue <- v4, idle <- v5, fresh <- v6, channel <- v7, web <- v8,
       crossing <- v9, open <- v10, orders <- v11, faults <- v12

(* Its variables. *)
server == v1
todo == v2
worker == v3
queueDi == v4
idle == v5
fresh == v6
channel == v7
web == v8
crossing == v9
open == v10
orders == v11
faults == v12

USE DEF server, todo, worker, queueDi, idle, fresh, channel, web, crossing, open,
        orders, faults

DispatchBounds ==
  /\ Listed \subseteq Product
  /\ NoValue \notin Product
  /\ Faults \subseteq Di!AllFaults
  /\ MaxFaultsDi \in Nat /\ MaxOrders \in Nat /\ MaxCrossing \in Nat

USE DEF DispatchBounds


(* The types hold, and a pair that was found is still there. *)
Typed == Di!TypeOK /\ Di!PairHeld

LEMMA InitTyped ==
  ASSUME DispatchBounds PROVE Di!Init => Typed
  BY DEF Di!Init, Di!TypeOK, Typed, Di!PairHeld

(* A fault keeps its count in bounds. *)
FaultsTyped == faults \in [n : 0..MaxFaultsDi, hard : BOOLEAN]

LEMMA FaultTyped ==
  ASSUME DispatchBounds, FaultsTyped, NEW f, Di!Fault(f)
  PROVE  FaultsTyped'
 <1>1. faults.n + 1 \in 0..MaxFaultsDi
   BY DEF FaultsTyped, Di!Fault
 <1>2. (IF f \in Di!Recovered THEN faults.hard ELSE TRUE) \in BOOLEAN
   BY DEF FaultsTyped
 <1> DEFINE m == faults.n + 1
            h == IF f \in Di!Recovered THEN faults.hard ELSE TRUE
 <1>3. faults' = [n |-> m, hard |-> h]
   BY DEF Di!Fault
 <1> HIDE DEF m, h
 <1>4. m \in 0..MaxFaultsDi /\ h \in BOOLEAN
   BY <1>1, <1>2 DEF m, h
 <1>5. QED
   BY <1>3, <1>4 DEF FaultsTyped

(* A step of the event loop keeps them. *)
LEMMA ServerTyped ==
  ASSUME DispatchBounds, Typed,
         \/ \E p \in Product : Di!StartWorker(p) \/ Di!TryMatching(p)
         \/ Di!StartFails \/ Di!Connect \/ Di!Subscribe \/ Di!Restart
  PROVE  Typed'
 <1> USE DEF Typed, Di!TypeOK, Di!PairHeld
 <1>1. ASSUME NEW p \in Product, Di!StartWorker(p) PROVE Typed'
   BY <1>1 DEF Di!StartWorker, Di!Started, Di!bookVars
 <1>2. CASE Di!StartFails
   BY <1>2, FaultTyped DEF Di!StartFails, FaultsTyped, Di!workerVars, Di!bookVars
 <1>3. CASE Di!Connect
   BY <1>3 DEF Di!Connect, Di!workerVars, Di!bookVars
 <1>4. CASE Di!Subscribe
   BY <1>4 DEF Di!Subscribe, Di!workerVars, Di!bookVars
 <1>5. ASSUME NEW p \in Product, Di!TryMatching(p) PROVE Typed'
  <2>1. CASE worker[p] = "none"
   <3>1. Di!Started(p, 2) /\ UNCHANGED Di!bookVars /\ UNCHANGED <<server, todo, faults>>
     BY <1>5, <2>1 DEF Di!TryMatching
   <3>2. channel' \in [Product -> Nat]
     BY <1>5 DEF Di!TryMatching
   <3>3. QED
     BY <3>1, <3>2 DEF Di!Started, Di!bookVars
  <2>2. CASE worker[p] # "none"
    BY <1>5, <2>2 DEF Di!TryMatching, Di!bookVars
  <2>3. QED
    BY <2>1, <2>2
 <1>6. CASE Di!Restart
   BY <1>6, FaultTyped DEF Di!Restart, FaultsTyped, Di!bookVars
 <1>7. QED
   BY <1>1, <1>2, <1>3, <1>4, <1>5, <1>6

(* So does a step of a thread. *)
LEMMA WorkerTyped ==
  ASSUME DispatchBounds, Typed, NEW p \in Product, Di!WorkerStep(p)
  PROVE  Typed'
 <1> USE DEF Typed, Di!TypeOK, Di!PairHeld, Di!At, Di!serverVars, Di!bookVars
 <1>1. CASE Di!BeginPass(p)
   BY <1>1 DEF Di!BeginPass
 <1>2. CASE Di!ReadSale(p)
   BY <1>2 DEF Di!ReadSale
 <1>3. CASE Di!FindPair(p)
   BY <1>3 DEF Di!FindPair
 <1>4. CASE Di!FindNone(p)
   BY <1>4 DEF Di!FindNone
 <1>5. CASE Di!Reconnect(p)
   BY <1>5, FaultTyped DEF Di!Reconnect, FaultsTyped
 <1>6. CASE Di!ReadFails(p)
   BY <1>6, FaultTyped DEF Di!ReadFails, FaultsTyped
 <1>7. CASE Di!Settle(p)
   BY <1>7 DEF Di!Settle
 <1>8. CASE Di!SettleFails(p)
   BY <1>8, FaultTyped DEF Di!SettleFails, FaultsTyped
 <1>9. CASE Di!Report(p)
  <2>1. CASE server = "starting"
    BY <1>9, <2>1 DEF Di!Report
  <2>2. CASE server # "starting"
    BY <1>9, <2>2 DEF Di!Report
  <2>3. QED
    BY <2>1, <2>2
 <1>10. CASE Di!Die(p)
   BY <1>10, FaultTyped DEF Di!Die, FaultsTyped
 <1>11. QED
   BY <1>1, <1>2, <1>3, <1>4, <1>5, <1>6, <1>7, <1>8, <1>9, <1>10 DEF Di!WorkerStep

(* And a step of a web process. *)
LEMMA WebTyped ==
  ASSUME DispatchBounds, Typed, NEW w \in Web, Di!WebStep(w)
  PROVE  Typed'
 <1> USE DEF Typed, Di!TypeOK, Di!PairHeld, Di!serverVars, Di!workerVars
 <1>1. ASSUME NEW p \in Product, Di!PlaceOrder(w, p) PROVE Typed'
   BY <1>1 DEF Di!PlaceOrder
 <1>2. ASSUME NEW p \in Product, Di!CancelOrder(w, p) PROVE Typed'
   BY <1>2 DEF Di!CancelOrder
 <1>3. CASE Di!Publish(w)
   BY <1>3 DEF Di!Publish
 <1>4. CASE Di!PublishFails(w)
   BY <1>4, FaultTyped DEF Di!PublishFails, FaultsTyped
 <1>5. QED
   BY <1>1, <1>2, <1>3, <1>4 DEF Di!WebStep

(* And the hours. *)
LEMMA HoursTyped ==
  ASSUME DispatchBounds, Typed, NEW p \in Product, Di!OpenHours(p) \/ Di!CloseHours(p)
  PROVE  Typed'
 <1> USE DEF Typed, Di!TypeOK, Di!PairHeld, Di!serverVars, Di!workerVars
 <1>1. CASE Di!OpenHours(p)
   BY <1>1, FaultTyped DEF Di!OpenHours, FaultsTyped
 <1>2. CASE Di!CloseHours(p)
   BY <1>2 DEF Di!CloseHours
 <1>3. QED
   BY <1>1, <1>2

(* Every step keeps them. *)
LEMMA NextTyped ==
  ASSUME DispatchBounds PROVE Typed /\ [Di!Next]_(Di!vars) => Typed'
 <1> SUFFICES ASSUME Typed, [Di!Next]_(Di!vars) PROVE Typed'
   OBVIOUS
 <1>1. ASSUME NEW p \in Product,
              Di!StartWorker(p) \/ Di!TryMatching(p) \/ Di!WorkerStep(p) \/ Di!OpenHours(p)
                    \/ Di!CloseHours(p)
       PROVE  Typed'
   BY <1>1, ServerTyped, WorkerTyped, HoursTyped
 <1>2. CASE Di!StartFails \/ Di!Connect \/ Di!Subscribe \/ Di!Restart
   BY <1>2, ServerTyped
 <1>3. ASSUME NEW w \in Web, Di!WebStep(w) PROVE Typed'
   BY <1>3, WebTyped DEF Di!WebStep
 <1>4. CASE UNCHANGED Di!vars
   BY <1>4 DEF Di!vars, Typed, Di!TypeOK, Di!PairHeld
 <1>5. QED
   BY <1>1, <1>2, <1>3, <1>4 DEF Di!Next, Di!ServerStep

(* The variables keep their types, whatever goes wrong. *)
THEOREM DispatchTypes == DispatchBounds => (Di!Spec => []Di!TypeOK)
 <1> SUFFICES ASSUME DispatchBounds PROVE Di!Spec => []Di!TypeOK
   OBVIOUS
 <1>1. Di!Init => Typed
   BY InitTyped
 <1>2. Typed /\ [Di!Next]_(Di!vars) => Typed'
   BY NextTyped
 <1>3. Typed => Di!TypeOK
   BY DEF Typed
 <1>4. QED
   BY <1>1, <1>2, <1>3, PTL DEF Di!Spec

-----------------------------------------------------------------------------
(* From here on no fault has struck that the code does not recover from. *)
Recovering == ~faults.hard

AllAwake == \A p \in Product : crossing[p] > 0 => Di!OnTheWay(p)
Awake == Di!ServerUp /\ Di!PassAwake /\ AllAwake

LEMMA InitAwake ==
  ASSUME DispatchBounds PROVE Di!Init => Awake
  BY DEF Di!Init, Awake, Di!ServerUp, Di!PassAwake, AllAwake

(* Recovery is lost by a fault and never regained. *)
LEMMA RecoveringBefore ==
  ASSUME DispatchBounds, Typed, [Di!Next]_(Di!vars), Recovering'
  PROVE  Recovering
 <1>1. UNCHANGED faults \/ \E f \in Di!AllFaults : Di!Fault(f)
  <2>1. ASSUME NEW p \in Product, Di!StartWorker(p) \/ Di!TryMatching(p)
        PROVE  UNCHANGED faults
    BY <2>1 DEF Di!StartWorker, Di!TryMatching
  <2>2. CASE Di!StartFails \/ Di!Connect \/ Di!Subscribe \/ Di!Restart
    BY <2>2 DEF Di!StartFails, Di!Connect, Di!Subscribe, Di!Restart, Di!AllFaults
  <2>3. ASSUME NEW p \in Product, Di!WorkerStep(p)
        PROVE  UNCHANGED faults \/ \E f \in Di!AllFaults : Di!Fault(f)
    BY <2>3 DEF Di!WorkerStep, Di!BeginPass, Di!ReadSale, Di!FindPair, Di!FindNone,
       Di!Reconnect, Di!ReadFails,
                Di!Settle, Di!SettleFails, Di!Report, Di!Die, Di!AllFaults
  <2>4. ASSUME NEW w \in Web, Di!WebStep(w)
        PROVE  UNCHANGED faults \/ \E f \in Di!AllFaults : Di!Fault(f)
    BY <2>4 DEF Di!WebStep, Di!Publish, Di!PublishFails, Di!PlaceOrder, Di!CancelOrder,
       Di!AllFaults
  <2>5. ASSUME NEW p \in Product, Di!OpenHours(p) \/ Di!CloseHours(p)
        PROVE  UNCHANGED faults \/ \E f \in Di!AllFaults : Di!Fault(f)
    BY <2>5 DEF Di!OpenHours, Di!CloseHours, Di!AllFaults
  <2>6. CASE UNCHANGED Di!vars
    BY <2>6 DEF Di!vars
  <2>7. QED
    BY <2>1, <2>2, <2>3, <2>4, <2>5, <2>6 DEF Di!Next, Di!ServerStep
 <1>2. ASSUME NEW f \in Di!AllFaults, Di!Fault(f) PROVE Recovering
   BY <1>2 DEF Di!Fault, Recovering, Di!Recovered, Typed, Di!TypeOK
 <1>3. QED
   BY <1>1, <1>2 DEF Recovering

LEMMA ServerAwake ==
  ASSUME DispatchBounds, Recovering', Typed, Awake,
         \/ \E p \in Product : Di!StartWorker(p) \/ Di!TryMatching(p)
         \/ Di!StartFails \/ Di!Connect \/ Di!Subscribe \/ Di!Restart
  PROVE  Awake'
 <1> USE DEF Typed, Di!TypeOK, Awake, Di!ServerUp, Di!PassAwake, AllAwake, Di!Pending,
           Di!OnTheWay
 <1>1. ASSUME NEW p \in Product, Di!StartWorker(p) PROVE Awake'
   BY <1>1 DEF Di!StartWorker, Di!Started, Di!bookVars
 <1>2. CASE Di!StartFails
   BY <1>2 DEF Di!StartFails, Di!Fault, Recovering, Di!Recovered, Di!workerVars, Di!bookVars
 <1>3. CASE Di!Connect
   BY <1>3 DEF Di!Connect, Di!workerVars, Di!bookVars
 <1>4. CASE Di!Subscribe
   BY <1>4 DEF Di!Subscribe, Di!workerVars, Di!bookVars
 <1>5. ASSUME NEW p \in Product, Di!TryMatching(p) PROVE Awake'
  <2>1. CASE worker[p] = "none"
   <3>1. Di!Started(p, 2) /\ UNCHANGED Di!bookVars /\ UNCHANGED <<server, todo, faults>>
     BY <1>5, <2>1 DEF Di!TryMatching
   <3>2. channel' = [channel EXCEPT ![p] = @ - 1]
     BY <1>5 DEF Di!TryMatching
   <3>3. QED
     BY <3>1, <3>2, <1>5 DEF Di!Started, Di!bookVars, Di!TryMatching
  <2>2. CASE worker[p] # "none"
    BY <1>5, <2>2 DEF Di!TryMatching, Di!bookVars
  <2>3. QED
    BY <2>1, <2>2
 <1>6. CASE Di!Restart
   BY <1>6 DEF Di!Restart, Di!Fault, Recovering, Di!Recovered
 <1>7. QED
   BY <1>1, <1>2, <1>3, <1>4, <1>5, <1>6

LEMMA WorkerAwake ==
  ASSUME DispatchBounds, Recovering', Typed, Awake, NEW p \in Product, Di!WorkerStep(p)
  PROVE  Awake'
 <1> USE DEF Typed, Di!TypeOK, Di!PairHeld, Awake, Di!ServerUp, Di!PassAwake, AllAwake,
           Di!Pending,
             Di!OnTheWay, Di!At, Di!serverVars, Di!bookVars
 <1>1. CASE Di!BeginPass(p)
   BY <1>1 DEF Di!BeginPass
 <1>2. CASE Di!ReadSale(p)
   BY <1>2 DEF Di!ReadSale
 <1>3. CASE Di!FindPair(p)
   BY <1>3 DEF Di!FindPair
 <1>4. CASE Di!FindNone(p)
   BY <1>4 DEF Di!FindNone
 <1>5. CASE Di!Reconnect(p)
   BY <1>5 DEF Di!Reconnect, Di!Fault
 <1>6. CASE Di!ReadFails(p)
   BY <1>6 DEF Di!ReadFails, Di!Fault, Recovering, Di!Recovered
 <1>7. CASE Di!Settle(p)
   BY <1>7 DEF Di!Settle
 <1>8. CASE Di!SettleFails(p)
   BY <1>8 DEF Di!SettleFails, Di!Fault
 <1>9. CASE Di!Report(p)
   BY <1>9 DEF Di!Report
 <1>10. CASE Di!Die(p)
   BY <1>10 DEF Di!Die, Di!Fault, Recovering, Di!Recovered
 <1>11. QED
   BY <1>1, <1>2, <1>3, <1>4, <1>5, <1>6, <1>7, <1>8, <1>9, <1>10 DEF Di!WorkerStep

LEMMA WebAwake ==
  ASSUME DispatchBounds, Recovering', Typed, Awake, NEW w \in Web, Di!WebStep(w)
  PROVE  Awake'
 <1> USE DEF Typed, Di!TypeOK, Awake, Di!ServerUp, Di!PassAwake, AllAwake, Di!Pending,
           Di!OnTheWay,
             Di!serverVars, Di!workerVars
 <1>1. ASSUME NEW p \in Product, Di!PlaceOrder(w, p) PROVE Awake'
   BY <1>1 DEF Di!PlaceOrder
 <1>2. ASSUME NEW p \in Product, Di!CancelOrder(w, p) PROVE Awake'
   BY <1>2 DEF Di!CancelOrder
 <1>3. CASE Di!Publish(w)
   BY <1>3 DEF Di!Publish
 <1>4. CASE Di!PublishFails(w)
   BY <1>4 DEF Di!PublishFails, Di!Fault, Recovering, Di!Recovered
 <1>5. QED
   BY <1>1, <1>2, <1>3, <1>4 DEF Di!WebStep

LEMMA HoursAwake ==
  ASSUME DispatchBounds, Recovering', Typed, Awake, NEW p \in Product, Di!OpenHours(p) \/ Di!CloseHours(p)
  PROVE  Awake'
 <1> USE DEF Typed, Di!TypeOK, Awake, Di!ServerUp, Di!PassAwake, AllAwake, Di!Pending,
           Di!OnTheWay,
             Di!serverVars, Di!workerVars
 <1>1. CASE Di!OpenHours(p)
   BY <1>1 DEF Di!OpenHours, Di!Fault, Recovering, Di!Recovered
 <1>2. CASE Di!CloseHours(p)
   BY <1>2 DEF Di!CloseHours
 <1>3. QED
   BY <1>1, <1>2

LEMMA NextAwake ==
  ASSUME DispatchBounds, Recovering', Typed, Recovering => Awake, [Di!Next]_(Di!vars)
  PROVE  Awake'
 <1>0. Awake
   BY RecoveringBefore
 <1>1. ASSUME NEW p \in Product,
              Di!StartWorker(p) \/ Di!TryMatching(p) \/ Di!WorkerStep(p) \/ Di!OpenHours(p)
                    \/ Di!CloseHours(p)
       PROVE  Awake'
   BY <1>0, <1>1, ServerAwake, WorkerAwake, HoursAwake
 <1>2. CASE Di!StartFails \/ Di!Connect \/ Di!Subscribe \/ Di!Restart
   BY <1>0, <1>2, ServerAwake
 <1>3. ASSUME NEW w \in Web, Di!WebStep(w) PROVE Awake'
   BY <1>0, <1>3, WebAwake
 <1>4. CASE UNCHANGED Di!vars
   BY <1>0, <1>4 DEF Di!vars, Awake, Di!ServerUp, Di!PassAwake, AllAwake, Di!Pending, Di!OnTheWay
 <1>5. QED
   BY <1>1, <1>2, <1>3, <1>4 DEF Di!Next, Di!ServerStep

(* The inductive invariant of the run holds for every instance. *)
THEOREM WakeInvariance == DispatchBounds => (Di!Spec => []Di!WakeInv)
 <1> SUFFICES ASSUME DispatchBounds PROVE Di!Spec => []Di!WakeInv
   OBVIOUS
 <1> DEFINE Inv == Typed /\ (Recovering => Awake)
 <1>1. Di!Init => Inv
   BY InitTyped, InitAwake
 <1>2. Inv /\ [Di!Next]_(Di!vars) => Inv'
   BY NextTyped, NextAwake
 <1>3. Inv => Di!WakeInv
   BY DEF Typed, Awake, AllAwake, Recovering, Di!WakeInv, Di!NoLostWakeup
 <1>4. QED
   BY <1>1, <1>2, <1>3, PTL DEF Di!Spec

(* No wake-up is lost: orders that cross never wait for a thread that      *)
(* sleeps with nothing on the way to it, until a fault past recovery.      *)
THEOREM WakeUpsKept == DispatchBounds => (Di!Spec => []Di!NoLostWakeup)
 <1> SUFFICES ASSUME DispatchBounds PROVE Di!Spec => []Di!NoLostWakeup
   OBVIOUS
 <1>1. Di!WakeInv => Di!NoLostWakeup
   BY DEF Di!WakeInv
 <1>2. Di!Spec => []Di!WakeInv
   BY WakeInvariance
 <1>3. QED
   BY <1>1, <1>2, PTL

HIDE DEF DispatchBounds
HIDE DEF server, todo, worker, queueDi, idle, fresh, channel, web, crossing, open,
         orders, faults

-----------------------------------------------------------------------------
(* The older matching loop                                                 *)

Ol == INSTANCE OlderMatching WITH
       Top <- Few, orders <- v1, messages <- v2, pc <- v3, pass <- v4, pending <- v5,
       faults <- v6, stale <- v7

(* Its variables. *)
ordersOl == v1
messages == v2
pcOl == v3
pass == v4
pending == v5
faultsOl == v6
stale == v7

USE DEF ordersOl, messages, pcOl, pass, pending, faultsOl, stale

OlderBounds ==
  /\ Sale \in SUBSET Nat /\ Buy \in SUBSET Nat /\ Sale \cap Buy = {}
  /\ IsFiniteSet(Sale) /\ IsFiniteSet(Buy)
  /\ Price \subseteq Nat /\ MaxVolume \in Nat /\ Few \in Nat /\ MaxFaults \in Nat

Rows(side) == Seq([id : side, price : Price, volume : 1..MaxVolume])

(* Rows that a SELECT has given: of different orders. *)
RowsOf(rows, side) ==
  /\ rows \in Rows(side) /\ Len(rows) <= Few
  /\ \A k, l \in DOMAIN rows : rows[k].id = rows[l].id => k = l

(* Of the first n units, those of row k. *)
ShareOf(rows, k, n) ==
  IF n <= Ol!UptoRow(rows, k - 1) THEN 0
  ELSE IF n <= Ol!UptoRow(rows, k) THEN n - Ol!UptoRow(rows, k - 1) ELSE rows[k].volume

(* The transaction has dealt the first n units. *)
Made(rows, n, pend) ==
  \A k \in 1..Len(rows) :
    pend[rows[k].id] =
      IF ShareOf(rows, k, n) = 0 THEN Ol!None
      ELSE [volume |-> ShareOf(rows, k, n),
            status |-> IF ShareOf(rows, k, n) = rows[k].volume THEN "finished" ELSE "partial"]

Within(rows, k, part) == IF k > Len(rows) THEN part = 0 ELSE part < rows[k].volume

CrossUpto(s, b, n) == \A l \in 1..n : Ol!UnitPrice(s, l) <= Ol!UnitPrice(b, l)

Units(p) == Ol!UptoRow(p.s, p.i - 1) + p.sold

(* The pass has come to a sale, p.i, and to a buy, j, of which p.left is   *)
(* left, or all: so many units are dealt of both columns.                  *)
RunAt(p, pend, j) ==
  /\ p.i \in 1..Len(p.s) + 1 /\ Within(p.s, p.i, p.sold)
  /\ j \in 1..Len(p.b) + 1 /\ Within(p.b, j, p.left)
  /\ p.finished = {p.b[k].id : k \in 1..j - 1}
  /\ Units(p) = Ol!UptoRow(p.b, j - 1) + (IF p.left = 0 THEN 0 ELSE p.b[j].volume - p.left)
  /\ Made(p.s, Units(p), pend) /\ Made(p.b, Units(p), pend)
  /\ CrossUpto(p.s, p.b, Units(p))

(* NoValue more crosses. *)
Ended(p, j) ==
  p.i > Len(p.s) \/ j > Len(p.b) \/ ~(p.b[j].price >= p.s[p.i].price)

Passes == [s : Rows(Sale), b : Rows(Buy), i : Nat, sold : Nat, left : 0..MaxVolume,
           finished : SUBSET Ol!Order, locked : SUBSET Ol!Order]

OrderRows == [price : Price, volume : 1..MaxVolume, dealt : Nat,
              status : Ol!Live \cup {"none", "finished", "cancelled"}]

TypedOl ==
  /\ ordersOl \in [Ol!Order -> OrderRows] /\ messages \in Nat
  /\ pcOl \in {"idle", "pass", "commit", "dead"} /\ pass \in Passes
  /\ pending \in [Ol!Order -> [volume : 0..MaxVolume, status : {"same", "partial", "finished"}]]
  /\ faultsOl \in 0..MaxFaults /\ stale \in BOOLEAN

InPass == pcOl \in {"pass", "commit"}
Untouched == \A o \in Ol!Order : pending[o] = Ol!None
Cap(f) == MaxVolume * (f + 1)
InRows(rows, o) == \E k \in 1..Len(rows) : rows[k].id = o

RowsInv ==
  /\ RowsOf(pass.s, Sale) /\ RowsOf(pass.b, Buy)
  /\ \A o \in Ol!Order : InRows(pass.s, o) \/ InRows(pass.b, o) => ordersOl[o].status # "none"

(* In a pass, what is dealt is what the loops have gone over. *)
PassInv ==
  /\ pcOl = "pass" => \E j : RunAt(pass, pending, j)
  /\ pcOl = "commit" => Untouched \/ \E j : RunAt(pass, pending, j) /\ Ended(pass, j)
  /\ pcOl \in {"idle", "dead"} => Untouched
  /\ \A o \in Ol!Order : pending[o] # Ol!None => InRows(pass.s, o) \/ InRows(pass.b, o)

(* Rows as the orders are, which nobody else may change. *)
FreshOl(rows) ==
  \A k \in 1..Len(rows) :
    LET o == rows[k].id
    IN /\ o \in pass.locked /\ ordersOl[o].status \in Ol!Live
       /\ ordersOl[o].dealt + rows[k].volume = ordersOl[o].volume

Capped(rows) ==
  \A k \in 1..Len(rows) : ordersOl[rows[k].id].dealt + rows[k].volume <= Cap(faultsOl)

VolumesInv ==
  /\ \A o \in Ol!Order : ordersOl[o].dealt <= Cap(faultsOl)
  /\ InPass => Capped(pass.s) /\ Capped(pass.b)
  /\ ~stale /\ InPass => FreshOl(pass.s) /\ FreshOl(pass.b)

Entered == {o \in Ol!Order : ordersOl[o].status # "none"}

OlderInv ==
  /\ TypedOl /\ RowsInv /\ PassInv /\ VolumesInv /\ Ol!FilledExactly
  /\ messages <= Cardinality(Entered)

-----------------------------------------------------------------------------
(* The units of a column *)

LEMMA RowTypes ==
  ASSUME OlderBounds, NEW side, NEW rows, RowsOf(rows, side)
  PROVE  /\ Len(rows) \in Nat /\ DOMAIN rows = 1..Len(rows) /\ Len(rows) <= Few
         /\ \A k \in 1..Len(rows) :
              /\ rows[k] \in [id : side, price : Price, volume : 1..MaxVolume]
              /\ rows[k].id \in side /\ rows[k].price \in Nat /\ rows[k].volume \in Nat
              /\ rows[k].volume >= 1 /\ rows[k].volume <= MaxVolume
         /\ \A k, l \in 1..Len(rows) : rows[k].id = rows[l].id => k = l
 <1>1. rows \in Rows(side) /\ Len(rows) <= Few
   BY DEF RowsOf
 <1>2. Len(rows) \in Nat /\ DOMAIN rows = 1..Len(rows)
   BY <1>1 DEF Rows
 <1>3. ASSUME NEW k \in 1..Len(rows)
       PROVE  rows[k] \in [id : side, price : Price, volume : 1..MaxVolume]
   BY <1>1, ElementOfSeq DEF Rows
 <1>4. \A k \in 1..Len(rows) :
         /\ rows[k].id \in side /\ rows[k].price \in Price /\ rows[k].volume \in 1..MaxVolume
   BY <1>3
 <1>5. Price \subseteq Nat /\ MaxVolume \in Nat
   BY DEF OlderBounds
 <1>6. \A k, l \in 1..Len(rows) : rows[k].id = rows[l].id => k = l
   BY <1>2 DEF RowsOf
 <1>7. ASSUME NEW k \in 1..Len(rows)
       PROVE  /\ rows[k].id \in side /\ rows[k].price \in Nat /\ rows[k].volume \in Nat
              /\ rows[k].volume >= 1 /\ rows[k].volume <= MaxVolume
  <2>1. rows[k].id \in side /\ rows[k].price \in Price /\ rows[k].volume \in 1..MaxVolume
    BY <1>4
  <2> DEFINE v == rows[k].volume
  <2>2. v \in 1..MaxVolume
    BY <2>1
  <2> HIDE DEF v
  <2>3. v \in Nat /\ v >= 1 /\ v <= MaxVolume
    BY <2>2, <1>5
  <2>4. rows[k].price \in Nat
    BY <2>1, <1>5
  <2>5. QED
    BY <2>1, <2>3, <2>4 DEF v
 <1>8. \A k \in 1..Len(rows) :
         /\ rows[k] \in [id : side, price : Price, volume : 1..MaxVolume]
         /\ rows[k].id \in side /\ rows[k].price \in Nat /\ rows[k].volume \in Nat
         /\ rows[k].volume >= 1 /\ rows[k].volume <= MaxVolume
   BY <1>3, <1>7
 <1>9. QED
   BY ONLY <1>1, <1>2, <1>8, <1>6

LEMMA SameSumOl ==
  \A f, S : Ol!SumFunctionOnSet(f, S) = SumFunctionOnSet(f, S)
  BY DEF Ol!SumFunctionOnSet, SumFunctionOnSet, Ol!FoldFunctionOnSet, FoldFunctionOnSet,
     Ol!MapThenFoldSet, MapThenFoldSet

LEMMA SameCardinalityOl == \A S : Ol!Cardinality(S) = Cardinality(S)
  BY DEF Ol!Cardinality, Cardinality

LEMMA UptoRowIs ==
  ASSUME OlderBounds, NEW side, NEW rows, RowsOf(rows, side)
  PROVE  /\ Ol!UptoRow(rows, 0) = 0
         /\ \A k \in 0..Len(rows) : Ol!UptoRow(rows, k) \in Nat
         /\ \A k \in 1..Len(rows) : Ol!UptoRow(rows, k) = Ol!UptoRow(rows, k - 1) + rows[k].volume
         /\ \A k, l \in 0..Len(rows) : k <= l => Ol!UptoRow(rows, k) <= Ol!UptoRow(rows, l)
 <1> DEFINE f == [x \in DOMAIN rows |-> rows[x].volume]
            n == Len(rows)
 <1>1. n \in Nat /\ DOMAIN rows = 1..n /\ \A x \in 1..n : f[x] = rows[x].volume /\ f[x] \in Nat
   BY RowTypes
 <1>2. \A k : Ol!UptoRow(rows, k) = SumFunctionOnSet(f, 1..k)
   BY SameSumOl DEF Ol!UptoRow
 <1> HIDE DEF f, n
 <1>3. \A k \in 0..n : IsFiniteSet(1..k) /\ \A x \in 1..k : f[x] \in Nat
  <2> TAKE k \in 0..n
  <2>1. k \in Nat /\ 1..k \subseteq 1..n
    BY <1>1
  <2>2. QED
    BY <2>1, <1>1, FS_Interval
 <1>4. Ol!UptoRow(rows, 0) = 0
  <2>1. 1..0 = {}
    OBVIOUS
  <2>2. QED
    BY <1>2, <2>1, SumEmpty
 <1>5. \A k \in 0..n : Ol!UptoRow(rows, k) \in Nat
   BY <1>2, <1>3, SumNat
 <1>6. ASSUME NEW k \in 1..n PROVE Ol!UptoRow(rows, k) = Ol!UptoRow(rows, k - 1) + rows[k].volume
  <2>1. k \in 0..n /\ k - 1 \in 0..n /\ k \in 1..k /\ (1..k) \ {k} = 1..k - 1
    BY <1>1
  <2>2. \A x \in 1..k : f[x] \in Int
    BY <1>3, <2>1
  <2>3. SumFunctionOnSet(f, 1..k) = f[k] + SumFunctionOnSet(f, (1..k) \ {k})
    BY <1>3, <2>1, <2>2, SumRemove
  <2>4. Ol!UptoRow(rows, k) = f[k] + Ol!UptoRow(rows, k - 1)
    BY <1>2, <2>1, <2>3
  <2>5. Ol!UptoRow(rows, k - 1) \in Nat /\ f[k] \in Nat /\ f[k] = rows[k].volume
    BY <1>1, <1>5, <2>1
  <2>6. QED
    BY <2>4, <2>5
 <1>7. ASSUME NEW k \in 0..n, NEW l \in 0..n, k <= l
       PROVE Ol!UptoRow(rows, k) <= Ol!UptoRow(rows, l)
  <2>1. 1..k \in SUBSET (1..l)
    BY <1>1, <1>7
  <2>2. QED
    BY <1>2, <1>3, <2>1, SumGrows
 <1>8. QED
   BY <1>4, <1>5, <1>6, <1>7 DEF n

LEMMA UptoRowWithin ==
  ASSUME OlderBounds, NEW side, NEW rows, RowsOf(rows, side)
  PROVE  Ol!UptoRow(rows, Len(rows)) <= Few * MaxVolume
 <1> DEFINE n == Len(rows)
            T == {k \in 0..n : Ol!UptoRow(rows, k) > MaxVolume * k}
 <1>1. n \in Nat /\ n <= Few /\ MaxVolume \in Nat /\ Few \in Nat
   BY RowTypes DEF OlderBounds
 <1>2. Ol!UptoRow(rows, n) <= MaxVolume * n
  <2> SUFFICES ASSUME Ol!UptoRow(rows, n) > MaxVolume * n PROVE FALSE
    BY <1>1, UptoRowIs
  <2>1. T \in SUBSET Nat /\ T # {}
    BY <1>1
  <2>2. PICK k \in T : \A l \in T : k <= l
   <3> HIDE DEF T
   <3> QED BY <2>1, LeastNatural
  <2>3. k \in 0..n /\ Ol!UptoRow(rows, k) > MaxVolume * k
    OBVIOUS
  <2>4. k # 0
    BY <2>3, UptoRowIs, <1>1
  <2>5. k - 1 \in 0..n /\ k \in 1..n /\ k - 1 \in Nat
    BY <2>3, <2>4, <1>1
  <2>6. ~(k - 1 \in T)
    BY <2>2, <2>5, <1>1
  <2>7. ~(Ol!UptoRow(rows, k - 1) > MaxVolume * (k - 1))
    BY <2>5, <2>6
  <2>8. Ol!UptoRow(rows, k) = Ol!UptoRow(rows, k - 1) + rows[k].volume
        /\ rows[k].volume <= MaxVolume
    BY <2>5, UptoRowIs, RowTypes
  <2>9. /\ MaxVolume * k = MaxVolume * (k - 1) + MaxVolume /\ MaxVolume * (k - 1) \in Nat
        /\ Ol!UptoRow(rows, k - 1) \in Nat /\ rows[k].volume \in Nat
   <3>1. (k - 1) + 1 = k
     BY <2>5
   <3>2. MaxVolume * ((k - 1) + 1) = MaxVolume * (k - 1) + MaxVolume
         /\ MaxVolume * (k - 1) \in Nat
     BY <2>5, <1>1, Multiples
   <3>3. QED
     BY <3>1, <3>2, <2>5, UptoRowIs, RowTypes
  <2> HIDE DEF T
  <2>10. QED
    BY <1>1, <2>3, <2>7, <2>8, <2>9
 <1>3. MaxVolume * n <= MaxVolume * Few /\ MaxVolume * Few = Few * MaxVolume
       /\ MaxVolume * n \in Nat
   BY <1>1, Multiples
 <1>4. Ol!UptoRow(rows, n) \in Nat /\ Few * MaxVolume \in Nat
   BY <1>1, UptoRowIs, Multiples
 <1> HIDE DEF n, T
 <1>5. QED
   BY <1>2, <1>3, <1>4 DEF n

(* A unit has the price of the row it is in. *)
LEMMA UnitPriceIs ==
  ASSUME OlderBounds, NEW side, NEW rows, RowsOf(rows, side), NEW k \in 1..Len(rows), NEW n \in Nat,
         Ol!UptoRow(rows, k - 1) < n, n <= Ol!UptoRow(rows, k)
  PROVE  Ol!UnitPrice(rows, n) = rows[k].price
 <1> DEFINE S == {x \in 1..Len(rows) : Ol!UptoRow(rows, x) >= n}
 <1>1. Len(rows) \in Nat
   BY RowTypes
 <1>2. ASSUME NEW x \in S PROVE k <= x
  <2> SUFFICES ASSUME x < k PROVE FALSE
    BY <1>1
  <2>1. x \in 0..Len(rows) /\ k - 1 \in 0..Len(rows) /\ x <= k - 1
    BY <1>1
  <2>2. Ol!UptoRow(rows, x) <= Ol!UptoRow(rows, k - 1)
    BY <2>1, UptoRowIs
  <2>3. Ol!UptoRow(rows, x) \in Nat /\ Ol!UptoRow(rows, k - 1) \in Nat
        /\ Ol!UptoRow(rows, x) >= n
    BY <2>1, UptoRowIs
  <2>4. QED
    BY <2>2, <2>3
 <1>3. k \in S
  <2>1. Ol!UptoRow(rows, k) \in Nat
    BY <1>1, UptoRowIs
  <2>2. QED
    BY <2>1
 <1>4. S \subseteq Nat
   BY <1>1
 <1> HIDE DEF S
 <1>5. Ol!First(S) = k
  <2> DEFINE c == CHOOSE x \in S : \A l \in S : x <= l
  <2>1. c \in S /\ \A l \in S : c <= l
    BY <1>2, <1>3
  <2>2. k <= c /\ c <= k /\ c \in Nat
    BY <1>2, <1>3, <1>4, <2>1
  <2>3. Ol!First(S) = c
    BY <1>3 DEF Ol!First
  <2> HIDE DEF c
  <2>4. QED
    BY <2>2, <2>3, <1>1
 <1>6. QED
   BY <1>5 DEF Ol!UnitPrice, S

LEMMA ShareTypes ==
  ASSUME OlderBounds, NEW side, NEW rows, RowsOf(rows, side), NEW k \in 1..Len(rows), NEW n \in Nat
  PROVE  /\ ShareOf(rows, k, n) \in 0..rows[k].volume
         /\ n >= Ol!UptoRow(rows, k) => ShareOf(rows, k, n) = rows[k].volume
         /\ n <= Ol!UptoRow(rows, k - 1) => ShareOf(rows, k, n) = 0
         /\ Ol!UptoRow(rows, k - 1) <= n /\ n <= Ol!UptoRow(rows, k) =>
              ShareOf(rows, k, n) = n - Ol!UptoRow(rows, k - 1)
         /\ n >= Ol!UptoRow(rows, k - 1) + rows[k].volume <=> n >= Ol!UptoRow(rows, k)
 <1>1. Len(rows) \in Nat /\ rows[k].volume \in Nat /\ rows[k].volume >= 1
   BY RowTypes
 <1>2. k - 1 \in 0..Len(rows) /\ k \in 0..Len(rows)
   BY <1>1
 <1>3. /\ Ol!UptoRow(rows, k) \in Nat /\ Ol!UptoRow(rows, k - 1) \in Nat
       /\ Ol!UptoRow(rows, k) = Ol!UptoRow(rows, k - 1) + rows[k].volume
   BY <1>2, UptoRowIs
 <1>4. QED
   BY <1>1, <1>3 DEF ShareOf

LEMMA ShareCounts ==
  ASSUME OlderBounds, NEW side, NEW rows, RowsOf(rows, side), NEW k \in 1..Len(rows), NEW n \in Nat
  PROVE  Cardinality({m \in 1..n : Ol!UptoRow(rows, k - 1) < m
               /\ m <= Ol!UptoRow(rows, k)}) = ShareOf(rows, k, n)
 <1> DEFINE a == Ol!UptoRow(rows, k - 1)
            c == IF n <= Ol!UptoRow(rows, k) THEN n ELSE Ol!UptoRow(rows, k)
            S == {m \in 1..n : a < m /\ m <= Ol!UptoRow(rows, k)}
 <1>1. Len(rows) \in Nat /\ rows[k].volume \in Nat /\ rows[k].volume >= 1
   BY RowTypes
 <1>2. k - 1 \in 0..Len(rows) /\ k \in 0..Len(rows)
   BY <1>1
 <1>3. /\ Ol!UptoRow(rows, k) \in Nat /\ a \in Nat
       /\ Ol!UptoRow(rows, k) = a + rows[k].volume
   BY <1>2, UptoRowIs
 <1>4. S = a + 1..c
   BY <1>1, <1>3
 <1>5. a + 1 \in Int /\ c \in Int
   BY <1>3
 <1>6. Cardinality(a + 1..c) = IF a + 1 > c THEN 0 ELSE c - (a + 1) + 1
   BY <1>5, FS_Interval
 <1>7. ShareOf(rows, k, n) = IF n <= a THEN 0 ELSE IF n <= Ol!UptoRow(rows, k) THEN n - a
             ELSE rows[k].volume
   BY DEF ShareOf
 <1> HIDE DEF a, S
 <1>8. Cardinality(S) = ShareOf(rows, k, n)
   BY <1>1, <1>3, <1>4, <1>6, <1>7
 <1>9. QED
   BY <1>8 DEF S, a

(* More units come of one row. *)
LEMMA ShareMoves ==
  ASSUME OlderBounds, NEW side, NEW rows, RowsOf(rows, side), NEW k \in 1..Len(rows), NEW n \in Nat,
         NEW v \in Nat,
         Ol!UptoRow(rows, k - 1) <= n, n + v <= Ol!UptoRow(rows, k)
  PROVE  /\ ShareOf(rows, k, n) = n - Ol!UptoRow(rows, k - 1)
         /\ ShareOf(rows, k, n + v) = (n + v) - Ol!UptoRow(rows, k - 1)
         /\ \A l \in 1..Len(rows) : l # k => ShareOf(rows, l, n + v) = ShareOf(rows, l, n)
 <1>1. Len(rows) \in Nat
   BY RowTypes
 <1>2. k - 1 \in 0..Len(rows) /\ k \in 0..Len(rows)
   BY <1>1
 <1>3. Ol!UptoRow(rows, k) \in Nat /\ Ol!UptoRow(rows, k - 1) \in Nat /\ n + v \in Nat
   BY <1>2, UptoRowIs
 <1>4. n <= Ol!UptoRow(rows, k) /\ Ol!UptoRow(rows, k - 1) <= n + v
   BY <1>3
 <1>5. ASSUME NEW l \in 1..Len(rows), l # k PROVE ShareOf(rows, l, n + v) = ShareOf(rows, l, n)
  <2>1. CASE l < k
   <3>1. l \in 0..Len(rows) /\ l <= k - 1
     BY <1>1, <2>1
   <3>2. Ol!UptoRow(rows, l) <= Ol!UptoRow(rows, k - 1) /\ Ol!UptoRow(rows, l) \in Nat
     BY <1>2, <3>1, UptoRowIs
   <3>3. n >= Ol!UptoRow(rows, l) /\ n + v >= Ol!UptoRow(rows, l)
     BY <3>2, <1>3, <1>4
   <3>4. QED
     BY <3>3, <1>3, ShareTypes
  <2>2. CASE l > k
   <3>1. l - 1 \in 0..Len(rows) /\ k <= l - 1
     BY <1>1, <2>2
   <3>2. Ol!UptoRow(rows, k) <= Ol!UptoRow(rows, l - 1) /\ Ol!UptoRow(rows, l - 1) \in Nat
     BY <1>2, <3>1, UptoRowIs
   <3>3. n <= Ol!UptoRow(rows, l - 1) /\ n + v <= Ol!UptoRow(rows, l - 1)
     BY <3>2, <1>3, <1>4
   <3>4. QED
     BY <3>3, <1>3, ShareTypes
  <2>3. QED
    BY <1>1, <1>5, <2>1, <2>2
 <1>6. QED
   BY <1>3, <1>4, <1>5, ShareTypes

-----------------------------------------------------------------------------
(* A match *)

(* The first buy that is not finished. *)
LEMMA BuyRowIs ==
  ASSUME OlderBounds, RowsOf(pass.b, Buy), NEW j \in 1..Len(pass.b) + 1,
         pass.finished = {pass.b[k].id : k \in 1..j - 1}
  PROVE  Ol!BuyRow = IF j > Len(pass.b) THEN 0 ELSE j
 <1> DEFINE n == Len(pass.b)
            S == {k \in 1..n : pass.b[k].id \notin pass.finished}
 <1>1. n \in Nat /\ \A k, l \in 1..n : pass.b[k].id = pass.b[l].id => k = l
   BY RowTypes
 <1>2. \A k \in 1..n : k \in S <=> k >= j
  <2> TAKE k \in 1..n
  <2>1. pass.b[k].id \in pass.finished <=> \E l \in 1..j - 1 : pass.b[l].id = pass.b[k].id
    OBVIOUS
  <2>2. \A l \in 1..j - 1 : l \in 1..n
    BY <1>1
  <2>3. pass.b[k].id \in pass.finished <=> k \in 1..j - 1
    BY <1>1, <2>1, <2>2
  <2>4. QED
    BY <1>1, <2>3
 <1>3. Ol!BuyRow = Ol!First(S)
   BY DEF Ol!BuyRow
 <1>4. S \subseteq 1..n
   OBVIOUS
 <1> HIDE DEF S
 <1>5. CASE j > n
  <2>1. S = {}
    BY <1>1, <1>2, <1>4, <1>5
  <2>2. QED
    BY <1>3, <1>5, <2>1 DEF Ol!First
 <1>6. CASE j <= n
  <2>1. j \in S /\ \A l \in S : j <= l
    BY <1>1, <1>2, <1>4, <1>6
  <2> DEFINE c == CHOOSE x \in S : \A l \in S : x <= l
  <2>2. c \in S /\ \A l \in S : c <= l
    BY <2>1
  <2>3. c <= j /\ j <= c /\ c \in 1..n
    BY <2>1, <2>2, <1>4
  <2>4. Ol!First(S) = c
    BY <2>1 DEF Ol!First
  <2> HIDE DEF c
  <2>5. c = j
    BY <2>3, <1>1
  <2>6. QED
    BY <1>1, <1>3, <1>6, <2>4, <2>5
 <1>7. QED
   BY <1>1, <1>5, <1>6

(* v more units of a column, which the transaction deals to row k.         *)
LEMMA MakesMore ==
  ASSUME OlderBounds, NEW side, NEW rows, RowsOf(rows, side), NEW k \in 1..Len(rows), NEW n \in Nat,
         NEW v \in Nat,
         Ol!UptoRow(rows, k - 1) <= n, n + v <= Ol!UptoRow(rows, k), v # 0,
         NEW pend, NEW next, Made(rows, n, pend),
         next[rows[k].id] =
           [volume |-> pend[rows[k].id].volume + v,
            status |-> IF n + v = Ol!UptoRow(rows, k) THEN "finished" ELSE "partial"],
         \A l \in 1..Len(rows) : l # k => next[rows[l].id] = pend[rows[l].id]
  PROVE  Made(rows, n + v, next)
 <1> DEFINE a == Ol!UptoRow(rows, k - 1)
 <1>1. /\ ShareOf(rows, k, n) = n - Ol!UptoRow(rows, k - 1)
       /\ ShareOf(rows, k, n + v) = (n + v) - Ol!UptoRow(rows, k - 1)
       /\ \A l \in 1..Len(rows) : l # k => ShareOf(rows, l, n + v) = ShareOf(rows, l, n)
   BY ONLY OlderBounds, RowsOf(rows, side), k \in 1..Len(rows), n \in Nat, v \in Nat,
           Ol!UptoRow(rows, k - 1) <= n, n + v <= Ol!UptoRow(rows, k), ShareMoves, Zenon
 <1>2. Len(rows) \in Nat /\ k - 1 \in 0..Len(rows) /\ k \in 0..Len(rows)
       /\ rows[k].volume \in Nat
   BY RowTypes
 <1>3. a \in Nat /\ Ol!UptoRow(rows, k) = a + rows[k].volume
   BY <1>2, UptoRowIs
 <1>4. pend[rows[k].id].volume = n - a
  <2>1. pend[rows[k].id] =
          IF ShareOf(rows, k, n) = 0 THEN Ol!None
          ELSE [volume |-> ShareOf(rows, k, n),
                status |-> IF ShareOf(rows, k, n) = rows[k].volume THEN "finished"
                      ELSE "partial"]
    BY DEF Made
  <2>2. pend[rows[k].id].volume = ShareOf(rows, k, n)
    BY <2>1 DEF Ol!None
  <2>3. QED
    BY <1>1, <2>2
 <1> HIDE DEF a
 <1>5. (n - a) + v = (n + v) - a /\ (n + v) - a # 0
   BY <1>3 DEF a
 <1>6. n + v = Ol!UptoRow(rows, k) <=> (n + v) - a = rows[k].volume
   BY <1>2, <1>3
 <1>11. ShareOf(rows, k, n + v) = (n + v) - a
   BY <1>1 DEF a
 <1>12. pend[rows[k].id].volume + v = ShareOf(rows, k, n + v)
   BY <1>4, <1>5, <1>11
 <1>13. n + v = Ol!UptoRow(rows, k) <=> ShareOf(rows, k, n + v) = rows[k].volume
   BY <1>6, <1>11
 <1>7. next[rows[k].id] =
         [volume |-> ShareOf(rows, k, n + v),
          status |-> IF ShareOf(rows, k, n + v) = rows[k].volume THEN "finished" ELSE "partial"]
   BY <1>12, <1>13, Zenon
 <1>8. ShareOf(rows, k, n + v) # 0
   BY <1>11, <1>5
 <1>9. ASSUME NEW l \in 1..Len(rows), l # k
       PROVE  next[rows[l].id] =
                IF ShareOf(rows, l, n + v) = 0 THEN Ol!None
                ELSE [volume |-> ShareOf(rows, l, n + v),
                      status |-> IF ShareOf(rows, l, n + v) = rows[l].volume THEN "finished"
                            ELSE "partial"]
  <2>1. next[rows[l].id] = pend[rows[l].id] /\ ShareOf(rows, l, n + v) = ShareOf(rows, l, n)
    BY <1>1, <1>9
  <2>2. QED
    BY <2>1 DEF Made
 <1>10. QED
   BY <1>7, <1>8, <1>9 DEF Made

LEMMA MoreCross ==
  ASSUME OlderBounds, NEW s, NEW b, RowsOf(s, Sale), RowsOf(b, Buy), NEW i \in 1..Len(s), NEW j \in 1..Len(b),
         NEW n \in Nat, NEW v \in Nat, CrossUpto(s, b, n), s[i].price <= b[j].price,
         Ol!UptoRow(s, i - 1) <= n, n + v <= Ol!UptoRow(s, i),
         Ol!UptoRow(b, j - 1) <= n, n + v <= Ol!UptoRow(b, j)
  PROVE  CrossUpto(s, b, n + v)
 <1> SUFFICES ASSUME NEW l \in 1..n + v PROVE Ol!UnitPrice(s, l) <= Ol!UnitPrice(b, l)
   BY DEF CrossUpto
 <1>1. CASE l <= n
   BY <1>1 DEF CrossUpto
 <1>2. CASE l > n
  <2>1. Len(s) \in Nat /\ Len(b) \in Nat
    BY RowTypes
  <2>2. /\ Ol!UptoRow(s, i - 1) \in Nat /\ Ol!UptoRow(s, i) \in Nat
        /\ Ol!UptoRow(b, j - 1) \in Nat /\ Ol!UptoRow(b, j) \in Nat
   <3>1. i \in 0..Len(s) /\ i - 1 \in 0..Len(s) /\ j \in 0..Len(b) /\ j - 1 \in 0..Len(b)
     BY <2>1
   <3>2. QED
     BY <3>1, UptoRowIs
  <2>3. /\ l \in Nat /\ Ol!UptoRow(s, i - 1) < l /\ l <= Ol!UptoRow(s, i)
        /\ Ol!UptoRow(b, j - 1) < l /\ l <= Ol!UptoRow(b, j)
    BY <1>2, <2>2
  <2>4. Ol!UnitPrice(s, l) = s[i].price /\ Ol!UnitPrice(b, l) = b[j].price
    BY <2>3, UnitPriceIs
  <2>5. QED
    BY <2>4
 <1>3. QED
   BY <1>1, <1>2

(* The units that are dealt, and where they are in the columns. *)
LEMMA UnitsAre ==
  ASSUME OlderBounds, NEW p \in Passes, RowsOf(p.s, Sale), RowsOf(p.b, Buy), NEW pend, NEW j, RunAt(p, pend, j)
  PROVE  /\ Units(p) \in Nat /\ Len(p.s) \in Nat /\ Len(p.b) \in Nat
         /\ p.i \in 1..Len(p.s) + 1 /\ j \in 1..Len(p.b) + 1
         /\ Units(p) <= Ol!UptoRow(p.s, Len(p.s)) /\ Units(p) <= Ol!UptoRow(p.b, Len(p.b))
         /\ p.i > Len(p.s) => Units(p) = Ol!UptoRow(p.s, Len(p.s))
         /\ j > Len(p.b) => Units(p) = Ol!UptoRow(p.b, Len(p.b))
         /\ p.i <= Len(p.s) =>
              /\ Ol!UptoRow(p.s, p.i - 1) <= Units(p) /\ Units(p) < Ol!UptoRow(p.s, p.i)
              /\ Ol!UptoRow(p.s, p.i) - Units(p) = p.s[p.i].volume - p.sold
         /\ j <= Len(p.b) =>
              /\ Ol!UptoRow(p.b, j - 1) <= Units(p) /\ Units(p) < Ol!UptoRow(p.b, j)
              /\ Ol!UptoRow(p.b, j) - Units(p) = IF p.left > 0 THEN p.left ELSE p.b[j].volume
 <1>1. /\ Len(p.s) \in Nat /\ Len(p.b) \in Nat
       /\ p.i \in 1..Len(p.s) + 1 /\ j \in 1..Len(p.b) + 1
       /\ p.sold \in Nat /\ p.left \in Nat
   BY RowTypes DEF Passes, RunAt, OlderBounds
 <1>2. Ol!UptoRow(p.s, p.i - 1) \in Nat
  <2>1. p.i - 1 \in 0..Len(p.s)
    BY <1>1
  <2>2. QED
    BY <2>1, UptoRowIs
 <1>3. Units(p) \in Nat /\ Units(p) = Ol!UptoRow(p.s, p.i - 1) + p.sold
   BY <1>1, <1>2 DEF Units
 <1>5. ASSUME p.i <= Len(p.s)
       PROVE  /\ Ol!UptoRow(p.s, p.i - 1) <= Units(p) /\ Units(p) < Ol!UptoRow(p.s, p.i)
              /\ Ol!UptoRow(p.s, p.i) - Units(p) = p.s[p.i].volume - p.sold
              /\ Units(p) <= Ol!UptoRow(p.s, Len(p.s))
  <2>1. p.i \in 1..Len(p.s) /\ p.i \in 0..Len(p.s) /\ Len(p.s) \in 0..Len(p.s)
    BY <1>1, <1>5
  <2>2. /\ Ol!UptoRow(p.s, p.i) = Ol!UptoRow(p.s, p.i - 1) + p.s[p.i].volume
        /\ p.s[p.i].volume \in Nat
        /\ Ol!UptoRow(p.s, p.i) \in Nat /\ Ol!UptoRow(p.s, Len(p.s)) \in Nat
        /\ Ol!UptoRow(p.s, p.i) <= Ol!UptoRow(p.s, Len(p.s))
    BY <2>1, <1>5, UptoRowIs, RowTypes
  <2>3. p.sold < p.s[p.i].volume
    BY <1>1, <1>5 DEF RunAt, Within
  <2>4. p.s[p.i].volume \in Nat /\ p.sold \in Nat
    BY <2>2, <1>1
  <2>5. /\ Ol!UptoRow(p.s, p.i - 1) <= Units(p) /\ Units(p) < Ol!UptoRow(p.s, p.i)
        /\ Ol!UptoRow(p.s, p.i) - Units(p) = p.s[p.i].volume - p.sold
    BY ONLY <1>2, <1>3, <2>2, <2>3, <2>4
  <2>6. Units(p) <= Ol!UptoRow(p.s, Len(p.s))
    BY <2>2, <2>5, <1>3
  <2>7. QED
    BY <2>5, <2>6
 <1>6. Ol!UptoRow(p.b, j - 1) \in Nat
  <2>1. j - 1 \in 0..Len(p.b)
    BY <1>1
  <2>2. QED
    BY <2>1, UptoRowIs
 <1>7. Units(p) = Ol!UptoRow(p.b, j - 1) + (IF p.left = 0 THEN 0 ELSE p.b[j].volume - p.left)
   BY DEF RunAt
 <1>8. ASSUME j > Len(p.b) PROVE Units(p) = Ol!UptoRow(p.b, Len(p.b))
  <2>1. p.left = 0 /\ j - 1 = Len(p.b)
    BY <1>1, <1>8 DEF RunAt, Within
  <2>2. QED
    BY <1>6, <1>7, <2>1
 <1>9. ASSUME j <= Len(p.b)
       PROVE  /\ Ol!UptoRow(p.b, j - 1) <= Units(p) /\ Units(p) < Ol!UptoRow(p.b, j)
              /\ Ol!UptoRow(p.b, j) - Units(p) = IF p.left > 0 THEN p.left ELSE p.b[j].volume
              /\ Units(p) <= Ol!UptoRow(p.b, Len(p.b))
  <2>1. j \in 1..Len(p.b) /\ j \in 0..Len(p.b) /\ Len(p.b) \in 0..Len(p.b)
    BY <1>1, <1>9
  <2>2. /\ Ol!UptoRow(p.b, j) = Ol!UptoRow(p.b, j - 1) + p.b[j].volume /\ p.b[j].volume \in Nat
        /\ p.b[j].volume >= 1
        /\ Ol!UptoRow(p.b, j) \in Nat /\ Ol!UptoRow(p.b, Len(p.b)) \in Nat
        /\ Ol!UptoRow(p.b, j) <= Ol!UptoRow(p.b, Len(p.b))
    BY <2>1, <1>9, UptoRowIs, RowTypes
  <2>3. p.left < p.b[j].volume
    BY <1>1, <1>9 DEF RunAt, Within
  <2>4. p.b[j].volume \in Nat /\ p.left \in Nat
    BY <2>2, <1>1
  <2>5. /\ Ol!UptoRow(p.b, j - 1) <= Units(p) /\ Units(p) < Ol!UptoRow(p.b, j)
        /\ Ol!UptoRow(p.b, j) - Units(p) = IF p.left > 0 THEN p.left ELSE p.b[j].volume
    BY ONLY <1>6, <1>7, <2>2, <2>3, <2>4
  <2>6. Units(p) <= Ol!UptoRow(p.b, Len(p.b))
    BY <2>2, <2>5, <1>3
  <2>7. QED
    BY <2>5, <2>6
 <1>10. j > Len(p.b) \/ j <= Len(p.b)
   BY <1>1
 <1>11. Units(p) <= Ol!UptoRow(p.b, Len(p.b))
   BY <1>3, <1>8, <1>9, <1>10
 <1>12. p.i > Len(p.s) \/ p.i <= Len(p.s)
   BY <1>1
 <1>13. Units(p) <= Ol!UptoRow(p.s, Len(p.s))
        /\ (p.i > Len(p.s) => Units(p) = Ol!UptoRow(p.s, Len(p.s)))
  <2>1. CASE p.i > Len(p.s)
   <3>1. p.sold = 0 /\ p.i - 1 = Len(p.s)
     BY <1>1, <2>1 DEF RunAt, Within
   <3>2. Units(p) = Ol!UptoRow(p.s, Len(p.s))
     BY <1>2, <1>3, <3>1
   <3>3. QED
     BY <3>2, <1>3
  <2>2. CASE p.i <= Len(p.s)
    BY <2>2, <1>5, <1>1
  <2>3. QED
    BY <2>1, <2>2, <1>12
 <1>14. QED
   BY <1>1, <1>3, <1>5, <1>8, <1>9, <1>11, <1>13

(* A pair of rows that crosses, what is left of both, what is matched.     *)
Pair(p, j, a, c, v) ==
  /\ p.i <= Len(p.s) /\ j <= Len(p.b) /\ p.b[j].price >= p.s[p.i].price
  /\ a = p.s[p.i].volume - p.sold
  /\ c = (IF p.left > 0 THEN p.left ELSE p.b[j].volume)
  /\ v = (IF a < c THEN a ELSE c)

Deals(p, pend, j, a, c, v, next) ==
  /\ Ol!Order \subseteq DOMAIN pend
  /\ next = [pend EXCEPT
       ![p.s[p.i].id] = [volume |-> pend[p.s[p.i].id].volume + v,
                         status |-> IF a > c THEN "partial" ELSE "finished"],
       ![p.b[j].id] = [volume |-> pend[p.b[j].id].volume + v,
                       status |-> IF c > a THEN "partial" ELSE "finished"]]

GoesOn(p, q, j, a, c, v) ==
  /\ q \in Passes /\ q.s = p.s /\ q.b = p.b
  /\ \/ /\ c < a /\ q.i = p.i /\ q.sold = p.sold + v /\ q.left = 0
        /\ q.finished = p.finished \cup {p.b[j].id}
     \/ /\ c = a /\ q.i = p.i + 1 /\ q.sold = 0 /\ q.left = 0
        /\ q.finished = p.finished \cup {p.b[j].id}
     \/ /\ c > a /\ q.i = p.i + 1 /\ q.sold = 0 /\ q.left = c - a
        /\ q.finished = p.finished

(* Where the loops are after a match of v units: with both columns v       *)
(* further.                                                                *)
LEMMA MatchMoves ==
  ASSUME OlderBounds, NEW p \in Passes, RowsOf(p.s, Sale), RowsOf(p.b, Buy), NEW pend, NEW j,
         RunAt(p, pend, j),
         NEW a, NEW c, NEW v, Pair(p, j, a, c, v), NEW next, Deals(p, pend, j, a, c, v, next)
  PROVE  /\ a \in Nat /\ c \in Nat /\ v \in Nat /\ v # 0 /\ v <= a /\ v <= c
         /\ Ol!UptoRow(p.s, p.i) = Units(p) + a /\ Ol!UptoRow(p.b, j) = Units(p) + c
         /\ Made(p.s, Units(p) + v, next) /\ Made(p.b, Units(p) + v, next)
         /\ CrossUpto(p.s, p.b, Units(p) + v)
 <1> DEFINE n == Units(p)
            so == p.s[p.i].id
            bo == p.b[j].id
 <1>1. /\ n \in Nat /\ Len(p.s) \in Nat /\ Len(p.b) \in Nat
       /\ p.i \in 1..Len(p.s) + 1 /\ j \in 1..Len(p.b) + 1
       /\ Ol!UptoRow(p.s, p.i - 1) <= n /\ n < Ol!UptoRow(p.s, p.i)
       /\ Ol!UptoRow(p.s, p.i) - n = a
       /\ Ol!UptoRow(p.b, j - 1) <= n /\ n < Ol!UptoRow(p.b, j)
       /\ Ol!UptoRow(p.b, j) - n = c
   BY UnitsAre DEF Pair
 <1>2. p.i \in 1..Len(p.s) /\ j \in 1..Len(p.b) /\ v = (IF a < c THEN a ELSE c)
   BY <1>1 DEF Pair
 <1>3. Ol!UptoRow(p.s, p.i) \in Nat /\ Ol!UptoRow(p.b, j) \in Nat
  <2>1. p.i \in 0..Len(p.s) /\ j \in 0..Len(p.b)
    BY <1>1, <1>2
  <2>2. QED
    BY <2>1, UptoRowIs
 <1>4. /\ so \in Sale /\ bo \in Buy /\ so \in Ol!Order /\ bo \in Ol!Order /\ so # bo
   BY <1>2, RowTypes DEF Ol!Order, OlderBounds
 <1>5. /\ \A k \in 1..Len(p.s) : /\ p.s[k].id \in Ol!Order /\ p.s[k].id # bo
                                 /\ p.s[k].id = so => k = p.i
       /\ \A k \in 1..Len(p.b) : /\ p.b[k].id \in Ol!Order /\ p.b[k].id # so
                                 /\ p.b[k].id = bo => k = j
   BY <1>2, <1>4, RowTypes DEF Ol!Order, OlderBounds
 <1>6. /\ next[so] = [volume |-> pend[so].volume + v, status |-> IF a > c THEN "partial"
             ELSE "finished"]
       /\ next[bo] = [volume |-> pend[bo].volume + v, status |-> IF c > a THEN "partial"
             ELSE "finished"]
       /\ \A o \in Ol!Order : o # so /\ o # bo => next[o] = pend[o]
   BY <1>4 DEF Deals
 <1>7. Made(p.s, n, pend) /\ Made(p.b, n, pend) /\ CrossUpto(p.s, p.b, n)
   BY DEF RunAt
 <1> HIDE DEF n
 <1>8. /\ a \in Nat /\ c \in Nat /\ v \in Nat /\ v # 0 /\ v <= a /\ v <= c
       /\ Ol!UptoRow(p.s, p.i) = n + a /\ Ol!UptoRow(p.b, j) = n + c
       /\ n + v <= Ol!UptoRow(p.s, p.i) /\ n + v <= Ol!UptoRow(p.b, j)
       /\ ~(a > c) <=> n + v = Ol!UptoRow(p.s, p.i)
       /\ ~(c > a) <=> n + v = Ol!UptoRow(p.b, j)
  <2> DEFINE x == Ol!UptoRow(p.s, p.i)
             y == Ol!UptoRow(p.b, j)
  <2>1. n \in Nat /\ x \in Nat /\ y \in Nat /\ n < x /\ n < y /\ x - n = a /\ y - n = c
    BY <1>1, <1>3
  <2> HIDE DEF x, y
  <2>2. a \in Nat /\ c \in Nat /\ a # 0 /\ c # 0 /\ x = n + a /\ y = n + c
    BY ONLY <2>1
  <2>3. v \in Nat /\ v # 0 /\ v <= a /\ v <= c /\ (v = a \/ v = c) /\ (~(a > c) <=> v = a)
              /\ (~(c > a) <=> v = c)
    BY ONLY <2>2, <1>2
  <2>4. /\ n + v <= x /\ n + v <= y
        /\ ~(a > c) <=> n + v = x
        /\ ~(c > a) <=> n + v = y
    BY ONLY <2>1, <2>2, <2>3
  <2>5. QED
    BY <2>2, <2>3, <2>4 DEF x, y
 <1>9. Made(p.s, n + v, next)
  <2>1. next[p.s[p.i].id] =
          [volume |-> pend[p.s[p.i].id].volume + v,
           status |-> IF n + v = Ol!UptoRow(p.s, p.i) THEN "finished" ELSE "partial"]
    BY <1>6, <1>8
  <2>2. \A l \in 1..Len(p.s) : l # p.i => next[p.s[l].id] = pend[p.s[l].id]
    BY <1>5, <1>6
  <2> HIDE DEF so, bo
  <2>3. QED
    BY <2>1, <2>2, <1>1, <1>2, <1>7, <1>8, MakesMore
 <1>10. Made(p.b, n + v, next)
  <2>1. next[p.b[j].id] =
          [volume |-> pend[p.b[j].id].volume + v,
           status |-> IF n + v = Ol!UptoRow(p.b, j) THEN "finished" ELSE "partial"]
    BY <1>6, <1>8
  <2>2. \A l \in 1..Len(p.b) : l # j => next[p.b[l].id] = pend[p.b[l].id]
    BY <1>5, <1>6
  <2> HIDE DEF so, bo
  <2>3. QED
    BY <2>1, <2>2, <1>1, <1>2, <1>7, <1>8, MakesMore
 <1>11. CrossUpto(p.s, p.b, n + v)
  <2>1. p.s[p.i].price <= p.b[j].price
    BY <1>2, RowTypes DEF Pair
  <2>2. QED
    BY <2>1, <1>1, <1>2, <1>7, <1>8, MoreCross
 <1>12. QED
   BY <1>8, <1>9, <1>10, <1>11 DEF n

(* What is left of a row is less than the row. *)
LEMMA NextRow ==
  ASSUME OlderBounds, NEW side, NEW rows, RowsOf(rows, side), NEW k \in 1..Len(rows)
  PROVE  /\ Within(rows, k + 1, 0) /\ k + 1 \in 1..Len(rows) + 1 /\ (k + 1) - 1 = k
         /\ \A v \in Nat : v < rows[k].volume => Within(rows, k, v)
         /\ {rows[l].id : l \in 1..k} = {rows[l].id : l \in 1..k - 1} \cup {rows[k].id}
 <1>1. Len(rows) \in Nat
   BY RowTypes
 <1>2. Within(rows, k + 1, 0)
  <2>1. CASE k + 1 > Len(rows)
    BY <2>1 DEF Within
  <2>2. CASE k + 1 \in 1..Len(rows)
   <3>1. rows[k + 1].volume >= 1 /\ rows[k + 1].volume \in Nat
     BY <2>2, RowTypes
   <3>2. QED
     BY <3>1, <2>2 DEF Within
  <2>3. QED
    BY <2>1, <2>2, <1>1
 <1>3. 1..k = (1..k - 1) \cup {k}
   BY <1>1
 <1>4. {rows[l].id : l \in 1..k} = {rows[l].id : l \in 1..k - 1} \cup {rows[k].id}
   BY <1>3
 <1>5. \A v \in Nat : v < rows[k].volume => Within(rows, k, v)
   BY <1>1 DEF Within
 <1>6. QED
   BY <1>1, <1>2, <1>4, <1>5

LEMMA MatchRuns ==
  ASSUME OlderBounds, NEW p \in Passes, RowsOf(p.s, Sale), RowsOf(p.b, Buy), NEW pend, NEW j,
         RunAt(p, pend, j),
         NEW a, NEW c, NEW v, Pair(p, j, a, c, v), NEW next, Deals(p, pend, j, a, c, v, next),
         NEW q, GoesOn(p, q, j, a, c, v)
  PROVE  \E l : RunAt(q, next, l)
 <1> DEFINE n == Units(p)
 <1>1. /\ a \in Nat /\ c \in Nat /\ v \in Nat /\ v # 0 /\ v <= a /\ v <= c
       /\ Ol!UptoRow(p.s, p.i) = n + a /\ Ol!UptoRow(p.b, j) = n + c
       /\ Made(p.s, n + v, next) /\ Made(p.b, n + v, next)
       /\ CrossUpto(p.s, p.b, n + v)
   BY MatchMoves
 <1>2. /\ n \in Nat /\ Len(p.s) \in Nat /\ Len(p.b) \in Nat
       /\ p.i \in 1..Len(p.s) + 1 /\ j \in 1..Len(p.b) + 1
   BY UnitsAre
 <1>3. /\ p.i \in 1..Len(p.s) /\ j \in 1..Len(p.b) /\ a = p.s[p.i].volume - p.sold
       /\ v = (IF a < c THEN a ELSE c) /\ c = (IF p.left > 0 THEN p.left ELSE p.b[j].volume)
   BY <1>2 DEF Pair
 <1>13. q.s = p.s /\ q.b = p.b
   BY DEF GoesOn
 <1>4. /\ Ol!UptoRow(p.b, j) = Ol!UptoRow(p.b, j - 1) + p.b[j].volume
       /\ Ol!UptoRow(p.b, j - 1) \in Nat
       /\ p.b[j].volume \in Nat /\ p.s[p.i].volume \in Nat /\ p.sold \in Nat /\ p.left \in Nat
       /\ Ol!UptoRow(p.s, p.i - 1) \in Nat
       /\ p.b[j].volume >= 1
  <2>1. j - 1 \in 0..Len(p.b) /\ p.i - 1 \in 0..Len(p.s)
    BY <1>2, <1>3
  <2>2. p.sold \in Nat /\ p.left \in Nat
    BY DEF Passes, OlderBounds
  <2>3. QED
    BY <1>3, <2>1, <2>2, UptoRowIs, RowTypes
 <1>5. /\ Within(p.s, p.i, p.sold) /\ Within(p.b, j, p.left)
       /\ p.finished = {p.b[k].id : k \in 1..j - 1}
       /\ n = Ol!UptoRow(p.s, p.i - 1) + p.sold
   BY DEF RunAt, Units
 <1>6. p.sold < p.s[p.i].volume /\ p.left < p.b[j].volume
   BY <1>2, <1>3, <1>5 DEF Within
 <1> HIDE DEF n
 <1>14. /\ a \in Nat /\ c \in Nat /\ v = (IF a < c THEN a ELSE c)
        /\ Ol!UptoRow(p.s, p.i) = n + a /\ Ol!UptoRow(p.b, j) = n + c
   BY <1>1, <1>3
 <1>7. ASSUME c <= a PROVE v = c /\ n + v = Ol!UptoRow(p.b, j)
  <2>1. v = c
    BY ONLY <1>14, <1>7
  <2>2. QED
    BY <2>1, <1>14
 <1>8. ASSUME c >= a PROVE v = a /\ n + v = Ol!UptoRow(p.s, p.i)
  <2>1. v = a
    BY ONLY <1>14, <1>8
  <2>2. QED
    BY <2>1, <1>14
 <1>9. CASE c < a
  <2>1. /\ q.i = p.i /\ q.sold = p.sold + v /\ q.left = 0
        /\ q.finished = p.finished \cup {p.b[j].id}
    BY <1>1, <1>9 DEF GoesOn
  <2>2. p.sold + v < p.s[p.i].volume /\ p.sold + v \in Nat
   <3> DEFINE x == p.s[p.i].volume
   <3>1. v = c /\ c \in Nat /\ c < a /\ a = x - p.sold /\ x \in Nat /\ p.sold \in Nat
    <4>1. c <= a
      BY ONLY <1>14, <1>9
    <4>2. v = c
      BY <4>1, <1>7
    <4>3. QED
      BY <4>2, <1>3, <1>4, <1>9, <1>14
   <3> HIDE DEF x
   <3>2. p.sold + v < x /\ p.sold + v \in Nat
     BY ONLY <3>1
   <3>3. QED
     BY <3>2 DEF x
  <2>3. Units(q) = n + v
    BY ONLY <1>13, <2>1, <1>1, <1>2, <1>4, <1>5, SMTT(30) DEF Units
  <2>4. Within(q.s, q.i, q.sold) /\ Within(q.b, j + 1, q.left) /\ (j + 1) - 1 = j
    BY <1>13, <2>1, <2>2, <1>3, NextRow, SMTT(30)
  <2>5. q.finished = {q.b[k].id : k \in 1..(j + 1) - 1} /\ j + 1 \in 1..Len(q.b) + 1
    BY <1>13, <2>1, <1>3, <1>5, NextRow, SMTT(30)
  <2>6. Units(q) = Ol!UptoRow(q.b, (j + 1) - 1) + 0
    BY <1>13, <2>3, <2>4, <1>1, <1>4, <1>7, <1>9
  <2>7. RunAt(q, next, j + 1)
    BY <1>13, <2>1, <2>3, <2>4, <2>5, <2>6, <1>1, <1>2 DEF RunAt
  <2>8. QED
    BY <2>7
 <1>10. CASE c = a
  <2>1. /\ q.i = p.i + 1 /\ q.sold = 0 /\ q.left = 0
        /\ q.finished = p.finished \cup {p.b[j].id}
    BY <1>1, <1>10 DEF GoesOn
  <2>2. /\ Within(q.s, q.i, q.sold) /\ Within(q.b, j + 1, q.left) /\ (j + 1) - 1 = j
        /\ q.i \in 1..Len(q.s) + 1 /\ q.i - 1 = p.i
    BY <1>13, <2>1, <1>3, NextRow
  <2>3. Units(q) = n + v
    BY <1>13, <2>1, <2>2, <1>1, <1>2, <1>8, <1>10 DEF Units
  <2>5. q.finished = {q.b[k].id : k \in 1..(j + 1) - 1} /\ j + 1 \in 1..Len(q.b) + 1
    BY <1>13, <2>1, <1>3, <1>5, NextRow, SMTT(30)
  <2>6. Units(q) = Ol!UptoRow(q.b, (j + 1) - 1) + 0
    BY <1>13, <2>2, <2>3, <1>1, <1>4, <1>7, <1>10
  <2>7. RunAt(q, next, j + 1)
    BY <1>13, <2>1, <2>2, <2>3, <2>5, <2>6, <1>1, <1>2 DEF RunAt
  <2>8. QED
    BY <2>7
 <1>11. CASE c > a
  <2>1. /\ q.i = p.i + 1 /\ q.sold = 0 /\ q.left = c - a /\ q.finished = p.finished
    BY <1>1, <1>11 DEF GoesOn
  <2>2. /\ Within(q.s, q.i, q.sold) /\ q.i \in 1..Len(q.s) + 1 /\ q.i - 1 = p.i
    BY <1>13, <2>1, <1>3, NextRow
  <2>3. Units(q) = n + v
    BY <1>13, <2>1, <2>2, <1>1, <1>2, <1>8, <1>11 DEF Units
  <2>4. q.left \in Nat /\ q.left # 0 /\ q.left < p.b[j].volume
   <3>1. c <= p.b[j].volume
     BY <1>3, <1>4, <1>6
   <3>2. a # 0
     BY <1>1
   <3>3. QED
     BY <3>1, <3>2, <2>1, <1>1, <1>4, <1>11
  <2>5. Within(q.b, j, q.left)
    BY <1>13, <2>4, <1>3, NextRow
  <2>6. Units(q) = Ol!UptoRow(q.b, j - 1) + (q.b[j].volume - q.left)
   <3> DEFINE x == Ol!UptoRow(p.b, j - 1)
              y == p.b[j].volume
   <3>1. /\ n + c = x + y /\ n \in Nat /\ c \in Nat /\ x \in Nat /\ y \in Nat /\ a \in Nat
         /\ Units(q) = n + a /\ q.left = c - a
     BY <2>1, <2>3, <1>1, <1>2, <1>4, <1>8, <1>11
   <3> HIDE DEF x, y
   <3>2. Units(q) = x + (y - q.left)
     BY ONLY <3>1
   <3>3. QED
     BY <3>2, <1>13 DEF x, y
  <2>7. RunAt(q, next, j)
    BY <1>13, <2>1, <2>2, <2>3, <2>4, <2>5, <2>6, <1>1, <1>2, <1>5 DEF RunAt
  <2>8. QED
    BY <2>7
 <1>12. QED
   BY <1>1, <1>9, <1>10, <1>11

LEMMA InitOlder ==
  ASSUME OlderBounds PROVE Ol!Init => OlderInv
 <1> SUFFICES ASSUME Ol!Init PROVE OlderInv
   OBVIOUS
 <1>1. PICK p \in [Ol!Order -> Price], v \in [Ol!Order -> 1..MaxVolume] :
         ordersOl = [o \in Ol!Order |-> [price |-> p[o], volume |-> v[o], dealt |-> 0,
               status |-> "none"]]
   BY DEF Ol!Init
 <1>2. /\ messages = 0 /\ pcOl = "idle" /\ pass = Ol!NoRows
       /\ pending = [o \in Ol!Order |-> Ol!None] /\ faultsOl = 0 /\ stale = FALSE
   BY DEF Ol!Init
 <1>3. \A o \in Ol!Order : /\ ordersOl[o] \in OrderRows /\ ordersOl[o].dealt = 0
                           /\ ordersOl[o].status = "none" /\ ordersOl[o].volume \in 1..MaxVolume
   BY <1>1 DEF OrderRows, Ol!Live
 <1>4. Ol!None \in [volume : 0..MaxVolume, status : {"same", "partial", "finished"}]
   BY DEF Ol!None, OlderBounds
 <1>5. /\ pass.s = <<>> /\ pass.b = <<>> /\ pass \in Passes
   BY <1>2 DEF Ol!NoRows, Passes, Rows, OlderBounds
 <1>6. RowsOf(<<>>, Sale) /\ RowsOf(<<>>, Buy) /\ \A o : ~InRows(<<>>, o)
  <2>1. DOMAIN <<>> = {} /\ Len(<<>>) = 0 /\ 1..0 = {}
    OBVIOUS
  <2>2. QED
    BY <2>1 DEF RowsOf, Rows, InRows, OlderBounds
 <1>7. TypedOl
  <2>1. ordersOl \in [Ol!Order -> OrderRows]
    BY <1>1, <1>3
  <2>2. pending \in [Ol!Order -> [volume : 0..MaxVolume,
              status : {"same", "partial", "finished"}]]
    BY <1>2, <1>4
  <2>3. messages \in Nat /\ pcOl \in {"idle", "pass", "commit", "dead"} /\ stale \in BOOLEAN
    BY <1>2
  <2>4. faultsOl \in 0..MaxFaults
    BY <1>2 DEF OlderBounds
  <2>5. QED
    BY <1>5, <2>1, <2>2, <2>3, <2>4 DEF TypedOl
 <1>8. RowsInv
   BY <1>5, <1>6 DEF RowsInv
 <1>9. PassInv
   BY <1>2 DEF PassInv, Untouched
 <1>10. VolumesInv
  <2>1. Cap(faultsOl) \in Nat
    BY <1>2, Multiples DEF Cap, OlderBounds
  <2>2. QED
    BY <1>2, <1>3, <2>1 DEF VolumesInv, InPass
 <1>11. Ol!FilledExactly
   BY <1>3 DEF Ol!FilledExactly, OlderBounds
 <1>12. messages <= Cardinality(Entered)
  <2>1. Entered = {}
    BY <1>3 DEF Entered
  <2>2. QED
    BY <1>2, <2>1, FS_EmptySet
 <1>13. QED
   BY <1>7, <1>8, <1>9, <1>10, <1>11, <1>12 DEF OlderInv
-----------------------------------------------------------------------------
(* Rows that are read *)

LEMMA InvFacts ==
  ASSUME OlderBounds, OlderInv
  PROVE  /\ ordersOl \in [Ol!Order -> OrderRows] /\ pass \in Passes /\ messages \in Nat
         /\ pending \in [Ol!Order -> [volume : 0..MaxVolume,
               status : {"same", "partial", "finished"}]]
         /\ RowsOf(pass.s, Sale) /\ RowsOf(pass.b, Buy)
         /\ faultsOl \in Nat /\ Cap(faultsOl) \in Nat /\ Sale \subseteq Ol!Order
         /\ Buy \subseteq Ol!Order
         /\ IsFiniteSet(Ol!Order) /\ Ol!Order \subseteq Nat
 <1>1. TypedOl /\ RowsInv
   BY DEF OlderInv
 <1>2. MaxVolume \in Nat /\ MaxFaults \in Nat
   BY DEF OlderBounds
 <1>3. faultsOl \in Nat
   BY <1>1, <1>2 DEF TypedOl
 <1>4. Cap(faultsOl) \in Nat
   BY <1>2, <1>3, Multiples DEF Cap
 <1>5. IsFiniteSet(Ol!Order) /\ Ol!Order \subseteq Nat /\ Sale \subseteq Ol!Order
       /\ Buy \subseteq Ol!Order
   BY FS_Union DEF Ol!Order, OlderBounds
 <1>6. QED
   BY <1>1, <1>3, <1>4, <1>5 DEF TypedOl, RowsInv

LEMMA OrderTypes ==
  ASSUME OlderBounds, OlderInv, NEW o \in Ol!Order
  PROVE  /\ ordersOl[o].price \in Nat /\ ordersOl[o].volume \in Nat /\ ordersOl[o].dealt \in Nat
         /\ ordersOl[o].volume >= 1 /\ ordersOl[o].volume <= MaxVolume /\ MaxVolume \in Nat
         /\ ordersOl[o].price \in Price /\ ordersOl[o].volume \in 1..MaxVolume
         /\ ordersOl[o].status \in Ol!Live \cup {"none", "finished", "cancelled"}
         /\ ordersOl[o].dealt <= Cap(faultsOl) /\ Cap(faultsOl) \in Nat
 <1>1. ordersOl[o] \in OrderRows
   BY InvFacts
 <1>2. ordersOl[o].dealt <= Cap(faultsOl)
   BY DEF OlderInv, VolumesInv
 <1>3. /\ ordersOl[o].price \in Price /\ ordersOl[o].volume \in 1..MaxVolume
       /\ ordersOl[o].dealt \in Nat
       /\ ordersOl[o].status \in Ol!Live \cup {"none", "finished", "cancelled"}
   BY <1>1 DEF OrderRows
 <1>4. MaxVolume \in Nat /\ Price \subseteq Nat /\ Cap(faultsOl) \in Nat
   BY InvFacts DEF OlderBounds
 <1> DEFINE v == ordersOl[o].volume
 <1>5. v \in 1..MaxVolume
   BY <1>3
 <1> HIDE DEF v
 <1>6. v \in Nat /\ v >= 1 /\ v <= MaxVolume
   BY <1>4, <1>5
 <1>7. QED
   BY <1>2, <1>3, <1>4, <1>6 DEF v

(* An order is at one place of a list that ORDER BY gives. *)
LEMMA SortedAre ==
  ASSUME OlderBounds, OlderInv, NEW S, S \subseteq Ol!Order, NEW all, all \in Ol!Sorted(S, Ol!Cheapest)
         \/ all \in Ol!Sorted(S, Ol!Dearest)
  PROVE  /\ all \in [1..Cardinality(S) -> S] /\ Cardinality(S) \in Nat
         /\ \A i, j \in 1..Cardinality(S) : all[i] = all[j] => i = j
 <1>1. Cardinality(S) \in Nat
   BY InvFacts, FS_Subset, FS_CardinalityType
 <1>2. all \in [1..Cardinality(S) -> S]
   BY SameCardinalityOl DEF Ol!Sorted
 <1>3. \A i \in 1..Cardinality(S) : ~Ol!Cheapest(all[i], all[i]) /\ ~Ol!Dearest(all[i], all[i])
  <2> TAKE i \in 1..Cardinality(S)
  <2>1. all[i] \in Ol!Order /\ all[i] \in Nat /\ ordersOl[all[i]].price \in Nat
    BY <1>2, InvFacts, OrderTypes
  <2> DEFINE o == all[i]
             x == ordersOl[o].price
  <2>2. o \in Nat /\ x \in Nat
    BY <2>1
  <2> HIDE DEF o, x
  <2>3. ~(x < x) /\ ~(x > x) /\ ~(o < o)
    BY ONLY <2>2
  <2>4. QED
    BY <2>3 DEF Ol!Cheapest, Ol!Dearest, o, x
 <1>4. ASSUME NEW i \in 1..Cardinality(S), NEW j \in 1..Cardinality(S), i < j, all[i] = all[j]
       PROVE FALSE
  <2>1. Ol!Cheapest(all[i], all[j]) \/ Ol!Dearest(all[i], all[j])
    BY <1>4, SameCardinalityOl DEF Ol!Sorted
  <2>2. QED
    BY <2>1, <1>3, <1>4
 <1>5. \A i, j \in 1..Cardinality(S) : all[i] = all[j] => i = j
   BY <1>1, <1>4
 <1>6. QED
   BY <1>1, <1>2, <1>5

(* The rows of a SELECT are open orders with what they have left. *)
LEMMA BestIs ==
  ASSUME OlderBounds, OlderInv, NEW side, side = Sale \/ side = Buy, NEW n \in Nat,
         NEW all \in [1..n -> Ol!Open(side)], \A i, j \in 1..n : all[i] = all[j] => i = j
  PROVE  /\ RowsOf(Ol!Best(all), side)
         /\ \A k \in 1..Len(Ol!Best(all)) :
              LET o == Ol!Best(all)[k].id
              IN /\ o \in Ol!Order /\ ordersOl[o].status \in Ol!Live
                 /\ ordersOl[o].dealt + Ol!Best(all)[k].volume = ordersOl[o].volume
 <1> DEFINE m == IF Len(all) < Few THEN Len(all) ELSE Few
 <1>1. Len(all) = n /\ Few \in Nat
   BY DEF OlderBounds
 <1>2. m \in Nat /\ m <= Few /\ m <= n
   BY <1>1
 <1>3. Ol!Best(all) = [k \in 1..m |-> Ol!Row(all[k])]
   BY DEF Ol!Best
 <1> HIDE DEF m
 <1>4. side \subseteq Ol!Order
   BY InvFacts
 <1>5. ASSUME NEW k \in 1..m
       PROVE  /\ all[k] \in side /\ all[k] \in Ol!Order /\ ordersOl[all[k]].status \in Ol!Live
              /\ Ol!Row(all[k]) \in [id : side, price : Price, volume : 1..MaxVolume]
              /\ Ol!Row(all[k]).id = all[k]
              /\ ordersOl[all[k]].dealt + Ol!Row(all[k]).volume = ordersOl[all[k]].volume
  <2> DEFINE o == all[k]
  <2>1. o \in Ol!Open(side)
    BY <1>2
  <2>2. o \in side /\ o \in Ol!Order /\ ordersOl[o].status \in Ol!Live
        /\ ordersOl[o].dealt < ordersOl[o].volume
    BY <2>1, <1>4 DEF Ol!Open
  <2> HIDE DEF o
  <2>3. /\ ordersOl[o].volume \in Nat /\ ordersOl[o].dealt \in Nat
        /\ ordersOl[o].volume <= MaxVolume
        /\ ordersOl[o].price \in Price /\ MaxVolume \in Nat
    BY <2>2, OrderTypes
  <2>4. /\ ordersOl[o].volume - ordersOl[o].dealt \in 1..MaxVolume
        /\ ordersOl[o].dealt + (ordersOl[o].volume - ordersOl[o].dealt) = ordersOl[o].volume
    BY <2>2, <2>3
  <2>5. QED
    BY <2>2, <2>3, <2>4 DEF Ol!Row, o
 <1>6. Ol!Best(all) \in Rows(side) /\ Len(Ol!Best(all)) = m
  <2> DEFINE R == [id : side, price : Price, volume : 1..MaxVolume]
             b == [k \in 1..m |-> Ol!Row(all[k])]
  <2>1. \A k \in 1..m : Ol!Row(all[k]) \in R
    BY <1>5
  <2> HIDE DEF R
  <2>2. b \in Seq(R) /\ Len(b) = m
    BY <2>1, <1>2
  <2>3. QED
    BY <2>2, <1>3 DEF Rows, R
 <1>7. \A k \in 1..m : Ol!Best(all)[k] = Ol!Row(all[k])
   BY <1>3
 <1>8. \A k, l \in 1..m : Ol!Best(all)[k].id = Ol!Best(all)[l].id => k = l
   BY <1>2, <1>5, <1>7
 <1>9. RowsOf(Ol!Best(all), side)
   BY <1>2, <1>3, <1>6, <1>8 DEF RowsOf
 <1>10. QED
   BY <1>5, <1>6, <1>7, <1>9

(* Rows as the orders are. *)
Current(rows) ==
  \A k \in 1..Len(rows) :
    LET o == rows[k].id
    IN /\ o \in Ol!Order /\ ordersOl[o].status \in Ol!Live
       /\ ordersOl[o].dealt + rows[k].volume = ordersOl[o].volume

LEMMA SalesAre ==
  ASSUME OlderBounds, OlderInv
  PROVE  /\ \A s \in Ol!Sales : RowsOf(s, Sale) /\ Current(s)
         /\ \A b \in Ol!Buys : RowsOf(b, Buy) /\ Current(b)
 <1>1. Ol!Open(Sale) \subseteq Ol!Order /\ Ol!Open(Buy) \subseteq Ol!Order
   BY InvFacts DEF Ol!Open
 <1>2. ASSUME NEW s \in Ol!Sales PROVE RowsOf(s, Sale) /\ Current(s)
  <2>1. PICK all \in Ol!Sorted(Ol!Open(Sale), Ol!Cheapest) : s = Ol!Best(all)
    BY DEF Ol!Sales
  <2>2. /\ all \in [1..Cardinality(Ol!Open(Sale)) -> Ol!Open(Sale)]
        /\ Cardinality(Ol!Open(Sale)) \in Nat
        /\ \A i, j \in 1..Cardinality(Ol!Open(Sale)) : all[i] = all[j] => i = j
    BY <1>1, <2>1, SortedAre
  <2>3. QED
    BY <2>1, <2>2, BestIs DEF Current
 <1>3. ASSUME NEW b \in Ol!Buys PROVE RowsOf(b, Buy) /\ Current(b)
  <2>1. PICK all \in Ol!Sorted(Ol!Open(Buy), Ol!Dearest) : b = Ol!Best(all)
    BY DEF Ol!Buys
  <2>2. /\ all \in [1..Cardinality(Ol!Open(Buy)) -> Ol!Open(Buy)]
        /\ Cardinality(Ol!Open(Buy)) \in Nat
        /\ \A i, j \in 1..Cardinality(Ol!Open(Buy)) : all[i] = all[j] => i = j
    BY <1>1, <2>1, SortedAre
  <2>3. QED
    BY <2>1, <2>2, BestIs DEF Current
 <1>4. QED
   BY <1>2, <1>3

(* A pass begins at the first rows, with nothing dealt. *)
LEMMA RunBegins ==
  ASSUME OlderBounds, NEW s, NEW b, RowsOf(s, Sale), RowsOf(b, Buy), NEW locked, locked \subseteq Ol!Order,
         NEW pend,
         \A o \in Ol!Order : pend[o] = Ol!None
  PROVE  /\ Ol!Begin(s, b, locked) \in Passes /\ RunAt(Ol!Begin(s, b, locked), pend, 1)
         /\ Ol!Begin(s, b, locked).s = s /\ Ol!Begin(s, b, locked).b = b
         /\ Ol!Begin(s, b, locked).locked = locked
 <1> DEFINE p == Ol!Begin(s, b, locked)
 <1>1. /\ p.s = s /\ p.b = b /\ p.i = 1 /\ p.sold = 0 /\ p.left = 0 /\ p.finished = {}
       /\ p.locked = locked
   BY DEF Ol!Begin
 <1>2. p \in Passes
   BY DEF Ol!Begin, Passes, RowsOf, OlderBounds
 <1> HIDE DEF p
 <1>3. Len(s) \in Nat /\ Len(b) \in Nat
   BY RowTypes
 <1>4. Units(p) = 0 /\ Ol!UptoRow(p.b, 1 - 1) = 0
  <2>1. p.i - 1 = 0 /\ 1 - 1 = 0
    BY <1>1
  <2>2. QED
    BY <1>1, <2>1, UptoRowIs DEF Units
 <1>5. ASSUME NEW side, side = Sale \/ side = Buy, NEW rows, RowsOf(rows, side)
       PROVE  Within(rows, 1, 0) /\ Made(rows, 0, pend)
  <2>1. /\ Len(rows) \in Nat
        /\ \A k \in 1..Len(rows) : /\ rows[k].id \in Ol!Order
                                   /\ rows[k].volume >= 1 /\ rows[k].volume \in Nat
    BY <1>5, RowTypes DEF Ol!Order
  <2>2. \A k \in 1..Len(rows) : ShareOf(rows, k, 0) = 0
   <3> TAKE k \in 1..Len(rows)
   <3>1. k - 1 \in 0..Len(rows)
     BY <2>1
   <3>2. Ol!UptoRow(rows, k - 1) \in Nat
     BY <3>1, <1>5, UptoRowIs
   <3>3. QED
     BY <3>2 DEF ShareOf
  <2>3. Made(rows, 0, pend)
    BY <2>1, <2>2 DEF Made
  <2>4. 1 > Len(rows) \/ 1 \in 1..Len(rows)
    BY <2>1
  <2>5. Within(rows, 1, 0)
    BY <2>1, <2>4 DEF Within
  <2>6. QED
    BY <2>3, <2>5
 <1>6. 1 \in 1..Len(s) + 1 /\ 1 \in 1..Len(b) + 1 /\ 1..1 - 1 = {} /\ 1..0 = {}
   BY <1>3
 <1>7. CrossUpto(s, b, 0)
   BY <1>6 DEF CrossUpto
 <1>8. p.finished = {p.b[k].id : k \in 1..1 - 1}
   BY <1>1, <1>6
 <1>9. Within(s, 1, 0) /\ Within(b, 1, 0) /\ Made(s, 0, pend) /\ Made(b, 0, pend)
   BY <1>5
 <1>10. RunAt(p, pend, 1)
   BY <1>1, <1>4, <1>6, <1>7, <1>8, <1>9 DEF RunAt
 <1>11. QED
   BY <1>1, <1>2, <1>10 DEF p
-----------------------------------------------------------------------------
(* The steps *)

LEMMA EnteredFinite ==
  ASSUME OlderBounds, OlderInv
  PROVE  /\ IsFiniteSet(Entered) /\ Cardinality(Entered) \in Nat
         /\ messages <= Cardinality(Entered)
         /\ messages \in Nat
 <1>1. Entered \subseteq Ol!Order
   BY DEF Entered
 <1>2. messages <= Cardinality(Entered)
   BY DEF OlderInv
 <1>3. QED
   BY <1>1, <1>2, InvFacts, FS_Subset, FS_CardinalityType

LEMMA EnterStep ==
  ASSUME OlderBounds, OlderInv, NEW o \in Ol!Order, Ol!Enter(o)
  PROVE  OlderInv'
 <1>1. /\ ordersOl[o].status = "none" /\ ordersOl' = [ordersOl EXCEPT ![o].status = "committed"]
       /\ messages' = messages + 1 /\ pcOl' = pcOl /\ pass' = pass /\ pending' = pending
       /\ faultsOl' = faultsOl /\ stale' = stale
   BY DEF Ol!Enter
 <1>2. ordersOl \in [Ol!Order -> OrderRows]
   BY InvFacts
 <1>3. /\ ordersOl' \in [Ol!Order -> OrderRows] /\ ordersOl'[o].status = "committed"
       /\ \A p \in Ol!Order : p # o => ordersOl'[p] = ordersOl[p]
       /\ \A p \in Ol!Order : ordersOl'[p].dealt = ordersOl[p].dealt
             /\ ordersOl'[p].volume = ordersOl[p].volume
   BY <1>1, <1>2 DEF OrderRows, Ol!Live
 <1>4. TypedOl'
  <2>1. TypedOl /\ messages' \in Nat
    BY <1>1 DEF OlderInv, TypedOl
  <2>2. QED
    BY <1>1, <1>3, <2>1 DEF TypedOl
 <1>5. RowsInv'
   BY <1>1, <1>3 DEF OlderInv, RowsInv
 <1>6. PassInv'
   BY <1>1 DEF OlderInv, PassInv, Untouched
 <1>7. VolumesInv'
  <2>1. ASSUME NEW rows, FreshOl(rows), \A k \in 1..Len(rows) : rows[k].id \in Ol!Order
        PROVE FreshOl(rows)'
    BY <1>1, <1>3, <2>1 DEF FreshOl, Ol!Live
  <2>2. ASSUME NEW rows, Capped(rows), \A k \in 1..Len(rows) : rows[k].id \in Ol!Order
        PROVE Capped(rows)'
    BY <1>1, <1>3, <2>2 DEF Capped
  <2>3. /\ \A k \in 1..Len(pass.s) : pass.s[k].id \in Ol!Order
        /\ \A k \in 1..Len(pass.b) : pass.b[k].id \in Ol!Order
    BY InvFacts, RowTypes
  <2>4. InPass' => Capped(pass.s)' /\ Capped(pass.b)'
    BY <1>1, <2>2, <2>3 DEF OlderInv, VolumesInv, InPass
  <2>5. ~stale' /\ InPass' => FreshOl(pass.s)' /\ FreshOl(pass.b)'
    BY <1>1, <2>1, <2>3 DEF OlderInv, VolumesInv, InPass
  <2>6. QED
    BY <1>1, <1>3, <2>4, <2>5 DEF OlderInv, VolumesInv
 <1>8. Ol!FilledExactly'
   BY <1>1, <1>3 DEF OlderInv, Ol!FilledExactly
 <1>9. (messages <= Cardinality(Entered))'
  <2>1. o \notin Entered /\ Entered' = Entered \cup {o}
    BY <1>1, <1>3 DEF Entered
  <2>2. Cardinality(Entered') = Cardinality(Entered) + 1
    BY <2>1, EnteredFinite, FS_AddElement
  <2>3. QED
    BY <2>2, <1>1, EnteredFinite
 <1>10. QED
   BY <1>4, <1>5, <1>6, <1>7, <1>8, <1>9 DEF OlderInv

LEMMA CancelStep ==
  ASSUME OlderBounds, OlderInv, NEW o \in Ol!Order, Ol!Cancel(o)
  PROVE  OlderInv'
 <1>1. /\ ordersOl[o].status \in Ol!Live
       /\ ordersOl' = [ordersOl EXCEPT ![o].status = "cancelled"]
       /\ messages' = messages /\ pcOl' = pcOl /\ pass' = pass /\ pending' = pending
       /\ faultsOl' = faultsOl /\ stale' = stale /\ o \notin Ol!Locked
   BY DEF Ol!Cancel
 <1>2. ordersOl \in [Ol!Order -> OrderRows]
   BY InvFacts
 <1>3. /\ ordersOl' \in [Ol!Order -> OrderRows] /\ ordersOl'[o].status = "cancelled"
       /\ \A p \in Ol!Order : p # o => ordersOl'[p] = ordersOl[p]
       /\ \A p \in Ol!Order : ordersOl'[p].dealt = ordersOl[p].dealt
             /\ ordersOl'[p].volume = ordersOl[p].volume
   BY <1>1, <1>2 DEF OrderRows
 <1>4. TypedOl'
   BY <1>1, <1>3 DEF OlderInv, TypedOl
 <1>5. RowsInv'
   BY <1>1, <1>3 DEF OlderInv, RowsInv
 <1>6. PassInv'
   BY <1>1 DEF OlderInv, PassInv, Untouched
 <1>7. VolumesInv'
  <2>1. ASSUME NEW rows, FreshOl(rows), InPass, \A k \in 1..Len(rows) : rows[k].id \in Ol!Order
        PROVE  FreshOl(rows)'
   <3>1. pass.locked \subseteq Ol!Locked
     BY <2>1 DEF Ol!Locked, InPass
   <3>2. \A k \in 1..Len(rows) : rows[k].id # o
     BY <3>1, <1>1, <2>1 DEF FreshOl
   <3>3. QED
     BY <3>2, <1>1, <1>3, <2>1 DEF FreshOl
  <2>2. ASSUME NEW rows, Capped(rows), \A k \in 1..Len(rows) : rows[k].id \in Ol!Order
        PROVE Capped(rows)'
    BY <1>1, <1>3, <2>2 DEF Capped
  <2>3. /\ \A k \in 1..Len(pass.s) : pass.s[k].id \in Ol!Order
        /\ \A k \in 1..Len(pass.b) : pass.b[k].id \in Ol!Order
    BY InvFacts, RowTypes
  <2>4. InPass' => Capped(pass.s)' /\ Capped(pass.b)'
    BY <1>1, <2>2, <2>3 DEF OlderInv, VolumesInv, InPass
  <2>5. ~stale' /\ InPass' => FreshOl(pass.s)' /\ FreshOl(pass.b)'
    BY <1>1, <2>1, <2>3 DEF OlderInv, VolumesInv, InPass
  <2>6. QED
    BY <1>1, <1>3, <2>4, <2>5 DEF OlderInv, VolumesInv
 <1>8. Ol!FilledExactly'
   BY <1>1, <1>3 DEF OlderInv, Ol!FilledExactly
 <1>9. (messages <= Cardinality(Entered))'
  <2>1. Entered' = Entered
    BY <1>1, <1>3 DEF Entered, Ol!Live
  <2>2. QED
    BY <2>1, <1>1, EnteredFinite
 <1>10. QED
   BY <1>4, <1>5, <1>6, <1>7, <1>8, <1>9 DEF OlderInv

(* A pass begins on rows that were read for it, or on those of an earlier  *)
(* one.                                                                    *)
LEMMA BeginStep ==
  ASSUME OlderBounds, OlderInv, pcOl = "idle", NEW s, NEW b, RowsOf(s, Sale), RowsOf(b, Buy),
         NEW locked, locked \subseteq Ol!Order,
         pass' = Ol!Begin(s, b, locked), pcOl' = "pass", ordersOl' = ordersOl, pending' = pending,
         messages' \in Nat, messages' <= messages,
         faultsOl' \in 0..MaxFaults, stale' \in BOOLEAN, ~stale' => ~stale,
         Cap(faultsOl) <= Cap(faultsOl'), Cap(faultsOl') \in Nat,
         \A o \in Ol!Order : InRows(s, o) \/ InRows(b, o) => ordersOl[o].status # "none",
         \A rows \in {s, b} : \A k \in 1..Len(rows) :
           ordersOl[rows[k].id].dealt + rows[k].volume <= Cap(faultsOl'),
         ~stale' => Current(s) /\ Current(b) /\ Ol!Ids(s) \cup Ol!Ids(b) \subseteq locked
  PROVE  OlderInv'
 <1>1. Untouched
   BY DEF OlderInv, PassInv
 <1>2. /\ pass' \in Passes /\ RunAt(pass', pending, 1) /\ pass'.s = s /\ pass'.b = b
       /\ pass'.locked = locked
   BY <1>1, RunBegins DEF Untouched
 <1>3. TypedOl'
   BY <1>2 DEF OlderInv, TypedOl
 <1>4. RowsInv'
   BY <1>2 DEF RowsInv
 <1>5. PassInv'
  <2>1. pcOl' = "pass" /\ \E j : RunAt(pass', pending', j)
    BY <1>2
  <2>2. \A o \in Ol!Order : pending'[o] = Ol!None
    BY <1>1 DEF Untouched
  <2>3. QED
    BY <2>1, <2>2 DEF PassInv
 <1>6. VolumesInv'
  <2>1. \A o \in Ol!Order : ordersOl'[o].dealt <= Cap(faultsOl')
   <3> TAKE o \in Ol!Order
   <3>1. ordersOl[o].dealt <= Cap(faultsOl) /\ ordersOl[o].dealt \in Nat
         /\ Cap(faultsOl) \in Nat
     BY OrderTypes
   <3>2. ordersOl[o].dealt <= Cap(faultsOl')
     BY <3>1
   <3>3. QED
     BY <3>2
  <2>2. Capped(pass.s)' /\ Capped(pass.b)'
    BY <1>2 DEF Capped
  <2>3. ASSUME ~stale' PROVE FreshOl(pass.s)' /\ FreshOl(pass.b)'
   <3>1. \A k \in 1..Len(s) : s[k].id \in locked
     BY <2>3 DEF Ol!Ids
   <3>2. \A k \in 1..Len(b) : b[k].id \in locked
     BY <2>3 DEF Ol!Ids
   <3>3. QED
     BY <3>1, <3>2, <2>3, <1>2 DEF FreshOl, Current
  <2>4. QED
    BY <2>1, <2>2, <2>3 DEF VolumesInv
 <1>7. Ol!FilledExactly'
   BY DEF OlderInv, Ol!FilledExactly
 <1>8. (messages <= Cardinality(Entered))'
  <2>1. Entered' = Entered
    BY DEF Entered
  <2>2. QED
    BY <2>1, EnteredFinite
 <1>9. QED
   BY <1>3, <1>4, <1>5, <1>6, <1>7, <1>8 DEF OlderInv
LEMMA ReadStep ==
  ASSUME OlderBounds, OlderInv, Ol!Read
  PROVE  OlderInv'
 <1>1. /\ pcOl = "idle" /\ messages > 0 /\ messages' = messages - 1 /\ pcOl' = "pass"
       /\ ordersOl' = ordersOl /\ pending' = pending /\ faultsOl' = faultsOl /\ stale' = stale
   BY DEF Ol!Read
 <1>2. PICK s \in Ol!Sales, b \in Ol!Buys : pass' = Ol!Begin(s, b, Ol!Ids(s) \cup Ol!Ids(b))
   BY DEF Ol!Read
 <1>3. RowsOf(s, Sale) /\ RowsOf(b, Buy) /\ Current(s) /\ Current(b)
   BY SalesAre
 <1> DEFINE locked == Ol!Ids(s) \cup Ol!Ids(b)
 <1>4. locked \subseteq Ol!Order
   BY <1>3 DEF Ol!Ids, Current
 <1>5. messages' \in Nat /\ messages' <= messages
   BY <1>1, InvFacts
 <1>6. faultsOl' \in 0..MaxFaults /\ stale' \in BOOLEAN
   BY <1>1 DEF OlderInv, TypedOl
 <1>7. Cap(faultsOl) <= Cap(faultsOl') /\ Cap(faultsOl') \in Nat
   BY <1>1, InvFacts
 <1>8. \A o \in Ol!Order : InRows(s, o) \/ InRows(b, o) => ordersOl[o].status # "none"
   BY <1>3 DEF InRows, Current, Ol!Live
 <1>9. MaxVolume <= Cap(faultsOl)
  <2>1. MaxVolume \in Nat /\ MaxVolume * 1 = MaxVolume /\ MaxVolume * (faultsOl + 1) \in Nat
        /\ 1 <= faultsOl + 1
    BY InvFacts, Multiples DEF OlderBounds
  <2>2. MaxVolume * 1 <= MaxVolume * (faultsOl + 1)
    BY <2>1, InvFacts, Multiples
  <2>3. QED
    BY <2>1, <2>2 DEF Cap
 <1>10. ASSUME NEW rows, Current(rows), NEW k \in 1..Len(rows)
        PROVE  ordersOl[rows[k].id].dealt + rows[k].volume <= Cap(faultsOl')
  <2>1. rows[k].id \in Ol!Order
        /\ ordersOl[rows[k].id].dealt + rows[k].volume = ordersOl[rows[k].id].volume
    BY <1>10 DEF Current
  <2>2. ordersOl[rows[k].id].volume \in Nat /\ ordersOl[rows[k].id].volume <= MaxVolume
        /\ MaxVolume \in Nat
    BY <2>1, OrderTypes
  <2>3. QED
    BY <2>1, <2>2, <1>1, <1>9, InvFacts
 <1>11. \A rows \in {s, b} : \A k \in 1..Len(rows) :
          ordersOl[rows[k].id].dealt + rows[k].volume <= Cap(faultsOl')
   BY <1>3, <1>10
 <1>12. Ol!Ids(s) \cup Ol!Ids(b) \subseteq locked /\ pass' = Ol!Begin(s, b, locked)
   BY <1>2
 <1> HIDE DEF locked
 <1>13. QED
   BY <1>1, <1>3, <1>4, <1>5, <1>6, <1>7, <1>8, <1>11, <1>12, BeginStep

LEMMA FaultsOl ==
  ASSUME OlderBounds, OlderInv, faultsOl < MaxFaults, faultsOl' = faultsOl + 1
  PROVE  /\ faultsOl' \in 0..MaxFaults /\ Cap(faultsOl') \in Nat
         /\ Cap(faultsOl') = Cap(faultsOl) + MaxVolume
         /\ Cap(faultsOl) \in Nat /\ MaxVolume \in Nat
         /\ \A n \in Nat : n <= Cap(faultsOl) => n <= Cap(faultsOl')
 <1>1. faultsOl \in Nat /\ MaxVolume \in Nat /\ MaxFaults \in Nat
   BY InvFacts DEF OlderBounds
 <1>2. Cap(faultsOl') = Cap(faultsOl) + MaxVolume /\ Cap(faultsOl) \in Nat
   BY <1>1, Multiples DEF Cap
 <1>3. QED
   BY <1>1, <1>2

LEMMA ReadDisconnectedStep ==
  ASSUME OlderBounds, OlderInv, Ol!ReadDisconnected
  PROVE  OlderInv'
 <1>1. /\ pcOl = "idle" /\ faultsOl < MaxFaults /\ faultsOl' = faultsOl + 1
       /\ ordersOl' = ordersOl /\ messages' = messages /\ pcOl' = pcOl /\ pass' = pass
       /\ pending' = pending /\ stale' = stale
   BY DEF Ol!ReadDisconnected
 <1>2. faultsOl' \in 0..MaxFaults /\ \A n \in Nat : n <= Cap(faultsOl) => n <= Cap(faultsOl')
   BY <1>1, FaultsOl
 <1>3. TypedOl'
   BY <1>1, <1>2 DEF OlderInv, TypedOl
 <1>4. RowsInv' /\ PassInv'
   BY <1>1 DEF OlderInv, RowsInv, PassInv, Untouched
 <1>5. VolumesInv'
  <2>1. \A o \in Ol!Order : ordersOl[o].dealt <= Cap(faultsOl')
    BY <1>2, OrderTypes
  <2>2. QED
    BY <1>1, <2>1 DEF VolumesInv, InPass
 <1>6. Ol!FilledExactly' /\ (messages <= Cardinality(Entered))'
   BY <1>1 DEF OlderInv, Ol!FilledExactly, Entered
 <1>7. QED
   BY <1>3, <1>4, <1>5, <1>6 DEF OlderInv

LEMMA ReadFailsStep ==
  ASSUME OlderBounds, OlderInv, Ol!ReadFails
  PROVE  OlderInv'
 <1>1. /\ pcOl = "idle" /\ faultsOl < MaxFaults /\ faultsOl' = faultsOl + 1 /\ messages > 0
       /\ messages' = messages - 1 /\ ordersOl' = ordersOl /\ pending' = pending
   BY DEF Ol!ReadFails
 <1>2. /\ faultsOl' \in 0..MaxFaults /\ \A n \in Nat : n <= Cap(faultsOl) => n <= Cap(faultsOl')
       /\ Cap(faultsOl') \in Nat /\ Cap(faultsOl') = Cap(faultsOl) + MaxVolume
       /\ Cap(faultsOl) \in Nat /\ MaxVolume \in Nat
   BY <1>1, FaultsOl
 <1>3. messages' \in Nat /\ messages' <= messages
   BY <1>1, InvFacts
 <1>4. CASE pass = Ol!NoRows
  <2>1. pcOl' = "dead" /\ pass' = pass /\ stale' = stale
    BY <1>4 DEF Ol!ReadFails
  <2>2. TypedOl'
    BY <1>1, <1>2, <1>3, <2>1 DEF OlderInv, TypedOl
  <2>3. RowsInv' /\ PassInv'
    BY <1>1, <2>1 DEF OlderInv, RowsInv, PassInv, Untouched
  <2>4. VolumesInv'
   <3>1. \A o \in Ol!Order : ordersOl[o].dealt <= Cap(faultsOl')
     BY <1>2, OrderTypes
   <3>2. QED
     BY <1>1, <2>1, <3>1 DEF VolumesInv, InPass
  <2>5. Ol!FilledExactly'
    BY <1>1, <2>1 DEF OlderInv, Ol!FilledExactly
  <2>6. (messages <= Cardinality(Entered))'
   <3>1. Entered' = Entered
     BY <1>1 DEF Entered
   <3>2. QED
     BY <3>1, <1>3, EnteredFinite
  <2>7. QED
    BY <2>2, <2>3, <2>4, <2>5, <2>6 DEF OlderInv
 <1>5. CASE pass # Ol!NoRows
  <2>1. pcOl' = "pass" /\ stale' = TRUE
    BY <1>5 DEF Ol!ReadFails
  <2>2. PICK s, locked : /\ pass' = Ol!Begin(s, pass.b, locked)
                         /\ \/ s = pass.s /\ locked = {}
                            \/ s \in Ol!Sales /\ locked = Ol!Ids(s)
    BY <1>5 DEF Ol!ReadFails
  <2>3. /\ RowsOf(pass.b, Buy) /\ RowsOf(pass.s, Sale)
        /\ \A o \in Ol!Order : InRows(pass.s, o) \/ InRows(pass.b, o)
              => ordersOl[o].status # "none"
    BY DEF OlderInv, RowsInv
  <2>4. RowsOf(s, Sale)
    BY <2>2, <2>3, SalesAre
  <2>5. locked \subseteq Ol!Order /\ \A o \in Ol!Order : InRows(s, o)
              => ordersOl[o].status # "none"
   <3>1. CASE s = pass.s /\ locked = {}
     BY <3>1, <2>3
   <3>2. CASE s \in Ol!Sales /\ locked = Ol!Ids(s)
    <4>1. Current(s)
      BY <3>2, SalesAre
    <4>2. QED
      BY <4>1, <3>2 DEF Current, Ol!Ids, InRows, Ol!Live
   <3>3. QED
     BY <2>2, <3>1, <3>2
  <2>6. ASSUME NEW side, side = Sale \/ side = Buy, NEW rows, RowsOf(rows, side),
               NEW k \in 1..Len(rows)
        PROVE  ordersOl[rows[k].id].dealt + rows[k].volume <= Cap(faultsOl')
   <3>1. rows[k].id \in Ol!Order /\ rows[k].volume \in Nat /\ rows[k].volume <= MaxVolume
     BY <2>6, RowTypes DEF Ol!Order
   <3>2. ordersOl[rows[k].id].dealt \in Nat /\ ordersOl[rows[k].id].dealt <= Cap(faultsOl)
     BY <3>1, OrderTypes
   <3>3. QED
     BY <3>1, <3>2, <1>2
  <2>7. \A rows \in {s, pass.b} : \A k \in 1..Len(rows) :
          ordersOl[rows[k].id].dealt + rows[k].volume <= Cap(faultsOl')
    BY <2>3, <2>4, <2>6
  <2>8. \A o \in Ol!Order : InRows(s, o) \/ InRows(pass.b, o) => ordersOl[o].status # "none"
    BY <2>3, <2>5
  <2>9. Cap(faultsOl) <= Cap(faultsOl')
    BY <1>2
  <2>10. stale' \in BOOLEAN /\ ~(~stale')
    BY <2>1
  <2>11. pass' = Ol!Begin(s, pass.b, locked) /\ locked \subseteq Ol!Order
    BY <2>2, <2>5
  <2>12. QED
    BY <1>1, <1>2, <1>3, <2>1, <2>11, <2>3, <2>4, <2>7, <2>8, <2>9, <2>10, BeginStep
 <1>6. QED
   BY <1>4, <1>5

(* Steps that leave the orders, or put nothing into them. *)
LEMMA OrdersStay ==
  ASSUME OlderBounds, OlderInv, ordersOl' = ordersOl, messages' = messages, stale' = stale,
         pass'.s = pass.s, pass'.b = pass.b, pass'.locked = pass.locked,
         InPass' => InPass,
         faultsOl' = faultsOl \/ (faultsOl < MaxFaults /\ faultsOl' = faultsOl + 1)
  PROVE  /\ RowsInv' /\ VolumesInv' /\ Ol!FilledExactly' /\ (messages <= Cardinality(Entered))'
         /\ faultsOl' \in 0..MaxFaults /\ stale' \in BOOLEAN /\ messages' \in Nat
         /\ ordersOl' \in [Ol!Order -> OrderRows]
 <1>1. faultsOl' \in 0..MaxFaults /\ \A n \in Nat : n <= Cap(faultsOl) => n <= Cap(faultsOl')
   BY FaultsOl DEF OlderInv, TypedOl
 <1>2. RowsInv'
   BY DEF OlderInv, RowsInv
 <1>3. Ol!FilledExactly' /\ (messages <= Cardinality(Entered))'
   BY DEF OlderInv, Ol!FilledExactly, Entered
 <1>4. VolumesInv'
  <2>1. \A o \in Ol!Order : ordersOl[o].dealt <= Cap(faultsOl')
    BY <1>1, OrderTypes
  <2>2. ASSUME NEW side, side = Sale \/ side = Buy, NEW rows, RowsOf(rows, side), Capped(rows)
        PROVE  Capped(rows)'
   <3> SUFFICES ASSUME NEW k \in 1..Len(rows)
                PROVE  ordersOl[rows[k].id].dealt + rows[k].volume <= Cap(faultsOl')
     BY DEF Capped
   <3>1. rows[k].id \in Ol!Order /\ rows[k].volume \in Nat
     BY <2>2, RowTypes DEF Ol!Order
   <3>2. ordersOl[rows[k].id].dealt + rows[k].volume \in Nat
     BY <3>1, OrderTypes
   <3>3. ordersOl[rows[k].id].dealt + rows[k].volume <= Cap(faultsOl)
     BY <2>2 DEF Capped
   <3>4. QED
     BY <3>2, <3>3, <1>1
  <2>3. InPass' => Capped(pass.s)' /\ Capped(pass.b)'
   <3> SUFFICES ASSUME InPass' PROVE Capped(pass.s)' /\ Capped(pass.b)'
     OBVIOUS
   <3>1. InPass /\ Capped(pass.s) /\ Capped(pass.b)
     BY DEF OlderInv, VolumesInv
   <3>2. \A k \in 1..Len(pass.s) : ordersOl'[pass.s[k].id].dealt + pass.s[k].volume <= Cap(faultsOl')
     BY <3>1, <2>2, InvFacts DEF Capped
   <3>3. \A k \in 1..Len(pass.b) : ordersOl'[pass.b[k].id].dealt + pass.b[k].volume <= Cap(faultsOl')
     BY <3>1, <2>2, InvFacts DEF Capped
   <3>4. QED
     BY <3>2, <3>3 DEF Capped
  <2>4. ~stale' /\ InPass' => FreshOl(pass.s)' /\ FreshOl(pass.b)'
   <3> SUFFICES ASSUME ~stale', InPass' PROVE FreshOl(pass.s)' /\ FreshOl(pass.b)'
     OBVIOUS
   <3>1. FreshOl(pass.s) /\ FreshOl(pass.b)
     BY DEF OlderInv, VolumesInv
   <3>2. QED
     BY <3>1 DEF FreshOl
  <2>5. QED
    BY <2>1, <2>3, <2>4 DEF VolumesInv
 <1>5. QED
   BY <1>1, <1>2, <1>3, <1>4 DEF OlderInv, TypedOl

LEMMA EndPassStep ==
  ASSUME OlderBounds, OlderInv, Ol!EndPass
  PROVE  OlderInv'
 <1>1. /\ pcOl = "pass" /\ ~(pass.i <= Len(pass.s) /\ Ol!Crosses) /\ pcOl' = "commit"
       /\ ordersOl' = ordersOl /\ messages' = messages /\ pass' = pass /\ pending' = pending
       /\ faultsOl' = faultsOl /\ stale' = stale
   BY DEF Ol!EndPass
 <1>2. /\ RowsInv' /\ VolumesInv' /\ Ol!FilledExactly' /\ (messages <= Cardinality(Entered))'
   BY <1>1, OrdersStay DEF InPass
 <1>3. TypedOl'
   BY <1>1 DEF OlderInv, TypedOl
 <1>4. PICK j : RunAt(pass, pending, j)
   BY <1>1 DEF OlderInv, PassInv
 <1>5. j \in 1..Len(pass.b) + 1 /\ pass.finished = {pass.b[k].id : k \in 1..j - 1}
   BY <1>4 DEF RunAt
 <1>6. RowsOf(pass.s, Sale) /\ RowsOf(pass.b, Buy) /\ Len(pass.s) \in Nat
       /\ Len(pass.b) \in Nat /\ pass.i \in Nat
   BY InvFacts, RowTypes DEF Passes
 <1>7. Ol!BuyRow = IF j > Len(pass.b) THEN 0 ELSE j
   BY <1>5, <1>6, BuyRowIs
 <1>8. Ended(pass, j)
  <2>1. ASSUME pass.i <= Len(pass.s), j <= Len(pass.b)
        PROVE ~(pass.b[j].price >= pass.s[pass.i].price)
   <3>1. Ol!BuyRow = j /\ j # 0
     BY <2>1, <1>5, <1>6, <1>7
   <3>2. QED
     BY <3>1, <2>1, <1>1 DEF Ol!Crosses
  <2>2. QED
    BY <2>1, <1>5, <1>6 DEF Ended
 <1>9. PassInv'
  <2>1. \A o \in Ol!Order : pending[o] # Ol!None => InRows(pass.s, o) \/ InRows(pass.b, o)
    BY DEF OlderInv, PassInv
  <2>2. QED
    BY <1>1, <1>4, <1>8, <2>1 DEF PassInv
 <1>10. QED
   BY <1>2, <1>3, <1>9 DEF OlderInv

LEMMA MatchFailsStep ==
  ASSUME OlderBounds, OlderInv, Ol!MatchFails
  PROVE  OlderInv'
 <1>1. /\ pcOl = "pass" /\ faultsOl < MaxFaults /\ faultsOl' = faultsOl + 1
       /\ pending' = [o \in Ol!Order |-> Ol!None] /\ pcOl' \in {"dead", "commit"}
       /\ ordersOl' = ordersOl /\ messages' = messages /\ pass' = pass /\ stale' = stale
   BY DEF Ol!MatchFails
 <1>2. /\ RowsInv' /\ VolumesInv' /\ Ol!FilledExactly' /\ (messages <= Cardinality(Entered))'
       /\ faultsOl' \in 0..MaxFaults
   BY <1>1, OrdersStay DEF InPass
 <1>3. Ol!None \in [volume : 0..MaxVolume, status : {"same", "partial", "finished"}]
   BY DEF Ol!None, OlderBounds
 <1>4. TypedOl'
   BY <1>1, <1>2, <1>3 DEF OlderInv, TypedOl
 <1>5. PassInv'
  <2>1. Untouched'
    BY <1>1 DEF Untouched
  <2>2. QED
    BY <1>1, <2>1 DEF PassInv, Untouched
 <1>6. QED
   BY <1>2, <1>4, <1>5 DEF OlderInv

LEMMA CommitFailsStep ==
  ASSUME OlderBounds, OlderInv, Ol!CommitFails
  PROVE  OlderInv'
 <1>1. /\ pcOl = "commit" /\ faultsOl < MaxFaults /\ faultsOl' = faultsOl + 1
       /\ pending' = [o \in Ol!Order |-> Ol!None] /\ pcOl' = "idle"
       /\ ordersOl' = ordersOl /\ messages' = messages /\ pass' = pass /\ stale' = stale
   BY DEF Ol!CommitFails
 <1>2. /\ RowsInv' /\ VolumesInv' /\ Ol!FilledExactly' /\ (messages <= Cardinality(Entered))'
       /\ faultsOl' \in 0..MaxFaults
   BY <1>1, OrdersStay DEF InPass
 <1>3. Ol!None \in [volume : 0..MaxVolume, status : {"same", "partial", "finished"}]
   BY DEF Ol!None, OlderBounds
 <1>4. TypedOl'
   BY <1>1, <1>2, <1>3 DEF OlderInv, TypedOl
 <1>5. PassInv'
  <2>1. Untouched'
    BY <1>1 DEF Untouched
  <2>2. QED
    BY <1>1, <2>1 DEF PassInv, Untouched
 <1>6. QED
   BY <1>2, <1>4, <1>5 DEF OlderInv
(* What the transaction makes of an order is not more than the row has,    *)
(* and finishes it if it is as much.                                       *)
LEMMA MadeTypes ==
  ASSUME OlderBounds, NEW side, NEW rows, RowsOf(rows, side), NEW n \in Nat, NEW pend, Made(rows, n, pend),
         NEW k \in 1..Len(rows)
  PROVE  LET d == pend[rows[k].id]
         IN /\ d.volume = ShareOf(rows, k, n) /\ d.volume \in Nat /\ d.volume <= rows[k].volume
            /\ d \in [volume : 0..MaxVolume, status : {"same", "partial", "finished"}]
            /\ d # Ol!None => /\ d.status \in {"partial", "finished"}
                              /\ d.status = "finished" <=> d.volume = rows[k].volume
 <1> DEFINE d == pend[rows[k].id]
            v == ShareOf(rows, k, n)
            w == rows[k].volume
 <1>1. d = IF v = 0 THEN Ol!None
           ELSE [volume |-> v, status |-> IF v = w THEN "finished" ELSE "partial"]
   BY DEF Made
 <1>2. w \in Nat /\ w >= 1 /\ w <= MaxVolume /\ v \in 0..w /\ MaxVolume \in Nat
   BY RowTypes, ShareTypes DEF OlderBounds
 <1> HIDE DEF d, v, w
 <1>3. v \in Nat /\ v <= w /\ v \in 0..MaxVolume
   BY ONLY <1>2
 <1>5. CASE v # 0
  <2>1. d.volume = v /\ d.status = IF v = w THEN "finished" ELSE "partial"
    BY <1>1, <1>5
  <2>2. d \in [volume : 0..MaxVolume, status : {"same", "partial", "finished"}]
    BY <1>1, <1>3, <1>5
  <2>3. d.status \in {"partial", "finished"} /\ (d.status = "finished" <=> d.volume = w)
    BY <2>1
  <2>4. d.volume = v /\ d.volume \in Nat /\ d.volume <= w
    BY <2>1, <1>3
  <2>5. QED
    BY <2>2, <2>3, <2>4 DEF d, v, w
 <1>6. CASE v = 0
  <2>1. d = Ol!None /\ d.volume = v /\ Ol!None.volume = 0
    BY <1>1, <1>6 DEF Ol!None
  <2>2. d \in [volume : 0..MaxVolume, status : {"same", "partial", "finished"}]
    BY <1>2, <2>1 DEF Ol!None
  <2>3. QED
    BY <2>1, <2>2, <1>3 DEF d, v, w
 <1>7. QED
   BY <1>5, <1>6

LEMMA MatchStep ==
  ASSUME OlderBounds, OlderInv, Ol!Match
  PROVE  OlderInv'
 <1> DEFINE a == Ol!Sold
            c == Ol!BuyVolume
            v == IF a < c THEN a ELSE c
            so == pass.s[pass.i].id
            bo == pass.b[Ol!BuyRow].id
 <1>1. /\ pcOl = "pass" /\ pass.i <= Len(pass.s) /\ Ol!Crosses /\ pcOl' = pcOl
       /\ ordersOl' = ordersOl /\ messages' = messages /\ faultsOl' = faultsOl /\ stale' = stale
   BY DEF Ol!Match
 <1>2. /\ pending' = [pending EXCEPT
            ![so] = Ol!Dealt(so, v, IF a > c THEN "partial" ELSE "finished"),
            ![bo] = Ol!Dealt(bo, v, IF c > a THEN "partial" ELSE "finished")]
       /\ pass' = IF c < a
                  THEN [pass EXCEPT !.finished = @ \cup {bo}, !.sold = @ + v, !.left = 0]
                  ELSE IF c = a
                  THEN Ol!NextSale([pass EXCEPT !.finished = @ \cup {bo}, !.left = 0])
                  ELSE Ol!NextSale([pass EXCEPT !.left = c - a])
   BY DEF Ol!Match
 <1>3. PICK j : RunAt(pass, pending, j)
   BY <1>1 DEF OlderInv, PassInv
 <1>4. /\ j \in 1..Len(pass.b) + 1 /\ pass.finished = {pass.b[k].id : k \in 1..j - 1}
       /\ pass.i \in 1..Len(pass.s) + 1
   BY <1>3 DEF RunAt
 <1>5. /\ RowsOf(pass.s, Sale) /\ RowsOf(pass.b, Buy) /\ Len(pass.s) \in Nat
       /\ Len(pass.b) \in Nat
       /\ pass \in Passes
       /\ pending \in [Ol!Order -> [volume : 0..MaxVolume,
             status : {"same", "partial", "finished"}]]
   BY InvFacts, RowTypes
 <1>6. Ol!BuyRow = IF j > Len(pass.b) THEN 0 ELSE j
   BY <1>4, <1>5, BuyRowIs
 <1>7. Ol!BuyRow = j /\ j <= Len(pass.b) /\ j \in 1..Len(pass.b) /\ pass.i \in 1..Len(pass.s)
       /\ pass.b[j].price >= pass.s[pass.i].price
  <2>1. Ol!BuyRow # 0 /\ pass.b[Ol!BuyRow].price >= pass.s[pass.i].price
    BY <1>1 DEF Ol!Crosses
  <2>2. QED
    BY <2>1, <1>1, <1>4, <1>5, <1>6
 <1>8. so \in Ol!Order /\ bo \in Ol!Order /\ so # bo /\ bo = pass.b[j].id
   BY <1>5, <1>7, RowTypes DEF Ol!Order, OlderBounds
 <1>9. Pair(pass, j, a, c, v)
   BY <1>1, <1>7 DEF Pair, Ol!Sold, Ol!BuyVolume
 <1>10. Deals(pass, pending, j, a, c, v, pending')
   BY <1>2, <1>5, <1>7 DEF Deals, Ol!Dealt
 <1> HIDE DEF v
 <1>11. /\ a \in Nat /\ c \in Nat /\ v \in Nat /\ v # 0 /\ v <= a /\ v <= c
   BY <1>3, <1>5, <1>9, <1>10, MatchMoves
 <1>12. /\ pass.i \in Nat /\ pass.sold \in Nat /\ pass.left \in 0..MaxVolume
        /\ pass.finished \subseteq Ol!Order /\ MaxVolume \in Nat
   BY <1>5 DEF Passes, OlderBounds
 <1>13. c <= MaxVolume
  <2>1. pass.b[j].volume <= MaxVolume /\ pass.b[j].volume \in Nat
    BY <1>5, <1>7, RowTypes
  <2>2. QED
    BY <2>1, <1>9, <1>12 DEF Pair
 <1> HIDE DEF a, c, so, bo
 <1>14. GoesOn(pass, pass', j, a, c, v) /\ pass'.locked = pass.locked
  <2>1. CASE c < a
   <3>1. pass' = [pass EXCEPT !.finished = @ \cup {bo}, !.sold = @ + v, !.left = 0]
     BY <2>1, <1>2
   <3>2. 0 \in 0..MaxVolume /\ pass.sold + v \in Nat /\ pass.finished
               \cup {bo} \in SUBSET Ol!Order
     BY <1>8, <1>11, <1>12
   <3>3. pass' \in Passes
     BY <3>1, <3>2, <1>5 DEF Passes
   <3>4. /\ pass'.s = pass.s /\ pass'.b = pass.b /\ pass'.locked = pass.locked
         /\ pass'.i = pass.i
         /\ pass'.sold = pass.sold + v /\ pass'.left = 0 /\ pass'.finished = pass.finished
               \cup {bo}
     BY <3>1, <1>5 DEF Passes
   <3>5. QED
     BY <2>1, <3>3, <3>4, <1>8 DEF GoesOn
  <2>2. CASE c = a
   <3>1. pass' = Ol!NextSale([pass EXCEPT !.finished = @ \cup {bo}, !.left = 0])
     BY <2>2, <1>2, <1>11
   <3>2. 0 \in 0..MaxVolume /\ pass.i + 1 \in Nat /\ 0 \in Nat /\ pass.finished
               \cup {bo} \in SUBSET Ol!Order
     BY <1>8, <1>12
   <3>3. pass' \in Passes
     BY <3>1, <3>2, <1>5 DEF Passes, Ol!NextSale
   <3>4. /\ pass'.s = pass.s /\ pass'.b = pass.b /\ pass'.locked = pass.locked
         /\ pass'.i = pass.i + 1
         /\ pass'.sold = 0 /\ pass'.left = 0 /\ pass'.finished = pass.finished \cup {bo}
     BY <3>1, <1>5 DEF Passes, Ol!NextSale
   <3>5. QED
     BY <2>2, <3>3, <3>4, <1>8 DEF GoesOn
  <2>3. CASE c > a
   <3>1. pass' = Ol!NextSale([pass EXCEPT !.left = c - a])
     BY <2>3, <1>2, <1>11
   <3>2. c - a \in 0..MaxVolume /\ pass.i + 1 \in Nat /\ 0 \in Nat
     BY <2>3, <1>11, <1>12, <1>13
   <3>3. pass' \in Passes
     BY <3>1, <3>2, <1>5 DEF Passes, Ol!NextSale
   <3>4. /\ pass'.s = pass.s /\ pass'.b = pass.b /\ pass'.locked = pass.locked
         /\ pass'.i = pass.i + 1
         /\ pass'.sold = 0 /\ pass'.left = c - a /\ pass'.finished = pass.finished
     BY <3>1, <1>5 DEF Passes, Ol!NextSale
   <3>5. QED
     BY <2>3, <3>3, <3>4 DEF GoesOn
  <2>4. QED
    BY <2>1, <2>2, <2>3, <1>11
 <1>15. PICK l : RunAt(pass', pending', l)
   BY <1>3, <1>5, <1>9, <1>10, <1>14, MatchRuns
 <1>16. pass'.s = pass.s /\ pass'.b = pass.b /\ pass' \in Passes
   BY <1>14 DEF GoesOn
 <1>17. /\ RowsInv' /\ VolumesInv' /\ Ol!FilledExactly' /\ (messages <= Cardinality(Entered))'
   BY <1>1, <1>14, <1>16, OrdersStay DEF InPass
 <1>18. pending' \in [Ol!Order -> [volume : 0..MaxVolume,
              status : {"same", "partial", "finished"}]]
  <2>1. Units(pass') \in Nat
    BY <1>5, <1>15, <1>16, UnitsAre
  <2>2. Made(pass'.s, Units(pass'), pending') /\ Made(pass'.b, Units(pass'), pending')
    BY <1>15 DEF RunAt
  <2>3. /\ pending'[so] \in [volume : 0..MaxVolume, status : {"same", "partial", "finished"}]
        /\ pending'[bo] \in [volume : 0..MaxVolume, status : {"same", "partial", "finished"}]
    BY <2>1, <2>2, <1>5, <1>7, <1>8, <1>16, MadeTypes DEF so
  <2> DEFINE x == Ol!Dealt(so, v, IF a > c THEN "partial" ELSE "finished")
             y == Ol!Dealt(bo, v, IF c > a THEN "partial" ELSE "finished")
  <2>4. pending' = [pending EXCEPT ![so] = x, ![bo] = y]
    BY <1>2
  <2> HIDE DEF x, y
  <2>5. pending'[so] = x /\ pending'[bo] = y
    BY <2>4, <1>5, <1>8
  <2>6. QED
    BY <2>3, <2>4, <2>5, <1>5, <1>8
 <1>19. TypedOl'
   BY <1>1, <1>16, <1>18 DEF OlderInv, TypedOl
 <1>20. PassInv'
  <2>1. \A o \in Ol!Order : pending[o] # Ol!None => InRows(pass.s, o) \/ InRows(pass.b, o)
    BY DEF OlderInv, PassInv
  <2>2. InRows(pass.s, so) /\ InRows(pass.b, bo)
    BY <1>7, <1>8 DEF InRows, so
  <2>3. \A o \in Ol!Order : o # so /\ o # bo => pending'[o] = pending[o]
    BY <1>2, <1>5
  <2>4. \A o \in Ol!Order : pending'[o] # Ol!None => InRows(pass'.s, o) \/ InRows(pass'.b, o)
    BY <2>1, <2>2, <2>3, <1>16
  <2>5. QED
    BY <1>1, <1>15, <2>4 DEF PassInv
 <1>21. QED
   BY <1>17, <1>19, <1>20 DEF OlderInv

(* What the transaction has for an order whose row is among those read. *)
LEMMA PendingOf ==
  ASSUME OlderBounds, OlderInv, pcOl = "commit", NEW o \in Ol!Order, pending[o] # Ol!None
  PROVE  \E rows \in {pass.s, pass.b} : \E k \in 1..Len(rows) :
           /\ rows[k].id = o /\ pending[o].volume \in Nat /\ pending[o].volume <= rows[k].volume
           /\ rows[k].volume \in Nat
           /\ pending[o].status \in {"partial", "finished"}
           /\ pending[o].status = "finished" <=> pending[o].volume = rows[k].volume
 <1>1. PICK j : RunAt(pass, pending, j)
   BY DEF OlderInv, PassInv, Untouched
 <1>2. pass \in Passes /\ RowsOf(pass.s, Sale) /\ RowsOf(pass.b, Buy)
   BY InvFacts
 <1>3. Units(pass) \in Nat
   BY <1>1, <1>2, UnitsAre
 <1>4. Made(pass.s, Units(pass), pending) /\ Made(pass.b, Units(pass), pending)
   BY <1>1 DEF RunAt
 <1>5. InRows(pass.s, o) \/ InRows(pass.b, o)
   BY DEF OlderInv, PassInv
 <1>6. ASSUME NEW side, NEW rows, RowsOf(rows, side), Made(rows, Units(pass), pending),
              InRows(rows, o)
       PROVE  \E k \in 1..Len(rows) :
                /\ rows[k].id = o /\ pending[o].volume \in Nat
                /\ pending[o].volume <= rows[k].volume
                /\ rows[k].volume \in Nat
                /\ pending[o].status \in {"partial", "finished"}
                /\ pending[o].status = "finished" <=> pending[o].volume = rows[k].volume
  <2>1. PICK k \in 1..Len(rows) : rows[k].id = o
    BY <1>6 DEF InRows
  <2>2. /\ pending[o].volume \in Nat /\ pending[o].volume <= rows[k].volume
        /\ pending[o].status \in {"partial", "finished"}
        /\ pending[o].status = "finished" <=> pending[o].volume = rows[k].volume
    BY <2>1, <1>3, <1>6, MadeTypes
  <2>3. rows[k].volume \in Nat
    BY <1>6, RowTypes
  <2>4. QED
    BY <2>1, <2>2, <2>3
 <1>7. QED
   BY <1>2, <1>4, <1>5, <1>6

LEMMA CommitStep ==
  ASSUME OlderBounds, OlderInv, Ol!Commit
  PROVE  OlderInv'
 <1>1. /\ pcOl = "commit" /\ pcOl' = "idle" /\ pending' = [o \in Ol!Order |-> Ol!None]
       /\ messages' = messages /\ pass' = pass /\ faultsOl' = faultsOl /\ stale' = stale
       /\ ordersOl' = [o \in Ol!Order |->
            IF pending[o] = Ol!None THEN ordersOl[o]
            ELSE [ordersOl[o] EXCEPT !.dealt = @ + pending[o].volume,
                  !.status = pending[o].status]]
   BY DEF Ol!Commit
 <1>2. ASSUME NEW o \in Ol!Order, pending[o] # Ol!None
       PROVE  /\ ordersOl'[o] \in OrderRows /\ ordersOl'[o].volume = ordersOl[o].volume
              /\ ordersOl'[o].dealt = ordersOl[o].dealt + pending[o].volume
              /\ ordersOl'[o].status = pending[o].status
              /\ ordersOl'[o].status \in {"partial", "finished"} /\ ordersOl[o].status # "none"
              /\ ordersOl'[o].dealt <= Cap(faultsOl)
              /\ ~stale => /\ ordersOl'[o].dealt <= ordersOl[o].volume
                           /\ ordersOl'[o].status = "finished" <=> ordersOl'[o].dealt = ordersOl[o].volume
  <2>11. PICK rows \in {pass.s, pass.b} :
          \E k \in 1..Len(rows) :
          /\ rows[k].id = o /\ pending[o].volume \in Nat /\ pending[o].volume <= rows[k].volume
          /\ rows[k].volume \in Nat
          /\ pending[o].status \in {"partial", "finished"}
          /\ pending[o].status = "finished" <=> pending[o].volume = rows[k].volume
    BY <1>1, <1>2, PendingOf
  <2>1. PICK k \in 1..Len(rows) :
          /\ rows[k].id = o /\ pending[o].volume \in Nat /\ pending[o].volume <= rows[k].volume
          /\ rows[k].volume \in Nat
          /\ pending[o].status \in {"partial", "finished"}
          /\ pending[o].status = "finished" <=> pending[o].volume = rows[k].volume
    BY <2>11
  <2>2. ordersOl[o] \in OrderRows /\ ordersOl[o].dealt \in Nat /\ ordersOl[o].volume \in Nat
        /\ Cap(faultsOl) \in Nat
    BY InvFacts, OrderTypes
  <2>3. ordersOl'[o] = [ordersOl[o] EXCEPT !.dealt = @ + pending[o].volume,
              !.status = pending[o].status]
    BY <1>1, <1>2
  <2>4. /\ ordersOl'[o].volume = ordersOl[o].volume
        /\ ordersOl'[o].dealt = ordersOl[o].dealt + pending[o].volume
        /\ ordersOl'[o].status = pending[o].status
    BY <2>2, <2>3 DEF OrderRows
  <2>5. ordersOl'[o] \in OrderRows
   <3>1. ordersOl[o].dealt + pending[o].volume \in Nat
     BY <2>1, <2>2
   <3>2. pending[o].status \in Ol!Live \cup {"none", "finished", "cancelled"}
     BY <2>1 DEF Ol!Live
   <3>3. QED
     BY <2>2, <2>3, <3>1, <3>2 DEF OrderRows
  <2>6. ordersOl[o].status # "none"
   <3>1. InRows(rows, o)
     BY <2>1 DEF InRows
   <3>2. QED
     BY <3>1 DEF OlderInv, RowsInv
  <2>7. ordersOl[o].dealt + rows[k].volume <= Cap(faultsOl)
   <3>1. Capped(rows)
     BY <1>1 DEF OlderInv, VolumesInv, InPass
   <3>2. QED
     BY <3>1, <2>1 DEF Capped
  <2>8. ordersOl'[o].dealt <= Cap(faultsOl)
    BY <2>1, <2>2, <2>4, <2>7
  <2>9. ASSUME ~stale
        PROVE  /\ ordersOl'[o].dealt <= ordersOl[o].volume
               /\ ordersOl'[o].status = "finished" <=> ordersOl'[o].dealt = ordersOl[o].volume
   <3>1. FreshOl(rows)
     BY <1>1, <2>9 DEF OlderInv, VolumesInv, InPass
   <3>2. ordersOl[o].dealt + rows[k].volume = ordersOl[o].volume
     BY <3>1, <2>1 DEF FreshOl
   <3> DEFINE d == pending[o].volume
              w == rows[k].volume
              e == ordersOl[o].dealt
   <3>3. d \in Nat /\ w \in Nat /\ e \in Nat /\ d <= w /\ e + w = ordersOl[o].volume
     BY <2>1, <2>2, <3>2
   <3>4. ordersOl'[o].dealt = e + d /\ (ordersOl'[o].status = "finished" <=> d = w)
     BY <2>1, <2>4
   <3> HIDE DEF d, w, e
   <3>5. e + d <= e + w /\ (d = w <=> e + d = e + w)
     BY ONLY <3>3
   <3>6. QED
     BY <3>3, <3>4, <3>5
  <2>10. QED
    BY <2>1, <2>4, <2>5, <2>6, <2>8, <2>9
 <1>3. \A o \in Ol!Order : pending[o] = Ol!None => ordersOl'[o] = ordersOl[o]
   BY <1>1
 <1>4. ordersOl' \in [Ol!Order -> OrderRows]
  <2>1. \A o \in Ol!Order : ordersOl'[o] \in OrderRows
    BY <1>2, <1>3, InvFacts
  <2>2. QED
    BY <1>1, <2>1
 <1>5. Ol!None \in [volume : 0..MaxVolume, status : {"same", "partial", "finished"}]
   BY DEF Ol!None, OlderBounds
 <1>6. TypedOl'
   BY <1>1, <1>4, <1>5 DEF OlderInv, TypedOl
 <1>7. RowsInv'
  <2>1. \A o \in Ol!Order : ordersOl[o].status # "none" => ordersOl'[o].status # "none"
    BY <1>2, <1>3
  <2>2. QED
    BY <1>1, <2>1 DEF OlderInv, RowsInv
 <1>8. PassInv'
   BY <1>1 DEF PassInv, Untouched
 <1>9. VolumesInv'
  <2>1. \A o \in Ol!Order : ordersOl'[o].dealt <= Cap(faultsOl)
    BY <1>2, <1>3, OrderTypes
  <2>2. QED
    BY <1>1, <2>1 DEF VolumesInv, InPass
 <1>10. Ol!FilledExactly'
  <2> SUFFICES ASSUME ~stale', NEW o \in Ol!Order
               PROVE  /\ ordersOl'[o].dealt <= ordersOl'[o].volume
                      /\ ordersOl'[o].status # "cancelled" =>
                           (ordersOl'[o].status = "finished" <=> ordersOl'[o].dealt = ordersOl'[o].volume)
    BY DEF Ol!FilledExactly
  <2>1. CASE pending[o] = Ol!None
    BY <2>1, <1>1, <1>3 DEF OlderInv, Ol!FilledExactly
  <2>2. CASE pending[o] # Ol!None
    BY <2>2, <1>1, <1>2
  <2>3. QED
    BY <2>1, <2>2
 <1>11. (messages <= Cardinality(Entered))'
  <2>1. Entered' = Entered
    BY <1>2, <1>3 DEF Entered
  <2>2. QED
    BY <2>1, <1>1, EnteredFinite
 <1>12. QED
   BY <1>6, <1>7, <1>8, <1>9, <1>10, <1>11 DEF OlderInv

LEMMA NextOlder ==
  ASSUME OlderBounds PROVE OlderInv /\ [Ol!Next]_(Ol!vars) => OlderInv'
 <1> SUFFICES ASSUME OlderInv, [Ol!Next]_(Ol!vars) PROVE OlderInv'
   OBVIOUS
 <1>1. CASE Ol!Next
   BY <1>1, EnterStep, CancelStep, ReadStep, ReadDisconnectedStep, ReadFailsStep, MatchStep,
      MatchFailsStep, EndPassStep, CommitStep, CommitFailsStep DEF Ol!Next
 <1>2. CASE UNCHANGED Ol!vars
  <2>1. UNCHANGED <<ordersOl, messages, pcOl, pass, pending, faultsOl, stale>>
    BY <1>2 DEF Ol!vars
  <2>2. TypedOl' /\ RowsInv' /\ PassInv'
    BY <2>1 DEF OlderInv, TypedOl, RowsInv, PassInv, Untouched
  <2>3. VolumesInv' /\ Ol!FilledExactly' /\ (messages <= Cardinality(Entered))'
    BY <2>1, OrdersStay DEF InPass
  <2>4. QED
    BY <2>2, <2>3 DEF OlderInv
 <1>3. QED
   BY <1>1, <1>2

-----------------------------------------------------------------------------
(* What is claimed *)

(* The units that the loops deal are those up to the first pair that does  *)
(* not cross.                                                              *)
LEMMA TradedIs ==
  ASSUME OlderBounds, NEW p \in Passes, RowsOf(p.s, Sale), RowsOf(p.b, Buy), NEW pend, NEW j,
         RunAt(p, pend, j),
         Ended(p, j)
  PROVE  Ol!Traded(p.s, p.b) = 1..Units(p)
 <1> DEFINE n == Units(p)
            S == Ol!UptoRow(p.s, Len(p.s))
            B == Ol!UptoRow(p.b, Len(p.b))
 <1>1. /\ n \in Nat /\ Len(p.s) \in Nat /\ Len(p.b) \in Nat
       /\ p.i \in 1..Len(p.s) + 1 /\ j \in 1..Len(p.b) + 1
       /\ n <= S /\ n <= B
       /\ p.i > Len(p.s) => n = S
       /\ j > Len(p.b) => n = B
       /\ p.i <= Len(p.s) => Ol!UptoRow(p.s, p.i - 1) <= n /\ n < Ol!UptoRow(p.s, p.i)
       /\ j <= Len(p.b) => Ol!UptoRow(p.b, j - 1) <= n /\ n < Ol!UptoRow(p.b, j)
   BY UnitsAre
 <1>2. S \in Nat /\ B \in Nat
  <2>1. Len(p.s) \in 0..Len(p.s) /\ Len(p.b) \in 0..Len(p.b)
    BY <1>1
  <2>2. QED
    BY <2>1, UptoRowIs
 <1>3. S <= Few * MaxVolume /\ Few * MaxVolume \in Nat
   BY UptoRowWithin, Multiples DEF OlderBounds
 <1>4. Ol!Total(p.s) = S /\ Ol!Total(p.b) = B
   BY DEF Ol!Total
 <1>5. CrossUpto(p.s, p.b, n)
   BY DEF RunAt
 <1> HIDE DEF n, S, B
 <1>6. 1..n \subseteq Ol!Traded(p.s, p.b)
  <2> SUFFICES ASSUME NEW m \in 1..n PROVE m \in Ol!Traded(p.s, p.b)
    OBVIOUS
  <2>1. m \in 1..(Few * MaxVolume) /\ m <= S /\ m <= B
    BY <1>1, <1>2, <1>3
  <2>2. \A l \in 1..m : l \in 1..n
    BY <1>1
  <2>3. \A l \in 1..m : Ol!UnitPrice(p.s, l) <= Ol!UnitPrice(p.b, l)
    BY <2>2, <1>5 DEF CrossUpto
  <2>4. QED
    BY <2>1, <2>3, <1>4 DEF Ol!Traded
 <1>7. Ol!Traded(p.s, p.b) \subseteq 1..n
  <2> SUFFICES ASSUME NEW m \in Ol!Traded(p.s, p.b), m > n PROVE FALSE
    BY <1>1, <1>3 DEF Ol!Traded
  <2>1. m \in 1..(Few * MaxVolume) /\ m <= S /\ m <= B
        /\ \A l \in 1..m : Ol!UnitPrice(p.s, l) <= Ol!UnitPrice(p.b, l)
    BY <1>4 DEF Ol!Traded
  <2>2. m \in Nat /\ n + 1 \in 1..m /\ n + 1 \in Nat /\ n # S /\ n # B
    BY <2>1, <1>1, <1>2, <1>3
  <2>3. p.i \in 1..Len(p.s) /\ j \in 1..Len(p.b)
    BY <2>2, <1>1
  <2>4. /\ Ol!UptoRow(p.s, p.i - 1) \in Nat /\ Ol!UptoRow(p.s, p.i) \in Nat
        /\ Ol!UptoRow(p.b, j - 1) \in Nat /\ Ol!UptoRow(p.b, j) \in Nat
   <3>1. /\ p.i \in 0..Len(p.s) /\ p.i - 1 \in 0..Len(p.s)
         /\ j \in 0..Len(p.b) /\ j - 1 \in 0..Len(p.b)
     BY <2>3, <1>1
   <3>2. QED
     BY <3>1, UptoRowIs
  <2>5. /\ Ol!UptoRow(p.s, p.i - 1) < n + 1 /\ n + 1 <= Ol!UptoRow(p.s, p.i)
        /\ Ol!UptoRow(p.b, j - 1) < n + 1 /\ n + 1 <= Ol!UptoRow(p.b, j)
    BY <2>3, <2>4, <1>1
  <2>6. Ol!UnitPrice(p.s, n + 1) = p.s[p.i].price /\ Ol!UnitPrice(p.b, n + 1) = p.b[j].price
    BY <2>2, <2>3, <2>5, UnitPriceIs
  <2>7. p.s[p.i].price <= p.b[j].price /\ p.s[p.i].price \in Nat /\ p.b[j].price \in Nat
    BY <2>1, <2>2, <2>3, <2>6, RowTypes
  <2>8. QED
    BY <2>3, <2>7, <1>1 DEF Ended
 <1>8. QED
   BY <1>6, <1>7 DEF n

LEMMA OlderPassExact ==
  ASSUME OlderBounds PROVE OlderInv => Ol!PassExact
 <1> SUFFICES ASSUME OlderInv, pcOl = "commit", \E o \in Ol!Order : pending[o] # Ol!None,
                     NEW rows \in {pass.s, pass.b}, NEW k \in 1..Len(rows)
              PROVE  pending[rows[k].id].volume =
                       Cardinality({n \in Ol!Traded(pass.s, pass.b) :
                                      Ol!UptoRow(rows, k - 1) < n /\ n <= Ol!UptoRow(rows, k)})
     BY SameCardinalityOl DEF Ol!PassExact
 <1>1. PICK j : RunAt(pass, pending, j) /\ Ended(pass, j)
   BY DEF OlderInv, PassInv, Untouched
 <1>2. pass \in Passes /\ RowsOf(pass.s, Sale) /\ RowsOf(pass.b, Buy)
   BY InvFacts
 <1>3. Units(pass) \in Nat /\ Ol!Traded(pass.s, pass.b) = 1..Units(pass)
   BY <1>1, <1>2, UnitsAre, TradedIs
 <1>4. Made(pass.s, Units(pass), pending) /\ Made(pass.b, Units(pass), pending)
   BY <1>1 DEF RunAt
 <1>5. ASSUME NEW side, RowsOf(rows, side), Made(rows, Units(pass), pending)
       PROVE  pending[rows[k].id].volume =
                Cardinality({n \in 1..Units(pass) : Ol!UptoRow(rows, k - 1) < n
                      /\ n <= Ol!UptoRow(rows, k)})
  <2>1. pending[rows[k].id].volume = ShareOf(rows, k, Units(pass))
    BY <1>3, <1>5, MadeTypes
  <2>2. QED
    BY <2>1, <1>3, <1>5, ShareCounts
 <1>6. QED
   BY <1>2, <1>3, <1>4, <1>5

LEMMA OlderTypeOK ==
  ASSUME OlderBounds PROVE OlderInv => Ol!TypeOK
 <1> SUFFICES ASSUME OlderInv PROVE Ol!TypeOK
   OBVIOUS
 <1>1. faultsOl \in Nat /\ faultsOl <= MaxFaults /\ MaxFaults \in Nat /\ MaxVolume \in Nat
   BY InvFacts DEF OlderInv, TypedOl, OlderBounds
 <1>2. Cap(faultsOl) <= MaxVolume * (MaxFaults + 1) /\ MaxVolume * (MaxFaults + 1) \in Nat
   BY <1>1, Multiples DEF Cap
 <1>3. ASSUME NEW o \in Ol!Order
       PROVE  /\ ordersOl[o].price \in Price /\ ordersOl[o].volume \in 1..MaxVolume
              /\ ordersOl[o].dealt \in 0..(MaxVolume * (MaxFaults + 1))
              /\ ordersOl[o].status \in Ol!Live \cup {"none", "finished", "cancelled"}
              /\ pending[o].volume \in 0..MaxVolume
  <2>1. ordersOl[o].dealt \in Nat /\ ordersOl[o].dealt <= Cap(faultsOl) /\ Cap(faultsOl) \in Nat
    BY OrderTypes
  <2>2. ordersOl[o].dealt \in 0..(MaxVolume * (MaxFaults + 1))
    BY <2>1, <1>2
  <2>3. pending[o].volume \in 0..MaxVolume
    BY InvFacts
  <2>4. QED
    BY <2>2, <2>3, OrderTypes
 <1>4. messages \in 0..Cardinality(Ol!Order)
  <2>1. Entered \subseteq Ol!Order
    BY DEF Entered
  <2>2. Cardinality(Entered) <= Cardinality(Ol!Order) /\ Cardinality(Ol!Order) \in Nat
    BY <2>1, InvFacts, FS_Subset, FS_CardinalityType
  <2>3. QED
    BY <2>2, EnteredFinite
 <1>5. pass.left \in 0..MaxVolume
   BY InvFacts DEF Passes
 <1>6. QED
   BY <1>3, <1>4, <1>5, SameCardinalityOl DEF OlderInv, TypedOl, Ol!TypeOK
(* With whatever failures, the older loops fill orders exactly and match   *)
(* what crosses (start, MatchingServer.py 213-430).                        *)
THEOREM OlderIsSound == OlderBounds => (Ol!Spec => [](Ol!TypeOK /\ Ol!OlderSound))
 <1> SUFFICES ASSUME OlderBounds PROVE Ol!Spec => [](Ol!TypeOK /\ Ol!OlderSound)
   OBVIOUS
 <1>1. Ol!Init => OlderInv
   BY InitOlder
 <1>2. OlderInv /\ [Ol!Next]_(Ol!vars) => OlderInv'
   BY NextOlder
 <1>3. OlderInv => Ol!TypeOK /\ Ol!OlderSound
   BY OlderTypeOK, OlderPassExact DEF OlderInv, Ol!OlderSound
 <1>4. QED
   BY <1>1, <1>2, <1>3, PTL DEF Ol!Spec

HIDE DEF ordersOl, messages, pcOl, pass, pending, faultsOl, stale

-----------------------------------------------------------------------------
(* The TCP server of updates                                               *)

Br == INSTANCE Broadcast WITH
       Client <- Viewer, listening <- v1, connections <- v2, c <- v3, listener <- v4, awaited <- v5,
       published <- v6, taken <- v7

(* Its variables. *)
listening == v1
connections == v2
cBr == v3
listener == v4
awaited == v5
published == v6
taken == v7

USE DEF listening, connections, cBr, listener, awaited, published, taken

LEMMA SameToSetBr == \A s : Br!ToSet(s) = ToSet(s)
  BY DEF Br!ToSet, ToSet

LEMMA SameCardinalityBr == \A S : Br!Cardinality(S) = Cardinality(S)
  BY DEF Br!Cardinality, Cardinality

LineBounds == MaxLines \in Nat /\ MaxUpdates \in Nat

Kinds == {"good", "bad"}
Talks(r) == r.at \in {"reading", "writing"}

Streams == [at : {"none", "reading", "writing", "over"}, open : BOOLEAN, lines : Seq(Kinds),
            sent : Nat, run : Nat, since : Nat, out : Seq(Nat), got : Seq(Nat)]

(* What is on its way to a client, of which n updates have been taken: a   *)
(* reply if its loop waits for one, an update if the listener waits.       *)
OutInv(x, r, waits, n) ==
  /\ \A k \in 1..Len(r.out) : r.out[k] = Br!Reply => r.at = "writing"
  /\ \A k, l \in 1..Len(r.out) : r.out[k] = Br!Reply /\ r.out[l] = Br!Reply => k = l
  /\ \A k \in 1..Len(r.out) : r.out[k] # Br!Reply => x \in waits /\ r.out[k] = n

StreamInv(r, n) ==
  LET w == Br!Stream(r) IN Br!Rises(w) /\ \A k \in 1..Len(w) : w[k] <= n

(* What has been written to a client whose loop runs. *)
AllInv(r, n, pub) ==
  LET w == Br!Stream(r)
  IN /\ ToSet(w) \ {Br!Reply} = {k \in r.since + 1..n : pub[k] = "good"}
     /\ Br!Replies(w) = r.run

ClientInv(x, r, listed, waits, n, pub) ==
  /\ r \in Streams
  /\ r.at = "none" => r.got = <<>> /\ r.out = <<>> /\ ~r.open /\ r.run = 0
  /\ x \in listed <=> Talks(r)
  /\ ~r.open => r.out = <<>>
  /\ r.run + Len(r.lines) <= r.sent /\ r.sent <= MaxLines /\ r.since <= n
  /\ \A k \in 1..Len(r.got) : r.got[k] <= n
  /\ \A k \in 1..Len(r.out) : r.out[k] <= n
  /\ OutInv(x, r, waits, n)
  /\ r.open => StreamInv(r, n)
  /\ r.open /\ Talks(r) => AllInv(r, n, pub)

ClientsInv ==
  \A x \in Viewer : ClientInv(x, cBr[x], connections, awaited, taken, published)

ListenerInv ==
  /\ listening \in BOOLEAN /\ connections \subseteq Viewer /\ awaited \subseteq Viewer
  /\ listener \in {"waiting", "updating", "failed", "ended"}
  /\ published \in Seq(Kinds) /\ taken \in Nat
  /\ taken <= Len(published) /\ Len(published) <= MaxUpdates
  /\ listener = "failed" => taken >= 1 /\ published[taken] = "bad"
  /\ awaited # {} => listener = "updating"

BroadcastInv == DOMAIN cBr = Viewer /\ ClientsInv /\ ListenerInv

-----------------------------------------------------------------------------
(* What is written, and taken by the client *)

LEMMA StreamIs ==
  ASSUME NEW r \in Streams
  PROVE  /\ Br!Stream(r) \in Seq(Nat) /\ Len(Br!Stream(r)) = Len(r.got) + Len(r.out)
         /\ Len(r.got) \in Nat /\ Len(r.out) \in Nat
         /\ \A k \in 1..Len(r.got) : Br!Stream(r)[k] = r.got[k] /\ r.got[k] \in Nat
         /\ \A k \in 1..Len(r.out) : Br!Stream(r)[Len(r.got) + k] = r.out[k] /\ r.out[k] \in Nat
 <1> DEFINE g == r.got
            o == r.out
 <1>1. g \in Seq(Nat) /\ o \in Seq(Nat)
   BY DEF Streams
 <1>2. Br!Stream(r) = g \o o
   BY DEF Br!Stream
 <1> HIDE DEF g, o
 <1>3. /\ g \o o \in Seq(Nat) /\ Len(g \o o) = Len(g) + Len(o) /\ Len(g) \in Nat
       /\ Len(o) \in Nat
       /\ \A k \in 1..Len(g) + Len(o) : (g \o o)[k] = IF k <= Len(g) THEN g[k] ELSE o[k - Len(g)]
   BY <1>1, ConcatProperties
 <1>4. \A k \in 1..Len(g) : (g \o o)[k] = g[k] /\ g[k] \in Nat
   BY <1>1, <1>3
 <1>5. ASSUME NEW k \in 1..Len(o) PROVE (g \o o)[Len(g) + k] = o[k] /\ o[k] \in Nat
  <2>1. Len(g) + k \in 1..Len(g) + Len(o) /\ ~(Len(g) + k <= Len(g))
        /\ (Len(g) + k) - Len(g) = k
    BY <1>3
  <2>2. QED
    BY <2>1, <1>1, <1>3
 <1>6. QED
   BY <1>2, <1>3, <1>4, <1>5 DEF g, o

(* What is on its way is one update and one reply at most. *)
LEMMA OutIsShort ==
  ASSUME NEW x, NEW r \in Streams, NEW waits, NEW n \in Nat, OutInv(x, r, waits, n),
         Br!Rises(Br!Stream(r)),
         NEW k \in 1..Len(r.out), NEW l \in 1..Len(r.out),
         \/ r.out[k] = Br!Reply /\ r.out[l] = Br!Reply
         \/ r.out[k] # Br!Reply /\ r.out[l] # Br!Reply
  PROVE  k = l
 <1>1. CASE r.out[k] = Br!Reply /\ r.out[l] = Br!Reply
   BY <1>1 DEF OutInv
 <1>2. CASE r.out[k] # Br!Reply /\ r.out[l] # Br!Reply
  <2>1. r.out[k] = n /\ r.out[l] = n
    BY <1>2 DEF OutInv
  <2>2. /\ Len(Br!Stream(r)) = Len(r.got) + Len(r.out) /\ Len(r.got) \in Nat
        /\ Len(r.out) \in Nat
        /\ Br!Stream(r)[Len(r.got) + k] = n /\ Br!Stream(r)[Len(r.got) + l] = n
    BY <2>1, StreamIs
  <2> DEFINE a == Len(r.got) + k
             b == Len(r.got) + l
  <2>3. a \in 1..Len(Br!Stream(r)) /\ b \in 1..Len(Br!Stream(r))
   <3> DEFINE y == Len(r.got)
              z == Len(r.out)
   <3>1. y \in Nat /\ z \in Nat /\ k \in 1..z /\ l \in 1..z /\ Len(Br!Stream(r)) = y + z
     BY <2>2
   <3> HIDE DEF y, z
   <3>2. y + k \in 1..y + z /\ y + l \in 1..y + z
     BY ONLY <3>1
   <3>3. QED
     BY <3>1, <3>2 DEF y, z
  <2>4. Br!Stream(r)[a] = n /\ Br!Stream(r)[b] = n /\ n # Br!Reply
    BY <2>2, <2>1, <1>2
  <2>5. a \in Int /\ b \in Int
    BY <2>2
  <2> HIDE DEF a, b
  <2>6. ~(a < b) /\ ~(b < a)
    BY <2>3, <2>4 DEF Br!Rises
  <2>7. a = b
    BY <2>5, <2>6
  <2>8. QED
    BY <2>7, <2>2 DEF a, b
 <1>3. QED
   BY <1>1, <1>2

LEMMA Written ==
  ASSUME LineBounds, NEW w \in Seq(Nat), NEW what \in Nat
  PROVE  /\ Append(w, what) \in Seq(Nat) /\ Len(Append(w, what)) = Len(w) + 1 /\ Len(w) \in Nat
         /\ \A k \in 1..Len(w) : Append(w, what)[k] = w[k] /\ w[k] \in Nat
         /\ Append(w, what)[Len(w) + 1] = what
         /\ ToSet(Append(w, what)) = ToSet(w) \cup {what}
         /\ Br!Replies(w) \in Nat
         /\ what = Br!Reply => Br!Replies(Append(w, what)) = Br!Replies(w) + 1
         /\ what # Br!Reply => Br!Replies(Append(w, what)) = Br!Replies(w)
 <1> DEFINE v == Append(w, what)
            n == Len(w)
 <1>1. /\ v \in Seq(Nat) /\ Len(v) = n + 1 /\ n \in Nat
       /\ \A k \in 1..n : v[k] = w[k] /\ w[k] \in Nat
       /\ v[n + 1] = what
   OBVIOUS
 <1>2. DOMAIN w = 1..n /\ DOMAIN v = 1..n + 1
   BY <1>1
 <1> HIDE DEF v, n
 <1>3. 1..n + 1 = 1..n \cup {n + 1} /\ n + 1 \notin 1..n
   BY <1>1
 <1>4. ToSet(v) = ToSet(w) \cup {what}
   BY <1>1, <1>2, <1>3 DEF ToSet
 <1> DEFINE at == {k \in 1..n : w[k] = Br!Reply}
 <1>5. Br!Replies(w) = Cardinality(at)
   BY SameCardinalityBr DEF Br!Replies, n
 <1>6. Br!Replies(v) = Cardinality({k \in 1..n + 1 : v[k] = Br!Reply})
   BY <1>1, SameCardinalityBr DEF Br!Replies
 <1>7. IsFiniteSet(at) /\ Cardinality(at) \in Nat /\ n + 1 \notin at
  <2>0. 1 \in Int /\ n \in Int
    BY <1>1
  <2>1. IsFiniteSet(1..n) /\ at \subseteq 1..n
    BY <2>0, FS_Interval
  <2>2. QED
    BY <2>1, <1>3, FS_Subset, FS_CardinalityType
 <1>8. ASSUME what = Br!Reply PROVE Br!Replies(v) = Br!Replies(w) + 1
  <2>1. {k \in 1..n + 1 : v[k] = Br!Reply} = at \cup {n + 1}
    BY <1>1, <1>3, <1>8
  <2>2. QED
    BY <2>1, <1>5, <1>6, <1>7, FS_AddElement, ZenonT(30)
 <1>9. ASSUME what # Br!Reply PROVE Br!Replies(v) = Br!Replies(w)
  <2>1. {k \in 1..n + 1 : v[k] = Br!Reply} = at
    BY <1>1, <1>3, <1>9
  <2>2. QED
    BY <2>1, <1>5, <1>6
 <1> HIDE DEF at
 <1>10. QED
   BY <1>1, <1>4, <1>5, <1>7, <1>8, <1>9 DEF v, n

(* Writing to a client makes its stream longer. *)
LEMMA WriteIs ==
  ASSUME NEW r \in Streams, r.open, NEW what \in Nat
  PROVE  /\ Br!Write(r, what) \in Streams /\ Br!Write(r, what).out = Append(r.out, what)
         /\ Br!Write(r, what).at = r.at /\ Br!Write(r, what).open = r.open
         /\ Br!Write(r, what).lines = r.lines
         /\ Br!Write(r, what).sent = r.sent /\ Br!Write(r, what).run = r.run
         /\ Br!Write(r, what).since = r.since /\ Br!Write(r, what).got = r.got
         /\ Br!Stream(Br!Write(r, what)) = Append(Br!Stream(r), what)
 <1>1. /\ Br!Write(r, what) = [r EXCEPT !.out = Append(r.out, what)] /\ r.out \in Seq(Nat)
       /\ r.got \in Seq(Nat)
   BY DEF Br!Write, Streams
 <1>2. Append(r.out, what) \in Seq(Nat)
   BY <1>1
 <1>3. /\ Br!Write(r, what) \in Streams /\ Br!Write(r, what).out = Append(r.out, what)
       /\ Br!Write(r, what).at = r.at /\ Br!Write(r, what).open = r.open
       /\ Br!Write(r, what).lines = r.lines
       /\ Br!Write(r, what).sent = r.sent /\ Br!Write(r, what).run = r.run
       /\ Br!Write(r, what).since = r.since /\ Br!Write(r, what).got = r.got
   BY <1>1, <1>2 DEF Streams
 <1>4. Br!Stream(Br!Write(r, what)) = r.got \o Append(r.out, what)
   BY <1>3 DEF Br!Stream
 <1>5. r.got \o Append(r.out, what) = Append(r.got \o r.out, what)
  <2> DEFINE g == r.got
             o == r.out
             a == g \o Append(o, what)
             b == Append(g \o o, what)
  <2>1. g \in Seq(Nat) /\ o \in Seq(Nat) /\ Append(o, what) \in Seq(Nat)
        /\ Len(Append(o, what)) = Len(o) + 1
    BY <1>1
  <2> HIDE DEF g, o
  <2>2. /\ a \in Seq(Nat) /\ b \in Seq(Nat) /\ Len(a) = Len(b)
    BY <2>1
  <2>3. ASSUME NEW k \in 1..Len(a) PROVE a[k] = b[k]
   <3>1. Len(g) \in Nat /\ Len(o) \in Nat /\ Len(a) = Len(g) + Len(o) + 1
         /\ Len(g \o o) = Len(g) + Len(o)
     BY <2>1
   <3>2. CASE k <= Len(g)
     BY <3>1, <3>2, <2>1
   <3>3. CASE k > Len(g) /\ k <= Len(g) + Len(o)
     BY <3>1, <3>3, <2>1
   <3>4. CASE k = Len(g) + Len(o) + 1
     BY <3>1, <3>4, <2>1
   <3>5. QED
     BY <3>1, <3>2, <3>3, <3>4
  <2> HIDE DEF a, b
  <2>4. a = b
    BY <2>2, <2>3, SeqEqual
  <2>5. QED
    BY <2>4 DEF a, b, g, o
 <1>6. QED
   BY <1>3, <1>4, <1>5 DEF Br!Stream

LEMMA InvWritten ==
  ASSUME LineBounds, NEW r \in Streams, NEW n \in Nat, NEW m \in Nat, n <= m, StreamInv(r, n),
         NEW q \in Streams, NEW what \in Nat, Br!Stream(q) = Append(Br!Stream(r), what),
         what = Br!Reply \/ (n < what /\ what <= m)
  PROVE  StreamInv(q, m)
 <1> DEFINE w == Br!Stream(r)
            v == Append(w, what)
 <1>1. w \in Seq(Nat) /\ Br!Rises(w) /\ \A k \in 1..Len(w) : w[k] <= n
   BY StreamIs DEF StreamInv
 <1> HIDE DEF w
 <1>2. /\ Len(v) = Len(w) + 1 /\ Len(w) \in Nat
       /\ \A k \in 1..Len(w) : v[k] = w[k] /\ w[k] \in Nat
       /\ v[Len(w) + 1] = what
   BY <1>1, Written
 <1> HIDE DEF v
 <1>3. \A k \in 1..Len(v) : v[k] <= m
  <2> TAKE k \in 1..Len(v)
  <2>1. CASE k \in 1..Len(w)
   <3>1. v[k] <= n /\ v[k] \in Nat
     BY <2>1, <1>1, <1>2
   <3>2. QED
     BY <3>1
  <2>2. CASE k = Len(w) + 1
   <3>1. v[k] = what /\ Br!Reply <= m
     BY <2>2, <1>2 DEF Br!Reply
   <3>2. QED
     BY <3>1
  <2>3. QED
    BY <2>1, <2>2, <1>2
 <1>4. Br!Rises(v)
  <2> SUFFICES ASSUME NEW i \in 1..Len(v), NEW j \in 1..Len(v), i < j
               PROVE  v[i] < v[j] \/ Br!Reply \in {v[i], v[j]}
    BY DEF Br!Rises
  <2>1. i \in 1..Len(w)
    BY <1>2
  <2>2. CASE j \in 1..Len(w)
    BY <2>1, <2>2, <1>1, <1>2 DEF Br!Rises
  <2>3. CASE j = Len(w) + 1
   <3>1. v[j] = what /\ v[i] <= n /\ v[i] \in Nat
     BY <2>1, <2>3, <1>1, <1>2
   <3>2. what = Br!Reply \/ v[i] < what
     BY <3>1
   <3>3. QED
     BY <3>1, <3>2
  <2>4. QED
    BY <2>2, <2>3, <1>2
 <1>5. QED
   BY <1>3, <1>4 DEF StreamInv, v, w

-----------------------------------------------------------------------------
(* The steps *)

LEMMA InvFactsBr ==
  ASSUME BroadcastInv
  PROVE  /\ DOMAIN cBr = Viewer /\ taken \in Nat /\ published \in Seq(Kinds)
         /\ taken <= Len(published)
         /\ \A x \in Viewer : /\ cBr[x] \in Streams
                              /\ ClientInv(x, cBr[x], connections, awaited, taken, published)
  BY DEF BroadcastInv, ClientsInv, ListenerInv, ClientInv

LEMMA StreamTypes ==
  ASSUME NEW r \in Streams
  PROVE  /\ r.at \in {"none", "reading", "writing", "over"} /\ r.open \in BOOLEAN
         /\ r.lines \in Seq(Kinds) /\ Len(r.lines) \in Nat
         /\ r.sent \in Nat /\ r.run \in Nat /\ r.since \in Nat
         /\ r.out \in Seq(Nat) /\ r.got \in Seq(Nat) /\ Len(r.out) \in Nat /\ Len(r.got) \in Nat
         /\ \A k \in 1..Len(r.out) : r.out[k] \in Nat
         /\ \A k \in 1..Len(r.got) : r.got[k] \in Nat
 <1>1. r.out \in Seq(Nat) /\ r.got \in Seq(Nat) /\ r.lines \in Seq(Kinds)
   BY DEF Streams
 <1>2. QED
   BY <1>1 DEF Streams

(* Sameness of two clients in some parts. *)
Same(q, r, parts) == \A f \in parts : q[f] = r[f]

(* A step of one client. *)
LEMMA OneClient ==
  ASSUME BroadcastInv, NEW x \in Viewer, NEW q, cBr' = [cBr EXCEPT ![x] = q],
         connections' = connections \/ connections' = connections \cup {x}
               \/ connections' = connections \ {x},
         awaited' = awaited \/ awaited' = awaited \ {x},
         ClientInv(x, q, connections', awaited', taken, published),
         UNCHANGED <<listening, listener, published, taken>>
  PROVE  BroadcastInv'
 <1>1. DOMAIN cBr' = Viewer /\ cBr'[x] = q /\ \A y \in Viewer : y # x => cBr'[y] = cBr[y]
   BY InvFactsBr
 <1>2. ASSUME NEW y \in Viewer, y # x
       PROVE  ClientInv(y, cBr'[y], connections', awaited', taken', published')
  <2>1. ClientInv(y, cBr[y], connections, awaited, taken, published)
    BY InvFactsBr
  <2>2. (y \in connections' <=> y \in connections) /\ (y \in awaited' <=> y \in awaited)
    BY <1>2
  <2>3. ClientInv(y, cBr[y], connections', awaited', taken, published)
    BY <2>1, <2>2 DEF ClientInv, OutInv
  <2>4. QED
    BY <2>3, <1>1, <1>2
 <1>3. ClientInv(x, cBr'[x], connections', awaited', taken', published')
   BY <1>1
 <1>4. ClientsInv'
   BY <1>2, <1>3 DEF ClientsInv
 <1>5. ListenerInv'
   BY DEF BroadcastInv, ListenerInv
 <1>6. QED
   BY <1>1, <1>4, <1>5 DEF BroadcastInv

LEMMA ConnectStep ==
  ASSUME LineBounds, BroadcastInv, NEW x \in Viewer, Br!Connect(x)
  PROVE  BroadcastInv'
 <1> DEFINE r == cBr[x]
            q == [r EXCEPT !.at = "reading", !.open = TRUE, !.since = taken]
 <1>1. /\ r.at = "none" /\ cBr' = [cBr EXCEPT ![x] = q] /\ connections' = connections \cup {x}
       /\ UNCHANGED <<listening, listener, awaited, published, taken>>
   BY DEF Br!Connect
 <1>2. r \in Streams /\ ClientInv(x, r, connections, awaited, taken, published) /\ taken \in Nat
   BY InvFactsBr
 <1>3. r.got = <<>> /\ r.out = <<>> /\ r.run = 0
   BY <1>1, <1>2 DEF ClientInv
 <1> HIDE DEF r
 <1>4. /\ q \in Streams /\ q.at = "reading" /\ q.open = TRUE /\ q.since = taken
       /\ q.got = <<>> /\ q.out = <<>> /\ q.run = 0 /\ q.lines = r.lines /\ q.sent = r.sent
   BY <1>2, <1>3 DEF Streams
 <1> HIDE DEF q
 <1>5. Br!Stream(q) = <<>> /\ Len(<<>>) = 0 /\ 1..0 = {} /\ DOMAIN <<>> = {}
   BY <1>4 DEF Br!Stream
 <1>6. StreamInv(q, taken)
   BY <1>5 DEF StreamInv, Br!Rises
 <1>7. AllInv(q, taken, published)
  <2>1. q.since + 1..taken = {}
    BY <1>2, <1>4
  <2>2. ToSet(Br!Stream(q)) = {}
    BY <1>5 DEF ToSet
  <2>3. Br!Replies(Br!Stream(q)) = 0
    BY <1>5, FS_EmptySet, SameCardinalityBr DEF Br!Replies
  <2>4. QED
    BY <2>1, <2>2, <2>3, <1>4 DEF AllInv
 <1>8. OutInv(x, q, awaited, taken)
   BY <1>4, <1>5 DEF OutInv
 <1>9. ClientInv(x, q, connections', awaited', taken, published)
   BY <1>1, <1>2, <1>4, <1>5, <1>6, <1>7, <1>8 DEF ClientInv, Talks
 <1>10. QED
   BY <1>1, <1>9, OneClient

LEMMA ClientSendsStep ==
  ASSUME LineBounds, BroadcastInv, NEW x \in Viewer, NEW line \in Kinds, Br!ClientSends(x, line)
  PROVE  BroadcastInv'
 <1> DEFINE r == cBr[x]
            ls == Append(r.lines, line)
            m == r.sent + 1
            q == [r EXCEPT !.lines = ls, !.sent = m]
 <1>1. /\ r.open /\ r.sent < MaxLines /\ cBr' = [cBr EXCEPT ![x] = q]
       /\ UNCHANGED <<listening, connections, listener, awaited, published, taken>>
   BY DEF Br!ClientSends
 <1>2. r \in Streams /\ ClientInv(x, r, connections, awaited, taken, published)
   BY InvFactsBr
 <1>3. /\ r.lines \in Seq(Kinds) /\ Len(r.lines) \in Nat /\ r.sent \in Nat /\ r.run \in Nat
   BY <1>2, StreamTypes
 <1> HIDE DEF r
 <1>4. Append(r.lines, line) \in Seq(Kinds) /\ Len(Append(r.lines, line)) = Len(r.lines) + 1
   BY <1>3
 <1>5. /\ q \in Streams /\ q.lines = Append(r.lines, line) /\ q.sent = r.sent + 1
       /\ Same(q, r, {"at", "open", "run", "since", "out", "got"})
  <2>1. ls \in Seq(Kinds) /\ m \in Nat
    BY <1>3, <1>4
  <2> HIDE DEF ls, m
  <2>2. q \in Streams /\ q.lines = ls /\ q.sent = m
    BY <1>2, <2>1 DEF Streams
  <2>3. Same(q, r, {"at", "open", "run", "since", "out", "got"})
    BY <1>2 DEF Streams, Same
  <2>4. QED
    BY <2>2, <2>3 DEF ls, m
 <1> HIDE DEF q
 <1>6. /\ q.at = r.at /\ q.open = r.open /\ q.run = r.run /\ q.since = r.since /\ q.out = r.out
       /\ q.got = r.got /\ Br!Stream(q) = Br!Stream(r)
   BY <1>5 DEF Same, Br!Stream
 <1>7. OutInv(x, q, awaited, taken) /\ (q.open => StreamInv(q, taken))
       /\ (q.open /\ Talks(q) => AllInv(q, taken, published))
   BY <1>2, <1>6 DEF ClientInv, OutInv, StreamInv, AllInv, Talks
 <1>8. q.run + Len(q.lines) <= q.sent /\ q.sent <= MaxLines
  <2>1. r.run + Len(r.lines) <= r.sent
    BY <1>2 DEF ClientInv
  <2>2. QED
    BY <2>1, <1>1, <1>3, <1>4, <1>5, <1>6 DEF LineBounds
 <1>9. ClientInv(x, q, connections', awaited', taken, published)
   BY <1>1, <1>2, <1>5, <1>6, <1>7, <1>8 DEF ClientInv, Talks
 <1>10. QED
   BY <1>1, <1>9, OneClient

(* A client whose stream is closed, or whose loop is over. *)
LEMMA FewerOf ==
  ASSUME NEW x, NEW r, NEW listed, NEW waits, NEW n \in Nat, NEW pub,
         ClientInv(x, r, listed, waits, n, pub),
         NEW q, q \in Streams, NEW listed2, NEW waits2,
         Same(q, r, {"sent", "since", "got"}),
         x \in listed2 <=> Talks(q), q.at # "none", q.run + Len(q.lines) <= q.sent,
         \/ ~q.open /\ q.out = <<>>
         \/ /\ q.open /\ r.open /\ q.out = r.out /\ q.at = "over" /\ r.at = "reading"
            /\ x \in waits <=> x \in waits2
  PROVE  ClientInv(x, q, listed2, waits2, n, pub)
 <1>1. q.sent = r.sent /\ q.since = r.since /\ q.got = r.got
   BY DEF Same
 <1>2. /\ r.sent <= MaxLines /\ r.since <= n
       /\ \A k \in 1..Len(r.got) : r.got[k] <= n
       /\ \A k \in 1..Len(r.out) : r.out[k] <= n
       /\ OutInv(x, r, waits, n)
       /\ r.open => StreamInv(r, n)
   BY DEF ClientInv
 <1>3. CASE ~q.open /\ q.out = <<>>
  <2>1. Len(q.out) = 0 /\ 1..0 = {}
    BY <1>3
  <2>2. OutInv(x, q, waits2, n) /\ \A k \in 1..Len(q.out) : q.out[k] <= n
    BY <2>1 DEF OutInv
  <2>3. QED
    BY <1>1, <1>2, <1>3, <2>2 DEF ClientInv
 <1>4. CASE /\ q.open /\ r.open /\ q.out = r.out /\ q.at = "over" /\ r.at = "reading"
            /\ x \in waits <=> x \in waits2
  <2>1. Br!Stream(q) = Br!Stream(r)
    BY <1>1, <1>4 DEF Br!Stream
  <2>2. StreamInv(q, n) /\ OutInv(x, q, waits2, n) /\ \A k \in 1..Len(q.out) : q.out[k] <= n
    BY <1>2, <1>4, <2>1 DEF StreamInv, OutInv
  <2>3. ~Talks(q)
    BY <1>4 DEF Talks
  <2>4. QED
    BY <1>1, <1>2, <1>4, <2>2, <2>3 DEF ClientInv
 <1>5. QED
   BY <1>3, <1>4

LEMMA ClientClosesStep ==
  ASSUME BroadcastInv, NEW x \in Viewer, Br!ClientCloses(x)
  PROVE  BroadcastInv'
 <1> DEFINE r == cBr[x]
            q == [r EXCEPT !.open = FALSE, !.out = <<>>]
 <1>1. /\ r.open /\ cBr' = [cBr EXCEPT ![x] = q]
       /\ UNCHANGED <<listening, connections, listener, awaited, published, taken>>
   BY DEF Br!ClientCloses
 <1>2. /\ r \in Streams /\ ClientInv(x, r, connections, awaited, taken, published)
       /\ taken \in Nat
       /\ r.at # "none" /\ (x \in connections <=> Talks(r)) /\ r.run + Len(r.lines) <= r.sent
   BY <1>1, InvFactsBr DEF ClientInv
 <1> HIDE DEF r
 <1>3. <<>> \in Seq(Nat)
   OBVIOUS
 <1>4. /\ q \in Streams /\ q.open = FALSE /\ q.out = <<>> /\ q.at = r.at /\ q.run = r.run
       /\ q.lines = r.lines /\ Same(q, r, {"sent", "since", "got"}) /\ q.sent = r.sent
   BY <1>2, <1>3 DEF Streams, Same
 <1> HIDE DEF q
 <1>5. ClientInv(x, q, connections, awaited, taken, published)
   BY <1>2, <1>4, FewerOf DEF Talks
 <1>6. QED
   BY <1>1, <1>5, OneClient

LEMMA ReadFailsStepBr ==
  ASSUME BroadcastInv, NEW x \in Viewer, Br!ReadFails(x)
  PROVE  BroadcastInv'
 <1> DEFINE r == cBr[x]
            q == [r EXCEPT !.at = "over"]
 <1>1. /\ r.at = "reading" /\ ~r.open /\ cBr' = [cBr EXCEPT ![x] = q]
       /\ connections' = connections \ {x}
       /\ UNCHANGED <<listening, listener, awaited, published, taken>>
   BY DEF Br!ReadFails, Br!Over
 <1>2. /\ r \in Streams /\ ClientInv(x, r, connections, awaited, taken, published)
       /\ taken \in Nat
       /\ r.out = <<>> /\ r.run + Len(r.lines) <= r.sent
   BY <1>1, InvFactsBr DEF ClientInv
 <1> HIDE DEF r
 <1>4. /\ q \in Streams /\ ~q.open /\ q.out = <<>> /\ q.at = "over" /\ q.run = r.run
       /\ q.lines = r.lines /\ Same(q, r, {"sent", "since", "got"}) /\ q.sent = r.sent
   BY <1>1, <1>2 DEF Streams, Same
 <1> HIDE DEF q
 <1>5. ClientInv(x, q, connections', awaited, taken, published)
  <2>1. (x \in connections' <=> Talks(q)) /\ q.at # "none"
    BY <1>1, <1>4 DEF Talks
  <2>2. QED
    BY <2>1, <1>2, <1>4, FewerOf
 <1>6. QED
   BY <1>1, <1>5, OneClient

LEMMA ReplyFailsStep ==
  ASSUME BroadcastInv, NEW x \in Viewer, Br!ReplyFails(x)
  PROVE  BroadcastInv'
 <1> DEFINE r == cBr[x]
            q == [r EXCEPT !.at = "reading"]
 <1>1. /\ r.at = "writing" /\ ~r.open /\ cBr' = [cBr EXCEPT ![x] = q]
       /\ UNCHANGED <<listening, connections, listener, awaited, published, taken>>
   BY DEF Br!ReplyFails
 <1>2. /\ r \in Streams /\ ClientInv(x, r, connections, awaited, taken, published)
       /\ taken \in Nat
       /\ r.out = <<>> /\ (x \in connections <=> Talks(r)) /\ r.run + Len(r.lines) <= r.sent
   BY <1>1, InvFactsBr DEF ClientInv
 <1> HIDE DEF r
 <1>4. /\ q \in Streams /\ ~q.open /\ q.out = <<>> /\ q.at = "reading" /\ q.run = r.run
       /\ q.lines = r.lines /\ Same(q, r, {"sent", "since", "got"}) /\ q.sent = r.sent
   BY <1>1, <1>2 DEF Streams, Same
 <1> HIDE DEF q
 <1>5. ClientInv(x, q, connections, awaited, taken, published)
  <2>1. (x \in connections <=> Talks(q)) /\ q.at # "none"
    BY <1>1, <1>2, <1>4 DEF Talks
  <2>2. QED
    BY <2>1, <1>2, <1>4, FewerOf
 <1>6. QED
   BY <1>1, <1>5, OneClient

LEMMA ReadLineStep ==
  ASSUME LineBounds, BroadcastInv, NEW x \in Viewer, Br!ReadLine(x)
  PROVE  BroadcastInv'
 <1> DEFINE r == cBr[x]
            t == Tail(r.lines)
            p == [r EXCEPT !.lines = t]
 <1>1. /\ r.at = "reading" /\ r.lines # <<>>
       /\ UNCHANGED <<listening, listener, awaited, published, taken>>
   BY DEF Br!ReadLine
 <1>2. /\ r \in Streams /\ ClientInv(x, r, connections, awaited, taken, published)
       /\ taken \in Nat
       /\ (x \in connections <=> Talks(r)) /\ r.run + Len(r.lines) <= r.sent
       /\ r.sent <= MaxLines /\ r.since <= taken
       /\ \A k \in 1..Len(r.got) : r.got[k] <= taken
       /\ \A k \in 1..Len(r.out) : r.out[k] <= taken
       /\ OutInv(x, r, awaited, taken)
       /\ r.open => StreamInv(r, taken)
       /\ r.open => AllInv(r, taken, published)
       /\ ~r.open => r.out = <<>>
   BY <1>1, InvFactsBr DEF ClientInv, Talks
 <1>3. /\ r.lines \in Seq(Kinds) /\ Len(r.lines) \in Nat /\ r.sent \in Nat /\ r.run \in Nat
       /\ r.out \in Seq(Nat) /\ Len(r.out) \in Nat /\ r.open \in BOOLEAN
   BY <1>2, StreamTypes
 <1>4. t \in Seq(Kinds) /\ Len(t) = Len(r.lines) - 1 /\ Len(t) \in Nat
   BY <1>1, <1>3
 <1>5. \/ cBr' = [cBr EXCEPT ![x] = [p EXCEPT !.at = "over"]] /\ connections' = connections \ {x}
       \/ /\ cBr' = [cBr EXCEPT ![x] = [Br!Write(p, Br!Reply) EXCEPT
                    !.run = @ + 1, !.at = IF p.open THEN "writing" ELSE "reading"]]
          /\ connections' = connections
   BY DEF Br!ReadLine, Br!Over
 <1> HIDE DEF r, t
 <1>6. p \in Streams /\ p.lines = t /\ p.open = r.open
       /\ Same(p, r, {"at", "open", "sent", "run", "since", "out", "got"})
   BY <1>2, <1>4 DEF Streams, Same
 <1> HIDE DEF p
 <1>7. CASE cBr' = [cBr EXCEPT ![x] = [p EXCEPT !.at = "over"]]
       /\ connections' = connections \ {x}
  <2> DEFINE q == [p EXCEPT !.at = "over"]
  <2>1. /\ q \in Streams /\ q.open = r.open /\ q.out = r.out /\ q.at = "over" /\ q.run = r.run
        /\ q.lines = t /\ Same(q, r, {"sent", "since", "got"}) /\ q.sent = r.sent
    BY <1>6 DEF Streams, Same
  <2> HIDE DEF q
  <2>2. (x \in connections' <=> Talks(q)) /\ q.at # "none"
    BY <1>7, <2>1 DEF Talks
  <2>3. q.run + Len(q.lines) <= q.sent
    BY <2>1, <1>2, <1>3, <1>4
  <2>4. ClientInv(x, q, connections', awaited, taken, published)
   <3>1. CASE r.open
     BY <3>1, <2>1, <2>2, <2>3, <1>1, <1>2, FewerOf
   <3>2. CASE ~r.open
     BY <3>2, <2>1, <2>2, <2>3, <1>2, FewerOf
   <3>3. QED
     BY <3>1, <3>2
  <2>5. QED
    BY <2>4, <1>1, <1>7, OneClient DEF q
 <1>8. CASE /\ cBr' = [cBr EXCEPT ![x] = [Br!Write(p, Br!Reply) EXCEPT
                      !.run = @ + 1, !.at = IF p.open THEN "writing" ELSE "reading"]]
            /\ connections' = connections
  <2> DEFINE m == r.run + 1
             q == [Br!Write(p, Br!Reply) EXCEPT !.run = @ + 1, !.at = IF p.open
                   THEN "writing" ELSE "reading"]
  <2>1. m \in Nat /\ m + Len(t) <= r.sent
    BY <1>2, <1>3, <1>4
  <2>2. p.run = r.run /\ p.sent = r.sent /\ p.since = r.since /\ p.out = r.out
        /\ p.got = r.got /\ p.at = r.at
        /\ Br!Stream(p) = Br!Stream(r)
    BY <1>6 DEF Same, Br!Stream
  <2>3. CASE ~r.open
   <3>1. Br!Write(p, Br!Reply) = p
     BY <2>3, <1>6 DEF Br!Write
   <3>2. q = [p EXCEPT !.run = m, !.at = "reading"]
     BY <3>1, <2>2, <2>3, <1>6
   <3> HIDE DEF m
   <3>3. /\ q \in Streams /\ ~q.open /\ q.out = r.out /\ q.at = "reading" /\ q.run = m
         /\ q.lines = t
         /\ Same(q, r, {"sent", "since", "got"}) /\ q.sent = r.sent
     BY <3>2, <2>1, <2>2, <2>3, <1>6 DEF Streams, Same
   <3> HIDE DEF q
   <3>4. (x \in connections' <=> Talks(q)) /\ q.at # "none"
               /\ q.run + Len(q.lines) <= q.sent /\ q.out = <<>>
     BY <3>3, <2>1, <2>3, <1>1, <1>2, <1>8 DEF Talks
   <3>5. ClientInv(x, q, connections', awaited, taken, published)
     BY <3>3, <3>4, <1>2, FewerOf
   <3>6. QED
     BY <3>5, <1>1, <1>8, OneClient DEF q
  <2>4. CASE r.open
   <3> DEFINE u == Br!Write(p, Br!Reply)
   <3>0. Br!Reply \in Nat
     BY DEF Br!Reply
   <3>1. /\ u \in Streams /\ u.out = Append(r.out, Br!Reply)
         /\ u.run = r.run /\ u.sent = r.sent /\ u.since = r.since /\ u.got = r.got
         /\ u.lines = t
         /\ u.open = r.open
         /\ Br!Stream(u) = Append(Br!Stream(r), Br!Reply)
    <4>1. p \in Streams /\ p.open = TRUE
      BY <2>4, <1>6, <1>3
    <4>2. /\ u \in Streams /\ u.out = Append(p.out, Br!Reply)
          /\ u.run = p.run /\ u.sent = p.sent /\ u.since = p.since /\ u.got = p.got
          /\ u.lines = p.lines
          /\ u.open = p.open
          /\ Br!Stream(u) = Append(Br!Stream(p), Br!Reply)
      BY <4>1, <3>0, WriteIs
    <4> HIDE DEF u
    <4>3. QED
      BY <4>2, <2>2, <1>6
   <3>2. q = [u EXCEPT !.run = m, !.at = "writing"]
     BY <3>1, <2>4, <1>6
   <3> HIDE DEF u, m
   <3>3. /\ q \in Streams /\ q.open = r.open /\ q.out = Append(r.out, Br!Reply)
         /\ q.at = "writing" /\ q.run = m
         /\ q.lines = t /\ q.sent = r.sent /\ q.since = r.since /\ q.got = r.got
     BY <3>1, <3>2, <2>1 DEF Streams
   <3> HIDE DEF q
   <3>4. Br!Stream(q) = Append(Br!Stream(r), Br!Reply)
     BY <3>1, <3>3 DEF Br!Stream
   <3>5. /\ Len(q.out) = Len(r.out) + 1 /\ q.out[Len(r.out) + 1] = Br!Reply
         /\ \A k \in 1..Len(r.out) : q.out[k] = r.out[k]
     BY <3>0, <3>3, <1>3, Written
   <3>6. \A k \in 1..Len(r.out) : r.out[k] # Br!Reply /\ x \in awaited /\ r.out[k] = taken
     BY <1>1, <1>2 DEF OutInv
   <3>7. \A k \in 1..Len(q.out) : k \in 1..Len(r.out) \/ k = Len(r.out) + 1
     BY <3>5, <1>3
   <3>8. OutInv(x, q, awaited, taken) /\ \A k \in 1..Len(q.out) : q.out[k] <= taken
    <4>1. \A k \in 1..Len(q.out) : q.out[k] = Br!Reply => k = Len(r.out) + 1
      BY <3>5, <3>6, <3>7
    <4>2. \A k \in 1..Len(q.out) : q.out[k] # Br!Reply => x \in awaited /\ q.out[k] = taken
      BY <3>5, <3>6, <3>7
    <4>3. \A k \in 1..Len(q.out) : q.out[k] <= taken
      BY <4>2, <1>2 DEF Br!Reply
    <4>4. QED
      BY <4>1, <4>2, <4>3, <3>3 DEF OutInv
   <3>9. StreamInv(q, taken)
     BY <3>0, <3>3, <3>4, <2>4, <1>2, InvWritten
   <3>10. AllInv(q, taken, published)
    <4>1. Br!Stream(r) \in Seq(Nat)
      BY <1>2, StreamIs
    <4>2. /\ ToSet(Br!Stream(q)) \ {Br!Reply} = ToSet(Br!Stream(r)) \ {Br!Reply}
          /\ Br!Replies(Br!Stream(q)) = Br!Replies(Br!Stream(r)) + 1
      BY <4>1, <3>0, <3>4, Written
    <4>3. /\ ToSet(Br!Stream(r)) \ {Br!Reply} = {k \in r.since + 1..taken : published[k] = "good"}
          /\ Br!Replies(Br!Stream(r)) = r.run
      BY <2>4, <1>2 DEF AllInv
    <4>4. QED
      BY <4>2, <4>3, <3>3 DEF AllInv, m
   <3>11. x \in connections' <=> Talks(q)
     BY <3>3, <1>1, <1>2, <1>8 DEF Talks
   <3>12. q.run + Len(q.lines) <= q.sent /\ q.at # "none"
     BY <3>3, <2>1
   <3>13. ClientInv(x, q, connections', awaited, taken, published)
     BY <3>3, <3>8, <3>9, <3>10, <3>11, <3>12, <2>4, <1>2 DEF ClientInv
   <3>14. QED
     BY <3>13, <1>1, <1>8, OneClient DEF q
  <2>5. QED
    BY <2>3, <2>4, <1>3
 <1>9. QED
   BY <1>5, <1>7, <1>8

(* The client takes what was written first: its stream is what it was.     *)
LEMMA StreamKept ==
  ASSUME NEW g \in Seq(Nat), NEW o \in Seq(Nat), o # <<>>
  PROVE  /\ Append(g, Head(o)) \o Tail(o) = g \o o
         /\ Head(o) \in Nat /\ Head(o) = o[1] /\ 1 \in 1..Len(o) /\ Len(Tail(o)) = Len(o) - 1
         /\ Len(o) \in Nat /\ Len(g) \in Nat
         /\ Tail(o) \in Seq(Nat) /\ Append(g, Head(o)) \in Seq(Nat)
         /\ \A k \in 1..Len(Tail(o)) : k + 1 \in 1..Len(o) /\ Tail(o)[k] = o[k + 1]
         /\ Len(Append(g, Head(o))) = Len(g) + 1
         /\ \A k \in 1..Len(g) : Append(g, Head(o))[k] = g[k]
         /\ Append(g, Head(o))[Len(g) + 1] = o[1]
 <1> DEFINE a == Append(g, Head(o)) \o Tail(o)
            b == g \o o
 <1>1. /\ Head(o) \in Nat /\ Head(o) = o[1] /\ 1 \in 1..Len(o) /\ Len(Tail(o)) = Len(o) - 1
       /\ Len(o) \in Nat /\ Len(g) \in Nat
       /\ Tail(o) \in Seq(Nat) /\ Append(g, Head(o)) \in Seq(Nat)
       /\ \A k \in 1..Len(Tail(o)) : k + 1 \in 1..Len(o) /\ Tail(o)[k] = o[k + 1]
       /\ Len(Append(g, Head(o))) = Len(g) + 1
       /\ \A k \in 1..Len(g) : Append(g, Head(o))[k] = g[k]
       /\ Append(g, Head(o))[Len(g) + 1] = o[1]
   OBVIOUS
 <1>2. a \in Seq(Nat) /\ b \in Seq(Nat) /\ Len(a) = Len(b) /\ Len(a) = Len(g) + Len(o)
   BY <1>1
 <1>3. ASSUME NEW k \in 1..Len(a) PROVE a[k] = b[k]
  <2>1. CASE k <= Len(g)
    BY <2>1, <1>1, <1>2
  <2>2. CASE k = Len(g) + 1
    BY <2>2, <1>1, <1>2
  <2>3. CASE k > Len(g) + 1
    BY <2>3, <1>1, <1>2
  <2>4. QED
    BY <2>1, <2>2, <2>3, <1>1, <1>2
 <1> HIDE DEF a, b
 <1>4. a = b
   BY <1>2, <1>3, SeqEqual
 <1>5. QED
   BY <1>1, <1>4 DEF a, b

LEMMA FlushedStep ==
  ASSUME BroadcastInv, NEW x \in Viewer, Br!Flushed(x)
  PROVE  BroadcastInv'
 <1> DEFINE r == cBr[x]
            what == Head(r.out)
            t == Tail(r.out)
            g == Append(r.got, what)
            q == [r EXCEPT !.out = t, !.got = g, !.at = IF what = Br!Reply THEN "reading" ELSE @]
 <1>1. /\ r.out # <<>> /\ cBr' = [cBr EXCEPT ![x] = q]
       /\ awaited' = IF what = Br!Reply THEN awaited ELSE awaited \ {x}
       /\ UNCHANGED <<listening, connections, listener, published, taken>>
   BY DEF Br!Flushed
 <1>2. /\ r \in Streams /\ ClientInv(x, r, connections, awaited, taken, published)
       /\ taken \in Nat
       /\ (x \in connections <=> Talks(r)) /\ r.run + Len(r.lines) <= r.sent
       /\ r.sent <= MaxLines /\ r.since <= taken
       /\ \A k \in 1..Len(r.got) : r.got[k] <= taken
       /\ \A k \in 1..Len(r.out) : r.out[k] <= taken
       /\ OutInv(x, r, awaited, taken)
       /\ r.open /\ StreamInv(r, taken)
       /\ Talks(r) => AllInv(r, taken, published)
       /\ r.at # "none"
   BY <1>1, InvFactsBr DEF ClientInv
 <1>3. r.out \in Seq(Nat) /\ r.got \in Seq(Nat)
       /\ r.at \in {"none", "reading", "writing", "over"}
   BY <1>2, StreamTypes
 <1>4. /\ g \o t = r.got \o r.out
       /\ what \in Nat /\ what = r.out[1] /\ 1 \in 1..Len(r.out) /\ Len(t) = Len(r.out) - 1
       /\ Len(r.out) \in Nat /\ Len(r.got) \in Nat /\ t \in Seq(Nat) /\ g \in Seq(Nat)
       /\ \A k \in 1..Len(t) : k + 1 \in 1..Len(r.out) /\ t[k] = r.out[k + 1]
       /\ Len(g) = Len(r.got) + 1
       /\ \A k \in 1..Len(r.got) : g[k] = r.got[k]
       /\ g[Len(r.got) + 1] = r.out[1]
   BY <1>1, <1>3, StreamKept, ZenonT(30)
 <1> DEFINE s == IF what = Br!Reply THEN "reading" ELSE r.at
 <1>5. q = [r EXCEPT !.out = t, !.got = g, !.at = s]
       /\ s \in {"none", "reading", "writing", "over"}
   BY <1>2, <1>3
 <1>15. what = Br!Reply => r.at = "writing"
   BY <1>2, <1>4 DEF OutInv
 <1>16. s = "none" <=> r.at = "none"
   BY <1>15
 <1>17. s \in {"reading", "writing"} <=> r.at \in {"reading", "writing"}
   BY <1>15
 <1> HIDE DEF r, t, g, s
 <1>6. /\ q \in Streams /\ q.out = t /\ q.got = g /\ q.at = s /\ q.open = r.open
       /\ q.lines = r.lines
       /\ q.sent = r.sent /\ q.run = r.run /\ q.since = r.since
   BY <1>2, <1>4, <1>5 DEF Streams
 <1> HIDE DEF q
 <1>7. Br!Stream(q) = Br!Stream(r)
   BY <1>4, <1>6 DEF Br!Stream
 <1>8. Talks(q) <=> Talks(r)
   BY <1>6, <1>17 DEF Talks
 <1>9. \A k \in 1..Len(q.got) : q.got[k] <= taken
  <2> TAKE k \in 1..Len(q.got)
  <2>1. k \in 1..Len(r.got) \/ k = Len(r.got) + 1
    BY <1>4, <1>6
  <2>2. QED
    BY <2>1, <1>2, <1>4, <1>6
 <1>10. \A k \in 1..Len(q.out) : k + 1 \in 1..Len(r.out) /\ q.out[k] = r.out[k + 1]
              /\ k + 1 # 1 /\ k \in Int
   BY <1>4, <1>6, SMTT(30)
 <1>11. \A k \in 1..Len(q.out) : q.out[k] <= taken
   BY <1>2, <1>10
 <1>12. \A k \in 1..Len(q.out) : /\ q.out[k] = Br!Reply => what # Br!Reply
                                 /\ q.out[k] # Br!Reply => what = Br!Reply
  <2> TAKE k \in 1..Len(q.out)
  <2>1. k + 1 \in 1..Len(r.out) /\ q.out[k] = r.out[k + 1] /\ 1 \in 1..Len(r.out)
        /\ k + 1 # 1 /\ what = r.out[1]
    BY <1>4, <1>10
  <2>2. Br!Rises(Br!Stream(r))
    BY <1>2 DEF StreamInv
  <2>3. QED
    BY <2>1, <2>2, <1>2, OutIsShort
 <1>13. OutInv(x, q, awaited', taken)
  <2>1. \A k \in 1..Len(q.out) : q.out[k] = Br!Reply => q.at = "writing"
   <3> SUFFICES ASSUME NEW k \in 1..Len(q.out), q.out[k] = Br!Reply PROVE q.at = "writing"
     OBVIOUS
   <3>1. r.at = "writing"
     BY <1>2, <1>10 DEF OutInv
   <3>2. what # Br!Reply
     BY <1>12
   <3>3. QED
     BY <3>1, <3>2, <1>6 DEF s
  <2>2. \A k, l \in 1..Len(q.out) : q.out[k] = Br!Reply /\ q.out[l] = Br!Reply => k = l
   <3> SUFFICES ASSUME NEW k \in 1..Len(q.out), NEW l \in 1..Len(q.out), q.out[k] = Br!Reply,
                       q.out[l] = Br!Reply
                PROVE  k = l
     OBVIOUS
   <3>0. k + 1 \in 1..Len(r.out) /\ l + 1 \in 1..Len(r.out) /\ k \in Int /\ l \in Int
         /\ r.out[k + 1] = Br!Reply /\ r.out[l + 1] = Br!Reply
     BY <1>10
   <3>1. k + 1 = l + 1 /\ k \in Int /\ l \in Int
     BY <3>0, <1>2 DEF OutInv
   <3>2. QED
     BY <3>1
  <2>3. \A k \in 1..Len(q.out) : q.out[k] # Br!Reply => x \in awaited' /\ q.out[k] = taken
   <3> SUFFICES ASSUME NEW k \in 1..Len(q.out), q.out[k] # Br!Reply
                PROVE x \in awaited' /\ q.out[k] = taken
     OBVIOUS
   <3>1. x \in awaited /\ q.out[k] = taken
     BY <1>2, <1>10 DEF OutInv
   <3>2. what = Br!Reply
     BY <1>12
   <3>3. QED
     BY <3>1, <3>2, <1>1
  <2>4. QED
    BY <2>1, <2>2, <2>3 DEF OutInv
 <1>14. ClientInv(x, q, connections, awaited', taken, published)
  <2>1. StreamInv(q, taken)
    BY <1>2, <1>7 DEF StreamInv
  <2>2. Talks(q) => AllInv(q, taken, published)
    BY <1>2, <1>6, <1>7, <1>8 DEF AllInv
  <2>3. QED
    BY <2>1, <2>2, <1>2, <1>6, <1>8, <1>9, <1>11, <1>13, <1>16 DEF ClientInv
 <1>18. QED
   BY <1>1, <1>14, OneClient

LEMMA UpdateFailsStep ==
  ASSUME BroadcastInv, NEW x \in Viewer, Br!UpdateFails(x)
  PROVE  BroadcastInv'
 <1> DEFINE r == cBr[x]
 <1>1. /\ ~r.open /\ awaited' = awaited \ {x}
       /\ UNCHANGED <<listening, connections, cBr, listener, published, taken>>
   BY DEF Br!UpdateFails
 <1>2. r \in Streams /\ ClientInv(x, r, connections, awaited, taken, published) /\ r.out = <<>>
   BY <1>1, InvFactsBr DEF ClientInv
 <1> HIDE DEF r
 <1>3. OutInv(x, r, awaited', taken)
  <2>1. Len(r.out) = 0 /\ 1..0 = {}
    BY <1>2
  <2>2. QED
    BY <2>1 DEF OutInv
 <1>4. ClientInv(x, r, connections', awaited', taken, published)
   BY <1>1, <1>2, <1>3 DEF ClientInv
 <1>5. ASSUME NEW y \in Viewer
       PROVE ClientInv(y, cBr'[y], connections', awaited', taken', published')
  <2>1. CASE y = x
    BY <2>1, <1>1, <1>4 DEF r
  <2>2. CASE y # x
   <3>1. ClientInv(y, cBr[y], connections, awaited, taken, published)
     BY InvFactsBr
   <3>2. y \in awaited' <=> y \in awaited
     BY <2>2, <1>1
   <3>3. ClientInv(y, cBr[y], connections, awaited', taken, published)
     BY <3>1, <3>2 DEF ClientInv, OutInv
   <3>4. QED
     BY <3>3, <1>1
  <2>3. QED
    BY <2>1, <2>2
 <1>6. ClientsInv' /\ DOMAIN cBr' = Viewer
   BY <1>1, <1>5, InvFactsBr DEF ClientsInv
 <1>7. ListenerInv'
   BY <1>1 DEF BroadcastInv, ListenerInv
 <1>8. QED
   BY <1>6, <1>7 DEF BroadcastInv

LEMMA PublishStep ==
  ASSUME LineBounds, BroadcastInv, NEW kind \in Kinds, Br!Publish(kind)
  PROVE  BroadcastInv'
 <1>1. /\ Len(published) < MaxUpdates /\ published' = Append(published, kind)
       /\ UNCHANGED <<listening, connections, cBr, listener, awaited, taken>>
   BY DEF Br!Publish
 <1>2. published \in Seq(Kinds) /\ taken \in Nat /\ taken <= Len(published)
   BY InvFactsBr
 <1>3. /\ published' \in Seq(Kinds) /\ Len(published') = Len(published) + 1
       /\ Len(published) \in Nat
       /\ \A k \in 1..Len(published) : published'[k] = published[k]
   BY <1>1, <1>2
 <1>4. ASSUME NEW y \in Viewer
       PROVE ClientInv(y, cBr'[y], connections', awaited', taken', published')
  <2> DEFINE r == cBr[y]
  <2>1. r \in Streams /\ ClientInv(y, r, connections, awaited, taken, published)
    BY InvFactsBr
  <2>2. r.since \in Nat
    BY <2>1, StreamTypes
  <2> HIDE DEF r
  <2>3. \A k \in r.since + 1..taken : k \in 1..Len(published) /\ published'[k] = published[k]
    BY <2>2, <1>2, <1>3
  <2>4. {k \in r.since + 1..taken : published'[k] = "good"} = {k \in r.since + 1..taken : published[k] = "good"}
    BY <2>3
  <2>5. AllInv(r, taken, published) => AllInv(r, taken, published')
    BY <2>4 DEF AllInv
  <2>6. ClientInv(y, r, connections, awaited, taken, published')
    BY <2>1, <2>5 DEF ClientInv
  <2>7. QED
    BY <2>6, <1>1 DEF r
 <1>5. ClientsInv' /\ DOMAIN cBr' = Viewer
   BY <1>1, <1>4, InvFactsBr DEF ClientsInv
 <1>6. ListenerInv'
  <2>1. Len(published') <= MaxUpdates /\ taken <= Len(published')
    BY <1>1, <1>2, <1>3 DEF LineBounds
  <2>2. listener' = "failed" => taken' >= 1 /\ published'[taken'] = "bad"
   <3> SUFFICES ASSUME listener = "failed" PROVE taken >= 1 /\ published'[taken] = "bad"
     BY <1>1
   <3>1. taken >= 1 /\ published[taken] = "bad"
     BY DEF BroadcastInv, ListenerInv
   <3>2. taken \in 1..Len(published)
     BY <3>1, <1>2, <1>3
   <3>3. QED
     BY <3>1, <3>2, <1>3
  <2>3. QED
    BY <2>1, <2>2, <1>1, <1>3 DEF BroadcastInv, ListenerInv
 <1>7. QED
   BY <1>5, <1>6 DEF BroadcastInv

(* A good update that is written to a client. *)
LEMMA UpdateWritten ==
  ASSUME LineBounds, NEW x, NEW r, NEW listed, NEW waits, NEW waits2, NEW n \in Nat, NEW pub,
         ClientInv(x, r, listed, waits, n, pub), r.open, Talks(r), pub[n + 1] = "good",
         x \notin waits, x \in waits2
  PROVE  ClientInv(x, Br!Write(r, n + 1), listed, waits2, n + 1, pub)
 <1> DEFINE m == n + 1
            q == Br!Write(r, m)
 <1>1. /\ r \in Streams /\ (x \in listed <=> Talks(r)) /\ r.run + Len(r.lines) <= r.sent
       /\ r.sent <= MaxLines /\ r.since <= n /\ r.at # "none"
       /\ \A k \in 1..Len(r.got) : r.got[k] <= n
       /\ \A k \in 1..Len(r.out) : r.out[k] <= n
       /\ OutInv(x, r, waits, n) /\ StreamInv(r, n) /\ AllInv(r, n, pub)
   BY DEF ClientInv, Talks
 <1>2. r.out \in Seq(Nat) /\ Len(r.out) \in Nat /\ r.since \in Nat
       /\ \A k \in 1..Len(r.got) : r.got[k] \in Nat
   BY <1>1, StreamTypes
 <1>3. m \in Nat /\ n < m /\ m # Br!Reply
   BY DEF Br!Reply
 <1>4. /\ q \in Streams /\ q.out = Append(r.out, m)
       /\ q.at = r.at /\ q.open = r.open /\ q.lines = r.lines /\ q.sent = r.sent /\ q.run = r.run
       /\ q.since = r.since /\ q.got = r.got /\ Br!Stream(q) = Append(Br!Stream(r), m)
   BY <1>1, <1>3, WriteIs
 <1> HIDE DEF q
 <1>5. /\ Len(q.out) = Len(r.out) + 1 /\ q.out[Len(r.out) + 1] = m
       /\ \A k \in 1..Len(r.out) : q.out[k] = r.out[k]
   BY <1>2, <1>3, <1>4, Written
 <1>6. \A k \in 1..Len(r.out) : r.out[k] = Br!Reply
   BY <1>1 DEF OutInv
 <1>7. \A k \in 1..Len(q.out) : k \in 1..Len(r.out) \/ k = Len(r.out) + 1
   BY <1>2, <1>5
 <1>8. OutInv(x, q, waits2, m) /\ \A k \in 1..Len(q.out) : q.out[k] <= m
  <2>1. \A k \in 1..Len(q.out) : q.out[k] = Br!Reply => k \in 1..Len(r.out)
              /\ r.out[k] = Br!Reply
    BY <1>3, <1>5, <1>7
  <2>2. \A k \in 1..Len(q.out) : q.out[k] # Br!Reply => q.out[k] = m
    BY <1>5, <1>6, <1>7
  <2>3. \A k \in 1..Len(q.out) : q.out[k] <= m
    BY <2>2, <1>3 DEF Br!Reply
  <2>4. \A k \in 1..Len(q.out) : q.out[k] = Br!Reply => q.at = "writing"
    BY <2>1, <1>1, <1>4 DEF OutInv
  <2>5. \A k, l \in 1..Len(q.out) : q.out[k] = Br!Reply /\ q.out[l] = Br!Reply => k = l
    BY <2>1, <1>1 DEF OutInv
  <2>6. QED
    BY <2>2, <2>3, <2>4, <2>5 DEF OutInv
 <1>9. StreamInv(q, m)
  <2> HIDE DEF m
  <2>1. n <= m /\ m <= m
    BY <1>3
  <2>2. QED
    BY <2>1, <1>1, <1>3, <1>4, InvWritten
 <1>10. AllInv(q, m, pub)
  <2>1. Br!Stream(r) \in Seq(Nat)
    BY <1>1, StreamIs
  <2>2. ToSet(Br!Stream(q)) = ToSet(Br!Stream(r)) \cup {m}
        /\ Br!Replies(Br!Stream(q)) = Br!Replies(Br!Stream(r))
    BY <2>1, <1>3, <1>4, Written
  <2>3. /\ ToSet(Br!Stream(r)) \ {Br!Reply} = {k \in r.since + 1..n : pub[k] = "good"}
        /\ Br!Replies(Br!Stream(r)) = r.run
    BY <1>1 DEF AllInv
  <2>4. r.since + 1..m = (r.since + 1..n) \cup {m}
    BY <1>1, <1>2
  <2>5. {k \in r.since + 1..m : pub[k] = "good"} = {k \in r.since + 1..n : pub[k] = "good"}
              \cup {m}
    BY <2>4
  <2>6. ToSet(Br!Stream(q)) \ {Br!Reply} = (ToSet(Br!Stream(r)) \ {Br!Reply}) \cup {m}
    BY <2>2, <1>3
  <2>7. QED
    BY <2>2, <2>3, <2>5, <2>6, <1>4 DEF AllInv
 <1>11. \A k \in 1..Len(q.got) : q.got[k] <= m
  <2> SUFFICES ASSUME NEW k \in 1..Len(r.got) PROVE r.got[k] <= m
    BY <1>4
  <2>1. r.got[k] \in Nat /\ r.got[k] <= n
    BY <1>1, <1>2
  <2>2. QED
    BY <2>1, <1>3
 <1>12. q.since <= m /\ (Talks(q) <=> Talks(r))
   BY <1>1, <1>2, <1>4 DEF Talks
 <1> HIDE DEF m
 <1>13. ClientInv(x, q, listed, waits2, m, pub)
   BY <1>1, <1>4, <1>8, <1>9, <1>10, <1>11, <1>12 DEF ClientInv
 <1>14. QED
   BY <1>13 DEF q, m

(* An update that is not written to a client. *)
LEMMA UpdateApart ==
  ASSUME NEW x, NEW r, NEW listed, NEW waits, NEW waits2, NEW n \in Nat, NEW pub,
         ClientInv(x, r, listed, waits, n, pub), x \notin waits,
         ~r.open \/ ~Talks(r) \/ pub[n + 1] # "good"
  PROVE  ClientInv(x, r, listed, waits2, n + 1, pub)
 <1> DEFINE m == n + 1
 <1>1. /\ r \in Streams /\ r.since <= n
       /\ \A k \in 1..Len(r.got) : r.got[k] <= n
       /\ \A k \in 1..Len(r.out) : r.out[k] <= n
       /\ OutInv(x, r, waits, n) /\ (r.open => StreamInv(r, n))
       /\ r.open /\ Talks(r) => AllInv(r, n, pub)
   BY DEF ClientInv
 <1>2. /\ r.since \in Nat /\ \A k \in 1..Len(r.got) : r.got[k] \in Nat
       /\ \A k \in 1..Len(r.out) : r.out[k] \in Nat
   BY <1>1, StreamTypes
 <1>3. /\ r.since <= m /\ \A k \in 1..Len(r.got) : r.got[k] <= m
       /\ \A k \in 1..Len(r.out) : r.out[k] <= m
   BY <1>1, <1>2
 <1>4. OutInv(x, r, waits2, m)
   BY <1>1 DEF OutInv
 <1>5. r.open => StreamInv(r, m)
  <2>1. \A k \in 1..Len(Br!Stream(r)) : Br!Stream(r)[k] \in Nat
   <3>1. Br!Stream(r) \in Seq(Nat)
     BY <1>1, StreamIs
   <3>2. QED
     BY <3>1
  <2>2. QED
    BY <2>1, <1>1 DEF StreamInv
 <1>6. ASSUME r.open, Talks(r) PROVE AllInv(r, m, pub)
  <2>1. pub[m] # "good" /\ AllInv(r, n, pub)
    BY <1>1, <1>6
  <2>2. r.since + 1..m = (r.since + 1..n) \cup {m}
    BY <1>1, <1>2
  <2>3. {k \in r.since + 1..m : pub[k] = "good"} = {k \in r.since + 1..n : pub[k] = "good"}
    BY <2>1, <2>2
  <2>4. QED
    BY <2>1, <2>3 DEF AllInv
 <1> HIDE DEF m
 <1>7. ClientInv(x, r, listed, waits2, m, pub)
   BY <1>3, <1>4, <1>5, <1>6 DEF ClientInv
 <1>8. QED
   BY <1>7 DEF m

LEMMA TakeUpdateStep ==
  ASSUME LineBounds, BroadcastInv, Br!TakeUpdate
  PROVE  BroadcastInv'
 <1> DEFINE kind == published[taken + 1]
            wrote == {x \in connections : cBr[x].open}
 <1>1. /\ listener = "waiting" /\ taken < Len(published) /\ taken' = taken + 1
       /\ UNCHANGED <<listening, connections, published>>
       /\ IF kind = "bad" /\ connections # {}
          THEN listener' = "failed" /\ UNCHANGED <<cBr, awaited>>
          ELSE /\ cBr' = [x \in Viewer |-> IF x \in connections /\ kind = "good"
                                           THEN Br!Write(cBr[x], taken + 1) ELSE cBr[x]]
               /\ awaited' = IF kind = "good" THEN wrote ELSE {}
               /\ listener' = "updating"
   BY DEF Br!TakeUpdate, Br!Awaits
 <1>2. published \in Seq(Kinds) /\ taken \in Nat /\ taken <= Len(published)
       /\ DOMAIN cBr = Viewer
   BY InvFactsBr
 <1>3. awaited = {} /\ connections \subseteq Viewer
   BY <1>1 DEF BroadcastInv, ListenerInv
 <1>4. taken + 1 \in 1..Len(published) /\ taken' \in Nat /\ taken' <= Len(published)
       /\ taken' >= 1
   BY <1>1, <1>2
 <1>5. kind \in Kinds
   BY <1>2, <1>4
 <1>6. CASE kind = "bad" /\ connections # {}
  <2>1. /\ cBr' = cBr /\ awaited' = awaited /\ listener' = "failed" /\ kind # "good"
    BY <1>1, <1>6
  <2>2. ASSUME NEW y \in Viewer
        PROVE ClientInv(y, cBr'[y], connections', awaited', taken', published')
   <3>1. ClientInv(y, cBr[y], connections, awaited, taken, published)
     BY InvFactsBr
   <3> HIDE DEF wrote
   <3>2. ClientInv(y, cBr[y], connections, awaited, taken + 1, published)
     BY <3>1, <2>1, <1>2, <1>3, UpdateApart
   <3>3. QED
     BY <3>2, <2>1, <1>1
  <2>3. ListenerInv'
   <3>1. published'[taken'] = "bad"
     BY <1>1, <1>6
   <3>2. QED
     BY <3>1, <2>1, <1>1, <1>3, <1>4 DEF BroadcastInv, ListenerInv
  <2>4. QED
    BY <2>1, <2>2, <2>3, <1>2 DEF BroadcastInv, ClientsInv
 <1>7. CASE ~(kind = "bad" /\ connections # {})
  <2>1. /\ cBr' = [x \in Viewer |-> IF x \in connections /\ kind = "good"
                                    THEN Br!Write(cBr[x], taken + 1) ELSE cBr[x]]
        /\ awaited' = (IF kind = "good" THEN wrote ELSE {}) /\ listener' = "updating"
    BY <1>1, <1>7
  <2>2. ASSUME NEW y \in Viewer
        PROVE ClientInv(y, cBr'[y], connections', awaited', taken', published')
   <3> DEFINE r == cBr[y]
   <3>1. ClientInv(y, r, connections, awaited, taken, published)
         /\ (y \in connections <=> Talks(r))
     BY InvFactsBr DEF ClientInv
   <3>2. CASE y \in connections /\ kind = "good" /\ r.open
    <4>1. y \in awaited' /\ cBr'[y] = Br!Write(r, taken + 1) /\ Talks(r)
      BY <2>1, <3>1, <3>2
    <4>2. y \notin awaited /\ published[taken + 1] = "good"
      BY <1>3, <3>2
    <4> HIDE DEF r, kind, wrote
    <4>3. ClientInv(y, Br!Write(r, taken + 1), connections, awaited', taken + 1, published)
      BY <4>1, <4>2, <3>1, <3>2, <1>2, UpdateWritten
    <4>4. QED
      BY <4>1, <4>3, <1>1
   <3>3. CASE ~(y \in connections /\ kind = "good" /\ r.open)
    <4>1. cBr'[y] = r
     <5>1. CASE y \in connections /\ kind = "good"
      <6>1. ~r.open
        BY <3>3, <5>1
      <6>2. QED
        BY <6>1, <5>1, <2>1 DEF Br!Write
     <5>2. CASE ~(y \in connections /\ kind = "good")
       BY <5>2, <2>1
     <5>3. QED
       BY <5>1, <5>2
    <4>2. y \notin awaited /\ (~r.open \/ ~Talks(r) \/ published[taken + 1] # "good")
      BY <1>3, <3>1, <3>3
    <4> HIDE DEF r, kind, wrote
    <4>3. ClientInv(y, r, connections, awaited', taken + 1, published)
      BY <4>2, <3>1, <1>2, UpdateApart
    <4>4. QED
      BY <4>1, <4>3, <1>1
   <3>4. QED
     BY <3>2, <3>3
  <2>3. ListenerInv'
   <3>1. awaited' \subseteq Viewer
     BY <2>1, <1>3
   <3>2. QED
     BY <3>1, <2>1, <1>1, <1>4 DEF BroadcastInv, ListenerInv
  <2>4. QED
    BY <2>1, <2>2, <2>3 DEF BroadcastInv, ClientsInv
 <1>8. QED
   BY <1>6, <1>7

LEMMA BroadcastNext ==
  ASSUME LineBounds PROVE BroadcastInv /\ [Br!Next]_(Br!vars) => BroadcastInv'
 <1> SUFFICES ASSUME BroadcastInv, [Br!Next]_(Br!vars) PROVE BroadcastInv'
   OBVIOUS
 <1>1. ASSUME UNCHANGED <<connections, cBr, published, taken>>, awaited' = awaited,
              listening' \in BOOLEAN,
              listener' \in {"waiting", "updating", "failed", "ended"},
              listener' = "failed" => listener = "failed",
              awaited # {} => listener' = "updating"
       PROVE  BroadcastInv'
   BY <1>1 DEF BroadcastInv, ClientsInv, ListenerInv
 <1>2. CASE Br!Updated
  <2>1. /\ awaited = {} /\ listener' = "waiting"
        /\ UNCHANGED <<listening, connections, cBr, awaited, published, taken>>
    BY <1>2 DEF Br!Updated
  <2>2. listening \in BOOLEAN
    BY DEF BroadcastInv, ListenerInv
  <2>3. QED
    BY <2>1, <2>2, <1>1
 <1>3. CASE Br!ChannelCloses
  <2>1. /\ listener = "waiting" /\ listener' = "ended" /\ listening' \in {FALSE, listening}
        /\ UNCHANGED <<connections, cBr, awaited, published, taken>>
    BY <1>3 DEF Br!ChannelCloses
  <2>2. awaited = {} /\ listening \in BOOLEAN
    BY <2>1 DEF BroadcastInv, ListenerInv
  <2>3. QED
    BY <2>1, <2>2, <1>1
 <1>4. CASE UNCHANGED Br!vars
   BY <1>4 DEF Br!vars, BroadcastInv, ClientsInv, ListenerInv
 <1>5. QED
   BY <1>2, <1>3, <1>4, ConnectStep, ClientSendsStep, ClientClosesStep, ReadLineStep,
      ReadFailsStepBr,
      FlushedStep, ReplyFailsStep, UpdateFailsStep, PublishStep, TakeUpdateStep DEF Br!Next,
            Kinds

LEMMA BroadcastInit ==
  ASSUME LineBounds PROVE Br!Init => BroadcastInv
 <1> SUFFICES ASSUME Br!Init PROVE BroadcastInv
   OBVIOUS
 <1>1. /\ listening = TRUE /\ connections = {} /\ cBr = [x \in Viewer |-> Br!Connection]
       /\ listener = "waiting" /\ awaited = {} /\ published = <<>> /\ taken = 0
   BY DEF Br!Init
 <1> DEFINE r == Br!Connection
 <1>2. /\ r \in Streams /\ r.at = "none" /\ r.open = FALSE /\ r.lines = <<>> /\ r.sent = 0
       /\ r.run = 0
       /\ r.since = 0 /\ r.out = <<>> /\ r.got = <<>>
   BY DEF Br!Connection, Streams
 <1> HIDE DEF r
 <1>3. Len(<<>>) = 0 /\ 1..0 = {} /\ <<>> \in Seq(Kinds)
   OBVIOUS
 <1>4. OutInv(1, r, {}, 0)
   BY <1>2, <1>3 DEF OutInv
 <1>5. ASSUME NEW x \in Viewer PROVE ClientInv(x, r, {}, {}, 0, <<>>)
  <2>1. OutInv(x, r, {}, 0)
    BY <1>2, <1>3 DEF OutInv
  <2>2. ~Talks(r)
    BY <1>2 DEF Talks
  <2>3. r.run + Len(r.lines) <= r.sent /\ r.sent <= MaxLines /\ r.since <= 0
    BY <1>2, <1>3 DEF LineBounds
  <2>4. QED
    BY <2>1, <2>2, <2>3, <1>2, <1>3 DEF ClientInv
 <1>6. ClientsInv
   BY <1>1, <1>5 DEF ClientsInv, r
 <1>7. ListenerInv
   BY <1>1, <1>3 DEF ListenerInv, LineBounds
 <1>8. QED
   BY <1>1, <1>6, <1>7 DEF BroadcastInv

-----------------------------------------------------------------------------
(* What is claimed *)

LEMMA BroadcastClaims ==
  ASSUME LineBounds PROVE BroadcastInv => Br!TypeOK /\ Br!BroadcastSound
 <1> SUFFICES ASSUME BroadcastInv PROVE Br!TypeOK /\ Br!BroadcastSound
   OBVIOUS
 <1>1. Br!NothingMissed
  <2> SUFFICES ASSUME NEW x \in Viewer, cBr[x].open, cBr[x].at \in {"reading", "writing"}
               PROVE  /\ ToSet(Br!Stream(cBr[x])) \ {Br!Reply} = {n \in cBr[x].since + 1..taken : published[n] = "good"}
                      /\ Br!Rises(Br!Stream(cBr[x]))
                      /\ Br!Replies(Br!Stream(cBr[x])) = cBr[x].run
    BY SameToSetBr DEF Br!NothingMissed
  <2>1. StreamInv(cBr[x], taken) /\ AllInv(cBr[x], taken, published)
    BY InvFactsBr DEF ClientInv, Talks
  <2>2. QED
    BY <2>1 DEF StreamInv, AllInv
 <1>2. Br!BufferBounded
  <2> SUFFICES ASSUME NEW x \in Viewer
               PROVE  /\ Cardinality({k \in 1..Len(cBr[x].out) : cBr[x].out[k] # Br!Reply}) <= 1
                      /\ Cardinality({k \in 1..Len(cBr[x].out) : cBr[x].out[k] = Br!Reply}) <= 1
    BY SameCardinalityBr DEF Br!BufferBounded
  <2> DEFINE r == cBr[x]
             S == {k \in 1..Len(r.out) : r.out[k] # Br!Reply}
             T == {k \in 1..Len(r.out) : r.out[k] = Br!Reply}
  <2>1. /\ r \in Streams /\ OutInv(x, r, awaited, taken) /\ taken \in Nat
        /\ r.open => Br!Rises(Br!Stream(r))
        /\ ~r.open => r.out = <<>>
    BY InvFactsBr DEF ClientInv, StreamInv
  <2>2. Len(r.out) \in Nat
    BY <2>1, StreamTypes
  <2>3. IsFiniteSet(S) /\ IsFiniteSet(T)
   <3>1. IsFiniteSet(1..Len(r.out))
     BY <2>2, FS_Interval
   <3>2. S \subseteq 1..Len(r.out) /\ T \subseteq 1..Len(r.out)
     OBVIOUS
   <3>3. QED
     BY <3>1, <3>2, FS_Subset
  <2>4. r.open \/ 1..Len(r.out) = {}
    BY <2>1
  <2>5. \A k, l \in S : k = l
    BY <2>1, <2>4, OutIsShort
  <2>6. \A k, l \in T : k = l
    BY <2>1, <2>4, OutIsShort
  <2> HIDE DEF S, T
  <2>7. Cardinality(S) <= 1 /\ Cardinality(T) <= 1
    BY <2>3, <2>5, <2>6, AtMostOne
  <2>8. QED
    BY <2>7 DEF S, T
 <1>3. Br!ListenerLives
   BY DEF BroadcastInv, ListenerInv, Br!ListenerLives
 <1>4. taken \in 0..Len(published) /\ taken <= MaxUpdates /\ taken \in Nat
       /\ Len(published) \in Nat
   BY InvFactsBr DEF BroadcastInv, ListenerInv, LineBounds
 <1>5. ASSUME NEW x \in Viewer
       PROVE  /\ cBr[x].at \in {"none", "reading", "writing", "over"} /\ cBr[x].open \in BOOLEAN
              /\ cBr[x].run \in 0..MaxLines
              /\ ToSet(cBr[x].out) \cup ToSet(cBr[x].got) \subseteq 0..MaxUpdates
  <2> DEFINE r == cBr[x]
  <2>1. /\ r \in Streams /\ r.run + Len(r.lines) <= r.sent /\ r.sent <= MaxLines
        /\ \A k \in 1..Len(r.got) : r.got[k] <= taken
        /\ \A k \in 1..Len(r.out) : r.out[k] <= taken
    BY InvFactsBr DEF ClientInv
  <2>2. /\ r.at \in {"none", "reading", "writing", "over"} /\ r.open \in BOOLEAN
        /\ r.run \in Nat /\ r.sent \in Nat /\ Len(r.lines) \in Nat
        /\ r.out \in Seq(Nat) /\ r.got \in Seq(Nat)
    BY <2>1, StreamTypes
  <2> HIDE DEF r
  <2>3. r.run \in 0..MaxLines
    BY <2>1, <2>2 DEF LineBounds
  <2>4. \A s \in Seq(Nat) : (\A k \in 1..Len(s) : s[k] <= taken)
              => ToSet(s) \subseteq 0..MaxUpdates
   <3> SUFFICES ASSUME NEW s \in Seq(Nat), \A k \in 1..Len(s) : s[k] <= taken,
                       NEW k \in DOMAIN s
                PROVE  s[k] \in 0..MaxUpdates
     BY DEF ToSet
   <3>1. s[k] <= taken /\ s[k] \in Nat
     OBVIOUS
   <3>2. QED
     BY <3>1, <1>4 DEF LineBounds
  <2>5. ToSet(r.out) \subseteq 0..MaxUpdates /\ ToSet(r.got) \subseteq 0..MaxUpdates
    BY <2>1, <2>2, <2>4
  <2>6. QED
    BY <2>2, <2>3, <2>5 DEF r
 <1>6. ToSet(published) \subseteq {"good", "bad"}
  <2>1. published \in Seq(Kinds)
    BY InvFactsBr
  <2>2. QED
    BY <2>1 DEF ToSet, Kinds
 <1>7. Br!TypeOK
   BY <1>4, <1>5, <1>6, SameToSetBr DEF BroadcastInv, ListenerInv, Br!TypeOK
 <1>8. QED
   BY <1>1, <1>2, <1>3, <1>7 DEF Br!BroadcastSound

(* Connected clients get every good update since they came, in order, and  *)
(* a reply to each command, and nothing piles up; only a bad update ends   *)
(* the listener (Server.py).                                               *)
THEOREM UpdatesArrive == LineBounds => (Br!Spec => [](Br!TypeOK /\ Br!BroadcastSound))
 <1> SUFFICES ASSUME LineBounds PROVE Br!Spec => [](Br!TypeOK /\ Br!BroadcastSound)
   OBVIOUS
 <1>1. Br!Init => BroadcastInv
   BY BroadcastInit
 <1>2. BroadcastInv /\ [Br!Next]_(Br!vars) => BroadcastInv'
   BY BroadcastNext
 <1>3. BroadcastInv => Br!TypeOK /\ Br!BroadcastSound
   BY BroadcastClaims
 <1>4. QED
   BY <1>1, <1>2, <1>3, PTL DEF Br!Spec

HIDE DEF listening, connections, cBr, listener, awaited, published, taken

-----------------------------------------------------------------------------
(* The loop that polls                                                     *)

Lo == INSTANCE EventLoop WITH
       Callback <- CallbackLo, Fd <- FdLo, MaxTime <- MaxTimeLo, MaxGen <- MaxGenLo,
       pc <- v1, running <- v2, stopped <- v3, callbacks <- v4, batch <- v5,
       heap <- v6, deadline <- v7, dead <- v8, due <- v9, cancellations <- v10,
       handlers <- v11, events <- v12, waker <- v13, wait <- v14, now <- v15,
       closing <- v16, adder <- v17

(* Its variables. *)
pc == v1
runningLo == v2
stopped == v3
callbacks == v4
batch == v5
heap == v6
deadlineLo == v7
dead == v8
due == v9
cancellations == v10
handlersLo == v11
events == v12
waker == v13
wait == v14
nowLo == v15
closingLo == v16
adder == v17

USE DEF pc, runningLo, stopped, callbacks, batch, heap, deadlineLo, dead, due,
        cancellations, handlersLo, events, waker, wait, nowLo, closingLo, adder

LEMMA SameCardinalityLo == \A S : Lo!Cardinality(S) = Cardinality(S)
  BY DEF Lo!Cardinality, Cardinality

PollBounds == MaxTimeLo \in Nat /\ MaxGenLo \in Nat

Apart(ws) == \A i, j \in DOMAIN ws : ws[i] = ws[j] => i = j
Ordered(ws, f) == \A i, j \in DOMAIN ws : i < j => f[ws[i]] <= f[ws[j]]
DeadPlaces(ws) == {i \in DOMAIN ws : ws[i] \in dead}

TimersSound ==
  /\ Apart(heap) /\ Ordered(heap, deadlineLo)
  /\ \A i \in DOMAIN heap : deadlineLo[heap[i]] # -1
  /\ \A t \in dead : deadlineLo[t] # -1
  /\ Lo!Cardinality(DeadPlaces(heap)) <= cancellations

EventsSound ==
  \A e \in events : e.fd # 0 => e.fd \in FdLo /\ e.gen # 0 /\ e.gen = handlersLo[e.fd]

PollSound ==
  /\ runningLo
  /\ wait = 0 \/ heap = <<>> \/ wait = deadlineLo[heap[1]]
  /\ callbacks # <<>> => (wait = 0 \/ waker \/ adder.at = "appended")

AdderSound ==
  /\ adder \in [at : {"idle", "checked", "appended", "raised"}, cb : CallbackLo \cup {0}]
  /\ adder.at = "checked" => adder.cb \in CallbackLo

LoopInv ==
  /\ Lo!TypeOK /\ AdderSound /\ TimersSound /\ EventsSound
  /\ pc \notin {"callbacks", "callback"} => batch = 0
  /\ pc # "out" => ~closingLo
  /\ pc = "poll" => PollSound

-----------------------------------------------------------------------------
(* The heap *)

LEMMA KeptTimers == \A ws, S : Lo!Kept(ws, S) = Selected(ws, S)
  BY DEF Lo!Kept, Selected, Lo!Cardinality, Cardinality

(* The timers of ws that are in S, in the same order. *)
Picked(vs, ws, S, f) ==
  /\ Apart(vs)
  /\ \A k \in DOMAIN vs : vs[k] \in S /\ \E i \in DOMAIN ws : ws[i] = vs[k]
  /\ \A i \in DOMAIN ws : ws[i] \in S => \E k \in DOMAIN vs : vs[k] = ws[i]
  /\ Ordered(ws, f) => Ordered(vs, f)

LEMMA TimersPicked ==
  ASSUME NEW ws \in Seq(Timer), Apart(ws), NEW S, NEW f
  PROVE  Lo!Kept(ws, S) \in Seq(Timer) /\ Picked(Lo!Kept(ws, S), ws, S, f)
 <1> DEFINE vs == Lo!Kept(ws, S)
 <1>1. vs = Selected(ws, S)
   BY KeptTimers
 <1> HIDE DEF vs
 <1>2. vs \in Seq(Timer) /\ vs \in Seq(S)
   BY <1>1, SelectedHas
 <1>3. /\ \A i \in DOMAIN ws : ws[i] \in S => \E k \in DOMAIN vs : vs[k] = ws[i]
       /\ \A k \in DOMAIN vs : \E i \in DOMAIN ws : ws[i] \in S /\ vs[k] = ws[i]
   BY <1>1, SelectedMembers
 <1>4. Apart(vs)
   BY <1>1, SelectedApart DEF Apart
 <1>5. \A k, l \in DOMAIN vs : k < l =>
          \E i, j \in DOMAIN ws : i < j /\ vs[k] = ws[i] /\ vs[l] = ws[j]
   BY <1>1, SelectedOrder
 <1>6. Ordered(ws, f) => Ordered(vs, f)
   BY <1>5 DEF Ordered
 <1>7. Picked(vs, ws, S, f)
   BY <1>3, <1>4, <1>6 DEF Picked
 <1>8. QED
   BY <1>2, <1>7 DEF vs

(* A timer between two sequences. *)
Between(r, a, t, b, m, n) ==
  /\ DOMAIN a = 1..m /\ DOMAIN b = 1..n /\ DOMAIN r = 1..m + 1 + n
  /\ \A k \in 1..m + 1 + n : \/ k \in 1..m /\ r[k] = a[k]
                             \/ k = m + 1 /\ r[k] = t
                             \/ k > m + 1 /\ k - (m + 1) \in 1..n /\ r[k] = b[k - (m + 1)]
  /\ \A i \in 1..m : r[i] = a[i]
  /\ r[m + 1] = t
  /\ \A i \in 1..n : r[m + 1 + i] = b[i]

LEMMA TimerBetween ==
  ASSUME NEW a \in Seq(Timer), NEW b \in Seq(Timer), NEW t \in Timer, NEW r, r = a \o <<t>> \o b
  PROVE  /\ r \in Seq(Timer) /\ Len(a) \in Nat /\ Len(b) \in Nat
         /\ Between(r, a, t, b, Len(a), Len(b))
 <1>1. Len(a) \in Nat /\ Len(b) \in Nat /\ DOMAIN a = 1..Len(a) /\ DOMAIN b = 1..Len(b)
   OBVIOUS
 <1> DEFINE p == a \o <<t>>
 <1>2. p \in Seq(Timer) /\ Len(p) = Len(a) + 1 /\ p[Len(a) + 1] = t
       /\ \A i \in 1..Len(a) : p[i] = a[i]
   OBVIOUS
 <1>3. r = p \o b
   OBVIOUS
 <1> HIDE DEF p
 <1>4. r \in Seq(Timer) /\ Len(r) = Len(a) + 1 + Len(b) /\ DOMAIN r = 1..Len(a) + 1 + Len(b)
   BY <1>1, <1>2, <1>3
 <1>5. \A k \in 1..Len(a) + 1 : r[k] = p[k]
   BY <1>1, <1>2, <1>3
 <1>6. \A i \in 1..Len(b) : r[Len(a) + 1 + i] = b[i]
   BY <1>1, <1>2, <1>3
 <1>7. \A i \in 1..Len(a) : r[i] = a[i]
   BY <1>1, <1>2, <1>5
 <1>8. r[Len(a) + 1] = t
   BY <1>1, <1>2, <1>5
 <1>9. ASSUME NEW k \in 1..Len(a) + 1 + Len(b)
       PROVE  \/ k \in 1..Len(a) /\ r[k] = a[k]
              \/ k = Len(a) + 1 /\ r[k] = t
              \/ /\ k > Len(a) + 1 /\ k - (Len(a) + 1) \in 1..Len(b)
                 /\ r[k] = b[k - (Len(a) + 1)]
  <2>1. CASE k \in 1..Len(a)
    BY <1>7, <2>1
  <2>2. CASE k = Len(a) + 1
    BY <1>8, <2>2
  <2>3. CASE k > Len(a) + 1
   <3>1. k - (Len(a) + 1) \in 1..Len(b) /\ Len(a) + 1 + (k - (Len(a) + 1)) = k
     BY <1>1, <2>3
   <3>2. QED
     BY <1>6, <2>3, <3>1
  <2>4. QED
    BY <1>1, <2>1, <2>2, <2>3
 <1>10. QED
   BY <1>1, <1>4, <1>6, <1>7, <1>8, <1>9 DEF Between

(* A new timer goes after those that are not due later. *)
Pushed(r, hp, t, g) ==
  /\ Apart(r) /\ Ordered(r, g)
  /\ \A k \in DOMAIN r : r[k] = t \/ \E i \in DOMAIN hp : hp[i] = r[k]
  /\ \E k \in DOMAIN r : r[k] = t
  /\ \A i \in DOMAIN hp : \E k \in DOMAIN r : r[k] = hp[i]

LEMMA PushedBetween ==
  ASSUME NEW hp \in Seq(Timer), NEW f \in [Timer -> Int], Ordered(hp, f),
         NEW t \in Timer, \A i \in DOMAIN hp : hp[i] # t, NEW d \in Int,
         NEW g, g = [f EXCEPT ![t] = d],
         NEW E, NEW L, \A u \in E : u \in Timer /\ f[u] <= d, \A u \in L : u \in Timer /\ f[u] > d,
         \A u \in Timer : u \in E \/ u \in L,
         NEW a, NEW b, Picked(a, hp, E, f), Picked(b, hp, L, f),
         NEW m \in Nat, NEW n \in Nat, NEW r, Between(r, a, t, b, m, n)
  PROVE  Pushed(r, hp, t, g)
 <1>1. /\ DOMAIN a = 1..m /\ DOMAIN b = 1..n /\ DOMAIN r = 1..m + 1 + n
       /\ \A i \in 1..m : r[i] = a[i]
       /\ r[m + 1] = t
       /\ \A i \in 1..n : r[m + 1 + i] = b[i]
   BY DEF Between
 <1>2. ASSUME NEW k \in 1..m + 1 + n
       PROVE  \/ k \in 1..m /\ r[k] = a[k]
              \/ k = m + 1 /\ r[k] = t
              \/ k > m + 1 /\ k - (m + 1) \in 1..n /\ r[k] = b[k - (m + 1)]
   BY DEF Between
 <1>3. /\ \A i \in 1..m : a[i] \in Timer /\ a[i] # t /\ f[a[i]] <= d /\ \E j \in DOMAIN hp : hp[j] = a[i]
       /\ \A i \in 1..n : b[i] \in Timer /\ b[i] # t /\ f[b[i]] > d /\ \E j \in DOMAIN hp : hp[j] = b[i]
  <2>1. \A i \in 1..m : a[i] \in E /\ \E j \in DOMAIN hp : hp[j] = a[i]
    BY <1>1 DEF Picked
  <2>2. \A i \in 1..n : b[i] \in L /\ \E j \in DOMAIN hp : hp[j] = b[i]
    BY <1>1 DEF Picked
  <2>3. QED
    BY <2>1, <2>2
 <1>4. g[t] = d /\ \A u \in Timer : u # t => g[u] = f[u]
   OBVIOUS
 <1>5. /\ \A k \in 1..m : g[a[k]] = f[a[k]] /\ f[a[k]] \in Int /\ f[a[k]] <= d
       /\ \A k \in 1..n : g[b[k]] = f[b[k]] /\ f[b[k]] \in Int /\ d < f[b[k]]
   BY <1>3, <1>4
 <1>6. /\ \A i, j \in 1..m : (a[i] = a[j] => i = j) /\ (i < j => f[a[i]] <= f[a[j]])
       /\ \A i, j \in 1..n : (b[i] = b[j] => i = j) /\ (i < j => f[b[i]] <= f[b[j]])
   BY <1>1 DEF Picked, Apart, Ordered
 <1>7. ASSUME NEW i \in 1..m + 1 + n, NEW j \in 1..m + 1 + n, i < j
       PROVE  r[i] # r[j] /\ g[r[i]] <= g[r[j]]
  <2> DEFINE i1 == i - (m + 1)
             j1 == j - (m + 1)
  <2>1. CASE i \in 1..m /\ r[i] = a[i]
   <3>1. CASE j \in 1..m /\ r[j] = a[j]
     BY <1>5, <1>6, <1>7, <2>1, <3>1
   <3>2. CASE j = m + 1 /\ r[j] = t
     BY <1>3, <1>4, <1>5, <2>1, <3>2
   <3>3. CASE j > m + 1 /\ j1 \in 1..n /\ r[j] = b[j1]
    <4> HIDE DEF j1
    <4>1. g[a[i]] = f[a[i]] /\ f[a[i]] \in Int /\ f[a[i]] <= d
          /\ g[b[j1]] = f[b[j1]] /\ f[b[j1]] \in Int /\ d < f[b[j1]]
      BY <1>5, <2>1, <3>3
    <4>2. g[a[i]] <= g[b[j1]] /\ g[a[i]] # g[b[j1]]
      BY <4>1
    <4>3. QED
      BY <2>1, <3>3, <4>2
   <3>4. QED
     BY <1>2, <3>1, <3>2, <3>3
  <2>2. CASE i = m + 1 /\ r[i] = t
   <3>1. j > m + 1
     BY <1>7, <2>2
   <3>2. j1 \in 1..n /\ r[j] = b[j1]
     BY <1>2, <3>1
   <3> HIDE DEF j1
   <3>3. QED
     BY <1>3, <1>4, <1>5, <2>2, <3>2
  <2>3. CASE i > m + 1 /\ i1 \in 1..n /\ r[i] = b[i1]
   <3>1. j > m + 1 /\ i1 < j1
     BY <1>7, <2>3
   <3>2. j1 \in 1..n /\ r[j] = b[j1]
     BY <1>2, <3>1
   <3>3. i1 # j1
     BY <3>1, <2>3, <3>2
   <3> HIDE DEF i1, j1
   <3>4. QED
     BY <1>5, <1>6, <2>3, <3>1, <3>2, <3>3
  <2>4. QED
    BY <1>2, <2>1, <2>2, <2>3
 <1>8. Apart(r)
  <2> SUFFICES ASSUME NEW i \in DOMAIN r, NEW j \in DOMAIN r, r[i] = r[j] PROVE i = j
    BY DEF Apart
  <2>1. ~(i < j) /\ ~(j < i) /\ i \in Int /\ j \in Int
    BY <1>1, <1>7
  <2>2. QED
    BY <2>1
 <1>9. Ordered(r, g)
   BY <1>1, <1>7 DEF Ordered
 <1>10. \A k \in DOMAIN r : r[k] = t \/ \E i \in DOMAIN hp : hp[i] = r[k]
  <2> SUFFICES ASSUME NEW k \in 1..m + 1 + n PROVE r[k] = t \/ \E i \in DOMAIN hp : hp[i] = r[k]
    BY <1>1
  <2>1. CASE k \in 1..m /\ r[k] = a[k]
    BY <1>3, <2>1
  <2>2. CASE k - (m + 1) \in 1..n /\ r[k] = b[k - (m + 1)]
    BY <1>3, <2>2
  <2>3. QED
    BY <1>2, <2>1, <2>2
 <1>11. \E k \in DOMAIN r : r[k] = t
   BY <1>1
 <1>12. ASSUME NEW i \in DOMAIN hp PROVE \E k \in DOMAIN r : r[k] = hp[i]
  <2>1. hp[i] \in Timer
    OBVIOUS
  <2>2. CASE hp[i] \in E
   <3>1. PICK k \in 1..m : a[k] = hp[i]
     BY <1>1, <2>2 DEF Picked
   <3>2. k \in DOMAIN r
     BY <1>1
   <3>3. QED
     BY <1>1, <3>1, <3>2
  <2>3. CASE hp[i] \in L
   <3>1. PICK k \in 1..n : b[k] = hp[i]
     BY <1>1, <2>3 DEF Picked
   <3>2. m + 1 + k \in DOMAIN r
     BY <1>1
   <3>3. QED
     BY <1>1, <3>1, <3>2
  <2>4. QED
    BY <2>1, <2>2, <2>3
 <1>13. QED
   BY <1>8, <1>9, <1>10, <1>11, <1>12 DEF Pushed

LEMMA TimerPushed ==
  ASSUME NEW hp \in Seq(Timer), Apart(hp), NEW f \in [Timer -> Int], Ordered(hp, f),
         NEW t \in Timer, \A i \in DOMAIN hp : hp[i] # t, NEW d \in Int, NEW r,
         r = Lo!Kept(hp, {u \in Timer : f[u] <= d}) \o <<t>> \o Lo!Kept(hp, {u \in Timer : f[u] > d})
  PROVE  r \in Seq(Timer) /\ Pushed(r, hp, t, [f EXCEPT ![t] = d])
 <1> DEFINE E == {u \in Timer : f[u] <= d}
            L == {u \in Timer : f[u] > d}
            a == Lo!Kept(hp, E)
            b == Lo!Kept(hp, L)
            g == [f EXCEPT ![t] = d]
 <1>1. /\ \A u \in E : u \in Timer /\ f[u] <= d
       /\ \A u \in L : u \in Timer /\ f[u] > d
       /\ \A u \in Timer : u \in E \/ u \in L
   OBVIOUS
 <1>2. r = a \o <<t>> \o b
   OBVIOUS
 <1>3. g = [f EXCEPT ![t] = d]
   OBVIOUS
 <1> HIDE DEF E, L, g
 <1>4. a \in Seq(Timer) /\ Picked(a, hp, E, f)
   BY TimersPicked
 <1>5. b \in Seq(Timer) /\ Picked(b, hp, L, f)
   BY TimersPicked
 <1> HIDE DEF a, b
 <1>6. r \in Seq(Timer) /\ Len(a) \in Nat /\ Len(b) \in Nat
       /\ Between(r, a, t, b, Len(a), Len(b))
   BY <1>2, <1>4, <1>5, TimerBetween
 <1>7. Pushed(r, hp, t, g)
   BY <1>1, <1>3, <1>4, <1>5, <1>6, PushedBetween
 <1>8. QED
   BY <1>6, <1>7 DEF g

(* The dead timers of a heap, as timers. *)
LEMMA DeadCounted ==
  ASSUME NEW T, NEW ws \in Seq(T), Apart(ws), NEW S
  PROVE  /\ IsFiniteSet(Held(ws, Len(ws), S)) /\ Lo!Cardinality(Held(ws, Len(ws), S)) \in Nat
         /\ Lo!Cardinality({i \in DOMAIN ws : ws[i] \in S}) = Lo!Cardinality(Held(ws, Len(ws), S))
         /\ \A x : x \in Held(ws, Len(ws), S) <=> x \in S /\ \E i \in DOMAIN ws : ws[i] = x
 <1>1. Len(ws) \in 0..Len(ws) /\ DOMAIN ws = 1..Len(ws)
   OBVIOUS
 <1>2. /\ IsFiniteSet(Held(ws, Len(ws), S)) /\ Lo!Cardinality(Held(ws, Len(ws), S)) \in Nat
       /\ Lo!Cardinality({i \in 1..Len(ws) : ws[i] \in S}) = Lo!Cardinality(Held(ws, Len(ws), S))
   BY <1>1, HeldCounted, SameCardinalityLo DEF Apart
 <1>3. \A x : x \in Held(ws, Len(ws), S) <=> x \in S /\ \E i \in 1..Len(ws) : ws[i] = x
   BY DEF Held
 <1>4. QED
   BY <1>1, <1>2, <1>3

(* There is a last place that is ripe. *)
LEMMA RipeIs ==
  ASSUME Lo!TypeOK
  PROVE  /\ Lo!Ripe \in 0..Len(heap)
         /\ Lo!Ripe < Len(heap) => heap[Lo!Ripe + 1] \notin dead /\ deadlineLo[heap[Lo!Ripe + 1]] > nowLo
 <1> DEFINE Goes(i) == heap[i] \in dead \/ deadlineLo[heap[i]] <= nowLo
            Here(n) == /\ \A i \in 1..n : heap[i] \in dead \/ deadlineLo[heap[i]] <= nowLo
                       /\ n < Len(heap) => heap[n + 1] \notin dead /\ deadlineLo[heap[n + 1]] > nowLo
            Late == {i \in 1..Len(heap) : ~Goes(i)}
 <1>1. heap \in Seq(Timer) /\ Len(heap) \in Nat /\ deadlineLo \in [Timer -> -1..MaxTimeLo] /\ nowLo \in Int
       /\ \A i \in 1..Len(heap) : deadlineLo[heap[i]] \in Int
   BY DEF Lo!TypeOK
 <1>2. \E n \in 0..Len(heap) : Here(n)
  <2>1. CASE Late = {}
   <3>1. \A i \in 1..Len(heap) : Goes(i)
     BY <2>1
   <3>2. Here(Len(heap)) /\ Len(heap) \in 0..Len(heap)
     BY <1>1, <3>1
   <3>3. QED
     BY <3>2
  <2>2. CASE Late # {}
   <3>1. Late \in SUBSET Nat
     OBVIOUS
   <3>2. PICK m \in Late : \A k \in Late : m <= k
     BY <2>2, <3>1, LeastNatural
   <3>3. m \in 1..Len(heap) /\ ~Goes(m)
     OBVIOUS
   <3>4. \A i \in 1..m - 1 : Goes(i)
    <4> SUFFICES ASSUME NEW i \in 1..m - 1, ~Goes(i) PROVE FALSE
      OBVIOUS
    <4>1. i \in Late
      BY <1>1, <3>3
    <4>2. m <= i
      BY <3>2, <4>1
    <4>3. QED
      BY <1>1, <3>3, <4>2
   <3>5. m - 1 \in 0..Len(heap) /\ (m - 1) + 1 = m
     BY <1>1, <3>3
   <3>6. heap[m] \notin dead /\ deadlineLo[heap[m]] > nowLo
     BY <1>1, <3>3
   <3>7. Here(m - 1)
     BY <3>4, <3>5, <3>6
   <3>8. QED
     BY <3>5, <3>7
  <2>3. QED
    BY <2>1, <2>2
 <1>3. Lo!Ripe = CHOOSE n \in 0..Len(heap) : Here(n)
   BY DEF Lo!Ripe
 <1> HIDE DEF Here
 <1>4. Lo!Ripe \in 0..Len(heap) /\ Here(Lo!Ripe)
   BY <1>2, <1>3
 <1>5. QED
   BY <1>4 DEF Here

-----------------------------------------------------------------------------
(* What code on the loop's thread does *)

InCode == pc \in {"out", "callback", "handler"}

LEMMA CallbackAdded ==
  ASSUME PollBounds, LoopInv, InCode, Lo!AddCallback, UNCHANGED <<nowLo, closingLo, adder>>, UNCHANGED Lo!loopVars
  PROVE  LoopInv'
 <1>1. PICK c \in CallbackLo : callbacks' = Append(callbacks, c)
   BY DEF Lo!AddCallback
 <1>2. /\ UNCHANGED <<runningLo, stopped, waker, nowLo, closingLo, adder, pc, batch, due, wait>>
       /\ UNCHANGED <<heap, deadlineLo, dead, cancellations, handlersLo, events>>
   BY DEF Lo!AddCallback, Lo!timerVars, Lo!fdVars, Lo!loopVars
 <1>3. callbacks \in Seq(CallbackLo) /\ batch \in 0..Len(callbacks)
   BY DEF LoopInv, Lo!TypeOK
 <1>4. callbacks' \in Seq(CallbackLo) /\ batch' \in 0..Len(callbacks')
   BY <1>1, <1>2, <1>3
 <1>5. Lo!TypeOK'
   BY <1>2, <1>4 DEF LoopInv, Lo!TypeOK
 <1>6. QED
   BY <1>2, <1>5 DEF LoopInv, AdderSound, TimersSound, DeadPlaces, EventsSound, PollSound, InCode

LEMMA TimerCalled ==
  ASSUME PollBounds, LoopInv, InCode, Lo!CallAt, UNCHANGED <<nowLo, closingLo, adder>>, UNCHANGED Lo!loopVars
  PROVE  LoopInv'
 <1>1. /\ UNCHANGED <<runningLo, stopped, waker, callbacks, dead, cancellations, nowLo, closingLo, adder>>
       /\ UNCHANGED <<pc, batch, due, wait, handlersLo, events>>
   BY DEF Lo!CallAt, Lo!fdVars, Lo!loopVars
 <1>2. PICK t \in Timer, d \in 0..MaxTimeLo :
         /\ deadlineLo[t] = -1
         /\ deadlineLo' = [deadlineLo EXCEPT ![t] = d]
         /\ heap' = Lo!Kept(heap, {u \in Timer : deadlineLo[u] <= d}) \o <<t>>
                      \o Lo!Kept(heap, {u \in Timer : deadlineLo[u] > d})
   BY DEF Lo!CallAt
 <1>3. /\ heap \in Seq(Timer) /\ Apart(heap) /\ Ordered(heap, deadlineLo)
       /\ \A i \in DOMAIN heap : deadlineLo[heap[i]] # -1
       /\ \A s \in dead : deadlineLo[s] # -1
       /\ Lo!Cardinality(DeadPlaces(heap)) <= cancellations
       /\ dead \subseteq Timer
   BY DEF LoopInv, Lo!TypeOK, TimersSound
 <1>4. deadlineLo \in [Timer -> -1..MaxTimeLo] /\ deadlineLo \in [Timer -> Int] /\ d \in Int /\ d # -1
   BY DEF LoopInv, Lo!TypeOK, PollBounds
 <1>5. \A i \in DOMAIN heap : heap[i] # t
   BY <1>2, <1>3
 <1>6. heap' \in Seq(Timer) /\ Pushed(heap', heap, t, deadlineLo')
   BY <1>2, <1>3, <1>4, <1>5, TimerPushed
 <1>7. deadlineLo' \in [Timer -> -1..MaxTimeLo]
   BY <1>2, <1>4 DEF PollBounds
 <1>8. Lo!TypeOK'
   BY <1>1, <1>6, <1>7 DEF LoopInv, Lo!TypeOK
 <1>9. \A s \in Timer : deadlineLo[s] # -1 => deadlineLo'[s] # -1
   BY <1>2, <1>4
 <1>10. deadlineLo'[t] # -1
   BY <1>2, <1>4
 <1>11. TimersSound'
  <2>1. Apart(heap') /\ Ordered(heap', deadlineLo')
    BY <1>6 DEF Pushed
  <2>2. \A i \in DOMAIN heap' : deadlineLo'[heap'[i]] # -1
   <3> SUFFICES ASSUME NEW i \in DOMAIN heap' PROVE deadlineLo'[heap'[i]] # -1
     OBVIOUS
   <3>1. heap'[i] = t \/ \E j \in DOMAIN heap : heap[j] = heap'[i]
     BY <1>6 DEF Pushed
   <3>2. ASSUME NEW j \in DOMAIN heap PROVE deadlineLo'[heap[j]] # -1
    <4>1. heap[j] \in Timer
      BY <1>3
    <4>2. QED
      BY <1>3, <1>9, <4>1
   <3>3. QED
     BY <1>10, <3>1, <3>2
  <2>3. \A s \in dead' : deadlineLo'[s] # -1
    BY <1>1, <1>3, <1>9
  <2>4. Lo!Cardinality(DeadPlaces(heap)') <= cancellations'
   <3> DEFINE D == {i \in DOMAIN heap : heap[i] \in dead}
              D1 == {i \in DOMAIN heap' : heap'[i] \in dead}
              h == Held(heap, Len(heap), dead)
              h1 == Held(heap', Len(heap'), dead)
   <3>1. Lo!Cardinality(D) = Lo!Cardinality(h) /\ \A x : x \in h <=> x \in dead /\ \E i \in DOMAIN heap : heap[i] = x
    <4> HIDE DEF h
    <4>1. QED
      BY <1>3, DeadCounted DEF h
   <3>2. Lo!Cardinality(D1) = Lo!Cardinality(h1) /\ \A x : x \in h1 <=> x \in dead /\ \E i \in DOMAIN heap' : heap'[i] = x
    <4> HIDE DEF h1
    <4>1. QED
      BY <1>6, <2>1, DeadCounted DEF h1
   <3>3. t \notin dead
     BY <1>2, <1>3
   <3>4. DeadPlaces(heap) = D /\ DeadPlaces(heap)' = D1
     BY <1>1 DEF DeadPlaces
   <3> HIDE DEF D, D1, h, h1
   <3>5. h = h1
    <4>1. ASSUME NEW x \in h PROVE x \in h1
      BY <1>6, <3>1, <3>2 DEF Pushed
    <4>2. ASSUME NEW x \in h1 PROVE x \in h
     <5>1. PICK k \in DOMAIN heap' : heap'[k] = x
       BY <3>2
     <5>2. x \in dead /\ x # t
       BY <3>2, <3>3
     <5>3. \E i \in DOMAIN heap : heap[i] = x
       BY <1>6, <5>1, <5>2 DEF Pushed
     <5>4. QED
       BY <3>1, <5>2, <5>3
    <4>3. QED
      BY <4>1, <4>2
   <3>6. QED
     BY <1>1, <1>3, <3>1, <3>2, <3>4, <3>5
  <2>5. QED
    BY <2>1, <2>2, <2>3, <2>4 DEF TimersSound
 <1>12. QED
   BY <1>1, <1>8, <1>11 DEF LoopInv, AdderSound, EventsSound, PollSound, InCode

LEMMA TimerCancelled ==
  ASSUME PollBounds, LoopInv, InCode, Lo!RemoveTimeout, UNCHANGED <<nowLo, closingLo, adder>>, UNCHANGED Lo!loopVars
  PROVE  LoopInv'
 <1>1. /\ UNCHANGED <<runningLo, stopped, waker, callbacks, heap, deadlineLo, nowLo, closingLo, adder>>
       /\ UNCHANGED <<pc, batch, due, wait, handlersLo, events>>
   BY DEF Lo!RemoveTimeout, Lo!fdVars, Lo!loopVars
 <1>2. PICK t \in Timer : /\ deadlineLo[t] # -1 /\ t \notin dead
                          /\ dead' = dead \cup {t}
                          /\ cancellations' = cancellations + 1
   BY DEF Lo!RemoveTimeout
 <1>3. /\ heap \in Seq(Timer) /\ Apart(heap) /\ cancellations \in Nat
       /\ Lo!Cardinality(DeadPlaces(heap)) <= cancellations
   BY DEF LoopInv, Lo!TypeOK, TimersSound
 <1>4. Lo!Cardinality(DeadPlaces(heap)') <= cancellations'
  <2> DEFINE h == Held(heap, Len(heap), dead)
             h1 == Held(heap, Len(heap), dead')
  <2>1. /\ IsFiniteSet(h) /\ Lo!Cardinality(h) \in Nat
        /\ Lo!Cardinality({i \in DOMAIN heap : heap[i] \in dead}) = Lo!Cardinality(h)
        /\ \A x : x \in h <=> x \in dead /\ \E i \in DOMAIN heap : heap[i] = x
   <3> HIDE DEF h
   <3>1. QED
     BY <1>3, DeadCounted DEF h
  <2>2. /\ IsFiniteSet(h1) /\ Lo!Cardinality(h1) \in Nat
        /\ Lo!Cardinality({i \in DOMAIN heap : heap[i] \in dead'}) = Lo!Cardinality(h1)
        /\ \A x : x \in h1 <=> x \in dead' /\ \E i \in DOMAIN heap : heap[i] = x
   <3> HIDE DEF h1
   <3>1. QED
     BY <1>3, DeadCounted DEF h1
  <2>3. DeadPlaces(heap)' = {i \in DOMAIN heap : heap[i] \in dead'}
    BY <1>1 DEF DeadPlaces
  <2> HIDE DEF h, h1
  <2>4. h1 \subseteq h \cup {t}
    BY <1>2, <2>1, <2>2
  <2>5. IsFiniteSet(h \cup {t}) /\ Lo!Cardinality(h \cup {t}) \in Nat
        /\ Lo!Cardinality(h \cup {t}) <= Lo!Cardinality(h) + 1
   <3>1. IsFiniteSet(h \cup {t}) /\ Lo!Cardinality(h \cup {t})
           = IF t \in h THEN Lo!Cardinality(h) ELSE Lo!Cardinality(h) + 1
     BY <2>1, FS_AddElement, SameCardinalityLo
   <3>2. QED
     BY <2>1, <3>1
  <2>6. Lo!Cardinality(h1) <= Lo!Cardinality(h \cup {t})
    BY <2>4, <2>5, FS_Subset, SameCardinalityLo
  <2>7. Lo!Cardinality(h) <= cancellations
    BY <1>3, <2>1 DEF DeadPlaces
  <2>8. QED
    BY <1>2, <1>3, <2>1, <2>2, <2>3, <2>5, <2>6, <2>7
 <1>5. TimersSound'
   BY <1>1, <1>2, <1>4 DEF LoopInv, TimersSound
 <1>6. Lo!TypeOK'
   BY <1>1, <1>2 DEF LoopInv, Lo!TypeOK
 <1>7. QED
   BY <1>1, <1>5, <1>6 DEF LoopInv, AdderSound, EventsSound, PollSound, InCode

LEMMA FdAdded ==
  ASSUME PollBounds, LoopInv, InCode, Lo!AddHandler, UNCHANGED <<nowLo, closingLo, adder>>, UNCHANGED Lo!loopVars
  PROVE  LoopInv'
 <1>1. /\ UNCHANGED <<runningLo, stopped, waker, callbacks, events, nowLo, closingLo, adder>>
       /\ UNCHANGED <<pc, batch, due, wait, heap, deadlineLo, dead, cancellations>>
   BY DEF Lo!AddHandler, Lo!timerVars, Lo!loopVars
 <1>2. PICK f \in FdLo, g \in Lo!Unused : handlersLo[f] = 0 /\ handlersLo' = [handlersLo EXCEPT ![f] = g]
   BY DEF Lo!AddHandler
 <1>3. g \in 0..MaxGenLo
   BY DEF Lo!Unused, PollBounds
 <1>4. Lo!TypeOK'
   BY <1>1, <1>2, <1>3 DEF LoopInv, Lo!TypeOK
 <1>5. EventsSound'
  <2> SUFFICES ASSUME NEW e \in events, e.fd # 0
               PROVE  e.fd \in FdLo /\ e.gen # 0 /\ e.gen = handlersLo'[e.fd]
    BY <1>1 DEF EventsSound
  <2>1. e.fd \in FdLo /\ e.gen # 0 /\ e.gen = handlersLo[e.fd]
    BY DEF LoopInv, EventsSound
  <2>2. e.fd # f
    BY <1>2, <2>1
  <2>3. QED
    BY <1>2, <2>1, <2>2 DEF LoopInv, Lo!TypeOK
 <1>6. QED
   BY <1>1, <1>4, <1>5 DEF LoopInv, AdderSound, TimersSound, DeadPlaces, PollSound, InCode

LEMMA FdRemoved ==
  ASSUME PollBounds, LoopInv, InCode, Lo!RemoveHandler, UNCHANGED <<nowLo, closingLo, adder>>, UNCHANGED Lo!loopVars
  PROVE  LoopInv'
 <1>1. /\ UNCHANGED <<runningLo, stopped, waker, callbacks, nowLo, closingLo, adder>>
       /\ UNCHANGED <<pc, batch, due, wait, heap, deadlineLo, dead, cancellations>>
   BY DEF Lo!RemoveHandler, Lo!timerVars, Lo!loopVars
 <1>2. PICK f \in FdLo : handlersLo' = [handlersLo EXCEPT ![f] = 0] /\ events' = {e \in events : e.fd # f}
   BY DEF Lo!RemoveHandler
 <1>3. Lo!TypeOK'
   BY <1>1, <1>2 DEF LoopInv, Lo!TypeOK, PollBounds
 <1>4. EventsSound'
  <2> SUFFICES ASSUME NEW e \in events', e.fd # 0
               PROVE  e.fd \in FdLo /\ e.gen # 0 /\ e.gen = handlersLo'[e.fd]
    BY DEF EventsSound
  <2>1. e.fd \in FdLo /\ e.gen # 0 /\ e.gen = handlersLo[e.fd] /\ e.fd # f
    BY <1>2 DEF LoopInv, EventsSound
  <2>2. QED
    BY <1>2, <2>1 DEF LoopInv, Lo!TypeOK
 <1>5. QED
   BY <1>1, <1>3, <1>4 DEF LoopInv, AdderSound, TimersSound, DeadPlaces, PollSound, InCode

LEMMA LoopStopped ==
  ASSUME PollBounds, LoopInv, InCode, Lo!Stop, UNCHANGED <<nowLo, closingLo, adder>>, UNCHANGED Lo!loopVars
  PROVE  LoopInv'
 <1>1. /\ runningLo' = FALSE /\ stopped' = TRUE /\ waker' = TRUE
       /\ UNCHANGED <<callbacks, nowLo, closingLo, adder, pc, batch, due, wait>>
       /\ UNCHANGED <<heap, deadlineLo, dead, cancellations, handlersLo, events>>
   BY DEF Lo!Stop, Lo!timerVars, Lo!fdVars, Lo!loopVars
 <1>2. Lo!TypeOK'
   BY <1>1 DEF LoopInv, Lo!TypeOK
 <1>3. QED
   BY <1>1, <1>2 DEF LoopInv, AdderSound, TimersSound, DeadPlaces, EventsSound, PollSound, InCode

LEMMA CodeRuns ==
  ASSUME PollBounds, LoopInv, InCode, Lo!Code, UNCHANGED <<nowLo, closingLo, adder>>, UNCHANGED Lo!loopVars
  PROVE  LoopInv'
  BY CallbackAdded, TimerCalled, TimerCancelled, FdAdded, FdRemoved, LoopStopped DEF Lo!Code

-----------------------------------------------------------------------------
(* start(), the threads, and the invariant *)

LEMMA LoopStarts ==
  ASSUME PollBounds, LoopInv, Lo!Outside \/ Lo!RunCode \/ Lo!Start \/ Lo!Return
  PROVE  LoopInv'
 <1>1. CASE Lo!Outside
   BY <1>1, CodeRuns DEF Lo!Outside, InCode
 <1>2. CASE Lo!RunCode
   BY <1>2, CodeRuns DEF Lo!RunCode, InCode
 <1>3. CASE Lo!Start \/ Lo!Return
  <2>1. /\ UNCHANGED <<callbacks, batch, due, waker, wait, nowLo, closingLo, adder>>
        /\ UNCHANGED <<heap, deadlineLo, dead, cancellations, handlersLo, events>>
    BY <1>3 DEF Lo!Start, Lo!Return, Lo!timerVars, Lo!fdVars
  <2>2. Lo!TypeOK'
    BY <1>3, <2>1 DEF LoopInv, Lo!TypeOK, Lo!Start, Lo!Return
  <2>3. AdderSound' /\ TimersSound' /\ EventsSound'
    BY <2>1 DEF LoopInv, AdderSound, TimersSound, DeadPlaces, EventsSound
  <2>4. /\ (pc \notin {"callbacks", "callback"} => batch = 0)'
        /\ (pc # "out" => ~closingLo)'
        /\ pc' # "poll"
    BY <1>3, <2>1 DEF LoopInv, Lo!Start, Lo!Return
  <2>5. QED
    BY <2>2, <2>3, <2>4 DEF LoopInv
 <1>4. QED
   BY <1>1, <1>2, <1>3

(* The dead timers at the front are taken off the count, the rest stays.   *)
LEMMA HeapCut ==
  ASSUME LoopInv, NEW n \in 0..Len(heap), NEW rest, rest = SubSeq(heap, n + 1, Len(heap)),
         NEW c, c = cancellations - Lo!Cardinality({i \in 1..n : heap[i] \in dead})
  PROVE  /\ rest \in Seq(Timer) /\ Apart(rest) /\ Ordered(rest, deadlineLo)
         /\ \A i \in DOMAIN rest : deadlineLo[rest[i]] # -1
         /\ c \in Nat /\ Lo!Cardinality(DeadPlaces(rest)) <= c
 <1>1. /\ heap \in Seq(Timer) /\ Apart(heap) /\ Ordered(heap, deadlineLo) /\ cancellations \in Nat
       /\ \A i \in DOMAIN heap : deadlineLo[heap[i]] # -1
       /\ Lo!Cardinality(DeadPlaces(heap)) <= cancellations
       /\ Len(heap) \in Nat /\ DOMAIN heap = 1..Len(heap) /\ n \in Int /\ n >= 0 /\ n <= Len(heap)
   BY DEF LoopInv, Lo!TypeOK, TimersSound
 <1>2. /\ rest \in Seq(Timer) /\ DOMAIN rest = 1..Len(heap) - n
       /\ \A i \in 1..Len(heap) - n : rest[i] = heap[i + n]
   BY <1>1, FromPlace
 <1>3. \A i \in 1..Len(heap) - n : i + n \in DOMAIN heap
   BY <1>1
 <1>4. Apart(rest)
  <2> SUFFICES ASSUME NEW i \in 1..Len(heap) - n, NEW j \in 1..Len(heap) - n, rest[i] = rest[j] PROVE i = j
    BY <1>2 DEF Apart
  <2>1. i + n = j + n
    BY <1>1, <1>2, <1>3 DEF Apart
  <2>2. QED
    BY <1>1, <2>1
 <1>5. Ordered(rest, deadlineLo)
  <2> SUFFICES ASSUME NEW i \in 1..Len(heap) - n, NEW j \in 1..Len(heap) - n, i < j
               PROVE  deadlineLo[rest[i]] <= deadlineLo[rest[j]]
    BY <1>2 DEF Ordered
  <2>1. i + n < j + n
    BY <1>1
  <2>2. QED
    BY <1>1, <1>2, <1>3, <2>1 DEF Ordered
 <1>6. \A i \in DOMAIN rest : deadlineLo[rest[i]] # -1
   BY <1>1, <1>2, <1>3
 <1> DEFINE h == Held(heap, Len(heap), dead)
            h1 == Held(heap, n, dead)
            h2 == Held(rest, Len(rest), dead)
 <1>7. /\ IsFiniteSet(h) /\ Lo!Cardinality(h) \in Nat
       /\ Lo!Cardinality({i \in DOMAIN heap : heap[i] \in dead}) = Lo!Cardinality(h)
       /\ \A x : x \in h <=> x \in dead /\ \E i \in DOMAIN heap : heap[i] = x
  <2> HIDE DEF h
  <2>1. QED
    BY <1>1, DeadCounted DEF h
 <1>8. /\ IsFiniteSet(h1) /\ Lo!Cardinality(h1) \in Nat
       /\ Lo!Cardinality({i \in 1..n : heap[i] \in dead}) = Lo!Cardinality(h1)
       /\ \A x : x \in h1 <=> x \in dead /\ \E i \in 1..n : heap[i] = x
  <2>1. \A x : x \in h1 <=> x \in dead /\ \E i \in 1..n : heap[i] = x
    BY DEF Held
  <2> HIDE DEF h1
  <2>2. QED
    BY <1>1, <2>1, HeldCounted, SameCardinalityLo DEF h1, Apart
 <1>9. /\ IsFiniteSet(h2) /\ Lo!Cardinality(h2) \in Nat
       /\ Lo!Cardinality({i \in DOMAIN rest : rest[i] \in dead}) = Lo!Cardinality(h2)
       /\ \A x : x \in h2 <=> x \in dead /\ \E i \in DOMAIN rest : rest[i] = x
  <2> HIDE DEF h2
  <2>1. rest \in Seq(Timer) /\ Apart(rest)
    BY <1>2, <1>4
  <2>2. QED
    BY ONLY <2>1, DeadCounted DEF h2
 <1> HIDE DEF h, h1, h2
 <1>10. h1 \cap h2 = {}
  <2> SUFFICES ASSUME NEW x \in h1, x \in h2 PROVE FALSE
    OBVIOUS
  <2>1. PICK i \in 1..n : heap[i] = x
    BY <1>8
  <2>2. PICK j \in 1..Len(heap) - n : rest[j] = x
    BY <1>2, <1>9
  <2>3. heap[j + n] = x /\ i \in DOMAIN heap /\ j + n \in DOMAIN heap
    BY <1>1, <1>2, <1>3, <2>2
  <2>4. i = j + n
    BY <1>1, <2>1, <2>3 DEF Apart
  <2>5. QED
    BY <1>1, <2>4
 <1>11. h1 \cup h2 \subseteq h
  <2>1. ASSUME NEW x \in h1 PROVE x \in h
   <3>1. PICK i \in 1..n : heap[i] = x
     BY <1>8
   <3>2. i \in DOMAIN heap
     BY <1>1
   <3>3. QED
     BY <1>7, <1>8, <3>1, <3>2
  <2>2. ASSUME NEW x \in h2 PROVE x \in h
   <3>1. PICK j \in 1..Len(heap) - n : rest[j] = x
     BY <1>2, <1>9
   <3>2. heap[j + n] = x /\ j + n \in DOMAIN heap
     BY <1>2, <1>3, <3>1
   <3>3. QED
     BY <1>7, <1>9, <3>2
  <2>3. QED
    BY <2>1, <2>2
 <1>12. Lo!Cardinality(h1 \cup h2) = Lo!Cardinality(h1) + Lo!Cardinality(h2)
  <2>1. IsFiniteSet({}) /\ Lo!Cardinality({}) = 0
    BY FS_EmptySet, SameCardinalityLo
  <2>2. Lo!Cardinality(h1 \cup h2) = Lo!Cardinality(h1) + Lo!Cardinality(h2) - Lo!Cardinality(h1 \cap h2)
    BY <1>8, <1>9, FS_Union, SameCardinalityLo
  <2>3. Lo!Cardinality(h1 \cap h2) = 0
    BY <1>10, <2>1, Zenon
  <2>4. QED
    BY <1>8, <1>9, <2>2, <2>3
 <1>13. Lo!Cardinality(h1 \cup h2) <= Lo!Cardinality(h)
   BY <1>7, <1>11, FS_Subset, SameCardinalityLo
 <1>14. Lo!Cardinality(h) <= cancellations
   BY <1>1, <1>7 DEF DeadPlaces
 <1>15. c \in Nat /\ Lo!Cardinality(h2) <= c
   BY <1>1, <1>7, <1>8, <1>9, <1>12, <1>13, <1>14
 <1>16. Lo!Cardinality(DeadPlaces(rest)) <= c
   BY <1>9, <1>15 DEF DeadPlaces
 <1>17. QED
   BY <1>2, <1>4, <1>5, <1>6, <1>15, <1>16

LEMMA WorkGathered ==
  ASSUME PollBounds, LoopInv, Lo!Gather
  PROVE  LoopInv'
 <1> DEFINE front == SubSeq(heap, 1, Lo!Ripe)
            rest == SubSeq(heap, Lo!Ripe + 1, Len(heap))
            c == cancellations - Lo!Cardinality({i \in 1..Lo!Ripe : heap[i] \in dead})
 <1>1. /\ pc = "gather" /\ pc' = "callbacks" /\ batch' = Len(callbacks)
       /\ due' = Lo!Kept(front, Timer \ dead)
       /\ \/ cancellations' = 0 /\ heap' = Lo!Kept(rest, Timer \ dead)
          \/ cancellations' = c /\ heap' = rest
       /\ UNCHANGED <<runningLo, stopped, callbacks, deadlineLo, dead, waker, wait, nowLo, closingLo, adder>>
       /\ UNCHANGED <<handlersLo, events>>
   BY DEF Lo!Gather, Lo!fdVars
 <1>2. Lo!Ripe \in 0..Len(heap) /\ heap \in Seq(Timer) /\ Len(heap) \in Nat /\ Apart(heap)
   BY RipeIs DEF LoopInv, Lo!TypeOK, TimersSound
 <1>3. front \in Seq(Timer) /\ Apart(front)
  <2>1. Lo!Ripe \in Int /\ 0 <= Lo!Ripe /\ Lo!Ripe <= Len(heap)
    BY <1>2
  <2>2. front \in Seq(Timer) /\ DOMAIN front = 1..Lo!Ripe /\ \A i \in 1..Lo!Ripe : front[i] = heap[i]
    BY <1>2, <2>1
  <2>3. QED
    BY <1>2, <2>1, <2>2 DEF Apart
 <1>4. /\ rest \in Seq(Timer) /\ Apart(rest) /\ Ordered(rest, deadlineLo)
       /\ \A i \in DOMAIN rest : deadlineLo[rest[i]] # -1
       /\ c \in Nat /\ Lo!Cardinality(DeadPlaces(rest)) <= c
  <2> HIDE DEF rest, c
  <2>1. QED
    BY <1>2, HeapCut DEF rest, c
 <1> DEFINE alive == Timer \ dead
            stay == Lo!Kept(rest, alive)
 <1>5. Lo!Kept(front, alive) \in Seq(Timer)
  <2> HIDE DEF front, alive
  <2>1. QED
    BY <1>3, TimersPicked
 <1>6. stay \in Seq(Timer) /\ Picked(stay, rest, alive, deadlineLo)
  <2> HIDE DEF rest, alive
  <2>1. QED
    BY <1>4, TimersPicked
 <1>7. \A u \in alive : u \notin dead
   OBVIOUS
 <1>8. \/ cancellations' = 0 /\ heap' = stay
       \/ cancellations' = c /\ heap' = rest
   BY <1>1
 <1>9. due' \in Seq(Timer)
   BY <1>1, <1>5
 <1> HIDE DEF front, rest, c, alive, stay
 <1>10. /\ Apart(stay) /\ Ordered(stay, deadlineLo)
        /\ \A i \in DOMAIN stay : deadlineLo[stay[i]] # -1
        /\ DeadPlaces(stay) = {}
   BY <1>4, <1>6, <1>7 DEF Picked, DeadPlaces
 <1>11. heap' \in Seq(Timer) /\ cancellations' \in Nat
   BY <1>4, <1>6, <1>8
 <1>12. Lo!TypeOK'
  <2>1. callbacks \in Seq(CallbackLo)
    BY DEF LoopInv, Lo!TypeOK
  <2>2. batch' \in 0..Len(callbacks')
    BY <1>1, <2>1
  <2>3. QED
    BY <1>1, <1>9, <1>11, <2>2 DEF LoopInv, Lo!TypeOK
 <1>13. TimersSound'
  <2>1. Lo!Cardinality({}) = 0
    BY FS_EmptySet, SameCardinalityLo
  <2>2. DeadPlaces(heap)' = {i \in DOMAIN heap' : heap'[i] \in dead}
    BY <1>1 DEF DeadPlaces
  <2>3. \A t \in dead' : deadlineLo'[t] # -1
    BY <1>1 DEF LoopInv, TimersSound
  <2>4. CASE cancellations' = 0 /\ heap' = stay
   <3>1. Lo!Cardinality(DeadPlaces(heap)') <= cancellations'
     BY <1>10, <2>1, <2>2, <2>4 DEF DeadPlaces
   <3>2. QED
     BY <1>1, <1>10, <2>3, <2>4, <3>1 DEF TimersSound
  <2>5. CASE cancellations' = c /\ heap' = rest
   <3>1. Lo!Cardinality(DeadPlaces(heap)') <= cancellations'
     BY <1>4, <2>2, <2>5 DEF DeadPlaces
   <3>2. QED
     BY <1>1, <1>4, <2>3, <2>5, <3>1 DEF TimersSound
  <2>6. QED
    BY <1>8, <2>4, <2>5
 <1>14. AdderSound' /\ EventsSound'
   BY <1>1 DEF LoopInv, AdderSound, EventsSound
 <1>15. QED
   BY <1>1, <1>12, <1>13, <1>14 DEF LoopInv

LEMMA WorkRuns ==
  ASSUME PollBounds, LoopInv, Lo!PopCallback \/ Lo!PopTimeout \/ Lo!Choose
  PROVE  LoopInv'
 <1>1. /\ UNCHANGED <<runningLo, waker, nowLo, closingLo, adder>>
       /\ UNCHANGED <<heap, deadlineLo, dead, cancellations, handlersLo, events>>
   BY DEF Lo!PopCallback, Lo!PopTimeout, Lo!Choose, Lo!timerVars, Lo!fdVars
 <1>2. AdderSound' /\ TimersSound' /\ EventsSound'
   BY <1>1 DEF LoopInv, AdderSound, TimersSound, DeadPlaces, EventsSound
 <1>3. callbacks \in Seq(CallbackLo) /\ batch \in 0..Len(callbacks) /\ due \in Seq(Timer)
   BY DEF LoopInv, Lo!TypeOK
 <1>4. CASE Lo!PopCallback
  <2>1. batch > 0 /\ callbacks' = Tail(callbacks) /\ batch' = batch - 1 /\ pc' = "callback"
        /\ pc = "callbacks" /\ UNCHANGED <<stopped, due, wait>>
    BY <1>4 DEF Lo!PopCallback
  <2>2. callbacks' \in Seq(CallbackLo) /\ batch' \in 0..Len(callbacks')
    BY <1>3, <2>1
  <2>3. Lo!TypeOK'
    BY <1>1, <2>1, <2>2 DEF LoopInv, Lo!TypeOK
  <2>4. QED
    BY <1>1, <1>2, <2>1, <2>3 DEF LoopInv
 <1>5. CASE Lo!PopTimeout
  <2>1. due # <<>> /\ due' = Tail(due) /\ pc' \in {"callbacks", "callback"} /\ pc = "callbacks"
        /\ UNCHANGED <<stopped, callbacks, batch, wait>>
    BY <1>5 DEF Lo!PopTimeout
  <2>2. due' \in Seq(Timer)
    BY <1>3, <2>1
  <2>3. Lo!TypeOK'
    BY <1>1, <2>1, <2>2 DEF LoopInv, Lo!TypeOK
  <2>4. QED
    BY <1>1, <1>2, <2>1, <2>3 DEF LoopInv
 <1>6. CASE Lo!Choose
  <2>1. /\ pc = "callbacks" /\ batch = 0 /\ UNCHANGED <<callbacks, batch, due>>
        /\ wait' = IF callbacks # <<>> THEN 0 ELSE IF heap # <<>> THEN deadlineLo[heap[1]] ELSE -1
        /\ \/ runningLo /\ pc' = "poll" /\ UNCHANGED stopped
           \/ pc' = "out" /\ stopped' = FALSE
    BY <1>6 DEF Lo!Choose
  <2>2. heap # <<>> => heap[1] \in Timer
    BY DEF LoopInv, Lo!TypeOK
  <2>3. heap # <<>> => deadlineLo[heap[1]] \in -1..MaxTimeLo
    BY <2>2 DEF LoopInv, Lo!TypeOK
  <2>4. wait' \in -1..MaxTimeLo
    BY <2>1, <2>3 DEF PollBounds
  <2>5. Lo!TypeOK'
    BY <1>1, <2>1, <2>4 DEF LoopInv, Lo!TypeOK
  <2>6. pc' = "poll" => PollSound'
    BY <1>1, <2>1 DEF PollSound
  <2>7. QED
    BY <1>1, <1>2, <2>1, <2>5, <2>6 DEF LoopInv
 <1>7. QED
   BY <1>4, <1>5, <1>6

LEMMA EventsPolled ==
  ASSUME PollBounds, LoopInv, Lo!Poll \/ Lo!PollInterrupted \/ Lo!PopEvent \/ Lo!NextIteration
  PROVE  LoopInv'
 <1>1. /\ UNCHANGED <<runningLo, stopped, callbacks, batch, due, wait, nowLo, closingLo, adder>>
       /\ UNCHANGED <<heap, deadlineLo, dead, cancellations, handlersLo>>
       /\ pc \in {"poll", "events"} /\ pc' \in {"events", "gather", "handler"}
   BY DEF Lo!Poll, Lo!PollInterrupted, Lo!PopEvent, Lo!NextIteration, Lo!timerVars, Lo!fdVars
 <1>2. AdderSound' /\ TimersSound'
   BY <1>1 DEF LoopInv, AdderSound, TimersSound, DeadPlaces
 <1>3. waker' \in BOOLEAN
   BY DEF LoopInv, Lo!TypeOK, Lo!Poll, Lo!PollInterrupted, Lo!PopEvent, Lo!NextIteration
 <1>4. Lo!TypeOK'
   BY <1>1, <1>3 DEF LoopInv, Lo!TypeOK
 <1>5. EventsSound'
  <2>1. CASE Lo!Poll
   <3>1. PICK polled \in SUBSET {f \in FdLo : handlersLo[f] # 0} :
           events' = {[fd |-> f, gen |-> handlersLo[f]] : f \in polled}
                     \cup (IF waker THEN {[fd |-> 0, gen |-> 0]} ELSE {})
     BY <2>1 DEF Lo!Poll
   <3>2. \A e \in events' : e.fd # 0 => \E f \in polled : e.fd = f /\ e.gen = handlersLo[f]
     BY <3>1
   <3>3. QED
     BY <1>1, <3>2 DEF EventsSound
  <2>2. CASE Lo!PollInterrupted \/ Lo!PopEvent \/ Lo!NextIteration
   <3>1. events' \subseteq events
     BY <2>2 DEF Lo!PollInterrupted, Lo!PopEvent, Lo!NextIteration, Lo!fdVars
   <3>2. QED
     BY <1>1, <3>1 DEF LoopInv, EventsSound
  <2>3. QED
    BY <2>1, <2>2
 <1>6. QED
   BY <1>1, <1>2, <1>4, <1>5 DEF LoopInv

LEMMA ThreadsAdd ==
  ASSUME PollBounds, LoopInv, Lo!ThreadChecks \/ Lo!ThreadAppends \/ Lo!ThreadWakes \/ Lo!Tick
  PROVE  LoopInv'
 <1>1. /\ UNCHANGED <<runningLo, stopped, closingLo, pc, batch, due, wait>>
       /\ UNCHANGED <<heap, deadlineLo, dead, cancellations, handlersLo, events>>
   BY DEF Lo!ThreadChecks, Lo!ThreadAppends, Lo!ThreadWakes, Lo!Tick, Lo!timerVars, Lo!fdVars,
      Lo!loopVars
 <1>2. TimersSound' /\ EventsSound'
   BY <1>1 DEF LoopInv, TimersSound, DeadPlaces, EventsSound
 <1>3. callbacks \in Seq(CallbackLo) /\ batch \in 0..Len(callbacks)
   BY DEF LoopInv, Lo!TypeOK
 <1>4. /\ adder \in [at : {"idle", "checked", "appended", "raised"}, cb : CallbackLo \cup {0}]
       /\ adder.at = "checked" => adder.cb \in CallbackLo
   BY DEF LoopInv, AdderSound
 <1>5. CASE Lo!ThreadChecks
  <2>1. UNCHANGED <<waker, callbacks, nowLo>>
    BY <1>5 DEF Lo!ThreadChecks
  <2>2. PICK x \in CallbackLo : adder.at = "idle" /\ adder' = [at |-> "checked", cb |-> x]
    BY <1>5 DEF Lo!ThreadChecks
  <2>3. AdderSound' /\ adder'.at = "checked" /\ adder.at # "appended"
    BY <2>2 DEF AdderSound
  <2>4. Lo!TypeOK'
    BY <1>1, <2>1, <2>3 DEF LoopInv, Lo!TypeOK
  <2>5. PollSound => PollSound'
    BY <1>1, <2>1, <2>3 DEF PollSound
  <2>6. QED
    BY <1>1, <1>2, <2>3, <2>4, <2>5 DEF LoopInv
 <1>6. CASE Lo!ThreadAppends
  <2>1. UNCHANGED <<waker, nowLo>> /\ adder.at = "checked"
    BY <1>6 DEF Lo!ThreadAppends
  <2>2. CASE closingLo
   <3>1. adder' = [adder EXCEPT !.at = "raised"] /\ UNCHANGED callbacks
     BY <1>6, <2>2 DEF Lo!ThreadAppends
   <3>2. AdderSound' /\ adder'.at = "raised"
     BY <1>4, <3>1 DEF AdderSound
   <3>3. Lo!TypeOK'
     BY <1>1, <2>1, <3>1, <3>2 DEF LoopInv, Lo!TypeOK
   <3>4. pc = "out"
     BY <2>2 DEF LoopInv
   <3>5. QED
     BY <1>1, <1>2, <3>2, <3>3, <3>4 DEF LoopInv
  <2>3. CASE ~closingLo
   <3>1. adder' = [adder EXCEPT !.at = "appended"] /\ callbacks' = Append(callbacks, adder.cb)
     BY <1>6, <2>3 DEF Lo!ThreadAppends
   <3>2. AdderSound' /\ adder'.at = "appended"
     BY <1>4, <3>1 DEF AdderSound
   <3>3. callbacks' \in Seq(CallbackLo) /\ batch' \in 0..Len(callbacks')
     BY <1>1, <1>3, <1>4, <2>1, <3>1
   <3>4. Lo!TypeOK'
     BY <1>1, <2>1, <3>2, <3>3 DEF LoopInv, Lo!TypeOK
   <3>5. PollSound => PollSound'
     BY <1>1, <2>1, <3>2 DEF PollSound
   <3>6. QED
     BY <1>1, <1>2, <3>2, <3>4, <3>5 DEF LoopInv
  <2>4. QED
    BY <2>2, <2>3
 <1>7. CASE Lo!ThreadWakes
  <2>1. UNCHANGED <<callbacks, nowLo>> /\ waker' = ~closingLo /\ adder' = Lo!Idle
    BY <1>7 DEF Lo!ThreadWakes
  <2>2. AdderSound' /\ adder'.at = "idle"
    BY <2>1 DEF AdderSound, Lo!Idle
  <2>3. waker' \in BOOLEAN
    BY <2>1
  <2>4. Lo!TypeOK'
    BY <1>1, <2>1, <2>2, <2>3 DEF LoopInv, Lo!TypeOK
  <2>5. pc = "poll" => waker'
    BY <2>1 DEF LoopInv
  <2>6. PollSound /\ waker' => PollSound'
    BY <1>1, <2>1 DEF PollSound
  <2>7. QED
    BY <1>1, <1>2, <2>2, <2>4, <2>5, <2>6 DEF LoopInv
 <1>8. CASE Lo!Tick
  <2>1. UNCHANGED <<waker, callbacks, adder>> /\ nowLo < MaxTimeLo /\ nowLo' = nowLo + 1
    BY <1>8 DEF Lo!Tick
  <2>2. nowLo \in 0..MaxTimeLo
    BY DEF LoopInv, Lo!TypeOK
  <2>3. nowLo' \in 0..MaxTimeLo
    BY <2>1, <2>2 DEF PollBounds
  <2>4. Lo!TypeOK'
    BY <1>1, <2>1, <2>3 DEF LoopInv, Lo!TypeOK
  <2>5. AdderSound' /\ (PollSound => PollSound')
    BY <1>1, <2>1 DEF LoopInv, AdderSound, PollSound
  <2>6. QED
    BY <1>1, <1>2, <2>4, <2>5 DEF LoopInv
 <1>9. QED
   BY <1>5, <1>6, <1>7, <1>8

LEMMA LoopClosed ==
  ASSUME PollBounds, LoopInv, Lo!Close
  PROVE  LoopInv'
 <1>1. /\ pc = "out" /\ closingLo' = TRUE /\ callbacks' = <<>> /\ heap' = <<>> /\ waker' = FALSE
       /\ UNCHANGED <<runningLo, stopped, deadlineLo, dead, cancellations, nowLo, adder>>
       /\ UNCHANGED <<handlersLo, events, pc, batch, due, wait>>
   BY DEF Lo!Close, Lo!fdVars, Lo!loopVars
 <1>2. batch' = 0
   BY <1>1 DEF LoopInv
 <1>3. Lo!TypeOK'
  <2>1. callbacks' \in Seq(CallbackLo) /\ heap' \in Seq(Timer) /\ Len(callbacks') = 0
    BY <1>1
  <2>2. batch' \in 0..Len(callbacks')
    BY <1>2, <2>1
  <2>3. QED
    BY <1>1, <2>1, <2>2 DEF LoopInv, Lo!TypeOK
 <1>4. TimersSound'
  <2>1. Lo!Cardinality({}) = 0
    BY FS_EmptySet, SameCardinalityLo
  <2>2. DeadPlaces(heap)' = {}
    BY <1>1 DEF DeadPlaces
  <2>3. cancellations \in Nat
    BY DEF LoopInv, Lo!TypeOK
  <2>4. Apart(heap') /\ Ordered(heap', deadlineLo') /\ DOMAIN heap' = {}
    BY <1>1 DEF Apart, Ordered
  <2>5. \A t \in dead' : deadlineLo'[t] # -1
    BY <1>1 DEF LoopInv, TimersSound
  <2>6. (Lo!Cardinality(DeadPlaces(heap)) <= cancellations)'
   <3>1. cancellations' \in Nat
     BY <1>1, <2>3
   <3>2. Lo!Cardinality(DeadPlaces(heap)') = 0
     BY <2>1, <2>2, Zenon
   <3> DEFINE n == Lo!Cardinality(DeadPlaces(heap)')
   <3>3. n = 0
     BY <3>2
   <3> HIDE DEF n
   <3>4. n <= cancellations'
     BY <3>1, <3>3
   <3>5. QED
     BY <3>4, Zenon DEF n
  <2>7. (\A i \in DOMAIN heap : deadlineLo[heap[i]] # -1)'
    BY <2>4
  <2>8. QED
    BY <2>4, <2>5, <2>6, <2>7 DEF TimersSound
 <1>5. AdderSound' /\ EventsSound'
   BY <1>1 DEF LoopInv, AdderSound, EventsSound
 <1>6. QED
   BY <1>1, <1>2, <1>3, <1>4, <1>5 DEF LoopInv

LEMMA LoopBegins == PollBounds /\ Lo!Init => LoopInv
 <1> SUFFICES ASSUME PollBounds, Lo!Init PROVE LoopInv
   OBVIOUS
 <1>1. Lo!TypeOK
  <2>1. /\ callbacks \in Seq(CallbackLo) /\ heap \in Seq(Timer) /\ due \in Seq(Timer)
        /\ Len(callbacks) = 0
    BY DEF Lo!Init
  <2>2. batch \in 0..Len(callbacks)
    BY <2>1 DEF Lo!Init
  <2>3. /\ deadlineLo \in [Timer -> -1..MaxTimeLo] /\ handlersLo \in [FdLo -> 0..MaxGenLo]
        /\ wait \in -1..MaxTimeLo /\ nowLo \in 0..MaxTimeLo /\ cancellations \in Nat
    BY DEF Lo!Init, PollBounds
  <2>4. QED
    BY <2>1, <2>2, <2>3 DEF Lo!Init, Lo!TypeOK, Lo!Idle
 <1>2. TimersSound
  <2>1. Lo!Cardinality({}) = 0
    BY FS_EmptySet, SameCardinalityLo
  <2>2. DeadPlaces(heap) = {}
    BY DEF Lo!Init, DeadPlaces
  <2>3. heap = <<>> /\ DOMAIN heap = {} /\ dead = {} /\ cancellations = 0
    BY DEF Lo!Init
  <2>4. QED
    BY <2>1, <2>2, <2>3 DEF TimersSound, Apart, Ordered
 <1>3. QED
   BY <1>1, <1>2 DEF Lo!Init, LoopInv, AdderSound, EventsSound, Lo!Idle

LEMMA LoopStutters == ASSUME LoopInv, UNCHANGED Lo!vars PROVE LoopInv'
  BY DEF LoopInv, Lo!TypeOK, AdderSound, TimersSound, DeadPlaces, EventsSound, PollSound,
         Lo!vars, Lo!timerVars, Lo!fdVars, Lo!loopVars

LEMMA LoopSteps == ASSUME PollBounds, LoopInv, [Lo!Next]_(Lo!vars) PROVE LoopInv'
 <1>1. CASE UNCHANGED Lo!vars
   BY <1>1, LoopStutters
 <1>2. CASE Lo!Next
   BY <1>2, LoopStarts, WorkGathered, WorkRuns, EventsPolled, ThreadsAdd, LoopClosed DEF Lo!Next
 <1>3. QED
   BY <1>1, <1>2

LEMMA LoopIsSound == ASSUME PollBounds, LoopInv PROVE Lo!LoopSound
 <1>1. Lo!NoStaleEvent
   BY DEF LoopInv, EventsSound, Lo!NoStaleEvent
 <1>2. Lo!DeadTimersCounted
  <2>1. DeadPlaces(heap) = {i \in DOMAIN heap : heap[i] \in dead}
    BY DEF DeadPlaces
  <2>2. \A i, j \in DOMAIN heap : i < j => deadlineLo[heap[i]] <= deadlineLo[heap[j]]
    BY DEF LoopInv, TimersSound, Ordered
  <2>3. QED
    BY <2>1, <2>2 DEF LoopInv, TimersSound, Lo!DeadTimersCounted
 <1>3. Lo!NeverSleepsWithWork
  <2> SUFFICES ASSUME pc = "poll", wait \notin 0..nowLo
               PROVE  /\ callbacks # <<>> => (waker \/ adder.at = "appended")
                      /\ runningLo
                      /\ \A i \in DOMAIN heap : deadlineLo[heap[i]] > nowLo
    BY DEF Lo!NeverSleepsWithWork
  <2>1. PollSound
    BY DEF LoopInv
  <2>2. wait \in -1..MaxTimeLo /\ nowLo \in 0..MaxTimeLo /\ heap \in Seq(Timer)
        /\ deadlineLo \in [Timer -> -1..MaxTimeLo]
    BY DEF LoopInv, Lo!TypeOK
  <2>3. wait # 0
    BY <2>2
  <2>4. \A i \in DOMAIN heap : deadlineLo[heap[i]] > nowLo
   <3> SUFFICES ASSUME NEW i \in DOMAIN heap PROVE deadlineLo[heap[i]] > nowLo
     OBVIOUS
   <3>1. heap # <<>> /\ 1 \in DOMAIN heap /\ i \in 1..Len(heap)
     BY <2>2
   <3>2. heap[1] \in Timer /\ heap[i] \in Timer
     BY <2>2, <3>1
   <3>3. wait = deadlineLo[heap[1]]
     BY <2>1, <2>3, <3>1 DEF PollSound
   <3>4. deadlineLo[heap[1]] # -1
     BY <3>1 DEF LoopInv, TimersSound
   <3>5. wait > nowLo
     BY <2>2, <3>3, <3>4
   <3>6. i = 1 \/ 1 < i
     BY <3>1
   <3>7. deadlineLo[heap[1]] <= deadlineLo[heap[i]]
    <4>1. CASE i = 1
      BY <2>2, <3>2, <4>1
    <4>2. CASE 1 < i
      BY <3>1, <4>2 DEF LoopInv, TimersSound, Ordered
    <4>3. QED
      BY <3>6, <4>1, <4>2
   <3>8. deadlineLo[heap[1]] \in Int /\ deadlineLo[heap[i]] \in Int
     BY <2>2, <3>2
   <3>9. QED
     BY <2>2, <3>3, <3>5, <3>7, <3>8
  <2>5. QED
    BY <2>1, <2>3, <2>4 DEF PollSound
 <1>4. QED
   BY <1>1, <1>2, <1>3 DEF Lo!LoopSound

(* The loop never sleeps with work, hands an event to the registration it  *)
(* was polled for, and knows how many of its timers are dead.              *)
THEOREM LoopNeverSleeps == PollBounds => (Lo!Spec => [](Lo!TypeOK /\ Lo!LoopSound))
 <1> SUFFICES ASSUME PollBounds PROVE Lo!Spec => [](Lo!TypeOK /\ Lo!LoopSound)
   OBVIOUS
 <1>1. Lo!Init => LoopInv
   BY LoopBegins
 <1>2. LoopInv /\ [Lo!Next]_(Lo!vars) => LoopInv'
   BY LoopSteps
 <1>3. LoopInv => Lo!TypeOK /\ Lo!LoopSound
   BY LoopIsSound DEF LoopInv
 <1>4. QED
   BY <1>1, <1>2, <1>3, PTL DEF Lo!Spec

HIDE DEF pc, runningLo, stopped, callbacks, batch, heap, deadlineLo, dead, due,
         cancellations, handlersLo, events, waker, wait, nowLo, closingLo, adder

-----------------------------------------------------------------------------
(* The loop on asyncio                                                     *)

As == INSTANCE AsyncioLoop WITH
       Fd <- FdAs, Callback <- CallbackAs, MaxGen <- MaxGenAs, handlers <- v1,
       readers <- v2, writers <- v3, watched <- v4, ready <- v5, gens <- v6,
       live <- v7, wrong <- v8, closing <- v9

(* Its variables. *)
handlersAs == v1
readers == v2
writers == v3
watched == v4
ready == v5
gens == v6
live == v7
wrong == v8
closingAs == v9

USE DEF handlersAs, readers, writers, watched, ready, gens, live, wrong, closingAs

LEMMA SameCardinalityAs == \A S : As!Cardinality(S) = Cardinality(S)
  BY DEF As!Cardinality, Cardinality

LoopBounds == IsFiniteSet(FdAs) /\ MaxGenAs \in Nat

Handles == [type : {"fd"}, fd : FdAs, event : As!Events, gen : Nat]
Waits == [type : {"callback"}, callback : CallbackAs]
Entry(c) == [type |-> "callback", callback |-> c]

Distinct(ws) == \A i, j \in DOMAIN ws : ws[i] = ws[j] => i = j

(* The entries of vs are those of ws that are not gone. *)
Leaves(vs, ws, gone) ==
  /\ \A k \in DOMAIN vs : vs[k] \notin gone /\ \E i \in DOMAIN ws : ws[i] = vs[k]
  /\ \A i \in DOMAIN ws : ws[i] \notin gone => \E k \in DOMAIN vs : vs[k] = ws[i]

LoopState ==
  [handlers : [FdAs -> Nat], readers : SUBSET FdAs, writers : SUBSET FdAs,
   watched : SUBSET Handles, ready : Seq(Handles \cup Waits), gens : Nat]

Sides(l, event) == IF event = "R" THEN l.readers ELSE l.writers

(* What asyncio watches, and has queued, is for the handlers there are. *)
Sound(l) ==
  /\ l \in LoopState
  /\ l.gens <= MaxGenAs /\ \A fd \in FdAs : l.handlers[fd] <= l.gens
  /\ \A h \in Handles : h \in l.watched <=> h.gen = l.handlers[h.fd] /\ h.fd \in Sides(l, h.event)
  /\ \A fd \in FdAs : l.handlers[fd] = 0 => fd \notin l.readers /\ fd \notin l.writers
  /\ \A i \in DOMAIN l.ready : l.ready[i] \in Handles => l.ready[i] \in l.watched
  /\ Distinct(l.ready)

Queues(q, c) == \E i \in DOMAIN q : q[i] = Entry(c)

AsyncioInv ==
  /\ Sound(As!Loop) /\ wrong = FALSE /\ closingAs \in BOOLEAN
  /\ live \in [CallbackAs -> {"new", "waiting", "done", "dropped"}]
  /\ \A c \in CallbackAs : Queues(ready, c) <=> live[c] = "waiting"

LEMMA KeptReady == \A ws, S : As!Kept(ws, S) = Selected(ws, S)
  BY DEF As!Kept, Selected, As!Cardinality, Cardinality

LEMMA HandleFields ==
  /\ \A h \in Handles : /\ h.fd \in FdAs /\ h.event \in {"R", "W"} /\ h.gen \in Nat /\ h.type = "fd"
                        /\ h = [type |-> "fd", fd |-> h.fd, event |-> h.event, gen |-> h.gen]
  /\ \A w \in Waits : w \notin Handles /\ w.type = "callback" /\ w.callback \in CallbackAs /\ w = Entry(w.callback)
  /\ \A c \in CallbackAs : Entry(c) \in Waits
  /\ \A c, d \in CallbackAs : Entry(c) = Entry(d) => c = d
  BY DEF Handles, Waits, Entry, As!Events

(* Handles that go from the queue: the other entries stay. *)
LEMMA ReadyKept ==
  ASSUME NEW T, NEW ws \in Seq(T), Distinct(ws), NEW gone
  PROVE  LET vs == As!Kept(ws, As!Range(ws) \ gone)
         IN vs \in Seq(T) /\ Distinct(vs) /\ Leaves(vs, ws, gone)
 <1> DEFINE S == As!Range(ws) \ gone
            vs == As!Kept(ws, S)
 <1>1. vs = Selected(ws, S)
   BY KeptReady
 <1>2. \A i \in DOMAIN ws : ws[i] \in S <=> ws[i] \notin gone
   BY DEF As!Range
 <1>3. \A x \in S : x \notin gone
   OBVIOUS
 <1> HIDE DEF S, vs
 <1>4. vs \in Seq(T)
   BY <1>1, SelectedHas
 <1>5. /\ \A i \in DOMAIN ws : ws[i] \in S => \E k \in DOMAIN vs : vs[k] = ws[i]
       /\ \A k \in DOMAIN vs : \E i \in DOMAIN ws : ws[i] \in S /\ vs[k] = ws[i]
   BY <1>1, SelectedMembers
 <1>6. Distinct(vs)
   BY <1>1, SelectedApart DEF Distinct
 <1>7. Leaves(vs, ws, gone)
   BY <1>2, <1>3, <1>5 DEF Leaves
 <1>8. QED
   BY <1>4, <1>6, <1>7 DEF vs, S

SameCalls(l, m) == \A c \in CallbackAs : Queues(m.ready, c) <=> Queues(l.ready, c)

LEMMA Unwatched ==
  ASSUME NEW l, Sound(l), NEW fd \in FdAs, NEW event \in As!Events, NEW m, m = As!Unwatch(l, fd, event)
  PROVE  /\ m \in LoopState /\ m.handlers = l.handlers /\ m.gens = l.gens
         /\ m.readers = l.readers /\ m.writers = l.writers
         /\ \A h \in Handles : h \in m.watched <=> h \in l.watched /\ ~(h.fd = fd /\ h.event = event)
         /\ \A i \in DOMAIN m.ready : m.ready[i] \in Handles => m.ready[i] \in m.watched
         /\ Distinct(m.ready)
         /\ SameCalls(l, m)
 <1> DEFINE gone == {h \in l.watched : h.fd = fd /\ h.event = event}
            r == As!Kept(l.ready, As!Range(l.ready) \ gone)
 <1>1. l \in LoopState /\ l.ready \in Seq(Handles \cup Waits) /\ l.watched \subseteq Handles
   BY DEF Sound, LoopState
 <1>2. m = [l EXCEPT !.watched = l.watched \ gone, !.ready = r]
   BY DEF As!Unwatch
 <1>3. r \in Seq(Handles \cup Waits) /\ Distinct(r) /\ Leaves(r, l.ready, gone)
  <2> HIDE DEF gone
  <2>1. Distinct(l.ready)
    BY DEF Sound
  <2>2. r \in Seq(Handles \cup Waits) /\ Distinct(r) /\ Leaves(r, l.ready, gone)
    BY <1>1, <2>1, ReadyKept
  <2>3. QED
    BY <2>2
 <1>4. \A h \in Handles : h \in gone <=> h \in l.watched /\ h.fd = fd /\ h.event = event
   OBVIOUS
 <1>5. gone \subseteq Handles
   BY <1>1
 <1> HIDE DEF gone, r
 <1>6. /\ m \in LoopState /\ m.handlers = l.handlers /\ m.gens = l.gens
       /\ m.readers = l.readers /\ m.writers = l.writers
       /\ m.watched = l.watched \ gone /\ m.ready = r
   BY <1>1, <1>2, <1>3 DEF LoopState
 <1>7. \A i \in DOMAIN r : r[i] \in Handles => r[i] \in m.watched
   BY <1>3, <1>6 DEF Sound, Leaves
 <1>8. SameCalls(l, m)
  <2>1. \A c \in CallbackAs : Entry(c) \notin gone
    BY <1>5, HandleFields
  <2>2. QED
    BY <1>3, <1>6, <2>1 DEF SameCalls, Queues, Leaves
 <1>9. QED
   BY <1>3, <1>4, <1>6, <1>7, <1>8

LEMMA CallsCompose ==
  ASSUME NEW l, NEW m, NEW n, SameCalls(l, m), SameCalls(m, n)
  PROVE  SameCalls(l, n)
  BY DEF SameCalls

LEMMA ReaderRemoved ==
  ASSUME NEW l, Sound(l), NEW fd \in FdAs, NEW m, m = As!RemoveReader(l, fd)
  PROVE  /\ Sound(m) /\ SameCalls(l, m) /\ fd \notin m.readers
         /\ m.writers = l.writers /\ m.handlers = l.handlers /\ m.gens = l.gens
 <1>1. l \in LoopState
   BY DEF Sound
 <1>2. CASE fd \notin l.readers
   BY <1>2 DEF As!RemoveReader, SameCalls
 <1>3. CASE fd \in l.readers
  <2> DEFINE u == As!Unwatch(l, fd, "R")
  <2>1. m = [u EXCEPT !.readers = u.readers \ {fd}]
    BY <1>3 DEF As!RemoveReader
  <2>2. /\ u \in LoopState /\ u.handlers = l.handlers /\ u.gens = l.gens
        /\ u.readers = l.readers /\ u.writers = l.writers
        /\ \A h \in Handles : h \in u.watched <=> h \in l.watched /\ ~(h.fd = fd /\ h.event = "R")
        /\ \A i \in DOMAIN u.ready : u.ready[i] \in Handles => u.ready[i] \in u.watched
        /\ Distinct(u.ready)
        /\ SameCalls(l, u)
    BY Unwatched DEF As!Events
  <2> HIDE DEF u
  <2>3. /\ m \in LoopState /\ m.handlers = l.handlers /\ m.gens = l.gens
        /\ m.readers = l.readers \ {fd} /\ m.writers = l.writers
        /\ m.watched = u.watched /\ m.ready = u.ready
    BY <2>1, <2>2 DEF LoopState
  <2>4. \A h \in Handles : h \in m.watched <=> h.gen = m.handlers[h.fd] /\ h.fd \in Sides(m, h.event)
   <3> SUFFICES ASSUME NEW h \in Handles
                PROVE  h \in m.watched <=> h.gen = m.handlers[h.fd] /\ h.fd \in Sides(m, h.event)
     OBVIOUS
   <3>1. h \in l.watched <=> h.gen = l.handlers[h.fd] /\ h.fd \in Sides(l, h.event)
     BY DEF Sound
   <3>2. h.fd \in Sides(m, h.event) <=> h.fd \in Sides(l, h.event) /\ ~(h.fd = fd /\ h.event = "R")
     BY <2>3, HandleFields DEF Sides
   <3>3. QED
     BY <2>2, <2>3, <3>1, <3>2
  <2>5. Sound(m)
    BY <2>2, <2>3, <2>4 DEF Sound
  <2>6. SameCalls(l, m)
    BY <2>2, <2>3 DEF SameCalls
  <2>7. QED
    BY <2>3, <2>5, <2>6
 <1>4. QED
   BY <1>2, <1>3

LEMMA WriterRemoved ==
  ASSUME NEW l, Sound(l), NEW fd \in FdAs, NEW m, m = As!RemoveWriter(l, fd)
  PROVE  /\ Sound(m) /\ SameCalls(l, m) /\ fd \notin m.writers
         /\ m.readers = l.readers /\ m.handlers = l.handlers /\ m.gens = l.gens
 <1>1. l \in LoopState
   BY DEF Sound
 <1>2. CASE fd \notin l.writers
   BY <1>2 DEF As!RemoveWriter, SameCalls
 <1>3. CASE fd \in l.writers
  <2> DEFINE u == As!Unwatch(l, fd, "W")
  <2>1. m = [u EXCEPT !.writers = u.writers \ {fd}]
    BY <1>3 DEF As!RemoveWriter
  <2>2. /\ u \in LoopState /\ u.handlers = l.handlers /\ u.gens = l.gens
        /\ u.writers = l.writers /\ u.readers = l.readers
        /\ \A h \in Handles : h \in u.watched <=> h \in l.watched /\ ~(h.fd = fd /\ h.event = "W")
        /\ \A i \in DOMAIN u.ready : u.ready[i] \in Handles => u.ready[i] \in u.watched
        /\ Distinct(u.ready)
        /\ SameCalls(l, u)
    BY Unwatched DEF As!Events
  <2> HIDE DEF u
  <2>3. /\ m \in LoopState /\ m.handlers = l.handlers /\ m.gens = l.gens
        /\ m.writers = l.writers \ {fd} /\ m.readers = l.readers
        /\ m.watched = u.watched /\ m.ready = u.ready
    BY <2>1, <2>2 DEF LoopState
  <2>4. \A h \in Handles : h \in m.watched <=> h.gen = m.handlers[h.fd] /\ h.fd \in Sides(m, h.event)
   <3> SUFFICES ASSUME NEW h \in Handles
                PROVE  h \in m.watched <=> h.gen = m.handlers[h.fd] /\ h.fd \in Sides(m, h.event)
     OBVIOUS
   <3>1. h \in l.watched <=> h.gen = l.handlers[h.fd] /\ h.fd \in Sides(l, h.event)
     BY DEF Sound
   <3>2. h.fd \in Sides(m, h.event) <=> h.fd \in Sides(l, h.event) /\ ~(h.fd = fd /\ h.event = "W")
     BY <2>3, HandleFields DEF Sides
   <3>3. QED
     BY <2>2, <2>3, <3>1, <3>2
  <2>5. Sound(m)
    BY <2>2, <2>3, <2>4 DEF Sound
  <2>6. SameCalls(l, m)
    BY <2>2, <2>3 DEF SameCalls
  <2>7. QED
    BY <2>3, <2>5, <2>6
 <1>4. QED
   BY <1>2, <1>3

LEMMA ReaderAdded ==
  ASSUME NEW l, Sound(l), NEW fd \in FdAs, l.handlers[fd] # 0, NEW m, m = As!AddReader(l, fd)
  PROVE  Sound(m) /\ SameCalls(l, m) /\ m.writers = l.writers /\ m.handlers = l.handlers /\ m.gens = l.gens
 <1>1. l \in LoopState /\ l.handlers[fd] \in Nat
   BY DEF Sound, LoopState
 <1> DEFINE new == [type |-> "fd", fd |-> fd, event |-> "R", gen |-> l.handlers[fd]]
 <1>2. new \in Handles
   BY <1>1 DEF Handles, As!Events
 <1>3. m = [l EXCEPT !.watched = l.watched \cup {new}, !.readers = l.readers \cup {fd}]
   BY <1>1 DEF As!AddReader, As!Watch, LoopState
 <1>4. \A h \in Handles : h = new <=> h.fd = fd /\ h.event = "R" /\ h.gen = l.handlers[fd]
   BY HandleFields DEF Handles
 <1> HIDE DEF new
 <1>5. /\ m \in LoopState /\ m.handlers = l.handlers /\ m.gens = l.gens
       /\ m.readers = l.readers \cup {fd} /\ m.writers = l.writers
       /\ m.watched = l.watched \cup {new} /\ m.ready = l.ready
  <2>1. l.watched \cup {new} \subseteq Handles /\ l.readers \cup {fd} \subseteq FdAs
    BY <1>1, <1>2 DEF LoopState
  <2>2. m \in LoopState
    BY <1>1, <1>3, <2>1 DEF LoopState
  <2>3. QED
    BY <1>1, <1>3, <2>2 DEF LoopState
 <1>6. \A h \in Handles : h \in m.watched <=> h.gen = m.handlers[h.fd] /\ h.fd \in Sides(m, h.event)
  <2> SUFFICES ASSUME NEW h \in Handles
               PROVE  h \in m.watched <=> h.gen = m.handlers[h.fd] /\ h.fd \in Sides(m, h.event)
    OBVIOUS
  <2>1. h \in l.watched <=> h.gen = l.handlers[h.fd] /\ h.fd \in Sides(l, h.event)
    BY DEF Sound
  <2>2. h.fd \in Sides(m, h.event) <=> h.fd \in Sides(l, h.event) \/ (h.fd = fd /\ h.event = "R")
    BY <1>5, HandleFields DEF Sides
  <2>3. QED
    BY <1>4, <1>5, <2>1, <2>2
 <1>7. Sound(m)
   BY <1>5, <1>6 DEF Sound
 <1>8. SameCalls(l, m)
   BY <1>5 DEF SameCalls
 <1>9. QED
   BY <1>5, <1>7, <1>8

LEMMA WriterAdded ==
  ASSUME NEW l, Sound(l), NEW fd \in FdAs, l.handlers[fd] # 0, NEW m, m = As!AddWriter(l, fd)
  PROVE  Sound(m) /\ SameCalls(l, m) /\ m.readers = l.readers /\ m.handlers = l.handlers /\ m.gens = l.gens
 <1>1. l \in LoopState /\ l.handlers[fd] \in Nat
   BY DEF Sound, LoopState
 <1> DEFINE new == [type |-> "fd", fd |-> fd, event |-> "W", gen |-> l.handlers[fd]]
 <1>2. new \in Handles
   BY <1>1 DEF Handles, As!Events
 <1>3. m = [l EXCEPT !.watched = l.watched \cup {new}, !.writers = l.writers \cup {fd}]
   BY <1>1 DEF As!AddWriter, As!Watch, LoopState
 <1>4. \A h \in Handles : h = new <=> h.fd = fd /\ h.event = "W" /\ h.gen = l.handlers[fd]
   BY HandleFields DEF Handles
 <1> HIDE DEF new
 <1>5. /\ m \in LoopState /\ m.handlers = l.handlers /\ m.gens = l.gens
       /\ m.writers = l.writers \cup {fd} /\ m.readers = l.readers
       /\ m.watched = l.watched \cup {new} /\ m.ready = l.ready
  <2>1. l.watched \cup {new} \subseteq Handles /\ l.writers \cup {fd} \subseteq FdAs
    BY <1>1, <1>2 DEF LoopState
  <2>2. m \in LoopState
    BY <1>1, <1>3, <2>1 DEF LoopState
  <2>3. QED
    BY <1>1, <1>3, <2>2 DEF LoopState
 <1>6. \A h \in Handles : h \in m.watched <=> h.gen = m.handlers[h.fd] /\ h.fd \in Sides(m, h.event)
  <2> SUFFICES ASSUME NEW h \in Handles
               PROVE  h \in m.watched <=> h.gen = m.handlers[h.fd] /\ h.fd \in Sides(m, h.event)
    OBVIOUS
  <2>1. h \in l.watched <=> h.gen = l.handlers[h.fd] /\ h.fd \in Sides(l, h.event)
    BY DEF Sound
  <2>2. h.fd \in Sides(m, h.event) <=> h.fd \in Sides(l, h.event) \/ (h.fd = fd /\ h.event = "W")
    BY <1>5, HandleFields DEF Sides
  <2>3. QED
    BY <1>4, <1>5, <2>1, <2>2
 <1>7. Sound(m)
   BY <1>5, <1>6 DEF Sound
 <1>8. SameCalls(l, m)
   BY <1>5 DEF SameCalls
 <1>9. QED
   BY <1>5, <1>7, <1>8

Numbered(l, fd, g, k) == [l EXCEPT !.gens = k, !.handlers = [l.handlers EXCEPT ![fd] = g]]

(* A descriptor that is watched for nothing gets another handler, or none. *)
LEMMA HandlerSet ==
  ASSUME NEW l, Sound(l), NEW fd \in FdAs, fd \notin l.readers, fd \notin l.writers, NEW g \in Nat,
         NEW k \in Nat, g <= k, l.gens <= k, k <= MaxGenAs, NEW m,
         m = Numbered(l, fd, g, k)
  PROVE  /\ Sound(m) /\ SameCalls(l, m) /\ m.handlers[fd] = g /\ m.gens = k
         /\ m.readers = l.readers /\ m.writers = l.writers
 <1>2. l \in LoopState
   BY DEF Sound
 <1>3. /\ m \in LoopState /\ m.handlers = [l.handlers EXCEPT ![fd] = g] /\ m.gens = k
       /\ m.readers = l.readers /\ m.writers = l.writers
       /\ m.watched = l.watched /\ m.ready = l.ready
   BY <1>2 DEF LoopState, Numbered
 <1>4. m.handlers[fd] = g /\ \A f \in FdAs : f # fd => m.handlers[f] = l.handlers[f]
   BY <1>2, <1>3 DEF LoopState
 <1>5. \A h \in Handles : h \in m.watched <=> h.gen = m.handlers[h.fd] /\ h.fd \in Sides(m, h.event)
  <2> SUFFICES ASSUME NEW h \in Handles
               PROVE  h \in m.watched <=> h.gen = m.handlers[h.fd] /\ h.fd \in Sides(m, h.event)
    OBVIOUS
  <2>1. h \in l.watched <=> h.gen = l.handlers[h.fd] /\ h.fd \in Sides(l, h.event)
    BY DEF Sound
  <2>2. h.fd \in Sides(m, h.event) <=> h.fd \in Sides(l, h.event)
    BY <1>3 DEF Sides
  <2>3. h.fd = fd => h.fd \notin Sides(l, h.event)
    BY DEF Sides
  <2>4. QED
    BY <1>3, <1>4, <2>1, <2>2, <2>3, HandleFields
 <1>6. \A f \in FdAs : m.handlers[f] <= k
  <2>1. \A f \in FdAs : l.handlers[f] \in Nat /\ l.handlers[f] <= l.gens /\ l.gens \in Nat
    BY <1>2 DEF Sound, LoopState
  <2>2. QED
    BY <1>4, <2>1
 <1>7. Sound(m)
   BY <1>3, <1>4, <1>5, <1>6 DEF Sound
 <1>8. QED
   BY <1>3, <1>4, <1>7 DEF SameCalls

LEMMA HandlerAdded ==
  ASSUME LoopBounds, NEW l, Sound(l), NEW fd \in FdAs, l.handlers[fd] = 0, l.gens < MaxGenAs, NEW seen,
         NEW m, m = As!AddHandler(l, fd, seen)
  PROVE  Sound(m) /\ SameCalls(l, m)
 <1> DEFINE new == [l EXCEPT !.gens = @ + 1, !.handlers[fd] = l.gens + 1]
            r == IF "R" \in seen THEN As!AddReader(new, fd) ELSE new
 <1>1. /\ l \in LoopState /\ l.gens \in Nat /\ l.gens + 1 \in Nat /\ l.gens + 1 # 0 /\ l.gens + 1 <= MaxGenAs
       /\ fd \notin l.readers /\ fd \notin l.writers
   BY DEF Sound, LoopState, LoopBounds
 <1>2. new = Numbered(l, fd, l.gens + 1, l.gens + 1)
   BY <1>1 DEF LoopState, Numbered
 <1>3. m = IF "W" \in seen THEN As!AddWriter(r, fd) ELSE r
   BY DEF As!AddHandler
 <1> HIDE DEF new
 <1>4. Sound(new) /\ SameCalls(l, new) /\ new.handlers[fd] = l.gens + 1
   BY <1>1, <1>2, HandlerSet
 <1>5. Sound(r) /\ SameCalls(new, r) /\ r.handlers[fd] # 0
   BY <1>1, <1>4, ReaderAdded DEF SameCalls
 <1> HIDE DEF r
 <1>6. Sound(m) /\ SameCalls(r, m)
   BY <1>3, <1>5, WriterAdded DEF SameCalls
 <1>7. QED
   BY <1>4, <1>5, <1>6, CallsCompose

LEMMA HandlerUpdated ==
  ASSUME NEW l, Sound(l), NEW fd \in FdAs, l.handlers[fd] # 0, NEW seen, NEW m, m = As!UpdateHandler(l, fd, seen)
  PROVE  Sound(m) /\ SameCalls(l, m)
 <1> DEFINE r == IF "R" \notin seen THEN As!RemoveReader(l, fd)
                 ELSE IF fd \in l.readers THEN l ELSE As!AddReader(l, fd)
 <1>1. m = IF "W" \notin seen THEN As!RemoveWriter(r, fd)
           ELSE IF fd \in r.writers THEN r ELSE As!AddWriter(r, fd)
   BY DEF As!UpdateHandler
 <1>2. Sound(r) /\ SameCalls(l, r) /\ r.handlers[fd] # 0
   BY ReaderAdded, ReaderRemoved DEF SameCalls
 <1> HIDE DEF r
 <1>3. Sound(m) /\ SameCalls(r, m)
   BY <1>1, <1>2, WriterAdded, WriterRemoved DEF SameCalls
 <1>4. QED
   BY <1>2, <1>3, CallsCompose

LEMMA HandlerRemoved ==
  ASSUME LoopBounds, NEW l, Sound(l), NEW fd \in FdAs, NEW m, m = As!RemoveHandler(l, fd)
  PROVE  Sound(m) /\ SameCalls(l, m) /\ m.handlers[fd] = 0 /\ m.gens = l.gens
 <1> DEFINE r == As!RemoveReader(l, fd)
            w == As!RemoveWriter(r, fd)
 <1>1. Sound(r) /\ SameCalls(l, r) /\ fd \notin r.readers /\ r.gens = l.gens
   BY ReaderRemoved
 <1> HIDE DEF r
 <1>2. Sound(w) /\ SameCalls(r, w) /\ fd \notin w.readers /\ fd \notin w.writers /\ w.gens = l.gens
   BY <1>1, WriterRemoved
 <1>3. m = [w EXCEPT !.handlers[fd] = 0]
   BY DEF As!RemoveHandler, r
 <1> HIDE DEF w
 <1>4. w \in LoopState /\ w.gens \in Nat /\ w.gens <= MaxGenAs
   BY <1>2 DEF Sound, LoopState
 <1>5. m = Numbered(w, fd, 0, w.gens)
   BY <1>3, <1>4 DEF LoopState, Numbered
 <1>6. Sound(m) /\ SameCalls(w, m) /\ m.handlers[fd] = 0 /\ m.gens = w.gens
   BY <1>2, <1>4, <1>5, HandlerSet
 <1>7. QED
   BY <1>1, <1>2, <1>6, CallsCompose

LEMMA AsyncioStepsSound ==
  ASSUME LoopBounds, NEW l, Sound(l), NEW m \in As!Steps(l)
  PROVE  Sound(m) /\ SameCalls(l, m)
 <1>1. CASE m = l
   BY <1>1 DEF SameCalls
 <1>2. ASSUME NEW fd \in FdAs, l.handlers[fd] = 0, l.gens < MaxGenAs, NEW seen \in SUBSET As!Events,
              m = As!AddHandler(l, fd, seen)
       PROVE  Sound(m) /\ SameCalls(l, m)
   BY <1>2, HandlerAdded
 <1>3. ASSUME NEW fd \in FdAs, l.handlers[fd] # 0, NEW seen \in SUBSET As!Events, m = As!UpdateHandler(l, fd, seen)
       PROVE  Sound(m) /\ SameCalls(l, m)
   BY <1>3, HandlerUpdated
 <1>4. ASSUME NEW fd \in FdAs, m = As!RemoveHandler(l, fd)
       PROVE  Sound(m) /\ SameCalls(l, m)
   BY <1>4, HandlerRemoved
 <1>5. ASSUME NEW fd \in FdAs, l.gens < MaxGenAs, NEW seen \in SUBSET As!Events,
              m = As!AddHandler(As!RemoveHandler(l, fd), fd, seen)
       PROVE  Sound(m) /\ SameCalls(l, m)
  <2> DEFINE r == As!RemoveHandler(l, fd)
  <2>1. Sound(r) /\ SameCalls(l, r) /\ r.handlers[fd] = 0 /\ r.gens = l.gens
    BY HandlerRemoved
  <2>2. m = As!AddHandler(r, fd, seen)
    BY <1>5
  <2> HIDE DEF r
  <2>3. Sound(m) /\ SameCalls(r, m)
    BY <1>5, <2>1, <2>2, HandlerAdded
  <2>4. QED
    BY <2>1, <2>3, CallsCompose
 <1>6. QED
   BY <1>1, <1>2, <1>3, <1>4, <1>5 DEF As!Steps

LEMMA LoopIs ==
  ASSUME AsyncioInv
  PROVE  /\ As!Loop \in LoopState /\ Sound(As!Loop) /\ As!Loop.ready = ready /\ As!Loop.watched = watched
         /\ As!Loop.handlers = handlersAs /\ As!Loop.readers = readers /\ As!Loop.writers = writers
         /\ ready \in Seq(Handles \cup Waits) /\ watched \subseteq Handles /\ Distinct(ready)
  BY DEF AsyncioInv, Sound, LoopState, As!Loop

LEMMA BecomesSound ==
  ASSUME NEW l, Sound(l), As!Becomes(l)
  PROVE  Sound(As!Loop)' /\ \A c \in CallbackAs : Queues(ready', c) <=> Queues(l.ready, c)
 <1>1. /\ l \in LoopState /\ handlersAs' = l.handlers /\ readers' = l.readers /\ writers' = l.writers
       /\ watched' = l.watched /\ ready' = l.ready /\ gens' = l.gens
   BY DEF Sound, As!Becomes
 <1>2. l = As!Loop'
   BY <1>1 DEF LoopState, As!Loop
 <1>3. QED
   BY <1>1, <1>2

LEMMA OutsideKeeps ==
  ASSUME LoopBounds, AsyncioInv, As!Outside
  PROVE  AsyncioInv'
 <1>1. PICK l \in As!Steps(As!Loop) : As!Becomes(l)
   BY DEF As!Outside
 <1>2. Sound(l) /\ SameCalls(As!Loop, l)
   BY AsyncioStepsSound, LoopIs
 <1>3. Sound(As!Loop)' /\ \A c \in CallbackAs : Queues(ready', c) <=> Queues(ready, c)
   BY <1>1, <1>2, BecomesSound, LoopIs DEF SameCalls
 <1>4. QED
   BY <1>3 DEF AsyncioInv, As!Outside

(* The head of what is ready is taken out. *)
LEMMA HeadTaken ==
  ASSUME AsyncioInv, ready # <<>>, NEW l, l = [As!Loop EXCEPT !.ready = Tail(ready)]
  PROVE  /\ Sound(l) /\ Head(ready) \in Handles \cup Waits
         /\ Head(ready) \in Handles => Head(ready) \in watched
         /\ \A c \in CallbackAs : Queues(l.ready, c) <=> Queues(ready, c) /\ Head(ready) # Entry(c)
 <1> DEFINE q == Tail(ready)
 <1>1. /\ q \in Seq(Handles \cup Waits) /\ Len(q) = Len(ready) - 1 /\ Len(ready) \in Nat \ {0}
       /\ \A i \in 1..Len(ready) - 1 : q[i] = ready[i + 1]
       /\ Head(ready) = ready[1] /\ ready[1] \in Handles \cup Waits
   BY LoopIs
 <1>2. DOMAIN q = 1..Len(ready) - 1 /\ DOMAIN ready = 1..Len(ready)
   BY <1>1, LoopIs
 <1> HIDE DEF q
 <1>3. /\ l \in LoopState /\ l.handlers = As!Loop.handlers /\ l.readers = As!Loop.readers
       /\ l.writers = As!Loop.writers /\ l.watched = As!Loop.watched /\ l.gens = As!Loop.gens /\ l.ready = q
   BY <1>1, LoopIs DEF q, LoopState
 <1>4. Distinct(q)
  <2> SUFFICES ASSUME NEW i \in 1..Len(ready) - 1, NEW j \in 1..Len(ready) - 1, q[i] = q[j] PROVE i = j
    BY <1>2 DEF Distinct
  <2>1. i + 1 \in DOMAIN ready /\ j + 1 \in DOMAIN ready /\ ready[i + 1] = ready[j + 1]
    BY <1>1, <1>2
  <2>2. i + 1 = j + 1
    BY <2>1, LoopIs DEF Distinct
  <2>3. QED
    BY <1>1, <2>2
 <1>5. \A i \in DOMAIN ready : ready[i] \in Handles => ready[i] \in watched
   BY LoopIs DEF Sound
 <1>6. \A i \in DOMAIN q : i + 1 \in DOMAIN ready /\ q[i] = ready[i + 1]
   BY <1>1, <1>2
 <1>7. \A i \in DOMAIN q : q[i] \in Handles => q[i] \in l.watched
   BY <1>3, <1>5, <1>6, LoopIs
 <1>8. Sound(l)
   BY <1>3, <1>4, <1>7, LoopIs DEF Sound, Sides
 <1>9. ASSUME NEW c \in CallbackAs
       PROVE  Queues(q, c) <=> Queues(ready, c) /\ Head(ready) # Entry(c)
  <2>1. ASSUME NEW i \in DOMAIN q, q[i] = Entry(c) PROVE Queues(ready, c) /\ Head(ready) # Entry(c)
   <3>1. i + 1 \in DOMAIN ready /\ ready[i + 1] = Entry(c) /\ 1 \in DOMAIN ready /\ i + 1 # 1
     BY <1>1, <1>2, <1>6, <2>1
   <3>2. QED
     BY <1>1, <3>1, LoopIs DEF Distinct, Queues
  <2>2. ASSUME NEW i \in DOMAIN ready, ready[i] = Entry(c), Head(ready) # Entry(c) PROVE Queues(q, c)
   <3> DEFINE k == i - 1
   <3>1. k \in 1..Len(ready) - 1 /\ i = k + 1
     BY <1>1, <1>2, <2>2
   <3>2. k \in DOMAIN q /\ q[k] = Entry(c)
     BY <1>1, <1>2, <2>2, <3>1
   <3>3. QED
     BY <3>2 DEF Queues
  <2>3. QED
    BY <2>1, <2>2 DEF Queues
 <1>10. 1 \in DOMAIN ready
   BY <1>1, <1>2
 <1>11. QED
   BY <1>1, <1>3, <1>5, <1>8, <1>9, <1>10

LEMMA RunHandleKeeps ==
  ASSUME LoopBounds, AsyncioInv, As!RunHandle
  PROVE  AsyncioInv'
 <1> DEFINE l == [As!Loop EXCEPT !.ready = Tail(ready)]
            h == Head(ready)
 <1>1. /\ Sound(l) /\ h \in Handles \cup Waits
       /\ h \in Handles => h \in watched
       /\ \A c \in CallbackAs : Queues(l.ready, c) <=> Queues(ready, c) /\ h # Entry(c)
   BY HeadTaken DEF As!RunHandle
 <1>2. PICK m \in As!Steps(l) : As!Becomes(m)
   BY DEF As!RunHandle
 <1> HIDE DEF l
 <1>3. h \in Handles /\ h \in watched /\ \A c \in CallbackAs : h # Entry(c)
  <2>1. h \notin Waits
    BY HandleFields DEF As!RunHandle
  <2>2. h \in Handles /\ h \in watched
    BY <1>1, <2>1
  <2>3. ASSUME NEW c \in CallbackAs PROVE h # Entry(c)
    BY <2>1, HandleFields
  <2>4. QED
    BY <2>2, <2>3
 <1>4. wrong' = FALSE
  <2>1. handlersAs[h.fd] = h.gen /\ h.fd \in (IF h.event = "R" THEN readers ELSE writers)
    BY <1>3, LoopIs DEF Sound, Sides
  <2>2. QED
    BY <2>1 DEF As!RunHandle, AsyncioInv
 <1>5. Sound(m) /\ SameCalls(l, m)
  <2>1. Sound(l) /\ m \in As!Steps(l)
    BY <1>1, <1>2
  <2>2. QED
    BY <2>1, AsyncioStepsSound
 <1>6. Sound(As!Loop)' /\ \A c \in CallbackAs : Queues(ready', c) <=> Queues(ready, c)
   BY <1>1, <1>2, <1>3, <1>5, BecomesSound DEF SameCalls
 <1>7. QED
   BY <1>4, <1>6 DEF AsyncioInv, As!RunHandle

LEMMA RunCallbackKeeps ==
  ASSUME LoopBounds, AsyncioInv, As!RunCallback
  PROVE  AsyncioInv'
 <1> DEFINE l == [As!Loop EXCEPT !.ready = Tail(ready)]
            h == Head(ready)
 <1>1. /\ Sound(l) /\ h \in Handles \cup Waits
       /\ \A c \in CallbackAs : Queues(l.ready, c) <=> Queues(ready, c) /\ h # Entry(c)
   BY HeadTaken DEF As!RunCallback
 <1>2. PICK m \in As!Steps(l) : As!Becomes(m)
   BY DEF As!RunCallback
 <1> HIDE DEF l
 <1>3. h.callback \in CallbackAs /\ \A c \in CallbackAs : h = Entry(c) <=> c = h.callback
   BY <1>1, HandleFields DEF As!RunCallback
 <1>4. Sound(m) /\ SameCalls(l, m)
   BY <1>1, <1>2, AsyncioStepsSound
 <1>5. Sound(As!Loop)' /\ \A c \in CallbackAs : Queues(ready', c) <=> Queues(ready, c) /\ c # h.callback
   BY <1>1, <1>2, <1>3, <1>4, BecomesSound DEF SameCalls
 <1>6. live' = [live EXCEPT ![h.callback] = "done"] /\ closingAs' = closingAs /\ wrong' = wrong
   BY DEF As!RunCallback
 <1>7. \A c \in CallbackAs : Queues(ready', c) <=> live'[c] = "waiting"
   BY <1>3, <1>5, <1>6 DEF AsyncioInv
 <1>8. QED
   BY <1>3, <1>5, <1>6, <1>7 DEF AsyncioInv

LEMMA WatchedFinite ==
  ASSUME LoopBounds, AsyncioInv
  PROVE  IsFiniteSet(watched)
 <1> DEFINE f == [h \in watched |-> <<h.fd, h.event>>]
 <1>1. f \in [watched -> FdAs \X {"R", "W"}]
   BY LoopIs, HandleFields
 <1>2. \A h, k \in watched : h.fd = k.fd /\ h.event = k.event => h = k
  <2> SUFFICES ASSUME NEW h \in watched, NEW k \in watched, h.fd = k.fd, h.event = k.event PROVE h = k
    OBVIOUS
  <2>1. h \in Handles /\ k \in Handles
    BY LoopIs
  <2>2. h.gen = handlersAs[h.fd] /\ k.gen = handlersAs[k.fd]
    BY <2>1, LoopIs DEF Sound
  <2>3. QED
    BY <2>1, <2>2, HandleFields
 <1>3. \A h, k \in watched : f[h] = f[k] => h = k
   BY <1>2
 <1> HIDE DEF f
 <1>4. f \in Injection(watched, FdAs \X {"R", "W"})
   BY <1>1, <1>3 DEF Injection, IsInjective
 <1>5. IsFiniteSet({"R", "W"})
  <2>1. IsFiniteSet({"R"}) /\ IsFiniteSet({"W"})
    BY FS_Singleton, SameCardinalityAs
  <2>2. IsFiniteSet({"R"} \cup {"W"})
    BY <2>1, FS_Union, SameCardinalityAs, Zenon
  <2>3. {"R", "W"} = {"R"} \cup {"W"}
    OBVIOUS
  <2>4. QED
    BY <2>2, <2>3, Zenon
 <1>6. IsFiniteSet(FdAs \X {"R", "W"})
   BY <1>5, FS_Product, SameCardinalityAs DEF LoopBounds
 <1>7. QED
   BY <1>4, <1>6, FS_Injection, SameCardinalityAs

LEMMA SelectKeeps ==
  ASSUME LoopBounds, AsyncioInv, As!Select
  PROVE  AsyncioInv'
 <1>1. PICK seen \in SUBSET watched \ {{}} : \E turn \in As!SetToSeqs(seen) : ready' = ready \o turn
   BY DEF As!Select
 <1>2. IsFiniteSet(seen)
   BY <1>1, WatchedFinite, FS_Subset, SameCardinalityAs
 <1>3. As!Cardinality(seen) \in Nat
   BY <1>2, FS_CardinalityType, SameCardinalityAs
 <1>4. PICK turn \in As!SetToSeqs(seen) : ready' = ready \o turn
   BY <1>1
 <1>5. turn \in Seq(seen) /\ Distinct(turn)
   BY <1>3 DEF As!SetToSeqs, Distinct
 <1>6. /\ ready \in Seq(Handles \cup Waits) /\ turn \in Seq(Handles \cup Waits) /\ Distinct(ready)
       /\ watched \subseteq Handles
   BY <1>1, <1>5, LoopIs
 <1>7. \A i \in DOMAIN ready : ready[i] \notin Handles
  <2> SUFFICES ASSUME NEW i \in DOMAIN ready, ready[i] \in Handles PROVE FALSE
    OBVIOUS
  <2>1. ready[i].type = "fd"
    BY HandleFields
  <2>2. i \in 1..Len(ready)
    BY <1>6
  <2>3. QED
    BY <2>1, <2>2 DEF As!Select
 <1>8. \A i \in DOMAIN turn : turn[i] \in seen /\ turn[i] \in Handles
   BY <1>1, <1>5, <1>6
 <1>9. /\ ready' \in Seq(Handles \cup Waits) /\ Len(ready) \in Nat /\ Len(turn) \in Nat
       /\ DOMAIN ready' = 1..Len(ready) + Len(turn)
       /\ DOMAIN ready = 1..Len(ready) /\ DOMAIN turn = 1..Len(turn)
       /\ \A i \in 1..Len(ready) : ready'[i] = ready[i]
       /\ \A i \in 1..Len(turn) : ready'[Len(ready) + i] = turn[i]
   BY <1>4, <1>6
 <1>10. \A i \in DOMAIN ready' : \/ i \in DOMAIN ready /\ ready'[i] = ready[i]
                                 \/ /\ i - Len(ready) \in DOMAIN turn
                                    /\ ready'[i] = turn[i - Len(ready)]
  <2> SUFFICES ASSUME NEW i \in DOMAIN ready', i \notin DOMAIN ready
               PROVE  i - Len(ready) \in DOMAIN turn /\ ready'[i] = turn[i - Len(ready)]
    BY <1>9
  <2> DEFINE k == i - Len(ready)
  <2>1. k \in DOMAIN turn /\ i = Len(ready) + k
    BY <1>9
  <2>2. QED
    BY <1>9, <2>1
 <1>11. Distinct(ready')
  <2> SUFFICES ASSUME NEW i \in DOMAIN ready', NEW j \in DOMAIN ready', ready'[i] = ready'[j] PROVE i = j
    BY DEF Distinct
  <2>1. CASE i \in DOMAIN ready /\ ready'[i] = ready[i]
   <3>1. j \in DOMAIN ready /\ ready'[j] = ready[j]
     BY <1>7, <1>8, <1>10, <2>1
   <3>2. QED
     BY <1>6, <2>1, <3>1 DEF Distinct
  <2>2. CASE i - Len(ready) \in DOMAIN turn /\ ready'[i] = turn[i - Len(ready)]
   <3>1. j - Len(ready) \in DOMAIN turn /\ ready'[j] = turn[j - Len(ready)]
     BY <1>7, <1>8, <1>10, <2>2
   <3>2. i - Len(ready) = j - Len(ready)
     BY <1>5, <2>2, <3>1 DEF Distinct
   <3>3. QED
     BY <1>9, <3>2
  <2>3. QED
    BY <1>10, <2>1, <2>2
 <1>12. \A c \in CallbackAs : Queues(ready', c) <=> Queues(ready, c)
  <2> SUFFICES ASSUME NEW c \in CallbackAs PROVE Queues(ready', c) <=> Queues(ready, c)
    OBVIOUS
  <2>1. Entry(c) \notin Handles
    BY HandleFields
  <2>2. ASSUME NEW i \in DOMAIN ready', ready'[i] = Entry(c) PROVE i \in DOMAIN ready /\ ready[i] = Entry(c)
    BY <1>8, <1>10, <2>1, <2>2
  <2>3. ASSUME NEW i \in DOMAIN ready PROVE i \in DOMAIN ready' /\ ready'[i] = ready[i]
    BY <1>9
  <2>4. QED
    BY <2>2, <2>3 DEF Queues
 <1>13. /\ handlersAs' = handlersAs /\ readers' = readers /\ writers' = writers /\ watched' = watched
        /\ gens' = gens /\ live' = live /\ wrong' = wrong /\ closingAs' = closingAs
   BY DEF As!Select
 <1>14. \A i \in DOMAIN ready' : ready'[i] \in Handles => ready'[i] \in watched
   BY <1>1, <1>7, <1>8, <1>10
 <1>15. Sound(As!Loop)'
  <2> DEFINE m == As!Loop'
  <2>1. m \in LoopState /\ m.ready = ready' /\ m.watched = watched /\ m.gens = As!Loop.gens
        /\ m.handlers = handlersAs /\ m.readers = readers /\ m.writers = writers
    BY <1>9, <1>13, LoopIs DEF As!Loop, LoopState
  <2> HIDE DEF m
  <2>2. Sound(m)
    BY <1>11, <1>14, <2>1, LoopIs DEF Sound, Sides
  <2>3. QED
    BY <2>2 DEF m
 <1>16. QED
   BY <1>12, <1>13, <1>15 DEF AsyncioInv

LEMMA AddCallbackKeeps ==
  ASSUME LoopBounds, AsyncioInv, NEW c \in CallbackAs, As!AddCallback(c)
  PROVE  AsyncioInv'
 <1>1. /\ live[c] = "new" /\ live' = [live EXCEPT ![c] = IF closingAs THEN "dropped" ELSE "waiting"]
       /\ ready' = IF closingAs THEN ready ELSE Append(ready, [type |-> "callback", callback |-> c])
       /\ handlersAs' = handlersAs /\ readers' = readers /\ writers' = writers /\ watched' = watched
       /\ gens' = gens /\ wrong' = wrong /\ closingAs' = closingAs
   BY DEF As!AddCallback
 <1>2. closingAs \in BOOLEAN /\ live \in [CallbackAs -> {"new", "waiting", "done", "dropped"}]
   BY DEF AsyncioInv
 <1>3. CASE closingAs
  <2>1. ready' = ready /\ live' = [live EXCEPT ![c] = "dropped"]
    BY <1>1, <1>3
  <2>2. Sound(As!Loop)'
    BY <1>1, <2>1 DEF AsyncioInv, As!Loop
  <2>3. \A d \in CallbackAs : Queues(ready', d) <=> live'[d] = "waiting"
    BY <1>1, <1>2, <2>1 DEF AsyncioInv
  <2>4. QED
    BY <1>1, <1>2, <2>1, <2>2, <2>3 DEF AsyncioInv
 <1>4. CASE ~closingAs
  <2>1. ready' = Append(ready, Entry(c)) /\ live' = [live EXCEPT ![c] = "waiting"]
    BY <1>1, <1>4 DEF Entry
  <2>2. Entry(c) \in Handles \cup Waits /\ Entry(c) \notin Handles /\ ready \in Seq(Handles \cup Waits)
    BY HandleFields, LoopIs
  <2>3. \A i \in DOMAIN ready : ready[i] # Entry(c)
    BY <1>1 DEF AsyncioInv, Queues
  <2>4. /\ ready' \in Seq(Handles \cup Waits) /\ Len(ready) \in Nat /\ DOMAIN ready' = 1..Len(ready) + 1
        /\ DOMAIN ready = 1..Len(ready)
        /\ \A i \in 1..Len(ready) : ready'[i] = ready[i]
        /\ ready'[Len(ready) + 1] = Entry(c)
    BY <2>1, <2>2
  <2>5. \A i \in DOMAIN ready' : \/ i \in DOMAIN ready /\ ready'[i] = ready[i]
                                 \/ i = Len(ready) + 1 /\ ready'[i] = Entry(c)
    BY <2>4
  <2>6. Distinct(ready')
    BY <2>3, <2>5, LoopIs DEF Distinct
  <2>7. \A i \in DOMAIN ready' : ready'[i] \in Handles => ready'[i] \in watched
    BY <2>2, <2>5, LoopIs DEF Sound
  <2>8. Sound(As!Loop)'
   <3> DEFINE m == As!Loop'
   <3>1. m \in LoopState /\ m.ready = ready' /\ m.watched = watched /\ m.gens = As!Loop.gens
         /\ m.handlers = handlersAs /\ m.readers = readers /\ m.writers = writers
     BY <1>1, <2>4, LoopIs DEF As!Loop, LoopState
   <3> HIDE DEF m
   <3>2. Sound(m)
     BY <2>6, <2>7, <3>1, LoopIs DEF Sound, Sides
   <3>3. QED
     BY <3>2 DEF m
  <2>9. \A d \in CallbackAs : Queues(ready', d) <=> Queues(ready, d) \/ d = c
   <3> SUFFICES ASSUME NEW d \in CallbackAs PROVE Queues(ready', d) <=> Queues(ready, d) \/ d = c
     OBVIOUS
   <3>1. Entry(c) = Entry(d) => c = d
     BY HandleFields
   <3>2. QED
     BY <2>4, <2>5, <3>1 DEF Queues
  <2>10. \A d \in CallbackAs : Queues(ready', d) <=> live'[d] = "waiting"
    BY <1>2, <2>1, <2>9 DEF AsyncioInv
  <2>11. QED
    BY <1>1, <1>2, <2>1, <2>8, <2>10 DEF AsyncioInv
 <1>5. QED
   BY <1>2, <1>3, <1>4

LEMMA EmptySound ==
  ASSUME NEW m \in LoopState, m.ready = <<>>, m.watched = {}, m.readers = {}, m.writers = {},
         m.handlers = [fd \in FdAs |-> 0], m.gens <= MaxGenAs
  PROVE  Sound(m)
 <1>1. DOMAIN m.ready = {} /\ m.gens \in Nat
   BY DEF LoopState
 <1>2. Distinct(m.ready)
   BY <1>1 DEF Distinct
 <1>3. QED
   BY <1>1, <1>2 DEF Sound, Sides

LEMMA CloseKeeps ==
  ASSUME LoopBounds, AsyncioInv, As!Close
  PROVE  AsyncioInv'
 <1>1. As!Loop' \in LoopState /\ As!Loop'.gens <= MaxGenAs
   BY DEF As!Close, AsyncioInv, Sound, LoopState, As!Loop
 <1>2. Sound(As!Loop)'
   BY <1>1, EmptySound DEF As!Close, As!Loop
 <1>3. DOMAIN ready' = {}
   BY DEF As!Close
 <1>4. \A c \in CallbackAs : live'[c] # "waiting" /\ live'[c] \in {"new", "waiting", "done", "dropped"}
   BY DEF As!Close, AsyncioInv
 <1>5. QED
   BY <1>2, <1>3, <1>4 DEF As!Close, AsyncioInv, Queues

LEMMA AsyncioInit == LoopBounds /\ As!Init => AsyncioInv
 <1> SUFFICES ASSUME LoopBounds, As!Init PROVE AsyncioInv
   OBVIOUS
 <1>1. As!Loop \in LoopState /\ As!Loop.gens <= MaxGenAs
   BY DEF As!Init, LoopState, As!Loop, LoopBounds
 <1>2. Sound(As!Loop)
   BY <1>1, EmptySound DEF As!Init, As!Loop
 <1>3. DOMAIN ready = {}
   BY DEF As!Init
 <1>4. QED
   BY <1>2, <1>3 DEF As!Init, AsyncioInv, Queues

LEMMA AsyncioStep == LoopBounds /\ AsyncioInv /\ [As!Next]_(As!vars) => AsyncioInv'
 <1> SUFFICES ASSUME LoopBounds, AsyncioInv, [As!Next]_(As!vars) PROVE AsyncioInv'
   OBVIOUS
 <1>1. CASE UNCHANGED As!vars
   BY <1>1 DEF As!vars, AsyncioInv, As!Loop
 <1>2. CASE As!Next
   BY <1>2, OutsideKeeps, SelectKeeps, RunHandleKeeps, RunCallbackKeeps, CloseKeeps,
      AddCallbackKeeps DEF As!Next
 <1>3. QED
   BY <1>1, <1>2

LEMMA AsyncioInvImplies == LoopBounds /\ AsyncioInv => As!TypeOK /\ As!AsyncioSound
 <1> SUFFICES ASSUME LoopBounds, AsyncioInv PROVE As!TypeOK /\ As!AsyncioSound
   OBVIOUS
 <1>1. As!TypeOK
  <2>1. /\ handlersAs \in [FdAs -> Nat] /\ readers \subseteq FdAs /\ writers \subseteq FdAs /\ gens \in Nat
        /\ gens <= MaxGenAs /\ \A fd \in FdAs : handlersAs[fd] <= gens
    BY LoopIs DEF Sound, LoopState, As!Loop
  <2>2. \A fd \in FdAs : handlersAs[fd] \in 0..MaxGenAs
    BY <2>1 DEF LoopBounds
  <2>3. handlersAs \in [FdAs -> 0..MaxGenAs] /\ gens \in 0..MaxGenAs
    BY <2>1, <2>2 DEF LoopBounds
  <2>4. wrong \in BOOLEAN /\ closingAs \in BOOLEAN /\ live \in [CallbackAs -> {"new", "waiting", "done", "dropped"}]
    BY Zenon DEF AsyncioInv
  <2>5. QED
    BY <2>1, <2>3, <2>4, Zenon DEF As!TypeOK
 <1>2. ASSUME NEW h \in watched
       PROVE  /\ h \in Handles /\ h.gen # 0
              /\ \/ h.fd \in readers /\ h = [type |-> "fd", fd |-> h.fd, event |-> "R", gen |-> handlersAs[h.fd]]
                 \/ h.fd \in writers /\ h = [type |-> "fd", fd |-> h.fd, event |-> "W", gen |-> handlersAs[h.fd]]
  <2>1. h \in Handles
    BY LoopIs
  <2>2. h.gen = handlersAs[h.fd] /\ h.fd \in (IF h.event = "R" THEN readers ELSE writers)
    BY <2>1, LoopIs DEF Sound, Sides
  <2>3. handlersAs[h.fd] # 0
    BY <2>1, <2>2, HandleFields, LoopIs DEF Sound
  <2>4. QED
    BY <2>1, <2>2, <2>3, HandleFields
 <1>3. ASSUME NEW fd \in FdAs, NEW event \in {"R", "W"}, fd \in Sides(As!Loop, event)
       PROVE  [type |-> "fd", fd |-> fd, event |-> event, gen |-> handlersAs[fd]] \in watched
  <2> DEFINE h == [type |-> "fd", fd |-> fd, event |-> event, gen |-> handlersAs[fd]]
  <2>1. h \in Handles
    BY LoopIs DEF Handles, As!Events, LoopState
  <2>2. QED
    BY <1>3, <2>1, LoopIs DEF Sound
 <1>4. As!WatchedRight
  <2>1. readers \subseteq FdAs /\ writers \subseteq FdAs
    BY LoopIs DEF LoopState
  <2>2. \A fd \in readers : [type |-> "fd", fd |-> fd, event |-> "R", gen |-> handlersAs[fd]] \in watched
    BY <1>3, <2>1, LoopIs DEF Sides
  <2>3. \A fd \in writers : [type |-> "fd", fd |-> fd, event |-> "W", gen |-> handlersAs[fd]] \in watched
    BY <1>3, <2>1, LoopIs DEF Sides
  <2>4. QED
    BY <1>2, <2>2, <2>3 DEF As!WatchedRight
 <1>5. As!NoLateEvent
   BY <1>2 DEF As!NoLateEvent, AsyncioInv
 <1>6. As!CallbackOnce
  <2> SUFFICES ASSUME NEW c \in CallbackAs
               PROVE  As!Cardinality({i \in 1..Len(ready) : ready[i].type = "callback" /\ ready[i].callback = c})
                        = IF live[c] = "waiting" THEN 1 ELSE 0
    BY DEF As!CallbackOnce
  <2> DEFINE S == {i \in 1..Len(ready) : ready[i].type = "callback" /\ ready[i].callback = c}
  <2>1. DOMAIN ready = 1..Len(ready) /\ ready \in Seq(Handles \cup Waits) /\ Distinct(ready)
    BY LoopIs
  <2>2. \A i \in DOMAIN ready : i \in S <=> ready[i] = Entry(c)
   <3> SUFFICES ASSUME NEW i \in DOMAIN ready
                PROVE  ready[i].type = "callback" /\ ready[i].callback = c <=> ready[i] = Entry(c)
     BY <2>1
   <3>1. ready[i] \in Handles \cup Waits
     BY <2>1
   <3>2. Entry(c).type = "callback" /\ Entry(c).callback = c
     BY DEF Entry
   <3>3. CASE ready[i] \in Handles
     BY <3>2, <3>3, HandleFields
   <3>4. CASE ready[i] \in Waits
     BY <3>2, <3>4, HandleFields
   <3>5. QED
     BY <3>1, <3>3, <3>4
  <2>3. S \subseteq DOMAIN ready
    BY <2>1
  <2> HIDE DEF S
  <2>4. Queues(ready, c) <=> live[c] = "waiting"
    BY DEF AsyncioInv
  <2>5. CASE live[c] = "waiting"
   <3>1. PICK i \in DOMAIN ready : ready[i] = Entry(c)
     BY <2>4, <2>5 DEF Queues
   <3>2. S = {i}
     BY <2>1, <2>2, <2>3, <3>1 DEF Distinct
   <3>3. QED
     BY <2>5, <3>2, FS_Singleton, SameCardinalityAs DEF S
  <2>6. CASE live[c] # "waiting"
   <3>1. S = {}
     BY <2>2, <2>3, <2>4, <2>6 DEF Queues
   <3>2. QED
     BY <2>6, <3>1, FS_EmptySet, SameCardinalityAs DEF S
  <2>7. QED
    BY <2>5, <2>6
 <1>7. QED
   BY <1>1, <1>4, <1>5, <1>6 DEF As!AsyncioSound

(* The loop on asyncio: readers and writers say what is watched, no        *)
(* handler is called for an event of another or of one that was removed,   *)
(* and every callback waits once until it was run or dropped by close,     *)
(* however descriptors are closed, used again and changed meanwhile.       *)
THEOREM AsyncioIsSound == LoopBounds => (As!Spec => [](As!TypeOK /\ As!AsyncioSound))
 <1> SUFFICES ASSUME LoopBounds PROVE As!Spec => [](As!TypeOK /\ As!AsyncioSound)
   OBVIOUS
 <1>1. As!Init => AsyncioInv
   BY AsyncioInit
 <1>2. AsyncioInv /\ [As!Next]_(As!vars) => AsyncioInv'
   BY AsyncioStep
 <1>3. AsyncioInv => As!TypeOK /\ As!AsyncioSound
   BY AsyncioInvImplies
 <1>4. QED
   BY <1>1, <1>2, <1>3, PTL DEF As!Spec

HIDE DEF handlersAs, readers, writers, watched, ready, gens, live, wrong, closingAs

-----------------------------------------------------------------------------
(* A periodic callback                                                     *)

Pc == INSTANCE PeriodicCallbacks WITH
       MaxTime <- MaxTimePc, running <- v1, next <- v2, armed <- v3, timeout <- v4,
       calls <- v5, now <- v6, base <- v7, doubled <- v8

(* Its variables. *)
runningPc == v1
next == v2
armedPc == v3
timeout == v4
calls == v5
nowPc == v6
base == v7
doubled == v8

USE DEF runningPc, next, armedPc, timeout, calls, nowPc, base, doubled

LEMMA SameCardinalityPc == \A S : Pc!Cardinality(S) = Cardinality(S)
  BY DEF Pc!Cardinality, Cardinality

(* 0 stands for no timer. *)
PeriodicBounds == Period \in Nat \ {0} /\ MaxTimePc \in Nat /\ 0 \notin Timers

Divides(x) == \E k \in Int : x = k * Period

PeriodicTyped ==
  /\ runningPc \in BOOLEAN /\ doubled \in BOOLEAN
  /\ next \in Nat /\ next <= MaxTimePc + Period
  /\ nowPc \in Nat /\ nowPc <= MaxTimePc /\ base \in Nat /\ base <= nowPc
  /\ \A t \in Timers : armedPc[t] \in Int /\ -1 <= armedPc[t] /\ armedPc[t] <= MaxTimePc + Period
  /\ DOMAIN armedPc = Timers /\ armedPc = [t \in Timers |-> armedPc[t]]
  /\ timeout \in Timers \cup {0} /\ calls \in {0, 1}

(* The one timer, or the call that will arm it, keeps to the schedule.     *)
OnTime ==
  /\ \A t \in Timers : armedPc[t] # -1 => /\ t = timeout /\ armedPc[t] = next /\ runningPc /\ calls = 0
                                          /\ next <= nowPc + Period /\ Divides(next - base)
  /\ calls = 1 => next <= nowPc /\ Divides(next - base)

PeriodicInv == PeriodicTyped /\ (~doubled => OnTime)

LEMMA DividesIs == ASSUME PeriodicBounds, NEW x \in Int, Divides(x) PROVE x % Period = 0 /\ Divides(x + Period)
 <1>1. PICK k \in Int : x = k * Period
   BY DEF Divides
 <1>2. Period \in Nat \ {0} /\ k + 1 \in Int /\ x + Period = (k + 1) * Period
   BY <1>1 DEF PeriodicBounds
 <1>3. QED
   BY <1>1, <1>2 DEF Divides

(* The schedule goes on at its next moment that is still to come. *)
LEMMA AfterIs ==
  ASSUME PeriodicBounds, NEW from \in Nat, NEW time \in Nat
  PROVE  /\ Pc!After(from, time) \in Nat /\ Pc!After(from, time) > time
         /\ from <= time + Period => Pc!After(from, time) <= time + Period
         /\ Pc!After(from, time) = from \/ Pc!After(from, time) <= time + Period
         /\ \A b \in Int : Divides(from - b) => Divides(Pc!After(from, time) - b)
 <1>1. Period \in Nat \ {0}
   BY DEF PeriodicBounds
 <1>2. CASE from <= time
  <2> DEFINE q == (time - from) \div Period
  <2>1. /\ q \in Nat /\ q * Period \in Int /\ q * Period <= time - from
        /\ time - from < q * Period + Period
    BY <1>1, <1>2
  <2>2. Pc!After(from, time) = from + (q + 1) * Period
    BY <1>2 DEF Pc!After
  <2> HIDE DEF q
  <2>3. (q + 1) * Period = q * Period + Period
    BY <1>1, <2>1
  <2>4. q * Period >= 0
    BY <1>1, <2>1
  <2>5. ASSUME NEW b \in Int, Divides(from - b) PROVE Divides(Pc!After(from, time) - b)
   <3>1. PICK k \in Int : from - b = k * Period
     BY <2>5 DEF Divides
   <3>2. Pc!After(from, time) - b = k * Period + (q + 1) * Period
     BY <1>1, <2>1, <2>2, <2>3, <3>1
   <3>3. k * Period + (q + 1) * Period = (k + (q + 1)) * Period /\ k + (q + 1) \in Int
     BY <1>1, <2>1
   <3>4. QED
     BY <3>2, <3>3 DEF Divides
  <2>6. QED
    BY <1>1, <1>2, <2>1, <2>2, <2>3, <2>4, <2>5
 <1>3. CASE ~(from <= time)
   BY <1>1, <1>3 DEF Pc!After
 <1>4. QED
   BY <1>2, <1>3

LEMMA PeriodicInit == PeriodicBounds /\ Pc!Init => PeriodicInv
 <1> SUFFICES ASSUME PeriodicBounds, Pc!Init PROVE PeriodicInv
   OBVIOUS
 <1>1. /\ runningPc = FALSE /\ doubled = FALSE /\ next = 0 /\ nowPc = 0 /\ base = 0 /\ timeout = 0 /\ calls = 0
       /\ armedPc = [t \in Timers |-> -1]
       /\ Period \in Nat /\ MaxTimePc \in Nat
   BY DEF Pc!Init, PeriodicBounds
 <1>2. PeriodicTyped
  <2>1. \A t \in Timers : armedPc[t] = -1
    BY <1>1
  <2>2. /\ next <= MaxTimePc + Period /\ base <= nowPc /\ nowPc <= MaxTimePc
        /\ -1 \in Int /\ -1 <= -1 /\ -1 <= MaxTimePc + Period /\ next \in Nat /\ nowPc \in Nat /\ base \in Nat
    BY <1>1
  <2>3. armedPc = [t \in Timers |-> armedPc[t]] /\ DOMAIN armedPc = Timers
    BY <1>1
  <2>4. QED
    BY <1>1, <2>1, <2>2, <2>3, Zenon DEF PeriodicTyped
 <1>3. OnTime
   BY <1>1 DEF OnTime
 <1>4. QED
   BY <1>2, <1>3 DEF PeriodicInv

LEMMA ScheduleIs ==
  ASSUME PeriodicBounds, PeriodicTyped, NEW from \in Nat, from <= nowPc + Period \/ from <= MaxTimePc + Period, Pc!Schedule(from)
  PROVE  /\ next' = Pc!After(from, nowPc) /\ next' \in Nat /\ next' > nowPc /\ next' <= MaxTimePc + Period
         /\ \E t \in Timers : /\ t \notin Pc!Armed /\ timeout' = t
                              /\ armedPc' = [armedPc EXCEPT ![t] = next']
 <1>1. /\ next' = Pc!After(from, nowPc) /\ next' \in Nat /\ next' > nowPc
       /\ Pc!After(from, nowPc) = from \/ Pc!After(from, nowPc) <= nowPc + Period
       /\ nowPc \in Nat /\ nowPc <= MaxTimePc /\ Period \in Nat /\ MaxTimePc \in Nat
   BY AfterIs DEF Pc!Schedule, PeriodicTyped, PeriodicBounds
 <1>2. next' <= MaxTimePc + Period
   BY <1>1
 <1>3. PICK t \in Timers \ Pc!Armed : armedPc' = [armedPc EXCEPT ![t] = Pc!After(from, nowPc)] /\ timeout' = t
   BY DEF Pc!Schedule
 <1>4. QED
   BY <1>1, <1>2, <1>3

LEMMA StartKeeps ==
  ASSUME PeriodicBounds, PeriodicInv, Pc!Start
  PROVE  PeriodicInv' /\ Pc!ArmsOnSchedule
 <1>1. PeriodicTyped /\ nowPc \in Nat /\ nowPc <= nowPc + Period /\ Period \in Nat
   BY DEF PeriodicInv, PeriodicTyped, PeriodicBounds
 <1>2. /\ next' = Pc!After(nowPc, nowPc) /\ next' \in Nat /\ next' > nowPc /\ next' <= MaxTimePc + Period
       /\ \E t \in Timers : /\ t \notin Pc!Armed /\ timeout' = t
                            /\ armedPc' = [armedPc EXCEPT ![t] = next']
   BY <1>1, ScheduleIs DEF Pc!Start
 <1>3. PICK t \in Timers : t \notin Pc!Armed /\ timeout' = t /\ armedPc' = [armedPc EXCEPT ![t] = next']
   BY <1>2
 <1>4. armedPc'[t] = next' /\ \A u \in Timers : u # t => armedPc'[u] = armedPc[u]
   BY <1>1, <1>3 DEF PeriodicTyped
 <1>5. /\ runningPc' = TRUE /\ base' = nowPc /\ calls' = calls /\ nowPc' = nowPc
       /\ doubled' = (doubled \/ Pc!Armed # {} \/ calls > 0)
   BY DEF Pc!Start
 <1>6. PeriodicTyped'
  <2>1. DOMAIN armedPc' = Timers /\ armedPc' = [u \in Timers |-> armedPc'[u]]
    BY <1>1, <1>3 DEF PeriodicTyped
  <2>2. \A u \in Timers : armedPc'[u] \in Int /\ -1 <= armedPc'[u] /\ armedPc'[u] <= MaxTimePc + Period
    BY <1>1, <1>2, <1>4 DEF PeriodicTyped
  <2>3. QED
    BY <1>1, <1>2, <1>3, <1>5, <2>1, <2>2 DEF PeriodicTyped
 <1>7. Divides(next' - base') /\ next' <= nowPc + Period
  <2>1. Divides(nowPc - nowPc)
    BY <1>1 DEF Divides
  <2>2. QED
    BY <1>1, <1>2, <1>5, <2>1, AfterIs
 <1>8. ASSUME ~doubled' PROVE Pc!Armed = {} /\ calls = 0
  <2>1. Pc!Armed = {} /\ ~(calls > 0)
    BY <1>5, <1>8, Zenon
  <2>2. QED
    BY <1>1, <2>1 DEF PeriodicTyped
 <1>9. ASSUME ~doubled' PROVE OnTime'
  <2>1. \A u \in Timers : armedPc'[u] # -1 => u = t
    BY <1>4, <1>8, <1>9 DEF Pc!Armed
  <2>2. QED
    BY <1>3, <1>4, <1>5, <1>7, <1>8, <1>9, <2>1 DEF OnTime
 <1>10. Pc!ArmsOnSchedule
  <2>1. (next' - base') % Period = 0
    BY <1>1, <1>2, <1>5, <1>7, DividesIs
  <2>2. \A u \in Timers : armedPc[u] # armedPc'[u] => armedPc'[u] = next'
    BY <1>4
  <2>3. next' \in nowPc + 1..nowPc + Period
    BY <1>1, <1>2, <1>7
  <2>4. QED
    BY <2>1, <2>2, <2>3 DEF Pc!ArmsOnSchedule
 <1>11. QED
   BY <1>6, <1>9, <1>10 DEF PeriodicInv

LEMMA StopKeeps ==
  ASSUME PeriodicBounds, PeriodicInv, Pc!Stop
  PROVE  PeriodicInv' /\ Pc!ArmsOnSchedule
 <1>1. /\ runningPc' = FALSE /\ timeout' = 0 /\ next' = next /\ calls' = calls /\ nowPc' = nowPc /\ base' = base
       /\ armedPc' = IF timeout # 0 THEN [armedPc EXCEPT ![timeout] = -1] ELSE armedPc
       /\ doubled' = (doubled /\ (Pc!Armed \ {timeout} # {} \/ calls > 0))
   BY DEF Pc!Stop
 <1>2. PeriodicTyped
   BY DEF PeriodicInv
 <1>3. \A u \in Timers : armedPc'[u] = IF u = timeout THEN -1 ELSE armedPc[u]
   BY <1>1, <1>2 DEF PeriodicTyped, PeriodicBounds
 <1>4. PeriodicTyped'
  <2>1. DOMAIN armedPc' = Timers /\ armedPc' = [u \in Timers |-> armedPc'[u]]
    BY <1>1, <1>2 DEF PeriodicTyped
  <2>2. \A u \in Timers : armedPc'[u] \in Int /\ -1 <= armedPc'[u] /\ armedPc'[u] <= MaxTimePc + Period
    BY <1>2, <1>3 DEF PeriodicTyped, PeriodicBounds
  <2>3. QED
    BY <1>1, <1>2, <2>1, <2>2 DEF PeriodicTyped
 <1>5. ASSUME ~doubled' PROVE OnTime'
  <2>1. \A u \in Timers : armedPc'[u] = -1
    BY <1>1, <1>3, <1>5 DEF PeriodicInv, OnTime, Pc!Armed
  <2>2. calls = 1 => ~doubled
   <3>1. calls = 1 => calls > 0
     OBVIOUS
   <3>2. QED
     BY <1>1, <1>5, <3>1, Zenon
  <2>3. QED
    BY <1>1, <2>1, <2>2 DEF PeriodicInv, OnTime
 <1>6. Pc!ArmsOnSchedule
   BY <1>3 DEF Pc!ArmsOnSchedule
 <1>7. QED
   BY <1>4, <1>5, <1>6 DEF PeriodicInv

LEMMA FireKeeps ==
  ASSUME PeriodicBounds, PeriodicInv, NEW t \in Timers, Pc!Fire(t)
  PROVE  PeriodicInv' /\ Pc!ArmsOnSchedule
 <1>1. /\ calls = 0 /\ armedPc[t] \in 0..nowPc /\ armedPc' = [armedPc EXCEPT ![t] = -1]
       /\ calls' = IF runningPc THEN 1 ELSE 0
       /\ runningPc' = runningPc /\ next' = next /\ timeout' = timeout /\ nowPc' = nowPc /\ base' = base
       /\ doubled' = doubled
   BY DEF Pc!Fire
 <1>2. PeriodicTyped
   BY DEF PeriodicInv
 <1>3. \A u \in Timers : armedPc'[u] = IF u = t THEN -1 ELSE armedPc[u]
   BY <1>1, <1>2 DEF PeriodicTyped
 <1>4. PeriodicTyped'
  <2>1. DOMAIN armedPc' = Timers /\ armedPc' = [u \in Timers |-> armedPc'[u]]
    BY <1>1, <1>2 DEF PeriodicTyped
  <2>2. \A u \in Timers : armedPc'[u] \in Int /\ -1 <= armedPc'[u] /\ armedPc'[u] <= MaxTimePc + Period
    BY <1>2, <1>3 DEF PeriodicTyped, PeriodicBounds
  <2>3. QED
    BY <1>1, <1>2, <2>1, <2>2 DEF PeriodicTyped
 <1>5. ASSUME ~doubled' PROVE OnTime'
  <2>1. t = timeout /\ next <= nowPc /\ Divides(next - base)
    BY <1>1, <1>2, <1>5 DEF PeriodicInv, OnTime, PeriodicTyped
  <2>2. \A u \in Timers : armedPc'[u] = -1
    BY <1>1, <1>3, <1>5, <2>1 DEF PeriodicInv, OnTime
  <2>3. QED
    BY <1>1, <2>1, <2>2 DEF OnTime
 <1>6. Pc!ArmsOnSchedule
   BY <1>3 DEF Pc!ArmsOnSchedule
 <1>7. QED
   BY <1>4, <1>5, <1>6 DEF PeriodicInv

LEMMA ReturnKeeps ==
  ASSUME PeriodicBounds, PeriodicInv, Pc!Return
  PROVE  PeriodicInv' /\ Pc!ArmsOnSchedule
 <1>1. /\ calls > 0 /\ calls' = 0 /\ runningPc' = runningPc /\ nowPc' = nowPc /\ base' = base /\ doubled' = doubled
   BY DEF Pc!Return
 <1>2. PeriodicTyped /\ calls = 1
   BY <1>1 DEF PeriodicInv, PeriodicTyped
 <1>3. CASE ~runningPc
  <2>1. next' = next /\ armedPc' = armedPc /\ timeout' = timeout
    BY <1>3 DEF Pc!Return
  <2>2. PeriodicTyped'
    BY <1>1, <1>2, <2>1 DEF PeriodicTyped
  <2>3. ~doubled' => OnTime'
    BY <1>1, <1>2, <2>1 DEF PeriodicInv, OnTime
  <2>4. Pc!ArmsOnSchedule
    BY <2>1 DEF Pc!ArmsOnSchedule
  <2>5. QED
    BY <2>2, <2>3, <2>4 DEF PeriodicInv
 <1>4. CASE runningPc
  <2>1. next \in Nat /\ next <= MaxTimePc + Period /\ nowPc \in Nat /\ base \in Nat /\ Period \in Nat
    BY <1>2 DEF PeriodicTyped, PeriodicBounds
  <2>2. /\ next' = Pc!After(next, nowPc) /\ next' \in Nat /\ next' > nowPc /\ next' <= MaxTimePc + Period
        /\ \E t \in Timers : /\ t \notin Pc!Armed /\ timeout' = t
                             /\ armedPc' = [armedPc EXCEPT ![t] = next']
    BY <1>2, <1>4, <2>1, ScheduleIs DEF Pc!Return
  <2>3. PICK t \in Timers : t \notin Pc!Armed /\ timeout' = t /\ armedPc' = [armedPc EXCEPT ![t] = next']
    BY <2>2
  <2>4. armedPc'[t] = next' /\ \A u \in Timers : u # t => armedPc'[u] = armedPc[u]
    BY <1>2, <2>3 DEF PeriodicTyped
  <2>5. PeriodicTyped'
   <3>1. DOMAIN armedPc' = Timers /\ armedPc' = [u \in Timers |-> armedPc'[u]]
     BY <1>2, <2>3 DEF PeriodicTyped
   <3>2. \A u \in Timers : armedPc'[u] \in Int /\ -1 <= armedPc'[u] /\ armedPc'[u] <= MaxTimePc + Period
     BY <1>2, <2>2, <2>4 DEF PeriodicTyped
   <3>3. QED
     BY <1>1, <1>2, <2>2, <2>3, <3>1, <3>2 DEF PeriodicTyped
  <2>6. ASSUME ~doubled'
        PROVE  /\ Divides(next' - base) /\ next' <= nowPc + Period
               /\ \A u \in Timers : armedPc[u] = -1
   <3>1. next <= nowPc /\ Divides(next - base) /\ \A u \in Timers : armedPc[u] = -1
     BY <1>1, <1>2, <2>6 DEF PeriodicInv, OnTime
   <3>2. next <= nowPc + Period
     BY <2>1, <3>1
   <3>3. QED
     BY <2>1, <2>2, <3>1, <3>2, AfterIs
  <2>7. ~doubled' => OnTime'
    BY <1>1, <1>4, <2>3, <2>4, <2>6 DEF OnTime
  <2>8. ASSUME ~doubled' PROVE (next' - base') % Period = 0 /\ next' \in nowPc + 1..nowPc + Period
    BY <1>1, <2>1, <2>2, <2>6, <2>8, DividesIs
  <2>9. Pc!ArmsOnSchedule
    BY <2>4, <2>8 DEF Pc!ArmsOnSchedule
  <2>10. QED
    BY <2>5, <2>7, <2>9 DEF PeriodicInv
 <1>5. QED
   BY <1>2, <1>3, <1>4 DEF PeriodicTyped

LEMMA StillWithin == \A a, b, n, p \in Nat : a >= b => /\ n <= b + p => n <= a + p
                                                       /\ n <= b => n <= a
  OBVIOUS

LEMMA TickKeeps ==
  ASSUME PeriodicBounds, PeriodicInv, Pc!Tick \/ UNCHANGED Pc!vars
  PROVE  PeriodicInv' /\ Pc!ArmsOnSchedule
 <1>1. /\ runningPc' = runningPc /\ next' = next /\ armedPc' = armedPc /\ timeout' = timeout /\ calls' = calls
       /\ base' = base /\ doubled' = doubled
       /\ nowPc' = nowPc \/ (nowPc < MaxTimePc /\ nowPc' = nowPc + 1)
   BY DEF Pc!Tick, Pc!vars
 <1>2. nowPc' \in Nat /\ nowPc' >= nowPc /\ nowPc' <= MaxTimePc /\ nowPc \in Nat /\ next \in Nat /\ Period \in Nat
   BY <1>1 DEF PeriodicInv, PeriodicTyped, PeriodicBounds
 <1>3. PeriodicTyped'
   BY <1>1, <1>2 DEF PeriodicInv, PeriodicTyped
 <1>4. ASSUME ~doubled' PROVE OnTime'
  <2>1. OnTime
    BY <1>1, <1>4 DEF PeriodicInv
  <2>2. /\ next <= nowPc + Period => next <= nowPc' + Period
        /\ next <= nowPc => next <= nowPc'
    BY <1>2, StillWithin, Zenon
  <2>3. QED
    BY <1>1, <2>1, <2>2, Zenon DEF OnTime
 <1>5. Pc!ArmsOnSchedule
   BY <1>1 DEF Pc!ArmsOnSchedule
 <1>6. QED
   BY <1>3, <1>4, <1>5 DEF PeriodicInv

LEMMA PeriodicStep == PeriodicBounds /\ PeriodicInv /\ [Pc!Next]_(Pc!vars) => PeriodicInv' /\ Pc!ArmsOnSchedule
  BY StartKeeps, StopKeeps, FireKeeps, ReturnKeeps, TickKeeps DEF Pc!Next

LEMMA PeriodicInvImplies == PeriodicBounds /\ PeriodicInv => Pc!TypeOK /\ Pc!OneTimer
 <1> SUFFICES ASSUME PeriodicBounds, PeriodicInv PROVE Pc!TypeOK /\ Pc!OneTimer
   OBVIOUS
 <1>1. Pc!TypeOK
  <2>1. armedPc \in [Timers -> -1..MaxTimePc + Period]
    BY DEF PeriodicInv, PeriodicTyped, PeriodicBounds
  <2>2. next \in 0..MaxTimePc + Period /\ nowPc \in 0..MaxTimePc /\ base \in 0..nowPc /\ calls \in 0..1
    BY DEF PeriodicInv, PeriodicTyped, PeriodicBounds
  <2>3. QED
    BY <2>1, <2>2 DEF PeriodicInv, PeriodicTyped, Pc!TypeOK
 <1>2. ASSUME ~doubled PROVE Pc!Armed \subseteq {timeout} /\ (~runningPc => Pc!Armed = {})
   BY <1>2 DEF PeriodicInv, OnTime, Pc!Armed
 <1>3. ASSUME ~doubled PROVE Pc!Cardinality(Pc!Armed) <= 1
  <2>1. IsFiniteSet({timeout}) /\ Pc!Cardinality({timeout}) = 1
    BY FS_Singleton, SameCardinalityPc
  <2>2. Pc!Cardinality(Pc!Armed) <= Pc!Cardinality({timeout})
    BY <1>2, <1>3, <2>1, FS_Subset, SameCardinalityPc
  <2>3. QED
    BY <2>1, <2>2
 <1>4. QED
   BY <1>1, <1>2, <1>3 DEF Pc!OneTimer

(* A periodic callback has one timer, the one that stop() reaches, and is  *)
(* called on the schedule that start() began, whatever it and others do    *)
(* meanwhile but to start() it twice.                                      *)
THEOREM OnePeriodicTimer == PeriodicBounds => (Pc!Spec => [](Pc!TypeOK /\ Pc!OneTimer) /\ Pc!OnSchedule)
 <1> SUFFICES ASSUME PeriodicBounds PROVE Pc!Spec => [](Pc!TypeOK /\ Pc!OneTimer) /\ Pc!OnSchedule
   OBVIOUS
 <1>1. Pc!Init => PeriodicInv
   BY PeriodicInit
 <1>2. PeriodicInv /\ [Pc!Next]_(Pc!vars) => PeriodicInv' /\ [Pc!ArmsOnSchedule]_(Pc!vars)
   BY PeriodicStep
 <1>3. PeriodicInv => Pc!TypeOK /\ Pc!OneTimer
   BY PeriodicInvImplies
 <1>4. QED
   BY <1>1, <1>2, <1>3, PTL DEF Pc!Spec, Pc!OnSchedule

HIDE DEF runningPc, next, armedPc, timeout, calls, nowPc, base, doubled

-----------------------------------------------------------------------------
(* Calls of run_sync                                                       *)

Rs == INSTANCE RunSync WITH
       MaxCalls <- MaxCallsRs, MaxTime <- MaxTimeRs, call <- v1, at <- v2,
       queue <- v3, left <- v4, running <- v5, future <- v6, deadline <- v7,
       ripe <- v8, now <- v9, outcome <- v10

(* Its variables. *)
callRs == v1
at == v2
queueRs == v3
left == v4
runningRs == v5
future == v6
deadlineRs == v7
ripe == v8
nowRs == v9
outcome == v10

USE DEF callRs, at, queueRs, left, runningRs, future, deadlineRs, ripe, nowRs,
        outcome

CallCounts == MaxCallsRs \in Nat /\ MaxTimeRs \in Nat

(* What may be queued once n calls were made. *)
Queued(n) == {Rs!Run, Rs!Work} \cup {Rs!StopOf(k) : k \in 1..n} \cup {Rs!RelayOf(k) : k \in 1..n}

SyncTyped ==
  /\ callRs \in Nat /\ callRs <= MaxCallsRs /\ at \in {"out", "batch", "due", "wait"}
  /\ queueRs \in Seq(Queued(callRs))
  /\ left \in 0..Len(queueRs) /\ runningRs \in BOOLEAN /\ ripe \in BOOLEAN
  /\ future \in {"none", "pending", "done", "cancelled"}
  /\ deadlineRs \in Int /\ -1 <= deadlineRs /\ deadlineRs <= MaxTimeRs
  /\ nowRs \in Nat /\ nowRs <= MaxTimeRs
  /\ outcome \in {"none", "result", "timeout"}

(* run() is queued once, is run in the batch of the loop it was queued     *)
(* for, and makes the future.                                              *)
RunOnce ==
  /\ \A i, j \in DOMAIN queueRs : queueRs[i] = Rs!Run /\ queueRs[j] = Rs!Run => i = j
  /\ \A i \in DOMAIN queueRs : queueRs[i] = Rs!Run =>
       future = "none" /\ at \in {"wait", "batch"} /\ (at = "batch" => i <= left)

(* One stop, or what will queue it, comes of a future that is done, and    *)
(* the loop runs until it was called.                                      *)
OneEnding ==
  /\ \A n \in 1..callRs : \A i, j \in Rs!Ending(n) : i = j
  /\ future \in {"none", "pending"} => Rs!Ending(callRs) = {}
  /\ future \in {"done", "cancelled"} /\ runningRs => Rs!Ending(callRs) # {}
  /\ at = "wait" => runningRs
  /\ at # "out" => callRs >= 1
  /\ outcome # "none" => at = "out"
  /\ outcome = "result" => future = "done"

SyncInv == SyncTyped /\ RunOnce /\ OneEnding

LEMMA SyncInvImplies == SyncInv /\ CallCounts => Rs!TypeOK /\ Rs!CallsEnd
 <1> SUFFICES ASSUME SyncInv, CallCounts PROVE Rs!TypeOK /\ Rs!CallsEnd
   OBVIOUS
 <1>1. Rs!TypeOK
   BY DEF SyncInv, SyncTyped, Queued, Rs!TypeOK, CallCounts
 <1>2. Rs!CallsEnd
   BY DEF SyncInv, SyncTyped, OneEnding, Rs!CallsEnd
 <1>3. QED
   BY <1>1, <1>2

(* What is queued, told apart. *)
LEMMA QueuedApart ==
  ASSUME NEW m \in Nat
  PROVE  /\ Rs!Run \in Queued(m) /\ Rs!Work \in Queued(m) /\ Rs!Run # Rs!Work
         /\ \A n \in 1..m : /\ Rs!StopOf(n) \in Queued(m) /\ Rs!RelayOf(n) \in Queued(m)
                            /\ Rs!StopOf(n) \notin {Rs!Run, Rs!Work} /\ Rs!RelayOf(n) \notin {Rs!Run, Rs!Work}
         /\ \A n, k \in 1..m : /\ Rs!StopOf(n) # Rs!RelayOf(k)
                               /\ Rs!StopOf(n) = Rs!StopOf(k) => n = k
                               /\ Rs!RelayOf(n) = Rs!RelayOf(k) => n = k
         /\ \A x \in Queued(m) : /\ x.what = "stop" => \E n \in 1..m : x = Rs!StopOf(n) /\ x.of = n
                                 /\ x.what = "relay" => \E n \in 1..m : x = Rs!RelayOf(n) /\ x.of = n
 <1>1. /\ Rs!Run \in Queued(m) /\ Rs!Work \in Queued(m) /\ Rs!Run # Rs!Work
       /\ \A n \in 1..m : Rs!StopOf(n) \in Queued(m) /\ Rs!RelayOf(n) \in Queued(m)
   BY DEF Queued, Rs!Run, Rs!Work
 <1>2. \A n, k \in 1..m : /\ Rs!StopOf(n) \notin {Rs!Run, Rs!Work} /\ Rs!RelayOf(n) \notin {Rs!Run, Rs!Work}
                          /\ Rs!StopOf(n) # Rs!RelayOf(k)
                          /\ Rs!StopOf(n) = Rs!StopOf(k) => n = k
                          /\ Rs!RelayOf(n) = Rs!RelayOf(k) => n = k
   BY DEF Rs!Run, Rs!Work, Rs!StopOf, Rs!RelayOf
 <1>3. ASSUME NEW x \in Queued(m)
       PROVE  /\ x.what = "stop" => \E n \in 1..m : x = Rs!StopOf(n) /\ x.of = n
              /\ x.what = "relay" => \E n \in 1..m : x = Rs!RelayOf(n) /\ x.of = n
   BY DEF Queued, Rs!Run, Rs!Work, Rs!StopOf, Rs!RelayOf
 <1>4. QED
   BY <1>1, <1>2, <1>3

LEMMA InitSync == CallCounts /\ Rs!Init => SyncInv
 <1> SUFFICES ASSUME CallCounts, Rs!Init PROVE SyncInv
   OBVIOUS
 <1>1. queueRs \in Seq(Queued(callRs)) /\ DOMAIN queueRs = {} /\ Len(queueRs) = 0
   BY DEF Rs!Init
 <1>2. SyncTyped
  <2>1. /\ callRs \in Nat /\ callRs <= MaxCallsRs /\ at = "out" /\ left = 0 /\ runningRs = FALSE /\ ripe = FALSE
        /\ future = "none" /\ deadlineRs = -1 /\ deadlineRs <= MaxTimeRs /\ nowRs \in Nat /\ nowRs <= MaxTimeRs
        /\ outcome = "none"
    BY DEF Rs!Init, CallCounts
  <2>2. left \in 0..Len(queueRs) /\ deadlineRs \in Int /\ -1 <= deadlineRs
    BY <1>1, <2>1
  <2>3. QED
    BY <1>1, <2>1, <2>2, Zenon DEF SyncTyped
 <1>3. \A n : Rs!Ending(n) = {}
   BY <1>1 DEF Rs!Ending
 <1>4. QED
   BY <1>1, <1>2, <1>3 DEF Rs!Init, SyncInv, RunOnce, OneEnding

LEMMA RunSyncKeeps ==
  ASSUME CallCounts, SyncInv, Rs!RunSync
  PROVE  SyncInv'
 <1>1. PICK others \in {<<>>, <<Rs!Work>>} : queueRs' = queueRs \o <<Rs!Run>> \o others
   BY DEF Rs!RunSync
 <1>2. /\ callRs \in Nat /\ queueRs \in Seq(Queued(callRs)) /\ callRs' = callRs + 1 /\ callRs < MaxCallsRs
       /\ at = "out" /\ at' = "wait" /\ left' = left /\ left \in 0..Len(queueRs)
       /\ future' = "none" /\ runningRs' = TRUE /\ outcome' = "none"
   BY DEF Rs!RunSync, SyncInv, SyncTyped
 <1>3. Queued(callRs) \subseteq Queued(callRs + 1) /\ Rs!Run \in Queued(callRs + 1) /\ Rs!Work \in Queued(callRs + 1)
   BY <1>2 DEF Queued
 <1>4. queueRs \in Seq(Queued(callRs + 1))
   BY <1>2, <1>3
 <1>5. /\ queueRs' \in Seq(Queued(callRs'))
       /\ Len(queueRs') \in {Len(queueRs) + 1, Len(queueRs) + 2}
       /\ \A i \in 1..Len(queueRs) : queueRs'[i] = queueRs[i]
       /\ queueRs'[Len(queueRs) + 1] = Rs!Run
       /\ Len(queueRs') = Len(queueRs) + 2 => queueRs'[Len(queueRs) + 2] = Rs!Work
  <2>1. CASE others = <<>>
   <3>1. queueRs' = Append(queueRs, Rs!Run)
     BY <1>1, <2>1, <1>4
   <3>2. QED
     BY <3>1, <1>2, <1>3, <1>4
  <2>2. CASE others = <<Rs!Work>>
   <3>1. queueRs' = Append(Append(queueRs, Rs!Run), Rs!Work)
    <4> DEFINE q == queueRs \o <<Rs!Run>>
    <4>1. q = Append(queueRs, Rs!Run)
      BY <1>4
    <4>2. q \in Seq(Queued(callRs + 1)) /\ queueRs' = q \o <<Rs!Work>>
      BY <1>1, <1>3, <1>4, <2>2, <4>1
    <4> HIDE DEF q
    <4>3. queueRs' = Append(q, Rs!Work)
      BY <4>2
    <4>4. QED
      BY <4>1, <4>3
   <3>2. Append(queueRs, Rs!Run) \in Seq(Queued(callRs + 1))
     BY <1>3, <1>4
   <3>3. QED
     BY <3>1, <3>2, <1>2, <1>3, <1>4
  <2>3. QED
    BY <1>1, <2>1, <2>2
 <1>6. \A i \in DOMAIN queueRs : queueRs[i] # Rs!Run
   BY <1>2 DEF SyncInv, RunOnce
 <1>7. Rs!Run # Rs!Work /\ \A n \in 1..callRs' : Rs!StopOf(n) \notin {Rs!Run, Rs!Work} /\ Rs!RelayOf(n) \notin {Rs!Run, Rs!Work}
   BY <1>2, QueuedApart
 <1>8. RunOnce'
  <2>1. \A i \in DOMAIN queueRs' : queueRs'[i] = Rs!Run => i = Len(queueRs) + 1
    BY <1>2, <1>5, <1>6, <1>7
  <2>2. QED
    BY <1>2, <2>1 DEF RunOnce
 <1>9. \A n \in 1..callRs' : Rs!Ending(n)' \subseteq Rs!Ending(n)
  <2> SUFFICES ASSUME NEW n \in 1..callRs', NEW i \in Rs!Ending(n)' PROVE i \in Rs!Ending(n)
    OBVIOUS
  <2>1. i \in DOMAIN queueRs' /\ queueRs'[i] \in {Rs!StopOf(n), Rs!RelayOf(n)}
    BY DEF Rs!Ending
  <2>2. queueRs'[i] \notin {Rs!Run, Rs!Work}
    BY <1>7, <2>1
  <2>3. i \in 1..Len(queueRs)
    BY <1>2, <1>5, <2>1, <2>2
  <2>4. QED
    BY <1>2, <1>5, <2>1, <2>3 DEF Rs!Ending
 <1>10. \A n : n = callRs + 1 => Rs!Ending(n) = {}
  <2>1. ASSUME NEW i \in DOMAIN queueRs PROVE queueRs[i] \notin {Rs!StopOf(callRs + 1), Rs!RelayOf(callRs + 1)}
   <3>1. queueRs[i] \in Queued(callRs)
     BY <1>2
   <3>2. QED
     BY <1>2, <3>1 DEF Queued, Rs!Run, Rs!Work, Rs!StopOf, Rs!RelayOf
  <2>2. QED
    BY <2>1 DEF Rs!Ending
 <1>11. OneEnding'
  <2>1. \A n : n = callRs + 1 => Rs!Ending(n)' = {}
    BY <1>2, <1>9, <1>10
  <2>2. \A n \in 1..callRs : \A i, j \in Rs!Ending(n)' : i = j
    BY <1>2, <1>9 DEF SyncInv, OneEnding
  <2>3. \A n \in 1..callRs' : \A i, j \in Rs!Ending(n)' : i = j
    BY <1>2, <2>1, <2>2
  <2>4. QED
    BY <1>2, <2>1, <2>3 DEF OneEnding
 <1>12. SyncTyped'
   BY <1>2, <1>5 DEF Rs!RunSync, SyncInv, SyncTyped, CallCounts
 <1>13. QED
   BY <1>8, <1>11, <1>12 DEF SyncInv

(* The head of the queue is called, and at most one entry is queued.       *)
LEMMA PopIs ==
  ASSUME SyncInv, queueRs # <<>>, NEW ws \in Seq(Queued(callRs)), Rs!Pop(ws)
  PROVE  /\ at = "batch" /\ left > 0 /\ left' = left - 1 /\ left \in Nat /\ left <= Len(queueRs)
         /\ Len(queueRs) \in Nat \ {0} /\ Head(queueRs) = queueRs[1] /\ Head(queueRs) \in Queued(callRs)
         /\ queueRs' \in Seq(Queued(callRs)) /\ Len(queueRs') = Len(queueRs) - 1 + Len(ws)
         /\ Advanced(queueRs', queueRs, ws)
         /\ callRs' = callRs /\ at' = at /\ deadlineRs' = deadlineRs /\ ripe' = ripe /\ nowRs' = nowRs
         /\ outcome' = outcome /\ callRs \in Nat /\ callRs >= 1 /\ Len(ws) \in Nat
 <1>1. queueRs \in Seq(Queued(callRs)) /\ left \in 0..Len(queueRs) /\ callRs \in Nat
   BY DEF SyncInv, SyncTyped
 <1>2. queueRs' = Tail(queueRs) \o ws /\ at = "batch" /\ left > 0 /\ left' = left - 1
   BY DEF Rs!Pop
 <1>3. callRs >= 1
   BY <1>2 DEF SyncInv, OneEnding
 <1>4. /\ queueRs' \in Seq(Queued(callRs)) /\ Len(queueRs') = Len(queueRs) - 1 + Len(ws) /\ Advanced(queueRs', queueRs, ws)
       /\ Len(queueRs) \in Nat \ {0} /\ Len(ws) \in Nat
       /\ Head(queueRs) = queueRs[1] /\ Head(queueRs) \in Queued(callRs)
  <2>1. Advanced(queueRs', queueRs, ws)
    BY <1>1, <1>2, TakenAndAdded
  <2>2. queueRs' \in Seq(Queued(callRs)) /\ Len(queueRs) \in Nat \ {0} /\ Len(ws) \in Nat
        /\ Head(queueRs) = queueRs[1] /\ Head(queueRs) \in Queued(callRs)
    BY <1>1, <1>2, TakenAndAdded
  <2>3. Len(queueRs') = Len(queueRs) - 1 + Len(ws)
    BY <1>1, <1>2
  <2>4. QED
    BY <2>1, <2>2, <2>3
 <1>5. QED
   BY <1>1, <1>2, <1>3, <1>4 DEF Rs!Pop

(* All but what is queued anew stays where it was. *)
LEMMA PopTyped ==
  ASSUME CallCounts, SyncInv, queueRs # <<>>, NEW ws \in Seq(Queued(callRs)), Rs!Pop(ws),
         runningRs' \in BOOLEAN, future' \in {"none", "pending", "done", "cancelled"}
  PROVE  SyncTyped'
 <1>1. left' \in 0..Len(queueRs')
   BY PopIs
 <1>2. QED
   BY <1>1, PopIs DEF SyncInv, SyncTyped

LEMMA PopRuns ==
  ASSUME SyncInv, queueRs # <<>>, NEW ws \in Seq(Queued(callRs)), Rs!Pop(ws),
         \A i \in DOMAIN ws : ws[i] # Rs!Run, Head(queueRs) # Rs!Run => (future = "none" => future' = "none")
  PROVE  RunOnce'
 <1>1. ASSUME NEW i \in DOMAIN queueRs', queueRs'[i] = Rs!Run
       PROVE  i \in 1..Len(queueRs) - 1 /\ queueRs[i + 1] = Rs!Run /\ i + 1 \in DOMAIN queueRs
   BY <1>1, PopIs DEF Advanced
 <1>2. \A i, j \in DOMAIN queueRs' : queueRs'[i] = Rs!Run /\ queueRs'[j] = Rs!Run => i = j
  <2> SUFFICES ASSUME NEW i \in DOMAIN queueRs', NEW j \in DOMAIN queueRs', queueRs'[i] = Rs!Run, queueRs'[j] = Rs!Run
               PROVE  i = j
    OBVIOUS
  <2>1. i + 1 = j + 1 /\ i \in Int /\ j \in Int
    BY <1>1, PopIs DEF SyncInv, RunOnce
  <2>2. QED
    BY <2>1
 <1>3. ASSUME NEW i \in DOMAIN queueRs', queueRs'[i] = Rs!Run
       PROVE  future' = "none" /\ i <= left'
  <2>1. /\ queueRs[i + 1] = Rs!Run /\ i + 1 \in DOMAIN queueRs /\ i + 1 # 1 /\ 1 \in DOMAIN queueRs
        /\ i \in Int /\ queueRs[1] = Head(queueRs)
    BY <1>1, <1>3, PopIs DEF Advanced
  <2>2. Head(queueRs) # Rs!Run /\ future = "none" /\ i + 1 <= left
    BY <2>1, PopIs DEF SyncInv, RunOnce
  <2>3. QED
    BY <2>1, <2>2, PopIs
 <1>4. QED
   BY <1>2, <1>3, PopIs DEF RunOnce

(* Where the entries that end the call n are. *)
LEMMA PopEndings ==
  ASSUME SyncInv, queueRs # <<>>, NEW ws \in Seq(Queued(callRs)), Rs!Pop(ws), NEW n
  PROVE  /\ \A i \in Rs!Ending(n)' :
              \/ i \in 1..Len(queueRs) - 1 /\ i + 1 \in Rs!Ending(n)
              \/ \E j \in DOMAIN ws : i = Len(queueRs) - 1 + j /\ ws[j] \in {Rs!StopOf(n), Rs!RelayOf(n)}
         /\ \A j \in DOMAIN ws : ws[j] \in {Rs!StopOf(n), Rs!RelayOf(n)} => Len(queueRs) - 1 + j \in Rs!Ending(n)'
         /\ \A i \in Rs!Ending(n) : i = 1 \/ i - 1 \in Rs!Ending(n)'
         /\ 1 \in Rs!Ending(n) <=> Head(queueRs) \in {Rs!StopOf(n), Rs!RelayOf(n)}
  BY PopIs DEF Advanced, Rs!Ending

(* A call that ends no call, or begins one. *)
LEMMA PopOther ==
  ASSUME CallCounts, SyncInv, queueRs # <<>>, NEW ws \in Seq(Queued(callRs)), Rs!Pop(ws),
         Head(queueRs) \in {Rs!Run, Rs!Work}, runningRs' = runningRs,
         Head(queueRs) = Rs!Work => future # "none" \/ future' = "none",
         Head(queueRs) = Rs!Run => future = "none",
         \/ ws = <<>> /\ future' = future /\ Head(queueRs) = Rs!Work
         \/ ws = <<>> /\ future' = "pending" /\ future = "none"
         \/ ws \in {<<Rs!StopOf(callRs)>>, <<Rs!RelayOf(callRs)>>} /\ future \in {"none", "pending"} /\ future' = "done"
  PROVE  SyncInv'
 <1>1. callRs >= 1 /\ callRs \in Nat /\ callRs' = callRs /\ at' = at /\ outcome' = outcome
   BY PopIs
 <1>2. /\ runningRs \in BOOLEAN /\ future \in {"none", "pending", "done", "cancelled"} /\ outcome = "none"
       /\ at = "batch"
   BY PopIs DEF SyncInv, SyncTyped, OneEnding
 <1>3. SyncTyped'
   BY <1>2, PopTyped
 <1>4. \A i \in DOMAIN ws : ws[i] \in {Rs!StopOf(callRs), Rs!RelayOf(callRs)} /\ ws[i] # Rs!Run /\ i = 1
   BY <1>1, QueuedApart
 <1>5. RunOnce'
   BY <1>2, <1>4, PopRuns
 <1>6. \A n \in 1..callRs : 1 \notin Rs!Ending(n)
   BY <1>1, PopEndings, QueuedApart
 <1>7. ASSUME NEW n \in 1..callRs
       PROVE  /\ \A i, j \in Rs!Ending(n)' : i = j
              /\ n # callRs \/ ws = <<>> => (Rs!Ending(n)' = {} <=> Rs!Ending(n) = {})
              /\ n = callRs /\ ws # <<>> => Rs!Ending(n)' # {}
  <2>1. n # callRs \/ ws = <<>> => \A j \in DOMAIN ws : ws[j] \notin {Rs!StopOf(n), Rs!RelayOf(n)}
    BY <1>1, <1>4, QueuedApart
  <2>2. \A i, j \in Rs!Ending(n) : i = j
    BY DEF SyncInv, OneEnding
  <2>3. CASE n # callRs \/ ws = <<>>
   <3>1. \A i \in Rs!Ending(n)' : i \in 1..Len(queueRs) - 1 /\ i + 1 \in Rs!Ending(n)
     BY <2>1, <2>3, PopEndings
   <3>2. \A i \in Rs!Ending(n) : i - 1 \in Rs!Ending(n)'
     BY <1>6, PopEndings
   <3>3. \A i, j \in Rs!Ending(n)' : i = j
     BY <2>2, <3>1
   <3>4. QED
     BY <2>3, <3>1, <3>2, <3>3
  <2>4. CASE n = callRs /\ ws # <<>>
   <3>1. Rs!Ending(n) = {}
     BY <2>4 DEF SyncInv, OneEnding
   <3>2. 1 \in DOMAIN ws
     BY <2>4
   <3>3. \A i \in Rs!Ending(n)' : i = Len(queueRs) - 1 + 1
     BY <1>4, <3>1, PopEndings
   <3>4. Len(queueRs) - 1 + 1 \in Rs!Ending(n)'
     BY <1>4, <2>4, <3>2, PopEndings
   <3>5. QED
     BY <2>4, <3>3, <3>4
  <2>5. QED
    BY <2>3, <2>4
 <1>8. OneEnding'
  <2>1. \A n \in 1..callRs' : \A i, j \in Rs!Ending(n)' : i = j
    BY <1>1, <1>7
  <2>2. future' \in {"none", "pending"} => Rs!Ending(callRs)' = {}
    BY <1>1, <1>7 DEF SyncInv, OneEnding
  <2>3. future' \in {"done", "cancelled"} /\ runningRs' => Rs!Ending(callRs)' # {}
    BY <1>1, <1>7 DEF SyncInv, OneEnding
  <2>4. QED
    BY <1>1, <1>2, <2>1, <2>2, <2>3 DEF OneEnding
 <1>9. QED
   BY <1>3, <1>5, <1>8 DEF SyncInv

LEMMA CallRunKeeps ==
  ASSUME CallCounts, SyncInv, queueRs # <<>>, Rs!CallRun
  PROVE  SyncInv'
 <1>1. Head(queueRs) = Rs!Run /\ runningRs' = runningRs
   BY DEF Rs!CallRun
 <1>2. callRs \in Nat /\ queueRs \in Seq(Queued(callRs)) /\ <<>> \in Seq(Queued(callRs))
   BY DEF SyncInv, SyncTyped
 <1>3. future = "none" /\ Rs!Run # Rs!Work
  <2>1. 1 \in DOMAIN queueRs /\ queueRs[1] = Rs!Run
    BY <1>1, <1>2
  <2>2. QED
    BY <1>2, <2>1, QueuedApart DEF SyncInv, RunOnce
 <1>4. CASE Rs!Pop(<<Rs!StopOf(callRs)>>) /\ future' = "done"
  <2>1. callRs >= 1
    BY <1>4 DEF Rs!Pop, SyncInv, OneEnding
  <2>2. <<Rs!StopOf(callRs)>> \in Seq(Queued(callRs))
    BY <1>2, <2>1, QueuedApart
  <2>3. QED
    BY <1>1, <1>3, <1>4, <2>2, PopOther
 <1>5. CASE Rs!Pop(<<>>) /\ future' = "pending"
   BY <1>1, <1>2, <1>3, <1>5, PopOther
 <1>6. QED
   BY <1>4, <1>5 DEF Rs!CallRun

LEMMA CallWorkKeeps ==
  ASSUME CallCounts, SyncInv, queueRs # <<>>, Rs!CallWork
  PROVE  SyncInv'
 <1>1. Head(queueRs) = Rs!Work /\ runningRs' = runningRs
   BY DEF Rs!CallWork
 <1>2. callRs \in Nat /\ queueRs \in Seq(Queued(callRs)) /\ <<>> \in Seq(Queued(callRs)) /\ Rs!Run # Rs!Work
   BY QueuedApart DEF SyncInv, SyncTyped
 <1>3. CASE future = "pending" /\ future' = "done" /\ Rs!Pop(<<Rs!RelayOf(callRs)>>)
  <2>1. callRs >= 1
    BY <1>3 DEF Rs!Pop, SyncInv, OneEnding
  <2>2. <<Rs!RelayOf(callRs)>> \in Seq(Queued(callRs))
    BY <1>2, <2>1, QueuedApart
  <2>3. QED
    BY <1>1, <1>2, <1>3, <2>2, PopOther
 <1>4. CASE Rs!Pop(<<>>) /\ UNCHANGED future
   BY <1>1, <1>2, <1>4, PopOther
 <1>5. QED
   BY <1>3, <1>4 DEF Rs!CallWork

(* What ended a call is called, and ends it in turn or is gone. *)
LEMMA PopEnding ==
  ASSUME CallCounts, SyncInv, queueRs # <<>>, NEW ws \in Seq(Queued(callRs)), Rs!Pop(ws),
         NEW n \in 1..callRs, Head(queueRs) \in {Rs!StopOf(n), Rs!RelayOf(n)}, future' = future,
         \/ ws = <<>> /\ runningRs' = FALSE
         \/ ws = <<Rs!StopOf(n)>> /\ runningRs' = runningRs
  PROVE  SyncInv'
 <1>1. /\ callRs >= 1 /\ callRs \in Nat /\ callRs' = callRs /\ at' = at /\ outcome' = outcome /\ at = "batch"
       /\ Len(queueRs) \in Nat
   BY PopIs
 <1>2. /\ runningRs \in BOOLEAN /\ future \in {"none", "pending", "done", "cancelled"} /\ outcome = "none"
   BY PopIs DEF SyncInv, SyncTyped, OneEnding
 <1>3. SyncTyped'
   BY <1>2, PopTyped
 <1>4. \A i \in DOMAIN ws : ws[i] = Rs!StopOf(n) /\ ws[i] # Rs!Run /\ i = 1
   BY <1>1, QueuedApart
 <1>5. RunOnce'
   BY <1>2, <1>4, PopRuns
 <1>6. 1 \in Rs!Ending(n) /\ \A k \in 1..callRs : k # n => 1 \notin Rs!Ending(k)
   BY <1>1, PopEndings, QueuedApart
 <1>7. \A i \in Rs!Ending(n) : i = 1
   BY <1>6 DEF SyncInv, OneEnding
 <1>8. \A i \in Rs!Ending(n)' : i = Len(queueRs) - 1 + 1
   BY <1>1, <1>4, <1>7, PopEndings
 <1>9. runningRs' => Rs!Ending(n)' # {}
  <2>1. SUFFICES ASSUME ws = <<Rs!StopOf(n)>> PROVE Rs!Ending(n)' # {}
    BY <1>2
  <2>2. 1 \in DOMAIN ws /\ ws[1] \in {Rs!StopOf(n), Rs!RelayOf(n)}
    BY <2>1
  <2>3. QED
    BY <2>2, PopEndings
 <1>10. ASSUME NEW k \in 1..callRs, k # n
        PROVE  /\ \A i, j \in Rs!Ending(k)' : i = j
               /\ Rs!Ending(k)' = {} <=> Rs!Ending(k) = {}
  <2>1. \A j \in DOMAIN ws : ws[j] \notin {Rs!StopOf(k), Rs!RelayOf(k)}
    BY <1>1, <1>4, <1>10, QueuedApart
  <2>2. \A i, j \in Rs!Ending(k) : i = j
    BY DEF SyncInv, OneEnding
  <2>3. \A i \in Rs!Ending(k)' : i \in 1..Len(queueRs) - 1 /\ i + 1 \in Rs!Ending(k)
    BY <2>1, PopEndings
  <2>4. \A i \in Rs!Ending(k) : i - 1 \in Rs!Ending(k)'
    BY <1>6, <1>10, PopEndings
  <2>5. \A i, j \in Rs!Ending(k)' : i = j
    BY <2>2, <2>3
  <2>6. QED
    BY <2>3, <2>4, <2>5
 <1>11. OneEnding'
  <2>1. \A k \in 1..callRs' : \A i, j \in Rs!Ending(k)' : i = j
    BY <1>1, <1>8, <1>10
  <2>2. future' \in {"none", "pending"} => Rs!Ending(callRs)' = {}
    BY <1>1, <1>6, <1>10 DEF SyncInv, OneEnding
  <2>3. future' \in {"done", "cancelled"} /\ runningRs' => Rs!Ending(callRs)' # {}
   <3>1. runningRs' => runningRs
     BY <1>2
   <3>2. CASE n = callRs
     BY <1>1, <1>9, <3>2
   <3>3. CASE n # callRs
     BY <1>1, <1>10, <3>1, <3>3 DEF SyncInv, OneEnding
   <3>4. QED
     BY <3>2, <3>3
  <2>4. QED
    BY <1>1, <1>2, <2>1, <2>2, <2>3 DEF OneEnding
 <1>12. QED
   BY <1>3, <1>5, <1>11 DEF SyncInv

LEMMA CallRelayKeeps ==
  ASSUME CallCounts, SyncInv, queueRs # <<>>, Rs!CallRelay
  PROVE  SyncInv'
 <1>1. callRs \in Nat /\ queueRs \in Seq(Queued(callRs)) /\ Head(queueRs) \in Queued(callRs)
   BY DEF SyncInv, SyncTyped
 <1>2. PICK n \in 1..callRs : Head(queueRs) = Rs!RelayOf(n) /\ Head(queueRs).of = n
   BY <1>1, QueuedApart DEF Rs!CallRelay
 <1>3. <<Rs!StopOf(n)>> \in Seq(Queued(callRs)) /\ Rs!Pop(<<Rs!StopOf(n)>>)
   BY <1>1, <1>2, QueuedApart DEF Rs!CallRelay
 <1>4. QED
   BY <1>2, <1>3, PopEnding DEF Rs!CallRelay

LEMMA CallStopKeeps ==
  ASSUME CallCounts, SyncInv, queueRs # <<>>, Rs!CallStop
  PROVE  SyncInv'
 <1>1. callRs \in Nat /\ queueRs \in Seq(Queued(callRs)) /\ Head(queueRs) \in Queued(callRs)
   BY DEF SyncInv, SyncTyped
 <1>2. PICK n \in 1..callRs : Head(queueRs) = Rs!StopOf(n)
   BY <1>1, QueuedApart DEF Rs!CallStop
 <1>3. <<>> \in Seq(Queued(callRs))
   OBVIOUS
 <1>4. QED
   BY <1>2, <1>3, PopEnding DEF Rs!CallStop

(* The future is done or cancelled, and its done callbacks are queued. *)
LEMMA RelayQueued ==
  ASSUME SyncInv, callRs >= 1, queueRs' = Append(queueRs, Rs!RelayOf(callRs)), callRs' = callRs, future = "pending",
         future' \in {"done", "cancelled"}
  PROVE  /\ queueRs' \in Seq(Queued(callRs)) /\ Len(queueRs') = Len(queueRs) + 1 /\ Len(queueRs) \in Nat
         /\ \A i \in DOMAIN queueRs' : i \in DOMAIN queueRs \/ queueRs'[i] = Rs!RelayOf(callRs)
         /\ \A i \in DOMAIN queueRs' : queueRs'[i] # Rs!Run
         /\ \A n \in 1..callRs : \A i, j \in Rs!Ending(n)' : i = j
         /\ Rs!Ending(callRs)' # {}
 <1>1. callRs \in Nat /\ queueRs \in Seq(Queued(callRs)) /\ Rs!RelayOf(callRs) \in Queued(callRs) /\ Rs!RelayOf(callRs) # Rs!Run
   BY QueuedApart DEF SyncInv, SyncTyped
 <1>2. /\ queueRs' \in Seq(Queued(callRs)) /\ Len(queueRs') = Len(queueRs) + 1 /\ Len(queueRs) \in Nat
       /\ \A i \in DOMAIN queueRs : i \in DOMAIN queueRs' /\ queueRs'[i] = queueRs[i]
       /\ \A i \in DOMAIN queueRs' : i \in DOMAIN queueRs \/ i = Len(queueRs) + 1
       /\ queueRs'[Len(queueRs) + 1] = Rs!RelayOf(callRs) /\ Len(queueRs) + 1 \in DOMAIN queueRs'
   BY <1>1
 <1>3. \A i \in DOMAIN queueRs : queueRs[i] # Rs!Run
   BY DEF SyncInv, RunOnce
 <1>4. Rs!Ending(callRs) = {}
   BY DEF SyncInv, OneEnding
 <1>5. \A i \in Rs!Ending(callRs)' : i = Len(queueRs) + 1
   BY <1>2, <1>4 DEF Rs!Ending
 <1>6. \A n \in 1..callRs : n # callRs => Rs!Ending(n)' \subseteq Rs!Ending(n)
  <2>1. ASSUME NEW n \in 1..callRs, n # callRs PROVE Rs!RelayOf(callRs) \notin {Rs!StopOf(n), Rs!RelayOf(n)}
    BY <1>1, <2>1, QueuedApart
  <2>2. QED
    BY <1>2, <2>1 DEF Rs!Ending
 <1>7. \A n \in 1..callRs : \A i, j \in Rs!Ending(n)' : i = j
   BY <1>5, <1>6 DEF SyncInv, OneEnding
 <1>8. Len(queueRs) + 1 \in Rs!Ending(callRs)'
   BY <1>2 DEF Rs!Ending
 <1>9. QED
   BY <1>1, <1>2, <1>3, <1>7, <1>8

LEMMA EventResolvesKeeps ==
  ASSUME CallCounts, SyncInv, Rs!EventResolves
  PROVE  SyncInv'
 <1>1. /\ at = "wait" /\ future = "pending" /\ future' = "done" /\ queueRs' = Append(queueRs, Rs!RelayOf(callRs))
       /\ callRs' = callRs /\ at' = at /\ left' = left /\ runningRs' = runningRs /\ deadlineRs' = deadlineRs
       /\ ripe' = ripe /\ nowRs' = nowRs /\ outcome' = outcome
   BY DEF Rs!EventResolves
 <1>2. callRs \in Nat /\ callRs >= 1 /\ left \in 0..Len(queueRs) /\ outcome = "none" /\ runningRs = TRUE
   BY <1>1 DEF SyncInv, SyncTyped, OneEnding
 <1>3. /\ queueRs' \in Seq(Queued(callRs)) /\ Len(queueRs') = Len(queueRs) + 1 /\ Len(queueRs) \in Nat
       /\ \A i \in DOMAIN queueRs' : queueRs'[i] # Rs!Run
       /\ \A n \in 1..callRs : \A i, j \in Rs!Ending(n)' : i = j
       /\ Rs!Ending(callRs)' # {}
   BY <1>1, <1>2, RelayQueued
 <1>4. left' \in 0..Len(queueRs')
   BY <1>1, <1>2, <1>3
 <1>5. SyncTyped'
   BY <1>1, <1>3, <1>4 DEF SyncInv, SyncTyped
 <1>6. RunOnce'
   BY <1>3 DEF RunOnce
 <1>7. OneEnding'
   BY <1>1, <1>2, <1>3 DEF OneEnding
 <1>8. QED
   BY <1>5, <1>6, <1>7 DEF SyncInv

LEMMA CallTimeoutKeeps ==
  ASSUME CallCounts, SyncInv, Rs!CallTimeout
  PROVE  SyncInv'
 <1>1. /\ at = "batch" /\ left = 0 /\ at' = "due" /\ ripe' = FALSE /\ callRs' = callRs /\ left' = left
       /\ deadlineRs' = deadlineRs /\ nowRs' = nowRs /\ outcome' = outcome
   BY DEF Rs!CallTimeout
 <1>2. /\ callRs \in Nat /\ callRs >= 1 /\ left \in 0..Len(queueRs) /\ outcome = "none" /\ runningRs \in BOOLEAN
       /\ future \in {"none", "pending", "done", "cancelled"} /\ queueRs \in Seq(Queued(callRs))
   BY <1>1 DEF SyncInv, SyncTyped, OneEnding
 <1>3. \A i \in DOMAIN queueRs : queueRs[i] # Rs!Run
  <2>1. SUFFICES ASSUME NEW i \in DOMAIN queueRs, queueRs[i] = Rs!Run PROVE FALSE
    OBVIOUS
  <2>2. i <= left
    BY <1>1, <2>1 DEF SyncInv, RunOnce
  <2>3. i >= 1
    BY <1>2
  <2>4. QED
    BY <1>1, <1>2, <2>2, <2>3
 <1>4. CASE UNCHANGED queueRs
  <2>1. /\ future' = future
        /\ runningRs' \in BOOLEAN
        /\ runningRs' => runningRs
   <3>1. Append(queueRs, Rs!RelayOf(callRs)) # queueRs
     BY <1>2
   <3>2. QED
     BY <1>2, <1>4, <3>1 DEF Rs!CallTimeout
  <2>2. \A n : Rs!Ending(n)' = Rs!Ending(n)
    BY <1>4 DEF Rs!Ending
  <2>3. SyncTyped'
    BY <1>1, <1>4, <2>1 DEF SyncInv, SyncTyped
  <2>4. RunOnce'
    BY <1>3, <1>4 DEF RunOnce
  <2>5. OneEnding'
    BY <1>1, <1>2, <2>1, <2>2 DEF SyncInv, OneEnding
  <2>6. QED
    BY <2>3, <2>4, <2>5 DEF SyncInv
 <1>5. CASE /\ future = "pending" /\ future' = "cancelled" /\ queueRs' = Append(queueRs, Rs!RelayOf(callRs))
            /\ runningRs' = runningRs
  <2>1. /\ queueRs' \in Seq(Queued(callRs)) /\ Len(queueRs') = Len(queueRs) + 1 /\ Len(queueRs) \in Nat
        /\ \A i \in DOMAIN queueRs' : queueRs'[i] # Rs!Run
        /\ \A n \in 1..callRs : \A i, j \in Rs!Ending(n)' : i = j
        /\ Rs!Ending(callRs)' # {}
    BY <1>1, <1>2, <1>5, RelayQueued
  <2>2. left' \in 0..Len(queueRs')
    BY <1>1, <1>2, <2>1
  <2>3. SyncTyped'
    BY <1>1, <1>5, <2>1, <2>2 DEF SyncInv, SyncTyped
  <2>4. RunOnce'
    BY <2>1 DEF RunOnce
  <2>5. OneEnding'
    BY <1>1, <1>2, <1>5, <2>1 DEF OneEnding
  <2>6. QED
    BY <2>3, <2>4, <2>5 DEF SyncInv
 <1>6. QED
   BY <1>4, <1>5 DEF Rs!CallTimeout

LEMMA GatherKeeps ==
  ASSUME CallCounts, SyncInv, Rs!Gather
  PROVE  SyncInv'
 <1>1. /\ at = "wait" /\ left' = Len(queueRs) /\ at' = "batch" /\ callRs' = callRs /\ queueRs' = queueRs
       /\ runningRs' = runningRs /\ future' = future /\ nowRs' = nowRs /\ outcome' = outcome
       /\ deadlineRs' \in {-1, deadlineRs} /\ ripe' \in BOOLEAN
   BY DEF Rs!Gather
 <1>2. queueRs \in Seq(Queued(callRs)) /\ Len(queueRs) \in Nat /\ left' \in 0..Len(queueRs')
   BY <1>1 DEF SyncInv, SyncTyped
 <1>3. SyncTyped'
   BY <1>1, <1>2 DEF SyncInv, SyncTyped, CallCounts
 <1>4. RunOnce'
   BY <1>1, <1>2 DEF SyncInv, RunOnce
 <1>5. \A n : Rs!Ending(n)' = Rs!Ending(n)
   BY <1>1 DEF Rs!Ending
 <1>6. OneEnding'
   BY <1>1, <1>5 DEF SyncInv, OneEnding
 <1>7. QED
   BY <1>3, <1>4, <1>6 DEF SyncInv

LEMMA LeaveKeeps ==
  ASSUME CallCounts, SyncInv, Rs!Leave
  PROVE  SyncInv'
 <1>1. /\ at = "due" /\ callRs' = callRs /\ queueRs' = queueRs /\ left' = left /\ runningRs' = runningRs
       /\ future' = future /\ ripe' = ripe /\ nowRs' = nowRs
       /\ \/ runningRs /\ at' = "wait" /\ deadlineRs' = deadlineRs /\ outcome' = outcome
          \/ /\ ~runningRs /\ at' = "out" /\ deadlineRs' = -1
             /\ outcome' = IF future = "done" THEN "result" ELSE "timeout"
   BY DEF Rs!Leave
 <1>2. \A i \in DOMAIN queueRs : queueRs[i] # Rs!Run
   BY <1>1 DEF SyncInv, RunOnce
 <1>3. SyncTyped'
   BY <1>1 DEF SyncInv, SyncTyped, CallCounts
 <1>4. RunOnce'
   BY <1>1, <1>2 DEF RunOnce
 <1>5. \A n : Rs!Ending(n)' = Rs!Ending(n)
   BY <1>1 DEF Rs!Ending
 <1>6. OneEnding'
   BY <1>1, <1>5 DEF SyncInv, OneEnding
 <1>7. QED
   BY <1>3, <1>4, <1>6 DEF SyncInv

(* The clock ticks, or nothing happens. *)
LEMMA IdleSync ==
  ASSUME CallCounts, SyncInv, Rs!Tick \/ UNCHANGED Rs!vars
  PROVE  SyncInv'
 <1>1. /\ callRs' = callRs /\ at' = at /\ queueRs' = queueRs /\ left' = left /\ runningRs' = runningRs
       /\ future' = future /\ deadlineRs' = deadlineRs /\ ripe' = ripe /\ outcome' = outcome
       /\ nowRs' = nowRs \/ (nowRs < MaxTimeRs /\ nowRs' = nowRs + 1)
   BY DEF Rs!Tick, Rs!vars
 <1>2. SyncTyped'
   BY <1>1 DEF SyncInv, SyncTyped, CallCounts
 <1>3. RunOnce'
   BY <1>1 DEF SyncInv, RunOnce
 <1>4. \A n : Rs!Ending(n)' = Rs!Ending(n)
   BY <1>1 DEF Rs!Ending
 <1>5. OneEnding'
   BY <1>1, <1>4 DEF SyncInv, OneEnding
 <1>6. QED
   BY <1>2, <1>3, <1>5 DEF SyncInv

LEMMA StepSync == CallCounts /\ SyncInv /\ [Rs!Next]_(Rs!vars) => SyncInv'
  BY RunSyncKeeps, CallRunKeeps, CallWorkKeeps, CallRelayKeeps, CallStopKeeps, EventResolvesKeeps,
     CallTimeoutKeeps, GatherKeeps, LeaveKeeps, IdleSync DEF Rs!Next

(* run_sync: a call that waits has its stop coming, no call stops the loop *)
(* twice, and a result is of a yieldable that was resolved, however many   *)
(* calls one loop runs and whatever their timers do.                       *)
THEOREM SyncCallsEnd == CallCounts => (Rs!Spec => [](Rs!TypeOK /\ Rs!CallsEnd))
 <1> SUFFICES ASSUME CallCounts PROVE Rs!Spec => [](Rs!TypeOK /\ Rs!CallsEnd)
   OBVIOUS
 <1>1. Rs!Init => SyncInv
   BY InitSync
 <1>2. SyncInv /\ [Rs!Next]_(Rs!vars) => SyncInv'
   BY StepSync
 <1>3. SyncInv => Rs!TypeOK /\ Rs!CallsEnd
   BY SyncInvImplies
 <1>4. QED
   BY <1>1, <1>2, <1>3, PTL DEF Rs!Spec

HIDE DEF callRs, at, queueRs, left, runningRs, future, deadlineRs, ripe, nowRs,
         outcome

-----------------------------------------------------------------------------
(* Answers from threads and callbacks                                      *)

Ex == INSTANCE Executors WITH
       Call <- Jobs, kind <- v1, work <- v2, watch <- v3, answer <- v4, queue <- v5, called <- v6,
       cancelled <- v7

(* Its variables. *)
form == v1
work == v2
watch == v3
answer == v4
queue == v5
called == v6
cancelled == v7

USE DEF form, work, watch, answer, queue, called, cancelled

Chained == {"in executor", "in dummy"}
Callbacks == {"chain", "copy", "callback"} \X Jobs

(* What the loop is to run for a call is of its kind. *)
Fits(ks, e) ==
  /\ e[1] \in {"chain", "copy"} <=> ks[e[2]] \in Chained
  /\ e[1] = "copy" => ks[e[2]] = "in executor"

On(q, x) == \E i \in DOMAIN q : q[i][2] = x

(* A call of kind k, whose work is w, which is watched as seen says, whose *)
(* caller holds a and was told n times, was cancelled if gone, and of      *)
(* which something is in the queue if here.                                *)
Fine(k, w, seen, a, n, gone, here) ==
  /\ w = "none" => a = "none" /\ seen = "none" /\ n = 0 /\ ~gone /\ ~here
  /\ w # "none" => a # "none"
  /\ a = "cancelled" <=> gone
  /\ seen = "checked" => ~here /\ ~gone /\ w # "none" /\ k \in {"in executor", "on executor"}
  /\ here => w # "none" /\ n = 0
  /\ k # "return_future" /\ w \in {"pending", "running"} => ~here /\ n = 0 /\ seen # "none"
  /\ k \in Chained =>
       /\ n = 0 /\ w # "cancelled"
       /\ k = "in dummy" => w \notin {"pending", "running"}
       /\ here => w \in Ex!Done
       /\ ~gone => a = w \/ (a = "waiting" /\ (w \in Ex!Done => (here \/ seen = "checked")))
  /\ k = "on executor" =>
       /\ w \in {"pending", "running"} => a = "waiting"
       /\ w \in Ex!Done => a = w
       /\ gone => n = 0
       /\ w \in Ex!Done /\ seen # "checked" /\ ~here => n = IF w = "result" THEN 1 ELSE 0
       /\ seen = "checked" => n = 0
  /\ k = "return_future" =>
       /\ w \notin {"pending", "cancelled"}
       /\ gone => n = 0
       /\ ~gone /\ w = "running" => a = "waiting" /\ ~here /\ n = 0
       /\ ~gone /\ w \in Ex!Done => a = w
       /\ ~gone /\ w \in Ex!Done /\ ~here => n = IF w = "result" THEN 1 ELSE 0

QueueSound ==
  /\ queue \in Seq(Callbacks) /\ \A i \in DOMAIN queue : Fits(form, queue[i])
  /\ \A i, j \in DOMAIN queue : queue[i][2] = queue[j][2] => i = j

CallSound(x) == Fine(form[x], work[x], watch[x], answer[x], called[x], x \in cancelled, On(queue, x))

ExecutorsInv == Ex!TypeOK /\ QueueSound /\ \A x \in Jobs : CallSound(x)

-----------------------------------------------------------------------------
(* The queue *)

Adds(q, r, x) ==
  /\ On(r, x)
  /\ \A y : y # x => (On(r, y) <=> On(q, y))

(* An entry is added for a call that has none. *)
LEMMA PutBack ==
  ASSUME NEW q \in Seq(Callbacks), \A i \in DOMAIN q : Fits(form, q[i]),
         \A i, j \in DOMAIN q : q[i][2] = q[j][2] => i = j, UNCHANGED form,
         NEW x \in Jobs, ~On(q, x), NEW e \in Callbacks, e[2] = x, Fits(form, e), queue' = Append(q, e)
  PROVE  QueueSound' /\ Adds(q, queue', x)
 <1>1. q \in Seq(Callbacks) /\ Len(q) \in Nat /\ DOMAIN q = 1..Len(q)
   OBVIOUS
 <1>2. /\ queue' \in Seq(Callbacks) /\ DOMAIN queue' = 1..Len(q) + 1
       /\ queue'[Len(q) + 1] = e /\ \A i \in 1..Len(q) : queue'[i] = q[i]
   BY <1>1
 <1>3. \A i \in 1..Len(q) : Fits(form, q[i]) /\ q[i][2] # x
   BY <1>1 DEF On
 <1>4. \A i \in DOMAIN queue' : Fits(form, queue'[i])
  <2> SUFFICES ASSUME NEW i \in 1..Len(q) + 1 PROVE Fits(form, queue'[i])
    BY <1>2
  <2>1. i \in 1..Len(q) \/ i = Len(q) + 1
    BY <1>1
  <2>2. QED
    BY <1>2, <1>3, <2>1
 <1>6. \A i, j \in DOMAIN queue' : queue'[i][2] = queue'[j][2] => i = j
  <2> SUFFICES ASSUME NEW i \in 1..Len(q) + 1, NEW j \in 1..Len(q) + 1,
                      queue'[i][2] = queue'[j][2]
               PROVE  i = j
    BY <1>2
  <2>1. i \in 1..Len(q) \/ i = Len(q) + 1
    BY <1>1
  <2>2. j \in 1..Len(q) \/ j = Len(q) + 1
    BY <1>1
  <2>3. \A k, l \in 1..Len(q) : q[k][2] = q[l][2] => k = l
    BY <1>1
  <2>4. QED
    BY <1>2, <1>3, <2>1, <2>2, <2>3
 <1>7. On(queue', x)
   BY <1>1, <1>2 DEF On
 <1>8. ASSUME NEW y, y # x PROVE On(queue', y) <=> On(q, y)
  <2>1. \A i \in 1..Len(q) + 1 : i \in 1..Len(q) \/ i = Len(q) + 1
    BY <1>1
  <2>2. \A i \in 1..Len(q) : i \in 1..Len(q) + 1
    BY <1>1
  <2>3. QED
    BY <1>1, <1>2, <1>8, <2>1, <2>2 DEF On
 <1>9. QED
   BY <1>2, <1>4, <1>6, <1>7, <1>8 DEF QueueSound, Adds

(* Something is queued for a call that has nothing there. *)
LEMMA QueuedEx ==
  ASSUME ExecutorsInv, NEW x \in Jobs, ~On(queue, x), NEW e \in Callbacks, e[2] = x, Fits(form, e),
         UNCHANGED form, queue' = Append(queue, e)
  PROVE  QueueSound' /\ Adds(queue, queue', x)
  BY PutBack DEF ExecutorsInv, QueueSound

(* The first entry is taken out. *)
LEMMA TakenEx ==
  ASSUME ExecutorsInv, queue # <<>>, UNCHANGED form, NEW q, q = Tail(queue)
  PROVE  /\ q \in Seq(Callbacks) /\ \A i \in DOMAIN q : Fits(form, q[i])
         /\ \A i, j \in DOMAIN q : q[i][2] = q[j][2] => i = j
         /\ Head(queue) \in Callbacks /\ Fits(form, Head(queue)) /\ On(queue, Head(queue)[2])
         /\ ~On(q, Head(queue)[2])
         /\ \A y : y # Head(queue)[2] => (On(q, y) <=> On(queue, y))
 <1>1. /\ queue \in Seq(Callbacks) /\ Len(queue) \in Nat \ {0} /\ DOMAIN queue = 1..Len(queue)
       /\ Head(queue) = queue[1]
   BY DEF ExecutorsInv, QueueSound
 <1>2. /\ q \in Seq(Callbacks) /\ DOMAIN q = 1..Len(queue) - 1
       /\ \A i \in 1..Len(queue) - 1 : q[i] = queue[i + 1] /\ i + 1 \in 1..Len(queue)
   BY <1>1
 <1>3. \A i \in 1..Len(queue) : Fits(form, queue[i])
   BY <1>1 DEF ExecutorsInv, QueueSound
 <1>4. \A k, l \in 1..Len(queue) : queue[k][2] = queue[l][2] => k = l
   BY <1>1 DEF ExecutorsInv, QueueSound
 <1>5. \A i \in DOMAIN q : Fits(form, q[i])
   BY <1>2, <1>3
 <1>6. \A i, j \in DOMAIN q : q[i][2] = q[j][2] => i = j
  <2> SUFFICES ASSUME NEW i \in 1..Len(queue) - 1, NEW j \in 1..Len(queue) - 1, q[i][2] = q[j][2]
               PROVE  i = j
    BY <1>2
  <2>1. i + 1 = j + 1
    BY <1>2, <1>4
  <2>2. QED
    BY <2>1
 <1>7. 1 \in 1..Len(queue) /\ Head(queue) \in Callbacks /\ Fits(form, Head(queue)) /\ On(queue, Head(queue)[2])
   BY <1>1, <1>3 DEF On
 <1>8. ~On(q, Head(queue)[2])
  <2> SUFFICES ASSUME NEW i \in 1..Len(queue) - 1, q[i][2] = queue[1][2] PROVE FALSE
    BY <1>1, <1>2 DEF On
  <2>1. i + 1 = 1
    BY <1>2, <1>4, <1>7
  <2>2. QED
    BY <2>1
 <1>9. ASSUME NEW y, y # Head(queue)[2] PROVE On(q, y) <=> On(queue, y)
  <2>1. ASSUME NEW i \in 1..Len(queue), queue[i][2] = y PROVE \E j \in 1..Len(queue) - 1 : q[j][2] = y
   <3>1. i # 1
     BY <1>1, <1>9, <2>1
   <3>2. i - 1 \in 1..Len(queue) - 1 /\ (i - 1) + 1 = i
     BY <1>1, <3>1
   <3>3. q[i - 1] = queue[i]
     BY <1>2, <3>2
   <3>4. QED
     BY <2>1, <3>2, <3>3
  <2>2. QED
    BY <1>1, <1>2, <2>1 DEF On
 <1>10. QED
   BY <1>2, <1>5, <1>6, <1>7, <1>8, <1>9

-----------------------------------------------------------------------------
(* The steps *)

(* A step of one call leaves the others as they were. *)
Others(x) ==
  \A y \in Jobs : y # x =>
    /\ work'[y] = work[y] /\ watch'[y] = watch[y] /\ answer'[y] = answer[y] /\ called'[y] = called[y]
    /\ y \in cancelled' <=> y \in cancelled
    /\ On(queue', y) <=> On(queue, y)

LEMMA OthersSound ==
  ASSUME ExecutorsInv, NEW x \in Jobs, UNCHANGED form, Others(x), Ex!TypeOK', QueueSound',
         Fine(form[x], work'[x], watch'[x], answer'[x], called'[x], x \in cancelled', On(queue', x))
  PROVE  ExecutorsInv'
 <1>1. \A y \in Jobs : CallSound(y)
   BY DEF ExecutorsInv
 <1>2. ASSUME NEW y \in Jobs PROVE CallSound(y)'
  <2>1. CASE y = x
    BY <2>1 DEF CallSound
  <2>2. CASE y # x
   <3>1. /\ work'[y] = work[y] /\ watch'[y] = watch[y] /\ answer'[y] = answer[y]
         /\ called'[y] = called[y] /\ form' = form
         /\ y \in cancelled' <=> y \in cancelled
         /\ On(queue', y) <=> On(queue, y)
     BY <2>2 DEF Others
   <3>2. Fine(form[y], work[y], watch[y], answer[y], called[y], y \in cancelled, On(queue, y))
     BY <1>1 DEF CallSound
   <3>3. Fine(form'[y], work'[y], watch'[y], answer'[y], called'[y], y \in cancelled', On(queue', y))
     BY <3>1, <3>2 DEF Fine
   <3>4. QED
     BY <3>3 DEF CallSound
  <2>3. QED
    BY <2>1, <2>2
 <1>3. QED
   BY <1>2 DEF ExecutorsInv

(* What is known of a call before a step. *)
LEMMA CallBefore ==
  ASSUME ExecutorsInv, NEW x \in Jobs
  PROVE  /\ Fine(form[x], work[x], watch[x], answer[x], called[x], x \in cancelled, On(queue, x))
         /\ form \in [Jobs -> Ex!Kinds] /\ work \in [Jobs -> {"none", "pending", "running"} \cup Ex!Done]
         /\ watch \in [Jobs -> {"none", "checked", "added"}]
         /\ answer \in [Jobs -> {"none", "waiting"} \cup Ex!Done] /\ called \in [Jobs -> 0..1]
         /\ cancelled \subseteq Jobs /\ QueueSound
  BY DEF ExecutorsInv, CallSound, Ex!TypeOK

LEMMA WhatFits ==
  ASSUME ExecutorsInv, NEW x \in Jobs
  PROVE  Ex!WhenDone(x) \in Callbacks /\ Ex!WhenDone(x)[2] = x /\ Fits(form, Ex!WhenDone(x))
  BY CallBefore DEF Ex!WhenDone, Callbacks, Fits, Chained, Ex!Kinds

LEMMA SubmitKeeps == ASSUME ExecutorsInv, NEW x \in Jobs, Ex!Submit(x) PROVE ExecutorsInv'
 <1>1. /\ form[x] \in {"in executor", "on executor"} /\ work[x] = "none"
       /\ work' = [work EXCEPT ![x] = "pending"] /\ answer' = [answer EXCEPT ![x] = "waiting"]
       /\ watch' = [watch EXCEPT ![x] = "checked"] /\ UNCHANGED <<form, queue, called, cancelled>>
   BY DEF Ex!Submit
 <1>2. Ex!TypeOK' /\ QueueSound' /\ Others(x)
   BY <1>1, CallBefore DEF Ex!TypeOK, QueueSound, Others
 <1>3. work'[x] = "pending" /\ answer'[x] = "waiting" /\ watch'[x] = "checked" /\ called'[x] = called[x]
   BY <1>1, CallBefore
 <1>4. Fine(form[x], work'[x], watch'[x], answer'[x], called'[x], x \in cancelled', On(queue', x))
   BY <1>1, <1>3, CallBefore DEF Fine, Chained, Ex!Done
 <1>5. QED
   BY <1>1, <1>2, <1>4, OthersSound

LEMMA SubmitSlowlyKeeps == ASSUME ExecutorsInv, NEW x \in Jobs, Ex!SubmitSlowly(x) PROVE ExecutorsInv'
 <1>1. PICK came \in {"result", "exception"} :
         /\ work' = [work EXCEPT ![x] = came]
         /\ answer' = [answer EXCEPT ![x] = IF form[x] = "on executor" THEN came ELSE "waiting"]
   BY DEF Ex!SubmitSlowly
 <1>2. /\ form[x] \in {"in executor", "on executor"} /\ work[x] = "none"
       /\ queue' = Append(queue, Ex!WhenDone(x)) /\ UNCHANGED <<form, watch, called, cancelled>>
   BY DEF Ex!SubmitSlowly
 <1>3. ~On(queue, x) /\ watch[x] = "none" /\ called[x] = 0 /\ x \notin cancelled
   BY <1>2, CallBefore DEF Fine
 <1>4. QueueSound' /\ Adds(queue, queue', x)
   BY <1>2, <1>3, WhatFits, QueuedEx
 <1>5. Ex!TypeOK' /\ Others(x)
   BY <1>1, <1>2, <1>4, CallBefore DEF Ex!TypeOK, Others, Adds, Ex!Done
 <1>6. /\ work'[x] = came /\ answer'[x] = IF form[x] = "on executor" THEN came ELSE "waiting"
       /\ watch'[x] = "none" /\ called'[x] = 0 /\ x \notin cancelled' /\ On(queue', x)
   BY <1>1, <1>2, <1>3, <1>4, CallBefore DEF Adds
 <1>7. Fine(form[x], work'[x], watch'[x], answer'[x], called'[x], x \in cancelled', On(queue', x))
   BY <1>2, <1>6 DEF Fine, Chained, Ex!Done
 <1>8. QED
   BY <1>2, <1>4, <1>5, <1>7, OthersSound

LEMMA AddDoneCallbackKeeps == ASSUME ExecutorsInv, NEW x \in Jobs, Ex!AddDoneCallback(x) PROVE ExecutorsInv'
 <1>1. /\ watch[x] = "checked" /\ watch' = [watch EXCEPT ![x] = "added"]
       /\ queue' = IF work[x] \in Ex!Done THEN Append(queue, Ex!WhenDone(x)) ELSE queue
       /\ UNCHANGED <<form, work, answer, called, cancelled>>
   BY DEF Ex!AddDoneCallback
 <1>2. ~On(queue, x) /\ x \notin cancelled /\ form[x] \in {"in executor", "on executor"}
   BY <1>1, CallBefore DEF Fine
 <1>3. watch'[x] = "added"
   BY <1>1, CallBefore
 <1>4. CASE work[x] \in Ex!Done
  <2>1. QueueSound' /\ Adds(queue, queue', x)
    BY <1>1, <1>2, <1>4, WhatFits, QueuedEx
  <2>2. Ex!TypeOK' /\ Others(x)
    BY <1>1, <2>1, CallBefore DEF Ex!TypeOK, Others, Adds
  <2>3. On(queue', x)
    BY <2>1 DEF Adds
  <2>4. Fine(form[x], work'[x], watch'[x], answer'[x], called'[x], x \in cancelled', On(queue', x))
    BY <1>1, <1>2, <1>3, <1>4, <2>3, CallBefore DEF Fine, Chained, Ex!Done
  <2>5. QED
    BY <1>1, <2>1, <2>2, <2>4, OthersSound
 <1>5. CASE work[x] \notin Ex!Done
  <2>1. Ex!TypeOK' /\ QueueSound' /\ Others(x) /\ queue' = queue
    BY <1>1, <1>5, CallBefore DEF Ex!TypeOK, QueueSound, Others
  <2>2. Fine(form[x], work'[x], watch'[x], answer'[x], called'[x], x \in cancelled', On(queue', x))
    BY <1>1, <1>2, <1>3, <1>5, <2>1, CallBefore DEF Fine, Chained
  <2>3. QED
    BY <1>1, <2>1, <2>2, OthersSound
 <1>6. QED
   BY <1>4, <1>5

LEMMA SubmitToDummyKeeps == ASSUME ExecutorsInv, NEW x \in Jobs, Ex!SubmitToDummy(x) PROVE ExecutorsInv'
 <1>1. PICK came \in {"result", "exception"} : work' = [work EXCEPT ![x] = came]
   BY DEF Ex!SubmitToDummy
 <1>2. /\ form[x] = "in dummy" /\ work[x] = "none" /\ answer' = [answer EXCEPT ![x] = "waiting"]
       /\ queue' = Append(queue, Ex!WhenDone(x)) /\ UNCHANGED <<form, watch, called, cancelled>>
   BY DEF Ex!SubmitToDummy
 <1>3. ~On(queue, x) /\ watch[x] = "none" /\ called[x] = 0 /\ x \notin cancelled
   BY <1>2, CallBefore DEF Fine
 <1>4. QueueSound' /\ Adds(queue, queue', x)
   BY <1>2, <1>3, WhatFits, QueuedEx
 <1>5. Ex!TypeOK' /\ Others(x)
   BY <1>1, <1>2, <1>4, CallBefore DEF Ex!TypeOK, Others, Adds, Ex!Done
 <1>6. /\ work'[x] = came /\ answer'[x] = "waiting"
       /\ watch'[x] = "none" /\ called'[x] = 0 /\ x \notin cancelled' /\ On(queue', x)
   BY <1>1, <1>2, <1>3, <1>4, CallBefore DEF Adds
 <1>7. Fine(form[x], work'[x], watch'[x], answer'[x], called'[x], x \in cancelled', On(queue', x))
   BY <1>2, <1>6 DEF Fine, Chained, Ex!Done
 <1>8. QED
   BY <1>2, <1>4, <1>5, <1>7, OthersSound

LEMMA ReturnFutureKeeps == ASSUME ExecutorsInv, NEW x \in Jobs, Ex!ReturnFuture(x) PROVE ExecutorsInv'
 <1>1. PICK came \in {"running", "result", "exception"} :
         /\ work' = [work EXCEPT ![x] = came]
         /\ answer' = [answer EXCEPT ![x] = IF came = "running" THEN "waiting" ELSE came]
         /\ called' = [called EXCEPT ![x] = IF came = "result" THEN 1 ELSE 0]
         /\ watch' = [watch EXCEPT ![x] = IF came = "running" THEN "added" ELSE "none"]
   BY DEF Ex!ReturnFuture
 <1>2. form[x] = "return_future" /\ work[x] = "none" /\ UNCHANGED <<form, queue, cancelled>>
   BY DEF Ex!ReturnFuture
 <1>3. ~On(queue, x) /\ x \notin cancelled
   BY <1>2, CallBefore DEF Fine
 <1>4. Ex!TypeOK' /\ QueueSound' /\ Others(x)
   BY <1>1, <1>2, CallBefore DEF Ex!TypeOK, QueueSound, Others, Ex!Done
 <1>5. /\ work'[x] = came /\ answer'[x] = (IF came = "running" THEN "waiting" ELSE came)
       /\ called'[x] = (IF came = "result" THEN 1 ELSE 0)
       /\ watch'[x] = (IF came = "running" THEN "added" ELSE "none")
       /\ x \notin cancelled' /\ ~On(queue', x)
   BY <1>1, <1>2, <1>3, CallBefore
 <1>6. Fine(form[x], work'[x], watch'[x], answer'[x], called'[x], x \in cancelled', On(queue', x))
   BY <1>2, <1>5 DEF Fine, Chained, Ex!Done
 <1>7. QED
   BY <1>2, <1>4, <1>6, OthersSound

LEMMA CallsBackKeeps == ASSUME ExecutorsInv, NEW x \in Jobs, Ex!CallsBack(x) PROVE ExecutorsInv'
 <1>1. PICK came \in {"result", "exception"} :
         /\ work' = [work EXCEPT ![x] = came]
         /\ answer' = [answer EXCEPT ![x] = IF @ = "waiting" THEN came ELSE @]
         /\ queue' = IF answer[x] = "waiting" THEN Append(queue, <<"callback", x>>) ELSE queue
   BY DEF Ex!CallsBack
 <1>2. form[x] = "return_future" /\ work[x] = "running" /\ UNCHANGED <<form, watch, called, cancelled>>
   BY DEF Ex!CallsBack
 <1>3. watch[x] # "checked"
   BY <1>2, CallBefore DEF Fine
 <1>4. /\ work'[x] = came /\ answer'[x] = (IF answer[x] = "waiting" THEN came ELSE answer[x])
       /\ called'[x] = called[x] /\ watch'[x] = watch[x]
   BY <1>1, <1>2, CallBefore
 <1>5. CASE answer[x] = "waiting"
  <2>1. x \notin cancelled /\ ~On(queue, x) /\ called[x] = 0
    BY <1>2, <1>5, CallBefore DEF Fine, Ex!Done
  <2>2. <<"callback", x>> \in Callbacks /\ <<"callback", x>>[2] = x /\ Fits(form, <<"callback", x>>)
    BY <1>2 DEF Callbacks, Fits, Chained
  <2>3. QueueSound' /\ Adds(queue, queue', x)
    BY <1>1, <1>2, <1>5, <2>1, <2>2, QueuedEx
  <2>4. Ex!TypeOK' /\ Others(x) /\ On(queue', x)
    BY <1>1, <1>2, <2>3, CallBefore DEF Ex!TypeOK, Others, Adds, Ex!Done
  <2>5. Fine(form[x], work'[x], watch'[x], answer'[x], called'[x], x \in cancelled', On(queue', x))
    BY <1>2, <1>3, <1>4, <1>5, <2>1, <2>4 DEF Fine, Chained, Ex!Done
  <2>6. QED
    BY <1>2, <2>3, <2>4, <2>5, OthersSound
 <1>6. CASE answer[x] # "waiting"
  <2>1. x \in cancelled /\ queue' = queue
    BY <1>1, <1>2, <1>6, CallBefore DEF Fine
  <2>2. Ex!TypeOK' /\ QueueSound' /\ Others(x)
    BY <1>1, <1>2, <2>1, CallBefore DEF Ex!TypeOK, QueueSound, Others, Ex!Done
  <2>3. Fine(form[x], work'[x], watch'[x], answer'[x], called'[x], x \in cancelled', On(queue', x))
    BY <1>2, <1>3, <1>4, <1>6, <2>1, CallBefore DEF Fine, Chained, Ex!Done
  <2>4. QED
    BY <1>2, <2>2, <2>3, OthersSound
 <1>7. QED
   BY <1>5, <1>6

LEMMA StartWorkKeeps == ASSUME ExecutorsInv, NEW x \in Jobs, Ex!StartWork(x) PROVE ExecutorsInv'
 <1>1. /\ form[x] # "return_future" /\ work[x] = "pending" /\ work' = [work EXCEPT ![x] = "running"]
       /\ UNCHANGED <<form, watch, answer, queue, called, cancelled>>
   BY DEF Ex!StartWork
 <1>2. Ex!TypeOK' /\ QueueSound' /\ Others(x) /\ work'[x] = "running"
   BY <1>1, CallBefore DEF Ex!TypeOK, QueueSound, Others
 <1>3. Fine(form[x], work'[x], watch'[x], answer'[x], called'[x], x \in cancelled', On(queue', x))
   BY <1>1, <1>2, CallBefore DEF Fine, Chained, Ex!Done
 <1>4. QED
   BY <1>1, <1>2, <1>3, OthersSound

LEMMA EndWorkKeeps == ASSUME ExecutorsInv, NEW x \in Jobs, Ex!EndWork(x) PROVE ExecutorsInv'
 <1>1. PICK came \in {"result", "exception"} :
         work' = [work EXCEPT ![x] = came] /\ answer' = Ex!Answers(x, came)
   BY DEF Ex!EndWork
 <1>2. /\ form[x] # "return_future" /\ work[x] = "running"
       /\ queue' = IF watch[x] = "added" THEN Append(queue, Ex!WhenDone(x)) ELSE queue
       /\ UNCHANGED <<form, watch, called, cancelled>>
   BY DEF Ex!EndWork
 <1>3. /\ ~On(queue, x) /\ called[x] = 0 /\ watch[x] \in {"checked", "added"}
       /\ form[x] \in {"in executor", "on executor"}
   BY <1>2, CallBefore DEF Fine, Chained, Ex!Kinds
 <1>4. /\ work'[x] = came /\ called'[x] = called[x] /\ watch'[x] = watch[x]
       /\ answer'[x] = (IF form[x] = "on executor" THEN came ELSE answer[x])
       /\ answer' \in [Jobs -> {"none", "waiting"} \cup Ex!Done]
       /\ \A y \in Jobs : y # x => answer'[y] = answer[y]
   BY <1>1, <1>2, CallBefore DEF Ex!Answers, Ex!Done
 <1>5. CASE watch[x] = "added"
  <2>1. QueueSound' /\ Adds(queue, queue', x)
    BY <1>2, <1>3, <1>5, WhatFits, QueuedEx
  <2>2. Ex!TypeOK' /\ Others(x) /\ On(queue', x)
    BY <1>1, <1>2, <1>4, <2>1, CallBefore DEF Ex!TypeOK, Others, Adds, Ex!Done
  <2>3. Fine(form[x], work'[x], watch'[x], answer'[x], called'[x], x \in cancelled', On(queue', x))
    BY <1>2, <1>3, <1>4, <1>5, <2>2, CallBefore DEF Fine, Chained, Ex!Done
  <2>4. QED
    BY <1>2, <2>1, <2>2, <2>3, OthersSound
 <1>6. CASE watch[x] # "added"
  <2>1. Ex!TypeOK' /\ QueueSound' /\ Others(x) /\ queue' = queue
    BY <1>1, <1>2, <1>4, <1>6, CallBefore DEF Ex!TypeOK, QueueSound, Others, Ex!Done
  <2>2. Fine(form[x], work'[x], watch'[x], answer'[x], called'[x], x \in cancelled', On(queue', x))
    BY <1>2, <1>3, <1>4, <1>6, <2>1, CallBefore DEF Fine, Chained, Ex!Done
  <2>3. QED
    BY <1>2, <2>1, <2>2, OthersSound
 <1>7. QED
   BY <1>5, <1>6

LEMMA CancelKeeps == ASSUME ExecutorsInv, NEW x \in Jobs, Ex!Cancel(x) PROVE ExecutorsInv'
 <1>1. /\ answer[x] = "waiting" /\ (form[x] = "on executor" => work[x] = "pending")
       /\ watch[x] # "checked" /\ cancelled' = cancelled \cup {x}
       /\ answer' = [answer EXCEPT ![x] = "cancelled"] /\ UNCHANGED <<form, watch, called>>
   BY DEF Ex!Cancel
 <1>2. x \notin cancelled /\ work[x] # "none" /\ answer'[x] = "cancelled" /\ x \in cancelled'
   BY <1>1, CallBefore DEF Fine
 <1>3. CASE form[x] \in Chained
  <2>1. UNCHANGED <<work, queue>>
    BY <1>3 DEF Ex!Cancel, Chained
  <2>2. Ex!TypeOK' /\ QueueSound' /\ Others(x)
    BY <1>1, <2>1, CallBefore DEF Ex!TypeOK, QueueSound, Others, Ex!Done
  <2>3. Fine(form[x], work'[x], watch'[x], answer'[x], called'[x], x \in cancelled', On(queue', x))
    BY <1>1, <1>2, <1>3, <2>1, CallBefore DEF Fine, Chained, Ex!Done
  <2>4. QED
    BY <1>1, <2>2, <2>3, OthersSound
 <1>4. CASE form[x] \notin Chained
  <2>1. /\ work' = IF form[x] = "on executor" THEN [work EXCEPT ![x] = "cancelled"] ELSE work
        /\ queue' = Append(queue, <<"callback", x>>)
    BY <1>4 DEF Ex!Cancel, Chained
  <2>2. form[x] \in {"on executor", "return_future"}
    BY <1>4, CallBefore DEF Ex!Kinds, Chained
  <2>3. ~On(queue, x) /\ called[x] = 0
    BY <1>1, <1>2, <2>2, CallBefore DEF Fine, Ex!Done
  <2>4. <<"callback", x>> \in Callbacks /\ <<"callback", x>>[2] = x /\ Fits(form, <<"callback", x>>)
    BY <2>2 DEF Callbacks, Fits, Chained
  <2>5. QueueSound' /\ Adds(queue, queue', x)
    BY <1>1, <2>1, <2>3, <2>4, QueuedEx
  <2>6. Ex!TypeOK' /\ Others(x) /\ On(queue', x)
    BY <1>1, <2>1, <2>5, CallBefore DEF Ex!TypeOK, Others, Adds, Ex!Done
  <2>7. work'[x] = IF form[x] = "on executor" THEN "cancelled" ELSE work[x]
    BY <2>1, CallBefore
  <2>8. Fine(form[x], work'[x], watch'[x], answer'[x], called'[x], x \in cancelled', On(queue', x))
    BY <1>1, <1>2, <2>2, <2>3, <2>6, <2>7, CallBefore DEF Fine, Chained, Ex!Done
  <2>9. QED
    BY <1>1, <2>5, <2>6, <2>8, OthersSound
 <1>5. QED
   BY <1>3, <1>4

LEMMA RunCallbackKeepsEx == ASSUME ExecutorsInv, Ex!RunCallback PROVE ExecutorsInv'
 <1> DEFINE what == Head(queue)[1]
            x == Head(queue)[2]
            q == Tail(queue)
 <1>1. queue # <<>> /\ UNCHANGED <<form, work, watch, cancelled>>
   BY DEF Ex!RunCallback
 <1>2. \/ /\ what = "chain" /\ form[x] = "in executor"
          /\ queue' = Append(q, <<"copy", x>>) /\ UNCHANGED <<answer, called>>
       \/ /\ what = "copy" \/ (what = "chain" /\ form[x] = "in dummy")
          /\ answer' = Ex!Copy(x) /\ queue' = q /\ UNCHANGED called
       \/ /\ what = "callback"
          /\ called' = [called EXCEPT ![x] = IF answer[x] = "result" THEN @ + 1 ELSE @]
          /\ queue' = q /\ UNCHANGED answer
   BY DEF Ex!RunCallback
 <1>3. /\ q \in Seq(Callbacks) /\ \A i \in DOMAIN q : Fits(form, q[i])
       /\ \A i, j \in DOMAIN q : q[i][2] = q[j][2] => i = j
       /\ Head(queue) \in Callbacks /\ Fits(form, Head(queue)) /\ On(queue, x)
       /\ ~On(q, x)
       /\ \A y : y # x => (On(q, y) <=> On(queue, y))
   BY <1>1, TakenEx
 <1>4. x \in Jobs /\ what \in {"chain", "copy", "callback"}
       /\ (what \in {"chain", "copy"} <=> form[x] \in Chained)
       /\ (what = "copy" => form[x] = "in executor")
   BY <1>3 DEF Callbacks, Fits
 <1> HIDE DEF x, what, q
 <1>5. work[x] # "none" /\ called[x] = 0 /\ watch[x] # "checked"
   BY <1>3, <1>4, CallBefore DEF Fine
 <1>6. CASE /\ what = "chain" /\ form[x] = "in executor"
            /\ queue' = Append(q, <<"copy", x>>) /\ UNCHANGED <<answer, called>>
  <2>1. <<"copy", x>> \in Callbacks /\ <<"copy", x>>[2] = x /\ Fits(form, <<"copy", x>>)
    BY <1>4, <1>6 DEF Callbacks, Fits, Chained
  <2>2. QueueSound' /\ Adds(q, queue', x)
    BY <1>1, <1>3, <1>4, <1>6, <2>1, PutBack
  <2>3. Ex!TypeOK' /\ Others(x) /\ On(queue', x)
    BY <1>1, <1>3, <1>4, <1>6, <2>2, CallBefore DEF Ex!TypeOK, Others, Adds
  <2>4. Fine(form[x], work'[x], watch'[x], answer'[x], called'[x], x \in cancelled', On(queue', x))
    BY <1>1, <1>3, <1>4, <1>6, <2>3, CallBefore DEF Fine
  <2>5. QED
    BY <1>1, <1>4, <2>2, <2>3, <2>4, OthersSound
 <1>7. CASE /\ what = "copy" \/ (what = "chain" /\ form[x] = "in dummy")
            /\ answer' = Ex!Copy(x) /\ queue' = q /\ UNCHANGED called
  <2>1. QueueSound' /\ ~On(queue', x)
    BY <1>1, <1>3, <1>7 DEF QueueSound
  <2>2. form[x] \in Chained /\ work[x] \in Ex!Done
    BY <1>3, <1>4, <1>7, CallBefore DEF Fine
  <2>3. /\ answer' \in [Jobs -> {"none", "waiting"} \cup Ex!Done]
        /\ \A y \in Jobs : y # x => answer'[y] = answer[y]
        /\ answer'[x] = IF answer[x] \in Ex!Done THEN answer[x] ELSE work[x]
    BY <1>4, <1>7, <2>2, CallBefore DEF Ex!Copy
  <2>4. Ex!TypeOK' /\ Others(x)
    BY <1>1, <1>3, <1>4, <1>7, <2>3, CallBefore DEF Ex!TypeOK, Others
  <2>5. Fine(form[x], work'[x], watch'[x], answer'[x], called'[x], x \in cancelled', On(queue', x))
    BY <1>1, <1>4, <1>5, <1>7, <2>1, <2>2, <2>3, CallBefore DEF Fine, Chained, Ex!Done
  <2>6. QED
    BY <1>1, <1>4, <2>1, <2>4, <2>5, OthersSound
 <1>8. CASE /\ what = "callback"
            /\ called' = [called EXCEPT ![x] = IF answer[x] = "result" THEN @ + 1 ELSE @]
            /\ queue' = q /\ UNCHANGED answer
  <2>1. QueueSound' /\ ~On(queue', x)
    BY <1>1, <1>3, <1>8 DEF QueueSound
  <2>2. form[x] \in {"on executor", "return_future"}
    BY <1>4, <1>8, CallBefore DEF Ex!Kinds, Chained
  <2>3. /\ called' \in [Jobs -> 0..1] /\ called'[x] = (IF answer[x] = "result" THEN 1 ELSE 0)
        /\ \A y \in Jobs : y # x => called'[y] = called[y]
    BY <1>4, <1>5, <1>8, CallBefore
  <2>4. Ex!TypeOK' /\ Others(x)
    BY <1>1, <1>3, <1>4, <1>8, <2>3, CallBefore DEF Ex!TypeOK, Others
  <2>5. Fine(form[x], work'[x], watch'[x], answer'[x], called'[x], x \in cancelled', On(queue', x))
    BY <1>1, <1>3, <1>4, <1>5, <1>8, <2>1, <2>2, <2>3, CallBefore DEF Fine, Chained, Ex!Done
  <2>6. QED
    BY <1>1, <1>4, <2>1, <2>4, <2>5, OthersSound
 <1>9. QED
   BY <1>2, <1>6, <1>7, <1>8

LEMMA InitExecutors == Ex!Init => ExecutorsInv
 <1> SUFFICES ASSUME Ex!Init PROVE ExecutorsInv
   OBVIOUS
 <1>1. queue = <<>> /\ DOMAIN queue = {} /\ queue \in Seq(Callbacks)
   BY DEF Ex!Init
 <1>2. Ex!TypeOK
   BY DEF Ex!Init, Ex!TypeOK
 <1>3. QueueSound
   BY <1>1 DEF QueueSound
 <1>4. ASSUME NEW x \in Jobs PROVE CallSound(x)
  <2>1. /\ work[x] = "none" /\ watch[x] = "none" /\ answer[x] = "none" /\ called[x] = 0
        /\ x \notin cancelled /\ ~On(queue, x)
    BY <1>1 DEF Ex!Init, On
  <2>2. QED
    BY <2>1 DEF CallSound, Fine, Ex!Done
 <1>5. QED
   BY <1>2, <1>3, <1>4 DEF ExecutorsInv

LEMMA StepExecutors == ExecutorsInv /\ [Ex!Next]_(Ex!vars) => ExecutorsInv'
 <1>1. ExecutorsInv /\ UNCHANGED Ex!vars => ExecutorsInv'
   BY DEF Ex!vars, ExecutorsInv, Ex!TypeOK, QueueSound, CallSound
 <1>2. QED
   BY <1>1, SubmitKeeps, SubmitSlowlyKeeps, AddDoneCallbackKeeps, SubmitToDummyKeeps,
      ReturnFutureKeeps, CallsBackKeeps, StartWorkKeeps, EndWorkKeeps, CancelKeeps,
      RunCallbackKeepsEx DEF Ex!Next

LEMMA ExecutorsInvImplies == ExecutorsInv => Ex!TypeOK /\ Ex!ExecutorsSound
 <1> SUFFICES ASSUME ExecutorsInv PROVE Ex!TypeOK /\ Ex!ExecutorsSound
   OBVIOUS
 <1>1. \A x \in Jobs : Ex!InQueue(x) <=> On(queue, x)
  <2>1. DOMAIN queue = 1..Len(queue)
    BY DEF ExecutorsInv, QueueSound
  <2>2. QED
    BY <2>1 DEF Ex!InQueue, On
 <1>2. ASSUME NEW x \in Jobs, work[x] \in Ex!Done, watch[x] # "checked", ~Ex!InQueue(x)
       PROVE  IF x \in cancelled THEN answer[x] = "cancelled" /\ called[x] = 0
              ELSE /\ answer[x] = work[x]
                   /\ form[x] \in {"on executor", "return_future"} =>
                        called[x] = IF work[x] = "result" THEN 1 ELSE 0
  <2>1. ~On(queue, x)
    BY <1>1, <1>2
  <2>2. form[x] \in Ex!Kinds
    BY CallBefore
  <2>3. QED
    BY <1>2, <2>1, <2>2, CallBefore DEF Fine, Chained, Ex!Kinds
 <1>3. Ex!CancelledStays
  <2> SUFFICES ASSUME NEW x \in cancelled PROVE answer[x] = "cancelled"
    BY DEF Ex!CancelledStays
  <2>1. x \in Jobs
    BY DEF ExecutorsInv, Ex!TypeOK
  <2>2. QED
    BY <2>1, CallBefore DEF Fine
 <1>4. Ex!OutcomeArrives
   BY <1>2 DEF Ex!OutcomeArrives
 <1>5. QED
   BY <1>3, <1>4 DEF Ex!ExecutorsSound, ExecutorsInv

(* At whatever step a thread ends its work, or a function calls back: the  *)
(* caller has its outcome once the loop has run what came of it, is told   *)
(* once, and a future that was cancelled stays so (concurrent.py).         *)
THEOREM OutcomesArrive == Ex!Spec => [](Ex!TypeOK /\ Ex!ExecutorsSound)
 <1>1. QED
   BY InitExecutors, StepExecutors, ExecutorsInvImplies, PTL DEF Ex!Spec

HIDE DEF form, work, watch, answer, queue, called, cancelled

-----------------------------------------------------------------------------
(* What is made of several futures                                         *)

Cb == INSTANCE Combinators WITH
       mode <- v1, state <- v2, queue <- v3, unfinished <- v4, finished <- v5,
       result <- v6, current <- v7, got <- v8, timer <- v9

(* Its variables. *)
mode == v1
state == v2
doneQ == v3
undone == v4
kept == v5
result == v6
current == v7
given == v8
timer == v9

USE DEF mode, state, doneQ, undone, kept, result, current, given, timer

SomeInputs == N \in Nat \ {0}

Lies(s, f) == \E i \in DOMAIN s : s[i] = f
OnceCb(s) == s \in Seq(1..N) /\ \A i, j \in DOMAIN s : s[i] = s[j] => i = j

Given(r) == r.is \in {"value", "error"}
OnWay(r, f) == Given(r) /\ r.of = f

HasPlace(q, d, g, r, f) == Lies(q, f) \/ Lies(d, f) \/ Lies(g, f) \/ OnWay(r, f)

(* An input that is done is in one place at most, one that is not in none; *)
(* and one that was cancelled is given to nobody.                          *)
Placed(s, q, d, g, r, f) ==
  /\ HasPlace(q, d, g, r, f) => s[f] # "pending"
  /\ Lies(q, f) => ~Lies(d, f) /\ ~Lies(g, f) /\ ~OnWay(r, f)
  /\ Lies(d, f) => ~Lies(g, f) /\ ~OnWay(r, f)
  /\ Lies(g, f) => ~OnWay(r, f)
  /\ s[f] = "cancelled" => ~Lies(g, f) /\ ~OnWay(r, f)

(* The iterator has met an input that was cancelled, and lost it. *)
LostAt(s, q, d, g, r, f) == s[f] = "cancelled" /\ ~HasPlace(q, d, g, r, f)
Lost == \E f \in 1..N : LostAt(state, doneQ, kept, given, result, f)

Results ==
  [is : {"none", "pending", "dropped", "cancelled", "value", "error", "timeout"}, of : 0..N]

IteratorInv ==
  mode = "iterator" =>
    /\ result.is # "timeout"
    /\ Given(result) => current = result.of /\ result.of \in 1..N
    /\ result.is = "dropped" => Lost
    /\ \A f \in 1..N :
         /\ Placed(state, doneQ, kept, given, result, f)
         /\ state[f] \in {"pending", "cancelled"} => f \in undone
         /\ state[f] # "pending" /\ ~HasPlace(doneQ, kept, given, result, f) => Lost

(* Inputs whose done callback has not run. *)
NotDone == {f \in 1..N : state[f] = "pending" \/ Lies(doneQ, f)}

MultiInv ==
  mode = "multi" =>
    /\ undone = NotDone
    /\ Given(result) => undone = {}
    /\ result.is = "value" => Cb!Failed = {}
    /\ result.is = "error" => result.of \in Cb!Failed /\ \A f \in Cb!Failed : result.of <= f
    /\ undone = {} /\ result.is = "pending" =>
         \E f \in Cb!Failed : state[f] = "cancelled" /\ \A g \in Cb!Failed : f <= g

TimeoutInv ==
  mode = "timeout" =>
    /\ result.is = "timeout" => timer = "fired"
    /\ undone = {} => timer # "armed"
    /\ result.is = "pending" /\ timer # "armed" => state[1] = "cancelled"
    /\ \A f : Lies(doneQ, f) => f = 1

CombinatorsInv ==
  /\ Cb!TypeOK /\ result \in Results
  /\ OnceCb(doneQ) /\ OnceCb(kept) /\ OnceCb(given)
  /\ \A i \in DOMAIN doneQ : state[doneQ[i]] # "pending"
  /\ IteratorInv /\ MultiInv /\ TimeoutInv

-----------------------------------------------------------------------------
(* Lists of inputs *)

Joined(s, t, f) == OnceCb(t) /\ \A g : Lies(t, g) <=> Lies(s, g) \/ g = f
LeftIn(s, t, f) ==
  f \in 1..N /\ OnceCb(t) /\ ~Lies(t, f) /\ \A g : Lies(s, g) <=> Lies(t, g) \/ g = f

LEMMA Joins ==
  ASSUME NEW s, OnceCb(s), NEW f \in 1..N, ~Lies(s, f)
  PROVE  Joined(s, Append(s, f), f)
 <1> DEFINE t == Append(s, f)
 <1>1. s \in Seq(1..N) /\ Len(s) \in Nat /\ DOMAIN s = 1..Len(s)
   BY DEF OnceCb
 <1>2. /\ t \in Seq(1..N) /\ DOMAIN t = 1..Len(s) + 1 /\ t[Len(s) + 1] = f
       /\ \A i \in 1..Len(s) : t[i] = s[i]
   BY <1>1
 <1> HIDE DEF t
 <1>3. \A i, j \in DOMAIN s : s[i] = s[j] => i = j
   BY DEF OnceCb
 <1>4. \A i \in DOMAIN s : s[i] # f
   BY DEF Lies
 <1>5. \A i \in 1..Len(s) + 1 : i \in 1..Len(s) \/ i = Len(s) + 1
   BY <1>1
 <1>6. OnceCb(t)
   BY <1>1, <1>2, <1>3, <1>4, <1>5 DEF OnceCb
 <1>7. 1..Len(s) \subseteq 1..Len(s) + 1 /\ Len(s) + 1 \in 1..Len(s) + 1
   BY <1>1
 <1>8. \A g : Lies(t, g) <=> Lies(s, g) \/ g = f
   BY <1>1, <1>2, <1>5, <1>7 DEF Lies
 <1>9. QED
   BY <1>6, <1>8 DEF Joined, t

LEMMA LeavesCb ==
  ASSUME NEW s, OnceCb(s), s # <<>>
  PROVE  LeftIn(s, Tail(s), Head(s)) /\ Head(s) = s[1] /\ 1 \in DOMAIN s
 <1> DEFINE t == Tail(s)
            n == Len(s)
 <1>1. s \in Seq(1..N) /\ n \in Nat /\ n # 0 /\ DOMAIN s = 1..n /\ Head(s) = s[1]
   BY DEF OnceCb
 <1>0. \A i \in DOMAIN s : s[i] \in 1..N
   BY <1>1, ElementOfSeq
 <1>2. /\ t \in Seq(1..N) /\ DOMAIN t = 1..n - 1
       /\ \A i \in 1..n - 1 : t[i] = s[i + 1]
   BY <1>1
 <1>3. \A i, j \in 1..n : s[i] = s[j] => i = j
   BY <1>1 DEF OnceCb
 <1> HIDE DEF t, n
 <1>4. 1 \in 1..n /\ s[1] \in 1..N
   BY <1>1, <1>0
 <1>5. \A i \in 1..n - 1 : i + 1 \in 1..n /\ i + 1 # 1
   BY <1>1
 <1>6. \A i \in 1..n : i = 1 \/ (i - 1 \in 1..n - 1 /\ (i - 1) + 1 = i)
   BY <1>1
 <1>7. \A i, j \in 1..n - 1 : t[i] = t[j] => i = j
  <2> SUFFICES ASSUME NEW i \in 1..n - 1, NEW j \in 1..n - 1, t[i] = t[j] PROVE i = j
    OBVIOUS
  <2>1. i + 1 = j + 1
    BY <1>2, <1>3, <1>5
  <2>2. QED
    BY <2>1, <1>1
 <1>8. \A i \in 1..n - 1 : t[i] # s[1]
   BY <1>2, <1>3, <1>4, <1>5
 <1>9. ~Lies(t, s[1])
   BY <1>2, <1>8 DEF Lies
 <1>10. ASSUME NEW g PROVE Lies(s, g) <=> Lies(t, g) \/ g = s[1]
  <2>1. ASSUME Lies(s, g) PROVE Lies(t, g) \/ g = s[1]
   <3>1. PICK i \in 1..n : s[i] = g
     BY <2>1, <1>1 DEF Lies
   <3>2. CASE i = 1
     BY <3>1, <3>2
   <3>3. CASE i - 1 \in 1..n - 1 /\ (i - 1) + 1 = i
    <4>1. t[i - 1] = g
      BY <3>1, <3>3, <1>2
    <4>2. QED
      BY <4>1, <3>3, <1>2 DEF Lies
   <3>4. QED
     BY <3>2, <3>3, <1>6
  <2>2. Lies(t, g) => Lies(s, g)
    BY <1>1, <1>2, <1>5 DEF Lies
  <2>3. s[1] = g => Lies(s, g)
    BY <1>1, <1>4 DEF Lies
  <2>4. QED
    BY <2>1, <2>2, <2>3
 <1>11. QED
   BY <1>1, <1>2, <1>4, <1>7, <1>9, <1>10 DEF LeftIn, OnceCb, t

-----------------------------------------------------------------------------
(* Each step *)

LEMMA InitCombinators ==
  ASSUME SomeInputs PROVE Cb!Init => CombinatorsInv
 <1> SUFFICES ASSUME Cb!Init PROVE CombinatorsInv
   OBVIOUS
 <1>1. /\ doneQ = <<>> /\ given = <<>> /\ current = 0 /\ timer = "armed"
       /\ DOMAIN doneQ = {} /\ DOMAIN given = {}
   BY DEF Cb!Init
 <1>2. OnceCb(doneQ) /\ OnceCb(given) /\ \A f : ~Lies(doneQ, f) /\ ~Lies(given, f)
   BY <1>1 DEF OnceCb, Lies
 <1>3. CASE Cb!InitIterator
  <2> DEFINE done == {f \in 1..N : state[f] # "pending"}
  <2>1. /\ mode = "iterator" /\ state \in [1..N -> {"pending", "value", "error", "cancelled"}]
        /\ undone = 1..N /\ result = Cb!No
    BY <1>3 DEF Cb!InitIterator
  <2>0. kept \in Cb!ListsOf(done)
    BY <1>3 DEF Cb!InitIterator
  <2> HIDE DEF done
  <2>2. PICK n \in 0..N : kept \in [1..n -> done]
    BY <2>0 DEF Cb!ListsOf
  <2>3. /\ \A i, j \in DOMAIN kept : i < j => kept[i] < kept[j]
        /\ \A f \in done : \E i \in DOMAIN kept : kept[i] = f
    BY <2>0 DEF Cb!ListsOf
  <2> USE DEF done
  <2>4. DOMAIN kept = 1..n /\ n \in Nat /\ \A i \in 1..n : kept[i] \in 1..N
    BY <2>2 DEF SomeInputs
  <2>5. kept \in Seq(1..N)
   <3>1. kept \in [1..n -> 1..N]
     BY <2>2
   <3>2. n \in Nat
     BY <2>4
   <3>3. QED
     BY <3>1, <3>2, SeqDef
  <2>6. \A i, j \in 1..n : kept[i] = kept[j] => i = j
   <3> SUFFICES ASSUME NEW i \in 1..n, NEW j \in 1..n, kept[i] = kept[j] PROVE i = j
     OBVIOUS
   <3>1. kept[i] \in Int /\ kept[j] \in Int /\ i \in Int /\ j \in Int
     BY <2>4
   <3>2. (i < j => kept[i] < kept[j]) /\ (j < i => kept[j] < kept[i])
     BY <2>3, <2>4
   <3>3. QED
     BY <3>1, <3>2
  <2>7. OnceCb(kept)
    BY <2>4, <2>5, <2>6 DEF OnceCb
  <2>8. \A f \in 1..N : Lies(kept, f) <=> state[f] # "pending"
    BY <2>2, <2>3, <2>4 DEF Lies
  <2>9. result \in Results /\ result.is = "none" /\ ~Given(result)
    BY <2>1 DEF Results, Cb!No, Given, SomeInputs
  <2>10. IteratorInv
    BY <1>2, <2>1, <2>8, <2>9 DEF IteratorInv, Placed, HasPlace, OnWay
  <2>11. Cb!TypeOK
    BY <1>1, <1>2, <2>1, <2>5, <2>9 DEF Cb!TypeOK, OnceCb, SomeInputs
  <2>12. QED
    BY <1>1, <1>2, <2>1, <2>7, <2>9, <2>10, <2>11 DEF CombinatorsInv, MultiInv, TimeoutInv
 <1>4. ASSUME Cb!InitMulti \/ Cb!InitTimeout PROVE CombinatorsInv
  <2>1. /\ mode \in {"multi", "timeout"} /\ state \in [1..N -> {"pending", "value", "error", "cancelled"}]
        /\ kept = <<>> /\ result = Cb!Pending /\ DOMAIN kept = {}
    BY <1>4 DEF Cb!InitMulti, Cb!InitTimeout
  <2>2. OnceCb(kept)
    BY <2>1 DEF OnceCb
  <2>3. result \in Results /\ result.is = "pending"
    BY <2>1 DEF Results, Cb!Pending, SomeInputs
  <2>4. undone # {} /\ undone \subseteq 1..N
    BY <1>4 DEF Cb!InitMulti, Cb!InitTimeout, SomeInputs
  <2>5. mode = "multi" => undone = NotDone
    BY <1>4, <1>2 DEF Cb!InitMulti, Cb!InitTimeout, NotDone
  <2>6. MultiInv /\ TimeoutInv /\ IteratorInv
    BY <1>1, <1>2, <2>1, <2>3, <2>4, <2>5 DEF MultiInv, TimeoutInv, IteratorInv, Given
  <2>7. Cb!TypeOK
    BY <1>1, <1>2, <2>1, <2>2, <2>3, <2>4 DEF Cb!TypeOK, OnceCb, SomeInputs
  <2>8. QED
    BY <1>1, <1>2, <2>2, <2>3, <2>6, <2>7 DEF CombinatorsInv
 <1>5. QED
   BY <1>3, <1>4 DEF Cb!Init

LEMMA ResolveKeeps ==
  ASSUME CombinatorsInv, NEW f \in 1..N, Cb!Resolve(f) PROVE CombinatorsInv'
 <1>1. PICK r \in {"value", "error", "cancelled"} : state' = [state EXCEPT ![f] = r]
   BY DEF Cb!Resolve
 <1>2. /\ state[f] = "pending" /\ doneQ' = Append(doneQ, f) /\ f \in Cb!Inputs
       /\ UNCHANGED <<mode, undone, kept, result, current, given, timer>>
   BY DEF Cb!Resolve
 <1>3. /\ state' \in [1..N -> {"pending", "value", "error", "cancelled"}] /\ state'[f] # "pending"
       /\ \A g \in 1..N : g # f => state'[g] = state[g]
   BY <1>1 DEF CombinatorsInv, Cb!TypeOK
 <1>4. ~Lies(doneQ, f)
   BY <1>2 DEF CombinatorsInv, Lies
 <1>5. Joined(doneQ, doneQ', f)
   BY <1>2, <1>4, Joins DEF CombinatorsInv
 <1>6. \A i \in DOMAIN doneQ' : state'[doneQ'[i]] # "pending"
  <2> SUFFICES ASSUME NEW i \in DOMAIN doneQ' PROVE state'[doneQ'[i]] # "pending"
    OBVIOUS
  <2>1. Lies(doneQ, doneQ'[i]) \/ doneQ'[i] = f
    BY <1>5 DEF Joined, Lies
  <2>2. Lies(doneQ, doneQ'[i]) => doneQ'[i] \in 1..N /\ state[doneQ'[i]] # "pending"
   <3> SUFFICES ASSUME Lies(doneQ, doneQ'[i])
                PROVE  doneQ'[i] \in 1..N /\ state[doneQ'[i]] # "pending"
     OBVIOUS
   <3>1. PICK k \in DOMAIN doneQ : doneQ[k] = doneQ'[i]
     BY DEF Lies
   <3>2. doneQ[k] \in 1..N
    <4>1. doneQ \in Seq(1..N)
      BY DEF CombinatorsInv, Cb!TypeOK
    <4>2. QED
      BY <4>1, <3>1, LenProperties, ElementOfSeq
   <3>3. QED
     BY <3>1, <3>2 DEF CombinatorsInv
  <2>3. QED
    BY <2>1, <2>2, <1>3
 <1>7. Cb!TypeOK'
   BY <1>2, <1>3, <1>5 DEF CombinatorsInv, Cb!TypeOK, Joined, OnceCb
 <1>8. IteratorInv'
  <2> SUFFICES ASSUME mode = "iterator" PROVE IteratorInv'
    BY <1>2 DEF IteratorInv
  <2>1. /\ \A g \in 1..N : Lies(doneQ', g) <=> Lies(doneQ, g) \/ g = f
        /\ \A g \in 1..N : Placed(state, doneQ, kept, given, result, g)
    BY <1>5 DEF Joined, CombinatorsInv, IteratorInv
  <2>2. \A g \in 1..N : Placed(state', doneQ', kept, given, result, g)
    BY <2>1, <1>2, <1>3 DEF Placed, HasPlace
  <2>3. /\ \A g \in 1..N : LostAt(state, doneQ, kept, given, result, g) =>
                             LostAt(state', doneQ', kept, given, result, g)
        /\ \A g \in 1..N : HasPlace(doneQ', kept, given, result, g) <=>
                             HasPlace(doneQ, kept, given, result, g) \/ g = f
    BY <2>1, <1>2, <1>3 DEF LostAt, HasPlace
  <2>4. Lost => Lost'
    BY <1>2, <2>3 DEF Lost
  <2>5. QED
    BY <1>2, <1>3, <2>2, <2>3, <2>4 DEF CombinatorsInv, IteratorInv
 <1>9. MultiInv'
  <2> SUFFICES ASSUME mode = "multi" PROVE MultiInv'
    BY <1>2 DEF MultiInv
  <2>1. NotDone' = NotDone
    BY <1>2, <1>3, <1>5 DEF NotDone, Joined
  <2>2. f \in undone
    BY <1>2 DEF CombinatorsInv, MultiInv, NotDone
  <2>3. ~Given(result)
    BY <2>2 DEF CombinatorsInv, MultiInv
  <2>4. QED
    BY <1>2, <2>1, <2>2, <2>3 DEF CombinatorsInv, MultiInv, Given
 <1>10. TimeoutInv'
  <2> SUFFICES ASSUME mode = "timeout" PROVE TimeoutInv'
    BY <1>2 DEF TimeoutInv
  <2>1. f = 1 /\ \A g : Lies(doneQ', g) <=> Lies(doneQ, g) \/ g = f
    BY <1>2, <1>5 DEF Cb!Inputs, Joined
  <2>2. QED
    BY <1>2, <2>1 DEF CombinatorsInv, TimeoutInv
 <1>11. QED
   BY <1>2, <1>5, <1>6, <1>7, <1>8, <1>9, <1>10 DEF CombinatorsInv, Joined, OnceCb

LEMMA CancelResultKeeps ==
  ASSUME SomeInputs, CombinatorsInv, Cb!CancelResult PROVE CombinatorsInv'
 <1>1. /\ result.is = "pending" /\ result' = Cb!Cancelled
       /\ UNCHANGED <<mode, state, doneQ, undone, kept, current, given, timer>>
   BY DEF Cb!CancelResult
 <1>2. result' \in Results /\ result'.is = "cancelled" /\ ~Given(result') /\ ~Given(result)
   BY <1>1 DEF Cb!Cancelled, Results, Given, SomeInputs
 <1>3. Cb!TypeOK' /\ NotDone' = NotDone /\ Cb!Failed' = Cb!Failed
   BY <1>1, <1>2 DEF CombinatorsInv, Cb!TypeOK, NotDone, Cb!Failed
 <1>4. IteratorInv'
   BY <1>1, <1>2 DEF CombinatorsInv, IteratorInv, Placed, HasPlace, OnWay, Lost, LostAt
 <1>5. MultiInv' /\ TimeoutInv'
   BY <1>1, <1>2, <1>3 DEF CombinatorsInv, MultiInv, TimeoutInv
 <1>6. QED
   BY <1>1, <1>2, <1>3, <1>4, <1>5 DEF CombinatorsInv, OnceCb

(* An input leaves a list: it goes to whoever waits, or is lost. *)
LEMMA GivesResult ==
  ASSUME SomeInputs, CombinatorsInv, mode = "iterator", ~Given(result), NEW f \in 1..N,
         NEW told, NEW untold, Cb!ReturnResult(f, told, untold),
         told = Cb!Answer(f) \/ (told = Cb!No /\ Lost),
         untold = result \/ untold = Cb!Dropped,
         UNCHANGED <<mode, state, given, timer>>,
         \/ kept' = kept /\ LeftIn(doneQ, doneQ', f)
         \/ doneQ' = doneQ /\ LeftIn(kept, kept', f)
  PROVE  CombinatorsInv'
 <1>1. /\ UNCHANGED <<mode, state, given, timer>>
       /\ \/ state[f] = "cancelled" /\ result' = untold /\ UNCHANGED <<current, undone>>
          \/ state[f] # "cancelled" /\ result' = told /\ current' = f /\ undone' = undone \ {f}
   BY DEF Cb!ReturnResult
 <1>2. Lies(doneQ, f) \/ Lies(kept, f)
   BY DEF LeftIn
 <1>3. \A g \in 1..N : Placed(state, doneQ, kept, given, result, g)
   BY DEF CombinatorsInv, IteratorInv
 <1>4. state[f] # "pending" /\ state[f] \in {"pending", "value", "error", "cancelled"}
   BY <1>2, <1>3 DEF Placed, HasPlace, CombinatorsInv, Cb!TypeOK
 <1>5. /\ result' \in Results /\ result'.is # "timeout"
       /\ \A g : OnWay(result', g) => g = f
       /\ Given(result') => state[f] # "cancelled" /\ result'.of = f
   BY <1>1, <1>4 DEF Cb!Answer, Cb!No, Cb!Dropped, Results, Given, OnWay, CombinatorsInv, IteratorInv, SomeInputs
 <1>6. OnceCb(doneQ') /\ OnceCb(kept') /\ OnceCb(given')
   BY <1>1 DEF CombinatorsInv, LeftIn, OnceCb
 <1>7. \A g : Lies(doneQ', g) => Lies(doneQ, g)
   BY DEF LeftIn
 <1>8. \A i \in DOMAIN doneQ' : state'[doneQ'[i]] # "pending"
   BY <1>1, <1>7 DEF CombinatorsInv, Lies
 <1>9. ASSUME NEW g \in 1..N
       PROVE  /\ Placed(state, doneQ', kept', given', result', g)
              /\ LostAt(state, doneQ, kept, given, result, g) => LostAt(state, doneQ', kept', given, result', g)
              /\ g # f => (HasPlace(doneQ', kept', given, result', g) <=> HasPlace(doneQ, kept, given, result, g))
              /\ OnWay(result', f) <=> HasPlace(doneQ', kept', given, result', f)
  <2>1. /\ Placed(state, doneQ, kept, given, result, g) /\ Placed(state, doneQ, kept, given, result, f)
        /\ ~OnWay(result, g) /\ ~OnWay(result, f) /\ (OnWay(result', g) => g = f)
        /\ OnWay(result', f) => state[f] # "cancelled"
    BY <1>3, <1>5 DEF OnWay
  <2>2. /\ ~Lies(doneQ', f) /\ ~Lies(kept', f)
        /\ g # f => (Lies(doneQ', g) <=> Lies(doneQ, g)) /\ (Lies(kept', g) <=> Lies(kept, g))
   <3>1. CASE kept' = kept /\ LeftIn(doneQ, doneQ', f)
     BY <2>1, <3>1 DEF LeftIn, Placed
   <3>2. CASE doneQ' = doneQ /\ LeftIn(kept, kept', f)
     BY <2>1, <3>2 DEF LeftIn, Placed
   <3>3. QED
     BY <3>1, <3>2
  <2>3. ~Lies(given, f)
    BY <1>2, <2>1 DEF Placed
  <2>4. given' = given
    BY <1>1
  <2>5. OnWay(result', f) <=> HasPlace(doneQ', kept', given', result', f)
    BY <2>2, <2>3, <2>4 DEF HasPlace
  <2>6. CASE g = f
    BY <1>2, <1>4, <2>1, <2>2, <2>3, <2>4, <2>6 DEF Placed, HasPlace, LostAt
  <2>7. CASE g # f
    BY <2>1, <2>2, <2>4, <2>5, <2>7 DEF Placed, HasPlace, LostAt
  <2>8. QED
    BY <2>5, <2>6, <2>7
 <1>10. /\ Lost => Lost'
        /\ ~OnWay(result', f) => Lost'
        /\ result'.is = "dropped" => Lost'
  <2>1. Lost => Lost'
    BY <1>1, <1>9 DEF Lost
  <2>2. state[f] = "cancelled" => Lost'
   <3> SUFFICES ASSUME state[f] = "cancelled" PROVE LostAt(state', doneQ', kept', given', result', f)
     BY DEF Lost
   <3>1. ~OnWay(result', f)
     BY <1>5 DEF OnWay
   <3>2. QED
     BY <1>1, <1>9, <3>1 DEF LostAt
  <2>3. state[f] # "cancelled" => (OnWay(result', f) /\ result'.is # "dropped") \/ Lost
    BY <1>1, <1>4 DEF Cb!Answer, OnWay, Given
  <2>4. QED
    BY <2>1, <2>2, <2>3
 <1>11. IteratorInv'
  <2>1. Given(result') => current' = result'.of /\ result'.of \in 1..N
    BY <1>1, <1>5
  <2>2. ASSUME NEW g \in 1..N
        PROVE  /\ state'[g] \in {"pending", "cancelled"} => g \in undone'
               /\ state'[g] # "pending" /\ ~HasPlace(doneQ', kept', given', result', g) => Lost'
   <3>1. state[g] \in {"pending", "cancelled"} => g \in undone'
     BY <1>1, <1>4 DEF CombinatorsInv, IteratorInv
   <3>2. CASE g = f
     BY <1>1, <1>9, <1>10, <3>1, <3>2
   <3>3. CASE g # f
     BY <1>1, <1>9, <1>10, <3>1, <3>3 DEF CombinatorsInv, IteratorInv
   <3>4. QED
     BY <3>2, <3>3
  <2>3. QED
    BY <1>1, <1>5, <1>9, <1>10, <2>1, <2>2 DEF IteratorInv
 <1>12. Cb!TypeOK'
  <2>0. current \in 0..N /\ undone \subseteq 1..N /\ f \in 0..N
    BY DEF CombinatorsInv, Cb!TypeOK, SomeInputs
  <2>1. current' \in 0..N /\ undone' \subseteq 1..N
    BY <1>1, <2>0
  <2>2. QED
    BY <1>1, <1>5, <1>6, <2>1 DEF CombinatorsInv, Cb!TypeOK, OnceCb, Results
 <1>13. QED
   BY <1>1, <1>5, <1>6, <1>8, <1>11, <1>12 DEF CombinatorsInv, MultiInv, TimeoutInv

LEMMA NextResultKeeps ==
  ASSUME SomeInputs, CombinatorsInv, Cb!NextResult PROVE CombinatorsInv'
 <1>1. /\ mode = "iterator" /\ result.is \in {"none", "cancelled", "dropped"} /\ ~Given(result)
       /\ UNCHANGED <<mode, state, doneQ, given, timer>>
   BY DEF Cb!NextResult, Given
 <1>2. CASE kept # <<>>
  <2>1. Cb!ReturnResult(Head(kept), Cb!Answer(Head(kept)), Cb!Dropped) /\ kept' = Tail(kept)
    BY <1>2 DEF Cb!NextResult
  <2>2. LeftIn(kept, kept', Head(kept)) /\ Head(kept) \in 1..N
    BY <1>2, <2>1, LeavesCb DEF CombinatorsInv, LeftIn
  <2>3. QED
    BY <1>1, <2>1, <2>2, GivesResult
 <1>3. CASE kept = <<>>
  <2>1. result' = Cb!Pending /\ UNCHANGED <<kept, current, undone>>
    BY <1>3 DEF Cb!NextResult
  <2>2. result' \in Results /\ result'.is = "pending" /\ ~Given(result')
    BY <2>1 DEF Cb!Pending, Results, Given, SomeInputs
  <2>3. IteratorInv'
    BY <1>1, <2>1, <2>2 DEF CombinatorsInv, IteratorInv, Placed, HasPlace, OnWay, Lost, LostAt
  <2>4. Cb!TypeOK'
    BY <1>1, <2>1, <2>2 DEF CombinatorsInv, Cb!TypeOK
  <2>5. QED
    BY <1>1, <2>1, <2>2, <2>3, <2>4 DEF CombinatorsInv, MultiInv, TimeoutInv, OnceCb
 <1>4. QED
   BY <1>2, <1>3

LEMMA IteratorDoneKeeps ==
  ASSUME SomeInputs, CombinatorsInv, Cb!IteratorDone PROVE CombinatorsInv'
 <1> DEFINE f == Head(doneQ)
 <1>1. /\ mode = "iterator" /\ doneQ # <<>> /\ doneQ' = Tail(doneQ)
       /\ UNCHANGED <<mode, state, given, timer>>
   BY DEF Cb!IteratorDone
 <1>2. LeftIn(doneQ, doneQ', f) /\ f \in 1..N
   BY <1>1, LeavesCb DEF CombinatorsInv, LeftIn
 <1>3. CASE result.is \in {"pending", "dropped"}
  <2>1. Cb!ReturnResult(f, Cb!Told(f), result) /\ UNCHANGED kept /\ ~Given(result)
    BY <1>3 DEF Cb!IteratorDone, Given
  <2>2. Cb!Told(f) = Cb!Answer(f) \/ (Cb!Told(f) = Cb!No /\ Lost)
    BY <1>1, <1>3 DEF Cb!Told, CombinatorsInv, IteratorInv
  <2>3. QED
    BY <1>1, <1>2, <2>1, <2>2, GivesResult
 <1>4. CASE result.is \notin {"pending", "dropped"}
  <2>1. kept' = Append(kept, f) /\ UNCHANGED <<result, current, undone>>
    BY <1>4 DEF Cb!IteratorDone
  <2>2. \A g \in 1..N : Placed(state, doneQ, kept, given, result, g)
    BY <1>1 DEF CombinatorsInv, IteratorInv
  <2>3. Lies(doneQ, f) /\ ~Lies(kept, f)
    BY <1>2, <2>2 DEF LeftIn, Placed
  <2> HIDE DEF f
  <2>4. Joined(kept, kept', f)
    BY <1>2, <2>1, <2>3, Joins DEF CombinatorsInv
  <2>5. \A g : Lies(doneQ', g) => Lies(doneQ, g)
    BY <1>2 DEF LeftIn
  <2>6. \A i \in DOMAIN doneQ' : state'[doneQ'[i]] # "pending"
    BY <1>1, <2>5 DEF CombinatorsInv, Lies
  <2>7. \A g \in 1..N : /\ Placed(state, doneQ', kept', given, result, g)
                        /\ HasPlace(doneQ', kept', given, result, g) <=> HasPlace(doneQ, kept, given, result, g)
   <3>1. TAKE g \in 1..N
   <3>2. Placed(state, doneQ, kept, given, result, g)
     BY <2>2
   <3>3. /\ (Lies(doneQ, g) <=> Lies(doneQ', g) \/ g = f) /\ ~Lies(doneQ', f)
         /\ (Lies(kept', g) <=> Lies(kept, g) \/ g = f)
     BY <1>2, <2>4 DEF LeftIn, Joined
   <3>4. QED
     BY <3>2, <3>3, <2>3 DEF Placed, HasPlace
  <2>8. IteratorInv'
   <3>1. Lost' <=> Lost
     BY <1>1, <2>1, <2>7 DEF Lost, LostAt
   <3>2. QED
     BY <1>1, <2>1, <2>7, <3>1 DEF CombinatorsInv, IteratorInv
  <2>9. Cb!TypeOK'
    BY <1>1, <1>2, <2>1, <2>4 DEF CombinatorsInv, Cb!TypeOK, OnceCb, Joined, LeftIn
  <2>10. QED
    BY <1>1, <1>2, <2>1, <2>4, <2>6, <2>8, <2>9
       DEF CombinatorsInv, MultiInv, TimeoutInv, OnceCb, Joined, LeftIn
 <1>5. QED
   BY <1>3, <1>4

LEMMA ConsumeKeeps ==
  ASSUME SomeInputs, CombinatorsInv, Cb!Consume PROVE CombinatorsInv'
 <1> DEFINE f == result.of
 <1>1. /\ mode = "iterator" /\ Given(result) /\ given' = Append(given, f) /\ result' = Cb!No
       /\ UNCHANGED <<mode, state, doneQ, undone, kept, current, timer>>
   BY DEF Cb!Consume, Given
 <1>2. \A g \in 1..N : Placed(state, doneQ, kept, given, result, g)
   BY <1>1 DEF CombinatorsInv, IteratorInv
 <1>4. f \in 1..N
   BY <1>1 DEF CombinatorsInv, IteratorInv
 <1>5. OnWay(result, f) /\ ~Lies(given, f) /\ \A g : OnWay(result, g) <=> g = f
   BY <1>1, <1>2, <1>4 DEF OnWay, Placed
 <1> HIDE DEF f
 <1>6. Joined(given, given', f)
   BY <1>1, <1>4, <1>5, Joins DEF CombinatorsInv
 <1>7. result' \in Results /\ result'.is = "none" /\ ~Given(result')
   BY <1>1 DEF Cb!No, Results, Given, SomeInputs
 <1>8. \A g \in 1..N : /\ Placed(state, doneQ, kept, given', result', g)
                       /\ HasPlace(doneQ, kept, given', result', g) <=> HasPlace(doneQ, kept, given, result, g)
  <2>1. TAKE g \in 1..N
  <2>2. Placed(state, doneQ, kept, given, result, g)
    BY <1>2
  <2>3. (Lies(given', g) <=> Lies(given, g) \/ g = f) /\ ~OnWay(result', g) /\ (OnWay(result, g) <=> g = f)
    BY <1>5, <1>6, <1>7 DEF Joined, OnWay
  <2>4. QED
    BY <2>2, <2>3 DEF Placed, HasPlace
 <1>9. IteratorInv'
  <2>1. Lost' <=> Lost
    BY <1>1, <1>8 DEF Lost, LostAt
  <2>2. QED
    BY <1>1, <1>7, <1>8, <2>1 DEF CombinatorsInv, IteratorInv
 <1>10. Cb!TypeOK'
   BY <1>1, <1>6, <1>7 DEF CombinatorsInv, Cb!TypeOK, OnceCb, Joined
 <1>11. QED
   BY <1>1, <1>6, <1>7, <1>9, <1>10 DEF CombinatorsInv, MultiInv, TimeoutInv, OnceCb, Joined

LEMMA FirstFailed ==
  ASSUME CombinatorsInv, Cb!Failed # {}
  PROVE  /\ Cb!FirstFailed \in Cb!Failed /\ Cb!FirstFailed \in 1..N
         /\ \A g \in Cb!Failed : Cb!FirstFailed <= g
 <1>1. Cb!Failed \subseteq 1..N /\ Cb!Failed \subseteq Nat
   BY DEF Cb!Failed
 <1>2. \E f \in Cb!Failed : \A g \in Cb!Failed : f <= g
   BY <1>1, LeastNatural
 <1>3. QED
   BY <1>1, <1>2 DEF Cb!FirstFailed

LEMMA MultiDoneKeeps ==
  ASSUME SomeInputs, CombinatorsInv, Cb!MultiDone PROVE CombinatorsInv'
 <1> DEFINE h == Head(doneQ)
            first == Cb!FirstFailed
 <1>1. /\ mode = "multi" /\ doneQ # <<>> /\ doneQ' = Tail(doneQ) /\ undone' = undone \ {h}
       /\ UNCHANGED <<mode, state, kept, current, given, timer>>
       /\ \/ (undone' # {} \/ result.is # "pending") /\ result' = result
          \/ /\ undone' = {} /\ result.is = "pending"
             /\ \/ Cb!Failed = {} /\ result' = [is |-> "value", of |-> 0]
                \/ Cb!Failed # {} /\ result' = [is |-> "error", of |-> first]
                \/ Cb!Failed # {} /\ state[first] = "cancelled" /\ result' = result
   BY DEF Cb!MultiDone
 <1>2. LeftIn(doneQ, doneQ', h) /\ h \in 1..N /\ state[h] # "pending"
   BY <1>1, LeavesCb DEF CombinatorsInv, LeftIn
 <1> HIDE DEF h
 <1>3. undone = NotDone
   BY <1>1 DEF CombinatorsInv, MultiInv
 <1>4. undone' = NotDone' /\ Cb!Failed' = Cb!Failed
   BY <1>1, <1>2, <1>3 DEF NotDone, LeftIn, Cb!Failed
 <1>5. h \in undone
   BY <1>2, <1>3 DEF NotDone, LeftIn
 <1>6. ~Given(result)
   BY <1>1, <1>5 DEF CombinatorsInv, MultiInv
 <1>7. Cb!Failed # {} => first \in Cb!Failed /\ first \in 1..N /\ \A g \in Cb!Failed : first <= g
   BY FirstFailed
 <1> HIDE DEF first
 <1>8. /\ result' \in Results
       /\ Given(result') => undone' = {}
       /\ result'.is = "value" => Cb!Failed = {}
       /\ result'.is = "error" => result'.of \in Cb!Failed /\ \A f \in Cb!Failed : result'.of <= f
       /\ undone' = {} /\ result'.is = "pending" => state[first] = "cancelled" /\ Cb!Failed # {}
   BY <1>1, <1>6, <1>7 DEF CombinatorsInv, Given, Results, SomeInputs
 <1>9. MultiInv'
   BY <1>1, <1>4, <1>7, <1>8 DEF MultiInv
 <1>10. OnceCb(doneQ') /\ \A i \in DOMAIN doneQ' : state'[doneQ'[i]] # "pending"
  <2>1. \A g : Lies(doneQ', g) => Lies(doneQ, g)
    BY <1>2 DEF LeftIn
  <2>2. QED
    BY <1>1, <1>2, <2>1 DEF CombinatorsInv, LeftIn, Lies
 <1>11. Cb!TypeOK'
   BY <1>1, <1>8, <1>10 DEF CombinatorsInv, Cb!TypeOK, OnceCb, Results
 <1>12. QED
   BY <1>1, <1>8, <1>9, <1>10, <1>11 DEF CombinatorsInv, IteratorInv, TimeoutInv, OnceCb

LEMMA TimeoutDoneKeeps ==
  ASSUME CombinatorsInv, Cb!TimeoutDone PROVE CombinatorsInv'
 <1> DEFINE h == Head(doneQ)
 <1>1. /\ mode = "timeout" /\ doneQ # <<>> /\ doneQ' = Tail(doneQ) /\ undone' = {}
       /\ UNCHANGED <<mode, state, kept, current, given>>
       /\ result' = IF result.is = "pending" /\ state[h] # "cancelled" THEN Cb!Answer(h) ELSE result
       /\ timer' = IF timer = "armed" THEN "removed" ELSE timer
   BY DEF Cb!TimeoutDone
 <1>2. LeftIn(doneQ, doneQ', h) /\ h \in 1..N /\ state[h] # "pending"
   BY <1>1, LeavesCb DEF CombinatorsInv, LeftIn
 <1>0. h = 1 /\ \A f : Lies(doneQ', f) => f = 1
   BY <1>1, <1>2 DEF CombinatorsInv, TimeoutInv, LeftIn
 <1> HIDE DEF h
 <1>3. state[h] \in {"value", "error", "cancelled"}
   BY <1>2 DEF CombinatorsInv, Cb!TypeOK
 <1>4. /\ result' \in Results
       /\ result'.is = "pending" => state[1] = "cancelled"
       /\ result'.is = "timeout" => result.is = "timeout"
   BY <1>0, <1>1, <1>2, <1>3 DEF CombinatorsInv, Results, Cb!Answer
 <1>5. timer' \in {"fired", "removed"} /\ (timer = "fired" => timer' = "fired")
   BY <1>1 DEF CombinatorsInv, Cb!TypeOK
 <1>6. TimeoutInv'
   BY <1>0, <1>1, <1>4, <1>5 DEF CombinatorsInv, TimeoutInv
 <1>7. OnceCb(doneQ') /\ \A i \in DOMAIN doneQ' : state'[doneQ'[i]] # "pending"
  <2>1. \A g : Lies(doneQ', g) => Lies(doneQ, g)
    BY <1>2 DEF LeftIn
  <2>2. QED
    BY <1>1, <1>2, <2>1 DEF CombinatorsInv, LeftIn, Lies
 <1>8. Cb!TypeOK'
   BY <1>1, <1>4, <1>5, <1>7 DEF CombinatorsInv, Cb!TypeOK, OnceCb, Results
 <1>9. QED
   BY <1>1, <1>4, <1>6, <1>7, <1>8 DEF CombinatorsInv, IteratorInv, MultiInv, OnceCb

LEMMA TimerFiresKeeps ==
  ASSUME SomeInputs, CombinatorsInv, Cb!TimerFires PROVE CombinatorsInv'
 <1>1. /\ mode = "timeout" /\ timer = "armed" /\ timer' = "fired"
       /\ UNCHANGED <<mode, state, doneQ, undone, kept, current, given>>
       /\ result' = IF result.is = "pending" THEN [is |-> "timeout", of |-> 0] ELSE result
   BY DEF Cb!TimerFires
 <1>2. result' \in Results /\ result'.is # "pending"
   BY <1>1 DEF CombinatorsInv, Results, SomeInputs
 <1>3. Cb!TypeOK'
   BY <1>1, <1>2 DEF CombinatorsInv, Cb!TypeOK, Results
 <1>4. QED
   BY <1>1, <1>2, <1>3 DEF CombinatorsInv, IteratorInv, MultiInv, TimeoutInv, OnceCb

LEMMA StepCombinators ==
  ASSUME SomeInputs PROVE CombinatorsInv /\ [Cb!Next]_(Cb!vars) => CombinatorsInv'
 <1>1. CombinatorsInv /\ UNCHANGED Cb!vars => CombinatorsInv'
   BY DEF Cb!vars, CombinatorsInv, Cb!TypeOK, OnceCb, IteratorInv, MultiInv, TimeoutInv,
          NotDone, Cb!Failed, Lost
 <1>2. QED
   BY <1>1, ResolveKeeps, CancelResultKeeps, NextResultKeeps, IteratorDoneKeeps, ConsumeKeeps,
      MultiDoneKeeps, TimeoutDoneKeeps, TimerFiresKeeps DEF Cb!Next

-----------------------------------------------------------------------------

LEMMA SameCardinalityCb == \A S : Cb!Cardinality(S) = Cardinality(S)
  BY DEF Cb!Cardinality, Cardinality

LEMMA PlacesCounted ==
  ASSUME NEW s, OnceCb(s), NEW f
  PROVE  Cb!Cardinality(Cb!PlacesOf(s, f)) = IF Lies(s, f) THEN 1 ELSE 0
 <1>1. CASE Lies(s, f)
  <2>1. PICK i \in DOMAIN s : s[i] = f
    BY <1>1 DEF Lies
  <2>2. Cb!PlacesOf(s, f) = {i}
    BY <2>1 DEF OnceCb, Cb!PlacesOf
  <2>3. QED
    BY <1>1, <2>2, SameCardinalityCb, FS_Singleton
 <1>2. CASE ~Lies(s, f)
  <2>1. Cb!PlacesOf(s, f) = {}
    BY <1>2 DEF Lies, Cb!PlacesOf
  <2>2. QED
    BY <1>2, <2>1, SameCardinalityCb, FS_EmptySet
 <1>3. QED
   BY <1>1, <1>2

LEMMA CombinatorsInvImplies == CombinatorsInv => Cb!TypeOK /\ Cb!CombinatorsSound
 <1> SUFFICES ASSUME CombinatorsInv PROVE Cb!TypeOK /\ Cb!CombinatorsSound
   OBVIOUS
 <1>1. Cb!IteratorGivesAll
  <2> SUFFICES ASSUME mode = "iterator" PROVE Cb!IteratorGivesAll
    BY DEF Cb!IteratorGivesAll
  <2>1. ASSUME NEW f \in 1..N
        PROVE  Cb!Seen(f) = IF HasPlace(doneQ, kept, given, result, f) THEN 1 ELSE 0
   <3>1. Placed(state, doneQ, kept, given, result, f)
     BY DEF CombinatorsInv, IteratorInv
   <3>2. /\ Cb!Cardinality(Cb!PlacesOf(doneQ, f)) = IF Lies(doneQ, f) THEN 1 ELSE 0
         /\ Cb!Cardinality(Cb!PlacesOf(kept, f)) = IF Lies(kept, f) THEN 1 ELSE 0
         /\ Cb!Cardinality(Cb!PlacesOf(given, f)) = IF Lies(given, f) THEN 1 ELSE 0
     BY PlacesCounted DEF CombinatorsInv
   <3>3. QED
     BY <3>1, <3>2 DEF Placed, HasPlace, OnWay, Given, Cb!Seen
  <2>2. ASSUME NEW f \in 1..N, state[f] = "cancelled" PROVE f \in undone /\ Cb!PlacesOf(given, f) = {}
    BY <2>2 DEF CombinatorsInv, IteratorInv, Placed, Cb!PlacesOf, Lies
  <2>3. ASSUME NEW f \in 1..N, state[f] # "pending", Cb!Seen(f) = 0
        PROVE  \E g \in 1..N : state[g] = "cancelled" /\ Cb!Seen(g) = 0
   <3>1. Lost
     BY <2>1, <2>3 DEF CombinatorsInv, IteratorInv
   <3>2. QED
     BY <2>1, <3>1 DEF Lost, LostAt
  <2>4. \A f \in 1..N : Cb!Seen(f) <= 1
    BY <2>1
  <2>5. Given(result) => current = result.of
    BY DEF CombinatorsInv, IteratorInv
  <2>6. QED
    BY <2>2, <2>3, <2>4, <2>5 DEF Cb!IteratorGivesAll, Given
 <1>2. Cb!MultiAnswers
   BY DEF CombinatorsInv, MultiInv, Cb!MultiAnswers, NotDone, Given
 <1>3. Cb!TimeoutAnswers
   BY DEF CombinatorsInv, TimeoutInv, Cb!TimeoutAnswers
 <1>4. QED
   BY <1>1, <1>2, <1>3 DEF CombinatorsInv, Cb!CombinatorsSound

(* Whatever order the inputs come in, and whoever cancels or times out: a  *)
(* WaitIterator gives no input twice and loses none before it has met one  *)
(* that was cancelled, multi() answers with the first error of its list    *)
(* once all are done, and with_timeout answers once; multi() and           *)
(* with_timeout stay without an answer only when the first that failed, or *)
(* the input, was cancelled (gen.py).                                      *)
THEOREM CombinatorsAnswerOnce == SomeInputs => (Cb!Spec => [](Cb!TypeOK /\ Cb!CombinatorsSound))
 <1> SUFFICES ASSUME SomeInputs PROVE Cb!Spec => [](Cb!TypeOK /\ Cb!CombinatorsSound)
   OBVIOUS
 <1>1. Cb!Init => CombinatorsInv
   BY InitCombinators
 <1>2. CombinatorsInv /\ [Cb!Next]_(Cb!vars) => CombinatorsInv'
   BY StepCombinators
 <1>3. CombinatorsInv => Cb!TypeOK /\ Cb!CombinatorsSound
   BY CombinatorsInvImplies
 <1>4. QED
   BY <1>1, <1>2, <1>3, PTL DEF Cb!Spec

HIDE DEF mode, state, doneQ, undone, kept, result, current, given, timer

-----------------------------------------------------------------------------
(* What a stream has to write                                              *)

Sb == INSTANCE StreamBuffers WITH
       buffers <- v1, first <- v2, size <- v3, appended <- v4, advanced <- v5

(* Its variables. *)
buffersSb == v1
firstSb == v2
sizeSb == v3
appendedSb == v4
advancedSb == v5

USE DEF buffersSb, firstSb, sizeSb, appendedSb, advancedSb

BufferBounds == Large \in Nat /\ MaxBytes \in Nat

LEMMA SameSumSb == \A f, S : Sb!SumFunctionOnSet(f, S) = SumFunctionOnSet(f, S)
  BY DEF Sb!SumFunctionOnSet, SumFunctionOnSet, Sb!FoldFunctionOnSet, FoldFunctionOnSet,
     Sb!MapThenFoldSet, MapThenFoldSet

PiecesSb == [large : BOOLEAN, bytes : Seq(Nat)]

(* The last byte of the k-th of the pieces bs that come after byte lo.     *)
EndSb(bs, lo, k) == IF k = 0 THEN lo ELSE bs[k].bytes[Len(bs[k].bytes)]

(* They hold the bytes after lo, up to hi.                                 *)
ChainSb(bs, lo, hi) ==
  /\ bs \in Seq(PiecesSb) /\ lo \in Nat
  /\ \A i \in DOMAIN bs :
       /\ Len(bs[i].bytes) > 0
       /\ \A j \in DOMAIN bs[i].bytes : bs[i].bytes[j] = EndSb(bs, lo, i - 1) + j
  /\ EndSb(bs, lo, Len(bs)) = hi

(* What was written is not kept.                                           *)
FreedSb(bs, f) ==
  /\ f \in Nat
  /\ bs = <<>> => f = 0
  /\ bs # <<>> =>
       f < Len(bs[1].bytes) /\ (f > 0 /\ ~bs[1].large => 2 * f < Len(bs[1].bytes))
  /\ \A i \in DOMAIN bs : ~bs[i].large => Len(bs[i].bytes) < 2 * Large

BufferInv ==
  /\ appendedSb \in 0..MaxBytes /\ advancedSb \in 0..appendedSb
  /\ sizeSb = appendedSb - advancedSb
  /\ ChainSb(buffersSb, advancedSb - firstSb, appendedSb)
  /\ FreedSb(buffersSb, firstSb)

LEMMA ChainTypesSb ==
  ASSUME NEW bs, NEW lo, NEW hi, ChainSb(bs, lo, hi)
  PROVE  /\ bs \in Seq(PiecesSb) /\ lo \in Nat /\ hi \in Nat
         /\ Len(bs) \in Nat /\ DOMAIN bs = 1..Len(bs)
         /\ \A i \in 1..Len(bs) :
              /\ bs[i] \in PiecesSb /\ bs[i].large \in BOOLEAN /\ bs[i].bytes \in Seq(Nat)
              /\ Len(bs[i].bytes) \in Nat \ {0} /\ DOMAIN bs[i].bytes = 1..Len(bs[i].bytes)
         /\ \A k \in 0..Len(bs) : EndSb(bs, lo, k) \in Nat
         /\ \A i \in 1..Len(bs) : EndSb(bs, lo, i) = EndSb(bs, lo, i - 1) + Len(bs[i].bytes)
 <1>1. bs \in Seq(PiecesSb) /\ lo \in Nat /\ EndSb(bs, lo, Len(bs)) = hi
   BY DEF ChainSb
 <1>2. Len(bs) \in Nat /\ DOMAIN bs = 1..Len(bs)
   BY <1>1, LenProperties
 <1>3. ASSUME NEW i \in 1..Len(bs)
       PROVE  /\ bs[i] \in PiecesSb /\ bs[i].large \in BOOLEAN /\ bs[i].bytes \in Seq(Nat)
              /\ Len(bs[i].bytes) \in Nat \ {0} /\ DOMAIN bs[i].bytes = 1..Len(bs[i].bytes)
  <2>1. bs[i] \in PiecesSb
    BY <1>1, <1>2, ElementOfSeq
  <2>2. bs[i].large \in BOOLEAN /\ bs[i].bytes \in Seq(Nat)
    BY <2>1 DEF PiecesSb
  <2>3. Len(bs[i].bytes) \in Nat /\ DOMAIN bs[i].bytes = 1..Len(bs[i].bytes)
    BY <2>2, LenProperties
  <2>4. Len(bs[i].bytes) > 0
    BY <1>2 DEF ChainSb
  <2>5. QED
    BY <2>1, <2>2, <2>3, <2>4
 <1>4. ASSUME NEW i \in 1..Len(bs)
       PROVE  EndSb(bs, lo, i) \in Nat /\ EndSb(bs, lo, i) = EndSb(bs, lo, i - 1) + Len(bs[i].bytes)
  <2> DEFINE b == bs[i].bytes
  <2>1. b \in Seq(Nat) /\ Len(b) \in Nat \ {0} /\ DOMAIN b = 1..Len(b)
    BY <1>3
  <2>2. b[Len(b)] \in Nat
    BY <2>1, ElementOfSeq
  <2>3. b[Len(b)] = EndSb(bs, lo, i - 1) + Len(b)
    BY <2>1, <1>2 DEF ChainSb
  <2>4. EndSb(bs, lo, i) = b[Len(b)]
    BY <1>2 DEF EndSb
  <2>5. QED
    BY <2>2, <2>3, <2>4
 <1>5. EndSb(bs, lo, 0) \in Nat
   BY <1>1 DEF EndSb
 <1>6. \A k \in 0..Len(bs) : EndSb(bs, lo, k) \in Nat
  <2> TAKE k \in 0..Len(bs)
  <2>1. k = 0 \/ k \in 1..Len(bs)
    BY <1>2
  <2>2. QED
    BY <2>1, <1>4, <1>5
 <1>7. QED
   BY <1>1, <1>2, <1>3, <1>4, <1>6

(* Their lengths add up.                                                   *)
LEMMA ChainSumSb ==
  ASSUME NEW bs, NEW lo, NEW hi, ChainSb(bs, lo, hi), NEW k \in 0..Len(bs)
  PROVE  SumFunctionOnSet([i \in DOMAIN bs |-> Len(bs[i].bytes)], 1..k) = EndSb(bs, lo, k) - lo
 <1> DEFINE f == [i \in DOMAIN bs |-> Len(bs[i].bytes)]
            S(i) == SumFunctionOnSet(f, 1..i)
            Bad == {i \in 0..Len(bs) : S(i) # EndSb(bs, lo, i) - lo}
 <1>1. /\ lo \in Nat /\ Len(bs) \in Nat
       /\ \A i \in 1..Len(bs) : f[i] = Len(bs[i].bytes) /\ f[i] \in Nat
       /\ \A i \in 0..Len(bs) : EndSb(bs, lo, i) \in Nat
       /\ \A i \in 1..Len(bs) : EndSb(bs, lo, i) = EndSb(bs, lo, i - 1) + Len(bs[i].bytes)
   BY ChainTypesSb
 <1> SUFFICES ASSUME Bad # {} PROVE FALSE
   OBVIOUS
 <1> HIDE DEF f
 <1>2. PICK m \in Bad : \A i \in Bad : m <= i
  <2>1. Bad \in SUBSET Nat
    BY <1>1
  <2> HIDE DEF Bad
  <2>2. QED
    BY <2>1, LeastNatural
 <1>3. m # 0
  <2>1. 1..0 = {} /\ EndSb(bs, lo, 0) = lo
    BY DEF EndSb
  <2>2. S(0) = EndSb(bs, lo, 0) - lo
    BY <2>1, <1>1, SumEmpty
  <2>3. QED
    BY <2>2
 <1>4. m \in 1..Len(bs) /\ m - 1 \in 0..Len(bs) /\ S(m - 1) = EndSb(bs, lo, m - 1) - lo
  <2>1. m \in 1..Len(bs) /\ m - 1 \in 0..Len(bs) /\ ~(m <= m - 1)
    BY <1>1, <1>3
  <2>2. m - 1 \notin Bad
    BY <1>2, <2>1
  <2>3. QED
    BY <2>1, <2>2
 <1>5. S(m) = f[m] + S(m - 1)
  <2>1. m \in Nat /\ m \in Int /\ 1 \in Int
    BY <1>1, <1>4
  <2>2. IsFiniteSet(1..m)
    BY <2>1, FS_Interval
  <2>3. (1..m) \ {m} = 1..(m - 1) /\ m \in 1..m
    BY <1>1, <1>4
  <2>4. \A x \in 1..m : f[x] \in Int
    BY <1>1, <1>4
  <2>5. SumFunctionOnSet(f, 1..m) = f[m] + SumFunctionOnSet(f, (1..m) \ {m})
    BY <2>2, <2>3, <2>4, SumRemove
  <2>6. QED
    BY <2>3, <2>5
 <1>6. S(m) = EndSb(bs, lo, m) - lo
  <2> DEFINE e == EndSb(bs, lo, m)
             d == EndSb(bs, lo, m - 1)
             n == f[m]
             x == S(m)
             y == S(m - 1)
  <2>1. e = d + n /\ d \in Nat /\ n \in Nat /\ x = n + y /\ y = d - lo
    BY <1>1, <1>4, <1>5
  <2> HIDE DEF e, d, n, x, y
  <2>2. x = e - lo
    BY <2>1, <1>1
  <2>3. QED
    BY <2>2 DEF x, e
 <1>7. QED
   BY <1>6

LEMMA UptoIsSb ==
  ASSUME BufferInv, NEW k \in 0..Len(buffersSb)
  PROVE  /\ Sb!Upto(k) = EndSb(buffersSb, advancedSb - firstSb, k) - (advancedSb - firstSb)
         /\ Sb!LengthOf(k) = EndSb(buffersSb, advancedSb - firstSb, k) - advancedSb
 <1> DEFINE lo == advancedSb - firstSb
            e == EndSb(buffersSb, lo, k)
 <1>1. ChainSb(buffersSb, lo, appendedSb) /\ firstSb \in Nat /\ advancedSb \in Nat
   BY DEF BufferInv, FreedSb
 <1>2. Sb!Upto(k) = e - lo
   BY <1>1, ChainSumSb, SameSumSb DEF Sb!Upto
 <1>3. e \in Nat /\ lo \in Nat
   BY <1>1, ChainTypesSb
 <1> HIDE DEF e
 <1>4. Sb!LengthOf(k) = e - advancedSb
   BY <1>1, <1>2, <1>3 DEF Sb!LengthOf
 <1>5. QED
   BY <1>2, <1>4 DEF e

(* The first k pieces leave.                                               *)
LEMMA DropsSb ==
  ASSUME NEW bs, NEW lo, NEW hi, ChainSb(bs, lo, hi), NEW k \in 0..Len(bs)
  PROVE  LET r == SubSeq(bs, k + 1, Len(bs)) IN
         /\ ChainSb(r, EndSb(bs, lo, k), hi)
         /\ Len(r) = Len(bs) - k /\ \A i \in DOMAIN r : r[i] = bs[k + i] /\ k + i \in DOMAIN bs
 <1> DEFINE r == SubSeq(bs, k + 1, Len(bs))
            d == EndSb(bs, lo, k)
 <1>1. /\ bs \in Seq(PiecesSb) /\ Len(bs) \in Nat /\ DOMAIN bs = 1..Len(bs) /\ d \in Nat
       /\ \A i \in 1..Len(bs) : Len(bs[i].bytes) \in Nat \ {0}
       /\ EndSb(bs, lo, Len(bs)) = hi
   BY ChainTypesSb DEF ChainSb
 <1>2. /\ r \in Seq(PiecesSb) /\ Len(r) = Len(bs) - k /\ DOMAIN r = 1..Len(r)
       /\ \A i \in 1..Len(r) : r[i] = bs[k + i]
  <2>1. k \in Nat /\ k <= Len(bs)
    BY <1>1
  <2>2. QED
    BY <1>1, <2>1, RestIs
 <1> HIDE DEF r
 <1>3. \A i \in 0..Len(r) : EndSb(r, d, i) = EndSb(bs, lo, k + i)
  <2> TAKE i \in 0..Len(r)
  <2>1. CASE i = 0
    BY <2>1, <1>1 DEF EndSb
  <2>2. CASE i # 0
   <3>1. i \in 1..Len(r) /\ k + i # 0
     BY <2>2, <1>1, <1>2
   <3>2. QED
     BY <3>1, <2>2, <1>2 DEF EndSb
  <2>3. QED
    BY <2>1, <2>2
 <1>4. ASSUME NEW i \in DOMAIN r
       PROVE  /\ Len(r[i].bytes) > 0
              /\ \A j \in DOMAIN r[i].bytes : r[i].bytes[j] = EndSb(r, d, i - 1) + j
  <2>1. k + i \in 1..Len(bs) /\ r[i] = bs[k + i] /\ i - 1 \in 0..Len(r) /\ k + (i - 1) = (k + i) - 1
    BY <1>1, <1>2
  <2>2. EndSb(r, d, i - 1) = EndSb(bs, lo, (k + i) - 1)
    BY <2>1, <1>3
  <2>3. \A j \in DOMAIN bs[k + i].bytes : bs[k + i].bytes[j] = EndSb(bs, lo, (k + i) - 1) + j
    BY <2>1, <1>1 DEF ChainSb
  <2>4. QED
    BY <2>1, <2>2, <2>3, <1>1
 <1>5. EndSb(r, d, Len(r)) = hi
  <2>1. Len(r) \in 0..Len(r) /\ k + Len(r) = Len(bs)
    BY <1>1, <1>2
  <2>2. QED
    BY <2>1, <1>1, <1>3
 <1>6. ChainSb(r, d, hi)
   BY <1>1, <1>2, <1>4, <1>5 DEF ChainSb
 <1>7. \A i \in DOMAIN r : r[i] = bs[k + i] /\ k + i \in DOMAIN bs
   BY <1>1, <1>2
 <1>8. QED
   BY <1>2, <1>6, <1>7 DEF r


(* A piece that is written in part may give up its beginning.              *)
LEMMA CutSb ==
  ASSUME NEW bs, NEW lo, NEW hi, ChainSb(bs, lo, hi), bs # <<>>,
         NEW p \in Nat, p < Len(bs[1].bytes)
  PROVE  LET r == [bs EXCEPT ![1].bytes = SubSeq(@, p + 1, Len(@))] IN
         /\ ChainSb(r, lo + p, hi) /\ Len(r) = Len(bs) /\ DOMAIN r = DOMAIN bs
         /\ \A i \in DOMAIN bs : r[i].large = bs[i].large /\ Len(r[i].bytes) <= Len(bs[i].bytes)
 <1> DEFINE b == bs[1].bytes
            c == SubSeq(b, p + 1, Len(b))
            q == [bs[1] EXCEPT !.bytes = c]
            r == [bs EXCEPT ![1] = q]
 <1>1. /\ bs \in Seq(PiecesSb) /\ lo \in Nat /\ Len(bs) \in Nat /\ DOMAIN bs = 1..Len(bs)
       /\ \A i \in 1..Len(bs) : bs[i] \in PiecesSb /\ Len(bs[i].bytes) \in Nat \ {0}
       /\ EndSb(bs, lo, Len(bs)) = hi
   BY ChainTypesSb DEF ChainSb
 <1>2. 1 \in 1..Len(bs)
   BY <1>1, EmptySeq
 <1>3. b \in Seq(Nat) /\ Len(b) \in Nat /\ DOMAIN b = 1..Len(b) /\ p < Len(b)
       /\ \A j \in 1..Len(b) : b[j] = lo + j /\ b[j] \in Nat
  <2>1. b \in Seq(Nat) /\ Len(b) \in Nat /\ DOMAIN b = 1..Len(b)
    BY <1>2, ChainTypesSb
  <2>2. EndSb(bs, lo, 1 - 1) = lo
    BY DEF EndSb
  <2>3. \A j \in DOMAIN b : b[j] = lo + j
    BY <1>1, <1>2, <2>2 DEF ChainSb
  <2>4. QED
    BY <2>1, <2>3, <1>1
 <1> HIDE DEF b
 <1>4. c \in Seq(Nat) /\ Len(c) = Len(b) - p /\ DOMAIN c = 1..Len(c) /\ \A j \in 1..Len(c) : c[j] = b[p + j]
  <2>1. p <= Len(b)
    BY <1>3
  <2>2. QED
    BY <1>3, <2>1, RestIs
 <1> HIDE DEF c
 <1>5. q \in PiecesSb /\ q.bytes = c /\ q.large = bs[1].large
   BY <1>1, <1>2, <1>4 DEF PiecesSb
 <1>6. [bs EXCEPT ![1].bytes = SubSeq(@, p + 1, Len(@))] = r
   BY DEF c, b
 <1> HIDE DEF q
 <1>7. /\ r \in Seq(PiecesSb) /\ Len(r) = Len(bs) /\ DOMAIN r = 1..Len(r) /\ r[1] = q
       /\ \A i \in 1..Len(bs) : i # 1 => r[i] = bs[i]
  <2>1. r \in Seq(PiecesSb) /\ Len(r) = Len(bs)
    BY <1>1, <1>2, <1>5, ExceptSeq
  <2>2. QED
    BY <2>1, <1>1, <1>2, LenProperties
 <1> HIDE DEF r
 <1>8. \A i \in 1..Len(bs) : EndSb(r, lo + p, i) = EndSb(bs, lo, i)
  <2> TAKE i \in 1..Len(bs)
  <2>1. CASE i = 1
   <3>1. EndSb(r, lo + p, 1) = c[Len(c)] /\ EndSb(bs, lo, 1) = b[Len(b)]
     BY <1>5, <1>7 DEF EndSb, b
   <3>2. p + Len(c) = Len(b) /\ Len(c) \in 1..Len(c)
     BY <1>3, <1>4
   <3>3. c[Len(c)] = b[p + Len(c)]
     BY <3>2, <1>4
   <3>4. QED
     BY <2>1, <3>1, <3>2, <3>3
  <2>2. CASE i # 1
    BY <2>2, <1>1, <1>7 DEF EndSb
  <2>3. QED
    BY <2>1, <2>2
 <1>9. ASSUME NEW i \in DOMAIN r
       PROVE  /\ Len(r[i].bytes) > 0
              /\ \A j \in DOMAIN r[i].bytes : r[i].bytes[j] = EndSb(r, lo + p, i - 1) + j
  <2>1. CASE i = 1
   <3>1. EndSb(r, lo + p, i - 1) = lo + p
     BY <2>1 DEF EndSb
   <3>2. \A j \in 1..Len(c) : c[j] = (lo + p) + j
    <4> TAKE j \in 1..Len(c)
    <4>1. p + j \in 1..Len(b) /\ c[j] = b[p + j]
      BY <1>3, <1>4
    <4>2. b[p + j] = lo + (p + j)
      BY <4>1, <1>3
    <4>3. QED
      BY <4>1, <4>2, <1>1, <1>3, <1>4
   <3>3. Len(c) > 0
     BY <1>3, <1>4
   <3>4. QED
     BY <2>1, <3>1, <3>2, <3>3, <1>4, <1>5, <1>7
  <2>2. CASE i # 1
   <3>1. i \in 1..Len(bs) /\ r[i] = bs[i] /\ i - 1 \in 1..Len(bs)
     BY <2>2, <1>1, <1>7
   <3>2. EndSb(r, lo + p, i - 1) = EndSb(bs, lo, i - 1)
     BY <3>1, <1>8
   <3>3. QED
     BY <3>1, <3>2, <1>1 DEF ChainSb
  <2>3. QED
    BY <2>1, <2>2
 <1>10. EndSb(r, lo + p, Len(r)) = hi
   BY <1>1, <1>2, <1>7, <1>8
 <1>11. ChainSb(r, lo + p, hi)
   BY <1>1, <1>7, <1>9, <1>10 DEF ChainSb
 <1>12. \A i \in DOMAIN bs : r[i].large = bs[i].large /\ Len(r[i].bytes) <= Len(bs[i].bytes)
  <2> TAKE i \in DOMAIN bs
  <2>1. CASE i = 1
   <3>1. Len(c) <= Len(b)
     BY <1>3, <1>4
   <3>2. QED
     BY <2>1, <3>1, <1>5, <1>7 DEF b
  <2>2. CASE i # 1
    BY <2>2, <1>1, <1>7
  <2>3. QED
    BY <2>1, <2>2
 <1>13. QED
   BY <1>1, <1>6, <1>7, <1>11, <1>12

(* A piece comes to them.                                                  *)
LEMMA AppendsSb ==
  ASSUME NEW bs, NEW lo, NEW hi, ChainSb(bs, lo, hi), NEW large \in BOOLEAN, NEW n \in Nat \ {0}
  PROVE  LET r == Append(bs, [large |-> large, bytes |-> [i \in 1..n |-> hi + i]]) IN
         /\ ChainSb(r, lo, hi + n) /\ DOMAIN r = 1..Len(bs) + 1 /\ Len(r) = Len(bs) + 1
         /\ \A i \in DOMAIN bs : r[i] = bs[i]
         /\ r[Len(bs) + 1].large = large /\ Len(r[Len(bs) + 1].bytes) = n
 <1> DEFINE c == [i \in 1..n |-> hi + i]
            q == [large |-> large, bytes |-> c]
            r == Append(bs, q)
 <1>1. /\ bs \in Seq(PiecesSb) /\ lo \in Nat /\ hi \in Nat /\ Len(bs) \in Nat /\ DOMAIN bs = 1..Len(bs)
       /\ EndSb(bs, lo, Len(bs)) = hi
   BY ChainTypesSb DEF ChainSb
 <1>2. c \in Seq(Nat) /\ Len(c) = n /\ DOMAIN c = 1..n /\ \A j \in 1..n : c[j] = hi + j
  <2>1. \A j \in 1..n : hi + j \in Nat
    BY <1>1
  <2>2. c \in Seq(Nat) /\ DOMAIN c = 1..n
    BY <2>1, IsASeq
  <2>3. QED
    BY <2>2, LenProperties
 <1> HIDE DEF c
 <1>3. q \in PiecesSb /\ q.bytes = c /\ q.large = large
   BY <1>2 DEF PiecesSb
 <1> HIDE DEF q
 <1>4. /\ r \in Seq(PiecesSb) /\ Len(r) = Len(bs) + 1 /\ DOMAIN r = 1..Len(bs) + 1
       /\ \A i \in 1..Len(bs) : r[i] = bs[i]
       /\ r[Len(bs) + 1] = q
  <2>1. r \in Seq(PiecesSb) /\ Len(r) = Len(bs) + 1 /\ (\A i \in 1..Len(bs) : r[i] = bs[i]) /\ r[Len(bs) + 1] = q
    BY <1>1, <1>3, AppendProperties
  <2>2. QED
    BY <2>1, LenProperties
 <1> HIDE DEF r
 <1>5. \A i \in 0..Len(bs) : EndSb(r, lo, i) = EndSb(bs, lo, i)
   BY <1>1, <1>4 DEF EndSb
 <1>6. ASSUME NEW i \in DOMAIN r
       PROVE  /\ Len(r[i].bytes) > 0
              /\ \A j \in DOMAIN r[i].bytes : r[i].bytes[j] = EndSb(r, lo, i - 1) + j
  <2>1. CASE i = Len(bs) + 1
   <3>1. i - 1 = Len(bs) /\ Len(bs) \in 0..Len(bs)
     BY <1>1, <2>1
   <3>2. EndSb(r, lo, i - 1) = hi
     BY <3>1, <1>1, <1>5
   <3>3. QED
     BY <2>1, <3>2, <1>2, <1>3, <1>4
  <2>2. CASE i # Len(bs) + 1
   <3>1. i \in 1..Len(bs) /\ r[i] = bs[i] /\ i - 1 \in 0..Len(bs)
     BY <2>2, <1>1, <1>4
   <3>2. EndSb(r, lo, i - 1) = EndSb(bs, lo, i - 1)
     BY <3>1, <1>5
   <3>3. QED
     BY <3>1, <3>2, <1>1 DEF ChainSb
  <2>3. QED
    BY <2>1, <2>2
 <1>7. EndSb(r, lo, Len(r)) = hi + n
  <2>1. Len(r) # 0 /\ r[Len(r)].bytes = c
    BY <1>1, <1>3, <1>4
  <2>2. QED
    BY <2>1, <1>2 DEF EndSb
 <1>8. ChainSb(r, lo, hi + n)
   BY <1>1, <1>4, <1>6, <1>7 DEF ChainSb
 <1>9. QED
   BY <1>1, <1>2, <1>3, <1>4, <1>8 DEF r, q, c


(* The last one is extended.                                               *)
LEMMA JoinsSb ==
  ASSUME NEW bs, NEW lo, NEW hi, ChainSb(bs, lo, hi), bs # <<>>, NEW n \in Nat \ {0}
  PROVE  LET l == Len(bs)
             r == [bs EXCEPT ![l].bytes = @ \o [i \in 1..n |-> hi + i]]
         IN /\ ChainSb(r, lo, hi + n) /\ Len(r) = l /\ DOMAIN r = DOMAIN bs
            /\ \A i \in DOMAIN bs : r[i].large = bs[i].large /\ (i # l => r[i] = bs[i])
            /\ Len(r[l].bytes) = Len(bs[l].bytes) + n
 <1> DEFINE l == Len(bs)
            b == bs[l].bytes
            a == [i \in 1..n |-> hi + i]
            c == b \o a
            q == [bs[l] EXCEPT !.bytes = c]
            r == [bs EXCEPT ![l] = q]
 <1>1. /\ bs \in Seq(PiecesSb) /\ lo \in Nat /\ hi \in Nat /\ l \in Nat /\ DOMAIN bs = 1..l
       /\ \A i \in 1..l : bs[i] \in PiecesSb
       /\ EndSb(bs, lo, l) = hi
   BY ChainTypesSb DEF ChainSb
 <1>2. l \in 1..l /\ l # 0
   BY <1>1, EmptySeq
 <1>3. b \in Seq(Nat) /\ Len(b) \in Nat \ {0} /\ DOMAIN b = 1..Len(b)
       /\ (\A j \in 1..Len(b) : b[j] = EndSb(bs, lo, l - 1) + j)
       /\ EndSb(bs, lo, l - 1) \in Nat /\ hi = EndSb(bs, lo, l - 1) + Len(b)
  <2>1. b \in Seq(Nat) /\ Len(b) \in Nat \ {0} /\ DOMAIN b = 1..Len(b) /\ l - 1 \in 0..l
    BY <1>1, <1>2, ChainTypesSb
  <2>2. \A j \in DOMAIN b : b[j] = EndSb(bs, lo, l - 1) + j
    BY <1>1, <1>2 DEF ChainSb
  <2>3. EndSb(bs, lo, l - 1) \in Nat /\ EndSb(bs, lo, l) = EndSb(bs, lo, l - 1) + Len(b)
    BY <1>2, <2>1, ChainTypesSb
  <2>4. QED
    BY <2>1, <2>2, <2>3, <1>1
 <1>4. a \in Seq(Nat) /\ Len(a) = n /\ DOMAIN a = 1..n /\ \A j \in 1..n : a[j] = hi + j
  <2>1. \A j \in 1..n : hi + j \in Nat
    BY <1>1
  <2>2. a \in Seq(Nat) /\ DOMAIN a = 1..n
    BY <2>1, IsASeq
  <2>3. QED
    BY <2>2, LenProperties
 <1> HIDE DEF b, a
 <1> DEFINE d == EndSb(bs, lo, l - 1)
 <1>5. /\ c \in Seq(Nat) /\ Len(c) = Len(b) + n /\ DOMAIN c = 1..Len(c)
       /\ \A j \in 1..Len(c) : c[j] = d + j
  <2>1. /\ c \in Seq(Nat) /\ Len(c) = Len(b) + n
        /\ \A j \in 1..Len(b) + n : c[j] = IF j <= Len(b) THEN b[j] ELSE a[j - Len(b)]
    BY <1>3, <1>4, ConcatProperties
  <2>2. \A j \in 1..Len(c) : c[j] = d + j
   <3> TAKE j \in 1..Len(c)
   <3>1. CASE j <= Len(b)
    <4>1. j \in 1..Len(b) /\ j \in 1..Len(b) + n
      BY <2>1, <3>1, <1>3
    <4>2. QED
      BY <4>1, <3>1, <2>1, <1>3
   <3>2. CASE ~(j <= Len(b))
    <4>1. j - Len(b) \in 1..n /\ j \in 1..Len(b) + n
      BY <2>1, <3>2, <1>3
    <4>2. c[j] = a[j - Len(b)] /\ a[j - Len(b)] = hi + (j - Len(b))
      BY <4>1, <3>2, <2>1, <1>4
    <4> DEFINE m == Len(b)
    <4>3. hi = d + m /\ d \in Nat /\ m \in Nat /\ j \in Int /\ c[j] = hi + (j - m)
      BY <4>1, <4>2, <1>3
    <4> HIDE DEF m, d
    <4>4. QED
      BY <4>3
   <3>3. QED
     BY <3>1, <3>2
  <2>3. QED
    BY <2>1, <2>2, LenProperties
 <1> HIDE DEF c
 <1>6. q \in PiecesSb /\ q.bytes = c /\ q.large = bs[l].large
   BY <1>1, <1>2, <1>5 DEF PiecesSb
 <1>7. [bs EXCEPT ![l].bytes = @ \o [i \in 1..n |-> hi + i]] = r
   BY DEF c, b, a
 <1> HIDE DEF q
 <1>8. /\ r \in Seq(PiecesSb) /\ Len(r) = l /\ DOMAIN r = 1..l /\ r[l] = q
       /\ \A i \in 1..l : i # l => r[i] = bs[i]
  <2>1. r \in Seq(PiecesSb) /\ Len(r) = l
    BY <1>1, <1>2, <1>6, ExceptSeq
  <2>2. QED
    BY <2>1, <1>1, <1>2, LenProperties
 <1> HIDE DEF r
 <1>15. l = Len(bs)
   OBVIOUS
 <1> HIDE DEF l
 <1>9. \A i \in 0..l : i # l => EndSb(r, lo, i) = EndSb(bs, lo, i)
  <2> TAKE i \in 0..l
  <2>1. CASE i = 0
    BY <2>1 DEF EndSb
  <2>2. CASE i # 0
    BY <2>2, <1>1, <1>8 DEF EndSb
  <2>3. QED
    BY <2>1, <2>2
 <1>10. ASSUME NEW i \in DOMAIN r
        PROVE  /\ Len(r[i].bytes) > 0
               /\ \A j \in DOMAIN r[i].bytes : r[i].bytes[j] = EndSb(r, lo, i - 1) + j
  <2>1. i \in 1..l /\ i - 1 \in 0..l /\ i - 1 # l
    BY <1>1, <1>8
  <2>2. EndSb(r, lo, i - 1) = EndSb(bs, lo, i - 1)
    BY <2>1, <1>9
  <2>3. CASE i = l
   <3>1. Len(c) > 0
     BY <1>3, <1>5
   <3>2. QED
     BY <2>2, <2>3, <3>1, <1>5, <1>6, <1>8
  <2>4. CASE i # l
    BY <2>1, <2>2, <2>4, <1>1, <1>8 DEF ChainSb
  <2>5. QED
    BY <2>3, <2>4
 <1>11. EndSb(r, lo, Len(r)) = hi + n
  <2>1. EndSb(r, lo, l) = c[Len(c)] /\ Len(c) \in 1..Len(c)
   <3>1. EndSb(r, lo, l) = c[Len(c)]
     BY <1>2, <1>6, <1>8 DEF EndSb
   <3>2. Len(c) \in Nat \ {0}
     BY <1>3, <1>5
   <3>3. QED
     BY <3>1, <3>2
  <2>2. c[Len(c)] = d + Len(c)
    BY <2>1, <1>5
  <2>3. d + Len(c) = hi + n
    BY <1>3, <1>5
  <2>4. QED
    BY <2>1, <2>2, <2>3, <1>8
 <1>12. ChainSb(r, lo, hi + n)
   BY <1>1, <1>8, <1>10, <1>11 DEF ChainSb
 <1>13. /\ \A i \in DOMAIN bs : r[i].large = bs[i].large /\ (i # l => r[i] = bs[i])
        /\ Len(r[l].bytes) = Len(bs[l].bytes) + n
   BY <1>1, <1>5, <1>6, <1>8 DEF b
 <1>14. QED
   BY <1>1, <1>7, <1>8, <1>12, <1>13, <1>15 DEF l

LEMMA AppendDataSb ==
  ASSUME BufferBounds, BufferInv, NEW n \in Nat, Sb!AppendData(n)
  PROVE  BufferInv'
 <1> DEFINE bs == buffersSb
            lo == advancedSb - firstSb
            hi == appendedSb
            l == Len(bs)
            join == n <= Large /\ bs # <<>> /\ ~bs[l].large /\ Len(bs[l].bytes) < Large
 <1>1. /\ ChainSb(bs, lo, hi) /\ FreedSb(bs, firstSb) /\ firstSb \in Nat
       /\ hi \in Nat /\ hi <= MaxBytes /\ advancedSb \in Nat /\ advancedSb <= hi /\ sizeSb = hi - advancedSb
       /\ Large \in Nat /\ MaxBytes \in Nat
   BY DEF BufferInv, FreedSb, BufferBounds
 <1>2. /\ hi + n <= MaxBytes /\ appendedSb' = hi + n /\ sizeSb' = sizeSb + n
       /\ firstSb' = firstSb /\ advancedSb' = advancedSb
   BY DEF Sb!AppendData
 <1>3. Sb!Piece(n) = [large |-> n > Large, bytes |-> [i \in 1..n |-> hi + i]]
   BY DEF Sb!Piece
 <1>4. appendedSb' \in 0..MaxBytes /\ advancedSb' \in 0..appendedSb' /\ sizeSb' = appendedSb' - advancedSb'
  <2> HIDE DEF hi
  <2>1. QED
    BY <1>1, <1>2
 <1>5. /\ l \in Nat /\ DOMAIN bs = 1..l
       /\ \A i \in 1..l : Len(bs[i].bytes) \in Nat \ {0} /\ bs[i].large \in BOOLEAN
   BY <1>1, ChainTypesSb
 <1>6. ChainSb(buffersSb', lo, hi + n) /\ FreedSb(buffersSb', firstSb)
  <2>1. CASE n = 0
   <3>1. buffersSb' = bs /\ hi + n = hi
     BY <2>1, <1>1 DEF Sb!AppendData
   <3>2. QED
     BY <3>1, <1>1
  <2>2. CASE n # 0 /\ join
   <3> DEFINE r == [bs EXCEPT ![l].bytes = @ \o [i \in 1..n |-> hi + i]]
   <3>1. buffersSb' = r
     BY <2>2, <1>3 DEF Sb!AppendData
   <3>2. /\ ChainSb(r, lo, hi + n) /\ Len(r) = l /\ DOMAIN r = DOMAIN bs
         /\ \A i \in DOMAIN bs : r[i].large = bs[i].large /\ (i # l => r[i] = bs[i])
         /\ Len(r[l].bytes) = Len(bs[l].bytes) + n
    <4>1. n \in Nat \ {0} /\ bs # <<>>
      BY <2>2
    <4> HIDE DEF lo, hi
    <4>2. QED
      BY <4>1, <1>1, JoinsSb, SMTT(30)
   <3> HIDE DEF r, l
   <3>3. bs # <<>> /\ l \in 1..l /\ 1 \in 1..l
     BY <2>2, <1>1, <1>5, ChainTypesSb, EmptySeq
   <3>4. \A i \in 1..l : Len(r[i].bytes) >= Len(bs[i].bytes) /\ r[i].large = bs[i].large
    <4> TAKE i \in 1..l
    <4>1. CASE i = l
      BY <4>1, <3>2, <3>3, <1>5
    <4>2. CASE i # l
      BY <4>2, <3>2, <1>5
    <4>3. QED
      BY <4>1, <4>2
   <3>5. firstSb < Len(r[1].bytes) /\ (firstSb > 0 /\ ~r[1].large => 2 * firstSb < Len(r[1].bytes))
    <4>1. firstSb < Len(bs[1].bytes) /\ (firstSb > 0 /\ ~bs[1].large => 2 * firstSb < Len(bs[1].bytes))
      BY <1>1, <3>3 DEF FreedSb
    <4>2. Len(r[1].bytes) >= Len(bs[1].bytes) /\ r[1].large = bs[1].large
          /\ Len(bs[1].bytes) \in Nat
      BY <3>3, <3>4, <1>5
    <4>3. Len(r[1].bytes) \in Nat
     <5>1. 1 \in 1..Len(r)
       BY <3>2, <3>3
     <5>2. QED
       BY <5>1, <3>2, ChainTypesSb
    <4>4. QED
      BY <4>1, <4>2, <4>3, <1>1
   <3>6. \A i \in DOMAIN r : ~r[i].large => Len(r[i].bytes) < 2 * Large
    <4> SUFFICES ASSUME NEW i \in DOMAIN r, ~r[i].large PROVE Len(r[i].bytes) < 2 * Large
      OBVIOUS
    <4>1. CASE i = l
     <5>1. Len(r[l].bytes) = Len(bs[l].bytes) + n /\ Len(bs[l].bytes) < Large /\ n <= Large
           /\ Len(bs[l].bytes) \in Nat
       BY <3>2, <3>3, <2>2, <1>5
     <5>2. QED
       BY <4>1, <5>1, <1>1
    <4>2. CASE i # l
      BY <4>2, <3>2, <1>1 DEF FreedSb
    <4>3. QED
      BY <4>1, <4>2
   <3>7. FreedSb(r, firstSb)
    <4>1. r # <<>>
      BY <3>2, <3>3
    <4>2. QED
      BY <4>1, <3>5, <3>6, <1>1 DEF FreedSb
   <3>8. QED
     BY <3>1, <3>2, <3>7
  <2>3. CASE n # 0 /\ ~join
   <3> DEFINE large == n > Large
              r == Append(bs, [large |-> large, bytes |-> [i \in 1..n |-> hi + i]])
   <3>1. buffersSb' = r
     BY <2>3, <1>3 DEF Sb!AppendData
   <3>2. /\ ChainSb(r, lo, hi + n) /\ DOMAIN r = 1..l + 1 /\ Len(r) = l + 1
         /\ \A i \in DOMAIN bs : r[i] = bs[i]
         /\ r[l + 1].large = large /\ Len(r[l + 1].bytes) = n
    <4>1. large \in BOOLEAN /\ n \in Nat \ {0} /\ ChainSb(bs, lo, hi)
      BY <2>3, <1>1
    <4> HIDE DEF large, lo, hi, bs
    <4>2. /\ ChainSb(r, lo, hi + n) /\ DOMAIN r = 1..Len(bs) + 1 /\ Len(r) = Len(bs) + 1
          /\ \A i \in DOMAIN bs : r[i] = bs[i]
          /\ r[Len(bs) + 1].large = large /\ Len(r[Len(bs) + 1].bytes) = n
      BY ONLY <4>1, AppendsSb
    <4> HIDE DEF r
    <4>3. QED
      BY ONLY <4>2
   <3> HIDE DEF r, l
   <3>3. \A i \in DOMAIN r : ~r[i].large => Len(r[i].bytes) < 2 * Large
    <4> SUFFICES ASSUME NEW i \in DOMAIN r, ~r[i].large PROVE Len(r[i].bytes) < 2 * Large
      OBVIOUS
    <4>1. CASE i = l + 1
     <5>1. Len(r[i].bytes) = n /\ ~(n > Large)
       BY <4>1, <3>2
     <5>2. n < 2 * Large
       BY <5>1, <2>3, <1>1
     <5>3. QED
       BY <5>1, <5>2
    <4>2. CASE i # l + 1
      BY <4>2, <3>2, <1>1, <1>5 DEF FreedSb
    <4>3. QED
      BY <4>1, <4>2
   <3>4. firstSb < Len(r[1].bytes) /\ (firstSb > 0 /\ ~r[1].large => 2 * firstSb < Len(r[1].bytes))
    <4>1. CASE bs = <<>>
     <5>1. firstSb = 0 /\ l + 1 = 1
       BY <4>1, <1>1 DEF FreedSb, l
     <5>2. Len(r[1].bytes) = n
       BY <5>1, <3>2
     <5>3. QED
       BY <5>1, <5>2, <2>3
    <4>2. CASE bs # <<>>
     <5>1. 1 \in DOMAIN bs
       BY <4>2, <1>1, <1>5, ChainTypesSb, EmptySeq
     <5>2. QED
       BY <4>2, <5>1, <3>2, <1>1 DEF FreedSb
    <4>3. QED
      BY <4>1, <4>2
   <3>5. FreedSb(r, firstSb)
    <4>1. r # <<>>
      BY <3>2, <1>5
    <4>2. QED
      BY <4>1, <3>3, <3>4, <1>1 DEF FreedSb
   <3>6. QED
     BY <3>1, <3>2, <3>5
  <2>4. QED
    BY <2>1, <2>2, <2>3
 <1>7. QED
   BY <1>2, <1>4, <1>6 DEF BufferInv


(* What is left of the first piece: it is written up to byte at.           *)
LEMMA ShrinkSb ==
  ASSUME BufferBounds, NEW bs, NEW lo, NEW hi, ChainSb(bs, lo, hi), NEW f \in Nat, NEW n \in Nat,
         \A i \in DOMAIN bs : ~bs[i].large => Len(bs[i].bytes) < 2 * Large,
         bs = <<>> => n = 0 /\ f = 0,
         bs # <<>> => f + n < Len(bs[1].bytes),
         n = 0 => f = 0
  PROVE  LET b == Sb!Shrink([buffers |-> bs, first |-> f], n) IN
         FreedSb(b.buffers, b.first) /\ ChainSb(b.buffers, lo + f + n - b.first, hi)
 <1> DEFINE d == [buffers |-> bs, first |-> f]
            b == Sb!Shrink(d, n)
            pos == f + n
            p == bs[1]
 <1>1. d.buffers = bs /\ d.first = f
   OBVIOUS
 <1>2. lo \in Nat /\ Len(bs) \in Nat /\ DOMAIN bs = 1..Len(bs)
   BY ChainTypesSb
 <1> SUFFICES FreedSb(b.buffers, b.first) /\ ChainSb(b.buffers, lo + f + n - b.first, hi)
   OBVIOUS
 <1> HIDE DEF d
 <1>3. CASE n = 0
  <2>1. b = d /\ b.buffers = bs /\ b.first = 0 /\ f = 0
    BY <1>1, <1>3 DEF Sb!Shrink
  <2>2. lo + f + n - b.first = lo
    BY <2>1, <1>2, <1>3
  <2>3. FreedSb(bs, 0)
    BY <2>1, <1>3 DEF FreedSb
  <2>4. QED
    BY <2>1, <2>2, <2>3
 <1>4. CASE n # 0
  <2>1. bs # <<>> /\ pos < Len(p.bytes) /\ pos \in Nat
    BY <1>4
  <2>2. 1 \in DOMAIN bs /\ Len(p.bytes) \in Nat \ {0} /\ p.large \in BOOLEAN
   <3>1. 1 \in 1..Len(bs)
     BY <2>1, <1>2, ChainTypesSb, EmptySeq
   <3>2. QED
     BY <3>1, <1>2, ChainTypesSb
  <2>3. CASE p.large \/ Len(p.bytes) > 2 * pos
   <3>1. b = [d EXCEPT !.first = pos]
     BY <1>1, <1>4, <2>3 DEF Sb!Shrink
   <3>2. b.buffers = bs /\ b.first = pos
     BY <3>1, <1>1 DEF d
   <3>3. lo + f + n - b.first = lo
     BY <3>2, <1>2
   <3>4. FreedSb(bs, pos)
     BY <2>1, <2>3 DEF FreedSb
   <3>5. QED
     BY <3>2, <3>3, <3>4
  <2>4. CASE ~(p.large \/ Len(p.bytes) > 2 * pos)
   <3> DEFINE r == [bs EXCEPT ![1].bytes = SubSeq(@, pos + 1, Len(@))]
   <3>1. b.buffers = r /\ b.first = 0
     BY <1>1, <1>4, <2>4 DEF Sb!Shrink
   <3>2. /\ ChainSb(r, lo + pos, hi) /\ Len(r) = Len(bs) /\ DOMAIN r = DOMAIN bs
         /\ \A i \in DOMAIN bs : r[i].large = bs[i].large /\ Len(r[i].bytes) <= Len(bs[i].bytes)
    <4> HIDE DEF pos
    <4>1. QED
      BY <2>1, CutSb
   <3> HIDE DEF r
   <3>3. lo + f + n - b.first = lo + pos
     BY <3>1, <1>2
   <3>4. \A i \in DOMAIN r : ~r[i].large => Len(r[i].bytes) < 2 * Large
    <4> SUFFICES ASSUME NEW i \in DOMAIN r, ~r[i].large PROVE Len(r[i].bytes) < 2 * Large
      OBVIOUS
    <4>1. Len(r[i].bytes) <= Len(bs[i].bytes) /\ Len(bs[i].bytes) < 2 * Large
      BY <3>2
    <4>2. Len(r[i].bytes) \in Nat /\ Len(bs[i].bytes) \in Nat /\ i \in 1..Len(r)
      BY <3>2, <1>2, ChainTypesSb
    <4>3. QED
      BY <4>1, <4>2 DEF BufferBounds
   <3>5. FreedSb(r, 0)
    <4>1. r # <<>> /\ 0 < Len(r[1].bytes)
      BY <3>2, <2>2, ChainTypesSb
    <4>2. QED
      BY <4>1, <3>4 DEF FreedSb
   <3>6. QED
     BY <3>1, <3>2, <3>3, <3>5
  <2>5. QED
    BY <2>3, <2>4
 <1>5. QED
   BY <1>3, <1>4

LEMMA AdvanceSb == ASSUME BufferBounds, BufferInv, NEW n \in Nat, Sb!Advance(n) PROVE BufferInv'
 <1> DEFINE bs == buffersSb
            lo == advancedSb - firstSb
            hi == appendedSb
            l == Len(bs)
            E(k) == EndSb(bs, lo, k)
            whole == {k \in 1..l : Sb!LengthOf(k) <= n}
            k == IF whole = {} THEN 0 ELSE CHOOSE x \in whole : \A y \in whole : y <= x
            rest == IF k = 0 THEN n ELSE n - Sb!LengthOf(k)
            b == Sb!Shrink(Sb!Drop(k), rest)
 <1>1. /\ ChainSb(bs, lo, hi) /\ FreedSb(bs, firstSb) /\ firstSb \in Nat /\ lo \in Nat
       /\ hi \in Nat /\ hi <= MaxBytes /\ advancedSb \in Nat /\ advancedSb <= hi /\ sizeSb = hi - advancedSb
       /\ MaxBytes \in Nat
   BY ChainTypesSb DEF BufferInv, FreedSb, BufferBounds
 <1>2. /\ n > 0 /\ n <= sizeSb /\ buffersSb' = b.buffers /\ firstSb' = b.first
       /\ sizeSb' = sizeSb - n /\ advancedSb' = advancedSb + n /\ appendedSb' = hi
   BY DEF Sb!Advance
 <1>3. /\ l \in Nat /\ DOMAIN bs = 1..l
       /\ \A i \in 1..l : Len(bs[i].bytes) \in Nat \ {0}
       /\ \A i \in 0..l : E(i) \in Nat
       /\ \A i \in 1..l : E(i) = E(i - 1) + Len(bs[i].bytes)
       /\ E(0) = lo /\ E(l) = hi
  <2>1. E(0) = lo /\ E(l) = hi
    BY <1>1 DEF ChainSb, EndSb
  <2> HIDE DEF lo, hi
  <2>2. QED
    BY <1>1, <2>1, ChainTypesSb
 <1>4. \A i \in 0..l : Sb!LengthOf(i) = E(i) - advancedSb
   BY UptoIsSb
 <1> HIDE DEF l
 <1>5. /\ k \in 0..l
       /\ k # 0 => E(k) - advancedSb <= n
       /\ k # l => k + 1 \in 1..l /\ E(k + 1) - advancedSb > n
  <2>1. CASE whole = {}
   <3>1. k = 0
     BY <2>1
   <3>2. l # 0 => 1 \in 1..l /\ ~(Sb!LengthOf(1) <= n)
    <4> SUFFICES ASSUME l # 0 PROVE 1 \in 1..l /\ ~(Sb!LengthOf(1) <= n)
      OBVIOUS
    <4>1. 1 \in 1..l
      BY <1>3
    <4>2. 1 \notin whole
      BY <2>1
    <4>3. QED
      BY <4>1, <4>2
   <3>3. l # 0 => 1 \in 0..l /\ E(1) \in Nat /\ Sb!LengthOf(1) = E(1) - advancedSb
     BY <1>3, <1>4
   <3>4. k + 1 = 1 /\ (l # 0 => E(1) - advancedSb > n)
    <4>1. k + 1 = 1
     <5> HIDE DEF k
     <5>1. QED
       BY <3>1
    <4> DEFINE x == Sb!LengthOf(1)
               y == E(1)
    <4>2. l # 0 => ~(x <= n) /\ x = y - advancedSb /\ y \in Nat
      BY <3>2, <3>3
    <4> HIDE DEF x, y
    <4>3. l # 0 => y - advancedSb > n
      BY <4>2, <1>1
    <4>4. QED
      BY <4>1, <4>3 DEF y
   <3> HIDE DEF k, E
   <3>5. QED
     BY <3>1, <3>2, <3>4, <1>3
  <2>2. CASE whole # {}
   <3>1. \E x \in whole : \A y \in whole : x >= y
    <4> HIDE DEF E
    <4>1. whole \in SUBSET (1..l)
      OBVIOUS
    <4> HIDE DEF whole
    <4>2. QED
      BY <4>1, <2>2, <1>3, LastPosition
   <3>2. k \in whole /\ \A y \in whole : y <= k
    <4>1. \E x \in whole : \A y \in whole : y <= x
     <5>1. whole \subseteq Nat
       BY <1>3
     <5> HIDE DEF whole
     <5>2. QED
       BY <3>1, <5>1
    <4> HIDE DEF whole
    <4>2. k = CHOOSE x \in whole : \A y \in whole : y <= x
      BY <2>2
    <4>3. QED
      BY <4>1, <4>2
   <3> HIDE DEF k
   <3>3. k \in 1..l /\ k \in 0..l /\ Sb!LengthOf(k) <= n
     BY <3>2, <1>3
   <3>4. k # l => k + 1 \in 1..l /\ k + 1 \in 0..l /\ ~(k + 1 <= k)
     BY <3>3, <1>3
   <3>5. k # l => ~(Sb!LengthOf(k + 1) <= n)
     BY <3>2, <3>4
   <3>6. k # l => E(k + 1) \in Nat /\ Sb!LengthOf(k + 1) = E(k + 1) - advancedSb
     BY <3>4, <1>3, <1>4
   <3>7. QED
     BY <3>3, <3>4, <3>5, <3>6, <1>1, <1>4
  <2>3. QED
    BY <2>1, <2>2
 <1> HIDE DEF k
 <1> DEFINE r == SubSeq(bs, k + 1, l)
            f == IF k = 0 THEN firstSb ELSE 0
            e == E(k)
 <1>6. Sb!Drop(k) = [buffers |-> r, first |-> f]
   BY DEF Sb!Drop, l
 <1>7. ChainSb(r, e, hi) /\ Len(r) = l - k /\ \A i \in DOMAIN r : r[i] = bs[k + i] /\ k + i \in DOMAIN bs
   BY <1>1, <1>5, DropsSb DEF l
 <1>8. e \in Nat /\ (k = 0 => e = lo) /\ (k = l => e = hi)
   BY <1>3, <1>5
 <1>80. k \in 0..l /\ Sb!LengthOf(k) = e - advancedSb
   BY <1>4, <1>5
 <1>9. rest \in Nat /\ e + f + rest = advancedSb + n /\ (rest = 0 => k # 0) /\ f \in Nat
  <2>1. CASE k = 0
   <3>1. rest = n /\ f = firstSb /\ e = lo
     BY <2>1, <1>8
   <3> HIDE DEF rest, f, e
   <3>2. QED
     BY <3>1, <2>1, <1>1, <1>2
  <2>2. CASE k # 0
   <3>1. rest = n - (e - advancedSb) /\ f = 0 /\ e - advancedSb <= n
     BY <2>2, <1>5, <1>80
   <3> HIDE DEF rest, f, e
   <3>2. QED
     BY <3>1, <2>2, <1>1, <1>8
  <2>3. QED
    BY <2>1, <2>2
 <1>10. rest = 0 => f = 0
   BY <1>9
 <1>11. r = <<>> => rest = 0 /\ f = 0
  <2> SUFFICES ASSUME r = <<>> PROVE rest = 0 /\ f = 0
    OBVIOUS
  <2>1. k = l /\ e = hi
   <3> HIDE DEF r, e
   <3>1. Len(r) = 0
     OBVIOUS
   <3>2. k = l
     BY <3>1, <1>3, <1>5, <1>7
   <3>3. QED
     BY <3>2, <1>8
  <2> HIDE DEF rest, f, e, r
  <2>2. rest = 0
    BY <2>1, <1>1, <1>2, <1>9
  <2>3. QED
    BY <2>2, <1>10
 <1>12. r # <<>> => f + rest < Len(r[1].bytes)
  <2> SUFFICES ASSUME r # <<>> PROVE f + rest < Len(r[1].bytes)
    OBVIOUS
  <2>1. k # l /\ 1 \in DOMAIN r
   <3> HIDE DEF r, e
   <3>1. Len(r) \in Nat /\ DOMAIN r = 1..Len(r) /\ r \in Seq(PiecesSb)
     BY <1>7, ChainTypesSb
   <3>2. Len(r) # 0
     BY <3>1, EmptySeq
   <3>3. QED
     BY <3>1, <3>2, <1>3, <1>5, <1>7
  <2>2. r[1] = bs[k + 1] /\ k + 1 \in 1..l /\ E(k + 1) - advancedSb > n
    BY <2>1, <1>5, <1>7
  <2>3. E(k + 1) = e + Len(r[1].bytes) /\ Len(r[1].bytes) \in Nat
   <3>1. E(k + 1) = E((k + 1) - 1) + Len(bs[k + 1].bytes) /\ Len(bs[k + 1].bytes) \in Nat
     BY <2>2, <1>3
   <3>2. (k + 1) - 1 = k
     BY <1>5, <1>3
   <3>3. QED
     BY <3>1, <3>2, <2>2
  <2> DEFINE x == E(k + 1)
             m == Len(r[1].bytes)
  <2>4. x = e + m /\ m \in Nat /\ x - advancedSb > n
    BY <2>2, <2>3
  <2> HIDE DEF x, m, rest, f, e, r
  <2>5. f + rest < m
    BY <2>4, <1>1, <1>8, <1>9
  <2>6. QED
    BY <2>5 DEF m
 <1>13. \A i \in DOMAIN r : ~r[i].large => Len(r[i].bytes) < 2 * Large
   BY <1>1, <1>7 DEF FreedSb
 <1> HIDE DEF r, f, e, rest
 <1>14. FreedSb(b.buffers, b.first) /\ ChainSb(b.buffers, e + f + rest - b.first, hi)
   BY <1>6, <1>7, <1>9, <1>10, <1>11, <1>12, <1>13, ShrinkSb
 <1> HIDE DEF b
 <1>15. FreedSb(buffersSb', firstSb') /\ ChainSb(buffersSb', advancedSb' - firstSb', appendedSb')
  <2>1. e + f + rest = advancedSb'
    BY <1>2, <1>9
  <2> DEFINE x == e + f + rest - b.first
  <2>2. x = advancedSb' - firstSb'
   <3>1. b.first \in Nat
     BY <1>14 DEF FreedSb
   <3>2. firstSb' = b.first
     BY <1>2
   <3>3. x = advancedSb' - b.first
     BY <2>1, <3>1, <1>8, <1>9
   <3>4. QED
     BY <3>2, <3>3
  <2>3. FreedSb(b.buffers, b.first) /\ ChainSb(b.buffers, x, hi)
    BY <1>14
  <2> HIDE DEF x, hi
  <2>4. QED
    BY <2>2, <2>3, <1>2
 <1>16. appendedSb' \in 0..MaxBytes /\ advancedSb' \in 0..appendedSb' /\ sizeSb' = appendedSb' - advancedSb'
  <2> HIDE DEF hi
  <2>1. QED
    BY <1>1, <1>2
 <1>17. QED
   BY <1>15, <1>16 DEF BufferInv


(* What the invariant says of the bytes, of peek and of what is kept.      *)
LEMMA SoundSb == ASSUME BufferBounds, BufferInv PROVE Sb!TypeOK /\ Sb!BufferSound
 <1> DEFINE bs == buffersSb
            lo == advancedSb - firstSb
            hi == appendedSb
            l == Len(bs)
 <1>1. /\ ChainSb(bs, lo, hi) /\ FreedSb(bs, firstSb) /\ firstSb \in Nat /\ lo \in Nat
       /\ hi \in Nat /\ hi <= MaxBytes /\ advancedSb \in Nat /\ advancedSb <= hi /\ sizeSb = hi - advancedSb
       /\ MaxBytes \in Nat
   BY ChainTypesSb DEF BufferInv, FreedSb, BufferBounds
 <1>2. /\ l \in Nat /\ DOMAIN bs = 1..l
       /\ \A i \in 1..l : /\ Len(bs[i].bytes) \in Nat \ {0} /\ bs[i].large \in BOOLEAN /\ bs[i].bytes \in Seq(Nat)
                          /\ DOMAIN bs[i].bytes = 1..Len(bs[i].bytes)
       /\ \A i \in 0..l : EndSb(bs, lo, i) \in Nat
       /\ EndSb(bs, lo, 0) = lo /\ EndSb(bs, lo, l) = hi
  <2>1. EndSb(bs, lo, 0) = lo /\ EndSb(bs, lo, l) = hi
    BY <1>1 DEF ChainSb, EndSb
  <2> HIDE DEF lo, hi
  <2>2. QED
    BY <1>1, <2>1, ChainTypesSb
 <1>3. \A i \in 0..l : Sb!Upto(i) = EndSb(bs, lo, i) - lo
   BY UptoIsSb
 <1>4. bs # <<>> => 1 \in 1..l
   BY <1>1, <1>2, ChainTypesSb, EmptySeq
 <1> HIDE DEF l
 <1>5. Sb!TypeOK
  <2>1. firstSb \in 0..MaxBytes /\ sizeSb \in 0..MaxBytes
    BY <1>1
  <2>2. QED
    BY <2>1, <1>1, <1>2 DEF Sb!TypeOK, l
 <1>6. firstSb + sizeSb = Sb!Upto(l)
  <2>1. Sb!Upto(l) = hi - lo
    BY <1>2, <1>3
  <2>2. QED
    BY <2>1, <1>1
 <1>7. ASSUME NEW i \in DOMAIN bs, NEW j \in DOMAIN bs[i].bytes
       PROVE  bs[i].bytes[j] = advancedSb - firstSb + Sb!Upto(i - 1) + j
  <2> DEFINE e == EndSb(bs, lo, i - 1)
             u == Sb!Upto(i - 1)
  <2>1. i - 1 \in 0..l /\ j \in Nat
    BY <1>2
  <2>2. u = e - lo /\ e \in Nat
    BY <2>1, <1>2, <1>3
  <2>3. bs[i].bytes[j] = e + j
    BY <1>1 DEF ChainSb
  <2> HIDE DEF e, u
  <2>4. e + j = lo + u + j
    BY <2>1, <2>2, <1>1
  <2>5. QED
    BY <2>3, <2>4 DEF u
 <1>8. ASSUME NEW n \in 1..MaxBytes
       PROVE  /\ \A i \in 1..Len(Sb!Peek(n)) : Sb!Peek(n)[i] = advancedSb + i
              /\ Len(Sb!Peek(n)) <= n /\ (sizeSb > 0 => Sb!Peek(n) # <<>>)
  <2>1. CASE bs = <<>>
   <3>1. Sb!Peek(n) = <<>> /\ l = 0
     BY <2>1 DEF Sb!Peek, l
   <3>2. sizeSb = 0
    <4>1. hi = lo /\ firstSb = 0
      BY <3>1, <2>1, <1>1, <1>2 DEF FreedSb
    <4>2. QED
      BY <4>1, <1>1
   <3>3. Len(<<>>) = 0 /\ n \in Nat
     BY <1>1
   <3>4. QED
     BY <3>1, <3>2, <3>3
  <2>2. CASE bs # <<>>
   <3> DEFINE b == bs[1].bytes
              m == IF firstSb + n < Len(b) THEN firstSb + n ELSE Len(b)
              r == SubSeq(b, firstSb + 1, m)
   <3>1. /\ b \in Seq(Nat) /\ Len(b) \in Nat /\ DOMAIN b = 1..Len(b) /\ firstSb < Len(b)
         /\ \A j \in 1..Len(b) : b[j] = lo + j /\ b[j] \in Nat
    <4>1. b \in Seq(Nat) /\ Len(b) \in Nat /\ DOMAIN b = 1..Len(b) /\ 1 \in DOMAIN bs
      BY <2>2, <1>2, <1>4
    <4>2. firstSb < Len(b)
      BY <2>2, <1>1 DEF FreedSb
    <4>3. EndSb(bs, lo, 1 - 1) = lo
      BY DEF EndSb
    <4>4. \A j \in DOMAIN b : b[j] = lo + j
      BY <4>1, <4>3, <1>1 DEF ChainSb
    <4>5. \A j \in 1..Len(b) : b[j] \in Nat
     <5> HIDE DEF b
     <5>1. QED
       BY <4>1, ElementOfSeq
    <4>6. QED
      BY <4>1, <4>2, <4>4, <4>5
   <3>2. Sb!Peek(n) = r
     BY <2>2 DEF Sb!Peek
   <3> HIDE DEF b
   <3>3. m \in Nat /\ firstSb < m /\ m <= Len(b) /\ m <= firstSb + n
     BY <3>1, <1>1
   <3> HIDE DEF m
   <3>4. /\ Len(r) = IF firstSb + 1 <= m THEN m - (firstSb + 1) + 1 ELSE 0
         /\ \A i \in 1..m - (firstSb + 1) + 1 : r[i] = b[firstSb + 1 + i - 1]
    <4>1. firstSb + 1 \in Int /\ m \in Int
      BY <3>3, <1>1
    <4>2. \A i \in (firstSb + 1)..m : i \in 1..Len(b)
      BY <3>1, <3>3, <1>1
    <4>3. \A i \in (firstSb + 1)..m : b[i] \in Nat
      BY <4>2, <3>1
    <4>4. QED
      BY <4>1, <4>3, SubSeqProperties
   <3> HIDE DEF r
   <3> DEFINE x == Len(r)
   <3>5. x = IF firstSb + 1 <= m THEN m - (firstSb + 1) + 1 ELSE 0
     BY <3>4
   <3> HIDE DEF x
   <3>6. x = m - firstSb /\ x \in Nat \ {0} /\ x <= n /\ m - (firstSb + 1) + 1 = x
     BY <3>3, <3>5, <1>1
   <3>7. ASSUME NEW i \in 1..x PROVE r[i] = advancedSb + i
    <4>1. firstSb + 1 + i - 1 = firstSb + i /\ firstSb + i \in 1..Len(b)
      BY <3>1, <3>3, <3>6, <1>1
    <4>2. r[i] = b[firstSb + i] /\ b[firstSb + i] = lo + (firstSb + i)
      BY <4>1, <3>1, <3>4, <3>6
    <4>3. lo + (firstSb + i) = advancedSb + i
      BY <1>1, <3>6
    <4>4. QED
      BY <4>2, <4>3
   <3>8. r # <<>>
     BY <3>6 DEF x
   <3>9. QED
     BY <3>2, <3>6, <3>7, <3>8 DEF x
  <2>3. QED
    BY <2>1, <2>2
 <1>9. Sb!BytesInOrder
   BY <1>1, <1>6, <1>7, <1>8 DEF Sb!BytesInOrder, l
 <1>10. Sb!WrittenIsFreed
   BY <1>1, <1>2 DEF Sb!WrittenIsFreed, FreedSb, l
 <1>11. QED
   BY <1>5, <1>9, <1>10 DEF Sb!BufferSound

LEMMA InitSb == ASSUME BufferBounds, Sb!Init PROVE BufferInv
 <1>1. /\ buffersSb = <<>> /\ firstSb = 0 /\ sizeSb = 0 /\ appendedSb = 0 /\ advancedSb = 0
       /\ Len(<<>>) = 0 /\ DOMAIN <<>> = {} /\ MaxBytes \in Nat
   BY DEF Sb!Init, BufferBounds
 <1>2. ChainSb(<<>>, 0, 0) /\ FreedSb(<<>>, 0)
   BY <1>1 DEF ChainSb, FreedSb, EndSb
 <1>3. QED
   BY <1>1, <1>2 DEF BufferInv

(* What is to be written is kept in order, counted and given to the socket *)
(* in order; what was written is not kept.                                 *)
THEOREM BytesKept == BufferBounds => (Sb!Spec => [](Sb!TypeOK /\ Sb!BufferSound))
 <1> SUFFICES ASSUME BufferBounds PROVE Sb!Spec => [](Sb!TypeOK /\ Sb!BufferSound)
   OBVIOUS
 <1>1. Sb!Init => BufferInv
   BY InitSb
 <1>2. BufferInv /\ [Sb!Next]_(Sb!vars) => BufferInv'
  <2>1. ASSUME BufferInv, Sb!Next PROVE BufferInv'
   <3>1. PICK n \in 0..MaxBytes : Sb!AppendData(n) \/ Sb!Advance(n)
     BY <2>1 DEF Sb!Next
   <3>2. n \in Nat
     BY DEF BufferBounds
   <3>3. QED
     BY <2>1, <3>1, <3>2, AppendDataSb, AdvanceSb
  <2>2. ASSUME BufferInv, UNCHANGED Sb!vars PROVE BufferInv'
    BY <2>2 DEF BufferInv, Sb!vars
  <2>3. QED
    BY <2>1, <2>2
 <1>3. BufferInv => Sb!TypeOK /\ Sb!BufferSound
   BY SoundSb
 <1>4. QED
   BY <1>1, <1>2, <1>3, PTL DEF Sb!Spec

HIDE DEF buffersSb, firstSb, sizeSb, appendedSb, advancedSb
=============================================================================
