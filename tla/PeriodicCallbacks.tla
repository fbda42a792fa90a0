--------------------------- MODULE PeriodicCallbacks ---------------------------
(***************************************************************************)
(* tornado.ioloop.PeriodicCallback: a callback that is called again every  *)
(* callback_time.  start() and stop() may come at any time, from inside    *)
(* the callback too, and the callback may take longer than a period.       *)
(*                                                                         *)
(* _timeout is only the newest timer: a start() while another timer is     *)
(* armed, or inside the callback, whose return schedules again, leaves one *)
(* that stop() does not reach.                                             *)
(***************************************************************************)
EXTENDS Integers, FiniteSets

CONSTANTS
  Period,     \* callback_time, in ticks of the clock
  Timers,     \* handles of timers, numbers, as many as there are at once
  MaxTime     \* bound of the clock

VARIABLES
  running,    \* _running
  next,       \* _next_timeout
  armed,      \* deadline of each timer in the loop, -1 if it is not there
  timeout,    \* _timeout, 0 for None
  calls,      \* runs of the callback that have not returned
  now,        \* io_loop.time()
  base,       \* when start() was last called
  doubled     \* start() found a timer armed, or the callback running

vars == <<running, next, armed, timeout, calls, now, base, doubled>>

Init ==
  /\ running = FALSE /\ next = 0 /\ armed = [t \in Timers |-> -1] /\ timeout = 0
  /\ calls = 0 /\ now = 0 /\ base = 0 /\ doubled = FALSE

Armed == {t \in Timers : armed[t] # -1}

(* Fault for the mutants: one period after the last, however late it is. *)
NextAfter(from, time) == from + Period

(* The first moment of the schedule after time. *)
After(from, time) ==
  IF from <= time THEN from + ((time - from) \div Period + 1) * Period ELSE from

(* _schedule_next while the callback runs on: a new timer, the newest one. *)
Schedule(from) ==
  LET at == After(from, now) IN
  /\ next' = at
  /\ \E t \in Timers \ Armed :
       /\ \A u \in Timers \ Armed : t <= u
       /\ armed' = [armed EXCEPT ![t] = at]
       /\ timeout' = t

(* There is a handle left for the return of the callback. *)
Start ==
  /\ Cardinality(Timers \ Armed) > 1
  /\ running' = TRUE
  /\ base' = now
  /\ doubled' = (doubled \/ Armed # {} \/ calls > 0)
  /\ Schedule(now)
  /\ UNCHANGED <<calls, now>>

(* remove_timeout of a timer that has run changes nothing. *)
Stop ==
  /\ running' = FALSE
  /\ armed' = IF timeout # 0 THEN [armed EXCEPT ![timeout] = -1] ELSE armed
  /\ timeout' = 0
  /\ doubled' = (doubled /\ (Armed \ {timeout} # {} \/ calls > 0))
  /\ UNCHANGED <<next, calls, now, base>>

(* _run: the timer is due.  The loop runs one callback at a time. *)
Fire(t) ==
  /\ calls = 0 /\ armed[t] \in 0..now
  /\ armed' = [armed EXCEPT ![t] = -1]
  /\ calls' = IF running THEN 1 ELSE 0
  /\ UNCHANGED <<running, next, timeout, now, base, doubled>>

(* The callback returns or raises: either way the next one is scheduled.   *)
Return ==
  /\ calls > 0
  /\ calls' = 0
  /\ IF running THEN Schedule(next) ELSE UNCHANGED <<next, armed, timeout>>
  /\ UNCHANGED <<running, now, base, doubled>>

Tick ==
  /\ now < MaxTime
  /\ now' = now + 1
  /\ UNCHANGED <<running, next, armed, timeout, calls, base, doubled>>

Next == Start \/ Stop \/ (\E t \in Timers : Fire(t)) \/ Return \/ Tick

Spec == Init /\ [][Next]_vars

-----------------------------------------------------------------------------
(* The types of the variables. *)
TypeOK ==
  /\ running \in BOOLEAN /\ doubled \in BOOLEAN
  /\ next \in 0..MaxTime + Period /\ now \in 0..MaxTime /\ base \in 0..now
  /\ armed \in [Timers -> -1..MaxTime + Period]
  /\ timeout \in Timers \cup {0} /\ calls \in 0..1

(* One timer at a time, and every timer one that stop() reaches, unless    *)
(* start() was called while one was armed or inside the callback.          *)
OneTimer ==
  ~doubled => /\ Cardinality(Armed) <= 1
              /\ Armed \subseteq {timeout}
              /\ ~running => Armed = {}

(* The callback is called on the schedule that start() began, and runs     *)
(* that took too long are skipped rather than made up for.                 *)
ArmsOnSchedule ==
  \A t \in Timers : ~doubled' /\ armed[t] # armed'[t] /\ armed'[t] # -1 =>
    /\ armed'[t] \in now + 1..now + Period
    /\ (armed'[t] - base') % Period = 0
OnSchedule == [][ArmsOnSchedule]_vars
=============================================================================
