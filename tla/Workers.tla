------------------------------- MODULE Workers -------------------------------
(***************************************************************************)
(* tornado.process.fork_processes, in the parent: it starts a worker for   *)
(* each task, waits for its children, and starts another worker for a task *)
(* whose worker died.  The parent may have children of its own, whose end  *)
(* os.wait tells as well; a pid that was waited for may be given again.    *)
(***************************************************************************)
EXTENDS Integers, FiniteSets, Functions

CONSTANTS
  Pid,
  Tasks,         \* num_processes
  MaxRestarts    \* max_restarts

VARIABLES
  os,         \* of each pid: "free", "alive", "ok" or "died" (and not waited for)
  job,        \* the task of each process; Other if it is no worker
  master,     \* "forking", "waiting", "exit" or "gave up"
  children,   \* the dictionary: tasks by pid
  restarts,   \* num_restarts
  ended       \* tasks whose worker exited normally

vars == <<os, job, master, children, restarts, ended>>

Task == 0..(Tasks - 1)
Other == Tasks
Free == {p \in Pid : os[p] = "free"}

Init ==
  /\ os = [p \in Pid |-> "free"] /\ job = [p \in Pid |-> Other]
  /\ master = "forking" /\ children = [p \in {} |-> 0]
  /\ restarts = 0 /\ ended = {}

Put(f, k, v) == [x \in DOMAIN f \cup {k} |-> IF x = k THEN v ELSE f[x]]

(* Fault for the mutants: the dictionary keeps the old pid of a task. *)
Kept(f, k) == f

Pop(f, k) == Restrict(f, DOMAIN f \ {k})

(* A process ends, normally or not; a child that is no worker begins. *)
ProcessEnds(p) ==
  /\ os[p] = "alive"
  /\ \E how \in {"ok", "died"} : os' = [os EXCEPT ![p] = how]
  /\ UNCHANGED <<job, master, children, restarts, ended>>

OtherChild(p) ==
  /\ p \in Free /\ master \in {"forking", "waiting"}
  /\ os' = [os EXCEPT ![p] = "alive"] /\ job' = [job EXCEPT ![p] = Other]
  /\ UNCHANGED <<master, children, restarts, ended>>

(* start_child for the next task. *)
StartChild(p) ==
  LET i == Cardinality(DOMAIN children)
  IN /\ master = "forking" /\ i \in Task /\ p \in Free
     /\ os' = [os EXCEPT ![p] = "alive"] /\ job' = [job EXCEPT ![p] = i]
     /\ children' = Put(children, p, i)
     /\ UNCHANGED <<master, restarts, ended>>

StartedAll ==
  /\ master = "forking" /\ Cardinality(DOMAIN children) = Tasks
  /\ master' = "waiting"
  /\ UNCHANGED <<os, job, children, restarts, ended>>

(* os.wait gives the pid p of a child that has ended. *)
Waits(p) == master = "waiting" /\ DOMAIN children # {} /\ os[p] \in {"ok", "died"}

WaitOther(p) ==
  /\ Waits(p) /\ p \notin DOMAIN children
  /\ os' = [os EXCEPT ![p] = "free"]
  /\ UNCHANGED <<job, master, children, restarts, ended>>

WaitExited(p) ==
  /\ Waits(p) /\ p \in DOMAIN children /\ os[p] = "ok"
  /\ os' = [os EXCEPT ![p] = "free"]
  /\ children' = Pop(children, p) /\ ended' = ended \cup {children[p]}
  /\ UNCHANGED <<job, master, restarts>>

(* A worker was killed or has failed: the new one may get its pid. *)
WaitDied(p) ==
  /\ Waits(p) /\ p \in DOMAIN children /\ os[p] = "died"
  /\ restarts' = restarts + 1
  /\ IF restarts + 1 > MaxRestarts
     THEN /\ master' = "gave up" /\ children' = Pop(children, p)
          /\ os' = [os EXCEPT ![p] = "free"] /\ UNCHANGED job
     ELSE \E q \in Free \cup {p} :
            /\ os' = [os EXCEPT ![p] = "free", ![q] = "alive"]
            /\ job' = [job EXCEPT ![q] = children[p]]
            /\ children' = Put(Pop(children, p), q, children[p])
            /\ UNCHANGED master
  /\ UNCHANGED ended

(* All have exited: sys.exit(0). *)
AllExited ==
  /\ master = "waiting" /\ DOMAIN children = {}
  /\ master' = "exit"
  /\ UNCHANGED <<os, job, children, restarts, ended>>

Next ==
  \/ \E p \in Pid : \/ ProcessEnds(p) \/ OtherChild(p) \/ StartChild(p)
                    \/ WaitOther(p) \/ WaitExited(p) \/ WaitDied(p)
  \/ StartedAll \/ AllExited

Spec == Init /\ [][Next]_vars

-----------------------------------------------------------------------------
(* The types of the variables. *)
TypeOK ==
  /\ os \in [Pid -> {"free", "alive", "ok", "died"}] /\ job \in [Pid -> Task \cup {Other}]
  /\ master \in {"forking", "waiting", "exit", "gave up"}
  /\ DOMAIN children \subseteq Pid /\ \A p \in DOMAIN children : children[p] \in Task
  /\ restarts \in 0..(MaxRestarts + 1) /\ ended \subseteq Task

(* The dictionary is what is true of the processes, whatever pids come     *)
(* again: its pids are those of the workers that were not waited for, and  *)
(* a task has one worker, or has ended, or is the one whose worker died    *)
(* once too often; then the others go on and have no parent.               *)
Workers(i) == {p \in Pid : job[p] = i /\ os[p] # "free"}

WorkersKnown ==
  /\ \A p \in Pid : p \in DOMAIN children <=> os[p] # "free" /\ job[p] # Other
  /\ \A p \in DOMAIN children : children[p] = job[p]
  /\ \A i \in Task :
       /\ Cardinality(Workers(i)) <= 1 /\ (i \in ended => Workers(i) = {})
       /\ master = "waiting" => i \in ended \/ Workers(i) # {}
  /\ master = "gave up" => Cardinality({i \in Task \ ended : Workers(i) = {}}) = 1
  /\ master = "exit" => ended = Task
=============================================================================
