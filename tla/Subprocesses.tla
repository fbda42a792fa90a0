----------------------------- MODULE Subprocesses ----------------------------
(***************************************************************************)
(* tornado.process.Subprocess: the exit callbacks of child processes.  The *)
(* handler of SIGCHLD puts _cleanup on the loop, which asks for each pid   *)
(* of _waiting whether it has ended; set_exit_callback asks for its own    *)
(* too.  waitpid gives the status of a process once, and then the pid may  *)
(* be the one of another process, that of a Subprocess or not.             *)
(***************************************************************************)
EXTENDS Integers, Sequences, Functions

CONSTANTS
  Pid,
  Subproc,       \* Subprocess objects
  MaxCalls       \* bound of the callbacks set on each

VARIABLES
  os,          \* of each pid: "free", "alive" or "ended" (and not waited for)
  pid,         \* of each object; NoPid before Popen
  callback,    \* _exit_callback: which one, or NoCallback
  set,         \* callbacks that were set
  returned,    \* returncode is there
  told,        \* the callbacks called, in their order
  waiting,     \* _waiting: objects by pid
  initialized, \* the handler of SIGCHLD is there
  cleanup,     \* _cleanup is on the loop
  due,         \* objects whose _set_returncode is on the loop
  late,        \* objects with a callback set after their status was given
  stolen       \* objects that were given the status of another's process

vars == <<os, pid, callback, set, returned, told, waiting, initialized, cleanup, due, late, stolen>>
objectVars == <<pid, callback, set, returned, told>>

NoPid == 0
NoCallback == 0

Init ==
  /\ os = [p \in Pid |-> "free"]
  /\ pid = [s \in Subproc |-> NoPid] /\ callback = [s \in Subproc |-> NoCallback]
  /\ set = [s \in Subproc |-> 0] /\ returned = [s \in Subproc |-> FALSE]
  /\ told = [s \in Subproc |-> <<>>]
  /\ waiting = [p \in {} |-> 0] /\ initialized = FALSE /\ cleanup = FALSE
  /\ due = {} /\ late = {} /\ stolen = {}

Put(f, k, v) == [x \in DOMAIN f \cup {k} |-> IF x = k THEN v ELSE f[x]]

(* The object whose process p really is, if it was not waited for. *)
Owner(p) == {s \in Subproc : pid[s] = p /\ ~returned[s] /\ s \notin due}

Popen(s, p) ==
  /\ pid[s] = NoPid /\ os[p] = "free"
  /\ pid' = [pid EXCEPT ![s] = p] /\ os' = [os EXCEPT ![p] = "alive"]
  /\ UNCHANGED <<callback, set, returned, told, waiting, initialized, cleanup, due, late, stolen>>

(* A child that is no Subprocess begins; its parent waits for it. *)
OtherChild(p) ==
  /\ os[p] = "free" /\ os' = [os EXCEPT ![p] = "alive"]
  /\ UNCHANGED <<waiting, initialized, cleanup, due, late, stolen>> /\ UNCHANGED objectVars

OtherWaited(p) ==
  /\ os[p] = "ended" /\ Owner(p) = {} /\ os' = [os EXCEPT ![p] = "free"]
  /\ UNCHANGED <<waiting, initialized, cleanup, due, late, stolen>> /\ UNCHANGED objectVars

(* A process ends: SIGCHLD, of which several may become one. *)
ProcessEnds(p) ==
  /\ os[p] = "alive" /\ os' = [os EXCEPT ![p] = "ended"]
  /\ cleanup' = (cleanup \/ initialized)
  /\ UNCHANGED <<waiting, initialized, due, late, stolen>> /\ UNCHANGED objectVars

(* _try_cleanup_process of the pids that are in w, which is _waiting. *)
TryCleanup(w, pids) ==
  LET gone == {p \in pids : os[p] = "ended"}
      mine == {w[p] : p \in gone}
  IN /\ waiting' = Restrict(w, DOMAIN w \ gone)
     /\ due' = due \cup mine
     /\ stolen' = stolen \cup {s \in mine : s \notin Owner(pid[s])}
     /\ os' = [p \in Pid |-> IF p \in gone THEN "free" ELSE os[p]]

(* Fault for the mutants: wait for the signal, which may have been. *)
OnlyWait(w, p) == TryCleanup(w, {})

FirstTry(w, p) == TryCleanup(w, {p})

(* set_exit_callback, or wait_for_exit with its future. *)
SetExitCallback(s) ==
  /\ pid[s] # NoPid /\ set[s] < MaxCalls
  /\ set' = [set EXCEPT ![s] = @ + 1] /\ callback' = [callback EXCEPT ![s] = set[s] + 1]
  /\ initialized' = TRUE
  /\ late' = IF s \in Owner(pid[s]) THEN late ELSE late \cup {s}
  /\ FirstTry(Put(waiting, pid[s], s), pid[s])
  /\ UNCHANGED <<pid, returned, told, cleanup>>

Cleanup ==
  /\ cleanup /\ cleanup' = FALSE
  /\ TryCleanup(waiting, DOMAIN waiting)
  /\ UNCHANGED <<initialized, late>> /\ UNCHANGED objectVars

SetReturncode(s) ==
  /\ s \in due /\ due' = due \ {s}
  /\ returned' = [returned EXCEPT ![s] = TRUE]
  /\ callback' = [callback EXCEPT ![s] = NoCallback]
  /\ told' = [told EXCEPT ![s] = IF callback[s] = NoCallback THEN @ ELSE Append(@, callback[s])]
  /\ UNCHANGED <<os, pid, set, waiting, initialized, cleanup, late, stolen>>

Next ==
  \/ \E p \in Pid : OtherChild(p) \/ OtherWaited(p) \/ ProcessEnds(p)
  \/ \E s \in Subproc, p \in Pid : Popen(s, p)
  \/ \E s \in Subproc : SetExitCallback(s) \/ SetReturncode(s)
  \/ Cleanup

Spec == Init /\ [][Next]_vars

-----------------------------------------------------------------------------
(* The types of the variables. *)
TypeOK ==
  /\ os \in [Pid -> {"free", "alive", "ended"}]
  /\ pid \in [Subproc -> Pid \cup {NoPid}] /\ callback \in [Subproc -> 0..MaxCalls]
  /\ DOMAIN waiting \subseteq Pid /\ due \subseteq Subproc

(* The end of a process is not missed: if an object has a callback and its *)
(* process has ended, _cleanup is on the loop; it does not matter whether  *)
(* the signal comes before the callback is set, and several that become    *)
(* one are enough for all.  So it is unless a callback was set too late:   *)
(* that one may be in _waiting in the place of a later process.            *)
EndNotMissed ==
  \A s \in Subproc : callback[s] # NoCallback /\ s \in Owner(pid[s]) =>
    \/ pid[s] \in DOMAIN waiting /\ waiting[pid[s]] = s /\ (os[pid[s]] = "ended" => cleanup)
    \/ \E t \in late : pid[t] = pid[s]

(* A callback is called once at most, the last one that was set before the *)
(* status is called, and none is given the status of a process that is not *)
(* its own.  What is set too late may never be called, or be given the     *)
(* status of another process; one that is replaced is never called.        *)
ToldOnce ==
  /\ stolen \subseteq late
  /\ \A s \in Subproc :
       /\ \A i, j \in DOMAIN told[s] : i < j => told[s][i] < told[s][j]
       /\ s \notin late => Len(told[s]) <= 1
       /\ s \notin late /\ set[s] > 0 /\ returned[s] => told[s] = <<set[s]>>

SubprocessSound == EndNotMissed /\ ToldOnce
=============================================================================
