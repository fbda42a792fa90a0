------------------------------- MODULE CurlClient ------------------------------
(***************************************************************************)
(* tornado.curl_httpclient: requests wait for one of a fixed number of     *)
(* curl handles, which libcurl works on when it is called: for a socket    *)
(* that has an event, for the timer it asked for, and once a second for    *)
(* all of them, since it sometimes forgets to ask for either.              *)
(***************************************************************************)
EXTENDS Integers, Sequences, FiniteSets, SequencesExt

CONSTANTS
  Request,       \* requests, which are numbers, not 0
  Curl           \* handles, which are numbers

VARIABLES
  bad,           \* requests that cannot be set up
  fetched,       \* requests that were made
  requests,      \* _requests
  free,          \* _free_list
  info,          \* of a handle: its request, or None
  easy,          \* of a handle, in libcurl: "out", "added", "open", or
                 \* "answered" or "failed", which it has not told yet
  fds,           \* handles whose sockets are in _fds, and watched by the loop
  timeout,       \* _timeout is there
  answers,       \* of a request: how often its callback ran
  closed

vars == <<bad, fetched, requests, free, info, easy, fds, timeout, answers, closed>>

None == 0

Init ==
  /\ bad \in SUBSET Request /\ fetched = {} /\ requests = <<>>
  /\ free = SetToSeq(Curl) /\ info = [c \in Curl |-> None]
  /\ easy = [c \in Curl |-> "out"] /\ fds = {} /\ timeout = FALSE
  /\ answers = [r \in Request |-> 0] /\ closed = FALSE

-----------------------------------------------------------------------------
(* The queue: what it is made of, after a request more or a handle more *)

Queue == [requests |-> requests, free |-> free, info |-> info, easy |-> easy,
          answers |-> answers]

(* The first request with the last handle; one that cannot be set up is    *)
(* answered, and the handle is free again.                                 *)
TryFirst(q) ==
  LET r == Head(q.requests)
      c == Last(q.free)
  IN IF q.free = <<>> \/ q.requests = <<>> THEN q
     ELSE IF r \in bad
     THEN [q EXCEPT !.requests = Tail(@), !.answers[r] = @ + 1, !.info[c] = r]
     ELSE [q EXCEPT !.requests = Tail(@), !.free = Front(@), !.info[c] = r,
                    !.easy[c] = "added"]

ProcessQueue(q) ==
  LET after[n \in 0..Len(q.requests)] == IF n = 0 THEN q ELSE TryFirst(after[n - 1])
  IN after[Len(q.requests)]

(* Fault for the mutants: handles of requests that failed are not free.    *)
FinishKeeps(q, c) ==
  [q EXCEPT !.info[c] = None, !.easy[c] = "out", !.answers[q.info[c]] = @ + 1,
            !.free = IF q.easy[c] = "failed" THEN @ ELSE Append(@, c)]

(* _finish, for an answer (info_read's first list) and a failure alike.    *)
Finish(q, c) ==
  [q EXCEPT !.info[c] = None, !.easy[c] = "out", !.answers[q.info[c]] = @ + 1,
            !.free = Append(@, c)]

(* _finish_pending_requests, when libcurl has finished with those of over. *)
FinishPending(q, over) ==
  ProcessQueue(FoldLeft(Finish, q, SetToSeq(over)))

Becomes(q) ==
  /\ requests' = q.requests /\ free' = q.free /\ info' = q.info /\ easy' = q.easy
  /\ answers' = q.answers

-----------------------------------------------------------------------------

(* A call of libcurl in which it works on some handles: it begins with     *)
(* those that were added, ends with those of over, and asks for the sockets *)
(* that it wants to be watched (_handle_socket) and for a timeout, or      *)
(* forgets to.                                                             *)
Perform(some, over) ==
  \E watch \in SUBSET {c \in some : easy[c] \in {"added", "open"}} :
    LET began == [c \in Curl |-> IF c \in some /\ easy[c] = "added" THEN "open" ELSE easy[c]]
    IN /\ Becomes(FinishPending([Queue EXCEPT !.easy = began], over))
       /\ fds' = (fds \ over) \cup watch
       /\ timeout' \in BOOLEAN

Ready(some) == {c \in some : easy[c] \in {"answered", "failed"}}
Added == {c \in Curl : easy[c] # "out"}

Fetch(r) ==
  /\ ~closed /\ r \notin fetched
  /\ fetched' = fetched \cup {r}
  /\ Becomes(ProcessQueue([Queue EXCEPT !.requests = Append(@, r)]))
  /\ timeout' = TRUE
  /\ UNCHANGED <<bad, fds, closed>>

(* The other end answers, the connection breaks, or its time is up.        *)
Network(c) ==
  /\ easy[c] = "open"
  /\ \E how \in {"answered", "failed"} : easy' = [easy EXCEPT ![c] = how]
  /\ UNCHANGED <<bad, fetched, requests, free, info, fds, timeout, answers, closed>>

HandleEvents(c) ==
  /\ ~closed /\ c \in fds /\ easy[c] # "open"
  /\ Perform({c}, Ready({c}))
  /\ UNCHANGED <<bad, fetched, closed>>

(* Which of the handles' times have come is up to libcurl's clock.         *)
HandleTimeout ==
  /\ ~closed /\ timeout
  /\ \E some \in SUBSET Added : Perform(some, Ready(some))
  /\ UNCHANGED <<bad, fetched, closed>>

(* Each second, all of them.                                               *)
HandleForceTimeout ==
  /\ ~closed /\ Added # {}
  /\ Perform(Added, Ready(Added))
  /\ UNCHANGED <<bad, fetched, closed>>

(* Handles are closed, and with them their sockets; nobody is told.        *)
Close ==
  /\ ~closed /\ closed' = TRUE
  /\ timeout' = FALSE /\ easy' = [c \in Curl |-> "out"] /\ fds' = {}
  /\ UNCHANGED <<bad, fetched, requests, free, info, answers>>

Next ==
  \/ \E r \in Request : Fetch(r)
  \/ \E c \in Curl : Network(c) \/ HandleEvents(c)
  \/ HandleTimeout \/ HandleForceTimeout \/ Close

Spec == Init /\ [][Next]_vars

-----------------------------------------------------------------------------

TypeOK ==
  /\ bad \subseteq Request /\ fetched \subseteq Request /\ ToSet(requests) \subseteq fetched
  /\ ToSet(free) \subseteq Curl /\ info \in [Curl -> Request \cup {None}]
  /\ easy \in [Curl -> {"out", "added", "open", "answered", "failed"}]
  /\ fds \subseteq Curl /\ timeout \in BOOLEAN /\ closed \in BOOLEAN

Busy(c) == c \notin ToSet(free)

(* A request that was made waits, or has one busy handle, or was answered, *)
(* and only one of these and once, however events, timeouts and the scan   *)
(* of each second overlap.                                                 *)
AnsweredOnce ==
  \A r \in fetched :
    answers[r] + Cardinality({i \in DOMAIN requests : requests[i] = r})
      + Cardinality({c \in Curl : Busy(c) /\ info[c] = r}) = 1

(* A handle that libcurl works on is not free, no handle is free twice,    *)
(* and while requests wait none is free.                                   *)
PoolKept ==
  /\ \A c \in Curl : easy[c] # "out" => Busy(c)
  /\ Len(free) = Cardinality(ToSet(free))
  /\ ~closed => \A c \in Curl : Busy(c) => easy[c] # "out"
  /\ requests # <<>> => free = <<>>

(* Fetches of the curl client keep their requests and handles.             *)
CurlSound == AnsweredOnce /\ PoolKept

=============================================================================
