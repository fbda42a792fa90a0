------------------------------- MODULE HttpClient -------------------------------
(***************************************************************************)
(* tornado.simple_httpclient: the queue of a SimpleAsyncHTTPClient, the    *)
(* connection it makes for each request it takes from there, and the       *)
(* redirects that are fetched as requests of their own.  A fetch is known  *)
(* by its request and its hop, the number of redirects that led to it; the *)
(* callback of every hop is in the end the one of the request.             *)
(*                                                                         *)
(* Times are left out: a timer that is armed may fire.  Timeouts are not 0 *)
(* (with 0 there would be no timer for the connection).                    *)
(***************************************************************************)
EXTENDS Integers, Sequences, FiniteSets

CONSTANTS
  Request,
  MaxClients,    \* max_clients
  MaxRedirects   \* max_redirects

Fetches == Request \X (0..MaxRedirects)

VARIABLES
  closed,     \* _closed of the client
  queue,      \* the deque
  waiting,    \* keys of waiting
  queued,     \* fetches whose timer in the queue is armed
  active,     \* keys of active
  conn,       \* the _HTTPConnection of each fetch
  answers,    \* responses on the loop, with the callback of a request
  resolved,   \* futures of fetch() that are done, how often
  dropped     \* requests whose callback was lost with a redirect that failed

vars == <<closed, queue, waiting, queued, active, conn, answers, resolved, dropped>>

NoConnection ==
  [ at |-> "none",       \* "connecting", "reading" or "over"
    callback |-> FALSE,  \* final_callback is there
    release |-> FALSE,   \* release_callback is there
    timer |-> FALSE,     \* _timeout
    open |-> FALSE,      \* its stream
    continued |-> FALSE ] \* 100 (Continue) came: finish() is called twice

Init ==
  /\ closed = FALSE
  /\ queue = <<>> /\ waiting = {} /\ queued = {} /\ active = {}
  /\ conn = [k \in Fetches |-> NoConnection]
  /\ answers = <<>> /\ resolved = [r \in Request |-> 0] /\ dropped = {}

-----------------------------------------------------------------------------
(* The queue, as the record [queue, waiting, queued, active, conn] *)

Client == [queue |-> queue, waiting |-> waiting, queued |-> queued, active |-> active, conn |-> conn]

Becomes(c) ==
  /\ queue' = c.queue /\ waiting' = c.waiting /\ queued' = c.queued
  /\ active' = c.active /\ conn' = c.conn

Connecting ==
  [NoConnection EXCEPT !.at = "connecting", !.callback = TRUE, !.release = TRUE, !.timer = TRUE]

Lesser(a, b) == IF a <= b THEN a ELSE b

(* _process_queue: connections for those that have waited longest, of     *)
(* which each begins with its timeout and a connect.                       *)
ProcessQueue(c) ==
  LET n == Lesser(Len(c.queue), MaxClients - Cardinality(c.active))
      taken == {c.queue[i] : i \in 1..n}
  IN IF n <= 0 THEN c
     ELSE [ queue |-> SubSeq(c.queue, n + 1, Len(c.queue)),
            waiting |-> c.waiting \ taken, queued |-> c.queued \ taken,
            active |-> c.active \cup taken,
            conn |-> [k \in Fetches |-> IF k \in taken THEN Connecting ELSE c.conn[k]] ]

(* fetch_impl: only a request that has to wait gets a timer. *)
FetchImpl(c, k) ==
  ProcessQueue([c EXCEPT !.queue = Append(@, k),
                         !.waiting = @ \cup {k},
                         !.queued = IF Cardinality(c.active) < MaxClients THEN @ ELSE @ \cup {k}])

(* Fault for the mutants: the place is free, but nobody is given it. *)
ReleaseOnly(c, k) ==
  IF ~c.conn[k].release THEN c
  ELSE [c EXCEPT !.conn[k].release = FALSE, !.active = @ \ {k}]

(* _release: once, and then the next of the queue. *)
Release(c, k) ==
  IF ~c.conn[k].release THEN c
  ELSE ProcessQueue([c EXCEPT !.conn[k].release = FALSE, !.active = @ \ {k}])

-----------------------------------------------------------------------------
(* Requests *)

(* A request that was fetched: it has a key, its answer, or was dropped.   *)
Fetched(r) ==
  \/ resolved[r] > 0 \/ r \in dropped
  \/ \E i \in DOMAIN answers : answers[i] = r
  \/ \E h \in 0..MaxRedirects : <<r, h>> \in waiting \/ conn[<<r, h>>].at # "none"

Fetch(r) ==
  /\ ~closed /\ ~Fetched(r)
  /\ Becomes(FetchImpl(Client, <<r, 0>>))
  /\ UNCHANGED <<closed, answers, resolved, dropped>>

(* _on_timeout of the client, in the queue. *)
QueueTimeout(k) ==
  /\ k \in queued
  /\ queue' = SelectSeq(queue, LAMBDA x : x # k)
  /\ waiting' = waiting \ {k} /\ queued' = queued \ {k}
  /\ answers' = Append(answers, k[1])
  /\ UNCHANGED <<closed, active, conn, resolved, dropped>>

(* _run_callback: release, and answer if nobody has. *)
RunCallback(k, next) ==
  /\ Becomes([Release(Client, k) EXCEPT !.conn[k] = next])
  /\ answers' = IF conn[k].callback THEN Append(answers, k[1]) ELSE answers

Over(k) == [conn[k] EXCEPT !.at = "over", !.callback = FALSE, !.release = FALSE,
                           !.timer = FALSE, !.open = FALSE]

(* _on_connect; one that comes after the timeout is closed.  A request     *)
(* that this client does not support raises.                               *)
OnConnect(k) ==
  /\ conn[k].at = "connecting"
  /\ IF ~conn[k].callback
     THEN conn' = [conn EXCEPT ![k].at = "over"] /\ UNCHANGED <<queue, waiting, queued, active>>
     ELSE /\ conn' = [conn EXCEPT ![k].at = "reading", ![k].timer = TRUE, ![k].open = TRUE]
          /\ UNCHANGED <<queue, waiting, queued, active>>
  /\ UNCHANGED <<closed, answers, resolved, dropped>>

(* An exception of the connection, be it the connect that failed, the body *)
(* that could not be written or a response that is no response, reaches    *)
(* _handle_exception, which answers with it and closes the stream.         *)
HandleException(k) ==
  /\ conn[k].at \in {"connecting", "reading"}
  /\ IF conn[k].callback THEN RunCallback(k, Over(k))
     ELSE conn' = [conn EXCEPT ![k].at = "over"] /\ UNCHANGED <<queue, waiting, queued, active, answers>>
  /\ UNCHANGED <<closed, resolved, dropped>>

(* _on_timeout of the connection: while connecting the connect goes on.    *)
Timeout(k) ==
  /\ conn[k].timer
  /\ RunCallback(k, [Over(k) EXCEPT !.at = IF conn[k].at = "connecting" THEN "connecting" ELSE @])
  /\ UNCHANGED <<closed, resolved, dropped>>

(* headers_received with 100: the body is written, the response follows. *)
Continue(k) ==
  /\ conn[k].at = "reading" /\ conn[k].callback /\ ~conn[k].continued
  /\ conn' = [conn EXCEPT ![k].continued = TRUE]
  /\ UNCHANGED <<closed, queue, waiting, queued, active, answers, resolved, dropped>>

(* finish() of a response that is for the caller.  After 100 it comes      *)
(* again when the stream has closed, and finds nobody to answer.           *)
Finish(k) ==
  /\ conn[k].at = "reading"
  /\ RunCallback(k, IF conn[k].continued
                    THEN [Over(k) EXCEPT !.at = "reading", !.continued = FALSE]
                    ELSE Over(k))
  /\ UNCHANGED <<closed, resolved, dropped>>

(* finish() of a redirect: the place is given away, and the new request    *)
(* goes to the end of the queue.  A client that was closed meanwhile does  *)
(* not take it, and the callback is lost.                                  *)
FinishRedirect(k) ==
  /\ conn[k].at = "reading" /\ conn[k].callback /\ k[2] < MaxRedirects
  /\ LET c == [Release(Client, k) EXCEPT !.conn[k] = Over(k)]
     IN IF closed
        THEN Becomes(c) /\ dropped' = dropped \cup {k[1]}
        ELSE Becomes(FetchImpl(c, <<k[1], k[2] + 1>>)) /\ UNCHANGED dropped
  /\ UNCHANGED <<closed, answers, resolved>>

(* on_connection_close: an answer if there was none. *)
OnConnectionClose(k) ==
  /\ conn[k].at = "reading" /\ conn[k].open
  /\ RunCallback(k, Over(k))
  /\ UNCHANGED <<closed, resolved, dropped>>

(* The loop runs the callback: handle_response of the future of fetch(). *)
HandleResponse ==
  /\ answers # <<>>
  /\ answers' = Tail(answers)
  /\ resolved' = [resolved EXCEPT ![Head(answers)] = @ + 1]
  /\ UNCHANGED <<closed, queue, waiting, queued, active, conn, dropped>>

Close ==
  /\ ~closed /\ closed' = TRUE
  /\ UNCHANGED <<queue, waiting, queued, active, conn, answers, resolved, dropped>>

Next ==
  \/ \E r \in Request : Fetch(r)
  \/ \E k \in Fetches : \/ QueueTimeout(k) \/ OnConnect(k) \/ HandleException(k) \/ Timeout(k)
                        \/ Continue(k) \/ Finish(k) \/ FinishRedirect(k) \/ OnConnectionClose(k)
  \/ HandleResponse \/ Close

Spec == Init /\ [][Next]_vars

-----------------------------------------------------------------------------
(* The types of the variables. *)
TypeOK ==
  /\ closed \in BOOLEAN
  /\ queue \in Seq(Fetches) /\ queued \subseteq waiting /\ waiting \subseteq Fetches
  /\ \A k \in Fetches : conn[k].at \in {"none", "connecting", "reading", "over"}
  /\ answers \in Seq(Request) /\ resolved \in [Request -> Nat] /\ dropped \subseteq Request

(* Of a request there is one thing that will answer it, and no more: its   *)
(* place in the queue, with a timer; its connection, with a timer; or the  *)
(* answer itself.                                                          *)
Responsible(r) ==
  Cardinality({k \in queued : k[1] = r})
  + Cardinality({k \in Fetches : k[1] = r /\ conn[k].callback /\ conn[k].timer})
  + Cardinality({i \in DOMAIN answers : answers[i] = r})
  + resolved[r] + (IF r \in dropped THEN 1 ELSE 0)

AnsweredOnce == \A r \in Request : Responsible(r) = IF Fetched(r) THEN 1 ELSE 0

(* The connections are within max_clients and none is idle while requests  *)
(* wait: every way an attempt ends gives its place to the next.            *)
ClientsBounded ==
  /\ Cardinality(active) <= MaxClients
  /\ queue # <<>> => Cardinality(active) = MaxClients
  /\ {queue[i] : i \in DOMAIN queue} = waiting
  /\ active = {k \in Fetches : conn[k].release}

ClientsSound == AnsweredOnce /\ ClientsBounded
=============================================================================
