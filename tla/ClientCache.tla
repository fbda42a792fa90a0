------------------------------ MODULE ClientCache ------------------------------
(***************************************************************************)
(* AsyncHTTPClient as its callers see it: a constructor that gives one     *)
(* client for each IOLoop, of the class that is configured, until that     *)
(* client is closed; HTTPClient, which has a loop and a client of its own; *)
(* and fetch, answered by a future and by a callback.                      *)
(***************************************************************************)
EXTENDS Integers, Sequences, FiniteSets, SequencesExt

CONSTANTS MaxLoops, MaxClients, MaxFetches  \* bounds of what is made

VARIABLES
  impl,          \* the configured class, or None
  loops,         \* of each loop that was made, whether it is open
  current,       \* the thread's current loop
  clients,       \* all clients, in the order of their making
  cache,         \* of a class and a loop: the client given to callers, or 0
  syncs,         \* the HTTPClients: [loop, client, closed]
  fetches,       \* [client, future, raises, callback], callback where it stands
  raised         \* close has raised "inconsistent AsyncHTTPClient cache"

vars == <<impl, loops, current, clients, cache, syncs, fetches, raised>>

None == "none"
Base == "AsyncHTTPClient"
Impls == {"SimpleAsyncHTTPClient", "CurlAsyncHTTPClient"}
Default == "SimpleAsyncHTTPClient"

Init ==
  /\ impl = None /\ loops = <<TRUE>> /\ current = 1 /\ clients = <<>> /\ raised = FALSE
  /\ cache = [c \in Impls \cup {Base} |-> [l \in 1..MaxLoops |-> 0]]
  /\ syncs = <<>> /\ fetches = <<>>

-----------------------------------------------------------------------------
(* Clients *)

Configure(c) ==
  /\ impl' = c /\ UNCHANGED <<loops, current, clients, cache, syncs, fetches, raised>>

(* A loop of the program's is made current, or closed; nobody has to close *)
(* its client before.                                                      *)
MakeLoop ==
  /\ Len(loops) < MaxLoops
  /\ loops' = Append(loops, TRUE) /\ current' = Len(loops) + 1
  /\ UNCHANGED <<impl, clients, cache, syncs, fetches, raised>>
OfSync(l) == \E i \in 1..Len(syncs) : syncs[i].loop = l
MakeCurrent(l) ==
  /\ loops[l] /\ ~OfSync(l) /\ current' = l
  /\ UNCHANGED <<impl, loops, clients, cache, syncs, fetches, raised>>
Drop(l, cs) ==
  [i \in 1..Len(fetches) |->
     IF cs[fetches[i].client].loop = l /\ fetches[i].callback = "due"
     THEN [fetches[i] EXCEPT !.callback = "dropped"] ELSE fetches[i]]
CloseLoop(l) ==
  /\ loops[l] /\ ~OfSync(l) /\ l # current
  /\ loops' = [loops EXCEPT ![l] = FALSE] /\ fetches' = Drop(l, clients)
  /\ UNCHANGED <<impl, current, clients, cache, syncs, raised>>

(* The constructor of class c called with loop l current: the client of    *)
(* the cache, or a new one.  clients and cache become those of the result, *)
(* and client its number.                                                  *)
Configured == IF impl = None THEN Default ELSE impl
Constructed(c, l, force) ==
  LET new == [impl |-> IF c = Base THEN Configured ELSE c, loop |-> l,
              cache |-> IF force THEN None ELSE c, closed |-> FALSE]
      number == Len(clients) + 1
  IN IF ~force /\ cache[c][l] # 0
     THEN [client |-> cache[c][l], clients |-> clients, cache |-> cache]
     ELSE [client |-> number, clients |-> Append(clients, new),
           cache |-> IF force THEN cache ELSE [cache EXCEPT ![c][l] = number]]

Construct(c, force) ==
  /\ Len(clients) < MaxClients
  /\ LET r == Constructed(c, current, force)
     IN clients' = r.clients /\ cache' = r.cache
  /\ impl' = IF c = Base THEN Configured ELSE impl
  /\ UNCHANGED <<loops, current, syncs, fetches, raised>>

(* Fault for the mutants: a closed client stays what callers are given.    *)
ClosedKeeps(i) ==
  [clients |-> [clients EXCEPT ![i].closed = TRUE], cache |-> cache, raises |-> FALSE]

(* close(): once; the client leaves the cache it was put in, which must    *)
(* hold it.                                                                *)
Closed(i) ==
  LET c == clients[i]
      raises == c.cache # None /\ cache[c.cache][c.loop] # i
  IN IF c.closed THEN [clients |-> clients, cache |-> cache, raises |-> FALSE]
     ELSE [clients |-> [clients EXCEPT ![i].closed = TRUE],
           cache |-> IF c.cache = None \/ raises THEN cache
                     ELSE [cache EXCEPT ![c.cache][c.loop] = 0],
           raises |-> raises]

Close(i) ==
  /\ ~OfSync(clients[i].loop)
  /\ clients' = Closed(i).clients /\ cache' = Closed(i).cache
  /\ raised' = (raised \/ Closed(i).raises)
  /\ UNCHANGED <<impl, loops, current, syncs, fetches>>

(* HTTPClient(c): the client is made while a new loop is current.  Where   *)
(* that fails, the loop stays open, with nobody left to close it.          *)
SyncConstruct(c, force) ==
  /\ Len(loops) < MaxLoops /\ Len(clients) < MaxClients
  /\ LET l == Len(loops) + 1
         r == Constructed(c, l, force)
     IN /\ loops' = Append(loops, TRUE)
        /\ \/ /\ syncs' = Append(syncs, [loop |-> l, client |-> r.client, closed |-> FALSE])
              /\ clients' = r.clients /\ cache' = r.cache
              /\ impl' = IF c = Base THEN Configured ELSE impl
           \/ UNCHANGED <<syncs, clients, cache, impl>>
  /\ UNCHANGED <<current, fetches, raised>>

(* close(), and __del__: the client first, then the loop.                  *)
SyncClose(i) ==
  LET s == syncs[i]
      r == Closed(s.client)
  IN /\ ~s.closed /\ clients' = r.clients /\ cache' = r.cache
     /\ raised' = (raised \/ r.raises)
     /\ IF r.raises THEN UNCHANGED <<loops, syncs, fetches>>
        ELSE /\ loops' = [loops EXCEPT ![s.loop] = FALSE] /\ fetches' = Drop(s.loop, clients)
             /\ syncs' = [syncs EXCEPT ![i].closed = TRUE]
     /\ UNCHANGED <<impl, current>>

-----------------------------------------------------------------------------
(* Requests *)

(* A closed client refuses.                                                *)
Fetch(i, raises, callback) ==
  /\ Len(fetches) < MaxFetches /\ ~clients[i].closed /\ loops[clients[i].loop]
  /\ fetches' = Append(fetches, [client |-> i, future |-> "waiting", raises |-> raises,
                                 callback |-> IF callback THEN "waiting" ELSE None])
  /\ UNCHANGED <<impl, loops, current, clients, cache, syncs, raised>>

(* The future is given an outcome once: its callbacks are called, of which *)
(* handle_future has the loop call the callback.  It stops at a future     *)
(* that was cancelled.                                                     *)
Resolved(i, outcome) ==
  [fetches EXCEPT ![i].future = outcome,
                  ![i].callback = IF @ = "waiting" /\ outcome # "cancelled" THEN "due" ELSE @]
HandleResponse(i, error) ==
  /\ fetches[i].future = "waiting" /\ loops[clients[fetches[i].client].loop]
  /\ fetches' = Resolved(i, IF error /\ fetches[i].raises THEN "error" ELSE "result")
  /\ UNCHANGED <<impl, loops, current, clients, cache, syncs, raised>>
Cancel(i) ==
  /\ fetches[i].future = "waiting" /\ fetches' = Resolved(i, "cancelled")
  /\ UNCHANGED <<impl, loops, current, clients, cache, syncs, raised>>
RunCallback(i) ==
  /\ fetches[i].callback = "due"
  /\ fetches' = [fetches EXCEPT ![i].callback = "called"]
  /\ UNCHANGED <<impl, loops, current, clients, cache, syncs, raised>>

Next ==
  \/ \E c \in Impls \cup {None} : Configure(c)
  \/ MakeLoop
  \/ \E l \in 1..Len(loops) : MakeCurrent(l) \/ CloseLoop(l)
  \/ \E c \in Impls \cup {Base}, force \in BOOLEAN : Construct(c, force) \/ SyncConstruct(c, force)
  \/ \E i \in 1..Len(clients) :
       \/ Close(i)
       \/ \E raises \in BOOLEAN, callback \in BOOLEAN : Fetch(i, raises, callback)
  \/ \E i \in 1..Len(syncs) : SyncClose(i)
  \/ \E i \in 1..Len(fetches) :
       \/ \E error \in BOOLEAN : HandleResponse(i, error)
       \/ Cancel(i) \/ RunCallback(i)

Spec == Init /\ [][Next]_vars

-----------------------------------------------------------------------------

TypeOK ==
  /\ impl \in Impls \cup {None} /\ current \in 1..MaxLoops /\ raised \in BOOLEAN
  /\ cache \in [Impls \cup {Base} -> [1..MaxLoops -> 0..MaxClients]]
  /\ \A i \in 1..Len(clients) :
       clients[i] \in [impl : Impls, loop : 1..MaxLoops, cache : Impls \cup {Base, None},
                       closed : BOOLEAN]
  /\ \A i \in 1..Len(fetches) :
       fetches[i] \in [client : 1..MaxClients, raises : BOOLEAN,
                       future : {"waiting", "result", "error", "cancelled"},
                       callback : {None, "waiting", "due", "called", "dropped"}]

(* The cache of a class and a loop holds the one client that is open of    *)
(* those made for it; a caller is never given a closed client, nor one of  *)
(* another loop, and close finds itself there (httpclient.py 151-207).     *)
CacheSound ==
  /\ ~raised
  /\ \A c \in DOMAIN cache, l \in 1..MaxLoops :
       {i \in 1..Len(clients) : clients[i].cache = c /\ clients[i].loop = l /\ ~clients[i].closed}
         = IF cache[c][l] = 0 THEN {} ELSE {cache[c][l]}

(* An HTTPClient's loop is open as long as it is, and no client of another *)
(* is closed with it (httpclient.py 76-95).                                *)
SyncsApart ==
  \A i \in 1..Len(syncs) :
    /\ loops[syncs[i].loop] # syncs[i].closed
    /\ clients[syncs[i].client].closed = syncs[i].closed
    /\ \A k \in 1..Len(syncs) : syncs[k].client = syncs[i].client => k = i

(* The callback of a fetch is called, once, when its future has an         *)
(* outcome, unless that was to be cancelled or the loop was closed.        *)
CallbackTold ==
  \A i \in 1..Len(fetches) :
    LET f == fetches[i]
    IN /\ f.callback = "waiting" => f.future \in {"waiting", "cancelled"}
       /\ f.callback \in {"due", "called", "dropped"} => f.future \in {"result", "error"}
       /\ f.callback = "due" => loops[clients[f.client].loop]

CacheOfClientsSound == CacheSound /\ SyncsApart /\ CallbackTold
=============================================================================
