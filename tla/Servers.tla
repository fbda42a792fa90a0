------------------------------- MODULE Servers -------------------------------
(***************************************************************************)
(* tornado.tcpserver and netutil.add_accept_handler: a TCPServer, the      *)
(* sockets it listens on and the loop that accepts connections, which      *)
(* calls handle_stream, which may call any method of the server.           *)
(***************************************************************************)
EXTENDS Integers, FiniteSets

CONSTANTS
  Sock,          \* listening sockets
  MaxConns,      \* bound of the connections
  Backlog        \* _DEFAULT_BACKLOG

VARIABLES
  started, stopped,  \* _started and _stopped
  pending,       \* _pending_sockets
  sockets,       \* values of _sockets
  handlers,      \* keys of _handlers
  registered,    \* sockets with a handler on the loop
  removed,       \* those whose accept handler's removed[0] is set
  closedSocks,   \* closed sockets
  events,        \* sockets whose event the loop has still to handle
  accepting,     \* the socket of the accept handler that runs, or NoSock
  left,          \* what is left of its for loop
  arrived,       \* connections that wait in the kernel, of each socket
  came,          \* connections that have come
  failed         \* sockets on which accept() failed because they were closed

vars == <<started, stopped, pending, sockets, handlers, registered, removed, closedSocks,
          events, accepting, left, arrived, came, failed>>

NoSock == 0
New == Sock \ (pending \cup sockets \cup closedSocks)

Init ==
  /\ started = FALSE /\ stopped = FALSE
  /\ pending = {} /\ sockets = {} /\ handlers = {} /\ registered = {}
  /\ removed = {} /\ closedSocks = {} /\ events = {}
  /\ accepting = NoSock /\ left = 0
  /\ arrived = [s \in Sock |-> 0] /\ came = 0
  /\ failed = {}

loopVars == <<events, accepting, left>>
netVars == <<arrived, came>>

-----------------------------------------------------------------------------
(* Methods of the server: called by the program, before or while the loop  *)
(* runs, and so also by handle_stream.                                     *)

AddSockets(new) ==
  /\ sockets' = sockets \cup new
  /\ handlers' = handlers \cup new
  /\ registered' = registered \cup new

Listen(s) ==
  /\ s \in New
  /\ AddSockets({s})
  /\ UNCHANGED <<started, stopped, pending, removed, closedSocks, failed>>
  /\ UNCHANGED loopVars /\ UNCHANGED netVars

Bind(s) ==
  /\ s \in New
  /\ IF started THEN AddSockets({s}) /\ UNCHANGED pending
                ELSE pending' = pending \cup {s} /\ UNCHANGED <<sockets, handlers, registered>>
  /\ UNCHANGED <<started, stopped, removed, closedSocks, failed>>
  /\ UNCHANGED loopVars /\ UNCHANGED netVars

(* start() in one process. *)
Start ==
  /\ ~started
  /\ started' = TRUE /\ pending' = {}
  /\ AddSockets(pending)
  /\ UNCHANGED <<stopped, removed, closedSocks, failed>>
  /\ UNCHANGED loopVars /\ UNCHANGED netVars

(* stop(): remove_handler also drops an event the loop has still to handle. *)
Stop ==
  /\ ~stopped
  /\ stopped' = TRUE
  /\ handlers' = handlers \ sockets
  /\ registered' = registered \ sockets /\ events' = events \ sockets
  /\ removed' = removed \cup sockets
  /\ closedSocks' = closedSocks \cup sockets
  /\ UNCHANGED <<started, pending, sockets, accepting, left, arrived, came, failed>>

-----------------------------------------------------------------------------
(* The loop *)

Connect(s) ==
  /\ s \in (pending \cup sockets) \ closedSocks /\ came < MaxConns
  /\ came' = came + 1 /\ arrived' = [arrived EXCEPT ![s] = @ + 1]
  /\ UNCHANGED <<started, stopped, pending, sockets, handlers, registered, removed, closedSocks, failed>>
  /\ UNCHANGED loopVars

Poll ==
  /\ events = {} /\ accepting = NoSock
  /\ events' = {s \in registered : arrived[s] > 0}
  /\ UNCHANGED <<started, stopped, pending, sockets, handlers, registered, removed, closedSocks,
                 accepting, left, failed>>
  /\ UNCHANGED netVars

AcceptHandler(s) ==
  /\ s \in events /\ accepting = NoSock
  /\ events' = events \ {s} /\ accepting' = s /\ left' = Backlog
  /\ UNCHANGED <<started, stopped, pending, sockets, handlers, registered, removed, closedSocks, failed>>
  /\ UNCHANGED netVars

(* Fault for the mutants: accept() also on a socket that was closed. *)
MayAcceptAnyway == accepting # NoSock /\ left > 0

MayAccept == accepting # NoSock /\ left > 0 /\ accepting \notin removed

(* Another turn of its loop: handle_stream takes the connection, or the    *)
(* handshake of TLS cannot begin and it is closed, or the peer is gone.    *)
(* An exception of the callback, or of accept() itself, ends the handler.  *)
Accept ==
  /\ MayAccept /\ arrived[accepting] > 0
  /\ IF accepting \in closedSocks
     THEN failed' = failed \cup {accepting} /\ UNCHANGED arrived
     ELSE arrived' = [arrived EXCEPT ![accepting] = @ - 1] /\ UNCHANGED failed
  /\ \/ accepting \notin closedSocks /\ left' = left - 1 /\ UNCHANGED accepting
     \/ left' = 0 /\ accepting' = NoSock
  /\ UNCHANGED <<started, stopped, pending, sockets, handlers, registered, removed, closedSocks,
                 events, came>>

(* The handler returns: it was removed, nobody waits, or it had its share. *)
AcceptReturns ==
  /\ accepting # NoSock
  /\ MayAccept => arrived[accepting] = 0
  /\ accepting' = NoSock /\ left' = 0
  /\ UNCHANGED <<started, stopped, pending, sockets, handlers, registered, removed, closedSocks,
                 events, failed>>
  /\ UNCHANGED netVars

Next ==
  \/ \E s \in Sock : Listen(s) \/ Bind(s) \/ Connect(s) \/ AcceptHandler(s)
  \/ Start \/ Stop \/ Poll \/ Accept \/ AcceptReturns

Spec == Init /\ [][Next]_vars

-----------------------------------------------------------------------------
(* The types of the variables. *)
TypeOK ==
  /\ pending \subseteq Sock /\ sockets \subseteq Sock /\ registered \subseteq Sock
  /\ handlers \subseteq sockets /\ events \subseteq registered
  /\ accepting \in Sock \cup {NoSock} /\ left \in 0..Backlog
  /\ arrived \in [Sock -> 0..MaxConns]

(* What stop() has closed stays closed: none of these sockets has a        *)
(* handler or an event, and accept() is not called on one, although stop() *)
(* may come from the callback of the accept handler itself or between two  *)
(* events of one poll.  All other sockets that were started are accepted   *)
(* from, after stop() too: nothing closes those that are added later.      *)
StopHolds ==
  /\ registered = sockets \ closedSocks /\ registered = handlers
  /\ events \cap closedSocks = {}
  /\ failed = {}
  /\ pending # {} => ~started
=============================================================================
