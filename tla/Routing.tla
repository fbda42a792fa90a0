-------------------------------- MODULE Routing --------------------------------
(***************************************************************************)
(* Which handler of an Application a request goes to: the rules that the   *)
(* application was made with, for every host, and those that were added    *)
(* for some hosts later (add_handlers), also while requests are served.    *)
(* reverse_url finds a rule by its name.                                   *)
(*                                                                         *)
(* A pattern is the set of what it matches.                                *)
(***************************************************************************)
EXTENDS Integers, Sequences, FiniteSets

CONSTANTS
  Host, Path,
  Name,          \* names of rules, not None
  MaxRules,      \* bound of the rules that an application is made with
  MaxGroups      \* bound of the calls of add_handlers

VARIABLES
  handlers,      \* the rules of wildcard_router that the application began with
  groups,        \* what was added: rules with the hosts they are for
  order,         \* default_router.rules, as indices of groups, 0 the wildcard
  default_host   \* a host, or None

vars == <<handlers, groups, order, default_host>>

None == "none"
NotFound == <<>>
Rule == [path : (SUBSET Path) \ {{}}, name : Name \cup {None}]

Init ==
  /\ \E n \in 0..MaxRules : handlers \in [1..n -> Rule]
  /\ groups = <<>> /\ order = <<0>> /\ default_host \in Host \cup {None}

Request == [host : Host, path : Path, behind_balancer : BOOLEAN]

-----------------------------------------------------------------------------
(* Routers *)

Rules(g) == IF g = 0 THEN handlers ELSE groups[g].rules

(* What the first rule gives whose target serves the request.              *)
FirstServed(targets) ==
  LET served == {i \in DOMAIN targets : targets[i] # NotFound}
  IN IF served = {} THEN NotFound
     ELSE targets[CHOOSE i \in served : \A j \in served : i <= j]

(* A handler is the group and the number of its rule.                      *)
FindInGroup(g, request) ==
  LET Handler(i) == IF request.path \in Rules(g)[i].path THEN <<g, i>> ELSE NotFound
  IN FirstServed([i \in 1..Len(Rules(g)) |-> Handler(i)])

(* After the rules of its own, those of hosts that the default host is one *)
(* of, when no load balancer hides the host.                               *)
FindInWildcard(request) ==
  LET ofDefault(g) == IF /\ ~request.behind_balancer /\ default_host # None
                         /\ default_host \in groups[g].hosts
                      THEN FindInGroup(g, request) ELSE NotFound
      own == FindInGroup(0, request)
  IN IF own # NotFound THEN own
     ELSE FirstServed([g \in 1..Len(groups) |-> ofDefault(g)])

(* Application.find_handler; NotFound is the handler that answers 404.     *)
FindHandler(request) ==
  LET Target(i) == IF order[i] = 0 THEN FindInWildcard(request)
                   ELSE IF request.host \in groups[order[i]].hosts
                   THEN FindInGroup(order[i], request) ELSE NotFound
  IN FirstServed([i \in 1..Len(order) |-> Target(i)])

(* named_rules keeps the last rule of a name; routers are asked in order.  *)
Named(g, name) ==
  LET named == {i \in 1..Len(Rules(g)) : Rules(g)[i].name = name}
  IN IF named = {} THEN NotFound ELSE <<g, CHOOSE i \in named : \A j \in named : j <= i>>

ReverseUrl(name) ==
  FirstServed([i \in 1..Len(order) |-> Named(order[i], name)])

-----------------------------------------------------------------------------

(* Fault for the mutants: the new rules come first. *)
InsertedFirst(g) == <<g>> \o order

(* rules.insert(-1, rule): before the wildcard. *)
Inserted(g) == SubSeq(order, 1, Len(order) - 1) \o <<g, order[Len(order)]>>

AddHandlers(hosts, rules) ==
  /\ Len(groups) < MaxGroups
  /\ groups' = Append(groups, [hosts |-> hosts, rules |-> rules])
  /\ order' = Inserted(Len(groups) + 1)
  /\ UNCHANGED <<handlers, default_host>>

Next == \E hosts \in (SUBSET Host) \ {{}}, rule \in Rule : AddHandlers(hosts, <<rule>>)

Spec == Init /\ [][Next]_vars

-----------------------------------------------------------------------------

TypeOK ==
  /\ Len(handlers) <= MaxRules /\ Len(groups) <= MaxGroups
  /\ Len(order) = Len(groups) + 1 /\ default_host \in Host \cup {None}

(* Handlers that would do for a request, each with its turn: the groups of *)
(* its host by age, then the wildcard, then the groups of the default host. *)
Turn(request) ==
  {t \in (1..3) \X (0..MaxGroups) \X (1..MaxRules) :
     /\ \/ t[1] = 1 /\ t[2] \in 1..Len(groups) /\ request.host \in groups[t[2]].hosts
        \/ t[1] = 2 /\ t[2] = 0
        \/ /\ t[1] = 3 /\ t[2] \in 1..Len(groups) /\ ~request.behind_balancer
           /\ default_host \in groups[t[2]].hosts
     /\ t[3] <= Len(Rules(t[2])) /\ request.path \in Rules(t[2])[t[3]].path}

Sooner(s, t) == \/ s[1] < t[1]
                \/ s[1] = t[1] /\ s[2] < t[2]
                \/ s[1] = t[1] /\ s[2] = t[2] /\ s[3] <= t[3]

(* However groups and nested routers are searched, a request goes to the   *)
(* handler whose turn is first, and to 404 only if none would do           *)
(* (RuleRouter.find_handler, routing.py 329-342, add_handlers, web.py      *)
(* 1970-1985).                                                             *)
RoutedInTurn ==
  \A request \in Request :
    LET turns == Turn(request)
        found == FindHandler(request)
    IN IF turns = {} THEN found = NotFound
       ELSE \E t \in turns : found = <<t[2], t[3]>> /\ \A u \in turns : Sooner(t, u)

(* A name that one rule has leads back to it: its url, at a host that the  *)
(* rule is for, goes to that rule unless another would do as well          *)
(* (ReversibleRuleRouter.reverse_url, routing.py 392-402).                 *)
ReverseRoundTrip ==
  \A name \in Name :
    LET r == ReverseUrl(name)
        all == {a \in (0..Len(groups)) \X (1..MaxRules) :
                  a[2] <= Len(Rules(a[1])) /\ Rules(a[1])[a[2]].name = name}
    IN /\ r \in all \/ (r = NotFound /\ all = {})
       /\ Cardinality(all) = 1 /\ r # NotFound =>
            \A request \in Request :
              /\ request.path \in Rules(r[1])[r[2]].path
              /\ r[1] = 0 \/ request.host \in groups[r[1]].hosts
              /\ Cardinality(Turn(request)) = 1
              => FindHandler(request) = r

(* Adding handlers takes no request from the handlers that were added      *)
(* before, only from the wildcard and from 404 (add_handlers: host         *)
(* patterns are processed in the order they were added).                   *)
KeepsRequests ==
  \A request \in Request :
    LET found == FindHandler(request)
    IN found # NotFound /\ found[1] # 0 /\ request.host \in groups[found[1]].hosts
         => FindHandler(request)' = found
EarlierKeep == [][KeepsRequests]_vars

(* Requests and names are routed as the rules say. *)
RoutingSound == RoutedInTurn /\ ReverseRoundTrip
=============================================================================
