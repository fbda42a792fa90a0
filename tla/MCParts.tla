------------------------------- MODULE MCParts ------------------------------
(***************************************************************************)
(* Small instances of the parts of Tornado that the server stands on, and  *)
(* of wxpm's own older programs, in one run.  The parts do not touch each  *)
(* other here: a behaviour is of one part, which part names, and they take *)
(* turns in using the variables v1, v2, ..., of which those that a part    *)
(* has no use for stay 0.  So the run checks each part on its own, as a    *)
(* run apiece would.                                                       *)
(***************************************************************************)
EXTENDS Sums, Integers, Sequences, FiniteSets, FiniteSetTheorems, TLAPS

CONSTANTS PutCall, GetCall, JoinCall, KindsQu, MaxRoom, MaxCallsQu, Acquire, MaxInitial,
          MaxExtra, GCAfterSm, Wait, EventWait, MaxClear, GCAfterCn,
          Futures, Keys, MaxYields, Ctx, KindsSc, MaxFramesSc, MaxSaved,
          Delims, MaxSent, MaxBuffer, MaxWrite, Sizes, Starts, MaxOps,
          MaxRequests, MaxBodyH, MaxChunks, MaxBodyY,
          MaxFramesWe, RequestHc,
          MaxClientsHc, MaxRedirects, RequestCu, Curl, MaxAddrs, MaxLoops,
          MaxClientsCa, MaxFetches, Sock, MaxConns, Backlog, PidJ, Tasks,
          MaxRestarts, PidD, Subproc, MaxCallsD, MaxSize, Chunk, MaxVersion,
          MaxGets, Host, Path, Name, MaxRules, MaxGroups, Page, Expires,
          MaxAge, MaxTimeCo, MaxToken,
          Product, Listed, Web, NoValue, Faults, MaxFaultsDi, MaxOrders,
          MaxCrossing, Sale, Buy, Price, MaxVolume, Few, MaxFaults, Viewer,
          MaxLines, MaxUpdates, CallbackLo, Timer, FdLo, CleanAfter, MaxTimeLo,
          MaxGenLo, FdAs, CallbackAs, MaxGenAs, Period, Timers, MaxTimePc,
          MaxCallsRs, MaxTimeRs, N, Jobs, Threads, Large, MaxBytes

VARIABLES part, v1, v2, v3, v4, v5, v6, v7, v8, v9, v10, v11, v12, v13, v14, v15, v16,
          v17

-----------------------------------------------------------------------------
(* Rules and the requests they take                                        *)

Z == INSTANCE Routing WITH
       handlers <- v1, groups <- v2, order <- v3, default_host <- v4

(* Its variables. *)
handlersZ == v1
groups == v2
order == v3
default_host == v4

USE DEF handlersZ, groups, order, default_host

LEMMA SameCardinalityZ == \A S : Z!Cardinality(S) = Cardinality(S)
  BY DEF Z!Cardinality, Cardinality

(* No host is called as the one that is not there, and the bound of an     *)
(* application's rules is at least that of add_handlers' one.              *)
RuleBounds == Z!None \notin Host /\ MaxRules \in Nat \ {0} /\ MaxGroups \in Nat

Groups == [hosts : SUBSET Host, rules : Seq(Z!Rule)]

(* Groups are asked in the order they came, and then the wildcard.         *)
RoutingInv ==
  /\ handlersZ \in Seq(Z!Rule) /\ Len(handlersZ) <= MaxRules
  /\ groups \in Seq(Groups) /\ Len(groups) <= MaxGroups
  /\ \A g \in 1..Len(groups) : Len(groups[g].rules) <= MaxRules
  /\ order \in Seq(Nat) /\ Len(order) = Len(groups) + 1
  /\ \A i \in 1..Len(groups) : order[i] = i
  /\ order[Len(groups) + 1] = 0
  /\ default_host \in Host \cup {Z!None}

LEMMA InitRouting == RuleBounds /\ Z!Init => RoutingInv
  BY DEF RuleBounds, Z!Init, RoutingInv

LEMMA TwoAtTheEnd ==
  ASSUME NEW o \in Seq(Nat), NEW n \in Nat, Len(o) = n + 1, NEW a \in Nat, NEW b \in Nat,
         NEW q, q = SubSeq(o, 1, n) \o <<a, b>>
  PROVE  /\ q \in Seq(Nat) /\ Len(q) = n + 2
         /\ \A i \in 1..n : q[i] = o[i]
         /\ q[n + 1] = a /\ q[n + 2] = b
 <1>1. /\ SubSeq(o, 1, n) \in Seq(Nat) /\ Len(SubSeq(o, 1, n)) = n
       /\ \A i \in 1..n : SubSeq(o, 1, n)[i] = o[i]
   OBVIOUS
 <1>2. QED
   BY <1>1

LEMMA StepRouting == RuleBounds /\ RoutingInv /\ [Z!Next]_(Z!vars) => RoutingInv'
 <1> SUFFICES ASSUME RuleBounds, RoutingInv, [Z!Next]_(Z!vars) PROVE RoutingInv'
   OBVIOUS
 <1>1. CASE UNCHANGED Z!vars
   BY <1>1 DEF Z!vars, RoutingInv
 <1>2. CASE Z!Next
  <2>1. PICK hosts \in (SUBSET Host) \ {{}}, rule \in Z!Rule : Z!AddHandlers(hosts, <<rule>>)
    BY <1>2 DEF Z!Next
  <2> DEFINE added == [hosts |-> hosts, rules |-> <<rule>>]
             n == Len(groups)
  <2>2. added \in Groups /\ Len(added.rules) = 1
    BY DEF Groups
  <2>3. n \in Nat /\ Len(order) = n + 1 /\ order[Len(order)] = 0
    BY DEF RoutingInv
  <2>4. /\ groups' = Append(groups, added) /\ n < MaxGroups
        /\ UNCHANGED <<handlersZ, default_host>>
    BY <2>1 DEF Z!AddHandlers
  <2> HIDE DEF added
  <2>5. /\ groups' \in Seq(Groups) /\ Len(groups') = n + 1
        /\ \A g \in 1..n : groups'[g] = groups[g]
        /\ groups'[n + 1] = added
    BY <2>2, <2>4 DEF RoutingInv
  <2>6. order' = SubSeq(order, 1, n) \o <<n + 1, 0>>
    BY <2>1, <2>3 DEF Z!AddHandlers, Z!Inserted
  <2>7. /\ order' \in Seq(Nat) /\ Len(order') = n + 2
        /\ \A i \in 1..n : order'[i] = order[i]
        /\ order'[n + 1] = n + 1 /\ order'[n + 2] = 0
   <3>1. order \in Seq(Nat) /\ n + 1 \in Nat /\ 0 \in Nat
     BY <2>3 DEF RoutingInv
   <3> HIDE DEF n
   <3>2. QED
     BY <2>3, <2>6, <3>1, TwoAtTheEnd
  <2>8. \A g \in 1..Len(groups') : Len(groups'[g].rules) <= MaxRules
   <3>1. ASSUME NEW g \in 1..n PROVE Len(groups'[g].rules) <= MaxRules
     BY <2>5 DEF RoutingInv
   <3>2. Len(groups'[n + 1].rules) <= MaxRules
    <4>1. groups'[n + 1].rules = added.rules /\ 1 <= MaxRules
      BY <2>5 DEF RuleBounds
    <4>2. QED
      BY <2>2, <4>1
   <3>3. QED
     BY <2>3, <2>5, <3>1, <3>2
  <2>9. \A i \in 1..Len(groups') : order'[i] = i
   <3>1. ASSUME NEW i \in 1..n PROVE order'[i] = i
     BY <2>7 DEF RoutingInv
   <3>2. \A i \in 1..(n + 1) : i \in 1..n \/ i = n + 1
     BY <2>3
   <3>3. QED
     BY <2>5, <2>7, <3>1, <3>2
  <2>10. Len(groups') <= MaxGroups
    BY <2>3, <2>4, <2>5 DEF RuleBounds
  <2>11. QED
    BY <2>3, <2>4, <2>5, <2>7, <2>8, <2>9, <2>10 DEF RoutingInv
 <1>3. QED
   BY <1>1, <1>2

-----------------------------------------------------------------------------
(* Routers *)

(* FirstServed is the target before which there is none. *)
LEMMA FirstIsServed ==
  ASSUME NEW n \in Nat, NEW t, DOMAIN t = 1..n
  PROVE  \/ Z!FirstServed(t) = Z!NotFound /\ \A i \in 1..n : t[i] = Z!NotFound
         \/ \E i \in 1..n : /\ t[i] # Z!NotFound /\ Z!FirstServed(t) = t[i]
                            /\ \A j \in 1..n : j < i => t[j] = Z!NotFound
 <1> DEFINE served == {i \in 1..n : t[i] # Z!NotFound}
            least == CHOOSE i \in served : \A j \in served : i <= j
 <1>1. CASE served = {}
   BY <1>1 DEF Z!FirstServed
 <1>2. CASE served # {}
  <2>1. \E i \in served : \A j \in served : i <= j
   <3>1. served \in SUBSET Nat
     OBVIOUS
   <3> HIDE DEF served
   <3>2. QED
     BY <1>2, <3>1, LeastNatural
  <2>2. least \in served /\ \A j \in served : least <= j
    BY <2>1
  <2>3. Z!FirstServed(t) = t[least]
    BY <1>2 DEF Z!FirstServed
  <2> HIDE DEF least
  <2>4. \A j \in 1..n : j < least => t[j] = Z!NotFound
    BY <2>2
  <2>5. QED
    BY <2>2, <2>3, <2>4
 <1>3. QED
   BY <1>1, <1>2

LEMMA RulesTyped ==
  ASSUME RuleBounds, RoutingInv, NEW g \in 0..Len(groups)
  PROVE  Z!Rules(g) \in Seq(Z!Rule) /\ Len(Z!Rules(g)) <= MaxRules /\ Len(Z!Rules(g)) \in Nat
 <1>1. CASE g = 0
   BY <1>1 DEF Z!Rules, RoutingInv
 <1>2. CASE g # 0
  <2>1. g \in 1..Len(groups) /\ groups[g] \in Groups
    BY <1>2 DEF RoutingInv
  <2>2. QED
    BY <1>2, <2>1 DEF Z!Rules, RoutingInv, Groups
 <1>3. QED
   BY <1>1, <1>2

LEMMA FoundInGroup ==
  ASSUME RuleBounds, RoutingInv, NEW request \in Z!Request, NEW g \in 0..Len(groups)
  PROVE  /\ Z!Rules(g) \in Seq(Z!Rule) /\ Len(Z!Rules(g)) <= MaxRules
         /\ \/ /\ Z!FindInGroup(g, request) = Z!NotFound
               /\ \A i \in 1..Len(Z!Rules(g)) : request.path \notin Z!Rules(g)[i].path
            \/ \E i \in 1..Len(Z!Rules(g)) :
                 /\ request.path \in Z!Rules(g)[i].path
                 /\ Z!FindInGroup(g, request) = <<g, i>>
                 /\ \A j \in 1..Len(Z!Rules(g)) : j < i => request.path \notin Z!Rules(g)[j].path
 <1>1. Z!Rules(g) \in Seq(Z!Rule) /\ Len(Z!Rules(g)) <= MaxRules
   BY RulesTyped
 <1> DEFINE n == Len(Z!Rules(g))
            Handler(i) == IF request.path \in Z!Rules(g)[i].path THEN <<g, i>> ELSE Z!NotFound
            t == [i \in 1..n |-> Handler(i)]
 <1>2. n \in Nat /\ DOMAIN t = 1..n
   BY <1>1
 <1>3. Z!FindInGroup(g, request) = Z!FirstServed(t)
   BY DEF Z!FindInGroup
 <1>4. \A i \in 1..n : t[i] = Z!NotFound <=> request.path \notin Z!Rules(g)[i].path
   BY DEF Z!NotFound
 <1>5. \A i \in 1..n : request.path \in Z!Rules(g)[i].path => t[i] = <<g, i>>
   OBVIOUS
 <1> HIDE DEF t, n
 <1>6. CASE Z!FirstServed(t) = Z!NotFound /\ \A i \in 1..n : t[i] = Z!NotFound
   BY <1>1, <1>3, <1>4, <1>6 DEF n
 <1>7. CASE \E i \in 1..n : /\ t[i] # Z!NotFound /\ Z!FirstServed(t) = t[i]
                            /\ \A j \in 1..n : j < i => t[j] = Z!NotFound
   BY <1>1, <1>3, <1>4, <1>5, <1>7 DEF n
 <1>8. QED
   BY <1>2, <1>6, <1>7, FirstIsServed

OfDefault(g, request) ==
  ~request.behind_balancer /\ default_host # Z!None /\ default_host \in groups[g].hosts

LEMMA FoundInWildcard ==
  ASSUME RuleBounds, RoutingInv, NEW request \in Z!Request
  PROVE  IF Z!FindInGroup(0, request) # Z!NotFound
         THEN Z!FindInWildcard(request) = Z!FindInGroup(0, request)
         ELSE \/ /\ Z!FindInWildcard(request) = Z!NotFound
                 /\ \A g \in 1..Len(groups) : OfDefault(g, request) =>
                                                Z!FindInGroup(g, request) = Z!NotFound
              \/ \E g \in 1..Len(groups) :
                   /\ OfDefault(g, request)
                   /\ Z!FindInGroup(g, request) # Z!NotFound
                   /\ Z!FindInWildcard(request) = Z!FindInGroup(g, request)
                   /\ \A k \in 1..Len(groups) : k < g /\ OfDefault(k, request) =>
                                                  Z!FindInGroup(k, request) = Z!NotFound
 <1> DEFINE n == Len(groups)
            ofDefault(g) == IF /\ ~request.behind_balancer /\ default_host # Z!None
                               /\ default_host \in groups[g].hosts
                            THEN Z!FindInGroup(g, request) ELSE Z!NotFound
            t == [g \in 1..n |-> ofDefault(g)]
 <1>1. n \in Nat /\ DOMAIN t = 1..n
   BY DEF RoutingInv
 <1>2. CASE Z!FindInGroup(0, request) # Z!NotFound
   BY <1>2 DEF Z!FindInWildcard
 <1>3. CASE Z!FindInGroup(0, request) = Z!NotFound
  <2>1. Z!FindInWildcard(request) = Z!FirstServed(t)
    BY <1>3 DEF Z!FindInWildcard
  <2>2. \A g \in 1..n : t[g] = IF OfDefault(g, request) THEN Z!FindInGroup(g, request) ELSE Z!NotFound
    BY DEF OfDefault
  <2> HIDE DEF t
  <2>3. CASE Z!FirstServed(t) = Z!NotFound /\ \A g \in 1..n : t[g] = Z!NotFound
    BY <1>3, <2>1, <2>2, <2>3
  <2>4. CASE \E g \in 1..n : /\ t[g] # Z!NotFound /\ Z!FirstServed(t) = t[g]
                             /\ \A k \in 1..n : k < g => t[k] = Z!NotFound
   <3>1. PICK g \in 1..n : /\ t[g] # Z!NotFound /\ Z!FirstServed(t) = t[g]
                           /\ \A k \in 1..n : k < g => t[k] = Z!NotFound
     BY <2>4
   <3>2. OfDefault(g, request) /\ t[g] = Z!FindInGroup(g, request)
     BY <2>2, <3>1
   <3>3. QED
     BY <1>3, <2>1, <2>2, <3>1, <3>2
  <2>5. QED
    BY <1>1, <2>3, <2>4, FirstIsServed
 <1>4. QED
   BY <1>2, <1>3

LEMMA FoundByHost ==
  ASSUME RuleBounds, RoutingInv, NEW request \in Z!Request
  PROVE  \/ \E g \in 1..Len(groups) :
              /\ request.host \in groups[g].hosts /\ Z!FindInGroup(g, request) # Z!NotFound
              /\ Z!FindHandler(request) = Z!FindInGroup(g, request)
              /\ \A k \in 1..Len(groups) : k < g /\ request.host \in groups[k].hosts =>
                                             Z!FindInGroup(k, request) = Z!NotFound
         \/ /\ Z!FindHandler(request) = Z!FindInWildcard(request)
            /\ \A k \in 1..Len(groups) : request.host \in groups[k].hosts =>
                                           Z!FindInGroup(k, request) = Z!NotFound
 <1> DEFINE n == Len(groups)
            Target(i) == IF order[i] = 0 THEN Z!FindInWildcard(request)
                         ELSE IF request.host \in groups[order[i]].hosts
                         THEN Z!FindInGroup(order[i], request) ELSE Z!NotFound
            t == [i \in 1..Len(order) |-> Target(i)]
 <1>1. n \in Nat /\ Len(order) = n + 1 /\ DOMAIN t = 1..(n + 1)
   BY DEF RoutingInv
 <1>2. Z!FindHandler(request) = Z!FirstServed(t)
   BY DEF Z!FindHandler
 <1>3. /\ \A g \in 1..n : t[g] = IF request.host \in groups[g].hosts
                                 THEN Z!FindInGroup(g, request) ELSE Z!NotFound
       /\ t[n + 1] = Z!FindInWildcard(request)
  <2>1. ASSUME NEW g \in 1..n PROVE order[g] = g /\ g # 0 /\ g \in 1..Len(order)
    BY <1>1 DEF RoutingInv
  <2>2. order[n + 1] = 0 /\ n + 1 \in 1..Len(order)
    BY <1>1 DEF RoutingInv
  <2>3. QED
    BY <2>1, <2>2
 <1> HIDE DEF t
 <1>4. CASE Z!FirstServed(t) = Z!NotFound /\ \A i \in 1..(n + 1) : t[i] = Z!NotFound
  <2>1. t[n + 1] = Z!NotFound /\ \A g \in 1..n : t[g] = Z!NotFound
    BY <1>1, <1>4
  <2>2. QED
    BY <1>2, <1>3, <1>4, <2>1
 <1>5. CASE \E i \in 1..(n + 1) : /\ t[i] # Z!NotFound /\ Z!FirstServed(t) = t[i]
                                  /\ \A j \in 1..(n + 1) : j < i => t[j] = Z!NotFound
  <2>1. PICK i \in 1..(n + 1) : /\ t[i] # Z!NotFound /\ Z!FirstServed(t) = t[i]
                                /\ \A j \in 1..(n + 1) : j < i => t[j] = Z!NotFound
    BY <1>5
  <2>2. \A k \in 1..n : k < i => t[k] = Z!NotFound
    BY <1>1, <2>1
  <2>3. CASE i \in 1..n
    BY <1>2, <1>3, <2>1, <2>2, <2>3
  <2>4. CASE i = n + 1
   <3>1. \A k \in 1..n : t[k] = Z!NotFound
     BY <1>1, <2>2, <2>4
   <3>2. QED
     BY <1>2, <1>3, <2>1, <2>4, <3>1
  <2>5. QED
    BY <1>1, <2>3, <2>4
 <1>6. n + 1 \in Nat
   BY <1>1
 <1>7. QED
   BY <1>1, <1>4, <1>5, <1>6, FirstIsServed

-----------------------------------------------------------------------------
(* Turns *)

LEMMA TurnOfHost ==
  ASSUME RuleBounds, RoutingInv, NEW request \in Z!Request, NEW g \in 1..Len(groups),
         request.host \in groups[g].hosts,
         NEW i \in 1..Len(Z!Rules(g)), request.path \in Z!Rules(g)[i].path
  PROVE  <<1, g, i>> \in Z!Turn(request)
 <1>1. Z!Rules(g) \in Seq(Z!Rule) /\ Len(Z!Rules(g)) <= MaxRules /\ Len(groups) \in Nat
   BY FoundInGroup DEF RoutingInv
 <1>2. <<1, g, i>> \in (1..3) \X (0..MaxGroups) \X (1..MaxRules)
   BY <1>1, SMTT(30) DEF RoutingInv, RuleBounds
 <1>3. QED
   BY <1>1, <1>2 DEF Z!Turn

LEMMA TurnOfWildcard ==
  ASSUME RuleBounds, RoutingInv, NEW request \in Z!Request,
         NEW i \in 1..Len(Z!Rules(0)), request.path \in Z!Rules(0)[i].path
  PROVE  <<2, 0, i>> \in Z!Turn(request)
 <1>1. Z!Rules(0) \in Seq(Z!Rule) /\ Len(Z!Rules(0)) <= MaxRules
   BY FoundInGroup DEF RoutingInv
 <1>2. <<2, 0, i>> \in (1..3) \X (0..MaxGroups) \X (1..MaxRules)
   BY <1>1 DEF RuleBounds
 <1>3. QED
   BY <1>1, <1>2 DEF Z!Turn

LEMMA TurnOfDefault ==
  ASSUME RuleBounds, RoutingInv, NEW request \in Z!Request, NEW g \in 1..Len(groups),
         OfDefault(g, request),
         NEW i \in 1..Len(Z!Rules(g)), request.path \in Z!Rules(g)[i].path
  PROVE  <<3, g, i>> \in Z!Turn(request)
 <1>1. Z!Rules(g) \in Seq(Z!Rule) /\ Len(Z!Rules(g)) <= MaxRules /\ Len(groups) \in Nat
   BY FoundInGroup DEF RoutingInv
 <1>2. <<3, g, i>> \in (1..3) \X (0..MaxGroups) \X (1..MaxRules)
   BY <1>1 DEF RoutingInv, RuleBounds
 <1>3. QED
   BY <1>1, <1>2 DEF Z!Turn, OfDefault

(* What a turn is: that of a group which the router asks. *)
LEMMA TurnIs ==
  ASSUME RuleBounds, RoutingInv, NEW request \in Z!Request, NEW t \in Z!Turn(request)
  PROVE  /\ t = <<t[1], t[2], t[3]>> /\ t[1] \in 1..3 /\ t[2] \in 0..Len(groups)
         /\ t[3] \in 1..Len(Z!Rules(t[2])) /\ request.path \in Z!Rules(t[2])[t[3]].path
         /\ t[1] = 1 => t[2] \in 1..Len(groups) /\ request.host \in groups[t[2]].hosts
         /\ t[1] = 2 => t[2] = 0
         /\ t[1] = 3 => t[2] \in 1..Len(groups) /\ OfDefault(t[2], request)
         /\ Z!FindInGroup(t[2], request) # Z!NotFound
 <1>1. /\ t \in (1..3) \X (0..MaxGroups) \X (1..MaxRules)
       /\ \/ t[1] = 1 /\ t[2] \in 1..Len(groups) /\ request.host \in groups[t[2]].hosts
          \/ t[1] = 2 /\ t[2] = 0
          \/ /\ t[1] = 3 /\ t[2] \in 1..Len(groups) /\ ~request.behind_balancer
             /\ default_host \in groups[t[2]].hosts
       /\ t[3] <= Len(Z!Rules(t[2])) /\ request.path \in Z!Rules(t[2])[t[3]].path
   BY DEF Z!Turn
 <1>2. t = <<t[1], t[2], t[3]>> /\ t[1] \in 1..3 /\ t[3] \in 1..MaxRules
   BY <1>1
 <1>3. /\ t[1] = 1 => t[2] \in 1..Len(groups) /\ request.host \in groups[t[2]].hosts
       /\ t[1] = 2 => t[2] = 0
       /\ t[1] = 3 => /\ t[2] \in 1..Len(groups) /\ ~request.behind_balancer
                      /\ default_host \in groups[t[2]].hosts
   BY <1>1, <1>2
 <1>4. t[2] \in 0..Len(groups)
  <2>1. Len(groups) \in Nat /\ (t[1] = 1 \/ t[1] = 2 \/ t[1] = 3)
    BY <1>2 DEF RoutingInv
  <2>2. QED
    BY <1>3, <2>1
 <1>5. t[1] = 3 => OfDefault(t[2], request)
  <2>1. \A g \in 1..Len(groups) : groups[g] \in Groups
    BY DEF RoutingInv
  <2>2. \A g \in 1..Len(groups) : Z!None \notin groups[g].hosts
    BY <2>1 DEF Groups, RuleBounds
  <2>3. QED
    BY <1>3, <2>2 DEF OfDefault
 <1>6. t[3] \in 1..Len(Z!Rules(t[2]))
   BY <1>1, <1>2, <1>4, FoundInGroup DEF RuleBounds
 <1>7. Z!FindInGroup(t[2], request) # Z!NotFound
  <2>1. \A g \in 0..Len(groups) : \A i \in 1..Len(Z!Rules(g)) : <<g, i>> # Z!NotFound
    BY DEF Z!NotFound
  <2>2. QED
    BY <1>1, <1>4, <1>6, <2>1, FoundInGroup
 <1>8. QED
   BY <1>1, <1>2, <1>3, <1>4, <1>5, <1>6, <1>7

(* In a group that is found nothing does sooner. *)
LEMMA FirstInGroup ==
  ASSUME RuleBounds, RoutingInv, NEW request \in Z!Request, NEW g \in 0..Len(groups),
         Z!FindInGroup(g, request) # Z!NotFound
  PROVE  \E i \in 1..Len(Z!Rules(g)) :
           /\ request.path \in Z!Rules(g)[i].path
           /\ Z!FindInGroup(g, request) = <<g, i>>
           /\ \A j \in 1..Len(Z!Rules(g)) : request.path \in Z!Rules(g)[j].path => i <= j
 <1>1. PICK i \in 1..Len(Z!Rules(g)) :
          /\ request.path \in Z!Rules(g)[i].path
          /\ Z!FindInGroup(g, request) = <<g, i>>
          /\ \A j \in 1..Len(Z!Rules(g)) : j < i => request.path \notin Z!Rules(g)[j].path
   BY FoundInGroup
 <1>2. \A j \in 1..Len(Z!Rules(g)) : request.path \in Z!Rules(g)[j].path => i <= j
   BY <1>1
 <1>3. QED
   BY <1>1, <1>2

(* If no group of the host serves the request, the turns are those of the  *)
(* wildcard and of the default host.                                       *)
LEMMA TurnOfOthers ==
  ASSUME RuleBounds, RoutingInv, NEW request \in Z!Request, NEW u \in Z!Turn(request),
         \A k \in 1..Len(groups) : request.host \in groups[k].hosts =>
                                   Z!FindInGroup(k, request) = Z!NotFound
  PROVE  /\ u[1] \in {2, 3} /\ u[2] \in 0..Len(groups) /\ u[3] \in 1..Len(Z!Rules(u[2]))
         /\ request.path \in Z!Rules(u[2])[u[3]].path
         /\ u[1] = 2 => u[2] = 0
         /\ u[1] = 3 => u[2] \in 1..Len(groups) /\ OfDefault(u[2], request)
         /\ Z!FindInGroup(u[2], request) # Z!NotFound
 <1>1. /\ u[1] \in 1..3 /\ u[2] \in 0..Len(groups) /\ u[3] \in 1..Len(Z!Rules(u[2]))
       /\ request.path \in Z!Rules(u[2])[u[3]].path
       /\ u[1] = 1 => u[2] \in 1..Len(groups) /\ request.host \in groups[u[2]].hosts
       /\ u[1] = 2 => u[2] = 0
       /\ u[1] = 3 => u[2] \in 1..Len(groups) /\ OfDefault(u[2], request)
       /\ Z!FindInGroup(u[2], request) # Z!NotFound
   BY TurnIs
 <1>2. u[1] # 1
   BY <1>1
 <1>3. u[1] \in {2, 3}
   BY <1>1, <1>2
 <1>4. QED
   BY <1>1, <1>3

LEMMA FoundInTurn ==
  ASSUME RuleBounds, RoutingInv, NEW request \in Z!Request
  PROVE  IF Z!Turn(request) = {} THEN Z!FindHandler(request) = Z!NotFound
         ELSE \E t \in Z!Turn(request) : /\ \A u \in Z!Turn(request) : Z!Sooner(t, u)
                                         /\ Z!FindHandler(request) = <<t[2], t[3]>>
 <1> DEFINE n == Len(groups)
            T == Z!Turn(request)
            Goal == IF T = {} THEN Z!FindHandler(request) = Z!NotFound
                    ELSE \E t \in T : /\ \A u \in T : Z!Sooner(t, u)
                                      /\ Z!FindHandler(request) = <<t[2], t[3]>>
 <1>1. n \in Nat
   BY DEF RoutingInv
 <1>2. ASSUME NEW g \in 1..n, request.host \in groups[g].hosts, Z!FindInGroup(g, request) # Z!NotFound,
              Z!FindHandler(request) = Z!FindInGroup(g, request),
              \A k \in 1..n : k < g /\ request.host \in groups[k].hosts =>
                              Z!FindInGroup(k, request) = Z!NotFound
       PROVE  Goal
  <2>1. PICK i \in 1..Len(Z!Rules(g)) :
         /\ request.path \in Z!Rules(g)[i].path
         /\ Z!FindInGroup(g, request) = <<g, i>>
         /\ \A j \in 1..Len(Z!Rules(g)) : request.path \in Z!Rules(g)[j].path => i <= j
    BY <1>1, <1>2, FirstInGroup
  <2> DEFINE t == <<1, g, i>>
  <2>2. t \in T
    BY <1>2, <2>1, TurnOfHost
  <2>3. ASSUME NEW u \in T PROVE Z!Sooner(t, u)
   <3> HIDE DEF T
   <3>1. /\ u[1] \in 1..3 /\ u[2] \in 0..n /\ u[3] \in 1..Len(Z!Rules(u[2]))
         /\ request.path \in Z!Rules(u[2])[u[3]].path
         /\ u[1] = 1 => u[2] \in 1..n /\ request.host \in groups[u[2]].hosts
         /\ Z!FindInGroup(u[2], request) # Z!NotFound
     BY TurnIs DEF T
   <3>2. u[1] = 1 => ~(u[2] < g)
     BY <1>2, <3>1
   <3>3. u[2] = g => i <= u[3]
     BY <2>1, <3>1
   <3>4. t[1] = 1 /\ t[2] = g /\ t[3] = i
     OBVIOUS
   <3>5. QED
     BY <1>1, <3>1, <3>2, <3>3, <3>4 DEF Z!Sooner
  <2>4. Z!FindHandler(request) = <<t[2], t[3]>>
    BY <1>2, <2>1
  <2> HIDE DEF t, T
  <2>5. QED
    BY <2>2, <2>3, <2>4
 <1>3. ASSUME Z!FindHandler(request) = Z!FindInWildcard(request),
              \A k \in 1..n : request.host \in groups[k].hosts =>
                              Z!FindInGroup(k, request) = Z!NotFound
       PROVE  Goal
  <2>2. CASE Z!FindInGroup(0, request) # Z!NotFound
   <3>1. PICK i \in 1..Len(Z!Rules(0)) :
          /\ request.path \in Z!Rules(0)[i].path
          /\ Z!FindInGroup(0, request) = <<0, i>>
          /\ \A j \in 1..Len(Z!Rules(0)) : request.path \in Z!Rules(0)[j].path => i <= j
     BY <1>1, <2>2, FirstInGroup
   <3> DEFINE t == <<2, 0, i>>
   <3>2. t \in T
     BY <3>1, TurnOfWildcard
   <3>3. ASSUME NEW u \in T PROVE Z!Sooner(t, u)
    <4> HIDE DEF T
    <4>1. /\ u[1] \in {2, 3} /\ u[3] \in 1..Len(Z!Rules(u[2])) /\ (u[1] = 2 => u[2] = 0)
          /\ request.path \in Z!Rules(u[2])[u[3]].path
      BY <1>3, TurnOfOthers DEF T
    <4>2. u[1] = 2 => u[2] = 0 /\ i <= u[3]
      BY <3>1, <4>1
    <4>3. t[1] = 2 /\ t[2] = 0 /\ t[3] = i
      OBVIOUS
    <4>4. QED
      BY <4>1, <4>2, <4>3 DEF Z!Sooner
   <3>4. Z!FindHandler(request) = <<t[2], t[3]>>
     BY <1>3, <2>2, <3>1, FoundInWildcard
   <3> HIDE DEF t, T
   <3>5. QED
     BY <3>2, <3>3, <3>4
  <2>3. ASSUME Z!FindInGroup(0, request) = Z!NotFound, Z!FindInWildcard(request) = Z!NotFound,
               \A g \in 1..n : OfDefault(g, request) => Z!FindInGroup(g, request) = Z!NotFound
        PROVE  Goal
   <3>1. ASSUME NEW u \in T PROVE FALSE
    <4>1. /\ u[1] \in {2, 3} /\ (u[1] = 2 => u[2] = 0)
          /\ u[1] = 3 => u[2] \in 1..n /\ OfDefault(u[2], request)
          /\ Z!FindInGroup(u[2], request) # Z!NotFound
      BY <1>3, TurnOfOthers
    <4> HIDE DEF T
    <4>2. QED
      BY <2>3, <4>1
   <3> HIDE DEF T
   <3>2. QED
     BY <1>3, <2>3, <3>1
  <2>4. ASSUME Z!FindInGroup(0, request) = Z!NotFound, NEW g \in 1..n, OfDefault(g, request),
               Z!FindInGroup(g, request) # Z!NotFound,
               Z!FindInWildcard(request) = Z!FindInGroup(g, request),
               \A k \in 1..n : k < g /\ OfDefault(k, request) => Z!FindInGroup(k, request) = Z!NotFound
        PROVE  Goal
   <3>1. PICK i \in 1..Len(Z!Rules(g)) :
          /\ request.path \in Z!Rules(g)[i].path
          /\ Z!FindInGroup(g, request) = <<g, i>>
          /\ \A j \in 1..Len(Z!Rules(g)) : request.path \in Z!Rules(g)[j].path => i <= j
     BY <1>1, <2>4, FirstInGroup
   <3> DEFINE t == <<3, g, i>>
   <3>2. t \in T
     BY <2>4, <3>1, TurnOfDefault
   <3>3. ASSUME NEW u \in T PROVE Z!Sooner(t, u)
    <4> HIDE DEF T
    <4>1. /\ u[1] \in {2, 3} /\ u[3] \in 1..Len(Z!Rules(u[2])) /\ (u[1] = 2 => u[2] = 0)
          /\ u[1] = 3 => u[2] \in 1..n /\ OfDefault(u[2], request)
          /\ Z!FindInGroup(u[2], request) # Z!NotFound
          /\ request.path \in Z!Rules(u[2])[u[3]].path
      BY <1>3, TurnOfOthers DEF T
    <4>2. u[1] = 3 /\ u[2] \in 1..n /\ ~(u[2] < g) /\ (u[2] = g => i <= u[3])
      BY <2>4, <3>1, <4>1
    <4>3. t[1] = 3 /\ t[2] = g /\ t[3] = i
      OBVIOUS
    <4>4. QED
      BY <1>1, <4>2, <4>3 DEF Z!Sooner
   <3>4. Z!FindHandler(request) = <<t[2], t[3]>>
     BY <1>3, <2>4, <3>1
   <3> HIDE DEF t, T
   <3>5. QED
     BY <3>2, <3>3, <3>4
  <2> HIDE DEF Goal
  <2>5. QED
    BY <2>2, <2>3, <2>4, FoundInWildcard
 <1> HIDE DEF Goal
 <1>4. Goal
   BY <1>2, <1>3, FoundByHost
 <1>5. QED
   BY <1>4 DEF Goal

-----------------------------------------------------------------------------
(* Names *)

LEMMA NamedIs ==
  ASSUME RuleBounds, RoutingInv, NEW g \in 0..Len(groups), NEW name \in Name
  PROVE  \/ /\ Z!Named(g, name) = Z!NotFound
            /\ \A i \in 1..Len(Z!Rules(g)) : Z!Rules(g)[i].name # name
         \/ \E i \in 1..Len(Z!Rules(g)) : Z!Rules(g)[i].name = name /\ Z!Named(g, name) = <<g, i>>
 <1> DEFINE n == Len(Z!Rules(g))
            named == {i \in 1..n : Z!Rules(g)[i].name = name}
            last == CHOOSE i \in named : \A j \in named : j <= i
 <1>1. n \in Nat
   BY RulesTyped
 <1>2. CASE named = {}
   BY <1>2 DEF Z!Named
 <1>3. CASE named # {}
  <2>1. \E i \in named : \A j \in named : i >= j
   <3>1. named \in SUBSET (1..n)
     OBVIOUS
   <3> HIDE DEF named, n
   <3>2. QED
     BY <1>1, <1>3, <3>1, LastPosition
  <2>2. \A i, j \in named : i >= j <=> j <= i
    BY <1>1
  <2>3. last \in named
    BY <2>1, <2>2
  <2>4. Z!Named(g, name) = <<g, last>>
    BY <1>3 DEF Z!Named
  <2> HIDE DEF last
  <2>5. QED
    BY <2>3, <2>4
 <1>4. QED
   BY <1>2, <1>3

AllNamed(name) ==
  {a \in (0..Len(groups)) \X (1..MaxRules) :
     a[2] <= Len(Z!Rules(a[1])) /\ Z!Rules(a[1])[a[2]].name = name}

LEMMA InAllNamed ==
  ASSUME RuleBounds, RoutingInv, NEW g \in 0..Len(groups), NEW name \in Name,
         NEW i \in 1..Len(Z!Rules(g)), Z!Rules(g)[i].name = name
  PROVE  <<g, i>> \in AllNamed(name)
 <1> DEFINE a == <<g, i>>
 <1>1. Len(Z!Rules(g)) \in Nat /\ Len(Z!Rules(g)) <= MaxRules /\ MaxRules \in Nat
   BY RulesTyped DEF RuleBounds
 <1>2. a \in (0..Len(groups)) \X (1..MaxRules) /\ a[1] = g /\ a[2] = i
   BY <1>1
 <1>3. i <= Len(Z!Rules(g))
   BY <1>1
 <1> HIDE DEF a
 <1>4. a \in AllNamed(name)
   BY <1>2, <1>3 DEF AllNamed
 <1>5. QED
   BY <1>4 DEF a

LEMMA Reversed ==
  ASSUME RuleBounds, RoutingInv, NEW name \in Name
  PROVE  \/ Z!ReverseUrl(name) = Z!NotFound /\ AllNamed(name) = {}
         \/ \E g \in 0..Len(groups) : \E i \in 1..Len(Z!Rules(g)) :
              Z!Rules(g)[i].name = name /\ Z!ReverseUrl(name) = <<g, i>>
 <1> DEFINE n == Len(groups)
            t == [i \in 1..Len(order) |-> Z!Named(order[i], name)]
 <1>1. n \in Nat /\ Len(order) = n + 1 /\ DOMAIN t = 1..(n + 1) /\ n + 1 \in Nat
   BY DEF RoutingInv
 <1>2. Z!ReverseUrl(name) = Z!FirstServed(t)
   BY DEF Z!ReverseUrl
 <1>3. (\A g \in 1..n : t[g] = Z!Named(g, name)) /\ t[n + 1] = Z!Named(0, name)
  <2>1. ASSUME NEW g \in 1..n PROVE order[g] = g /\ g \in 1..Len(order)
    BY <1>1 DEF RoutingInv
  <2>2. order[n + 1] = 0 /\ n + 1 \in 1..Len(order)
    BY <1>1 DEF RoutingInv
  <2>3. QED
    BY <2>1, <2>2
 <1> HIDE DEF t
 <1>4. CASE Z!FirstServed(t) = Z!NotFound /\ \A i \in 1..(n + 1) : t[i] = Z!NotFound
  <2>1. \A g \in 0..n : Z!Named(g, name) = Z!NotFound
   <3>1. \A g \in 0..n : g = 0 \/ g \in 1..n
     BY <1>1
   <3>2. n + 1 \in 1..(n + 1) /\ \A g \in 1..n : g \in 1..(n + 1)
     BY <1>1
   <3>3. QED
     BY <1>3, <1>4, <3>1, <3>2
  <2>2. ASSUME NEW a \in AllNamed(name) PROVE FALSE
   <3>1. /\ a \in (0..n) \X (1..MaxRules) /\ a[2] <= Len(Z!Rules(a[1]))
         /\ Z!Rules(a[1])[a[2]].name = name
     BY DEF AllNamed
   <3>2. a[1] \in 0..n /\ a[2] \in 1..Len(Z!Rules(a[1]))
     BY <3>1, RulesTyped DEF RuleBounds
   <3>3. \A g \in 0..n : \A i \in 1..Len(Z!Rules(g)) : <<g, i>> # Z!NotFound
     BY DEF Z!NotFound
   <3>4. QED
     BY <2>1, <3>1, <3>2, <3>3, NamedIs
  <2>3. QED
    BY <1>2, <1>4, <2>2
 <1>5. CASE \E i \in 1..(n + 1) : /\ t[i] # Z!NotFound /\ Z!FirstServed(t) = t[i]
                                  /\ \A j \in 1..(n + 1) : j < i => t[j] = Z!NotFound
  <2>1. PICK k \in 1..(n + 1) : t[k] # Z!NotFound /\ Z!FirstServed(t) = t[k]
    BY <1>5
  <2>2. PICK g \in 0..n : t[k] = Z!Named(g, name)
   <3>1. k \in 1..n \/ k = n + 1
     BY <1>1
   <3>2. 0 \in 0..n /\ \A g \in 1..n : g \in 0..n
     BY <1>1
   <3>3. QED
     BY <1>3, <3>1, <3>2
  <2>3. QED
    BY <1>2, <2>1, <2>2, NamedIs
 <1>6. QED
   BY <1>1, <1>4, <1>5, FirstIsServed

LEMMA TurnIsFinite ==
  ASSUME RuleBounds, NEW request \in Z!Request
  PROVE  IsFiniteSet(Z!Turn(request))
 <1> DEFINE P == ((1..3) \X (0..MaxGroups)) \X (1..MaxRules)
            TurnPlaces == (1..3) \X (0..MaxGroups) \X (1..MaxRules)
            f == [p \in P |-> <<p[1][1], p[1][2], p[2]>>]
 <1>1. IsFiniteSet(P)
  <2>1. IsFiniteSet(1..3) /\ IsFiniteSet(0..MaxGroups) /\ IsFiniteSet(1..MaxRules)
   <3>1. 0 \in Int /\ 1 \in Int /\ 3 \in Int /\ MaxGroups \in Int /\ MaxRules \in Int
     BY DEF RuleBounds
   <3>2. QED
     BY <3>1, FS_Interval, SameCardinalityZ
  <2>2. IsFiniteSet((1..3) \X (0..MaxGroups))
    BY <2>1, FS_Product, SameCardinalityZ
  <2>3. QED
    BY <2>1, <2>2, FS_Product, SameCardinalityZ
 <1>2. ASSUME NEW t \in TurnPlaces PROVE \E p \in P : f[p] = t
  <2>1. /\ t = <<t[1], t[2], t[3]>> /\ t[1] \in 1..3 /\ t[2] \in 0..MaxGroups
        /\ t[3] \in 1..MaxRules
    OBVIOUS
  <2>2. <<<<t[1], t[2]>>, t[3]>> \in P
    BY <2>1
  <2>3. f[<<<<t[1], t[2]>>, t[3]>>] = t
    BY <2>1, <2>2
  <2> HIDE DEF f, P, TurnPlaces
  <2>4. QED
    BY <2>2, <2>3
 <1>3. f \in Surjection(P, TurnPlaces)
   BY <1>2 DEF Surjection
 <1>4. Z!Turn(request) \subseteq TurnPlaces
   BY DEF Z!Turn
 <1> HIDE DEF f, P, TurnPlaces
 <1>5. QED
   BY <1>1, <1>3, <1>4, FS_Surjection, SameCardinalityZ, FS_Subset

LEMMA RoutingInvImplies == RuleBounds /\ RoutingInv => Z!TypeOK /\ Z!RoutingSound
 <1> SUFFICES ASSUME RuleBounds, RoutingInv PROVE Z!TypeOK /\ Z!RoutingSound
   OBVIOUS
 <1>1. Z!TypeOK
   BY DEF Z!TypeOK, RoutingInv
 <1>2. Z!RoutedInTurn
   BY FoundInTurn DEF Z!RoutedInTurn
 <1>3. ASSUME NEW name \in Name
       PROVE  \/ Z!ReverseUrl(name) \in AllNamed(name)
              \/ Z!ReverseUrl(name) = Z!NotFound /\ AllNamed(name) = {}
   BY Reversed, InAllNamed
 <1>4. ASSUME NEW name \in Name, NEW request \in Z!Request, Z!ReverseUrl(name) # Z!NotFound,
              request.path \in Z!Rules(Z!ReverseUrl(name)[1])[Z!ReverseUrl(name)[2]].path,
              \/ Z!ReverseUrl(name)[1] = 0
              \/ request.host \in groups[Z!ReverseUrl(name)[1]].hosts,
              Z!Cardinality(Z!Turn(request)) = 1
       PROVE  Z!FindHandler(request) = Z!ReverseUrl(name)
  <2> DEFINE r == Z!ReverseUrl(name)
             T == Z!Turn(request)
  <2>1. /\ Z!Cardinality(T) = 1 /\ r # Z!NotFound /\ request.path \in Z!Rules(r[1])[r[2]].path
        /\ r[1] = 0 \/ request.host \in groups[r[1]].hosts
    BY <1>4
  <2>2. Z!FindHandler(request) = r
   <3>1. PICK g \in 0..Len(groups) : \E i \in 1..Len(Z!Rules(g)) : r = <<g, i>>
     BY <2>1, Reversed
   <3>2. PICK i \in 1..Len(Z!Rules(g)) : r = <<g, i>>
     BY <3>1
   <3>3. r[1] = g /\ r[2] = i
     BY <3>2
   <3> HIDE DEF r
   <3>4. request.path \in Z!Rules(g)[i].path /\ (g = 0 \/ request.host \in groups[g].hosts)
     BY <2>1, <3>3
   <3>5. \E t \in T : t[2] = g /\ t[3] = i
    <4>1. CASE g = 0
     <5>1. <<2, 0, i>> \in T
       BY <3>4, <4>1, TurnOfWildcard
     <5> HIDE DEF T
     <5>2. QED
       BY <4>1, <5>1
    <4>2. CASE g # 0
     <5>1. g \in 1..Len(groups)
       BY <4>2 DEF RoutingInv
     <5>2. <<1, g, i>> \in T
       BY <3>4, <4>2, <5>1, TurnOfHost
     <5> HIDE DEF T
     <5>3. QED
       BY <5>2
    <4>3. QED
      BY <4>1, <4>2
   <3>6. PICK t \in T : T = {t}
    <4>1. IsFiniteSet(T)
      BY TurnIsFinite
    <4> HIDE DEF T
    <4>2. QED
      BY <2>1, <4>1, FS_Singleton, SameCardinalityZ
   <3>7. t[2] = g /\ t[3] = i
    <4> HIDE DEF T
    <4>1. QED
      BY <3>5, <3>6
   <3>8. \E u \in T : Z!FindHandler(request) = <<u[2], u[3]>>
     BY <3>6, FoundInTurn
   <3> HIDE DEF T
   <3>9. QED
     BY <3>2, <3>6, <3>7, <3>8
  <2>3. QED
    BY <2>2
 <1>5. Z!ReverseRoundTrip
   BY <1>3, <1>4 DEF Z!ReverseRoundTrip, AllNamed
 <1>6. QED
   BY <1>1, <1>2, <1>5 DEF Z!RoutingSound

-----------------------------------------------------------------------------
(* Adding handlers *)

LEMMA SoonerIsOne ==
  ASSUME NEW s, NEW t, s[1] \in Int, s[2] \in Int, s[3] \in Int,
         t[1] \in Int, t[2] \in Int, t[3] \in Int, Z!Sooner(s, t), Z!Sooner(t, s)
  PROVE  s[2] = t[2] /\ s[3] = t[3]
  BY DEF Z!Sooner

(* What the proof below needs of the turns, before and after a step. *)
FoundFirst(request) ==
  Z!Turn(request) # {} => \E t \in Z!Turn(request) : /\ \A u \in Z!Turn(request) : Z!Sooner(t, u)
                                                     /\ Z!FindHandler(request) = <<t[2], t[3]>>

HostsTurns(request) ==
  \A g \in 1..Len(groups) : \A i \in 1..Len(Z!Rules(g)) :
    request.host \in groups[g].hosts /\ request.path \in Z!Rules(g)[i].path =>
      <<1, g, i>> \in Z!Turn(request)

TurnsAre(request) ==
  \A t \in Z!Turn(request) :
    /\ t[1] \in 1..3 /\ t[2] \in 0..Len(groups) /\ t[3] \in Nat
    /\ t[3] \in 1..Len(Z!Rules(t[2])) /\ request.path \in Z!Rules(t[2])[t[3]].path
    /\ t[1] = 1 => t[2] \in 1..Len(groups) /\ request.host \in groups[t[2]].hosts

TurnsKnown ==
  \A request \in Z!Request : FoundFirst(request) /\ HostsTurns(request) /\ TurnsAre(request)

LEMMA TurnFacts == RuleBounds /\ RoutingInv => TurnsKnown
 <1> SUFFICES ASSUME RuleBounds, RoutingInv, NEW request \in Z!Request
              PROVE  FoundFirst(request) /\ HostsTurns(request) /\ TurnsAre(request)
   BY DEF TurnsKnown
 <1>1. FoundFirst(request)
   BY FoundInTurn DEF FoundFirst
 <1>2. HostsTurns(request)
   BY TurnOfHost DEF HostsTurns
 <1>3. ASSUME NEW t \in Z!Turn(request) PROVE t[3] \in Nat
   BY TurnIs, RulesTyped
 <1>4. TurnsAre(request)
   BY <1>3, TurnIs DEF TurnsAre
 <1>5. QED
   BY <1>1, <1>2, <1>4

(* Who is found by his host is found the same after more groups came. *)
LEMMA AddingKeeps ==
  ASSUME RuleBounds, RoutingInv, RoutingInv', [Z!Next]_(Z!vars), NEW request \in Z!Request,
         Z!FindHandler(request) # Z!NotFound, Z!FindHandler(request)[1] # 0,
         request.host \in groups[Z!FindHandler(request)[1]].hosts
  PROVE  Z!FindHandler(request)' = Z!FindHandler(request)
 <1>1. PICK t \in Z!Turn(request) : /\ \A u \in Z!Turn(request) : Z!Sooner(t, u)
                                    /\ Z!FindHandler(request) = <<t[2], t[3]>>
   BY FoundInTurn
 <1>0. \A q \in Z!Request : FoundFirst(q)' /\ HostsTurns(q)' /\ TurnsAre(q)'
  <2>1. TurnsKnown'
    BY TurnFacts, PTL
  <2>2. QED
    BY <2>1 DEF TurnsKnown
 <1> DEFINE g == t[2]
            i == t[3]
            s == <<1, g, i>>
 <1>2. /\ g \in 0..Len(groups) /\ i \in 1..Len(Z!Rules(g)) /\ request.path \in Z!Rules(g)[i].path
       /\ t[1] \in 1..3
   BY TurnIs
 <1>3. g # 0 /\ request.host \in groups[g].hosts
   BY <1>1
 <1>4. g \in 1..Len(groups) /\ Len(groups) \in Nat
  <2>1. Len(groups) \in Nat
    BY DEF RoutingInv
  <2>2. QED
    BY <1>2, <1>3, <2>1
 <1> HIDE DEF g, i
 <1>5. s \in Z!Turn(request)
   BY <1>2, <1>3, <1>4, TurnOfHost
 <1>6. t[1] = 1
  <2>1. Z!Sooner(t, s) /\ s[1] = 1
    BY <1>1, <1>5
  <2>2. QED
    BY <1>2, <2>1 DEF Z!Sooner
 <1>7. /\ Len(groups) <= Len(groups')
       /\ \A k \in 1..Len(groups) : groups'[k] = groups[k]
  <2>1. CASE UNCHANGED Z!vars
    BY <1>4, <2>1 DEF Z!vars
  <2>2. CASE Z!Next
   <3>1. PICK hosts, rules : Z!AddHandlers(hosts, rules)
     BY <2>2 DEF Z!Next
   <3>2. QED
     BY <1>4, <3>1 DEF Z!AddHandlers, RoutingInv
  <2>3. QED
    BY <2>1, <2>2
 <1>8. \A k \in 1..Len(groups) : Z!Rules(k)' = Z!Rules(k)
   BY <1>4, <1>7 DEF Z!Rules
 <1>9. g \in 1..Len(groups') /\ Len(groups') \in Nat
  <2>1. Len(groups') \in Nat
    BY DEF RoutingInv
  <2>2. QED
    BY <1>4, <1>7, <2>1
 <1>10. s \in Z!Turn(request)'
  <2>1. /\ request.host \in groups'[g].hosts
        /\ i \in 1..Len(Z!Rules(g)') /\ request.path \in (Z!Rules(g)')[i].path
    BY <1>2, <1>3, <1>4, <1>7, <1>8
  <2>2. QED
    BY <1>0, <1>9, <2>1 DEF HostsTurns
 <1>11. ASSUME NEW u \in Z!Turn(request)' PROVE Z!Sooner(s, u)
  <2>1. /\ u[1] \in 1..3 /\ u[2] \in 0..Len(groups') /\ u[3] \in Int
        /\ u[3] \in 1..Len(Z!Rules(u[2])') /\ request.path \in (Z!Rules(u[2])')[u[3]].path
        /\ u[1] = 1 => u[2] \in 1..Len(groups') /\ request.host \in groups'[u[2]].hosts
    BY <1>0 DEF TurnsAre
  <2>2. s[1] = 1 /\ s[2] = g /\ s[3] = i /\ i \in Int
    BY <1>2
  <2>3. CASE u[1] = 1 /\ u[2] \in 1..Len(groups)
   <3> DEFINE w == <<1, u[2], u[3]>>
   <3>1. w \in Z!Turn(request)
     BY <1>7, <1>8, <2>1, <2>3, TurnOfHost
   <3>2. Z!Sooner(t, w) /\ w[1] = 1 /\ w[2] = u[2] /\ w[3] = u[3]
     BY <1>1, <3>1
   <3> HIDE DEF w
   <3>3. QED
     BY <1>6, <2>2, <2>3, <3>2 DEF Z!Sooner, g, i
  <2>4. CASE u[1] = 1 /\ u[2] \notin 1..Len(groups)
    BY <1>4, <1>9, <2>1, <2>2, <2>4 DEF Z!Sooner
  <2>5. CASE u[1] # 1
    BY <2>1, <2>2, <2>5 DEF Z!Sooner
  <2>6. QED
    BY <2>3, <2>4, <2>5
 <1>12. PICK v \in Z!Turn(request)' : /\ \A u \in Z!Turn(request)' : Z!Sooner(v, u)
                                      /\ Z!FindHandler(request)' = <<v[2], v[3]>>
   BY <1>0, <1>10 DEF FoundFirst
 <1>13. s[2] = v[2] /\ s[3] = v[3]
  <2>1. Z!Sooner(s, v) /\ Z!Sooner(v, s)
    BY <1>10, <1>11, <1>12
  <2>2. v[1] \in Int /\ v[2] \in Int /\ v[3] \in Int
    BY <1>0 DEF TurnsAre
  <2>3. s[1] \in Int /\ s[2] \in Int /\ s[3] \in Int
    BY <1>2, <1>4
  <2> HIDE DEF s
  <2>4. QED
    BY <2>1, <2>2, <2>3, SoonerIsOne
 <1>14. QED
   BY <1>1, <1>12, <1>13 DEF g, i

(* However groups and nested routers are searched, a request goes to the   *)
(* handler whose turn is first and to 404 only if none would do, and a     *)
(* name leads back to a rule that has it (routing.py 329-402, web.py       *)
(* 1970-1985).                                                             *)
THEOREM RoutedWell == RuleBounds => (Z!Spec => [](Z!TypeOK /\ Z!RoutingSound))
 <1> SUFFICES ASSUME RuleBounds PROVE Z!Spec => [](Z!TypeOK /\ Z!RoutingSound)
   OBVIOUS
 <1>1. Z!Init => RoutingInv
   BY InitRouting
 <1>2. RoutingInv /\ [Z!Next]_(Z!vars) => RoutingInv'
   BY StepRouting
 <1>3. RoutingInv => Z!TypeOK /\ Z!RoutingSound
   BY RoutingInvImplies
 <1>4. QED
   BY <1>1, <1>2, <1>3, PTL DEF Z!Spec

(* Adding handlers takes no request from those that were added before for  *)
(* its host (add_handlers, web.py 1970-1985).                              *)
THEOREM EarlierHandlersKeep == RuleBounds => (Z!Spec => Z!EarlierKeep)
 <1> SUFFICES ASSUME RuleBounds PROVE Z!Spec => Z!EarlierKeep
   OBVIOUS
 <1>1. Z!Init => RoutingInv
   BY InitRouting
 <1>2. RoutingInv /\ [Z!Next]_(Z!vars) => RoutingInv'
   BY StepRouting
 <1>3. RoutingInv /\ RoutingInv' /\ [Z!Next]_(Z!vars) => [Z!KeepsRequests]_(Z!vars)
   BY AddingKeeps DEF Z!KeepsRequests
 <1>4. QED
   BY <1>1, <1>2, <1>3, PTL DEF Z!Spec, Z!EarlierKeep

HIDE DEF handlersZ, groups, order, default_host

-----------------------------------------------------------------------------
(* A queue and the calls that wait for it                                  *)

Qu == INSTANCE Queues WITH
       Nothing <- NoValue, Kinds <- KindsQu, kind <- v1, maxsize <- v2, queue <- v3, getters <- v4,
       putters <- v5, unfinished <- v6, finished <- v7, call <- v8, armed <- v9,
       got <- v10, tasks <- v11, word <- v12

(* Its variables. *)
kind == v1
maxsize == v2
queueQu == v3
getters == v4
putters == v5
unfinished == v6
finished == v7
callQu == v8
armedQu == v9
got == v10
tasks == v11
word == v12

USE DEF kind, maxsize, queueQu, getters, putters, unfinished, finished, callQu,
        armedQu, got, tasks, word

LEMMA SameRemoveAtQu == \A us, i : Qu!RemoveAt(us, i) = RemoveAt(us, i)
  BY DEF Qu!RemoveAt, RemoveAt

LEMMA TakenOut ==
  ASSUME NEW T, NEW ws \in Seq(T), NEW i \in 1..Len(ws)
  PROVE  /\ Qu!RemoveAt(ws, i) \in Seq(T) /\ Len(Qu!RemoveAt(ws, i)) = Len(ws) - 1
         /\ \A j \in 1..Len(ws) - 1 :
              Qu!RemoveAt(ws, i)[j] = IF j < i THEN ws[j] ELSE ws[j + 1]
  BY RemoveAtIs, SameRemoveAtQu

LEMMA SameCardinalityQu == \A S : Qu!Cardinality(S) = Cardinality(S)
  BY DEF Qu!Cardinality, Cardinality

QueueBounds ==
  /\ PutCall \subseteq Nat /\ KindsQu \subseteq {"fifo", "lifo", "priority"} /\ MaxRoom \in Nat
  /\ PutCall \cap GetCall = {} /\ JoinCall \cap (PutCall \cup GetCall) = {}
  /\ NoValue \notin PutCall

(* Every call that waits stands in its deque, and a put only once. *)
Stand(ws, T, cs) == \A c \in T : cs[c] = "pending" => \E i \in DOMAIN ws : ws[i] = c
Once(ws, cs) ==
  /\ \A i, j \in DOMAIN ws : ws[i] = ws[j] => i = j
  /\ \A i \in DOMAIN ws : cs[ws[i]] # "none"
Standing == Stand(getters, GetCall, callQu) /\ Stand(putters, PutCall, callQu) /\ Once(putters, callQu)

(* The items of q are not two alike, and none of them is in ts. *)
Fresh(q, ts) ==
  /\ \A i \in DOMAIN q : q[i] \notin ts
  /\ \A i, j \in DOMAIN q : q[i] = q[j] => i = j

(* The put of an item that was accepted is done; one that is out is not in *)
(* the queue any more.                                                     *)
ItemsOnce ==
  /\ IsFiniteSet(tasks) /\ Fresh(queueQu, tasks)
  /\ \A i \in DOMAIN queueQu : callQu[queueQu[i]] = "done"
  /\ \A p \in tasks : callQu[p] = "done"
  /\ \A g \in GetCall : got[g] # NoValue => callQu[got[g]] = "done"
  /\ maxsize > 0 => Len(queueQu) <= maxsize

(* A join that was not called yet hears nothing. *)
JoinsKept ==
  /\ Qu!JoinsWait
  /\ \A j \in JoinCall : callQu[j] = "none" => word[j] = "none"

QueueInv == Qu!TypeOK /\ Qu!NobodyWaitsInVain /\ Standing /\ ItemsOnce /\ JoinsKept

Statuses == {"none", "pending", "done", "timeout", "cancelled", "refused"}
EventStates == {"clear", "set", "cancelled"}
Words == {"none", "clear", "set", "cancelled", "told", "lost"}

-----------------------------------------------------------------------------
(* Waiters and items *)

LEMMA LiveIs ==
  ASSUME NEW T, NEW ws \in Seq(T)
  PROVE  \E n \in 0..Len(ws) :
           /\ \A j \in 1..n : ~Qu!Pending(ws[j])
           /\ n < Len(ws) => Qu!Pending(ws[n + 1])
           /\ Qu!Live(ws) = SubSeq(ws, n + 1, Len(ws))
 <1> DEFINE P(i) == /\ \A j \in 1..i : ~Qu!Pending(ws[j])
                    /\ i < Len(ws) => Qu!Pending(ws[i + 1])
            Ends == {i \in 0..Len(ws) : i < Len(ws) => Qu!Pending(ws[i + 1])}
 <1>1. Len(ws) \in Nat
   OBVIOUS
 <1>2. Ends \in SUBSET Nat /\ Len(ws) \in Ends
   BY <1>1
 <1>3. PICK m \in Ends : \A k \in Ends : m <= k
   BY <1>2, LeastNatural
 <1>4. ASSUME NEW j \in 1..m PROVE ~Qu!Pending(ws[j])
  <2>1. j - 1 \in 0..Len(ws) /\ j - 1 < Len(ws) /\ (j - 1) + 1 = j /\ ~(m <= j - 1)
    BY <1>1, <1>2, <1>3
  <2>2. j - 1 \notin Ends
    BY <1>3, <2>1
  <2>3. QED
    BY <2>1, <2>2
 <1>5. \E n \in 0..Len(ws) : P(n)
   BY <1>3, <1>4
 <1> DEFINE n == CHOOSE i \in 0..Len(ws) : P(i)
 <1>6. n \in 0..Len(ws) /\ P(n)
   BY <1>5
 <1>7. Qu!Live(ws) = SubSeq(ws, n + 1, Len(ws))
   BY DEF Qu!Live
 <1> HIDE DEF n
 <1>8. QED
   BY <1>6, <1>7

(* What is dropped is over; what is left begins with one that waits. *)
LEMMA LiveKeeps ==
  ASSUME NEW T, NEW ws \in Seq(T)
  PROVE  /\ Qu!Live(ws) \in Seq(T)
         /\ \A k \in DOMAIN Qu!Live(ws) : \E i \in DOMAIN ws : Qu!Live(ws)[k] = ws[i]
         /\ \A i \in DOMAIN ws : Qu!Pending(ws[i]) => \E k \in DOMAIN Qu!Live(ws) : Qu!Live(ws)[k] = ws[i]
         /\ Qu!Live(ws) # <<>> =>
              /\ Head(Qu!Live(ws)) \in T /\ Qu!Pending(Head(Qu!Live(ws)))
              /\ \E i \in DOMAIN ws : Head(Qu!Live(ws)) = ws[i]
              /\ Tail(Qu!Live(ws)) \in Seq(T)
              /\ \A k \in DOMAIN Tail(Qu!Live(ws)) : \E i \in DOMAIN ws : Tail(Qu!Live(ws))[k] = ws[i]
              /\ \A i \in DOMAIN ws :
                   Qu!Pending(ws[i]) /\ ws[i] # Head(Qu!Live(ws)) =>
                     \E k \in DOMAIN Tail(Qu!Live(ws)) : Tail(Qu!Live(ws))[k] = ws[i]
 <1>1. PICK n \in 0..Len(ws) :
          /\ \A j \in 1..n : ~Qu!Pending(ws[j])
          /\ n < Len(ws) => Qu!Pending(ws[n + 1])
          /\ Qu!Live(ws) = SubSeq(ws, n + 1, Len(ws))
   BY LiveIs
 <1> DEFINE us == Qu!Live(ws)
 <1>2. /\ us \in Seq(T) /\ Len(us) = Len(ws) - n /\ DOMAIN us = 1..Len(ws) - n
       /\ \A i \in 1..Len(ws) - n : us[i] = ws[i + n]
   BY <1>1, FromPlace
 <1>3. Len(ws) \in Nat /\ DOMAIN ws = 1..Len(ws) /\ n \in Int /\ n >= 0 /\ n <= Len(ws)
   OBVIOUS
 <1> HIDE DEF us
 <1>4. \A k \in DOMAIN us : \E i \in DOMAIN ws : us[k] = ws[i]
  <2>1. SUFFICES ASSUME NEW k \in 1..Len(ws) - n PROVE k + n \in 1..Len(ws) /\ us[k] = ws[k + n]
    BY <1>2, <1>3
  <2>2. QED
    BY <1>2, <1>3
 <1>5. ASSUME NEW i \in DOMAIN ws, Qu!Pending(ws[i]) PROVE i - n \in DOMAIN us /\ us[i - n] = ws[i]
  <2>1. ~(i <= n)
    BY <1>1, <1>3, <1>5
  <2>2. i - n \in 1..Len(ws) - n /\ (i - n) + n = i
    BY <1>3, <2>1
  <2>3. QED
    BY <1>2, <2>2
 <1>6. ASSUME us # <<>>
       PROVE  /\ Head(us) \in T /\ Qu!Pending(Head(us))
              /\ \E i \in DOMAIN ws : Head(us) = ws[i]
              /\ Tail(us) \in Seq(T)
              /\ \A k \in DOMAIN Tail(us) : \E i \in DOMAIN ws : Tail(us)[k] = ws[i]
              /\ \A i \in DOMAIN ws : Qu!Pending(ws[i]) /\ ws[i] # Head(us) =>
                    \E k \in DOMAIN Tail(us) : Tail(us)[k] = ws[i]
  <2>1. Len(us) \in Nat /\ Len(us) >= 1 /\ DOMAIN us = 1..Len(us)
    BY <1>2, <1>6, EmptySeq
  <2>2. /\ Head(us) = us[1] /\ Tail(us) \in Seq(T) /\ Len(Tail(us)) = Len(us) - 1
        /\ DOMAIN Tail(us) = 1..Len(us) - 1
        /\ \A k \in 1..Len(us) - 1 : Tail(us)[k] = us[k + 1]
    BY <1>2, <1>6, <2>1
  <2>3. n < Len(ws) /\ us[1] = ws[n + 1] /\ n + 1 \in DOMAIN ws
    BY <1>2, <1>3, <2>1
  <2>4. Head(us) \in T /\ Qu!Pending(Head(us)) /\ \E i \in DOMAIN ws : Head(us) = ws[i]
    BY <1>1, <2>2, <2>3
  <2>5. ASSUME NEW k \in DOMAIN Tail(us) PROVE \E i \in DOMAIN ws : Tail(us)[k] = ws[i]
   <3>1. k + 1 \in DOMAIN us /\ Tail(us)[k] = us[k + 1]
     BY <2>1, <2>2
   <3>2. QED
     BY <1>4, <3>1
  <2>6. ASSUME NEW i \in DOMAIN ws, Qu!Pending(ws[i]), ws[i] # Head(us)
        PROVE  \E k \in DOMAIN Tail(us) : Tail(us)[k] = ws[i]
   <3> DEFINE l == i - n
   <3>1. l \in DOMAIN us /\ us[l] = ws[i]
     BY <1>5, <2>6
   <3> HIDE DEF l
   <3>2. l # 1
     BY <2>2, <2>6, <3>1
   <3>3. l - 1 \in 1..Len(us) - 1 /\ (l - 1) + 1 = l
     BY <2>1, <3>1, <3>2
   <3>4. QED
     BY <2>2, <3>1, <3>3
  <2>7. QED
    BY <2>2, <2>4, <2>5, <2>6
 <1>7. QED
   BY <1>2, <1>4, <1>5, <1>6 DEF us

LEMMA LiveOnce ==
  ASSUME NEW T, NEW ws \in Seq(T), NEW cs, Once(ws, callQu),
         \A i \in DOMAIN ws : callQu[ws[i]] # "none" => cs[ws[i]] # "none"
  PROVE  Once(Qu!Live(ws), cs) /\ (Qu!Live(ws) # <<>> => Once(Tail(Qu!Live(ws)), cs))
 <1>1. PICK n \in 0..Len(ws) : Qu!Live(ws) = SubSeq(ws, n + 1, Len(ws))
   BY LiveIs
 <1> DEFINE us == Qu!Live(ws)
 <1>2. /\ us \in Seq(T) /\ Len(us) = Len(ws) - n /\ DOMAIN us = 1..Len(ws) - n
       /\ \A i \in 1..Len(ws) - n : us[i] = ws[i + n]
   BY <1>1, FromPlace
 <1>3. Len(ws) \in Nat /\ DOMAIN ws = 1..Len(ws) /\ n \in Int /\ n >= 0 /\ n <= Len(ws)
   OBVIOUS
 <1>4. /\ \A i, j \in DOMAIN ws : ws[i] = ws[j] => i = j
       /\ \A i \in DOMAIN ws : cs[ws[i]] # "none"
   BY DEF Once
 <1> HIDE DEF us
 <1>5. \A i \in 1..Len(ws) - n : i + n \in DOMAIN ws /\ us[i] = ws[i + n]
   BY <1>2, <1>3
 <1>6. /\ \A i, j \in 1..Len(ws) - n : us[i] = us[j] => i = j
       /\ \A i \in 1..Len(ws) - n : cs[us[i]] # "none"
  <2>1. ASSUME NEW i \in 1..Len(ws) - n, NEW j \in 1..Len(ws) - n, us[i] = us[j] PROVE i = j
   <3>1. i + n = j + n
     BY <1>4, <1>5, <2>1
   <3>2. QED
     BY <1>3, <3>1
  <2>2. QED
    BY <1>4, <1>5, <2>1
 <1>7. ASSUME us # <<>> PROVE Once(Tail(us), cs)
  <2>1. Len(us) \in Nat /\ Len(us) >= 1
    BY <1>2, <1>7, EmptySeq
  <2>2. /\ DOMAIN Tail(us) = 1..Len(us) - 1
        /\ \A k \in 1..Len(us) - 1 : Tail(us)[k] = us[k + 1]
    BY <1>2, <1>7, <2>1
  <2>3. \A k \in 1..Len(us) - 1 : k + 1 \in 1..Len(ws) - n
    BY <1>2, <1>3, <2>1
  <2>4. ASSUME NEW i \in 1..Len(us) - 1, NEW j \in 1..Len(us) - 1, Tail(us)[i] = Tail(us)[j]
        PROVE  i = j
   <3>1. i + 1 = j + 1
     BY <1>6, <2>2, <2>3, <2>4
   <3>2. QED
     BY <3>1
  <2>5. \A k \in 1..Len(us) - 1 : cs[Tail(us)[k]] # "none"
    BY <1>6, <2>2, <2>3
  <2>6. QED
    BY <2>2, <2>4, <2>5 DEF Once
 <1>8. QED
   BY <1>2, <1>6, <1>7 DEF Once, us

LEMMA NoneWaits ==
  ASSUME NEW T, NEW ws \in Seq(T), Stand(ws, T, callQu), Qu!Live(ws) = <<>>
  PROVE  \A c \in T : ~Qu!Pending(c)
  BY LiveKeeps DEF Stand, Qu!Pending

LEMMA LiveStands ==
  ASSUME NEW T, NEW ws \in Seq(T), Stand(ws, T, callQu), NEW cs,
         \A c \in T : cs[c] = "pending" => callQu[c] = "pending"
  PROVE  /\ Stand(Qu!Live(ws), T, cs)
         /\ Qu!Live(ws) # <<>> /\ cs[Head(Qu!Live(ws))] # "pending" => Stand(Tail(Qu!Live(ws)), T, cs)
 <1>1. \A c \in T : cs[c] = "pending" => \E i \in DOMAIN ws : ws[i] = c /\ Qu!Pending(ws[i])
   BY DEF Stand, Qu!Pending
 <1>2. Stand(Qu!Live(ws), T, cs)
  <2>1. \A i \in DOMAIN ws : Qu!Pending(ws[i]) => \E k \in DOMAIN Qu!Live(ws) : Qu!Live(ws)[k] = ws[i]
    BY LiveKeeps
  <2>2. QED
    BY <1>1, <2>1 DEF Stand
 <1>3. ASSUME Qu!Live(ws) # <<>>, cs[Head(Qu!Live(ws))] # "pending" PROVE Stand(Tail(Qu!Live(ws)), T, cs)
  <2>1. \A i \in DOMAIN ws : Qu!Pending(ws[i]) /\ ws[i] # Head(Qu!Live(ws)) =>
           \E k \in DOMAIN Tail(Qu!Live(ws)) : Tail(Qu!Live(ws))[k] = ws[i]
    BY <1>3, LiveKeeps
  <2>2. QED
    BY <1>1, <1>3, <2>1 DEF Stand
 <1>4. QED
   BY <1>2, <1>3

LEMMA JoinsLine ==
  ASSUME NEW T, NEW us \in Seq(T), NEW x \in T, NEW cs,
         \A c \in T : c # x /\ cs[c] = "pending" => \E i \in DOMAIN us : us[i] = c
  PROVE  /\ Append(us, x) \in Seq(T) /\ Stand(Append(us, x), T, cs)
         /\ Once(us, cs) /\ cs[x] # "none" /\ (\A i \in DOMAIN us : us[i] # x) =>
              Once(Append(us, x), cs)
 <1> DEFINE vs == Append(us, x)
 <1>1. /\ vs \in Seq(T) /\ Len(us) \in Nat /\ DOMAIN us = 1..Len(us)
       /\ DOMAIN vs = 1..Len(us) + 1
       /\ vs[Len(us) + 1] = x /\ \A i \in 1..Len(us) : vs[i] = us[i]
   OBVIOUS
 <1> HIDE DEF vs
 <1>2. /\ Len(us) + 1 \in DOMAIN vs
       /\ \A i \in DOMAIN us : i \in DOMAIN vs /\ vs[i] = us[i]
       /\ \A i \in DOMAIN vs : i = Len(us) + 1 \/ i \in DOMAIN us
   BY <1>1
 <1>3. Stand(vs, T, cs)
  <2>1. SUFFICES ASSUME NEW c \in T, cs[c] = "pending" PROVE \E i \in DOMAIN vs : vs[i] = c
    BY DEF Stand
  <2>2. CASE c = x
    BY <1>1, <1>2, <2>2
  <2>3. CASE c # x
    BY <1>2, <2>1, <2>3
  <2>4. QED
    BY <2>2, <2>3
 <1>4. ASSUME Once(us, cs), cs[x] # "none", \A i \in DOMAIN us : us[i] # x
       PROVE  Once(vs, cs)
   BY <1>1, <1>2, <1>4 DEF Once
 <1>5. QED
   BY <1>1, <1>3, <1>4 DEF vs

LEMMA PlaceIn ==
  ASSUME QueueBounds, kind \in KindsQu, NEW q \in Seq(PutCall), q # <<>>
  PROVE  Qu!Place(q) \in 1..Len(q) /\ (kind = "fifo" => Qu!Place(q) = 1)
 <1> DEFINE P(i) == \/ kind = "fifo" /\ i = 1
                    \/ kind = "lifo" /\ i = Len(q)
                    \/ kind = "priority" /\ \A j \in DOMAIN q : q[i] <= q[j]
 <1>1. Len(q) \in Nat /\ Len(q) >= 1 /\ DOMAIN q = 1..Len(q)
   BY EmptySeq
 <1>2. \E i \in DOMAIN q : P(i)
  <2>1. CASE kind = "fifo"
    BY <1>1, <2>1
  <2>2. CASE kind = "lifo"
    BY <1>1, <2>2
  <2>3. CASE kind = "priority"
   <3> DEFINE Ends == {q[i] : i \in DOMAIN q}
   <3>1. Ends \in SUBSET Nat
    <4>1. \A i \in DOMAIN q : q[i] \in PutCall
      BY <1>1
    <4>2. \A i \in DOMAIN q : q[i] \in Nat
      BY <4>1 DEF QueueBounds
    <4>3. QED
      BY <4>2
   <3>2. q[1] \in Ends
     BY <1>1
   <3>3. PICK m \in Ends : \A k \in Ends : m <= k
     BY <3>1, <3>2, LeastNatural
   <3>4. PICK i \in DOMAIN q : q[i] = m
     BY <3>3
   <3>5. \A j \in DOMAIN q : q[i] <= q[j]
     BY <3>3, <3>4
   <3>6. QED
     BY <2>3, <3>5
  <2>4. QED
    BY <2>1, <2>2, <2>3 DEF QueueBounds
 <1>3. Qu!Place(q) = CHOOSE i \in DOMAIN q : P(i)
   BY DEF Qu!Place
 <1>4. Qu!Place(q) \in DOMAIN q /\ P(Qu!Place(q))
   BY <1>2, <1>3
 <1>5. QED
   BY <1>1, <1>4

LEMMA Taken ==
  ASSUME QueueBounds, kind \in KindsQu, NEW q \in Seq(PutCall), q # <<>>, NEW ts, Fresh(q, ts)
  PROVE  /\ Qu!Popped(q) \in PutCall /\ Qu!Popped(q) \notin ts
         /\ \E i \in DOMAIN q : Qu!Popped(q) = q[i]
         /\ Qu!Rest(q) \in Seq(PutCall) /\ Len(Qu!Rest(q)) = Len(q) - 1
         /\ \A i \in DOMAIN Qu!Rest(q) : \E j \in DOMAIN q : Qu!Rest(q)[i] = q[j]
         /\ Fresh(Qu!Rest(q), ts \cup {Qu!Popped(q)})
 <1> DEFINE k == Qu!Place(q)
            us == Qu!Rest(q)
 <1>1. k \in 1..Len(q)
   BY PlaceIn
 <1>2. Len(q) \in Nat /\ DOMAIN q = 1..Len(q)
   OBVIOUS
 <1> HIDE DEF k
 <1>3. /\ Qu!RemoveAt(q, k) \in Seq(PutCall) /\ Len(Qu!RemoveAt(q, k)) = Len(q) - 1
       /\ \A j \in 1..Len(q) - 1 : Qu!RemoveAt(q, k)[j] = IF j < k THEN q[j] ELSE q[j + 1]
   BY <1>1, TakenOut
 <1>4. us = Qu!RemoveAt(q, k) /\ Qu!Popped(q) = q[k]
   BY DEF Qu!Rest, Qu!Popped, k
 <1>5. /\ us \in Seq(PutCall) /\ Len(us) = Len(q) - 1 /\ DOMAIN us = 1..Len(q) - 1
       /\ \A j \in 1..Len(q) - 1 : us[j] = IF j < k THEN q[j] ELSE q[j + 1]
   BY <1>3, <1>4
 <1> HIDE DEF us
 <1> DEFINE At(j) == IF j < k THEN j ELSE j + 1
 <1>6. \A j \in 1..Len(q) - 1 : At(j) \in 1..Len(q) /\ At(j) # k /\ us[j] = q[At(j)]
   BY <1>1, <1>2, <1>5
 <1>7. \A i, j \in 1..Len(q) - 1 : At(i) = At(j) => i = j
   BY <1>1, <1>2
 <1> HIDE DEF At
 <1>8. Fresh(us, ts \cup {q[k]})
  <2>1. /\ \A i \in 1..Len(q) : q[i] \notin ts
        /\ \A i, j \in 1..Len(q) : q[i] = q[j] => i = j
    BY <1>2 DEF Fresh
  <2>2. \A i \in 1..Len(q) - 1 : us[i] \notin ts /\ us[i] # q[k]
    BY <1>1, <1>6, <2>1
  <2>3. \A i, j \in 1..Len(q) - 1 : us[i] = us[j] => i = j
    BY <1>6, <1>7, <2>1
  <2>4. QED
    BY <1>5, <2>2, <2>3 DEF Fresh
 <1>9. q[k] \in PutCall /\ q[k] \notin ts
   BY <1>1, <1>2 DEF Fresh
 <1>10. \A i \in DOMAIN us : \E j \in DOMAIN q : us[i] = q[j]
   BY <1>2, <1>5, <1>6
 <1>11. QED
   BY <1>1, <1>2, <1>4, <1>5, <1>8, <1>9, <1>10 DEF us

(* A put that was not there yet. *)
LEMMA Added ==
  ASSUME NEW q \in Seq(PutCall), NEW p \in PutCall, NEW ts, Fresh(q, ts), p \notin ts,
         \A i \in DOMAIN q : q[i] # p
  PROVE  /\ Append(q, p) \in Seq(PutCall) /\ Append(q, p) # <<>> /\ Len(Append(q, p)) = Len(q) + 1
         /\ Fresh(Append(q, p), ts)
         /\ \A i \in DOMAIN Append(q, p) : Append(q, p)[i] = p \/ \E j \in DOMAIN q : Append(q, p)[i] = q[j]
 <1>1. /\ Append(q, p) \in Seq(PutCall) /\ Append(q, p) # <<>> /\ Len(Append(q, p)) = Len(q) + 1
       /\ \A i \in 1..Len(q) : Append(q, p)[i] = q[i] /\ Append(q, p)[Len(q) + 1] = p
       /\ Append(q, p)[Len(q) + 1] = p
       /\ Len(q) \in Nat /\ DOMAIN q = 1..Len(q) /\ DOMAIN Append(q, p) = 1..Len(q) + 1
   BY AppendProperties
 <1> DEFINE vs == Append(q, p)
 <1> HIDE DEF vs
 <1>2. \A i \in 1..Len(q) + 1 : i = Len(q) + 1 \/ i \in 1..Len(q)
   BY <1>1
 <1>3. \A i \in DOMAIN vs : \/ i = Len(q) + 1 /\ vs[i] = p
                            \/ i \in DOMAIN q /\ vs[i] = q[i]
   BY <1>1, <1>2 DEF vs
 <1>4. Fresh(vs, ts)
   BY <1>3 DEF Fresh
 <1>5. QED
   BY <1>1, <1>3, <1>4 DEF vs

LEMMA Resolved ==
  ASSUME NEW cs, Qu!Resolve(cs), callQu \in [Qu!Call -> Statuses]
  PROVE  /\ callQu' \in [Qu!Call -> Statuses]
         /\ \A c \in Qu!Call : /\ c \notin cs => callQu'[c] = callQu[c]
                               /\ callQu[c] = "done" => callQu'[c] = "done"
                               /\ c \in cs /\ callQu[c] \in {"none", "pending"} => callQu'[c] = "done"
                               /\ callQu'[c] \in {"none", "pending"} => c \notin cs /\ callQu'[c] = callQu[c]
  BY DEF Qu!Resolve, Statuses

LEMMA InitQueue == QueueBounds /\ Qu!Init => QueueInv
 <1> SUFFICES ASSUME QueueBounds, Qu!Init PROVE QueueInv
   OBVIOUS
 <1>1. Qu!TypeOK
   BY DEF Qu!Init, Qu!TypeOK
 <1>2. /\ \A c \in Qu!Call : ~Qu!Pending(c)
       /\ PutCall \subseteq Qu!Call /\ GetCall \subseteq Qu!Call /\ JoinCall \subseteq Qu!Call
   BY DEF Qu!Init, Qu!Pending, Qu!Call
 <1>7. JoinsKept
   BY <1>2 DEF Qu!Init, JoinsKept, Qu!JoinsWait
 <1>3. Qu!NobodyWaitsInVain
   BY <1>2, <1>7, FS_EmptySet, SameCardinalityQu DEF Qu!Init, Qu!NobodyWaitsInVain, JoinsKept
 <1>4. Standing
   BY <1>2 DEF Qu!Init, Standing, Stand, Once, Qu!Pending
 <1>5. ItemsOnce
   BY FS_EmptySet, SameCardinalityQu DEF Qu!Init, ItemsOnce, Fresh, QueueBounds
 <1>6. QED
   BY <1>1, <1>3, <1>4, <1>5, <1>7 DEF QueueInv

-----------------------------------------------------------------------------
(* Steps *)

LEMMA Sorts ==
  QueueBounds => /\ PutCall \subseteq Qu!Call /\ GetCall \subseteq Qu!Call /\ JoinCall \subseteq Qu!Call
                 /\ \A p \in PutCall : p \notin GetCall /\ p \notin JoinCall /\ p # NoValue
                 /\ \A g \in GetCall : g \notin JoinCall
  BY DEF QueueBounds, Qu!Call

(* An item is taken from q, which is the queue, or the queue with an item  *)
(* of a put that is done as well.                                          *)
LEMMA Passed ==
  ASSUME QueueBounds, kind \in KindsQu, NEW q \in Seq(PutCall), q # <<>>, Fresh(q, tasks),
         IsFiniteSet(tasks), tasks \subseteq PutCall,
         queueQu' = Qu!Rest(q), tasks' = tasks \cup {Qu!Popped(q)},
         \A i \in DOMAIN q : callQu'[q[i]] = "done", \A p \in tasks : callQu'[p] = "done"
  PROVE  /\ Qu!Popped(q) \in PutCall /\ callQu'[Qu!Popped(q)] = "done"
         /\ queueQu' \in Seq(PutCall) /\ Len(queueQu') = Len(q) - 1
         /\ tasks' \subseteq PutCall /\ IsFiniteSet(tasks')
         /\ Qu!Cardinality(tasks') = Qu!Cardinality(tasks) + 1 /\ Qu!Cardinality(tasks) \in Nat
         /\ Fresh(queueQu', tasks')
         /\ \A i \in DOMAIN queueQu' : callQu'[queueQu'[i]] = "done"
         /\ \A p \in tasks' : callQu'[p] = "done"
 <1>1. /\ Qu!Popped(q) \in PutCall /\ Qu!Popped(q) \notin tasks
       /\ \E i \in DOMAIN q : Qu!Popped(q) = q[i]
       /\ Qu!Rest(q) \in Seq(PutCall) /\ Len(Qu!Rest(q)) = Len(q) - 1
       /\ \A i \in DOMAIN Qu!Rest(q) : \E j \in DOMAIN q : Qu!Rest(q)[i] = q[j]
       /\ Fresh(Qu!Rest(q), tasks \cup {Qu!Popped(q)})
   BY Taken
 <1>2. IsFiniteSet(tasks') /\ Qu!Cardinality(tasks') = Qu!Cardinality(tasks) + 1 /\ Qu!Cardinality(tasks) \in Nat
   BY <1>1, FS_AddElement, SameCardinalityQu, FS_CardinalityType
 <1>3. callQu'[Qu!Popped(q)] = "done"
   BY <1>1
 <1>4. QED
   BY <1>1, <1>2, <1>3

(* What a step needs that leaves the event alone, or clears it. *)
LEMMA JoinsLeft ==
  ASSUME QueueBounds, QueueInv, word' = word,
         \A j \in JoinCall : callQu'[j] # callQu[j] => callQu'[j] \notin {"none", "pending"},
         \A j \in JoinCall : callQu'[j] = "pending" /\ j \in armedQu => j \in armedQu',
         \/ finished' = "clear" /\ unfinished' > 0
         \/ finished' = finished /\ unfinished' = unfinished
  PROVE  JoinsKept'
 <1>1. JoinsKept
   BY DEF QueueInv
 <1>2. \A j \in JoinCall : callQu'[j] \in {"none", "pending"} => callQu'[j] = callQu[j]
   OBVIOUS
 <1>3. QED
   BY <1>1, <1>2 DEF JoinsKept, Qu!JoinsWait, Qu!Pending

LEMMA PutToGetterKeeps ==
  ASSUME QueueBounds, QueueInv, NEW p \in PutCall, Qu!PutToGetter(p) PROVE QueueInv'
 <1> DEFINE pendingOnes == Qu!Live(getters)
            q == Append(queueQu, p)
            first == Head(pendingOnes)
 <1>1. /\ callQu[p] = "none" /\ pendingOnes # <<>>
       /\ putters' = Qu!Live(putters) /\ getters' = Tail(pendingOnes)
       /\ unfinished' = unfinished + 1 /\ finished' = "clear" /\ queueQu' = Qu!Rest(q)
       /\ got' = [got EXCEPT ![first] = Qu!Popped(q)]
       /\ tasks' = tasks \cup {Qu!Popped(q)} /\ Qu!Resolve({p, first})
       /\ UNCHANGED <<kind, maxsize, armedQu, word>>
   BY DEF Qu!PutToGetter, Qu!Accept
 <1>2. /\ Qu!NobodyWaitsInVain /\ Standing /\ ItemsOnce
       /\ kind \in KindsQu /\ maxsize \in 0..MaxRoom /\ armedQu \subseteq Qu!Call
       /\ getters \in Seq(GetCall) /\ putters \in Seq(PutCall) /\ queueQu \in Seq(PutCall)
       /\ callQu \in [Qu!Call -> Statuses] /\ tasks \subseteq PutCall
       /\ unfinished \in Nat /\ finished \in EventStates /\ word \in [JoinCall -> Words]
       /\ got \in [GetCall -> PutCall \cup {NoValue}]
   BY DEF QueueInv, Qu!TypeOK, Statuses, EventStates, Words
 <1>3. /\ first \in GetCall /\ Qu!Pending(first) /\ Tail(pendingOnes) \in Seq(GetCall)
       /\ Qu!Live(putters) \in Seq(PutCall)
   BY <1>1, <1>2, LiveKeeps
 <1>4. p \in Qu!Call /\ first \in Qu!Call /\ p # first /\ callQu[first] = "pending"
   BY <1>3, Sorts DEF Qu!Pending
 <1> HIDE DEF first, pendingOnes
 <1>5. /\ callQu' \in [Qu!Call -> Statuses] /\ callQu'[p] = "done" /\ callQu'[first] = "done"
       /\ \A c \in Qu!Call : /\ callQu[c] = "done" => callQu'[c] = "done"
                             /\ callQu[c] # "none" => callQu'[c] # "none"
                             /\ callQu'[c] = "pending" => callQu[c] = "pending"
       /\ \A c \in Qu!Call : c \notin {p, first} => callQu'[c] = callQu[c]
   BY <1>1, <1>2, <1>4, Resolved
 <1>6. queueQu = <<>>
   BY <1>2, <1>3 DEF Qu!NobodyWaitsInVain
 <1>7. \A c \in PutCall : ~Qu!Pending(c)
  <2>1. ~Qu!Full
    BY <1>2, <1>6, EmptySeq DEF Qu!Full, QueueBounds
  <2>2. QED
    BY <1>2, <2>1 DEF Qu!NobodyWaitsInVain
 <1>8. p \notin tasks
   BY <1>1, <1>2 DEF ItemsOnce
 <1>9. /\ q \in Seq(PutCall) /\ q # <<>> /\ Len(q) = Len(queueQu) + 1 /\ Fresh(q, tasks)
       /\ \A i \in DOMAIN q : q[i] = p
  <2>1. Fresh(queueQu, tasks) /\ DOMAIN queueQu = {}
    BY <1>2, <1>6 DEF ItemsOnce
  <2>2. QED
    BY <1>2, <1>8, <2>1, Added
 <1>10. Len(queueQu) = 0
   BY <1>6
 <1> HIDE DEF q
 <1>11. \A c \in tasks : callQu'[c] = "done"
   BY <1>2, <1>5, Sorts DEF ItemsOnce
 <1>12. /\ Qu!Popped(q) \in PutCall /\ callQu'[Qu!Popped(q)] = "done"
        /\ queueQu' \in Seq(PutCall) /\ Len(queueQu') = Len(q) - 1
        /\ tasks' \subseteq PutCall /\ IsFiniteSet(tasks')
        /\ Qu!Cardinality(tasks') = Qu!Cardinality(tasks) + 1 /\ Qu!Cardinality(tasks) \in Nat
        /\ Fresh(queueQu', tasks')
        /\ \A i \in DOMAIN queueQu' : callQu'[queueQu'[i]] = "done"
        /\ \A c \in tasks' : callQu'[c] = "done"
  <2>1. \A i \in DOMAIN q : callQu'[q[i]] = "done"
    BY <1>5, <1>9
  <2>2. IsFiniteSet(tasks)
    BY <1>2 DEF ItemsOnce
  <2>3. QED
    BY <1>1, <1>2, <1>9, <1>11, <2>1, <2>2, Passed
 <1>13. Len(queueQu') = 0 /\ queueQu' = <<>>
   BY <1>9, <1>10, <1>12, EmptySeq
 <1>14. got' \in [GetCall -> PutCall \cup {NoValue}]
        /\ \A g \in GetCall : got'[g] = IF g = first THEN Qu!Popped(q) ELSE got[g]
   BY <1>1, <1>2, <1>3, <1>12
 <1>15. Qu!TypeOK'
  <2>1. /\ kind' \in KindsQu /\ maxsize' \in 0..MaxRoom /\ armedQu' \subseteq Qu!Call
        /\ unfinished' \in Nat /\ finished' \in EventStates /\ word' \in [JoinCall -> Words]
        /\ getters' \in Seq(GetCall) /\ putters' \in Seq(PutCall)
   <3>1. kind' = kind /\ maxsize' = maxsize /\ armedQu' = armedQu
     BY <1>1
   <3>2. unfinished' = unfinished + 1 /\ finished' = "clear" /\ word' = word
     BY <1>1
   <3>3. getters' = Tail(pendingOnes) /\ putters' = Qu!Live(putters)
     BY <1>1
   <3>4. kind' \in KindsQu /\ maxsize' \in 0..MaxRoom /\ armedQu' \subseteq Qu!Call
     BY <1>2, <3>1
   <3>5. unfinished' \in Nat
     BY <1>2, <3>2
   <3>8. finished' \in EventStates /\ word' \in [JoinCall -> Words]
     BY <1>2, <3>2 DEF EventStates
   <3>6. getters' \in Seq(GetCall) /\ putters' \in Seq(PutCall)
     BY <1>3, <3>3
   <3>7. QED
     BY <3>4, <3>5, <3>6, <3>8
  <2>2. QED
    BY <1>5, <1>12, <1>14, <2>1 DEF Qu!TypeOK, Statuses, EventStates, Words
 <1>20. JoinsKept'
  <2>1. \A j \in JoinCall : callQu'[j] = callQu[j]
    BY <1>3, <1>5, Sorts
  <2>2. word' = word /\ armedQu' = armedQu /\ finished' = "clear" /\ unfinished' > 0
    BY <1>1, <1>2
  <2>3. QED
    BY <2>1, <2>2, JoinsLeft
 <1>16. Qu!NobodyWaitsInVain'
  <2>1. \A g \in GetCall : got'[g] # NoValue => callQu'[g] = "done"
    BY <1>2, <1>5, <1>14, Sorts DEF Qu!NobodyWaitsInVain
  <2>2. \A c \in PutCall : callQu'[c] # "pending"
    BY <1>5, <1>7, Sorts DEF Qu!Pending
  <2>3. unfinished' = Len(queueQu') + Qu!Cardinality(tasks')
   <3>1. unfinished = Len(queueQu) + Qu!Cardinality(tasks)
     BY <1>2 DEF Qu!NobodyWaitsInVain
   <3>2. unfinished' = unfinished + 1
     BY <1>1
   <3>3. Qu!Cardinality(tasks') = Qu!Cardinality(tasks) + 1 /\ Qu!Cardinality(tasks) \in Nat
     BY <1>12
   <3>4. QED
     BY <1>10, <1>13, <3>1, <3>2, <3>3
  <2>4. QED
    BY <1>13, <1>20, <2>1, <2>2, <2>3 DEF Qu!NobodyWaitsInVain, Qu!Pending, JoinsKept
 <1>17. Standing'
  <2>1. \A c \in GetCall : callQu'[c] = "pending" => callQu[c] = "pending"
    BY <1>5, Sorts
  <2>2. \A c \in PutCall : callQu'[c] = "pending" => callQu[c] = "pending"
    BY <1>5, Sorts
  <2>3. Stand(getters, GetCall, callQu)' /\ Stand(putters, PutCall, callQu)'
    BY <1>1, <1>2, <1>5, <2>1, <2>2, LiveStands DEF Standing, pendingOnes, first
  <2>4. \A i \in DOMAIN putters : callQu[putters[i]] # "none" => callQu'[putters[i]] # "none"
    BY <1>2, <1>5, Sorts
  <2>5. Once(putters, callQu)'
    BY <1>1, <1>2, <2>4, LiveOnce DEF Standing
  <2>6. QED
    BY <2>3, <2>5 DEF Standing
 <1>18. ItemsOnce'
  <2>1. \A g \in GetCall : got'[g] # NoValue => callQu'[got'[g]] = "done"
   <3>1. SUFFICES ASSUME NEW g \in GetCall, got'[g] # NoValue PROVE callQu'[got'[g]] = "done"
     OBVIOUS
   <3>2. CASE g = first
     BY <1>12, <1>14, <3>2
   <3>3. CASE g # first
     BY <1>2, <1>5, <1>14, <3>1, <3>3, Sorts DEF ItemsOnce
   <3>4. QED
     BY <3>2, <3>3
  <2>2. maxsize' > 0 => Len(queueQu') <= maxsize'
    BY <1>1, <1>2, <1>13 DEF QueueBounds
  <2>3. QED
    BY <1>12, <2>1, <2>2 DEF ItemsOnce
 <1>19. QED
   BY <1>15, <1>16, <1>17, <1>18, <1>20 DEF QueueInv

(* What a step needs that leaves the items alone. *)
LEMMA Shifts ==
  ASSUME QueueBounds, QueueInv,
         UNCHANGED <<kind, maxsize, queueQu, unfinished, got, tasks>>,
         finished' \in EventStates, word' \in [JoinCall -> Words], JoinsKept',
         callQu' \in [Qu!Call -> Statuses], armedQu' \subseteq Qu!Call,
         getters' \in Seq(GetCall), putters' \in Seq(PutCall), Standing',
         \A c \in Qu!Call : callQu[c] = "done" => callQu'[c] = "done",
         \A c \in GetCall : callQu'[c] = "pending" => queueQu = <<>>,
         \A c \in PutCall : callQu'[c] = "pending" => Qu!Full
  PROVE  QueueInv'
 <1>1. Qu!TypeOK /\ Qu!NobodyWaitsInVain /\ ItemsOnce
   BY DEF QueueInv
 <1>2. Qu!TypeOK'
  <2>1. /\ kind' = kind /\ maxsize' = maxsize /\ queueQu' = queueQu /\ unfinished' = unfinished
        /\ got' = got /\ tasks' = tasks
    OBVIOUS
  <2>2. QED
    BY <1>1, <2>1 DEF Qu!TypeOK, Statuses, EventStates, Words
 <1>3. Qu!NobodyWaitsInVain'
  <2>1. \A c \in GetCall : got'[c] # NoValue => callQu'[c] = "done"
    BY <1>1, Sorts DEF Qu!NobodyWaitsInVain
  <2>2. unfinished' = Len(queueQu') + Qu!Cardinality(tasks')
    BY <1>1 DEF Qu!NobodyWaitsInVain
  <2>3. Qu!Full' <=> Qu!Full
    BY DEF Qu!Full
  <2>4. QED
    BY <2>1, <2>2, <2>3 DEF Qu!NobodyWaitsInVain, Qu!Pending, JoinsKept
 <1>4. ItemsOnce'
  <2>1. /\ IsFiniteSet(tasks) /\ Fresh(queueQu, tasks) /\ (maxsize > 0 => Len(queueQu) <= maxsize)
        /\ \A i \in DOMAIN queueQu : callQu[queueQu[i]] = "done"
        /\ \A c \in tasks : callQu[c] = "done"
        /\ \A g \in GetCall : got[g] # NoValue => callQu[got[g]] = "done"
        /\ \A i \in DOMAIN queueQu : queueQu[i] \in PutCall
        /\ \A g \in GetCall : got[g] \in PutCall \cup {NoValue}
        /\ tasks \subseteq PutCall
    BY <1>1 DEF ItemsOnce, Qu!TypeOK
  <2>2. /\ \A i \in DOMAIN queueQu : callQu'[queueQu[i]] = "done"
        /\ \A p \in tasks : callQu'[p] = "done"
        /\ \A g \in GetCall : got[g] # NoValue => callQu'[got[g]] = "done"
    BY <2>1, Sorts
  <2>3. QED
    BY <2>1, <2>2 DEF ItemsOnce
 <1>5. QED
   BY <1>2, <1>3, <1>4 DEF QueueInv

LEMMA DequesStand ==
  ASSUME QueueBounds, QueueInv, NEW cs,
         \A c \in Qu!Call : cs[c] = "pending" => callQu[c] = "pending",
         \A c \in Qu!Call : callQu[c] # "none" => cs[c] # "none",
         NEW gs, gs \in {getters, Qu!Live(getters)}, NEW ps, ps \in {putters, Qu!Live(putters)}
  PROVE  /\ gs \in Seq(GetCall) /\ ps \in Seq(PutCall)
         /\ Stand(gs, GetCall, cs) /\ Stand(ps, PutCall, cs) /\ Once(ps, cs)
 <1>1. getters \in Seq(GetCall) /\ putters \in Seq(PutCall) /\ Standing
   BY DEF QueueInv, Qu!TypeOK
 <1>2. gs \in Seq(GetCall) /\ ps \in Seq(PutCall)
   BY <1>1, LiveKeeps
 <1>3. /\ \A c \in GetCall : cs[c] = "pending" => callQu[c] = "pending"
       /\ \A c \in PutCall : cs[c] = "pending" => callQu[c] = "pending"
       /\ \A i \in DOMAIN putters : callQu[putters[i]] # "none" => cs[putters[i]] # "none"
  <2>1. \A i \in DOMAIN putters : putters[i] \in PutCall
    BY <1>1
  <2>2. QED
    BY <2>1, Sorts
 <1>4. Stand(gs, GetCall, cs)
  <2>1. Stand(Qu!Live(getters), GetCall, cs)
    BY <1>1, <1>3, LiveStands DEF Standing
  <2>2. Stand(getters, GetCall, cs)
    BY <1>1, <1>3 DEF Standing, Stand
  <2>3. QED
    BY <2>1, <2>2
 <1>5. Stand(ps, PutCall, cs)
  <2>1. Stand(Qu!Live(putters), PutCall, cs)
    BY <1>1, <1>3, LiveStands DEF Standing
  <2>2. Stand(putters, PutCall, cs)
    BY <1>1, <1>3 DEF Standing, Stand
  <2>3. QED
    BY <2>1, <2>2
 <1>6. Once(ps, cs)
  <2>1. Once(Qu!Live(putters), cs)
    BY <1>1, <1>3, LiveOnce DEF Standing
  <2>2. Once(putters, cs)
    BY <1>1, <1>3 DEF Standing, Once
  <2>3. QED
    BY <2>1, <2>2
 <1>7. QED
   BY <1>2, <1>4, <1>5, <1>6

(* The parts of the invariant. *)
LEMMA QueueParts ==
  ASSUME QueueBounds, QueueInv
  PROVE  /\ kind \in KindsQu /\ maxsize \in Nat /\ armedQu \subseteq Qu!Call
         /\ getters \in Seq(GetCall) /\ putters \in Seq(PutCall) /\ queueQu \in Seq(PutCall)
         /\ Len(queueQu) \in Nat
         /\ callQu \in [Qu!Call -> Statuses] /\ tasks \subseteq PutCall
         /\ unfinished \in Nat /\ finished \in EventStates /\ word \in [JoinCall -> Words]
         /\ got \in [GetCall -> PutCall \cup {NoValue}]
         /\ \A c \in GetCall : got[c] # NoValue => callQu[c] = "done" /\ callQu[got[c]] = "done"
         /\ \A c \in GetCall : callQu[c] = "pending" => queueQu = <<>>
         /\ \A c \in PutCall : callQu[c] = "pending" => Qu!Full
         /\ unfinished = Len(queueQu) + Qu!Cardinality(tasks)
         /\ IsFiniteSet(tasks) /\ Qu!Cardinality(tasks) \in Nat /\ Fresh(queueQu, tasks)
         /\ \A i \in DOMAIN queueQu : queueQu[i] \in PutCall /\ callQu[queueQu[i]] = "done"
         /\ \A c \in tasks : callQu[c] = "done"
         /\ (maxsize > 0 => Len(queueQu) <= maxsize)
         /\ Stand(getters, GetCall, callQu) /\ Stand(putters, PutCall, callQu) /\ Once(putters, callQu)
 <1>1. Qu!TypeOK /\ Qu!NobodyWaitsInVain /\ Standing /\ ItemsOnce
   BY DEF QueueInv
 <1>2. /\ kind \in KindsQu /\ maxsize \in Nat /\ armedQu \subseteq Qu!Call
       /\ getters \in Seq(GetCall) /\ putters \in Seq(PutCall) /\ queueQu \in Seq(PutCall)
       /\ Len(queueQu) \in Nat
       /\ callQu \in [Qu!Call -> Statuses] /\ tasks \subseteq PutCall
       /\ unfinished \in Nat /\ finished \in EventStates /\ word \in [JoinCall -> Words]
       /\ got \in [GetCall -> PutCall \cup {NoValue}]
       /\ \A i \in DOMAIN queueQu : queueQu[i] \in PutCall
   BY <1>1 DEF Qu!TypeOK, Statuses, QueueBounds, EventStates, Words
 <1>3. IsFiniteSet(tasks) /\ Qu!Cardinality(tasks) \in Nat
   BY <1>1, FS_CardinalityType, SameCardinalityQu DEF ItemsOnce
 <1>4. QED
   BY <1>1, <1>2, <1>3 DEF Qu!NobodyWaitsInVain, ItemsOnce, Standing, Qu!Pending

LEMMA QueueTimeoutKeeps ==
  ASSUME QueueBounds, QueueInv, NEW c \in Qu!Call, Qu!Timeout(c) \/ Qu!Disarm(c) \/ Qu!Cancel(c)
  PROVE  QueueInv'
 <1>1. /\ UNCHANGED <<kind, maxsize, queueQu, getters, putters, unfinished, finished, word, got, tasks>>
       /\ armedQu' \subseteq Qu!Call /\ callQu' \in [Qu!Call -> Statuses]
       /\ \A d \in Qu!Call : callQu'[d] # callQu[d] => callQu'[d] \notin {"none", "pending"}
       /\ \A d \in Qu!Call : callQu'[d] = "pending" /\ d \in armedQu => d \in armedQu'
       /\ \A d \in Qu!Call : /\ callQu'[d] = "pending" => callQu[d] = "pending"
                             /\ callQu[d] # "none" => callQu'[d] # "none"
                             /\ callQu[d] = "done" => callQu'[d] = "done"
  <2>1. callQu \in [Qu!Call -> Statuses] /\ armedQu \subseteq Qu!Call
    BY QueueParts
  <2>2. CASE Qu!Timeout(c)
    BY <2>1, <2>2 DEF Qu!Timeout, Statuses
  <2>3. CASE Qu!Disarm(c)
    BY <2>1, <2>3 DEF Qu!Disarm, Qu!Pending
  <2>4. CASE Qu!Cancel(c)
    BY <2>1, <2>4 DEF Qu!Cancel, Statuses, Qu!Pending
  <2>5. QED
    BY <2>2, <2>3, <2>4
 <1>2. Standing' /\ getters' \in Seq(GetCall) /\ putters' \in Seq(PutCall)
  <2>1. getters' = getters /\ putters' = putters
    BY <1>1
  <2>2. /\ getters' \in Seq(GetCall) /\ putters' \in Seq(PutCall)
        /\ Stand(getters', GetCall, callQu') /\ Stand(putters', PutCall, callQu')
        /\ Once(putters', callQu')
    BY <1>1, <2>1, DequesStand
  <2>3. QED
    BY <2>2 DEF Standing
 <1>3. /\ \A d \in GetCall : callQu'[d] = "pending" => queueQu = <<>>
       /\ \A d \in PutCall : callQu'[d] = "pending" => Qu!Full
   BY <1>1, QueueParts, Sorts
 <1>4. JoinsKept'
  <2>1. /\ \A j \in JoinCall : callQu'[j] # callQu[j] => callQu'[j] \notin {"none", "pending"}
        /\ \A j \in JoinCall : callQu'[j] = "pending" /\ j \in armedQu => j \in armedQu'
    BY <1>1, Sorts
  <2>2. QED
    BY <1>1, <2>1, JoinsLeft
 <1>5. finished' \in EventStates /\ word' \in [JoinCall -> Words]
   BY <1>1, QueueParts
 <1>6. QED
   BY <1>1, <1>2, <1>3, <1>4, <1>5, Shifts

(* A step of the joins and the event alone. *)
LEMMA JoinsMove ==
  ASSUME QueueBounds, QueueInv,
         UNCHANGED <<kind, maxsize, queueQu, getters, putters, unfinished, got, tasks>>,
         finished' \in EventStates, word' \in [JoinCall -> Words], JoinsKept',
         callQu' \in [Qu!Call -> Statuses], armedQu' \subseteq Qu!Call,
         \A c \in Qu!Call : /\ c \notin JoinCall => callQu'[c] = callQu[c]
                            /\ callQu[c] = "done" => callQu'[c] = "done"
  PROVE  QueueInv'
 <1>1. /\ \A c \in GetCall : callQu'[c] = callQu[c]
       /\ \A c \in PutCall : callQu'[c] = callQu[c]
   BY Sorts
 <1>2. Standing' /\ getters' \in Seq(GetCall) /\ putters' \in Seq(PutCall)
  <2>1. /\ Stand(getters, GetCall, callQu') /\ Stand(putters, PutCall, callQu')
        /\ getters \in Seq(GetCall) /\ putters \in Seq(PutCall)
    BY <1>1, QueueParts DEF Stand
  <2>2. Once(putters, callQu')
    BY <1>1, QueueParts DEF Once
  <2>3. QED
    BY <2>1, <2>2 DEF Standing
 <1>3. /\ \A d \in GetCall : callQu'[d] = "pending" => queueQu = <<>>
       /\ \A d \in PutCall : callQu'[d] = "pending" => Qu!Full
   BY <1>1, QueueParts
 <1>4. QED
   BY <1>1, <1>2, <1>3, Shifts

LEMMA JoinKeeps ==
  ASSUME QueueBounds, QueueInv, NEW j \in JoinCall, Qu!Join(j) \/ Qu!Hear(j) \/ Qu!CancelJoin(j)
  PROVE  QueueInv'
 <1>1. /\ callQu \in [Qu!Call -> Statuses] /\ armedQu \subseteq Qu!Call
       /\ finished \in EventStates /\ word \in [JoinCall -> Words] /\ JoinsKept
   BY QueueParts DEF QueueInv
 <1>2. j \in Qu!Call /\ JoinCall \subseteq Qu!Call
   BY Sorts
 <1>3. CASE Qu!Join(j)
  <2>1. /\ UNCHANGED <<kind, maxsize, queueQu, getters, putters, unfinished, finished, got, tasks>>
        /\ callQu[j] = "none"
        /\ callQu' = [callQu EXCEPT ![j] = IF finished = "clear" THEN "pending"
                                           ELSE IF finished = "set" THEN "done" ELSE finished]
        /\ \/ armedQu' = armedQu /\ word' = word
           \/ /\ finished = "clear"
              /\ armedQu' = armedQu \cup {j} /\ word' = [word EXCEPT ![j] = "clear"]
    BY <1>3 DEF Qu!Join
  <2>2. /\ callQu' \in [Qu!Call -> Statuses] /\ armedQu' \subseteq Qu!Call
        /\ finished' \in EventStates /\ word' \in [JoinCall -> Words]
        /\ \A d \in Qu!Call : d # j => callQu'[d] = callQu[d]
        /\ callQu'[j] # "none" /\ (callQu'[j] = "pending" => finished = "clear")
    BY <1>1, <1>2, <2>1 DEF Statuses, EventStates, Words
  <2>3. word[j] = "none"
    BY <1>1, <2>1 DEF JoinsKept
  <2>4. /\ \A d \in JoinCall : d # j => word'[d] = word[d] /\ (d \in armedQu => d \in armedQu')
        /\ \/ word'[j] = "none"
           \/ word'[j] = "clear" /\ j \in armedQu'
    BY <1>1, <2>1, <2>3
  <2>5. JoinsKept'
    BY <1>1, <1>2, <2>1, <2>2, <2>4 DEF JoinsKept, Qu!JoinsWait, Qu!Pending
  <2>6. QED
    BY <2>1, <2>2, <2>5, JoinsMove
 <1>4. CASE Qu!Hear(j)
  <2>1. /\ UNCHANGED <<kind, maxsize, queueQu, getters, putters, unfinished, finished, got, tasks>>
        /\ word[j] \in {"set", "cancelled"}
        /\ word' = [word EXCEPT ![j] = IF @ = "set" THEN "told" ELSE "lost"]
        /\ armedQu' = armedQu \ {j}
        /\ callQu' = [callQu EXCEPT ![j] = IF @ = "pending" /\ word[j] = "set" THEN "done" ELSE @]
    BY <1>4 DEF Qu!Hear
  <2>2. /\ callQu' \in [Qu!Call -> Statuses] /\ armedQu' \subseteq Qu!Call
        /\ finished' \in EventStates /\ word' \in [JoinCall -> Words]
        /\ \A d \in Qu!Call : d # j => callQu'[d] = callQu[d]
        /\ callQu'[j] = "none" => callQu[j] = "none"
    BY <1>1, <1>2, <2>1 DEF Statuses, EventStates, Words
  <2>3. /\ \A d \in JoinCall : d # j => word'[d] = word[d] /\ (d \in armedQu => d \in armedQu')
        /\ \/ word'[j] = "told" /\ callQu'[j] # "pending"
           \/ word'[j] = "lost"
    BY <1>1, <1>2, <2>1
  <2>4. callQu[j] # "none"
    BY <1>1, <2>1 DEF JoinsKept
  <2>5. JoinsKept'
    BY <1>1, <1>2, <2>1, <2>2, <2>3, <2>4 DEF JoinsKept, Qu!JoinsWait, Qu!Pending
  <2>6. QED
    BY <2>1, <2>2, <2>5, JoinsMove
 <1>5. CASE Qu!CancelJoin(j)
  <2> DEFINE js == Qu!Sharing
  <2>1. /\ UNCHANGED <<kind, maxsize, queueQu, getters, putters, unfinished, armedQu, got, tasks>>
        /\ finished' = "cancelled"
        /\ word' = [d \in JoinCall |-> IF word[d] = "clear" THEN "cancelled" ELSE word[d]]
        /\ callQu' = [c \in Qu!Call |-> IF c \in js THEN "cancelled" ELSE callQu[c]]
    BY <1>5 DEF Qu!CancelJoin, Qu!EventBecomes
  <2>2. \A d \in JoinCall : d \in js <=> callQu[d] = "pending" /\ word[d] = "none"
    BY DEF Qu!Sharing, Qu!Pending
  <2>3. js \subseteq JoinCall
    BY DEF Qu!Sharing
  <2> HIDE DEF js
  <2>4. /\ callQu' \in [Qu!Call -> Statuses] /\ armedQu' \subseteq Qu!Call
        /\ finished' \in EventStates /\ word' \in [JoinCall -> Words]
        /\ \A d \in Qu!Call : /\ d \notin JoinCall => callQu'[d] = callQu[d]
                              /\ callQu[d] = "done" => callQu'[d] = "done"
    BY <1>1, <2>1, <2>2, <2>3 DEF Statuses, EventStates, Words
  <2>5. JoinsKept'
    BY <1>1, <1>2, <2>1, <2>2 DEF JoinsKept, Qu!JoinsWait, Qu!Pending
  <2>6. QED
    BY <2>1, <2>4, <2>5, JoinsMove
 <1>6. QED
   BY <1>3, <1>4, <1>5

LEMMA RefusedKeeps ==
  ASSUME QueueBounds, QueueInv, NEW c \in PutCall \cup GetCall,
         (c \in PutCall /\ Qu!PutRefused(c)) \/ (c \in GetCall /\ Qu!GetRefused(c))
  PROVE  QueueInv'
 <1>1. /\ UNCHANGED <<kind, maxsize, queueQu, unfinished, finished, armedQu, word, got, tasks>>
       /\ callQu[c] = "none" /\ callQu' = [callQu EXCEPT ![c] = "refused"]
       /\ getters' = Qu!Live(getters) /\ putters' = Qu!Live(putters)
   BY DEF Qu!PutRefused, Qu!GetRefused
 <1>2. callQu \in [Qu!Call -> Statuses] /\ armedQu \subseteq Qu!Call /\ c \in Qu!Call
   BY QueueParts, Sorts
 <1>3. /\ callQu' \in [Qu!Call -> Statuses] /\ armedQu' \subseteq Qu!Call
       /\ \A d \in Qu!Call : /\ callQu'[d] = "pending" => callQu[d] = "pending"
                             /\ callQu[d] # "none" => callQu'[d] # "none"
                             /\ callQu[d] = "done" => callQu'[d] = "done"
                             /\ d # c => callQu'[d] = callQu[d]
   BY <1>1, <1>2 DEF Statuses
 <1>4. Standing' /\ getters' \in Seq(GetCall) /\ putters' \in Seq(PutCall)
  <2>1. /\ getters' \in Seq(GetCall) /\ putters' \in Seq(PutCall)
        /\ Stand(getters', GetCall, callQu') /\ Stand(putters', PutCall, callQu')
        /\ Once(putters', callQu')
    BY <1>1, <1>3, DequesStand
  <2>2. QED
    BY <2>1 DEF Standing
 <1>5. /\ \A d \in GetCall : callQu'[d] = "pending" => queueQu = <<>>
       /\ \A d \in PutCall : callQu'[d] = "pending" => Qu!Full
   BY <1>3, QueueParts, Sorts
 <1>7. /\ finished' \in EventStates /\ word' \in [JoinCall -> Words] /\ JoinsKept'
  <2>1. \A j \in JoinCall : callQu'[j] = callQu[j]
    BY <1>3, Sorts
  <2>2. \A j \in JoinCall : j \in armedQu => j \in armedQu'
    BY <1>1
  <2>3. QED
    BY <1>1, <2>1, <2>2, JoinsLeft, QueueParts
 <1>6. QED
   BY <1>1, <1>3, <1>4, <1>5, <1>7, Shifts

LEMMA PutWaitsKeeps ==
  ASSUME QueueBounds, QueueInv, NEW p \in PutCall, Qu!PutWaits(p) PROVE QueueInv'
 <1>1. /\ UNCHANGED <<kind, maxsize, queueQu, unfinished, finished, word, got, tasks>>
       /\ callQu[p] = "none" /\ callQu' = [callQu EXCEPT ![p] = "pending"]
       /\ Qu!Live(getters) = <<>> /\ Qu!Full
       /\ getters' = Qu!Live(getters) /\ putters' = Append(Qu!Live(putters), p)
       /\ armedQu' \in {armedQu, armedQu \cup {p}}
   BY DEF Qu!PutWaits
 <1>2. /\ callQu \in [Qu!Call -> Statuses] /\ armedQu \subseteq Qu!Call /\ p \in Qu!Call
       /\ getters \in Seq(GetCall) /\ putters \in Seq(PutCall)
       /\ Stand(getters, GetCall, callQu) /\ Stand(putters, PutCall, callQu) /\ Once(putters, callQu)
   BY QueueParts, Sorts
 <1>3. /\ callQu' \in [Qu!Call -> Statuses] /\ armedQu' \subseteq Qu!Call /\ callQu'[p] = "pending"
       /\ \A d \in Qu!Call : d # p => callQu'[d] = callQu[d]
       /\ \A d \in Qu!Call : callQu[d] # "none" => callQu'[d] # "none"
       /\ \A d \in Qu!Call : callQu[d] = "done" => callQu'[d] = "done"
   BY <1>1, <1>2 DEF Statuses
 <1>4. getters' \in Seq(GetCall) /\ Stand(getters', GetCall, callQu')
  <2>1. \A c \in GetCall : callQu'[c] = "pending" => callQu[c] = "pending"
    BY <1>3, Sorts
  <2>2. QED
    BY <1>1, <1>2, <2>1, LiveStands, LiveKeeps
 <1>5. /\ putters' \in Seq(PutCall) /\ Stand(putters', PutCall, callQu') /\ Once(putters', callQu')
  <2> DEFINE us == Qu!Live(putters)
  <2>1. /\ us \in Seq(PutCall)
        /\ \A k \in DOMAIN us : \E i \in DOMAIN putters : us[k] = putters[i]
        /\ \A i \in DOMAIN putters : Qu!Pending(putters[i]) => \E k \in DOMAIN us : us[k] = putters[i]
    BY <1>2, LiveKeeps
  <2>2. Once(us, callQu')
   <3>1. \A i \in DOMAIN putters : putters[i] \in PutCall
     BY <1>2
   <3>2. \A i \in DOMAIN putters : callQu[putters[i]] # "none" => callQu'[putters[i]] # "none"
     BY <1>3, <3>1, Sorts
   <3>3. QED
     BY <1>2, <3>2, LiveOnce
  <2> HIDE DEF us
  <2>3. \A k \in DOMAIN us : us[k] # p
    BY <1>1, <1>2, <2>1 DEF Once
  <2>4. \A c \in PutCall : c # p /\ callQu'[c] = "pending" => \E i \in DOMAIN us : us[i] = c
   <3>1. SUFFICES ASSUME NEW c \in PutCall, c # p, callQu'[c] = "pending"
                  PROVE  \E i \in DOMAIN us : us[i] = c
     OBVIOUS
   <3>2. callQu[c] = "pending"
     BY <1>3, <3>1, Sorts
   <3>3. PICK i \in DOMAIN putters : putters[i] = c
     BY <1>2, <3>2 DEF Stand
   <3>4. QED
     BY <2>1, <3>2, <3>3 DEF Qu!Pending
  <2>5. putters' = Append(us, p)
    BY <1>1 DEF us
  <2>6. callQu'[p] # "none"
    BY <1>3
  <2>7. QED
    BY <2>1, <2>2, <2>3, <2>4, <2>5, <2>6, JoinsLine
 <1>6. Standing'
   BY <1>4, <1>5 DEF Standing
 <1>7. /\ \A d \in GetCall : callQu'[d] = "pending" => queueQu = <<>>
       /\ \A d \in PutCall : callQu'[d] = "pending" => Qu!Full
   BY <1>1, <1>3, QueueParts, Sorts
 <1>9. /\ finished' \in EventStates /\ word' \in [JoinCall -> Words] /\ JoinsKept'
  <2>1. \A j \in JoinCall : callQu'[j] = callQu[j]
    BY <1>3, Sorts
  <2>2. \A j \in JoinCall : j \in armedQu => j \in armedQu'
    BY <1>1
  <2>3. QED
    BY <1>1, <2>1, <2>2, JoinsLeft, QueueParts
 <1>8. QED
   BY <1>1, <1>3, <1>4, <1>5, <1>6, <1>7, <1>9, Shifts

LEMMA GetWaitsKeeps ==
  ASSUME QueueBounds, QueueInv, NEW g \in GetCall, Qu!GetWaits(g) PROVE QueueInv'
 <1>1. /\ UNCHANGED <<kind, maxsize, queueQu, unfinished, finished, word, got, tasks>>
       /\ callQu[g] = "none" /\ callQu' = [callQu EXCEPT ![g] = "pending"]
       /\ queueQu = <<>>
       /\ putters' = Qu!Live(putters) /\ getters' = Append(Qu!Live(getters), g)
       /\ armedQu' \in {armedQu, armedQu \cup {g}}
   BY DEF Qu!GetWaits
 <1>2. /\ callQu \in [Qu!Call -> Statuses] /\ armedQu \subseteq Qu!Call /\ g \in Qu!Call
       /\ getters \in Seq(GetCall) /\ putters \in Seq(PutCall)
       /\ Stand(getters, GetCall, callQu) /\ Stand(putters, PutCall, callQu) /\ Once(putters, callQu)
   BY QueueParts, Sorts
 <1>3. /\ callQu' \in [Qu!Call -> Statuses] /\ armedQu' \subseteq Qu!Call
       /\ \A d \in Qu!Call : d # g => callQu'[d] = callQu[d]
       /\ \A d \in Qu!Call : callQu[d] # "none" => callQu'[d] # "none"
       /\ \A d \in Qu!Call : callQu[d] = "done" => callQu'[d] = "done"
   BY <1>1, <1>2 DEF Statuses
 <1>4. putters' \in Seq(PutCall) /\ Stand(putters', PutCall, callQu') /\ Once(putters', callQu')
  <2>1. \A c \in PutCall : callQu'[c] = callQu[c]
    BY <1>3, Sorts
  <2>2. \A i \in DOMAIN putters : putters[i] \in PutCall
    BY <1>2
  <2>3. QED
    BY <1>1, <1>2, <2>1, <2>2, LiveStands, LiveKeeps, LiveOnce
 <1>5. getters' \in Seq(GetCall) /\ Stand(getters', GetCall, callQu')
  <2> DEFINE us == Qu!Live(getters)
  <2>1. /\ us \in Seq(GetCall)
        /\ \A i \in DOMAIN getters : Qu!Pending(getters[i]) => \E k \in DOMAIN us : us[k] = getters[i]
    BY <1>2, LiveKeeps
  <2> HIDE DEF us
  <2>2. \A c \in GetCall : c # g /\ callQu'[c] = "pending" => \E i \in DOMAIN us : us[i] = c
   <3>1. SUFFICES ASSUME NEW c \in GetCall, c # g, callQu'[c] = "pending"
                  PROVE  \E i \in DOMAIN us : us[i] = c
     OBVIOUS
   <3>2. callQu[c] = "pending"
     BY <1>3, <3>1, Sorts
   <3>3. PICK i \in DOMAIN getters : getters[i] = c
     BY <1>2, <3>2 DEF Stand
   <3>4. QED
     BY <2>1, <3>2, <3>3 DEF Qu!Pending
  <2>3. getters' = Append(us, g)
    BY <1>1 DEF us
  <2>4. QED
    BY <2>1, <2>2, <2>3, JoinsLine
 <1>6. Standing'
   BY <1>4, <1>5 DEF Standing
 <1>7. /\ \A d \in GetCall : callQu'[d] = "pending" => queueQu = <<>>
       /\ \A d \in PutCall : callQu'[d] = "pending" => Qu!Full
   BY <1>1, <1>3, QueueParts, Sorts
 <1>9. /\ finished' \in EventStates /\ word' \in [JoinCall -> Words] /\ JoinsKept'
  <2>1. \A j \in JoinCall : callQu'[j] = callQu[j]
    BY <1>3, Sorts
  <2>2. \A j \in JoinCall : j \in armedQu => j \in armedQu'
    BY <1>1
  <2>3. QED
    BY <1>1, <2>1, <2>2, JoinsLeft, QueueParts
 <1>8. QED
   BY <1>1, <1>3, <1>4, <1>5, <1>6, <1>7, <1>9, Shifts

LEMMA TaskDoneKeeps ==
  ASSUME QueueBounds, QueueInv, NEW item \in PutCall, Qu!TaskDone(item) PROVE QueueInv'
 <1>1. /\ UNCHANGED <<kind, maxsize, queueQu, getters, putters, armedQu, got>>
       /\ item \in tasks /\ tasks' = tasks \ {item}
       /\ unfinished > 0 /\ unfinished' = unfinished - 1
   BY DEF Qu!TaskDone
 <1>2. /\ kind \in KindsQu /\ maxsize \in Nat /\ armedQu \subseteq Qu!Call
       /\ getters \in Seq(GetCall) /\ putters \in Seq(PutCall) /\ queueQu \in Seq(PutCall)
       /\ Len(queueQu) \in Nat
       /\ callQu \in [Qu!Call -> Statuses] /\ tasks \subseteq PutCall
       /\ unfinished \in Nat /\ finished \in EventStates /\ word \in [JoinCall -> Words]
       /\ got \in [GetCall -> PutCall \cup {NoValue}]
       /\ \A c \in GetCall : got[c] # NoValue => callQu[c] = "done" /\ callQu[got[c]] = "done"
       /\ \A c \in GetCall : callQu[c] = "pending" => queueQu = <<>>
       /\ \A c \in PutCall : callQu[c] = "pending" => Qu!Full
       /\ unfinished = Len(queueQu) + Qu!Cardinality(tasks)
       /\ IsFiniteSet(tasks) /\ Qu!Cardinality(tasks) \in Nat /\ Fresh(queueQu, tasks)
       /\ \A i \in DOMAIN queueQu : queueQu[i] \in PutCall /\ callQu[queueQu[i]] = "done"
       /\ \A c \in tasks : callQu[c] = "done"
       /\ (maxsize > 0 => Len(queueQu) <= maxsize)
   BY QueueParts
 <1>3. /\ callQu' \in [Qu!Call -> Statuses]
       /\ \A d \in Qu!Call : /\ callQu'[d] = "pending" => callQu[d] = "pending"
                             /\ callQu[d] # "none" => callQu'[d] # "none"
                             /\ callQu[d] = "done" => callQu'[d] = "done"
       /\ finished' \in EventStates /\ word' \in [JoinCall -> Words]
       /\ JoinsKept'
  <2>1. CASE unfinished = 1 /\ finished = "clear"
   <3> DEFINE js == Qu!Sharing
   <3>1. /\ finished' = "set" /\ Qu!Resolve(js)
         /\ word' = [j \in JoinCall |-> IF word[j] = "clear" THEN "set" ELSE word[j]]
     BY <2>1 DEF Qu!TaskDone, Qu!EventBecomes
   <3>5. \A d \in JoinCall : d \in js <=> callQu[d] = "pending" /\ word[d] = "none"
     BY DEF Qu!Sharing, Qu!Pending
   <3>6. unfinished' = 0 /\ armedQu' = armedQu /\ JoinsKept
     BY <1>1, <1>2, <2>1 DEF QueueInv
   <3> HIDE DEF js
   <3>2. /\ callQu' \in [Qu!Call -> Statuses]
         /\ \A c \in Qu!Call : /\ c \notin js => callQu'[c] = callQu[c]
                               /\ callQu[c] = "done" => callQu'[c] = "done"
                               /\ c \in js /\ callQu[c] \in {"none", "pending"} => callQu'[c] = "done"
                               /\ callQu'[c] \in {"none", "pending"} => c \notin js /\ callQu'[c] = callQu[c]
     BY <1>2, <3>1, Resolved
   <3>7. /\ finished' \in EventStates /\ word' \in [JoinCall -> Words]
         /\ \A c \in Qu!Call : callQu[c] # "none" => callQu'[c] # "none"
     BY <1>2, <3>1, <3>2 DEF EventStates, Words
   <3>3. JoinsKept'
    <4>1. \A d \in JoinCall : callQu'[d] = "pending" => callQu[d] = "pending" /\ word[d] # "none"
      BY <3>2, <3>5, Sorts
    <4>2. \A d \in JoinCall : callQu'[d] = "none" => callQu[d] = "none"
      BY <3>7, Sorts
    <4>3. QED
      BY <3>1, <3>6, <4>1, <4>2 DEF JoinsKept, Qu!JoinsWait, Qu!Pending
   <3>4. QED
     BY <3>2, <3>3, <3>7
  <2>2. CASE ~(unfinished = 1 /\ finished = "clear")
   <3>1. finished' = finished /\ word' = word /\ callQu' = callQu /\ armedQu' = armedQu
     BY <1>1, <2>2 DEF Qu!TaskDone
   <3>2. JoinsKept
     BY DEF QueueInv
   <3>3. /\ finished = "clear" => unfinished' > 0
         /\ finished # "set"
     BY <1>1, <1>2, <2>2, <3>2 DEF JoinsKept, Qu!JoinsWait
   <3>4. JoinsKept'
     BY <3>1, <3>2, <3>3 DEF JoinsKept, Qu!JoinsWait, Qu!Pending
   <3>5. QED
     BY <1>2, <3>1, <3>4
  <2>3. QED
    BY <2>1, <2>2
 <1>4. IsFiniteSet(tasks') /\ Qu!Cardinality(tasks') = Qu!Cardinality(tasks) - 1
   BY <1>1, <1>2, FS_RemoveElement, SameCardinalityQu
 <1>5. Qu!TypeOK'
  <2>1. unfinished' \in Nat
    BY <1>1, <1>2
  <2>2. finished' \in EventStates /\ word' \in [JoinCall -> Words]
    BY <1>3
  <2>3. maxsize \in 0..MaxRoom
    BY DEF QueueInv, Qu!TypeOK
  <2>4. tasks' \subseteq PutCall
    BY <1>1, <1>2
  <2>5. QED
    BY <1>1, <1>2, <1>3, <2>1, <2>2, <2>3, <2>4 DEF Qu!TypeOK, Statuses, EventStates, Words
 <1>6. Qu!NobodyWaitsInVain'
  <2>1. \A g \in GetCall : got'[g] # NoValue => callQu'[g] = "done"
    BY <1>1, <1>2, <1>3, Sorts
  <2>2. /\ \A g \in GetCall : callQu'[g] = "pending" => queueQu' = <<>>
        /\ \A p \in PutCall : callQu'[p] = "pending" => Qu!Full
    BY <1>1, <1>2, <1>3, Sorts
  <2>3. Qu!Full' <=> Qu!Full
    BY <1>1 DEF Qu!Full
  <2>5. unfinished' = Len(queueQu') + Qu!Cardinality(tasks')
   <3>1. unfinished = Len(queueQu) + Qu!Cardinality(tasks) /\ queueQu' = queueQu
     BY <1>1, <1>2
   <3>2. QED
     BY <1>1, <1>2, <1>4, <3>1
  <2>6. QED
    BY <1>3, <2>1, <2>2, <2>3, <2>5 DEF Qu!NobodyWaitsInVain, Qu!Pending, JoinsKept
 <1>7. Standing'
  <2>1. /\ Stand(getters', GetCall, callQu') /\ Stand(putters', PutCall, callQu')
        /\ Once(putters', callQu')
    BY <1>1, <1>3, DequesStand
  <2>2. QED
    BY <2>1 DEF Standing
 <1>8. ItemsOnce'
  <2>1. Fresh(queueQu, tasks') /\ queueQu' = queueQu /\ maxsize' = maxsize /\ got' = got
    BY <1>1, <1>2 DEF Fresh
  <2>2. /\ \A i \in DOMAIN queueQu : callQu'[queueQu[i]] = "done"
        /\ \A p \in tasks' : callQu'[p] = "done"
        /\ \A g \in GetCall : got[g] # NoValue => callQu'[got[g]] = "done"
    BY <1>1, <1>2, <1>3, Sorts
  <2>3. QED
    BY <1>2, <1>4, <2>1, <2>2 DEF ItemsOnce
 <1>9. QED
   BY <1>3, <1>5, <1>6, <1>7, <1>8 DEF QueueInv

(* A step that puts an item into the queue or takes one out of it keeps    *)
(* the invariant when its own variables are right.                         *)
LEMMA ItemsMove ==
  ASSUME QueueBounds, QueueInv, UNCHANGED <<kind, maxsize, armedQu, word>>,
         \A j \in JoinCall : callQu'[j] = callQu[j],
         callQu' \in [Qu!Call -> Statuses],
         \A c \in Qu!Call : /\ callQu'[c] = "pending" => callQu[c] = "pending"
                            /\ callQu[c] = "done" => callQu'[c] = "done",
         getters' \in Seq(GetCall), putters' \in Seq(PutCall), Standing',
         queueQu' \in Seq(PutCall), Fresh(queueQu', tasks'),
         \A i \in DOMAIN queueQu' : callQu'[queueQu'[i]] = "done",
         tasks' \subseteq PutCall, IsFiniteSet(tasks'), \A p \in tasks' : callQu'[p] = "done",
         NEW g, NEW x \in PutCall, callQu'[x] = "done", g \in GetCall => callQu'[g] = "done",
         got' \in {got, [got EXCEPT ![g] = x]},
         unfinished' = Len(queueQu') + Qu!Cardinality(tasks'), unfinished' > 0,
         finished' = "clear" \/ (finished' = finished /\ unfinished' = unfinished), unfinished' \in Nat,
         \A c \in GetCall : callQu'[c] = "pending" => queueQu' = <<>>,
         \A c \in PutCall : callQu'[c] = "pending" => Qu!Full',
         maxsize > 0 => Len(queueQu') <= maxsize
  PROVE  QueueInv'
 <1>1. /\ got \in [GetCall -> PutCall \cup {NoValue}]
       /\ \A c \in GetCall : got[c] # NoValue => callQu[c] = "done" /\ callQu[got[c]] = "done"
       /\ kind' = kind /\ maxsize' = maxsize /\ armedQu' = armedQu
       /\ kind \in KindsQu /\ maxsize \in 0..MaxRoom /\ armedQu \subseteq Qu!Call
   BY QueueParts DEF QueueInv, Qu!TypeOK
 <1>2. /\ got' \in [GetCall -> PutCall \cup {NoValue}]
       /\ \A c \in GetCall : got'[c] = got[c] \/ (c = g /\ got'[c] = x)
   BY <1>1
 <1>3. \A c \in GetCall : got'[c] # NoValue => callQu'[c] = "done" /\ callQu'[got'[c]] = "done"
  <2>1. SUFFICES ASSUME NEW c \in GetCall, got'[c] # NoValue
                 PROVE  callQu'[c] = "done" /\ callQu'[got'[c]] = "done"
    OBVIOUS
  <2>2. CASE got'[c] = got[c]
    BY <1>1, <2>1, <2>2, Sorts
  <2>3. CASE c = g /\ got'[c] = x
    BY <2>3
  <2>4. QED
    BY <1>2, <2>2, <2>3
 <1>4. Qu!TypeOK'
  <2>1. finished' \in EventStates /\ word' \in [JoinCall -> Words]
    BY QueueParts DEF EventStates
  <2>2. kind' \in KindsQu /\ maxsize' \in 0..MaxRoom /\ armedQu' \subseteq Qu!Call
    BY <1>1
  <2>3. QED
    BY <1>2, <2>1, <2>2 DEF Qu!TypeOK, Statuses, EventStates, Words
 <1>8. JoinsKept'
   BY <1>1, JoinsLeft
 <1>5. Qu!NobodyWaitsInVain'
   BY <1>3, <1>8 DEF Qu!NobodyWaitsInVain, Qu!Pending, JoinsKept
 <1>6. ItemsOnce'
   BY <1>1, <1>3 DEF ItemsOnce
 <1>7. QED
   BY <1>4, <1>5, <1>6, <1>8 DEF QueueInv

LEMMA PutInQueueKeeps ==
  ASSUME QueueBounds, QueueInv, NEW p \in PutCall, Qu!PutInQueue(p) PROVE QueueInv'
 <1>1. /\ callQu[p] = "none" /\ Qu!Live(getters) = <<>> /\ ~Qu!Full
       /\ putters' = Qu!Live(putters) /\ getters' = Qu!Live(getters)
       /\ unfinished' = unfinished + 1 /\ finished' = "clear" /\ queueQu' = Append(queueQu, p)
       /\ Qu!Resolve({p}) /\ UNCHANGED <<kind, maxsize, armedQu, word, got, tasks>>
   BY DEF Qu!PutInQueue, Qu!Accept
 <1>2. /\ kind \in KindsQu /\ maxsize \in Nat /\ armedQu \subseteq Qu!Call
       /\ getters \in Seq(GetCall) /\ putters \in Seq(PutCall) /\ queueQu \in Seq(PutCall)
       /\ Len(queueQu) \in Nat
       /\ callQu \in [Qu!Call -> Statuses] /\ tasks \subseteq PutCall
       /\ unfinished \in Nat /\ finished \in EventStates /\ word \in [JoinCall -> Words]
       /\ got \in [GetCall -> PutCall \cup {NoValue}]
       /\ \A c \in GetCall : got[c] # NoValue => callQu[c] = "done" /\ callQu[got[c]] = "done"
       /\ \A c \in GetCall : callQu[c] = "pending" => queueQu = <<>>
       /\ \A c \in PutCall : callQu[c] = "pending" => Qu!Full
       /\ unfinished = Len(queueQu) + Qu!Cardinality(tasks)
       /\ IsFiniteSet(tasks) /\ Qu!Cardinality(tasks) \in Nat /\ Fresh(queueQu, tasks)
       /\ \A i \in DOMAIN queueQu : queueQu[i] \in PutCall /\ callQu[queueQu[i]] = "done"
       /\ \A c \in tasks : callQu[c] = "done"
       /\ (maxsize > 0 => Len(queueQu) <= maxsize)
       /\ Stand(getters, GetCall, callQu) /\ Stand(putters, PutCall, callQu) /\ Once(putters, callQu)
   BY QueueParts
 <1>3. p \in Qu!Call
   BY Sorts
 <1>4. /\ callQu' \in [Qu!Call -> Statuses] /\ callQu'[p] = "done"
       /\ \A c \in Qu!Call : /\ callQu[c] = "done" => callQu'[c] = "done"
                             /\ callQu[c] # "none" => callQu'[c] # "none"
                             /\ callQu'[c] = "pending" => callQu[c] = "pending"
       /\ \A c \in JoinCall : callQu'[c] = callQu[c]
   BY <1>1, <1>2, <1>3, Resolved, Sorts
 <1>5. p \notin tasks /\ \A i \in DOMAIN queueQu : queueQu[i] # p
   BY <1>1, <1>2
 <1>6. /\ queueQu' \in Seq(PutCall) /\ Len(queueQu') = Len(queueQu) + 1 /\ Fresh(queueQu', tasks)
       /\ \A i \in DOMAIN queueQu' : queueQu'[i] = p \/ \E j \in DOMAIN queueQu : queueQu'[i] = queueQu[j]
   BY <1>1, <1>2, <1>5, Added
 <1>7. Standing' /\ getters' \in Seq(GetCall) /\ putters' \in Seq(PutCall)
  <2>1. /\ getters' \in Seq(GetCall) /\ putters' \in Seq(PutCall)
        /\ Stand(getters', GetCall, callQu') /\ Stand(putters', PutCall, callQu')
        /\ Once(putters', callQu')
    BY <1>1, <1>4, DequesStand
  <2>2. QED
    BY <2>1 DEF Standing
 <1>8. /\ \A c \in GetCall : callQu'[c] # "pending"
       /\ \A c \in PutCall : callQu'[c] # "pending"
  <2>1. \A c \in GetCall : ~Qu!Pending(c)
    BY <1>1, <1>2, NoneWaits
  <2>2. QED
    BY <1>1, <1>2, <1>4, <2>1, Sorts DEF Qu!Pending
 <1>9. \A i \in DOMAIN queueQu' : callQu'[queueQu'[i]] = "done"
  <2>1. \A j \in DOMAIN queueQu : callQu'[queueQu[j]] = "done"
    BY <1>2, <1>4, Sorts
  <2>2. QED
    BY <1>4, <1>6, <2>1
 <1>10. /\ tasks' \subseteq PutCall /\ IsFiniteSet(tasks') /\ Fresh(queueQu', tasks')
        /\ \A c \in tasks' : callQu'[c] = "done"
   BY <1>1, <1>2, <1>4, <1>6, Sorts
 <1>11. /\ unfinished' = Len(queueQu') + Qu!Cardinality(tasks') /\ unfinished' > 0
        /\ unfinished' \in Nat
  <2>1. /\ unfinished = Len(queueQu) + Qu!Cardinality(tasks) /\ unfinished \in Nat
        /\ Len(queueQu) \in Nat /\ Qu!Cardinality(tasks) \in Nat
        /\ Qu!Cardinality(tasks') = Qu!Cardinality(tasks)
    BY <1>1, <1>2
  <2>2. QED
    BY <1>1, <1>6, <2>1
 <1>12. maxsize > 0 => Len(queueQu') <= maxsize
   BY <1>1, <1>2, <1>6 DEF Qu!Full
 <1>13. UNCHANGED <<kind, maxsize, armedQu, word>> /\ got' = got /\ finished' = "clear"
   BY <1>1
 <1>14. p \in GetCall => callQu'[p] = "done"
   BY <1>4
 <1>15. QED
   BY <1>4, <1>6, <1>7, <1>8, <1>9, <1>10, <1>11, <1>12, <1>13, <1>14, ItemsMove

LEMMA GetFromQueueKeeps ==
  ASSUME QueueBounds, QueueInv, NEW g \in GetCall, Qu!GetFromQueue(g) PROVE QueueInv'
 <1>1. /\ callQu[g] = "none" /\ Qu!Live(putters) = <<>> /\ queueQu # <<>>
       /\ putters' = Qu!Live(putters) /\ getters' = Qu!Live(getters)
       /\ queueQu' = Qu!Rest(queueQu) /\ got' = [got EXCEPT ![g] = Qu!Popped(queueQu)]
       /\ tasks' = tasks \cup {Qu!Popped(queueQu)} /\ Qu!Resolve({g})
       /\ UNCHANGED <<kind, maxsize, unfinished, finished, armedQu, word>>
   BY DEF Qu!GetFromQueue
 <1>2. /\ kind \in KindsQu /\ maxsize \in Nat /\ armedQu \subseteq Qu!Call
       /\ getters \in Seq(GetCall) /\ putters \in Seq(PutCall) /\ queueQu \in Seq(PutCall)
       /\ Len(queueQu) \in Nat
       /\ callQu \in [Qu!Call -> Statuses] /\ tasks \subseteq PutCall
       /\ unfinished \in Nat /\ finished \in EventStates /\ word \in [JoinCall -> Words]
       /\ got \in [GetCall -> PutCall \cup {NoValue}]
       /\ \A c \in GetCall : got[c] # NoValue => callQu[c] = "done" /\ callQu[got[c]] = "done"
       /\ \A c \in GetCall : callQu[c] = "pending" => queueQu = <<>>
       /\ \A c \in PutCall : callQu[c] = "pending" => Qu!Full
       /\ unfinished = Len(queueQu) + Qu!Cardinality(tasks)
       /\ IsFiniteSet(tasks) /\ Qu!Cardinality(tasks) \in Nat /\ Fresh(queueQu, tasks)
       /\ \A i \in DOMAIN queueQu : queueQu[i] \in PutCall /\ callQu[queueQu[i]] = "done"
       /\ \A c \in tasks : callQu[c] = "done"
       /\ (maxsize > 0 => Len(queueQu) <= maxsize)
       /\ Stand(getters, GetCall, callQu) /\ Stand(putters, PutCall, callQu) /\ Once(putters, callQu)
   BY QueueParts
 <1>3. g \in Qu!Call
   BY Sorts
 <1>4. /\ callQu' \in [Qu!Call -> Statuses] /\ callQu'[g] = "done"
       /\ \A c \in Qu!Call : /\ callQu[c] = "done" => callQu'[c] = "done"
                             /\ callQu[c] # "none" => callQu'[c] # "none"
                             /\ callQu'[c] = "pending" => callQu[c] = "pending"
       /\ \A c \in JoinCall : callQu'[c] = callQu[c]
   BY <1>1, <1>2, <1>3, Resolved, Sorts
 <1>5. Standing' /\ getters' \in Seq(GetCall) /\ putters' \in Seq(PutCall)
  <2>1. /\ getters' \in Seq(GetCall) /\ putters' \in Seq(PutCall)
        /\ Stand(getters', GetCall, callQu') /\ Stand(putters', PutCall, callQu')
        /\ Once(putters', callQu')
    BY <1>1, <1>4, DequesStand
  <2>2. QED
    BY <2>1 DEF Standing
 <1>6. /\ \A c \in GetCall : callQu'[c] # "pending"
       /\ \A c \in PutCall : callQu'[c] # "pending"
  <2>1. \A c \in PutCall : ~Qu!Pending(c)
    BY <1>1, <1>2, NoneWaits
  <2>2. QED
    BY <1>1, <1>2, <1>4, <2>1, Sorts DEF Qu!Pending
 <1>7. /\ \A i \in DOMAIN queueQu : callQu'[queueQu[i]] = "done"
       /\ \A c \in tasks : callQu'[c] = "done"
   BY <1>2, <1>4, Sorts
 <1>8. /\ Qu!Popped(queueQu) \in PutCall /\ callQu'[Qu!Popped(queueQu)] = "done"
       /\ queueQu' \in Seq(PutCall) /\ Len(queueQu') = Len(queueQu) - 1
       /\ tasks' \subseteq PutCall /\ IsFiniteSet(tasks')
       /\ Qu!Cardinality(tasks') = Qu!Cardinality(tasks) + 1
       /\ Fresh(queueQu', tasks')
       /\ \A i \in DOMAIN queueQu' : callQu'[queueQu'[i]] = "done"
       /\ \A c \in tasks' : callQu'[c] = "done"
   BY <1>1, <1>2, <1>7, Passed
 <1>9. Len(queueQu) > 0
   BY <1>1, <1>2, EmptySeq
 <1>10. /\ unfinished' = Len(queueQu') + Qu!Cardinality(tasks') /\ unfinished' > 0
        /\ unfinished' \in Nat /\ finished' = finished /\ unfinished' = unfinished
  <2>1. /\ unfinished = Len(queueQu) + Qu!Cardinality(tasks) /\ unfinished \in Nat
        /\ Len(queueQu) \in Nat /\ Qu!Cardinality(tasks) \in Nat
        /\ unfinished' = unfinished /\ finished' = finished
    BY <1>1, <1>2
  <2>2. unfinished > 0
    BY <1>9, <2>1
  <2>3. QED
    BY <1>8, <2>1, <2>2
 <1>11. maxsize > 0 => Len(queueQu') <= maxsize
   BY <1>2, <1>8
 <1>12. UNCHANGED <<kind, maxsize, armedQu, word>> /\ got' = [got EXCEPT ![g] = Qu!Popped(queueQu)]
   BY <1>1
 <1>13. QED
   BY <1>4, <1>5, <1>6, <1>8, <1>10, <1>11, <1>12, ItemsMove

LEMMA GetFromPutterKeeps ==
  ASSUME QueueBounds, QueueInv, NEW g \in GetCall, Qu!GetFromPutter(g) PROVE QueueInv'
 <1> DEFINE pendingOnes == Qu!Live(putters)
            first == Head(pendingOnes)
            q == Append(queueQu, first)
 <1>1. /\ callQu[g] = "none" /\ pendingOnes # <<>>
       /\ getters' = Qu!Live(getters) /\ putters' = Tail(pendingOnes)
       /\ unfinished' = unfinished + 1 /\ finished' = "clear" /\ queueQu' = Qu!Rest(q)
       /\ got' = [got EXCEPT ![g] = Qu!Popped(q)]
       /\ tasks' = tasks \cup {Qu!Popped(q)} /\ Qu!Resolve({g, first})
       /\ UNCHANGED <<kind, maxsize, armedQu, word>>
   BY DEF Qu!GetFromPutter, Qu!Accept
 <1>2. /\ kind \in KindsQu /\ maxsize \in Nat /\ armedQu \subseteq Qu!Call
       /\ getters \in Seq(GetCall) /\ putters \in Seq(PutCall) /\ queueQu \in Seq(PutCall)
       /\ Len(queueQu) \in Nat
       /\ callQu \in [Qu!Call -> Statuses] /\ tasks \subseteq PutCall
       /\ unfinished \in Nat /\ finished \in EventStates /\ word \in [JoinCall -> Words]
       /\ got \in [GetCall -> PutCall \cup {NoValue}]
       /\ \A c \in GetCall : got[c] # NoValue => callQu[c] = "done" /\ callQu[got[c]] = "done"
       /\ \A c \in GetCall : callQu[c] = "pending" => queueQu = <<>>
       /\ \A c \in PutCall : callQu[c] = "pending" => Qu!Full
       /\ unfinished = Len(queueQu) + Qu!Cardinality(tasks)
       /\ IsFiniteSet(tasks) /\ Qu!Cardinality(tasks) \in Nat /\ Fresh(queueQu, tasks)
       /\ \A i \in DOMAIN queueQu : queueQu[i] \in PutCall /\ callQu[queueQu[i]] = "done"
       /\ \A c \in tasks : callQu[c] = "done"
       /\ (maxsize > 0 => Len(queueQu) <= maxsize)
       /\ Stand(getters, GetCall, callQu) /\ Stand(putters, PutCall, callQu) /\ Once(putters, callQu)
   BY QueueParts
 <1>3. first \in PutCall /\ Qu!Pending(first) /\ Tail(pendingOnes) \in Seq(PutCall)
   BY <1>1, <1>2, LiveKeeps
 <1>4. g \in Qu!Call /\ first \in Qu!Call /\ g # first /\ callQu[first] = "pending"
   BY <1>3, Sorts DEF Qu!Pending
 <1> HIDE DEF first
 <1>5. /\ callQu' \in [Qu!Call -> Statuses] /\ callQu'[g] = "done" /\ callQu'[first] = "done"
       /\ \A c \in Qu!Call : /\ callQu[c] = "done" => callQu'[c] = "done"
                             /\ callQu[c] # "none" => callQu'[c] # "none"
                             /\ callQu'[c] = "pending" => callQu[c] = "pending"
       /\ \A c \in JoinCall : callQu'[c] = callQu[c]
  <2>1. \A c \in JoinCall : c \in Qu!Call /\ c # g /\ c # first
    BY <1>3, Sorts
  <2> DEFINE cs == {g, first}
  <2>2. g \in cs /\ first \in cs /\ callQu[g] = "none" /\ \A c \in JoinCall : c \notin cs
    BY <1>1, <2>1
  <2>3. Qu!Resolve(cs) /\ callQu \in [Qu!Call -> Statuses]
    BY <1>1, <1>2
  <2> HIDE DEF cs
  <2>4. QED
    BY <1>4, <2>1, <2>2, <2>3, Resolved
 <1>6. Qu!Full /\ Len(queueQu) = maxsize /\ maxsize > 0 /\ queueQu # <<>>
  <2>1. Qu!Full
    BY <1>2, <1>3, <1>4
  <2>2. Len(queueQu) = maxsize /\ maxsize > 0
    BY <1>2, <2>1 DEF Qu!Full
  <2>3. queueQu # <<>>
    BY <2>2
  <2>4. QED
    BY <2>1, <2>2, <2>3
 <1>7. first \notin tasks /\ \A i \in DOMAIN queueQu : queueQu[i] # first
   BY <1>2, <1>4
 <1>8. /\ q \in Seq(PutCall) /\ q # <<>> /\ Len(q) = Len(queueQu) + 1 /\ Fresh(q, tasks)
       /\ \A i \in DOMAIN q : q[i] = first \/ \E j \in DOMAIN queueQu : q[i] = queueQu[j]
   BY <1>2, <1>3, <1>7, Added
 <1> HIDE DEF q
 <1>9. /\ \A i \in DOMAIN q : callQu'[q[i]] = "done"
       /\ \A c \in tasks : callQu'[c] = "done"
  <2>1. \A j \in DOMAIN queueQu : callQu'[queueQu[j]] = "done"
    BY <1>2, <1>5, Sorts
  <2>2. \A i \in DOMAIN q : callQu'[q[i]] = "done"
    BY <1>5, <1>8, <2>1
  <2>3. \A c \in tasks : callQu'[c] = "done"
    BY <1>2, <1>5, Sorts
  <2>4. QED
    BY <2>2, <2>3
 <1>10. /\ Qu!Popped(q) \in PutCall /\ callQu'[Qu!Popped(q)] = "done"
        /\ queueQu' \in Seq(PutCall) /\ Len(queueQu') = Len(q) - 1
        /\ tasks' \subseteq PutCall /\ IsFiniteSet(tasks')
        /\ Qu!Cardinality(tasks') = Qu!Cardinality(tasks) + 1
        /\ Fresh(queueQu', tasks')
        /\ \A i \in DOMAIN queueQu' : callQu'[queueQu'[i]] = "done"
        /\ \A c \in tasks' : callQu'[c] = "done"
   BY <1>1, <1>2, <1>8, <1>9, Passed
 <1>11. Len(queueQu') = Len(queueQu)
   BY <1>2, <1>8, <1>10
 <1>12. Standing' /\ getters' \in Seq(GetCall) /\ putters' \in Seq(PutCall)
  <2>1. /\ getters' \in Seq(GetCall) /\ Stand(getters', GetCall, callQu')
    BY <1>1, <1>5, DequesStand
  <2>2. \A c \in PutCall : callQu'[c] = "pending" => callQu[c] = "pending"
    BY <1>5, Sorts
  <2>3. Stand(putters', PutCall, callQu')
    BY <1>1, <1>2, <1>5, <2>2, LiveStands DEF first
  <2>4. \A i \in DOMAIN putters : putters[i] \in PutCall
    BY <1>2
  <2>5. \A i \in DOMAIN putters : callQu[putters[i]] # "none" => callQu'[putters[i]] # "none"
    BY <1>5, <2>4, Sorts
  <2>6. Once(putters', callQu')
    BY <1>1, <1>2, <2>5, LiveOnce
  <2>7. QED
    BY <1>1, <1>3, <2>1, <2>3, <2>6 DEF Standing
 <1>13. \A c \in GetCall : callQu'[c] # "pending"
   BY <1>2, <1>5, <1>6, Sorts
 <1>14. /\ Qu!Full' /\ (maxsize > 0 => Len(queueQu') <= maxsize)
  <2>1. maxsize' = maxsize
    BY <1>1
  <2>2. QED
    BY <1>2, <1>6, <1>11, <2>1 DEF Qu!Full
 <1>15. /\ unfinished' = Len(queueQu') + Qu!Cardinality(tasks') /\ unfinished' > 0
        /\ unfinished' \in Nat
  <2>1. /\ unfinished = Len(queueQu) + Qu!Cardinality(tasks) /\ unfinished \in Nat
        /\ Len(queueQu) \in Nat /\ Qu!Cardinality(tasks) \in Nat
    BY <1>2
  <2>2. QED
    BY <1>1, <1>10, <1>11, <2>1
 <1>16. UNCHANGED <<kind, maxsize, armedQu, word>> /\ got' = [got EXCEPT ![g] = Qu!Popped(q)]
        /\ finished' = "clear"
   BY <1>1
 <1>17. QED
   BY <1>5, <1>10, <1>12, <1>13, <1>14, <1>15, <1>16, ItemsMove

(* Every step keeps the invariant.                                         *)
LEMMA QueueStep == QueueBounds /\ QueueInv /\ [Qu!Next]_(Qu!vars) => QueueInv'
 <1> SUFFICES ASSUME QueueBounds, QueueInv, [Qu!Next]_(Qu!vars) PROVE QueueInv'
   OBVIOUS
 <1>1. ASSUME NEW p \in PutCall, Qu!PutToGetter(p) \/ Qu!PutInQueue(p) \/ Qu!PutWaits(p) \/ Qu!PutRefused(p)
       PROVE  QueueInv'
  <2>1. Qu!PutRefused(p) => QueueInv'
    BY RefusedKeeps
  <2>2. QED
    BY <1>1, <2>1, PutToGetterKeeps, PutInQueueKeeps, PutWaitsKeeps
 <1>2. ASSUME NEW g \in GetCall, Qu!GetFromPutter(g) \/ Qu!GetFromQueue(g) \/ Qu!GetWaits(g) \/ Qu!GetRefused(g)
       PROVE  QueueInv'
  <2>1. Qu!GetRefused(g) => QueueInv'
    BY RefusedKeeps
  <2>2. QED
    BY <1>2, <2>1, GetFromPutterKeeps, GetFromQueueKeeps, GetWaitsKeeps
 <1>3. ASSUME NEW item \in PutCall, Qu!TaskDone(item) PROVE QueueInv'
   BY <1>3, TaskDoneKeeps
 <1>4. ASSUME NEW j \in JoinCall, Qu!Join(j) \/ Qu!Hear(j) \/ Qu!CancelJoin(j) PROVE QueueInv'
   BY <1>4, JoinKeeps
 <1>5. ASSUME NEW c \in Qu!Call, Qu!Timeout(c) \/ Qu!Disarm(c) \/ Qu!Cancel(c) PROVE QueueInv'
   BY <1>5, QueueTimeoutKeeps
 <1>6. CASE Qu!Next
   BY <1>1, <1>2, <1>3, <1>4, <1>5, <1>6 DEF Qu!Next
 <1>7. CASE UNCHANGED Qu!vars
  <2>1. /\ UNCHANGED <<kind, maxsize, queueQu, unfinished, finished, word, got, tasks>>
        /\ getters' = getters /\ putters' = putters /\ armedQu' = armedQu /\ callQu' = callQu
    BY <1>7 DEF Qu!vars
  <2>2. /\ getters' \in Seq(GetCall) /\ putters' \in Seq(PutCall)
        /\ callQu' \in [Qu!Call -> Statuses] /\ armedQu' \subseteq Qu!Call
        /\ Stand(getters', GetCall, callQu') /\ Stand(putters', PutCall, callQu')
        /\ Once(putters', callQu')
    BY <2>1, QueueParts
  <2>3. Standing'
    BY <2>2 DEF Standing
  <2>4. /\ \A d \in GetCall : callQu'[d] = "pending" => queueQu = <<>>
        /\ \A d \in PutCall : callQu'[d] = "pending" => Qu!Full
      BY <2>1, QueueParts
  <2>5. \A d \in Qu!Call : callQu[d] = "done" => callQu'[d] = "done"
    BY <2>1
  <2>6. finished' \in EventStates /\ word' \in [JoinCall -> Words] /\ JoinsKept'
    BY <2>1, QueueParts, JoinsLeft
  <2>7. QED
    BY <2>1, <2>2, <2>3, <2>4, <2>5, <2>6, Shifts
 <1>8. QED
   BY <1>6, <1>7

(* A get waits only while the queue is empty, a put only while it is full, *)
(* a join only while an accepted item is not done with or, with a timeout, *)
(* after another join was cancelled; and no item goes to a get that gave   *)
(* up: in every queue, whatever calls time out or are cancelled.           *)
THEOREM QueueWaitsFor == QueueBounds /\ Qu!Spec => []Qu!NobodyWaitsInVain
 <1> SUFFICES ASSUME QueueBounds PROVE Qu!Spec => []Qu!NobodyWaitsInVain
   OBVIOUS
 <1>1. Qu!Init => QueueInv
   BY InitQueue
 <1>2. QueueInv /\ [Qu!Next]_(Qu!vars) => QueueInv'
   BY QueueStep
 <1>3. QueueInv => Qu!NobodyWaitsInVain
   BY DEF QueueInv
 <1>4. QED
   BY <1>1, <1>2, <1>3, PTL DEF Qu!Spec

-----------------------------------------------------------------------------
(* The channel *)

LEMMA RemoveLeft ==
  ASSUME NEW T, NEW q \in Seq(T), NEW w \in Seq(T), NEW i \in 1..Len(q)
  PROVE  Qu!RemoveAt(q \o w, i) = Qu!RemoveAt(q, i) \o w
 <1> DEFINE l == q \o w
 <1>1. Len(q) \in Nat /\ Len(w) \in Nat
   OBVIOUS
 <1>2. /\ l \in Seq(T) /\ Len(l) = Len(q) + Len(w)
       /\ \A j \in 1..Len(q) + Len(w) : l[j] = IF j <= Len(q) THEN q[j] ELSE w[j - Len(q)]
   BY ConcatProperties
 <1> HIDE DEF l
 <1>3. i \in 1..Len(l)
   BY <1>1, <1>2
 <1>4. /\ Qu!RemoveAt(l, i) \in Seq(T) /\ Len(Qu!RemoveAt(l, i)) = Len(l) - 1
       /\ \A j \in 1..Len(l) - 1 : Qu!RemoveAt(l, i)[j] = IF j < i THEN l[j] ELSE l[j + 1]
   BY <1>2, <1>3, TakenOut
 <1> DEFINE r == Qu!RemoveAt(q, i)
            v == r \o w
 <1>5. /\ r \in Seq(T) /\ Len(r) = Len(q) - 1
       /\ \A j \in 1..Len(q) - 1 : r[j] = IF j < i THEN q[j] ELSE q[j + 1]
   BY TakenOut
 <1> HIDE DEF r
 <1>6. /\ v \in Seq(T) /\ Len(v) = Len(r) + Len(w)
       /\ \A j \in 1..Len(r) + Len(w) : v[j] = IF j <= Len(r) THEN r[j] ELSE w[j - Len(r)]
   BY <1>5, ConcatProperties
 <1> HIDE DEF v
 <1>7. Len(v) = Len(l) - 1
   BY <1>1, <1>2, <1>5, <1>6
 <1>8. ASSUME NEW j \in 1..Len(l) - 1 PROVE Qu!RemoveAt(l, i)[j] = v[j]
  <2>1. j \in 1..Len(r) + Len(w) /\ j \in 1..Len(q) + Len(w) /\ j + 1 \in 1..Len(q) + Len(w)
    BY <1>1, <1>2, <1>5
  <2>2. CASE j < i
   <3>1. j <= Len(r) /\ j \in 1..Len(q) - 1 /\ j <= Len(q)
     BY <1>1, <1>5, <2>2
   <3>2. v[j] = q[j] /\ l[j] = q[j]
     BY <1>2, <1>5, <1>6, <2>1, <2>2, <3>1
   <3>3. QED
     BY <1>4, <2>2, <3>2
  <2>3. CASE ~(j < i) /\ j <= Len(q) - 1
   <3>1. j <= Len(r) /\ j \in 1..Len(q) - 1 /\ j + 1 <= Len(q)
     BY <1>1, <1>5, <2>3
   <3>2. v[j] = q[j + 1] /\ l[j + 1] = q[j + 1]
     BY <1>2, <1>5, <1>6, <2>1, <2>3, <3>1
   <3>3. QED
     BY <1>4, <2>3, <3>2
  <2>4. CASE ~(j <= Len(q) - 1)
   <3>1. ~(j <= Len(r)) /\ ~(j + 1 <= Len(q)) /\ ~(j < i) /\ j - Len(r) = (j + 1) - Len(q)
     BY <1>1, <1>5, <2>4
   <3>2. v[j] = w[j - Len(r)] /\ l[j + 1] = w[(j + 1) - Len(q)]
     BY <1>2, <1>6, <2>1, <3>1
   <3>3. QED
     BY <1>4, <3>1, <3>2
  <2>5. QED
    BY <2>2, <2>3, <2>4
 <1>9. Qu!RemoveAt(l, i) = v
   BY <1>4, <1>6, <1>7, <1>8, SeqEqual
 <1>10. QED
   BY <1>9 DEF l, v, r

LEMMA RemoveRight ==
  ASSUME NEW T, NEW q \in Seq(T), NEW w \in Seq(T), NEW i \in 1..Len(w)
  PROVE  Qu!RemoveAt(q \o w, Len(q) + i) = q \o Qu!RemoveAt(w, i)
 <1> DEFINE l == q \o w
            k == Len(q) + i
 <1>1. Len(q) \in Nat /\ Len(w) \in Nat /\ i \in Int /\ 1 <= i /\ i <= Len(w)
   OBVIOUS
 <1>2. /\ l \in Seq(T) /\ Len(l) = Len(q) + Len(w)
       /\ \A j \in 1..Len(q) + Len(w) : l[j] = IF j <= Len(q) THEN q[j] ELSE w[j - Len(q)]
   BY ConcatProperties
 <1> HIDE DEF l
 <1>3. k \in 1..Len(l)
   BY <1>1, <1>2
 <1>4. /\ Qu!RemoveAt(l, k) \in Seq(T) /\ Len(Qu!RemoveAt(l, k)) = Len(l) - 1
       /\ \A j \in 1..Len(l) - 1 : Qu!RemoveAt(l, k)[j] = IF j < k THEN l[j] ELSE l[j + 1]
   BY <1>2, <1>3, TakenOut
 <1> DEFINE r == Qu!RemoveAt(w, i)
            v == q \o r
 <1>5. /\ r \in Seq(T) /\ Len(r) = Len(w) - 1
       /\ \A j \in 1..Len(w) - 1 : r[j] = IF j < i THEN w[j] ELSE w[j + 1]
   BY TakenOut
 <1> HIDE DEF r
 <1>6. /\ v \in Seq(T) /\ Len(v) = Len(q) + Len(r)
       /\ \A j \in 1..Len(q) + Len(r) : v[j] = IF j <= Len(q) THEN q[j] ELSE r[j - Len(q)]
   BY <1>5, ConcatProperties
 <1> HIDE DEF v
 <1>7. Len(v) = Len(l) - 1
   BY <1>1, <1>2, <1>5, <1>6
 <1>8. ASSUME NEW j \in 1..Len(l) - 1 PROVE Qu!RemoveAt(l, k)[j] = v[j]
  <2>1. j \in 1..Len(q) + Len(r) /\ j \in 1..Len(q) + Len(w) /\ j + 1 \in 1..Len(q) + Len(w)
    BY <1>1, <1>2, <1>5
  <2>2. CASE j <= Len(q)
   <3>1. j < k
     BY <1>1, <2>2
   <3>2. v[j] = q[j] /\ l[j] = q[j]
     BY <1>2, <1>6, <2>1, <2>2
   <3>3. QED
     BY <1>4, <3>1, <3>2
  <2>3. CASE ~(j <= Len(q)) /\ j < k
   <3>1. j - Len(q) \in 1..Len(w) - 1 /\ j - Len(q) < i
     BY <1>1, <1>2, <2>3
   <3>2. v[j] = w[j - Len(q)] /\ l[j] = w[j - Len(q)]
     BY <1>2, <1>5, <1>6, <2>1, <2>3, <3>1
   <3>3. QED
     BY <1>4, <2>3, <3>2
  <2>4. CASE ~(j < k)
   <3>1. /\ j - Len(q) \in 1..Len(w) - 1 /\ ~(j - Len(q) < i) /\ ~(j <= Len(q))
         /\ ~(j + 1 <= Len(q)) /\ (j - Len(q)) + 1 = (j + 1) - Len(q)
     BY <1>1, <1>2, <2>4
   <3>2. v[j] = r[j - Len(q)]
     BY <1>6, <2>1, <3>1
   <3>3. r[j - Len(q)] = w[(j + 1) - Len(q)]
     BY <1>5, <3>1
   <3>4. l[j + 1] = w[(j + 1) - Len(q)]
     BY <1>2, <2>1, <3>1
   <3>5. QED
     BY <1>4, <2>4, <3>2, <3>3, <3>4
  <2>5. QED
    BY <2>2, <2>3, <2>4
 <1>9. Qu!RemoveAt(l, k) = v
   BY <1>4, <1>6, <1>7, <1>8, SeqEqual
 <1>10. QED
   BY <1>9 DEF l, v, r, k

LEMMA OneMore ==
  ASSUME NEW T, NEW us \in Seq(T), NEW x \in T
  PROVE  Append(us, x) \in Seq(T) /\ Append(us, x) # <<>> /\ Len(Append(us, x)) = Len(us) + 1
 <1> DEFINE vs == Append(us, x)
 <1>1. vs \in Seq(T)
   OBVIOUS
 <1>2. Len(vs) = Len(us) + 1
   OBVIOUS
 <1>3. Len(us) \in Nat
   OBVIOUS
 <1> HIDE DEF vs
 <1>4. Len(vs) # 0
   BY <1>2, <1>3
 <1>5. vs # <<>>
   BY <1>4
 <1>6. QED
   BY <1>1, <1>2, <1>5 DEF vs

(* The first of w moves to the end of q. *)
LEMMA FirstMoves ==
  ASSUME NEW T, NEW q \in Seq(T), NEW w \in Seq(T), NEW v \in Seq(T), Len(w) >= 1,
         Len(v) = Len(w) - 1, \A j \in 1..Len(v) : v[j] = w[j + 1]
  PROVE  q \o w = Append(q, w[1]) \o v
 <1> DEFINE l == q \o w
            a == Append(q, w[1])
            r == a \o v
 <1>1. Len(q) \in Nat /\ Len(w) \in Nat /\ Len(v) \in Nat /\ w[1] \in T
   OBVIOUS
 <1>2. /\ l \in Seq(T) /\ Len(l) = Len(q) + Len(w)
       /\ \A j \in 1..Len(q) + Len(w) : l[j] = IF j <= Len(q) THEN q[j] ELSE w[j - Len(q)]
   BY ConcatProperties
 <1>3. /\ a \in Seq(T) /\ Len(a) = Len(q) + 1 /\ a[Len(q) + 1] = w[1]
       /\ \A j \in 1..Len(q) : a[j] = q[j]
   BY <1>1
 <1> HIDE DEF l, a
 <1>4. /\ r \in Seq(T) /\ Len(r) = Len(a) + Len(v)
       /\ \A j \in 1..Len(a) + Len(v) : r[j] = IF j <= Len(a) THEN a[j] ELSE v[j - Len(a)]
   BY <1>3, ConcatProperties
 <1> HIDE DEF r
 <1>5. Len(r) = Len(l)
   BY <1>1, <1>2, <1>3, <1>4
 <1>6. ASSUME NEW j \in 1..Len(l) PROVE l[j] = r[j]
  <2>1. j \in 1..Len(q) + Len(w) /\ j \in 1..Len(a) + Len(v)
    BY <1>1, <1>2, <1>3
  <2>2. CASE j <= Len(q)
   <3>1. j <= Len(a) /\ j \in 1..Len(q)
     BY <1>1, <1>3, <2>2
   <3>2. QED
     BY <1>2, <1>3, <1>4, <2>1, <2>2, <3>1
  <2>3. CASE j = Len(q) + 1
   <3>1. j <= Len(a) /\ ~(j <= Len(q)) /\ j - Len(q) = 1
     BY <1>1, <1>3, <2>3
   <3>2. r[j] = w[1]
     BY <1>3, <1>4, <2>1, <2>3, <3>1
   <3>3. l[j] = w[1]
     BY <1>2, <2>1, <3>1
   <3>4. QED
     BY <3>2, <3>3
  <2>4. CASE ~(j <= Len(q) + 1)
   <3>1. /\ ~(j <= Len(a)) /\ ~(j <= Len(q)) /\ j - Len(a) \in 1..Len(v)
         /\ (j - Len(a)) + 1 = j - Len(q)
     BY <1>1, <1>2, <1>3, <2>4
   <3>2. r[j] = v[j - Len(a)] /\ l[j] = w[j - Len(q)]
     BY <1>2, <1>4, <2>1, <3>1
   <3>3. QED
     BY <3>1, <3>2
  <2>5. QED
    BY <2>2, <2>3, <2>4
 <1>7. l = r
   BY <1>2, <1>4, <1>5, <1>6, SeqEqual
 <1>8. QED
   BY <1>7 DEF l, r, a

LEMMA AppendRight ==
  ASSUME NEW T, NEW q \in Seq(T), NEW w \in Seq(T), NEW x \in T
  PROVE  q \o Append(w, x) = Append(q \o w, x)
 <1>1. Len(q \o Append(w, x)) = Len(q) + Len(w) + 1 /\ Len(Append(q \o w, x)) = Len(q) + Len(w) + 1
   OBVIOUS
 <1>2. q \o Append(w, x) \in Seq(T) /\ Append(q \o w, x) \in Seq(T)
   OBVIOUS
 <1>3. \A j \in 1..Len(q) + Len(w) + 1 : (q \o Append(w, x))[j] = Append(q \o w, x)[j]
   OBVIOUS
 <1>4. QED
   BY <1>1, <1>2, <1>3, SeqEqual

LEMMA KeptPuts == \A ws, S : Qu!Kept(ws, S) = Selected(ws, S)
  BY DEF Qu!Kept, Selected, Qu!Cardinality, Cardinality

Undone(cs) == {p \in PutCall : cs[p] = "pending"}

LEMMA WaitingIs ==
  /\ Qu!Waiting = Selected(putters, Undone(callQu))
  /\ Qu!Waiting' = Selected(putters', Undone(callQu'))
  BY KeptPuts DEF Qu!Waiting, Undone, Qu!Pending

(* Who waits does not change as the dead before them are dropped.          *)
LEMMA LiveSelected ==
  ASSUME NEW ws \in Seq(PutCall)
  PROVE  Selected(Qu!Live(ws), Undone(callQu)) = Selected(ws, Undone(callQu))
 <1>1. PICK n \in 0..Len(ws) :
          /\ \A j \in 1..n : ~Qu!Pending(ws[j])
          /\ Qu!Live(ws) = SubSeq(ws, n + 1, Len(ws))
   BY LiveIs
 <1> DEFINE us == Qu!Live(ws)
 <1>2. /\ us \in Seq(PutCall) /\ Len(us) = Len(ws) - n
       /\ \A i \in 1..Len(ws) - n : us[i] = ws[i + n]
   BY <1>1, FromPlace
 <1> HIDE DEF us
 <1>3. \A j \in 1..n : ws[j] \notin Undone(callQu)
   BY <1>1 DEF Undone, Qu!Pending
 <1>4. Selected(us, Undone(callQu)) = Selected(ws, Undone(callQu))
   BY <1>2, <1>3, SelectedDrop
 <1>5. QED
   BY <1>4 DEF us

(* The one who waits first. *)
LEMMA LiveFirst ==
  ASSUME NEW ws \in Seq(PutCall), Qu!Live(ws) # <<>>, Once(ws, callQu),
         NEW S, \A p \in PutCall : p \in S <=> (Qu!Pending(p) /\ p # Head(Qu!Live(ws)))
  PROVE  /\ Len(Selected(ws, Undone(callQu))) >= 1
         /\ Selected(ws, Undone(callQu))[1] = Head(Qu!Live(ws))
         /\ Len(Selected(Tail(Qu!Live(ws)), S)) = Len(Selected(ws, Undone(callQu))) - 1
         /\ \A k \in 1..Len(Selected(Tail(Qu!Live(ws)), S)) :
              Selected(Tail(Qu!Live(ws)), S)[k] = Selected(ws, Undone(callQu))[k + 1]
 <1>1. PICK n \in 0..Len(ws) :
          /\ \A j \in 1..n : ~Qu!Pending(ws[j])
          /\ n < Len(ws) => Qu!Pending(ws[n + 1])
          /\ Qu!Live(ws) = SubSeq(ws, n + 1, Len(ws))
   BY LiveIs
 <1> DEFINE us == Qu!Live(ws)
            vs == Tail(us)
 <1>2. /\ us \in Seq(PutCall) /\ Len(us) = Len(ws) - n
       /\ \A i \in 1..Len(ws) - n : us[i] = ws[i + n]
   BY <1>1, FromPlace
 <1> HIDE DEF us
 <1>3. Len(us) \in Nat /\ Len(us) >= 1 /\ Len(ws) \in Nat /\ n \in Int /\ n >= 0 /\ n < Len(ws)
  <2>1. us # <<>>
    BY DEF us
  <2>2. QED
    BY <1>2, <2>1, EmptySeq
 <1>4. /\ Head(us) = us[1] /\ vs \in Seq(PutCall) /\ Len(vs) = Len(us) - 1
       /\ DOMAIN vs = 1..Len(us) - 1
       /\ \A k \in 1..Len(us) - 1 : vs[k] = us[k + 1]
   BY <1>2, <1>3
 <1> HIDE DEF vs
 <1> DEFINE m == n + 1
 <1>5. m \in 1..Len(ws) /\ us[1] = ws[m] /\ Qu!Pending(ws[m]) /\ ws[m] \in PutCall
   BY <1>1, <1>2, <1>3
 <1>6. Len(vs) = Len(ws) - m /\ \A i \in 1..Len(ws) - m : vs[i] = ws[i + m]
  <2>1. ASSUME NEW i \in 1..Len(ws) - m PROVE vs[i] = ws[i + m]
   <3>1. i \in 1..Len(us) - 1 /\ i + 1 \in 1..Len(ws) - n /\ (i + 1) + n = i + m
     BY <1>2, <1>3
   <3>2. vs[i] = us[i + 1]
     BY <1>4, <3>1
   <3>3. us[i + 1] = ws[(i + 1) + n]
     BY <1>2, <3>1
   <3>4. QED
     BY <3>1, <3>2, <3>3
  <2>2. QED
    BY <1>2, <1>3, <1>4, <2>1
 <1>7. ws[m] \in Undone(callQu) /\ \A j \in 1..m - 1 : ws[j] \notin Undone(callQu)
  <2>1. \A j \in 1..m - 1 : j \in 1..n
    BY <1>3
  <2>2. QED
    BY <1>1, <1>5, <2>1 DEF Undone, Qu!Pending
 <1> HIDE DEF m
 <1>8. /\ Len(Selected(ws, Undone(callQu))) >= 1 /\ Selected(ws, Undone(callQu))[1] = ws[m]
       /\ Len(Selected(vs, Undone(callQu))) = Len(Selected(ws, Undone(callQu))) - 1
       /\ \A k \in 1..Len(Selected(vs, Undone(callQu))) :
            Selected(vs, Undone(callQu))[k] = Selected(ws, Undone(callQu))[k + 1]
  <2>1. /\ ws \in Seq(PutCall) /\ vs \in Seq(PutCall) /\ m \in 1..Len(ws)
        /\ Len(vs) = Len(ws) - m
    BY <1>4, <1>5, <1>6
  <2>2. \A i \in 1..Len(ws) - m : vs[i] = ws[i + m]
    BY <1>6
  <2> DEFINE S0 == Undone(callQu)
  <2>3. ws[m] \in S0 /\ \A j \in 1..m - 1 : ws[j] \notin S0
    BY <1>7
  <2> HIDE DEF S0
  <2>4. /\ Len(Selected(ws, S0)) >= 1 /\ Selected(ws, S0)[1] = ws[m]
        /\ Len(Selected(vs, S0)) = Len(Selected(ws, S0)) - 1
        /\ \A k \in 1..Len(Selected(vs, S0)) : Selected(vs, S0)[k] = Selected(ws, S0)[k + 1]
    BY <2>1, <2>2, <2>3, SelectedTake
  <2>5. QED
    BY <2>4 DEF S0
 <1>9. \A i \in DOMAIN vs : vs[i] \in S <=> vs[i] \in Undone(callQu)
  <2>1. SUFFICES ASSUME NEW i \in DOMAIN vs PROVE vs[i] \in S <=> vs[i] \in Undone(callQu)
    OBVIOUS
  <2>2. i \in 1..Len(ws) - m /\ i \in Int /\ i >= 1
   <3>1. Len(ws) - m = Len(us) - 1
     BY <1>4, <1>6
   <3>2. QED
     BY <1>3, <1>4, <3>1
  <2>3. vs[i] = ws[i + m] /\ vs[i] \in PutCall
    BY <1>4, <1>6, <2>2
  <2>4. i + m \in DOMAIN ws /\ m \in DOMAIN ws /\ i + m # m
    BY <1>3, <1>5, <2>2 DEF m
  <2>5. vs[i] # ws[m]
    BY <2>3, <2>4 DEF Once
  <2>6. Head(us) = ws[m]
    BY <1>4, <1>5
  <2>7. QED
    BY <2>3, <2>5, <2>6 DEF Undone, Qu!Pending, us
 <1>10. Selected(vs, S) = Selected(vs, Undone(callQu))
   BY <1>4, <1>9, SelectedSame
 <1>11. QED
   BY <1>4, <1>5, <1>8, <1>10 DEF us, vs

Line == queueQu \o Qu!Waiting

LEMMA WaitingHas ==
  ASSUME QueueBounds, QueueInv
  PROVE  /\ Qu!Waiting \in Seq(PutCall) /\ Qu!Waiting \in Seq(PutCall) /\ Len(Qu!Waiting) \in Nat
         /\ DOMAIN Qu!Waiting = 1..Len(Qu!Waiting)
         /\ \A k \in DOMAIN Qu!Waiting : callQu[Qu!Waiting[k]] = "pending"
         /\ (\A p \in PutCall : callQu[p] # "pending") => Qu!Waiting = <<>>
 <1>1. putters \in Seq(PutCall)
   BY QueueParts
 <1> DEFINE us == Selected(putters, Undone(callQu))
 <1>2. Qu!Waiting = us
   BY WaitingIs
 <1>3. us \in Seq(PutCall) /\ Len(us) \in Nat
   BY <1>1, SelectedHas
 <1>4. \A k \in DOMAIN us : \E i \in DOMAIN putters : putters[i] \in Undone(callQu) /\ us[k] = putters[i]
   BY <1>1, SelectedMembers
 <1>5. ASSUME \A p \in PutCall : callQu[p] # "pending" PROVE us = <<>>
  <2>1. \A i \in DOMAIN putters : putters[i] \notin Undone(callQu)
    BY <1>1, <1>5 DEF Undone
  <2>2. QED
    BY <1>1, <2>1, SelectedNone
 <1> HIDE DEF us
 <1>6. \A k \in DOMAIN us : callQu[us[k]] = "pending"
   BY <1>4 DEF Undone
 <1>7. QED
   BY <1>2, <1>3, <1>5, <1>6

LEMMA NotSeen ==
  ASSUME QueueBounds, QueueInv, NEW p \in PutCall, callQu[p] = "none"
  PROVE  Qu!Abstract!Unseen(p)
 <1>1. /\ queueQu \in Seq(PutCall) /\ Qu!Waiting \in Seq(PutCall)
       /\ \A i \in DOMAIN queueQu : callQu[queueQu[i]] = "done"
       /\ \A i \in DOMAIN Qu!Waiting : callQu[Qu!Waiting[i]] = "pending"
       /\ \A g \in GetCall : got[g] # NoValue => callQu[got[g]] = "done"
   BY QueueParts, WaitingHas
 <1>2. ASSUME NEW i \in DOMAIN Line PROVE Line[i] # p
  <2>1. Len(queueQu) \in Nat /\ Len(Qu!Waiting) \in Nat
    BY <1>1
  <2>2. /\ Len(Line) = Len(queueQu) + Len(Qu!Waiting) /\ DOMAIN Line = 1..Len(queueQu) + Len(Qu!Waiting)
        /\ \A j \in 1..Len(queueQu) + Len(Qu!Waiting) :
             Line[j] = IF j <= Len(queueQu) THEN queueQu[j] ELSE Qu!Waiting[j - Len(queueQu)]
    BY <1>1, ConcatProperties DEF Line
  <2>3. CASE i <= Len(queueQu)
   <3>1. i \in DOMAIN queueQu /\ Line[i] = queueQu[i]
     BY <1>1, <1>2, <2>1, <2>2, <2>3
   <3>2. QED
     BY <1>1, <3>1
  <2>4. CASE ~(i <= Len(queueQu))
   <3>1. i - Len(queueQu) \in DOMAIN Qu!Waiting /\ Line[i] = Qu!Waiting[i - Len(queueQu)]
     BY <1>1, <1>2, <2>1, <2>2, <2>4
   <3>2. QED
     BY <1>1, <3>1
  <2>5. QED
    BY <2>3, <2>4
 <1>3. \A g \in GetCall : got[g] # p
   BY <1>1, Sorts
 <1>4. QED
   BY <1>2, <1>3 DEF Qu!Abstract!Unseen, Qu!Abstract!Range, Line

LEMMA Stutters ==
  ASSUME UNCHANGED <<kind, maxsize, queueQu, got>>, Qu!Waiting' = Qu!Waiting PROVE Qu!ChannelStep
  BY DEF Qu!ChannelStep, Qu!Abstract!vars

(* The puts that wait stay as they are. *)
LEMMA WaitingStays ==
  ASSUME QueueBounds, QueueInv, \A p \in PutCall : callQu'[p] = "pending" <=> callQu[p] = "pending",
         putters' \in {putters, Qu!Live(putters)}
  PROVE  Qu!Waiting' = Qu!Waiting
 <1>1. Undone(callQu') = Undone(callQu)
   BY DEF Undone
 <1>2. putters \in Seq(PutCall)
   BY QueueParts
 <1>3. Selected(putters', Undone(callQu)) = Selected(putters, Undone(callQu))
   BY <1>2, LiveSelected
 <1>4. QED
   BY <1>1, <1>3, WaitingIs

LEMMA NoneAfter ==
  ASSUME putters' \in Seq(PutCall), \A p \in PutCall : callQu'[p] # "pending"
  PROVE  Qu!Waiting' = <<>>
 <1>1. \A i \in DOMAIN putters' : putters'[i] \notin Undone(callQu')
   BY DEF Undone
 <1>2. QED
   BY <1>1, SelectedNone, WaitingIs

LEMMA PutToGetterSteps ==
  ASSUME QueueBounds, QueueInv, NEW p \in PutCall, Qu!PutToGetter(p) PROVE Qu!ChannelStep
 <1> DEFINE first == Head(Qu!Live(getters))
            q == Append(queueQu, p)
 <1>1. /\ callQu[p] = "none" /\ Qu!Live(getters) # <<>> /\ putters' = Qu!Live(putters)
       /\ queueQu' = Qu!Rest(q) /\ got' = [got EXCEPT ![first] = Qu!Popped(q)] /\ Qu!Resolve({p, first})
       /\ kind' = kind /\ maxsize' = maxsize
   BY DEF Qu!PutToGetter, Qu!Accept
 <1>2. /\ kind \in KindsQu /\ getters \in Seq(GetCall) /\ queueQu \in Seq(PutCall)
       /\ callQu \in [Qu!Call -> Statuses] /\ putters \in Seq(PutCall)
       /\ \A c \in GetCall : got[c] # NoValue => callQu[c] = "done" /\ callQu[got[c]] = "done"
       /\ \A c \in GetCall : callQu[c] = "pending" => queueQu = <<>>
       /\ \A c \in PutCall : callQu[c] = "pending" => Qu!Full
       /\ got \in [GetCall -> PutCall \cup {NoValue}]
   BY QueueParts
 <1>3. first \in GetCall /\ callQu[first] = "pending" /\ Qu!Live(putters) \in Seq(PutCall)
   BY <1>1, <1>2, LiveKeeps DEF Qu!Pending
 <1> HIDE DEF first
 <1>4. queueQu = <<>> /\ got[first] = NoValue
   BY <1>2, <1>3
 <1>5. \A c \in PutCall : callQu[c] # "pending"
  <2>1. Len(queueQu) = 0 /\ maxsize \in Nat
    BY <1>4, QueueParts
  <2>2. ~Qu!Full
    BY <2>1 DEF Qu!Full
  <2>3. QED
    BY <1>2, <2>2
 <1>6. \A c \in PutCall : callQu'[c] # "pending"
   BY <1>1, <1>2, <1>5, Resolved, Sorts
 <1>7. Qu!Waiting = <<>> /\ Qu!Waiting' = <<>>
   BY <1>1, <1>3, <1>5, <1>6, WaitingHas, NoneAfter
 <1>8. q = <<p>> /\ q \in Seq(PutCall) /\ q # <<>> /\ Len(q) = 1
   BY <1>4
 <1> HIDE DEF q
 <1>9. Qu!Place(q) = 1
  <2>1. Qu!Place(q) \in 1..Len(q)
    BY <1>2, <1>8, PlaceIn
  <2>2. QED
    BY <1>8, <2>1
 <1>10. Qu!Popped(q) = p /\ Qu!Rest(q) = <<>>
  <2>1. Qu!Popped(q) = p
    BY <1>8, <1>9 DEF Qu!Popped
  <2>2. 1 \in 1..Len(q)
    BY <1>8
  <2>3. Qu!RemoveAt(q, 1) \in Seq(PutCall) /\ Len(Qu!RemoveAt(q, 1)) = Len(q) - 1
    BY <1>8, <2>2, TakenOut
  <2>4. Qu!RemoveAt(q, 1) = <<>>
    BY <1>8, <2>3, EmptySeq
  <2>5. QED
    BY <1>9, <2>1, <2>4 DEF Qu!Rest
 <1>11. queueQu \o Qu!Waiting = <<>> /\ queueQu' \o Qu!Waiting' = <<>>
   BY <1>1, <1>4, <1>7, <1>10
 <1>12. Qu!Abstract!Unseen(p)
   BY <1>1, NotSeen
 <1>13. Qu!Abstract!Hand(p, first)
   BY <1>1, <1>4, <1>10, <1>11, <1>12 DEF Qu!Abstract!Hand
 <1>14. QED
   BY <1>3, <1>13 DEF Qu!ChannelStep, Qu!Abstract!Next

LEMMA PutInQueueSteps ==
  ASSUME QueueBounds, QueueInv, NEW p \in PutCall, Qu!PutInQueue(p) PROVE Qu!ChannelStep
 <1>1. /\ callQu[p] = "none" /\ ~Qu!Full /\ putters' = Qu!Live(putters)
       /\ queueQu' = Append(queueQu, p) /\ Qu!Resolve({p}) /\ UNCHANGED <<kind, maxsize, got>>
   BY DEF Qu!PutInQueue, Qu!Accept
 <1>2. /\ queueQu \in Seq(PutCall) /\ callQu \in [Qu!Call -> Statuses] /\ putters \in Seq(PutCall)
       /\ \A c \in PutCall : callQu[c] = "pending" => Qu!Full
   BY QueueParts
 <1>3. \A c \in PutCall : callQu[c] # "pending" /\ callQu'[c] # "pending"
   BY <1>1, <1>2, Resolved, Sorts
 <1>4. Qu!Live(putters) \in Seq(PutCall)
   BY <1>2, LiveKeeps
 <1>5. Qu!Waiting = <<>> /\ Qu!Waiting' = <<>>
   BY <1>1, <1>3, <1>4, WaitingHas, NoneAfter
 <1>6. queueQu' \o Qu!Waiting' = Append(queueQu \o Qu!Waiting, p)
   BY <1>1, <1>2, <1>5
 <1>7. Qu!Abstract!Put(p)
   BY <1>1, <1>6, NotSeen DEF Qu!Abstract!Put
 <1>8. QED
   BY <1>7 DEF Qu!ChannelStep, Qu!Abstract!Next

LEMMA PutWaitsSteps ==
  ASSUME QueueBounds, QueueInv, NEW p \in PutCall, Qu!PutWaits(p) PROVE Qu!ChannelStep
 <1> DEFINE us == Qu!Live(putters)
 <1>1. /\ callQu[p] = "none" /\ putters' = Append(us, p)
       /\ callQu' = [callQu EXCEPT ![p] = "pending"] /\ UNCHANGED <<kind, maxsize, queueQu, got>>
   BY DEF Qu!PutWaits
 <1>2. /\ queueQu \in Seq(PutCall) /\ callQu \in [Qu!Call -> Statuses] /\ putters \in Seq(PutCall)
       /\ Once(putters, callQu) /\ Qu!Waiting \in Seq(PutCall) /\ p \in Qu!Call
   BY QueueParts, WaitingHas, Sorts
 <1>3. /\ us \in Seq(PutCall)
       /\ \A k \in DOMAIN us : \E i \in DOMAIN putters : us[k] = putters[i]
   BY <1>2, LiveKeeps
 <1>4. Selected(us, Undone(callQu)) = Selected(putters, Undone(callQu))
   BY <1>2, LiveSelected
 <1> HIDE DEF us
 <1>5. \A k \in DOMAIN us : us[k] \in Undone(callQu') <=> us[k] \in Undone(callQu)
  <2>1. \A k \in DOMAIN us : us[k] # p /\ us[k] \in PutCall
    BY <1>1, <1>2, <1>3 DEF Once
  <2>2. QED
    BY <1>1, <1>2, <2>1, Sorts DEF Undone
 <1>6. Selected(us, Undone(callQu')) = Selected(us, Undone(callQu))
   BY <1>3, <1>5, SelectedSame
 <1>7. p \in Undone(callQu')
   BY <1>1, <1>2 DEF Undone
 <1>8. Selected(Append(us, p), Undone(callQu')) = Append(Selected(us, Undone(callQu')), p)
   BY <1>3, <1>7, SelectedAppend
 <1>9. Qu!Waiting' = Append(Qu!Waiting, p)
   BY <1>1, <1>4, <1>6, <1>8, WaitingIs
 <1>10. queueQu' \o Qu!Waiting' = Append(queueQu \o Qu!Waiting, p)
   BY <1>1, <1>2, <1>9, AppendRight
 <1>11. Qu!Abstract!Put(p)
   BY <1>1, <1>10, NotSeen DEF Qu!Abstract!Put
 <1>12. QED
   BY <1>11 DEF Qu!ChannelStep, Qu!Abstract!Next

LEMMA SameRemoveAt == \A us, i : Qu!Abstract!RemoveAt(us, i) = Qu!RemoveAt(us, i)
  BY DEF Qu!Abstract!RemoveAt, Qu!RemoveAt

LEMMA GetFromQueueSteps ==
  ASSUME QueueBounds, QueueInv, NEW g \in GetCall, Qu!GetFromQueue(g) PROVE Qu!ChannelStep
 <1>1. /\ callQu[g] = "none" /\ Qu!Live(putters) = <<>> /\ queueQu # <<>> /\ putters' = Qu!Live(putters)
       /\ queueQu' = Qu!Rest(queueQu) /\ got' = [got EXCEPT ![g] = Qu!Popped(queueQu)] /\ Qu!Resolve({g})
       /\ kind' = kind /\ maxsize' = maxsize
   BY DEF Qu!GetFromQueue
 <1>2. /\ queueQu \in Seq(PutCall) /\ callQu \in [Qu!Call -> Statuses] /\ putters \in Seq(PutCall)
       /\ Stand(putters, PutCall, callQu) /\ kind \in KindsQu
       /\ \A c \in GetCall : got[c] # NoValue => callQu[c] = "done"
       /\ (maxsize > 0 => Len(queueQu) <= maxsize) /\ maxsize \in Nat /\ Len(queueQu) \in Nat
       /\ got \in [GetCall -> PutCall \cup {NoValue}]
   BY QueueParts
 <1>3. \A c \in PutCall : callQu[c] # "pending" /\ callQu'[c] # "pending"
  <2>1. \A c \in PutCall : ~Qu!Pending(c)
    BY <1>1, <1>2, NoneWaits
  <2>2. QED
    BY <1>1, <1>2, <2>1, Resolved, Sorts DEF Qu!Pending
 <1>4. Qu!Live(putters) \in Seq(PutCall)
   BY <1>2, LiveKeeps
 <1>5. Qu!Waiting = <<>> /\ Qu!Waiting' = <<>>
   BY <1>1, <1>3, <1>4, WaitingHas, NoneAfter
 <1> DEFINE i == Qu!Place(queueQu)
 <1>6. i \in 1..Len(queueQu) /\ (kind = "fifo" => i = 1)
   BY <1>1, <1>2, PlaceIn
 <1>7. queueQu' = Qu!RemoveAt(queueQu, i) /\ Qu!Popped(queueQu) = queueQu[i]
   BY <1>1 DEF Qu!Rest, Qu!Popped
 <1> HIDE DEF i
 <1>8. Qu!RemoveAt(queueQu, i) \in Seq(PutCall)
   BY <1>2, <1>6, TakenOut
 <1>9. queueQu \o Qu!Waiting = queueQu /\ queueQu' \o Qu!Waiting' = Qu!RemoveAt(queueQu, i)
   BY <1>2, <1>5, <1>7, <1>8
 <1>10. got[g] = NoValue
   BY <1>1, <1>2
 <1>11. i \in DOMAIN queueQu /\ (maxsize > 0 => i <= maxsize + 1)
   BY <1>2, <1>6
 <1>12. got' = [got EXCEPT ![g] = queueQu[i]]
   BY <1>1, <1>7
 <1>13. Qu!Abstract!Take(g)
   BY <1>1, <1>6, <1>9, <1>10, <1>11, <1>12, SameRemoveAt DEF Qu!Abstract!Take
 <1>14. QED
   BY <1>13 DEF Qu!ChannelStep, Qu!Abstract!Next

LEMMA GetFromPutterSteps ==
  ASSUME QueueBounds, QueueInv, NEW g \in GetCall, Qu!GetFromPutter(g) PROVE Qu!ChannelStep
 <1> DEFINE first == Head(Qu!Live(putters))
            q == Append(queueQu, first)
            i == Qu!Place(q)
 <1>1. /\ callQu[g] = "none" /\ Qu!Live(putters) # <<>> /\ putters' = Tail(Qu!Live(putters))
       /\ queueQu' = Qu!Rest(q) /\ got' = [got EXCEPT ![g] = Qu!Popped(q)] /\ Qu!Resolve({g, first})
       /\ kind' = kind /\ maxsize' = maxsize
   BY DEF Qu!GetFromPutter, Qu!Accept
 <1>2. /\ queueQu \in Seq(PutCall) /\ callQu \in [Qu!Call -> Statuses] /\ putters \in Seq(PutCall)
       /\ Once(putters, callQu) /\ kind \in KindsQu
       /\ \A c \in GetCall : got[c] # NoValue => callQu[c] = "done"
       /\ (maxsize > 0 => Len(queueQu) <= maxsize) /\ maxsize \in Nat /\ Len(queueQu) \in Nat
       /\ got \in [GetCall -> PutCall \cup {NoValue}]
   BY QueueParts
 <1>3. /\ first \in PutCall /\ callQu[first] = "pending" /\ Tail(Qu!Live(putters)) \in Seq(PutCall)
   BY <1>1, <1>2, LiveKeeps DEF Qu!Pending
 <1> HIDE DEF first
 <1>4. g \in Qu!Call /\ first \in Qu!Call /\ g # first
   BY <1>3, Sorts
 <1>5. \A c \in PutCall : c \in Undone(callQu') <=> (Qu!Pending(c) /\ c # first)
  <2>1. \A c \in Qu!Call : /\ c \notin {g, first} => callQu'[c] = callQu[c]
                           /\ callQu'[c] \in {"none", "pending"} => c \notin {g, first} /\ callQu'[c] = callQu[c]
    BY <1>1, <1>2, Resolved
  <2>2. QED
    BY <2>1, Sorts DEF Undone, Qu!Pending
 <1>6. /\ Len(Qu!Waiting) >= 1 /\ Qu!Waiting[1] = first /\ Len(Qu!Waiting') = Len(Qu!Waiting) - 1
       /\ \A k \in 1..Len(Qu!Waiting') : Qu!Waiting'[k] = Qu!Waiting[k + 1]
  <2> DEFINE S0 == Undone(callQu')
             ws == Selected(putters, Undone(callQu))
             vs == Selected(Tail(Qu!Live(putters)), S0)
  <2>1. \A c \in PutCall : c \in S0 <=> (Qu!Pending(c) /\ c # Head(Qu!Live(putters)))
    BY <1>5 DEF first
  <2> HIDE DEF S0
  <2>2. /\ Len(ws) >= 1 /\ ws[1] = Head(Qu!Live(putters)) /\ Len(vs) = Len(ws) - 1
        /\ \A k \in 1..Len(vs) : vs[k] = ws[k + 1]
    BY <1>1, <1>2, <2>1, LiveFirst
  <2>3. Qu!Waiting = ws /\ Qu!Waiting' = vs
    BY <1>1, WaitingIs DEF S0
  <2> HIDE DEF ws, vs
  <2>4. QED
    BY <2>2, <2>3 DEF first
 <1>7. Qu!Waiting \in Seq(PutCall) /\ Qu!Waiting' \in Seq(PutCall)
  <2>1. Selected(putters', Undone(callQu')) \in Seq(PutCall)
    BY <1>1, <1>3, SelectedHas
  <2>2. QED
    BY <2>1, WaitingHas, WaitingIs
 <1>8. queueQu \o Qu!Waiting = q \o Qu!Waiting'
  <2> DEFINE ws == Qu!Waiting
             vs == Qu!Waiting'
  <2>1. /\ queueQu \in Seq(PutCall) /\ ws \in Seq(PutCall) /\ vs \in Seq(PutCall)
        /\ Len(ws) >= 1 /\ Len(vs) = Len(ws) - 1 /\ \A j \in 1..Len(vs) : vs[j] = ws[j + 1]
    BY <1>2, <1>6, <1>7
  <2>2. ws[1] = first
    BY <1>6
  <2> HIDE DEF ws, vs
  <2>3. queueQu \o ws = Append(queueQu, ws[1]) \o vs
    BY <2>1, FirstMoves, ZenonT(30)
  <2>4. QED
    BY <2>2, <2>3 DEF ws, vs
 <1>9. q \in Seq(PutCall) /\ q # <<>> /\ Len(q) = Len(queueQu) + 1
   BY <1>2, <1>3, OneMore, ZenonT(30)
 <1> HIDE DEF q
 <1>10. i \in 1..Len(q) /\ (kind = "fifo" => i = 1)
   BY <1>2, <1>9, PlaceIn
 <1>11. queueQu' = Qu!RemoveAt(q, i) /\ Qu!Popped(q) = q[i]
   BY <1>1 DEF Qu!Rest, Qu!Popped
 <1> HIDE DEF i
 <1>12. queueQu' \o Qu!Waiting' = Qu!RemoveAt(queueQu \o Qu!Waiting, i)
   BY <1>7, <1>8, <1>9, <1>10, <1>11, RemoveLeft
 <1>13. i \in DOMAIN (queueQu \o Qu!Waiting) /\ (queueQu \o Qu!Waiting)[i] = q[i]
   BY <1>7, <1>8, <1>9, <1>10, ConcatProperties
 <1>14. maxsize > 0 => i <= maxsize + 1
   BY <1>2, <1>9, <1>10
 <1>15. got[g] = NoValue
   BY <1>1, <1>2
 <1>16. got' = [got EXCEPT ![g] = (queueQu \o Qu!Waiting)[i]]
   BY <1>1, <1>11, <1>13
 <1>17. Qu!Abstract!Take(g)
   BY <1>1, <1>10, <1>12, <1>13, <1>14, <1>15, <1>16, SameRemoveAt DEF Qu!Abstract!Take
 <1>18. QED
   BY <1>17 DEF Qu!ChannelStep, Qu!Abstract!Next

(* A put that gives up takes its item out of the line.                     *)
LEMMA PutGivesUp ==
  ASSUME QueueBounds, QueueInv, NEW p \in PutCall, callQu[p] = "pending",
         \A c \in PutCall : c # p => callQu'[c] = callQu[c], callQu'[p] # "pending",
         putters' = putters, UNCHANGED <<kind, maxsize, queueQu, got>>
  PROVE  Qu!ChannelStep
 <1>1. /\ queueQu \in Seq(PutCall) /\ putters \in Seq(PutCall) /\ Qu!Waiting \in Seq(PutCall)
       /\ Stand(putters, PutCall, callQu) /\ Once(putters, callQu) /\ Qu!Full
       /\ maxsize \in Nat /\ Len(queueQu) \in Nat
   BY QueueParts, WaitingHas
 <1>2. PICK n \in DOMAIN putters : putters[n] = p
   BY <1>1 DEF Stand
 <1>3. n \in 1..Len(putters) /\ putters[n] \in Undone(callQu)
   BY <1>1, <1>2 DEF Undone
 <1>4. \A j \in 1..Len(putters) : putters[j] \in Undone(callQu') <=> (putters[j] \in Undone(callQu) /\ j # n)
  <2>1. \A j \in 1..Len(putters) : putters[j] \in PutCall /\ (putters[j] = p <=> j = n)
    BY <1>1, <1>2, <1>3 DEF Once
  <2>2. QED
    BY <2>1 DEF Undone
 <1>5. PICK k \in 1..Len(Qu!Waiting) : Qu!Waiting' = Qu!RemoveAt(Qu!Waiting, k)
  <2> DEFINE S0 == Undone(callQu)
             S1 == Undone(callQu')
  <2>1. putters[n] \in S0 /\ \A j \in 1..Len(putters) : putters[j] \in S1 <=> (putters[j] \in S0 /\ j # n)
    BY <1>3, <1>4
  <2> HIDE DEF S0, S1
  <2>2. \E k \in 1..Len(Selected(putters, S0)) :
          /\ Selected(putters, S0)[k] = putters[n]
          /\ Selected(putters, S1) = Qu!RemoveAt(Selected(putters, S0), k)
   <3>1. putters \in Seq(PutCall) /\ n \in 1..Len(putters)
     BY <1>1, <1>3
   <3>2. AllBut(putters, S0, n, S1)
     BY <2>1 DEF AllBut
   <3>3. QED
     BY <2>1, <3>1, <3>2, SelectedWithout, SameRemoveAtQu
  <2>3. Qu!Waiting = Selected(putters, S0) /\ Qu!Waiting' = Selected(putters, S1)
    BY WaitingIs DEF S0, S1
  <2>4. QED
    BY <2>2, <2>3
 <1> DEFINE i == Len(queueQu) + k
 <1>6. queueQu' \o Qu!Waiting' = Qu!RemoveAt(queueQu \o Qu!Waiting, i)
   BY <1>1, <1>5, RemoveRight
 <1>7. i \in DOMAIN (queueQu \o Qu!Waiting)
  <2>1. DOMAIN (queueQu \o Qu!Waiting) = 1..Len(queueQu) + Len(Qu!Waiting) /\ Len(Qu!Waiting) \in Nat
    BY <1>1, ConcatProperties
  <2>2. QED
    BY <1>1, <1>5, <2>1
 <1>8. maxsize > 0 /\ i > maxsize
   BY <1>1, <1>5 DEF Qu!Full
 <1> HIDE DEF i
 <1>9. Qu!Abstract!GiveUp
   BY <1>6, <1>7, <1>8, SameRemoveAt DEF Qu!Abstract!GiveUp
 <1>10. QED
   BY <1>9 DEF Qu!ChannelStep, Qu!Abstract!Next

LEMMA QuietSteps ==
  ASSUME QueueBounds, QueueInv,
         \/ \E p \in PutCall : Qu!PutRefused(p)
         \/ \E g \in GetCall : Qu!GetWaits(g) \/ Qu!GetRefused(g)
         \/ \E item \in PutCall : Qu!TaskDone(item)
         \/ \E j \in JoinCall : Qu!Join(j) \/ Qu!Hear(j) \/ Qu!CancelJoin(j)
         \/ \E c \in Qu!Call : Qu!Disarm(c)
  PROVE  Qu!ChannelStep
 <1>1. callQu \in [Qu!Call -> Statuses]
   BY QueueParts
 <1>2. ASSUME NEW c \in Qu!Call, callQu[c] = "none" \/ c \in JoinCall, NEW v, v # "pending" \/ c \notin PutCall,
              callQu' = [callQu EXCEPT ![c] = v]
       PROVE  \A p \in PutCall : callQu'[p] = "pending" <=> callQu[p] = "pending"
   BY <1>1, <1>2, Sorts
 <1>3. ASSUME NEW p \in PutCall, Qu!PutRefused(p) PROVE Qu!ChannelStep
  <2>1. /\ callQu[p] = "none" /\ callQu' = [callQu EXCEPT ![p] = "refused"] /\ p \in Qu!Call
        /\ putters' = Qu!Live(putters) /\ UNCHANGED <<kind, maxsize, queueQu, got>>
    BY <1>3, Sorts DEF Qu!PutRefused
  <2>2. QED
    BY <1>2, <2>1, WaitingStays, Stutters
 <1>4. ASSUME NEW g \in GetCall, Qu!GetWaits(g) \/ Qu!GetRefused(g) PROVE Qu!ChannelStep
  <2>1. /\ callQu[g] = "none" /\ g \in Qu!Call /\ g \notin PutCall
        /\ \/ callQu' = [callQu EXCEPT ![g] = "pending"]
           \/ callQu' = [callQu EXCEPT ![g] = "refused"]
        /\ putters' = Qu!Live(putters) /\ UNCHANGED <<kind, maxsize, queueQu, got>>
    BY <1>4, Sorts DEF Qu!GetWaits, Qu!GetRefused
  <2>2. QED
    BY <1>2, <2>1, WaitingStays, Stutters
 <1>5. ASSUME NEW item \in PutCall, Qu!TaskDone(item) PROVE Qu!ChannelStep
  <2>1. /\ putters' = putters /\ UNCHANGED <<kind, maxsize, queueQu, got>>
        /\ callQu' = callQu \/ Qu!Resolve(Qu!Sharing)
    BY <1>5 DEF Qu!TaskDone
  <2> DEFINE js == Qu!Sharing
  <2>0. js \subseteq JoinCall
    BY DEF Qu!Sharing
  <2>2. ASSUME Qu!Resolve(js) PROVE \A c \in Qu!Call : c \notin js => callQu'[c] = callQu[c]
   <3> HIDE DEF js
   <3>1. QED
     BY <1>1, <2>2, Resolved
  <2> HIDE DEF js
  <2>3. \A p \in PutCall : callQu'[p] = callQu[p]
    BY <2>0, <2>1, <2>2, Sorts DEF js
  <2>4. QED
    BY <2>1, <2>3, WaitingStays, Stutters
 <1>6. ASSUME NEW j \in JoinCall, Qu!Join(j) \/ Qu!Hear(j) PROVE Qu!ChannelStep
  <2>1. /\ j \in Qu!Call /\ j \notin PutCall
        /\ \E v : callQu' = [callQu EXCEPT ![j] = v]
        /\ putters' = putters /\ UNCHANGED <<kind, maxsize, queueQu, got>>
    BY <1>6, Sorts DEF Qu!Join, Qu!Hear
  <2>2. QED
    BY <1>2, <2>1, WaitingStays, Stutters
 <1>9. ASSUME NEW j \in JoinCall, Qu!CancelJoin(j) PROVE Qu!ChannelStep
  <2>1. /\ callQu' = [c \in Qu!Call |-> IF c \in Qu!Sharing THEN "cancelled" ELSE callQu[c]]
        /\ putters' = putters /\ UNCHANGED <<kind, maxsize, queueQu, got>>
    BY <1>9 DEF Qu!CancelJoin
  <2>2. \A p \in PutCall : p \notin Qu!Sharing
    BY Sorts DEF Qu!Sharing
  <2>3. \A p \in PutCall : callQu'[p] = callQu[p]
    BY <2>1, <2>2, Sorts
  <2>4. QED
    BY <2>1, <2>3, WaitingStays, Stutters
 <1>7. ASSUME NEW c \in Qu!Call, Qu!Disarm(c) PROVE Qu!ChannelStep
   BY <1>7, WaitingStays, Stutters DEF Qu!Disarm
 <1>8. QED
   BY <1>3, <1>4, <1>5, <1>6, <1>7, <1>9

LEMMA GivingUpSteps ==
  ASSUME QueueBounds, QueueInv, NEW c \in Qu!Call, Qu!Timeout(c) \/ Qu!Cancel(c)
  PROVE  Qu!ChannelStep
 <1>1. /\ putters' = putters /\ UNCHANGED <<kind, maxsize, queueQu, got>>
       /\ callQu \in [Qu!Call -> Statuses]
       /\ \/ callQu[c] # "pending" /\ callQu'[c] = callQu[c]
          \/ callQu[c] = "pending" /\ callQu'[c] # "pending"
       /\ \A d \in Qu!Call : d # c => callQu'[d] = callQu[d]
  <2>1. callQu \in [Qu!Call -> Statuses]
    BY QueueParts
  <2>2. QED
    BY <2>1 DEF Qu!Timeout, Qu!Cancel, Qu!Pending
 <1>2. CASE c \in PutCall /\ callQu[c] = "pending"
   BY <1>1, <1>2, PutGivesUp, Sorts
 <1>3. CASE ~(c \in PutCall /\ callQu[c] = "pending")
  <2>1. \A p \in PutCall : callQu'[p] = "pending" <=> callQu[p] = "pending"
    BY <1>1, <1>3, Sorts
  <2>2. QED
    BY <1>1, <2>1, WaitingStays, Stutters
 <1>4. QED
   BY <1>2, <1>3

LEMMA ChannelInit == QueueBounds /\ Qu!Init => Qu!Abstract!Init
 <1> SUFFICES ASSUME QueueBounds, Qu!Init PROVE Qu!Abstract!Init
   OBVIOUS
 <1>1. QueueInv /\ \A p \in PutCall : callQu[p] # "pending"
   BY InitQueue, Sorts DEF Qu!Init
 <1>2. Qu!Waiting = <<>>
   BY <1>1, WaitingHas
 <1>3. (kind = "fifo") \in BOOLEAN
   OBVIOUS
 <1>4. QED
   BY <1>2, <1>3 DEF Qu!Init, Qu!Abstract!Init

LEMMA ChannelSteps == QueueBounds /\ QueueInv /\ [Qu!Next]_(Qu!vars) => Qu!ChannelStep
 <1> SUFFICES ASSUME QueueBounds, QueueInv, [Qu!Next]_(Qu!vars) PROVE Qu!ChannelStep
   OBVIOUS
 <1>1. ASSUME NEW p \in PutCall, Qu!PutToGetter(p) \/ Qu!PutInQueue(p) \/ Qu!PutWaits(p) \/ Qu!PutRefused(p)
       PROVE  Qu!ChannelStep
   BY <1>1, PutToGetterSteps, PutInQueueSteps, PutWaitsSteps, QuietSteps
 <1>2. ASSUME NEW g \in GetCall, Qu!GetFromPutter(g) \/ Qu!GetFromQueue(g) \/ Qu!GetWaits(g) \/ Qu!GetRefused(g)
       PROVE  Qu!ChannelStep
   BY <1>2, GetFromPutterSteps, GetFromQueueSteps, QuietSteps
 <1>3. ASSUME NEW c \in Qu!Call, Qu!Timeout(c) \/ Qu!Disarm(c) \/ Qu!Cancel(c) PROVE Qu!ChannelStep
   BY <1>3, GivingUpSteps, QuietSteps
 <1>4. CASE Qu!Next
   BY <1>1, <1>2, <1>3, <1>4, QuietSteps DEF Qu!Next
 <1>5. CASE UNCHANGED Qu!vars
  <2>1. putters' = putters /\ callQu' = callQu /\ UNCHANGED <<kind, maxsize, queueQu, got>>
    BY <1>5 DEF Qu!vars
  <2>2. Qu!Waiting' = Qu!Waiting
    BY <2>1, WaitingStays
  <2>3. QED
    BY <2>1, <2>2, Stutters
 <1>6. QED
   BY <1>4, <1>5

(* A queue is a channel: every item is taken at most once and in order,    *)
(* and is lost only with a put that gave up.                               *)
THEOREM QueueIsChannel == QueueBounds => (Qu!Spec => Qu!ImplementsChannel)
 <1> SUFFICES ASSUME QueueBounds PROVE Qu!Spec => Qu!ImplementsChannel
   OBVIOUS
 <1>1. Qu!Init => QueueInv /\ Qu!Abstract!Init
   BY InitQueue, ChannelInit
 <1>2. QueueInv /\ [Qu!Next]_(Qu!vars) => QueueInv' /\ [Qu!Abstract!Next]_(Qu!Abstract!vars)
   BY QueueStep, ChannelSteps DEF Qu!ChannelStep
 <1>3. QED
   BY <1>1, <1>2, PTL DEF Qu!Spec, Qu!ImplementsChannel, Qu!Abstract!Spec

HIDE DEF kind, maxsize, queueQu, getters, putters, unfinished, finished, callQu,
         armedQu, got, tasks

-----------------------------------------------------------------------------
(* A stream of bytes                                                       *)

Io == INSTANCE IOStreams WITH peer <- v1, s <- v2, ops <- v3

(* Its variables. *)
peerIo == v1
sIo == v2
opsIo == v3

USE DEF peerIo, sIo, opsIo

(* A stream starts in one of the ways it can be made; what is written is   *)
(* not nothing.                                                            *)
StreamBounds ==
  /\ Sizes \subseteq Nat \ {0} /\ Starts \subseteq Io!StreamStarts
  /\ MaxSent \in Nat /\ MaxBuffer \in Nat /\ MaxOps \in Nat

LEMMA SameCardinalityIo == \A S : Io!Cardinality(S) = Cardinality(S)
  BY DEF Io!Cardinality, Cardinality

EntriesIo == {"read", "stream", "write", "tls", "close callback"}
QueuesIo == Seq(EntriesIo \cup {"close"})

ReadsIo ==
  [type : {"none", "bytes", "until", "close"}, n : Nat, partial : BOOLEAN,
   via : {"none", "callback", "future"}, streaming : BOOLEAN]

StreamsIo ==
  [read : ReadsIo,
   max : Nat, recvd : Nat, taken : Nat, total : Nat, done : Nat, writer : BOOLEAN,
   futures : Seq(Nat), onclose : {"none", "set", "told"}, connect : {"none", "future"},
   connecting : BOOLEAN, accepting : BOOLEAN, wants : {"none", "R", "W"},
   handshake : {"none", "tls", "future"}, tls : {"none", "waiting", "answered"},
   listen : SUBSET {"R", "W"}, handler : BOOLEAN, pending : Nat, queue : QueuesIo,
   closed : BOOLEAN, late : BOOLEAN]

(* The callbacks in a queue that pending counts.                           *)
CountedIo(q) == {i \in DOMAIN q : q[i] # "close"}
CountIo(q) == Cardinality(CountedIo(q))
HasIo(q, what) == \E i \in DOMAIN q : q[i] = what

(* What waits for the TLS handshake, hs, is answered once: by its callback *)
(* or by that of the close.                                                *)
TlsOkIo(q, x, hs, oc) ==
  /\ HasIo(q, "close callback") => oc = "told"
  /\ HasIo(q, "tls") => x = "waiting" /\ hs # "tls" /\ oc = "set"
  /\ \A i, j \in DOMAIN q : q[i] = "tls" /\ q[j] = "tls" => i = j
  /\ hs = "tls" => x = "waiting" /\ oc = "set"
  /\ x = "waiting" => oc = "set" \/ HasIo(q, "close callback")

(* The close callback comes after all others.                              *)
LastOkIo(q, late) ==
  late \/ \A i \in DOMAIN q : q[i] = "close callback" =>
            i = Len(q) /\ \A j \in DOMAIN q : j < i => q[j] = "close"

(* More may come into the queue.                                           *)
FreeIo(t) == t.late \/ ~HasIo(t.queue, "close callback")

(* The futures of writes wait in their order for bytes that are to be sent. *)
InTurnIo(fs, done, total) ==
  \A i \in DOMAIN fs : /\ fs[i] > done /\ fs[i] <= total
                       /\ \A j \in DOMAIN fs : i < j => fs[i] < fs[j]

(* What is true of a stream in the middle of a call, with h callbacks that *)
(* are counted and not queued.                                             *)
HalfIo(t, h) ==
  /\ t \in StreamsIo
  /\ t.taken <= t.recvd /\ t.recvd <= peerIo.sent /\ t.done <= t.total
  /\ t.pending = CountIo(t.queue) + h
  /\ t.closed => t.listen = {}
  /\ t.onclose = "told" => t.closed
  /\ ~t.closed => InTurnIo(t.futures, t.done, t.total)
  /\ TlsOkIo(t.queue, t.tls, t.handshake, t.onclose)
  /\ LastOkIo(t.queue, t.late)

(* A closed stream has told everybody once its callbacks have run.         *)
SettledIo(t) ==
  t.closed /\ t.pending = 0 =>
    /\ t.onclose # "set" /\ t.futures = <<>> /\ t.connect = "none"
    /\ t.late \/ (t.read.via = "none" /\ t.handshake = "none")

(* An open stream listens for what it needs.                               *)
IdleHearsIo(t) ==
  ~t.closed /\ t.onclose = "set" /\ t.recvd = t.taken /\ t.pending = 0 => t.listen # {}
ReadEarIo(t) == ~t.closed /\ t.read.via # "none" => "R" \in t.listen
RestEarIo(t) ==
  ~t.closed =>
    /\ t.total > t.done => "W" \in t.listen
    /\ t.connecting => "W" \in t.listen
    /\ t.accepting => t.listen # {}
EarIo(t) ==
  /\ ReadEarIo(t) /\ RestEarIo(t)
  /\ ~t.closed /\ ~t.connecting => IdleHearsIo(t)

(* Futures of t are answered in u, or wait on.                             *)
AnswersIo(t, u) ==
  /\ t.done <= u.done
  /\ \A i \in DOMAIN t.futures :
       t.futures[i] <= u.done \/ \E j \in DOMAIN u.futures : u.futures[j] = t.futures[i]

(* A call makes u of t.                                                    *)
LeadsIo(t, u) ==
  /\ t.closed => u.closed
  /\ t.late => u.late
  /\ u.tls = t.tls
  /\ u.closed \/ /\ AnswersIo(t, u)
                 /\ t.listen \subseteq u.listen
                 /\ u.connecting => t.connecting
                 /\ u.accepting => t.accepting
                 /\ u.read.via # "none" => t.read.via # "none"
                 /\ u.total - u.done <= t.total - t.done

-----------------------------------------------------------------------------
(* Queues of callbacks *)

LEMMA CountIsIo == ASSUME NEW q \in QueuesIo PROVE IsFiniteSet(CountedIo(q)) /\ CountIo(q) \in Nat
 <1>1. IsFiniteSet(DOMAIN q)
   BY FS_Interval, LenProperties DEF QueuesIo
 <1>2. IsFiniteSet(CountedIo(q))
   BY <1>1, FS_Subset DEF CountedIo
 <1>3. QED
   BY <1>2, FS_CardinalityType DEF CountIo

LEMMA CountNoneIo ==
  ASSUME NEW q \in QueuesIo, CountIo(q) = 0
  PROVE  \A i \in DOMAIN q : q[i] = "close"
 <1>1. CountedIo(q) = {}
   BY CountIsIo, FS_EmptySet DEF CountIo
 <1>2. QED
   BY <1>1 DEF CountedIo

LEMMA CountAppendIo ==
  ASSUME NEW q \in QueuesIo, NEW what \in EntriesIo \cup {"close"}
  PROVE  CountIo(Append(q, what)) = CountIo(q) + (IF what = "close" THEN 0 ELSE 1)
 <1> DEFINE r == Append(q, what)
 <1>1. /\ Len(q) \in Nat /\ DOMAIN q = 1..Len(q) /\ DOMAIN r = 1..Len(q) + 1
       /\ \A i \in 1..Len(q) : r[i] = q[i]
       /\ r[Len(q) + 1] = what
   BY LenProperties, AppendProperties DEF QueuesIo
 <1>2. CASE what = "close"
  <2>1. CountedIo(r) = CountedIo(q)
    BY <1>1, <1>2 DEF CountedIo
  <2>2. QED
    BY <2>1, <1>2, CountIsIo DEF CountIo
 <1>3. CASE what # "close"
  <2>1. CountedIo(r) = CountedIo(q) \cup {Len(q) + 1} /\ Len(q) + 1 \notin CountedIo(q)
    BY <1>1, <1>3 DEF CountedIo
  <2>2. QED
    BY <2>1, <1>3, CountIsIo, FS_AddElement DEF CountIo
 <1>4. QED
   BY <1>2, <1>3

LEMMA CountTailIo ==
  ASSUME NEW q \in QueuesIo, q # <<>>
  PROVE  CountIo(Tail(q)) = CountIo(q) - (IF Head(q) = "close" THEN 0 ELSE 1)
 <1> DEFINE r == Tail(q)
            A == CountedIo(r)
            B == CountedIo(q) \ {1}
            f == [j \in A |-> j + 1]
 <1>1. /\ Len(q) \in Nat \ {0} /\ DOMAIN q = 1..Len(q) /\ DOMAIN r = 1..Len(q) - 1
       /\ \A i \in 1..Len(q) - 1 : r[i] = q[i + 1]
       /\ Head(q) = q[1] /\ r \in QueuesIo
   BY LenProperties, HeadTailProperties, EmptySeq DEF QueuesIo
 <1>2. IsFiniteSet(A) /\ IsFiniteSet(CountedIo(q)) /\ CountIo(q) \in Nat
   BY <1>1, CountIsIo
 <1>3. IsFiniteSet(B)
   BY <1>2, FS_Subset
 <1>4. \A j \in A : j + 1 \in B
   BY <1>1 DEF CountedIo
 <1>5. \A k \in B : k - 1 \in A /\ (k - 1) + 1 = k
   BY <1>1 DEF CountedIo
 <1>6. f \in Bijection(A, B)
  <2>1. f \in [A -> B]
    BY <1>4
  <2>2. f \in Surjection(A, B)
    BY <2>1, <1>5 DEF Surjection
  <2>3. f \in Injection(A, B)
    BY <2>1, <1>1 DEF Injection, IsInjective, CountedIo
  <2>4. QED
    BY <2>2, <2>3 DEF Bijection
 <1>7. Cardinality(A) = Cardinality(B)
   BY <1>2, <1>3, <1>6, FS_Bijection DEF ExistsBijection
 <1>8. CASE q[1] = "close"
  <2>1. B = CountedIo(q)
    BY <1>8 DEF CountedIo
  <2>2. Cardinality(A) = Cardinality(CountedIo(q)) /\ Head(q) = "close"
    BY <2>1, <1>1, <1>7, <1>8
  <2>3. QED
    BY <2>2, <1>2 DEF CountIo
 <1>9. CASE q[1] # "close"
  <2>1. 1 \in CountedIo(q)
    BY <1>1, <1>9 DEF CountedIo
  <2>2. Cardinality(B) = Cardinality(CountedIo(q)) - 1
    BY <2>1, <1>2, FS_RemoveElement
  <2>3. QED
    BY <2>2, <1>1, <1>2, <1>7, <1>9 DEF CountIo
 <1>10. QED
   BY <1>8, <1>9

LEMMA AppendIsIo ==
  ASSUME NEW q \in QueuesIo, NEW what \in EntriesIo \cup {"close"}
  PROVE  LET r == Append(q, what) IN
         /\ r \in QueuesIo /\ Len(r) = Len(q) + 1 /\ Len(q) \in Nat
         /\ \A i \in DOMAIN q : i \in DOMAIN r /\ r[i] = q[i] /\ i \in 1..Len(q)
         /\ \A i \in DOMAIN r : i \in DOMAIN q \/ i = Len(q) + 1
         /\ Len(q) + 1 \in DOMAIN r /\ r[Len(q) + 1] = what
         /\ \A w : HasIo(r, w) <=> HasIo(q, w) \/ w = what
 <1> DEFINE r == Append(q, what)
 <1>1. /\ Len(q) \in Nat /\ DOMAIN q = 1..Len(q) /\ DOMAIN r = 1..Len(q) + 1 /\ Len(r) = Len(q) + 1
       /\ \A i \in 1..Len(q) : r[i] = q[i]
       /\ r[Len(q) + 1] = what
   BY LenProperties, AppendProperties DEF QueuesIo
 <1>2. r \in QueuesIo
   BY AppendProperties DEF QueuesIo
 <1> HIDE DEF r
 <1>3. /\ \A i \in DOMAIN q : i \in DOMAIN r /\ r[i] = q[i] /\ i \in 1..Len(q)
       /\ \A i \in DOMAIN r : i \in DOMAIN q \/ i = Len(q) + 1
       /\ Len(q) + 1 \in DOMAIN r
   BY <1>1
 <1>4. \A w : HasIo(r, w) <=> HasIo(q, w) \/ w = what
  <2> TAKE w
  <2>1. ASSUME HasIo(r, w) PROVE HasIo(q, w) \/ w = what
   <3>1. PICK i \in DOMAIN r : r[i] = w
     BY <2>1 DEF HasIo
   <3>2. QED
     BY <3>1, <1>1, <1>3 DEF HasIo
  <2>2. ASSUME HasIo(q, w) PROVE HasIo(r, w)
   <3>1. PICK i \in DOMAIN q : q[i] = w
     BY <2>2 DEF HasIo
   <3>2. QED
     BY <3>1, <1>3 DEF HasIo
  <2>3. ASSUME w = what PROVE HasIo(r, w)
    BY <2>3, <1>1, <1>3 DEF HasIo
  <2>4. QED
    BY <2>1, <2>2, <2>3
 <1>5. QED
   BY <1>1, <1>2, <1>3, <1>4 DEF r

(* A callback comes into the queue.                                        *)
LEMMA AppendOkIo ==
  ASSUME NEW q \in QueuesIo, NEW what \in {"read", "stream", "write", "close"},
         NEW x, NEW hs, NEW oc, TlsOkIo(q, x, hs, oc)
  PROVE  /\ Append(q, what) \in QueuesIo
         /\ TlsOkIo(Append(q, what), x, hs, oc)
         /\ HasIo(Append(q, what), "close callback") <=> HasIo(q, "close callback")
 <1> DEFINE r == Append(q, what)
 <1>1. what \in EntriesIo \cup {"close"} /\ what # "tls" /\ what # "close callback"
   BY DEF EntriesIo
 <1>2. /\ r \in QueuesIo
       /\ \A i \in DOMAIN r : r[i] = "tls" => i \in DOMAIN q /\ q[i] = "tls"
       /\ \A w : HasIo(r, w) <=> HasIo(q, w) \/ w = what
   BY <1>1, AppendIsIo
 <1> HIDE DEF r
 <1>3. \A i, j \in DOMAIN r : r[i] = "tls" /\ r[j] = "tls" => i = j
   BY <1>2 DEF TlsOkIo
 <1>4. (HasIo(r, "tls") <=> HasIo(q, "tls")) /\ (HasIo(r, "close callback") <=> HasIo(q, "close callback"))
   BY <1>1, <1>2
 <1>5. TlsOkIo(r, x, hs, oc)
   BY <1>3, <1>4 DEF TlsOkIo
 <1>6. QED
   BY <1>2, <1>4, <1>5 DEF r

LEMMA LastFreeIo == ASSUME NEW q, NEW late, late \/ ~HasIo(q, "close callback") PROVE LastOkIo(q, late)
  BY DEF LastOkIo, HasIo

(* The answer to the handshake comes into it.                              *)
LEMMA AppendTlsIo ==
  ASSUME NEW q \in QueuesIo, NEW x, NEW oc, TlsOkIo(q, x, "tls", oc)
  PROVE  /\ Append(q, "tls") \in QueuesIo
         /\ TlsOkIo(Append(q, "tls"), x, "none", oc)
         /\ HasIo(Append(q, "tls"), "close callback") <=> HasIo(q, "close callback")
 <1> DEFINE r == Append(q, "tls")
 <1>1. ~HasIo(q, "tls") /\ x = "waiting" /\ oc = "set"
   BY DEF TlsOkIo
 <1>2. \A i \in DOMAIN q : q[i] # "tls"
   BY <1>1 DEF HasIo
 <1>3. "tls" \in EntriesIo \cup {"close"}
   BY DEF EntriesIo
 <1>4. /\ r \in QueuesIo
       /\ \A i \in DOMAIN r : r[i] = "tls" => i = Len(q) + 1
       /\ HasIo(r, "close callback") <=> HasIo(q, "close callback")
   BY <1>2, <1>3, AppendIsIo
 <1> HIDE DEF r
 <1>5. TlsOkIo(r, x, "none", oc)
   BY <1>1, <1>4 DEF TlsOkIo
 <1>6. QED
   BY <1>4, <1>5 DEF r

(* The close callback comes into it, when no callback is in it.            *)
LEMMA AppendCloseIo ==
  ASSUME NEW q \in QueuesIo, CountIo(q) = 0, NEW x, NEW hs, TlsOkIo(q, x, hs, "set"), NEW late
  PROVE  /\ Append(q, "close callback") \in QueuesIo
         /\ TlsOkIo(Append(q, "close callback"), x, "none", "told")
         /\ LastOkIo(Append(q, "close callback"), late)
 <1> DEFINE r == Append(q, "close callback")
 <1>1. \A i \in DOMAIN q : q[i] = "close"
   BY CountNoneIo
 <1>2. "close callback" \in EntriesIo \cup {"close"}
   BY DEF EntriesIo
 <1>3. /\ r \in QueuesIo /\ Len(r) = Len(q) + 1 /\ Len(q) \in Nat
       /\ \A i \in DOMAIN q : r[i] = q[i] /\ i \in 1..Len(q)
       /\ \A i \in DOMAIN r : i \in DOMAIN q \/ i = Len(q) + 1
       /\ \A w : HasIo(r, w) <=> HasIo(q, w) \/ w = "close callback"
       /\ r[Len(q) + 1] = "close callback"
   BY <1>2, AppendIsIo
 <1> HIDE DEF r
 <1>30. Len(r) = Len(q) + 1 /\ Len(q) \in Nat
   BY <1>3
 <1>31. \A i \in DOMAIN r : (i < Len(r) /\ r[i] = "close") \/ i = Len(r)
  <2> TAKE i \in DOMAIN r
  <2>1. CASE i \in DOMAIN q
   <3>1. r[i] = "close" /\ i \in 1..Len(q)
     BY <2>1, <1>1, <1>3
   <3>2. i < Len(r)
     BY <3>1, <1>30
   <3>3. QED
     BY <3>1, <3>2
  <2>2. QED
    BY <2>1, <1>3
 <1>32. HasIo(r, "close callback")
   BY <1>3
 <1>4. ~HasIo(r, "tls")
   BY <1>1, <1>3 DEF HasIo
 <1>5. TlsOkIo(r, x, "none", "told")
   BY <1>32, <1>4 DEF TlsOkIo, HasIo
 <1>6. \A i \in DOMAIN r : r[i] = "close callback" => i = Len(r)
   BY <1>31
 <1>7. \A j \in DOMAIN r : j < Len(r) => r[j] = "close"
  <2> TAKE j \in DOMAIN r
  <2>1. (j < Len(r) /\ r[j] = "close") \/ j = Len(r)
    BY <1>31
  <2>2. QED
    BY <2>1, <1>30
 <1>8. LastOkIo(r, late)
   BY <1>6, <1>7 DEF LastOkIo
 <1>9. QED
   BY <1>3, <1>5, <1>8 DEF r


-----------------------------------------------------------------------------
(* Callbacks and the close *)

(* Reads, and what they put into the queue, leave the rest as it is.       *)
KeepsIo(t, u) ==
  /\ u.max = t.max /\ u.total = t.total /\ u.done = t.done /\ u.writer = t.writer /\ u.futures = t.futures
  /\ u.onclose = t.onclose /\ u.connect = t.connect /\ u.connecting = t.connecting
  /\ u.accepting = t.accepting /\ u.wants = t.wants /\ u.handshake = t.handshake /\ u.tls = t.tls
  /\ u.closed = t.closed /\ u.late = t.late

LEMMA KeepsLeadsIo ==
  ASSUME NEW t \in StreamsIo, NEW u, KeepsIo(t, u), t.listen \subseteq u.listen,
         u.read.via # "none" => t.read.via # "none"
  PROVE  LeadsIo(t, u)
 <1>1. t.done \in Nat /\ t.total \in Nat /\ u.done = t.done /\ u.total = t.total /\ u.futures = t.futures
   BY DEF KeepsIo, StreamsIo
 <1>2. AnswersIo(t, u) /\ u.total - u.done <= t.total - t.done
   BY <1>1 DEF AnswersIo
 <1>3. QED
   BY <1>2 DEF LeadsIo, KeepsIo


LEMMA AnswersOnIo ==
  ASSUME NEW t \in StreamsIo, NEW u \in StreamsIo, NEW v \in StreamsIo, AnswersIo(t, u), AnswersIo(u, v)
  PROVE  AnswersIo(t, v)
 <1>1. /\ t.done \in Nat /\ u.done \in Nat /\ v.done \in Nat
       /\ \A i \in DOMAIN t.futures : t.futures[i] \in Nat
  <2>1. t.futures \in Seq(Nat)
    BY DEF StreamsIo
  <2>2. \A i \in DOMAIN t.futures : t.futures[i] \in Nat
    BY <2>1, LenProperties
  <2>3. QED
    BY <2>2 DEF StreamsIo
 <1>2. t.done <= u.done /\ u.done <= v.done
   BY DEF AnswersIo
 <1>3. \A i \in DOMAIN t.futures :
         t.futures[i] <= v.done \/ \E j \in DOMAIN v.futures : v.futures[j] = t.futures[i]
  <2> TAKE i \in DOMAIN t.futures
  <2>1. CASE t.futures[i] <= u.done
    BY <1>1, <1>2, <2>1
  <2>2. CASE \E j \in DOMAIN u.futures : u.futures[j] = t.futures[i]
   <3>1. PICK j \in DOMAIN u.futures : u.futures[j] = t.futures[i]
     BY <2>2
   <3>2. u.futures[j] <= v.done \/ \E k \in DOMAIN v.futures : v.futures[k] = u.futures[j]
     BY DEF AnswersIo
   <3>3. QED
     BY <3>1, <3>2
  <2>3. QED
    BY <2>1, <2>2 DEF AnswersIo
 <1>4. QED
   BY <1>1, <1>2, <1>3 DEF AnswersIo

LEMMA LeadsOnIo ==
  ASSUME NEW t \in StreamsIo, NEW u \in StreamsIo, NEW v \in StreamsIo, LeadsIo(t, u), LeadsIo(u, v)
  PROVE  LeadsIo(t, v)
 <1>1. CASE v.closed
   BY <1>1 DEF LeadsIo
 <1>2. CASE ~v.closed
  <2>1. ~u.closed
    BY <1>2 DEF LeadsIo
  <2>2. /\ AnswersIo(t, u) /\ AnswersIo(u, v)
        /\ t.listen \subseteq v.listen
        /\ v.connecting => t.connecting
        /\ v.accepting => t.accepting
        /\ v.read.via # "none" => t.read.via # "none"
        /\ u.total - u.done <= t.total - t.done /\ v.total - v.done <= u.total - u.done
    BY <1>2, <2>1 DEF LeadsIo
  <2>3. /\ t.done \in Nat /\ u.done \in Nat /\ v.done \in Nat
        /\ t.total \in Nat /\ u.total \in Nat /\ v.total \in Nat
    BY DEF StreamsIo
  <2>6. AnswersIo(t, v)
    BY <2>2, AnswersOnIo
  <2>7. v.total - v.done <= t.total - t.done
    BY <2>2, <2>3
  <2>8. QED
    BY <2>2, <2>6, <2>7 DEF LeadsIo
 <1>3. QED
   BY <1>1, <1>2

LEMMA LeadsSelfIo == ASSUME NEW t \in StreamsIo PROVE LeadsIo(t, t) /\ KeepsIo(t, t)
 <1>1. KeepsIo(t, t)
   BY DEF KeepsIo
 <1>2. QED
   BY <1>1, KeepsLeadsIo

LEMMA RunCallbackIs ==
  ASSUME NEW t \in StreamsIo, NEW what \in EntriesIo
  PROVE  LET u == Io!RunCallback(t, what) IN
         /\ u \in StreamsIo /\ KeepsIo(t, u) /\ u.listen = t.listen
         /\ u.read = t.read /\ u.recvd = t.recvd /\ u.taken = t.taken
         /\ u.pending = t.pending + 1 /\ u.queue = Append(t.queue, what)
 <1>1. Append(t.queue, what) \in QueuesIo
  <2>1. t.queue \in QueuesIo
    BY DEF StreamsIo
  <2>2. QED
    BY <2>1, AppendIsIo
 <1> DEFINE u == Io!RunCallback(t, what)
 <1>2. u = [t EXCEPT !.pending = t.pending + 1, !.queue = Append(t.queue, what)]
   BY DEF Io!RunCallback
 <1>3. u \in StreamsIo
  <2>1. t.pending + 1 \in Nat
    BY DEF StreamsIo
  <2> DEFINE n == t.pending + 1
             q == Append(t.queue, what)
  <2>2. n \in Nat /\ q \in QueuesIo /\ u = [t EXCEPT !.pending = n, !.queue = q]
    BY <2>1, <1>1, <1>2
  <2> HIDE DEF n, q, u
  <2>3. QED
    BY <2>2 DEF StreamsIo
 <1>4. /\ u.listen = t.listen
       /\ u.read = t.read /\ u.recvd = t.recvd /\ u.taken = t.taken
       /\ u.pending = t.pending + 1 /\ u.queue = Append(t.queue, what)
   BY <1>2 DEF StreamsIo
 <1>5. KeepsIo(t, u)
   BY <1>2 DEF StreamsIo, KeepsIo
 <1>6. QED
   BY <1>3, <1>4, <1>5

LEMMA RunCallbackIo ==
  ASSUME NEW h \in Nat, NEW t, HalfIo(t, h), FreeIo(t), NEW what \in {"read", "stream", "write"}
  PROVE  LET u == Io!RunCallback(t, what) IN
         /\ HalfIo(u, h) /\ FreeIo(u) /\ KeepsIo(t, u) /\ u.listen = t.listen /\ u.pending > 0
         /\ u.read = t.read /\ u.recvd = t.recvd /\ u.taken = t.taken
 <1> DEFINE u == Io!RunCallback(t, what)
 <1>1. t \in StreamsIo /\ what \in EntriesIo
   BY DEF HalfIo, EntriesIo
 <1>2. /\ u \in StreamsIo /\ KeepsIo(t, u) /\ u.listen = t.listen
       /\ u.read = t.read /\ u.recvd = t.recvd /\ u.taken = t.taken
       /\ u.pending = t.pending + 1 /\ u.queue = Append(t.queue, what)
   BY <1>1, RunCallbackIs
 <1> HIDE DEF u
 <1>3. t.queue \in QueuesIo /\ t.pending \in Nat /\ CountIo(t.queue) \in Nat
   BY <1>1, CountIsIo DEF StreamsIo
 <1>4. TlsOkIo(t.queue, t.tls, t.handshake, t.onclose)
   BY DEF HalfIo
 <1>5. /\ TlsOkIo(u.queue, t.tls, t.handshake, t.onclose)
       /\ HasIo(u.queue, "close callback") <=> HasIo(t.queue, "close callback")
  <2>1. what \in {"read", "stream", "write", "close"}
    OBVIOUS
  <2>2. /\ TlsOkIo(Append(t.queue, what), t.tls, t.handshake, t.onclose)
        /\ HasIo(Append(t.queue, what), "close callback") <=> HasIo(t.queue, "close callback")
    BY <2>1, <1>3, <1>4, AppendOkIo
  <2>3. QED
    BY <2>2, <1>2
 <1>6. CountIo(u.queue) = CountIo(t.queue) + 1
   BY <1>1, <1>2, <1>3, CountAppendIo
 <1>7. FreeIo(u)
   BY <1>2, <1>5 DEF FreeIo, KeepsIo
 <1>8. LastOkIo(u.queue, u.late)
   BY <1>7, LastFreeIo DEF FreeIo
 <1>9. HalfIo(u, h)
  <2>1. /\ u.total = t.total /\ u.done = t.done /\ u.futures = t.futures
        /\ u.onclose = t.onclose /\ u.handshake = t.handshake /\ u.tls = t.tls
    BY <1>2 DEF KeepsIo
  <2>2. u.closed <=> t.closed
    BY <1>2 DEF KeepsIo
  <2>3. u.pending = CountIo(u.queue) + h
    BY <1>2, <1>3, <1>6 DEF HalfIo
  <2>4. TlsOkIo(u.queue, u.tls, u.handshake, u.onclose)
    BY <2>1, <1>5
  <2>5. /\ u.taken <= u.recvd /\ u.recvd <= peerIo.sent /\ u.done <= u.total
        /\ u.closed => u.listen = {}
        /\ u.onclose = "told" => u.closed
        /\ ~u.closed => InTurnIo(u.futures, u.done, u.total)
    BY <1>2, <2>1, <2>2 DEF HalfIo
  <2>6. QED
    BY <1>2, <1>8, <2>3, <2>4, <2>5 DEF HalfIo
 <1>10. QED
   BY <1>2, <1>3, <1>7, <1>9 DEF u

(* A closed stream with nothing more to come tells everybody.              *)
LEMMA MaybeRunIo ==
  ASSUME NEW h \in Nat, NEW t, HalfIo(t, h)
  PROVE  LET u == Io!MaybeRunCloseCallback(t) IN
         /\ HalfIo(u, h) /\ SettledIo(u) /\ LeadsIo(t, u) /\ u.closed = t.closed
         /\ ~t.closed \/ t.pending > 0 => u = t
         /\ u.late = t.late
 <1>1. t \in StreamsIo
   BY DEF HalfIo
 <1>2. CASE ~t.closed \/ t.pending > 0
  <2>1. Io!MaybeRunCloseCallback(t) = t
    BY <1>2 DEF Io!MaybeRunCloseCallback
  <2>2. SettledIo(t)
    BY <1>2, <1>1 DEF SettledIo, StreamsIo
  <2>3. QED
    BY <2>1, <2>2, <1>1, LeadsSelfIo
 <1>3. CASE t.closed /\ ~(t.pending > 0)
  <2> DEFINE w == [t EXCEPT !.read.via = "none", !.futures = <<>>, !.connect = "none",
                            !.handshake = "none", !.writer = FALSE, !.done = t.total]
             x == [w EXCEPT !.onclose = "told"]
  <2>1. t.pending = 0 /\ h = 0 /\ t.queue \in QueuesIo /\ CountIo(t.queue) = 0
   <3>1. t.queue \in QueuesIo /\ t.pending \in Nat
     BY <1>1 DEF StreamsIo
   <3>2. CountIo(t.queue) \in Nat
     BY <3>1, CountIsIo
   <3>3. QED
     BY <1>3, <3>1, <3>2 DEF HalfIo
  <2>2. /\ w \in StreamsIo /\ w.read.via = "none" /\ w.futures = <<>> /\ w.connect = "none"
        /\ w.handshake = "none" /\ w.done = w.total
        /\ w.recvd = t.recvd /\ w.taken = t.taken /\ w.total = t.total /\ w.onclose = t.onclose
        /\ w.tls = t.tls /\ w.listen = t.listen /\ w.pending = t.pending /\ w.queue = t.queue
        /\ w.closed = t.closed /\ w.late = t.late
   <3> DEFINE r == [t.read EXCEPT !.via = "none"]
              k == t.total
   <3>0. t.read \in ReadsIo /\ t.total \in Nat
     BY <1>1 DEF StreamsIo
   <3>1. r \in ReadsIo /\ r.via = "none" /\ t.total \in Nat /\ <<>> \in Seq(Nat)
    <4>1. r \in ReadsIo /\ r.via = "none"
      BY <3>0 DEF ReadsIo
    <4>2. QED
      BY <4>1, <3>0
   <3>2. w = [t EXCEPT !.read = r, !.futures = <<>>, !.connect = "none",
                       !.handshake = "none", !.writer = FALSE, !.done = k]
     BY <1>1 DEF StreamsIo
   <3> HIDE DEF r, w, k
   <3>3. w \in StreamsIo
     BY <3>1, <3>2, <1>1 DEF StreamsIo, k
   <3>4. /\ w.read = r /\ w.futures = <<>> /\ w.connect = "none" /\ w.handshake = "none" /\ w.done = t.total
         /\ w.recvd = t.recvd /\ w.taken = t.taken /\ w.total = t.total /\ w.onclose = t.onclose
         /\ w.tls = t.tls /\ w.listen = t.listen /\ w.pending = t.pending /\ w.queue = t.queue
         /\ w.closed = t.closed /\ w.late = t.late
     BY <3>1, <3>2, <1>1 DEF StreamsIo, k
   <3>5. QED
     BY <3>1, <3>3, <3>4
  <2> HIDE DEF w
  <2>3. CASE t.onclose # "set"
   <3>1. Io!MaybeRunCloseCallback(t) = w
     BY <1>3, <2>2, <2>3 DEF Io!MaybeRunCloseCallback, w
   <3>2. TlsOkIo(t.queue, t.tls, t.handshake, t.onclose) /\ t.handshake \in {"none", "tls", "future"}
     BY <1>1 DEF HalfIo, StreamsIo
   <3>3. TlsOkIo(w.queue, w.tls, w.handshake, w.onclose)
     BY <3>2, <2>2, <2>3 DEF TlsOkIo
   <3>4. HalfIo(w, h)
     BY <2>2, <3>3, <1>3 DEF HalfIo, StreamsIo
   <3>5. SettledIo(w)
     BY <2>2, <2>3 DEF SettledIo
   <3>6. LeadsIo(t, w)
     BY <2>2, <1>3 DEF LeadsIo
   <3>7. QED
     BY <3>1, <3>4, <3>5, <3>6, <2>2, <1>3
  <2>4. CASE t.onclose = "set"
   <3> DEFINE u == Io!RunCallback(x, "close callback")
   <3>1. /\ x \in StreamsIo /\ x.onclose = "told"
         /\ x.read = w.read /\ x.futures = <<>> /\ x.connect = "none"
         /\ x.handshake = "none" /\ x.done = x.total
         /\ x.recvd = t.recvd /\ x.taken = t.taken /\ x.total = t.total
         /\ x.tls = t.tls /\ x.listen = t.listen /\ x.pending = t.pending /\ x.queue = t.queue
         /\ x.closed = t.closed /\ x.late = t.late
     BY <2>2 DEF StreamsIo
   <3> HIDE DEF x
   <3>2. Io!MaybeRunCloseCallback(t) = u
     BY <1>3, <2>2, <2>4 DEF Io!MaybeRunCloseCallback, w, x
   <3>3. /\ u \in StreamsIo /\ KeepsIo(x, u) /\ u.listen = x.listen
         /\ u.read = x.read /\ u.recvd = x.recvd /\ u.taken = x.taken
         /\ u.pending = x.pending + 1 /\ u.queue = Append(x.queue, "close callback")
     BY <3>1, RunCallbackIs DEF EntriesIo
   <3> HIDE DEF u
   <3>4. TlsOkIo(t.queue, t.tls, t.handshake, "set")
     BY <2>4 DEF HalfIo
   <3>5. u.queue = Append(t.queue, "close callback")
     BY <3>1, <3>3
   <3>51. TlsOkIo(u.queue, t.tls, "none", "told") /\ LastOkIo(u.queue, t.late)
     BY <3>5, <3>4, <2>1, AppendCloseIo
   <3>52. CountIo(u.queue) = 1
    <4>1. "close callback" \in EntriesIo \cup {"close"} /\ "close callback" # "close"
      BY DEF EntriesIo
    <4>2. CountIo(Append(t.queue, "close callback")) = CountIo(t.queue) + 1
     <5> HIDE DEF u, x
     <5>1. QED
       BY <4>1, <2>1, CountAppendIo, Zenon
    <4>3. CountIo(u.queue) = CountIo(t.queue) + 1
      BY <4>2, <3>5, Zenon
    <4>4. QED
      BY <4>3, <2>1
   <3>53. /\ u.total = t.total /\ u.done = t.total /\ u.futures = <<>>
          /\ u.onclose = "told" /\ u.handshake = "none" /\ u.tls = t.tls /\ u.late = t.late
          /\ u.listen = t.listen /\ u.recvd = t.recvd /\ u.taken = t.taken /\ u.pending = 1
    <4>1. /\ u.total = x.total /\ u.done = x.done /\ u.futures = x.futures
          /\ u.onclose = x.onclose /\ u.handshake = x.handshake /\ u.tls = x.tls /\ u.late = x.late
      BY <3>3 DEF KeepsIo
    <4>2. u.listen = t.listen /\ u.recvd = t.recvd /\ u.taken = t.taken /\ u.pending = 0 + 1
      BY <3>1, <3>3, <2>1
    <4>3. QED
      BY <4>1, <4>2, <3>1
   <3>54. u.closed
     BY <3>1, <3>3, <1>3 DEF KeepsIo
   <3>6. HalfIo(u, h)
    <4>1. t.total \in Nat
      BY <1>1 DEF StreamsIo
    <4>2. TlsOkIo(u.queue, u.tls, u.handshake, u.onclose) /\ LastOkIo(u.queue, u.late)
      BY <3>51, <3>53
    <4>3. /\ u.taken <= u.recvd /\ u.recvd <= peerIo.sent /\ u.done <= u.total
          /\ u.listen = {} /\ u.pending = CountIo(u.queue) + h
      BY <3>52, <3>53, <4>1, <2>1, <1>3 DEF HalfIo
    <4>4. QED
      BY <3>3, <3>54, <4>2, <4>3 DEF HalfIo
   <3>7. SettledIo(u)
     BY <3>53 DEF SettledIo
   <3>8. LeadsIo(t, u)
     BY <3>1, <3>3, <1>3 DEF LeadsIo, KeepsIo
   <3>9. QED
     BY <3>2, <3>6, <3>7, <3>8, <3>1, <3>3, <1>3 DEF KeepsIo
  <2>5. QED
    BY <2>3, <2>4
 <1>4. QED
   BY <1>2, <1>3


(* What a step of the stream's own does besides.                           *)
IdleIo(t) == t.onclose = "set" /\ t.recvd = t.taken /\ t.pending = 0
ReadSameIo(t, u) == u.read = t.read /\ u.recvd = t.recvd /\ u.taken = t.taken

LEMMA AddIoStateIo ==
  ASSUME NEW h \in Nat, NEW t, HalfIo(t, h), NEW what \in {"R", "W"}
  PROVE  LET u == Io!AddIoState(t, what) IN
         /\ HalfIo(u, h) /\ KeepsIo(t, u) /\ ReadSameIo(t, u) /\ LeadsIo(t, u)
         /\ u.queue = t.queue /\ u.pending = t.pending /\ t.listen \subseteq u.listen
         /\ ~t.closed => u.listen = t.listen \cup {what}
         /\ t.closed => u = t
 <1>1. t \in StreamsIo
   BY DEF HalfIo
 <1>2. CASE t.closed
  <2>1. Io!AddIoState(t, what) = t
    BY <1>2 DEF Io!AddIoState
  <2>2. QED
    BY <2>1, <1>1, <1>2, LeadsSelfIo DEF ReadSameIo
 <1>3. CASE ~t.closed
  <2> DEFINE l == t.listen \cup {what}
             u == [t EXCEPT !.handler = TRUE, !.listen = l]
  <2>1. l \in SUBSET {"R", "W"}
    BY <1>1 DEF StreamsIo
  <2>2. Io!AddIoState(t, what) = u
    BY <1>3 DEF Io!AddIoState
  <2> HIDE DEF l
  <2>3. u \in StreamsIo
    BY <2>1, <1>1 DEF StreamsIo
  <2>4. /\ u.listen = l /\ u.queue = t.queue /\ u.pending = t.pending
        /\ u.read = t.read /\ u.recvd = t.recvd /\ u.taken = t.taken
    BY <1>1 DEF StreamsIo
  <2>5. /\ u.max = t.max /\ u.total = t.total /\ u.done = t.done /\ u.writer = t.writer /\ u.futures = t.futures
        /\ u.onclose = t.onclose /\ u.connect = t.connect /\ u.connecting = t.connecting
        /\ u.accepting = t.accepting /\ u.wants = t.wants /\ u.handshake = t.handshake /\ u.tls = t.tls
        /\ u.closed = t.closed /\ u.late = t.late
    BY <1>1 DEF StreamsIo
  <2> HIDE DEF u
  <2>6. HalfIo(u, h)
    BY <2>3, <2>4, <2>5, <1>3 DEF HalfIo
  <2>7. t.listen \subseteq u.listen
    BY <2>4 DEF l
  <2>8. LeadsIo(t, u)
   <3>1. KeepsIo(t, u) /\ (u.read.via # "none" => t.read.via # "none")
     BY <2>4, <2>5 DEF KeepsIo
   <3>2. QED
     BY <3>1, <2>7, <1>1, KeepsLeadsIo
  <2>9. QED
    BY <2>2, <2>4, <2>5, <2>6, <2>7, <2>8, <1>3 DEF KeepsIo, ReadSameIo, l
 <1>4. QED
   BY <1>2, <1>3

(* Only what is read, or counted, changes.                                 *)
LEMMA ReadChangeIo ==
  ASSUME NEW h \in Nat, NEW g \in Nat, NEW t, HalfIo(t, h), NEW u \in StreamsIo, KeepsIo(t, u),
         u.listen = t.listen, u.queue = t.queue, u.pending + h = t.pending + g,
         u.taken <= u.recvd, u.recvd <= peerIo.sent
  PROVE  HalfIo(u, g) /\ (FreeIo(t) => FreeIo(u))
 <1>1. t.queue \in QueuesIo /\ t.pending \in Nat /\ u.pending \in Nat
   BY DEF HalfIo, StreamsIo
 <1>2. CountIo(t.queue) \in Nat
   BY <1>1, CountIsIo
 <1>3. u.pending = CountIo(u.queue) + g
  <2>1. t.pending = CountIo(t.queue) + h
    BY DEF HalfIo
  <2>2. u.pending = CountIo(t.queue) + g
    BY <2>1, <1>1, <1>2
  <2>3. QED
    BY <2>2
 <1>4. HalfIo(u, g)
   BY <1>3 DEF HalfIo, KeepsIo
 <1>5. QED
   BY <1>4 DEF FreeIo, KeepsIo

LEMMA MaybeAddIo ==
  ASSUME NEW h \in Nat, NEW t, HalfIo(t, h)
  PROVE  LET u == Io!MaybeAddErrorListener(t) IN
         /\ HalfIo(u, h) /\ SettledIo(u) /\ LeadsIo(t, u) /\ u.late = t.late
         /\ u.closed = t.closed
         /\ ~t.closed => /\ KeepsIo(t, u) /\ ReadSameIo(t, u)
                         /\ u.queue = t.queue /\ u.pending = t.pending /\ t.listen \subseteq u.listen
                         /\ IdleIo(u) => u.listen # {}
         /\ t.pending > 0 => u = t
 <1>1. t \in StreamsIo /\ t.pending \in Nat /\ t.recvd \in Nat /\ t.taken \in Nat
   BY DEF HalfIo, StreamsIo
 <1> DEFINE u == Io!MaybeAddErrorListener(t)
 <1>2. CASE t.pending > 0 \/ t.listen # {}
  <2>1. u = t
    BY <1>2 DEF Io!MaybeAddErrorListener
  <2>2. SettledIo(t)
    BY <1>2 DEF SettledIo, HalfIo
  <2>3. IdleIo(t) => t.listen # {}
    BY <1>1, <1>2 DEF IdleIo
  <2>4. QED
    BY <2>1, <2>2, <2>3, <1>1, LeadsSelfIo DEF ReadSameIo
 <1>3. CASE ~(t.pending > 0 \/ t.listen # {}) /\ t.closed
  <2>1. u = Io!MaybeRunCloseCallback(t)
    BY <1>3 DEF Io!MaybeAddErrorListener
  <2>2. QED
    BY <2>1, <1>3, MaybeRunIo
 <1>4. CASE ~(t.pending > 0 \/ t.listen # {}) /\ ~t.closed /\ Io!Size(t) = 0 /\ t.onclose = "set"
  <2>1. u = Io!AddIoState(t, "R")
    BY <1>4 DEF Io!MaybeAddErrorListener
  <2>2. /\ HalfIo(u, h) /\ KeepsIo(t, u) /\ ReadSameIo(t, u) /\ LeadsIo(t, u)
        /\ u.queue = t.queue /\ u.pending = t.pending /\ t.listen \subseteq u.listen
        /\ u.listen = t.listen \cup {"R"}
   <3> DEFINE w == Io!AddIoState(t, "R")
   <3>1. /\ HalfIo(w, h) /\ KeepsIo(t, w) /\ ReadSameIo(t, w) /\ LeadsIo(t, w)
         /\ w.queue = t.queue /\ w.pending = t.pending /\ t.listen \subseteq w.listen
         /\ ~t.closed => w.listen = t.listen \cup {"R"}
     BY AddIoStateIo
   <3>2. QED
     BY <3>1, <2>1, <1>4
  <2>3. u.closed = t.closed /\ u.late = t.late
    BY <2>2 DEF KeepsIo
  <2>4. SettledIo(u) /\ u.listen # {}
    BY <2>2, <2>3, <1>4 DEF SettledIo
  <2>5. QED
    BY <2>2, <2>3, <2>4, <1>4
 <1>5. CASE ~(t.pending > 0 \/ t.listen # {}) /\ ~t.closed /\ ~(Io!Size(t) = 0 /\ t.onclose = "set")
  <2>1. u = t
    BY <1>5 DEF Io!MaybeAddErrorListener
  <2>2. SettledIo(t)
    BY <1>5 DEF SettledIo
  <2>3. ~IdleIo(t)
    BY <1>1, <1>5 DEF IdleIo, Io!Size
  <2>4. QED
    BY <2>1, <2>2, <2>3, <1>1, LeadsSelfIo DEF ReadSameIo
 <1>6. QED
   BY <1>2, <1>3, <1>4, <1>5


(* The buffer gives k bytes to a callback that streams, or to the read.    *)
LEMMA TakesIs ==
  ASSUME NEW t \in StreamsIo, NEW k \in Nat
  PROVE  /\ LET w == [t EXCEPT !.taken = @ + k] IN
            /\ w \in StreamsIo /\ KeepsIo(t, w) /\ w.listen = t.listen /\ w.queue = t.queue
            /\ w.pending = t.pending /\ w.taken = t.taken + k /\ w.recvd = t.recvd /\ w.read = t.read
         /\ LET w == [t EXCEPT !.taken = @ + k, !.read.via = "none", !.read.streaming = FALSE] IN
            /\ w \in StreamsIo /\ KeepsIo(t, w) /\ w.listen = t.listen /\ w.queue = t.queue
            /\ w.pending = t.pending /\ w.taken = t.taken + k /\ w.recvd = t.recvd
            /\ w.read.via = "none" /\ w.read.type = t.read.type
 <1> DEFINE n == t.taken + k
            r == [t.read EXCEPT !.via = "none", !.streaming = FALSE]
            w1 == [t EXCEPT !.taken = n]
            w2 == [t EXCEPT !.taken = n, !.read = r]
 <1>1. n \in Nat /\ t.read \in ReadsIo
   BY DEF StreamsIo
 <1>2. r \in ReadsIo /\ r.via = "none" /\ r.type = t.read.type
   BY <1>1 DEF ReadsIo
 <1>3. [t EXCEPT !.taken = @ + k] = w1
   OBVIOUS
 <1>4. [t EXCEPT !.taken = @ + k, !.read.via = "none", !.read.streaming = FALSE] = w2
   BY DEF StreamsIo, ReadsIo
 <1> HIDE DEF n, r
 <1>5. w1 \in StreamsIo /\ w2 \in StreamsIo
   BY <1>1, <1>2 DEF StreamsIo
 <1>6. KeepsIo(t, w1) /\ KeepsIo(t, w2)
   BY DEF KeepsIo, StreamsIo
 <1>7. /\ w1.listen = t.listen /\ w1.queue = t.queue /\ w1.read = t.read
       /\ w1.pending = t.pending /\ w1.taken = n /\ w1.recvd = t.recvd
       /\ w2.listen = t.listen /\ w2.queue = t.queue /\ w2.read = r
       /\ w2.pending = t.pending /\ w2.taken = n /\ w2.recvd = t.recvd
   BY DEF StreamsIo
 <1> HIDE DEF w1, w2
 <1>8. n = t.taken + k
   BY DEF n
 <1>9. QED
   BY <1>2, <1>3, <1>4, <1>5, <1>6, <1>7, <1>8

LEMMA RunStreamIo ==
  ASSUME NEW h \in Nat, NEW t, HalfIo(t, h), FreeIo(t), NEW k \in Nat, t.taken + k <= t.recvd
  PROVE  LET u == Io!RunStream(t, k) IN
         /\ HalfIo(u, h) /\ FreeIo(u) /\ KeepsIo(t, u) /\ u.listen = t.listen /\ u.pending > 0
         /\ u.read = t.read /\ u.recvd = t.recvd /\ u.taken = t.taken + k
 <1> DEFINE w == [t EXCEPT !.taken = @ + k]
            u == Io!RunCallback(w, "stream")
 <1>1. t \in StreamsIo /\ t.recvd <= peerIo.sent
   BY DEF HalfIo
 <1>2. /\ w \in StreamsIo /\ KeepsIo(t, w) /\ w.listen = t.listen /\ w.queue = t.queue
       /\ w.pending = t.pending /\ w.taken = t.taken + k /\ w.recvd = t.recvd /\ w.read = t.read
   BY <1>1, TakesIs
 <1> HIDE DEF w
 <1>3. w.pending + h = t.pending + h /\ w.taken <= w.recvd /\ w.recvd <= peerIo.sent
   BY <1>1, <1>2
 <1>4. HalfIo(w, h) /\ FreeIo(w)
   BY <1>2, <1>3, ReadChangeIo
 <1>5. /\ HalfIo(u, h) /\ FreeIo(u) /\ KeepsIo(w, u) /\ u.listen = w.listen /\ u.pending > 0
       /\ u.read = w.read /\ u.recvd = w.recvd /\ u.taken = w.taken
   BY <1>4, RunCallbackIo
 <1>6. Io!RunStream(t, k) = u
   BY DEF Io!RunStream, w
 <1> HIDE DEF u
 <1>7. KeepsIo(t, u)
   BY <1>2, <1>5 DEF KeepsIo
 <1>8. QED
   BY <1>2, <1>5, <1>6, <1>7

(* A read is answered.                                                     *)
LEMMA RunReadIo ==
  ASSUME NEW h \in Nat, NEW t, HalfIo(t, h), FreeIo(t), NEW k \in Nat, t.taken + k <= t.recvd
  PROVE  LET u == Io!RunRead(t, k) IN
         /\ HalfIo(u, h) /\ SettledIo(u) /\ LeadsIo(t, u) /\ u.late = t.late
         /\ u.closed = t.closed
         /\ ~t.closed => /\ KeepsIo(t, u) /\ u.read.via = "none" /\ t.listen \subseteq u.listen
                         /\ u.recvd = t.recvd /\ u.taken = t.taken + k /\ u.pending >= t.pending
                         /\ IdleIo(u) => u.listen # {}
 <1> DEFINE w == [t EXCEPT !.taken = @ + k, !.read.via = "none", !.read.streaming = FALSE]
            u == Io!RunRead(t, k)
 <1>1. t \in StreamsIo /\ t.recvd <= peerIo.sent /\ t.pending \in Nat
   BY DEF HalfIo, StreamsIo
 <1>2. /\ w \in StreamsIo /\ KeepsIo(t, w) /\ w.listen = t.listen /\ w.queue = t.queue
       /\ w.pending = t.pending /\ w.taken = t.taken + k /\ w.recvd = t.recvd
       /\ w.read.via = "none" /\ w.read.type = t.read.type
   BY <1>1, TakesIs
 <1>3. u = IF t.read.via = "callback" THEN Io!RunCallback(w, "read") ELSE Io!MaybeAddErrorListener(w)
   BY DEF Io!RunRead
 <1> HIDE DEF w, u
 <1>4. w.pending + h = t.pending + h /\ w.taken <= w.recvd /\ w.recvd <= peerIo.sent
   BY <1>1, <1>2
 <1>5. HalfIo(w, h) /\ FreeIo(w)
   BY <1>2, <1>4, ReadChangeIo
 <1>6. LeadsIo(t, w) /\ w.closed = t.closed /\ w.late = t.late
   BY <1>1, <1>2, KeepsLeadsIo DEF KeepsIo
 <1>7. CASE t.read.via = "callback"
  <2>1. /\ HalfIo(u, h) /\ FreeIo(u) /\ KeepsIo(w, u) /\ u.listen = w.listen /\ u.pending > 0
        /\ u.read = w.read /\ u.recvd = w.recvd /\ u.taken = w.taken
    BY <1>3, <1>5, <1>7, RunCallbackIo
  <2>2. u \in StreamsIo /\ KeepsIo(t, u) /\ u.closed = t.closed /\ u.late = t.late
    BY <1>2, <2>1 DEF KeepsIo, HalfIo
  <2>3. LeadsIo(t, u)
    BY <1>1, <1>2, <2>1, <2>2, KeepsLeadsIo
  <2>4. SettledIo(u) /\ ~IdleIo(u)
    BY <2>1 DEF SettledIo, IdleIo
  <2>5. u.pending >= t.pending
   <3>1. u = Io!RunCallback(w, "read") /\ "read" \in EntriesIo
     BY <1>3, <1>7 DEF EntriesIo
   <3>2. u.pending = w.pending + 1
     BY <3>1, <1>2, RunCallbackIs
   <3>3. QED
     BY <3>2, <1>1, <1>2
  <2>6. QED
    BY <1>2, <2>1, <2>2, <2>3, <2>4, <2>5 DEF u
 <1>8. CASE t.read.via # "callback"
  <2>1. u = Io!MaybeAddErrorListener(w)
    BY <1>3, <1>8
  <2>2. /\ HalfIo(u, h) /\ SettledIo(u) /\ LeadsIo(w, u) /\ u.late = w.late
        /\ u.closed = w.closed
        /\ ~w.closed => /\ KeepsIo(w, u) /\ ReadSameIo(w, u)
                        /\ u.queue = w.queue /\ u.pending = w.pending /\ w.listen \subseteq u.listen
                        /\ IdleIo(u) => u.listen # {}
    BY <2>1, <1>5, MaybeAddIo
  <2>3. LeadsIo(t, u)
    BY <1>1, <1>2, <1>6, <2>2, LeadsOnIo DEF HalfIo
  <2>4. ASSUME ~t.closed
        PROVE  /\ KeepsIo(t, u) /\ u.read.via = "none" /\ t.listen \subseteq u.listen
               /\ u.recvd = t.recvd /\ u.taken = t.taken + k /\ u.pending >= t.pending
               /\ IdleIo(u) => u.listen # {}
   <3>1. /\ KeepsIo(w, u) /\ u.read = w.read /\ u.recvd = w.recvd /\ u.taken = w.taken
         /\ u.pending = w.pending /\ w.listen \subseteq u.listen /\ (IdleIo(u) => u.listen # {})
     BY <2>2, <2>4, <1>6 DEF ReadSameIo
   <3>2. KeepsIo(t, u)
     BY <1>2, <3>1 DEF KeepsIo
   <3>3. QED
     BY <1>1, <1>2, <3>1, <3>2
  <2>5. QED
    BY <1>6, <2>2, <2>3, <2>4 DEF u
 <1>9. QED
   BY <1>7, <1>8


LEMMA OpenFreeIo == ASSUME NEW h, NEW t, HalfIo(t, h), t.onclose # "told" PROVE FreeIo(t)
  BY DEF HalfIo, TlsOkIo, FreeIo

(* The read becomes another one.                                           *)
LEMMA ReadSetIs ==
  ASSUME NEW t \in StreamsIo, NEW r \in ReadsIo
  PROVE  LET u == [t EXCEPT !.read = r] IN
         /\ u \in StreamsIo /\ KeepsIo(t, u) /\ u.listen = t.listen /\ u.queue = t.queue
         /\ u.pending = t.pending /\ u.taken = t.taken /\ u.recvd = t.recvd /\ u.read = r
 <1> DEFINE u == [t EXCEPT !.read = r]
 <1>1. u \in StreamsIo
   BY DEF StreamsIo
 <1>2. KeepsIo(t, u)
   BY DEF KeepsIo, StreamsIo
 <1>3. /\ u.listen = t.listen /\ u.queue = t.queue
       /\ u.pending = t.pending /\ u.taken = t.taken /\ u.recvd = t.recvd /\ u.read = r
   BY DEF StreamsIo
 <1>4. QED
   BY <1>1, <1>2, <1>3

LEMMA ReadSetIo ==
  ASSUME NEW h \in Nat, NEW t, HalfIo(t, h), NEW r \in ReadsIo
  PROVE  LET u == [t EXCEPT !.read = r] IN
         /\ HalfIo(u, h) /\ KeepsIo(t, u) /\ u.listen = t.listen /\ u.queue = t.queue
         /\ u.pending = t.pending /\ u.taken = t.taken /\ u.recvd = t.recvd /\ u.read = r
         /\ FreeIo(t) => FreeIo(u)
 <1> DEFINE u == [t EXCEPT !.read = r]
 <1>1. t \in StreamsIo /\ t.taken <= t.recvd /\ t.recvd <= peerIo.sent
   BY DEF HalfIo
 <1>2. /\ u \in StreamsIo /\ KeepsIo(t, u) /\ u.listen = t.listen /\ u.queue = t.queue
       /\ u.pending = t.pending /\ u.taken = t.taken /\ u.recvd = t.recvd /\ u.read = r
   BY <1>1, ReadSetIs
 <1> HIDE DEF u
 <1>3. u.pending + h = t.pending + h /\ u.taken <= u.recvd /\ u.recvd <= peerIo.sent
   BY <1>1, <1>2
 <1>4. HalfIo(u, h) /\ (FreeIo(t) => FreeIo(u))
   BY <1>2, <1>3, ReadChangeIo
 <1>5. QED
   BY <1>2, <1>4 DEF u

(* What there is goes to a read up to the end.                             *)
LEMMA ReadRestIo ==
  ASSUME NEW h \in Nat, NEW t, HalfIo(t, h), FreeIo(t)
  PROVE  LET v == IF t.read.streaming /\ Io!Size(t) > 0 THEN Io!RunStream(t, Io!Size(t)) ELSE t
             u == Io!RunRead([v EXCEPT !.read.type = "none"], Io!Size(v))
         IN /\ HalfIo(u, h) /\ SettledIo(u) /\ LeadsIo(t, u) /\ u.late = t.late /\ u.closed = t.closed
            /\ ~t.closed => KeepsIo(t, u)
 <1> DEFINE v == IF t.read.streaming /\ Io!Size(t) > 0 THEN Io!RunStream(t, Io!Size(t)) ELSE t
            r == [v.read EXCEPT !.type = "none"]
            x == [v EXCEPT !.read = r]
            u == Io!RunRead(x, Io!Size(v))
 <1>1. t \in StreamsIo /\ t.recvd \in Nat /\ t.taken \in Nat /\ t.taken <= t.recvd
   BY DEF HalfIo, StreamsIo
 <1>2. Io!Size(t) \in Nat /\ t.taken + Io!Size(t) = t.recvd
   BY <1>1 DEF Io!Size
 <1>3. HalfIo(v, h) /\ FreeIo(v) /\ KeepsIo(t, v) /\ v.listen = t.listen /\ v.read = t.read
  <2>1. CASE t.read.streaming /\ Io!Size(t) > 0
   <3>1. v = Io!RunStream(t, Io!Size(t)) /\ t.taken + Io!Size(t) <= t.recvd
     BY <2>1, <1>1, <1>2
   <3> HIDE DEF v
   <3>2. QED
     BY <3>1, <1>2, RunStreamIo
  <2>2. CASE ~(t.read.streaming /\ Io!Size(t) > 0)
   <3>1. v = t
     BY <2>2
   <3>2. QED
     BY <3>1, <1>1, LeadsSelfIo
  <2>3. QED
    BY <2>1, <2>2
 <1> HIDE DEF v
 <1>4. v \in StreamsIo /\ v.recvd \in Nat /\ v.taken \in Nat /\ v.taken <= v.recvd /\ v.read \in ReadsIo
   BY <1>3 DEF HalfIo, StreamsIo
 <1>5. Io!Size(v) \in Nat /\ v.taken + Io!Size(v) <= v.recvd
   BY <1>4 DEF Io!Size
 <1>6. [v EXCEPT !.read.type = "none"] = x
   BY <1>4 DEF StreamsIo, ReadsIo
 <1>7. r \in ReadsIo /\ r.via = v.read.via
   BY <1>4 DEF ReadsIo
 <1> HIDE DEF r
 <1>8. /\ HalfIo(x, h) /\ KeepsIo(v, x) /\ x.listen = v.listen /\ FreeIo(x)
       /\ x.taken = v.taken /\ x.recvd = v.recvd /\ x.read = r
   BY <1>3, <1>7, ReadSetIo
 <1> HIDE DEF x
 <1>9. /\ HalfIo(u, h) /\ SettledIo(u) /\ LeadsIo(x, u) /\ u.late = x.late /\ u.closed = x.closed
       /\ ~x.closed => KeepsIo(x, u)
   BY <1>5, <1>8, RunReadIo
 <1> HIDE DEF u
 <1>10. KeepsIo(t, x) /\ x.listen = t.listen /\ x \in StreamsIo /\ u \in StreamsIo
   BY <1>3, <1>8, <1>9 DEF KeepsIo, HalfIo
 <1>11. LeadsIo(t, x)
   BY <1>1, <1>3, <1>7, <1>8, <1>10, KeepsLeadsIo
 <1>12. LeadsIo(t, u)
   BY <1>1, <1>9, <1>10, <1>11, LeadsOnIo
 <1>13. /\ u.late = t.late /\ u.closed = t.closed /\ (~t.closed => KeepsIo(t, u))
   BY <1>9, <1>10 DEF KeepsIo
 <1>14. QED
   BY <1>6, <1>9, <1>12, <1>13 DEF u, v

LEMMA CloseStreamIo ==
  ASSUME NEW h \in Nat, NEW t, HalfIo(t, h)
  PROVE  LET u == Io!CloseStream(t) IN
         /\ HalfIo(u, h) /\ SettledIo(u) /\ LeadsIo(t, u) /\ u.closed /\ u.late = t.late
         /\ h > 0 /\ ~t.closed => FreeIo(u)
 <1> DEFINE c == Io!CloseStream(t)
 <1>1. t \in StreamsIo
   BY DEF HalfIo
 <1>2. CASE t.closed
  <2>1. c = Io!MaybeRunCloseCallback(t)
    BY <1>2 DEF Io!CloseStream
  <2>2. QED
    BY <2>1, <1>2, MaybeRunIo
 <1>3. CASE ~t.closed
  <2> DEFINE v == IF t.read.streaming /\ Io!Size(t) > 0 THEN Io!RunStream(t, Io!Size(t)) ELSE t
             x == Io!RunRead([v EXCEPT !.read.type = "none"], Io!Size(v))
             u == IF t.read.type # "close" THEN t ELSE x
             w == [u EXCEPT !.handler = FALSE, !.listen = {}, !.closed = TRUE]
  <2>1. c = Io!MaybeRunCloseCallback(w)
    BY <1>3 DEF Io!CloseStream
  <2>2. FreeIo(t)
    BY <1>3, OpenFreeIo DEF HalfIo
  <2>3. HalfIo(u, h) /\ LeadsIo(t, u) /\ KeepsIo(t, u)
   <3>1. CASE t.read.type # "close"
     BY <3>1, <1>1, LeadsSelfIo
   <3>2. CASE t.read.type = "close"
    <4>1. u = x
      BY <3>2
    <4> HIDE DEF u
    <4>2. HalfIo(x, h) /\ LeadsIo(t, x) /\ (~t.closed => KeepsIo(t, x))
      BY <2>2, ReadRestIo
    <4>3. QED
      BY <4>1, <4>2, <1>3
   <3>3. QED
     BY <3>1, <3>2
  <2> HIDE DEF c, u
  <2>4. u \in StreamsIo
    BY <2>3 DEF HalfIo
  <2>5. w \in StreamsIo
    BY <2>4 DEF StreamsIo
  <2>6. /\ w.read = u.read /\ w.recvd = u.recvd /\ w.taken = u.taken /\ w.total = u.total /\ w.done = u.done
        /\ w.futures = u.futures /\ w.onclose = u.onclose /\ w.handshake = u.handshake /\ w.tls = u.tls
        /\ w.pending = u.pending /\ w.queue = u.queue /\ w.late = u.late
        /\ w.listen = {} /\ w.closed
    BY <2>4 DEF StreamsIo
  <2> HIDE DEF w
  <2>7. HalfIo(w, h)
    BY <2>3, <2>5, <2>6 DEF HalfIo
  <2>8. LeadsIo(u, w)
    BY <2>6 DEF LeadsIo
  <2>9. /\ HalfIo(c, h) /\ SettledIo(c) /\ LeadsIo(w, c) /\ c.closed = w.closed
        /\ ~w.closed \/ w.pending > 0 => c = w
        /\ c.late = w.late
    BY <2>1, <2>7, MaybeRunIo
  <2>10. LeadsIo(t, c)
   <3>1. c \in StreamsIo
     BY <2>9 DEF HalfIo
   <3>2. LeadsIo(u, c)
     BY <3>1, <2>4, <2>5, <2>8, <2>9, LeadsOnIo
   <3>3. QED
     BY <3>1, <3>2, <1>1, <2>3, <2>4, LeadsOnIo
  <2>11. c.closed /\ c.late = t.late
    BY <2>3, <2>6, <2>9 DEF KeepsIo
  <2>12. ASSUME h > 0 PROVE FreeIo(c)
   <3>1. w.queue \in QueuesIo
     BY <2>5 DEF StreamsIo
   <3>2. CountIo(w.queue) \in Nat /\ w.pending = CountIo(w.queue) + h
     BY <3>1, <2>7, CountIsIo DEF HalfIo
   <3>3. w.pending > 0
     BY <3>2, <2>12
   <3>4. w.onclose # "told"
     BY <2>3, <2>6, <1>3 DEF KeepsIo, HalfIo
   <3>5. FreeIo(w)
     BY <3>4, <2>7, OpenFreeIo
   <3>6. QED
     BY <3>3, <3>5, <2>9
  <2>13. QED
    BY <2>9, <2>10, <2>11, <2>12 DEF c
 <1>4. QED
   BY <1>2, <1>3


-----------------------------------------------------------------------------
(* Reading *)

LEMMA FoundIo ==
  ASSUME NEW a \in Nat, NEW b \in Nat, NEW found, found # {}, found \subseteq a + 1..b
  PROVE  LET d == CHOOSE x \in found : \A y \in found : x <= y IN d \in a + 1..b
 <1>1. found \subseteq Nat
   OBVIOUS
 <1>2. \E x \in found : \A y \in found : x <= y
   BY <1>1, LeastNatural
 <1>3. QED
   BY <1>2

LEMMA FindReadPosIo ==
  ASSUME NEW t \in StreamsIo, t.taken <= t.recvd
  PROVE  /\ Io!FindReadPos(t) \in {-2, -1} \cup 0..(t.recvd - t.taken)
         /\ t.read.type \in {"none", "close"} => Io!FindReadPos(t) = -1
 <1> DEFINE found == {d \in Delims : d \in t.taken + 1..t.recvd}
            least == CHOOSE d \in found : \A e \in found : d <= e
            loc == least - t.taken
            pos == Io!FindReadPos(t)
            a == t.read.type = "bytes" /\ (Io!Size(t) >= t.read.n \/ (t.read.partial /\ Io!Size(t) > 0))
            b == t.read.type = "until" /\ Io!Size(t) > 0 /\ found # {}
            c == t.read.type = "until" /\ Io!Size(t) > 0 /\ t.max # 0 /\ Io!Size(t) > t.max
 <1>1. /\ t.recvd \in Nat /\ t.taken \in Nat /\ t.read.n \in Nat
       /\ Io!Size(t) = t.recvd - t.taken
   BY DEF StreamsIo, ReadsIo, Io!Size
 <1>2. pos = CASE a -> Io!Least(t.read.n, Io!Size(t))
               [] b -> IF t.max # 0 /\ loc > t.max THEN -2 ELSE loc
               [] c -> -2
               [] OTHER -> -1
   BY DEF Io!FindReadPos, Io!Unsatisfiable
 <1>3. found # {} => loc \in 0..(t.recvd - t.taken)
  <2> SUFFICES ASSUME found # {} PROVE loc \in 0..(t.recvd - t.taken)
    OBVIOUS
  <2>1. found \subseteq t.taken + 1..t.recvd
    OBVIOUS
  <2> HIDE DEF found
  <2>2. least \in t.taken + 1..t.recvd
    BY <2>1, <1>1, FoundIo
  <2>3. QED
    BY <2>2, <1>1
 <1>4. a => ~b /\ ~c
   OBVIOUS
 <1>5. b => t.read.type # "bytes"
   OBVIOUS
 <1>6. t.read.type \in {"none", "close"} => ~a /\ ~b /\ ~c
   OBVIOUS
 <1>7. a => pos \in 0..(t.recvd - t.taken)
  <2> SUFFICES ASSUME a PROVE pos \in 0..(t.recvd - t.taken)
    OBVIOUS
  <2> HIDE DEF b, c, pos, loc
  <2>1. pos = Io!Least(t.read.n, Io!Size(t))
    BY <1>2, <1>4
  <2>2. QED
    BY <2>1, <1>1 DEF Io!Least
 <1>8. b => pos \in {-2} \cup 0..(t.recvd - t.taken)
  <2> SUFFICES ASSUME b PROVE pos \in {-2} \cup 0..(t.recvd - t.taken)
    OBVIOUS
  <2>1. found # {} /\ ~a
    BY <1>4
  <2> HIDE DEF a, c, pos, loc, found
  <2>2. pos \in {-2, loc}
    BY <1>2, <2>1
  <2>3. QED
    BY <2>1, <2>2, <1>3
 <1>9. ~a /\ ~b => pos \in {-2, -1} /\ (~c => pos = -1)
  <2> HIDE DEF a, b, c, pos, loc, found
  <2>1. QED
    BY <1>2
 <1>10. QED
  <2> HIDE DEF a, b, c, loc, found
  <2>1. QED
    BY <1>6, <1>7, <1>8, <1>9

(* A callback that streams takes what there is of it. *)
LEMMA StreamingIo ==
  ASSUME NEW h \in Nat, NEW t, HalfIo(t, h), FreeIo(t)
  PROVE  LET u == Io!RunStreamingCallback(t) IN
         /\ HalfIo(u, h) /\ FreeIo(u) /\ KeepsIo(t, u) /\ u.listen = t.listen
         /\ u.read.via = t.read.via
         /\ u = t \/ u.pending > 0
 <1> DEFINE u == Io!RunStreamingCallback(t)
 <1>1. /\ t \in StreamsIo /\ t.recvd \in Nat /\ t.taken \in Nat /\ t.taken <= t.recvd /\ t.read \in ReadsIo
   BY DEF HalfIo, StreamsIo
 <1>2. t.read.n \in Nat /\ Io!Size(t) = t.recvd - t.taken
   BY <1>1 DEF ReadsIo, Io!Size
 <1>3. CASE ~t.read.streaming \/ Io!Size(t) = 0
  <2>1. u = t
    BY <1>3 DEF Io!RunStreamingCallback
  <2>2. QED
    BY <2>1, <1>1, LeadsSelfIo
 <1>4. CASE ~(~t.read.streaming \/ Io!Size(t) = 0) /\ t.read.type = "bytes"
  <2> DEFINE k == Io!Least(t.read.n, Io!Size(t))
             m == t.read.n - k
             r == [t.read EXCEPT !.n = m]
             w == [t EXCEPT !.read = r]
  <2>1. k \in Nat /\ t.taken + k <= t.recvd /\ m \in Nat
    BY <1>1, <1>2 DEF Io!Least
  <2>2. u = Io!RunStream([t EXCEPT !.read.n = @ - k], k)
    BY <1>4 DEF Io!RunStreamingCallback
  <2> HIDE DEF k, u
  <2>3. [t EXCEPT !.read.n = @ - k] = w
    BY <1>1 DEF StreamsIo, ReadsIo
  <2> HIDE DEF m
  <2>4. r \in ReadsIo /\ r.via = t.read.via
    BY <1>1, <2>1 DEF ReadsIo
  <2> HIDE DEF r
  <2>5. /\ HalfIo(w, h) /\ KeepsIo(t, w) /\ w.listen = t.listen
        /\ w.taken = t.taken /\ w.recvd = t.recvd /\ w.read = r /\ FreeIo(w)
    BY <2>4, ReadSetIo
  <2> HIDE DEF w
  <2>6. u = Io!RunStream(w, k)
    BY <2>2, <2>3
  <2>7. HalfIo(u, h) /\ FreeIo(u) /\ KeepsIo(w, u) /\ u.listen = w.listen /\ u.read = w.read /\ u.pending > 0
    BY <2>1, <2>5, <2>6, RunStreamIo
  <2>8. KeepsIo(t, u)
    BY <2>5, <2>7 DEF KeepsIo
  <2>9. QED
    BY <2>4, <2>5, <2>7, <2>8 DEF u
 <1>5. CASE ~(~t.read.streaming \/ Io!Size(t) = 0) /\ t.read.type # "bytes"
  <2>1. u = Io!RunStream(t, Io!Size(t))
    BY <1>5 DEF Io!RunStreamingCallback
  <2>2. Io!Size(t) \in Nat /\ t.taken + Io!Size(t) <= t.recvd
    BY <1>1, <1>2
  <2> HIDE DEF u
  <2>3. QED
    BY <2>1, <2>2, RunStreamIo DEF u
 <1>6. QED
   BY <1>3, <1>4, <1>5

(* A read is answered from the buffer. *)
LEMMA ReadFromBufferIo ==
  ASSUME NEW h \in Nat, NEW t, HalfIo(t, h), FreeIo(t), NEW k \in Nat, t.taken + k <= t.recvd
  PROVE  LET u == Io!ReadFromBuffer(t, k) IN
         /\ HalfIo(u, h) /\ SettledIo(u) /\ LeadsIo(t, u) /\ u.late = t.late
         /\ u.closed = t.closed
         /\ ~t.closed => u.read.via = "none" /\ (IdleIo(u) => u.listen # {})
 <1> DEFINE r == [t.read EXCEPT !.type = "none", !.partial = FALSE]
            w == [t EXCEPT !.read = r]
            u == Io!ReadFromBuffer(t, k)
 <1>1. t \in StreamsIo /\ t.read \in ReadsIo
   BY DEF HalfIo, StreamsIo
 <1>2. u = Io!RunRead([t EXCEPT !.read.type = "none", !.read.partial = FALSE], k)
   BY DEF Io!ReadFromBuffer
 <1>3. [t EXCEPT !.read.type = "none", !.read.partial = FALSE] = w
   BY <1>1 DEF StreamsIo, ReadsIo
 <1>4. r \in ReadsIo /\ r.via = t.read.via
   BY <1>1 DEF ReadsIo
 <1> HIDE DEF r, u
 <1>5. /\ HalfIo(w, h) /\ KeepsIo(t, w) /\ w.listen = t.listen
       /\ w.taken = t.taken /\ w.recvd = t.recvd /\ w.read = r /\ FreeIo(w)
   BY <1>4, ReadSetIo
 <1> HIDE DEF w
 <1>6. /\ HalfIo(u, h) /\ SettledIo(u) /\ LeadsIo(w, u) /\ u.late = w.late
       /\ u.closed = w.closed
       /\ ~w.closed => u.read.via = "none" /\ (IdleIo(u) => u.listen # {})
  <2>1. u = Io!RunRead(w, k)
    BY <1>2, <1>3
  <2>2. t.read \in ReadsIo /\ k \in Nat /\ w.taken + k <= w.recvd
    BY <1>1, <1>5
  <2>3. QED
    BY <2>1, <2>2, <1>5, RunReadIo
 <1>7. w \in StreamsIo /\ u \in StreamsIo /\ w.closed = t.closed /\ w.late = t.late
   BY <1>5, <1>6 DEF HalfIo, KeepsIo
 <1>8. LeadsIo(t, w)
   BY <1>1, <1>4, <1>5, KeepsLeadsIo
 <1>9. LeadsIo(t, u)
   BY <1>1, <1>6, <1>7, <1>8, LeadsOnIo
 <1>10. QED
   BY <1>6, <1>7, <1>9 DEF u


(* What one receives is counted meanwhile as a callback. *)
ReceivedIo(t, r) == Io!RunStreamingCallback([t EXCEPT !.recvd = r, !.pending = @ + 1])
UncountIo(u) == [u EXCEPT !.pending = @ - 1]

LEMMA ReceivedHalfIo ==
  ASSUME NEW h \in Nat, NEW t, HalfIo(t, h), FreeIo(t), NEW r \in Nat, t.recvd <= r, r <= peerIo.sent
  PROVE  LET x == [t EXCEPT !.recvd = r, !.pending = @ + 1] IN
         /\ HalfIo(x, h + 1) /\ FreeIo(x) /\ KeepsIo(t, x) /\ x.listen = t.listen /\ x.read = t.read
 <1> DEFINE n == t.pending + 1
            x == [t EXCEPT !.recvd = r, !.pending = n]
 <1>1. /\ t \in StreamsIo /\ t.pending \in Nat /\ t.taken \in Nat /\ t.recvd \in Nat
       /\ t.taken <= t.recvd
   BY DEF HalfIo, StreamsIo
 <1>2. n \in Nat /\ n = t.pending + 1
   BY <1>1
 <1>3. [t EXCEPT !.recvd = r, !.pending = @ + 1] = x
   OBVIOUS
 <1> HIDE DEF n
 <1>4. /\ x \in StreamsIo /\ KeepsIo(t, x) /\ x.listen = t.listen /\ x.queue = t.queue
       /\ x.pending = n /\ x.taken = t.taken /\ x.recvd = r /\ x.read = t.read
  <2>1. x \in StreamsIo
    BY <1>1, <1>2 DEF StreamsIo
  <2>2. KeepsIo(t, x)
    BY <1>1, <1>2 DEF KeepsIo, StreamsIo
  <2>3. /\ x.listen = t.listen /\ x.queue = t.queue
        /\ x.pending = n /\ x.taken = t.taken /\ x.recvd = r /\ x.read = t.read
    BY <1>1, <1>2 DEF StreamsIo
  <2>4. QED
    BY <2>1, <2>2, <2>3
 <1> HIDE DEF x
 <1>5. x.pending + h = t.pending + (h + 1) /\ x.taken <= x.recvd /\ x.recvd <= peerIo.sent /\ h + 1 \in Nat
   BY <1>1, <1>2, <1>4
 <1>6. HalfIo(x, h + 1) /\ FreeIo(x)
   BY <1>4, <1>5, ReadChangeIo
 <1>7. QED
   BY <1>3, <1>4, <1>6

LEMMA UncountHalfIo ==
  ASSUME NEW h \in Nat, NEW u, HalfIo(u, h + 1)
  PROVE  LET x == UncountIo(u) IN
         /\ HalfIo(x, h) /\ KeepsIo(u, x) /\ x.listen = u.listen /\ x.read = u.read
         /\ x.taken = u.taken /\ x.recvd = u.recvd
         /\ FreeIo(u) => FreeIo(x)
 <1> DEFINE n == u.pending - 1
            x == [u EXCEPT !.recvd = u.recvd, !.pending = n]
 <1>1. /\ u \in StreamsIo /\ u.pending \in Nat /\ u.taken \in Nat /\ u.recvd \in Nat /\ u.queue \in QueuesIo
       /\ u.taken <= u.recvd /\ u.recvd <= peerIo.sent /\ u.pending = CountIo(u.queue) + (h + 1)
   BY DEF HalfIo, StreamsIo
 <1>2. n \in Nat /\ n = u.pending - 1
   BY <1>1, CountIsIo
 <1>3. UncountIo(u) = x
   BY <1>1 DEF UncountIo, StreamsIo
 <1> HIDE DEF n
 <1>4. /\ x \in StreamsIo /\ KeepsIo(u, x) /\ x.listen = u.listen /\ x.queue = u.queue
       /\ x.pending = n /\ x.taken = u.taken /\ x.recvd = u.recvd /\ x.read = u.read
  <2>1. x \in StreamsIo
    BY <1>1, <1>2 DEF StreamsIo
  <2>2. KeepsIo(u, x)
    BY <1>1, <1>2 DEF KeepsIo, StreamsIo
  <2>3. /\ x.listen = u.listen /\ x.queue = u.queue
        /\ x.pending = n /\ x.taken = u.taken /\ x.recvd = u.recvd /\ x.read = u.read
    BY <1>1, <1>2 DEF StreamsIo
  <2>4. QED
    BY <2>1, <2>2, <2>3
 <1> HIDE DEF x
 <1>5. x.pending + (h + 1) = u.pending + h /\ x.taken <= x.recvd /\ x.recvd <= peerIo.sent /\ h + 1 \in Nat
   BY <1>1, <1>2, <1>4
 <1>6. HalfIo(x, h) /\ (FreeIo(u) => FreeIo(x))
   BY <1>4, <1>5, ReadChangeIo
 <1>7. QED
   BY <1>3, <1>4, <1>6

(* What a recv loop leaves, of t. *)
LoopedIo(t, h, o) ==
  /\ HalfIo(o.s, h) /\ FreeIo(o.s) /\ LeadsIo(t, o.s) /\ o.s.late = t.late
  /\ o.pos \in {-3, -2, -1} \cup 0..(o.s.recvd - o.s.taken)
  /\ o.pos = -3 => o.s.closed

LEMMA UncountedIo ==
  ASSUME NEW h \in Nat, NEW t \in StreamsIo, NEW u, HalfIo(u, h + 1), FreeIo(u), LeadsIo(t, u), u.late = t.late
  PROVE  /\ LoopedIo(t, h, [s |-> UncountIo(u), pos |-> Io!FindReadPos(u)])
         /\ u.closed => LoopedIo(t, h, [s |-> UncountIo(u), pos |-> -3])
 <1> DEFINE x == UncountIo(u)
 <1>1. /\ HalfIo(x, h) /\ KeepsIo(u, x) /\ x.listen = u.listen /\ x.read = u.read
       /\ x.taken = u.taken /\ x.recvd = u.recvd /\ FreeIo(x)
   BY UncountHalfIo
 <1>2. u \in StreamsIo /\ x \in StreamsIo /\ u.taken <= u.recvd /\ x.closed = u.closed /\ x.late = u.late
   BY <1>1 DEF HalfIo, KeepsIo
 <1>3. LeadsIo(u, x)
   BY <1>1, <1>2, KeepsLeadsIo
 <1>4. LeadsIo(t, x)
   BY <1>2, <1>3, LeadsOnIo
 <1>5. Io!FindReadPos(u) \in {-3, -2, -1} \cup 0..(x.recvd - x.taken) /\ Io!FindReadPos(u) # -3
   BY <1>1, <1>2, FindReadPosIo
 <1> HIDE DEF x
 <1>6. QED
   BY <1>1, <1>2, <1>4, <1>5 DEF LoopedIo, x

LEMMA ReadLoopIo ==
  ASSUME NEW h \in Nat, NEW t, HalfIo(t, h), ~t.closed, peerIo.sent \in Nat,
         NEW o \in Io!ReadToBufferLoop(t)
  PROVE  LoopedIo(t, h, o)
 <1> DEFINE last == Io!Readable(t)
            Counted(r) == [t EXCEPT !.recvd = r, !.pending = @ + 1]
 <1>1. /\ t \in StreamsIo /\ t.recvd \in Nat /\ t.recvd <= peerIo.sent
       /\ FreeIo(t) /\ h + 1 \in Nat
  <2>1. t.onclose # "told"
    BY DEF HalfIo
  <2>2. FreeIo(t)
    BY <2>1, OpenFreeIo
  <2>3. QED
    BY <2>2 DEF HalfIo, StreamsIo
 <1>2. last \in Nat /\ t.recvd <= last /\ last <= peerIo.sent
   BY <1>1 DEF Io!Readable
 <1> HIDE DEF last
 <1>3. ASSUME NEW r \in Nat, t.recvd <= r, r <= last
       PROVE  /\ HalfIo(ReceivedIo(t, r), h + 1) /\ FreeIo(ReceivedIo(t, r)) /\ LeadsIo(t, ReceivedIo(t, r))
              /\ ReceivedIo(t, r).late = t.late /\ ~ReceivedIo(t, r).closed
              /\ HalfIo(Counted(r), h + 1) /\ LeadsIo(t, Counted(r)) /\ Counted(r).late = t.late /\ ~Counted(r).closed
  <2> DEFINE x == Counted(r)
             y == ReceivedIo(t, r)
  <2>0. r <= peerIo.sent
    BY <1>1, <1>2, <1>3
  <2>1. HalfIo(x, h + 1) /\ FreeIo(x) /\ KeepsIo(t, x) /\ x.listen = t.listen /\ x.read = t.read
    BY <1>1, <1>3, <2>0, ReceivedHalfIo
  <2>2. y = Io!RunStreamingCallback(x)
    BY DEF ReceivedIo
  <2> HIDE DEF x, y
  <2>3. HalfIo(y, h + 1) /\ FreeIo(y) /\ KeepsIo(x, y) /\ y.listen = x.listen /\ y.read.via = x.read.via
    BY <1>1, <2>1, <2>2, StreamingIo
  <2>4. KeepsIo(t, y) /\ x.closed = t.closed /\ x.late = t.late /\ y.closed = t.closed /\ y.late = t.late
    BY <2>1, <2>3 DEF KeepsIo
  <2>5. LeadsIo(t, x) /\ LeadsIo(t, y)
    BY <1>1, <2>1, <2>3, <2>4, KeepsLeadsIo
  <2>6. QED
    BY <2>1, <2>3, <2>4, <2>5 DEF x, y
 <1>4. ASSUME NEW r \in Nat, t.recvd <= r, r <= last
       PROVE  /\ LoopedIo(t, h, [s |-> UncountIo(ReceivedIo(t, r)), pos |-> Io!FindReadPos(ReceivedIo(t, r))])
              /\ LET c == Io!CloseStream(ReceivedIo(t, r)) IN
                 /\ LoopedIo(t, h, [s |-> UncountIo(c), pos |-> Io!FindReadPos(c)])
                 /\ LoopedIo(t, h, [s |-> UncountIo(c), pos |-> -3])
              /\ LoopedIo(t, h, [s |-> UncountIo(Io!CloseStream(Counted(r))), pos |-> -3])
  <2> DEFINE x == Counted(r)
             y == ReceivedIo(t, r)
             c == Io!CloseStream(y)
             d == Io!CloseStream(x)
  <2>1. /\ HalfIo(y, h + 1) /\ FreeIo(y) /\ LeadsIo(t, y) /\ y.late = t.late /\ ~y.closed
        /\ HalfIo(x, h + 1) /\ LeadsIo(t, x) /\ x.late = t.late /\ ~x.closed
    BY <1>3, <1>4
  <2> HIDE DEF x, y
  <2>2. h + 1 > 0
    OBVIOUS
  <2>3. HalfIo(c, h + 1) /\ LeadsIo(y, c) /\ c.closed /\ c.late = y.late /\ FreeIo(c)
    BY <1>1, <2>1, <2>2, CloseStreamIo
  <2>4. HalfIo(d, h + 1) /\ LeadsIo(x, d) /\ d.closed /\ d.late = x.late /\ FreeIo(d)
    BY <1>1, <2>1, <2>2, CloseStreamIo
  <2> HIDE DEF c, d
  <2>5. x \in StreamsIo /\ y \in StreamsIo /\ c \in StreamsIo /\ d \in StreamsIo
    BY <2>1, <2>3, <2>4 DEF HalfIo
  <2>6. LeadsIo(t, c) /\ LeadsIo(t, d)
    BY <1>1, <2>1, <2>3, <2>4, <2>5, LeadsOnIo
  <2>7. LoopedIo(t, h, [s |-> UncountIo(y), pos |-> Io!FindReadPos(y)])
    BY <1>1, <2>1, UncountedIo
  <2>8. /\ LoopedIo(t, h, [s |-> UncountIo(c), pos |-> Io!FindReadPos(c)])
        /\ LoopedIo(t, h, [s |-> UncountIo(c), pos |-> -3])
    BY <1>1, <2>1, <2>3, <2>6, UncountedIo
  <2>9. LoopedIo(t, h, [s |-> UncountIo(d), pos |-> -3])
    BY <1>1, <2>1, <2>4, <2>6, UncountedIo
  <2>10. QED
    BY <2>7, <2>8, <2>9 DEF c, d, x, y
 <1>5. \/ \E r \in t.recvd..last : o = [s |-> UncountIo(ReceivedIo(t, r)), pos |-> Io!FindReadPos(ReceivedIo(t, r))]
       \/ \E r \in t.recvd..last : o = [s |-> UncountIo(Io!CloseStream(Counted(r))), pos |-> -3]
       \/ o = [s |-> UncountIo(Io!CloseStream(ReceivedIo(t, last))),
               pos |-> Io!FindReadPos(Io!CloseStream(ReceivedIo(t, last)))]
       \/ o = [s |-> UncountIo(Io!CloseStream(ReceivedIo(t, last))), pos |-> -3]
  <2> DEFINE Received(r) == Io!RunStreamingCallback([t EXCEPT !.recvd = r, !.pending = @ + 1])
             Uncount(u) == [u EXCEPT !.pending = @ - 1]
             Found(u) == [s |-> Uncount(u), pos |-> Io!FindReadPos(u)]
             full == {r \in t.recvd + 1..last : r - t.taken > MaxBuffer}
             A == {Found(Received(r)) :
                    r \in {q \in (t.recvd + 1..last) \ full :
                            Io!Enough(Received(q)) \/ Io!FindReadPos(Received(q)) # -1}}
             B == {[s |-> Uncount(Io!CloseStream([t EXCEPT !.recvd = r, !.pending = @ + 1])), pos |-> -3]
                    : r \in full}
             C == IF full # {} THEN {}
                  ELSE IF v1.end = "open" \/ t.accepting THEN {Found(Received(last))}
                  ELSE IF last > t.recvd /\ Io!Enough(Received(last)) THEN {}
                  ELSE {Found(Io!CloseStream(Received(last)))}
                       \cup IF v1.end # "reset" THEN {}
                            ELSE {[s |-> Uncount(Io!CloseStream(Received(last))), pos |-> -3]}
  <2>1. o \in A \cup B \cup C
    BY DEF Io!ReadToBufferLoop, Io!Error, last
  <2>2. CASE o \in A
   <3>1. PICK r \in t.recvd + 1..last : o = Found(Received(r))
     BY <2>2
   <3>2. r \in t.recvd..last
     BY <1>1
   <3>3. QED
     BY <3>1, <3>2 DEF ReceivedIo, UncountIo
  <2>3. CASE o \in B
   <3>1. PICK r \in t.recvd + 1..last :
           o = [s |-> Uncount(Io!CloseStream([t EXCEPT !.recvd = r, !.pending = @ + 1])), pos |-> -3]
     BY <2>3
   <3>2. r \in t.recvd..last
     BY <1>1
   <3>3. QED
     BY <3>1, <3>2 DEF UncountIo
  <2>4. CASE o \in C
   <3>1. \/ o = Found(Received(last))
         \/ o = Found(Io!CloseStream(Received(last)))
         \/ o = [s |-> Uncount(Io!CloseStream(Received(last))), pos |-> -3]
    <4> HIDE DEF Found, Received, full, Uncount
    <4>1. QED
      BY <2>4
   <3>2. last \in t.recvd..last
     BY <1>1, <1>2
   <3>3. QED
     BY <3>1, <3>2 DEF ReceivedIo, UncountIo
  <2>5. QED
    BY <2>1, <2>2, <2>3, <2>4
 <1>6. QED
  <2> HIDE DEF Counted
  <2>1. \A r \in t.recvd..last : r \in Nat /\ t.recvd <= r /\ r <= last
    BY <1>1, <1>2
  <2>2. CASE \E r \in t.recvd..last :
               o = [s |-> UncountIo(ReceivedIo(t, r)), pos |-> Io!FindReadPos(ReceivedIo(t, r))]
    BY <2>1, <2>2, <1>4
  <2>3. CASE \E r \in t.recvd..last : o = [s |-> UncountIo(Io!CloseStream(Counted(r))), pos |-> -3]
    BY <2>1, <2>3, <1>4
  <2>4. CASE \/ o = [s |-> UncountIo(Io!CloseStream(ReceivedIo(t, last))),
                     pos |-> Io!FindReadPos(Io!CloseStream(ReceivedIo(t, last)))]
             \/ o = [s |-> UncountIo(Io!CloseStream(ReceivedIo(t, last))), pos |-> -3]
   <3>1. last \in Nat /\ t.recvd <= last /\ last <= last
     BY <1>2
   <3> DEFINE c == Io!CloseStream(ReceivedIo(t, last))
   <3>2. /\ LoopedIo(t, h, [s |-> UncountIo(c), pos |-> Io!FindReadPos(c)])
         /\ LoopedIo(t, h, [s |-> UncountIo(c), pos |-> -3])
     BY <3>1, <1>4
   <3> HIDE DEF c
   <3>3. o = [s |-> UncountIo(c), pos |-> Io!FindReadPos(c)] \/ o = [s |-> UncountIo(c), pos |-> -3]
     BY <2>4 DEF c
   <3>4. QED
     BY <3>2, <3>3
  <2>5. QED
    BY <1>5, <2>2, <2>3, <2>4


-----------------------------------------------------------------------------
(* Reads by the loop and by the user *)

(* What is left on a closed stream without callbacks but for its read and  *)
(* its handshake.                                                          *)
SettledRestIo(t) ==
  t.closed /\ t.pending = 0 => t.onclose # "set" /\ t.futures = <<>> /\ t.connect = "none"

(* A call leaves u, of t. *)
LeftIo(t, u) ==
  /\ HalfIo(u, 0) /\ LeadsIo(t, u)
  /\ SettledRestIo(t) => SettledIo(u)
  /\ IdleHearsIo(t) => IdleHearsIo(u)

(* A read leaves u. *)
ReadDoneIo(u) == ReadEarIo(u) /\ IdleHearsIo(u)

LEMMA LeadsEarIo ==
  ASSUME NEW t \in StreamsIo, NEW u \in StreamsIo, LeadsIo(t, u)
  PROVE  /\ ReadEarIo(t) => ReadEarIo(u)
         /\ RestEarIo(t) => RestEarIo(u)
 <1>1. CASE u.closed
   BY <1>1 DEF ReadEarIo, RestEarIo
 <1>2. CASE ~u.closed
  <2>1. /\ ~t.closed /\ t.listen \subseteq u.listen
        /\ u.connecting => t.connecting
        /\ u.accepting => t.accepting
        /\ u.read.via # "none" => t.read.via # "none"
        /\ u.total - u.done <= t.total - t.done
    BY <1>2 DEF LeadsIo
  <2>2. u.total \in Nat /\ u.done \in Nat /\ t.total \in Nat /\ t.done \in Nat
    BY DEF StreamsIo
  <2>3. u.total > u.done => t.total > t.done
    BY <2>1, <2>2
  <2>4. QED
    BY <2>1, <2>3 DEF ReadEarIo, RestEarIo
 <1>3. QED
   BY <1>1, <1>2

(* A closed stream hears nothing more. *)
LEMMA ClosedDoneIo == ASSUME NEW u, u.closed PROVE ReadDoneIo(u)
  BY DEF ReadDoneIo, ReadEarIo, IdleHearsIo

(* What a recv loop leaves is closed, answers the read or waits on. *)
LEMMA FromLoopIo ==
  ASSUME NEW t \in StreamsIo, NEW o, LoopedIo(t, 0, o)
  PROVE  /\ \A u \in {Io!CloseStream(o.s)} : HalfIo(u, 0) /\ SettledIo(u) /\ LeadsIo(t, u) /\ u.closed
         /\ \A u \in {Io!MaybeRunCloseCallback(o.s)} :
              HalfIo(u, 0) /\ SettledIo(u) /\ LeadsIo(t, u) /\ u.closed = o.s.closed
         /\ o.pos >= 0 => \A u \in {Io!ReadFromBuffer(o.s, o.pos)} :
              HalfIo(u, 0) /\ SettledIo(u) /\ LeadsIo(t, u) /\ ReadDoneIo(u)
         /\ ~o.s.closed => \A u \in {Io!AddIoState(o.s, "R")} :
              HalfIo(u, 0) /\ SettledIo(u) /\ LeadsIo(t, u) /\ ReadDoneIo(u)
 <1> DEFINE w == o.s
 <1>1. /\ HalfIo(w, 0) /\ FreeIo(w) /\ LeadsIo(t, w) /\ w \in StreamsIo
       /\ o.pos \in {-3, -2, -1} \cup 0..(w.recvd - w.taken)
       /\ 0 \in Nat
   BY DEF LoopedIo, HalfIo
 <1>2. w.recvd \in Nat /\ w.taken \in Nat /\ w.taken <= w.recvd
   BY <1>1 DEF HalfIo, StreamsIo
 <1>3. o.pos >= 0 => o.pos \in Nat /\ w.taken + o.pos <= w.recvd
   BY <1>1, <1>2
 <1> HIDE DEF w
 <1>4. ASSUME NEW u, HalfIo(u, 0), LeadsIo(w, u) PROVE LeadsIo(t, u)
  <2>1. u \in StreamsIo
    BY <1>4 DEF HalfIo
  <2>2. QED
    BY <1>1, <1>4, <2>1, LeadsOnIo
 <1>5. ASSUME NEW u, u = Io!CloseStream(w)
       PROVE  HalfIo(u, 0) /\ SettledIo(u) /\ LeadsIo(t, u) /\ u.closed
  <2>1. HalfIo(u, 0) /\ SettledIo(u) /\ LeadsIo(w, u) /\ u.closed
    BY <1>1, <1>5, CloseStreamIo
  <2>2. QED
    BY <2>1, <1>4
 <1>6. ASSUME NEW u, u = Io!MaybeRunCloseCallback(w)
       PROVE  HalfIo(u, 0) /\ SettledIo(u) /\ LeadsIo(t, u) /\ u.closed = w.closed
  <2>1. HalfIo(u, 0) /\ SettledIo(u) /\ LeadsIo(w, u) /\ u.closed = w.closed
    BY <1>1, <1>6, MaybeRunIo
  <2>2. QED
    BY <2>1, <1>4
 <1>7. ASSUME o.pos >= 0, NEW u, u = Io!ReadFromBuffer(w, o.pos)
       PROVE  HalfIo(u, 0) /\ SettledIo(u) /\ LeadsIo(t, u) /\ ReadDoneIo(u)
  <2>1. o.pos \in Nat /\ w.taken + o.pos <= w.recvd
    BY <1>3, <1>7
  <2>2. /\ HalfIo(u, 0) /\ SettledIo(u) /\ LeadsIo(w, u) /\ u.closed = w.closed
        /\ ~w.closed => u.read.via = "none" /\ (IdleIo(u) => u.listen # {})
    BY <1>1, <1>7, <2>1, ReadFromBufferIo
  <2>3. ReadDoneIo(u)
    BY <2>2 DEF ReadDoneIo, ReadEarIo, IdleHearsIo, IdleIo
  <2>4. QED
    BY <2>2, <2>3, <1>4
 <1>8. ASSUME ~w.closed, NEW u, u = Io!AddIoState(w, "R")
       PROVE  HalfIo(u, 0) /\ SettledIo(u) /\ LeadsIo(t, u) /\ ReadDoneIo(u)
  <2>1. /\ HalfIo(u, 0) /\ KeepsIo(w, u) /\ LeadsIo(w, u)
        /\ u.listen = w.listen \cup {"R"}
    BY <1>1, <1>8, AddIoStateIo
  <2>2. ReadDoneIo(u)
    BY <2>1 DEF ReadDoneIo, ReadEarIo, IdleHearsIo
  <2>3. SettledIo(u)
    BY <2>1, <1>8 DEF SettledIo, KeepsIo
  <2>4. QED
    BY <2>1, <2>2, <2>3, <1>4
 <1>9. QED
   BY <1>5, <1>6, <1>7, <1>8 DEF w

LEMMA HandleReadIo ==
  ASSUME NEW t, HalfIo(t, 0), ~t.closed, peerIo.sent \in Nat, NEW u \in Io!HandleRead(t)
  PROVE  HalfIo(u, 0) /\ SettledIo(u) /\ LeadsIo(t, u)
 <1>1. PICK o \in Io!ReadToBufferLoop(t) :
         u = CASE o.pos \in {-2, -3} -> Io!CloseStream(o.s)
               [] o.pos = -1 -> Io!MaybeRunCloseCallback(o.s)
               [] OTHER -> Io!ReadFromBuffer(o.s, o.pos)
   BY DEF Io!HandleRead, Io!Unsatisfiable, Io!Error
 <1>2. t \in StreamsIo /\ 0 \in Nat
   BY DEF HalfIo
 <1>3. LoopedIo(t, 0, o)
   BY <1>2, ReadLoopIo
 <1>4. o.pos \in {-3, -2, -1} \/ o.pos >= 0
  <2>1. o.s.recvd \in Nat /\ o.s.taken \in Nat /\ o.pos \in {-3, -2, -1} \cup 0..(o.s.recvd - o.s.taken)
    BY <1>3 DEF LoopedIo, HalfIo, StreamsIo
  <2>2. QED
    BY <2>1
 <1>5. \/ u = Io!CloseStream(o.s)
       \/ u = Io!MaybeRunCloseCallback(o.s)
       \/ (u = Io!ReadFromBuffer(o.s, o.pos) /\ o.pos >= 0)
   BY <1>1, <1>4
 <1>6. QED
   BY <1>2, <1>3, <1>5, FromLoopIo

(* A stream of which more was asked than it has to give. *)
LateIo(t) == [t EXCEPT !.late = TRUE]

LEMMA LateHalfIo ==
  ASSUME NEW t, HalfIo(t, 0)
  PROVE  /\ HalfIo(LateIo(t), 0) /\ FreeIo(LateIo(t)) /\ LeadsIo(t, LateIo(t))
         /\ SettledIo(t) => SettledIo(LateIo(t))
         /\ EarIo(t) => EarIo(LateIo(t))
 <1> DEFINE u == LateIo(t)
 <1>1. t \in StreamsIo
   BY DEF HalfIo
 <1>2. u \in StreamsIo
   BY <1>1 DEF StreamsIo, LateIo
 <1>3. /\ u.read = t.read /\ u.recvd = t.recvd /\ u.taken = t.taken /\ u.total = t.total /\ u.done = t.done
       /\ u.futures = t.futures /\ u.onclose = t.onclose /\ u.connect = t.connect
   BY <1>1 DEF StreamsIo, LateIo
 <1>4. /\ u.connecting = t.connecting /\ u.accepting = t.accepting /\ u.handshake = t.handshake /\ u.tls = t.tls
       /\ u.listen = t.listen /\ u.pending = t.pending /\ u.queue = t.queue /\ u.closed = t.closed /\ u.late
   BY <1>1 DEF StreamsIo, LateIo
 <1> HIDE DEF u
 <1>5. HalfIo(u, 0)
   BY <1>2, <1>3, <1>4 DEF HalfIo, LastOkIo
 <1>6. FreeIo(u) /\ (SettledIo(t) => SettledIo(u))
   BY <1>3, <1>4 DEF FreeIo, SettledIo
 <1>7. EarIo(t) => EarIo(u)
   BY <1>3, <1>4 DEF EarIo, ReadEarIo, RestEarIo, IdleHearsIo
 <1>8. LeadsIo(t, u)
  <2>1. AnswersIo(t, u) /\ u.total - u.done <= t.total - t.done
    BY <1>1, <1>3, LeadsSelfIo DEF AnswersIo, LeadsIo, StreamsIo
  <2>2. QED
    BY <2>1, <1>3, <1>4 DEF LeadsIo
 <1>9. QED
   BY <1>5, <1>6, <1>7, <1>8 DEF u

LEMMA SettledTwiceIo ==
  ASSUME NEW t, NEW u, SettledRestIo(t), KeepsIo(t, u), u = t \/ u.pending > 0, u.pending \in Nat
  PROVE  SettledRestIo(u)
  BY DEF SettledRestIo, KeepsIo

LEMMA TryInlineReadIo ==
  ASSUME NEW t, HalfIo(t, 0), FreeIo(t), peerIo.sent \in Nat, NEW u \in Io!TryInlineRead(t)
  PROVE  HalfIo(u, 0) /\ LeadsIo(t, u) /\ ReadDoneIo(u) /\ (SettledRestIo(t) => SettledIo(u))
 <1> DEFINE w == Io!RunStreamingCallback(t)
            pos == Io!FindReadPos(w)
 <1>1. t \in StreamsIo /\ 0 \in Nat
   BY DEF HalfIo
 <1>2. HalfIo(w, 0) /\ FreeIo(w) /\ KeepsIo(t, w) /\ w.listen = t.listen
       /\ w.read.via = t.read.via /\ (w = t \/ w.pending > 0)
   BY <1>1, StreamingIo
 <1>3. \/ (pos = -2 /\ u = Io!CloseStream(w))
       \/ (pos >= 0 /\ u = Io!ReadFromBuffer(w, pos))
       \/ (w.closed /\ u = LateIo(w))
       \/ (~w.closed /\ \E o \in Io!ReadToBufferLoop(w) :
             u = CASE o.pos = -3 -> Io!MaybeRunCloseCallback(o.s)
                   [] o.pos = -2 -> Io!CloseStream(o.s)
                   [] o.pos >= 0 -> Io!ReadFromBuffer(o.s, o.pos)
                   [] o.pos = -1 /\ o.s.closed -> Io!MaybeRunCloseCallback(o.s)
                   [] o.pos = -1 /\ ~o.s.closed -> Io!AddIoState(o.s, "R"))
  <2>1. u \in IF pos = -2 THEN {Io!CloseStream(w)}
              ELSE IF pos >= 0 THEN {Io!ReadFromBuffer(w, pos)}
              ELSE IF w.closed THEN {LateIo(w)}
              ELSE {CASE o.pos = -3 -> Io!MaybeRunCloseCallback(o.s)
                      [] o.pos = -2 -> Io!CloseStream(o.s)
                      [] o.pos >= 0 -> Io!ReadFromBuffer(o.s, o.pos)
                      [] o.pos = -1 /\ o.s.closed -> Io!MaybeRunCloseCallback(o.s)
                      [] o.pos = -1 /\ ~o.s.closed -> Io!AddIoState(o.s, "R") : o \in Io!ReadToBufferLoop(w)}
    BY DEF Io!TryInlineRead, Io!Unsatisfiable, Io!Error, LateIo
  <2> HIDE DEF w, pos
  <2>2. QED
    BY <2>1
 <1> HIDE DEF w
 <1>4. /\ w \in StreamsIo /\ w.recvd \in Nat /\ w.taken \in Nat /\ w.taken <= w.recvd /\ w.pending \in Nat
       /\ LeadsIo(t, w)
  <2>1. w \in StreamsIo /\ w.recvd \in Nat /\ w.taken \in Nat /\ w.taken <= w.recvd /\ w.pending \in Nat
    BY <1>2 DEF HalfIo, StreamsIo
  <2>2. QED
    BY <2>1, <1>1, <1>2, KeepsLeadsIo
 <1>5. pos \in {-2, -1} \cup 0..(w.recvd - w.taken)
   BY <1>4, FindReadPosIo
 <1> HIDE DEF pos
 <1>6. ASSUME NEW v, HalfIo(v, 0), LeadsIo(w, v) PROVE LeadsIo(t, v)
  <2>1. v \in StreamsIo
    BY <1>6 DEF HalfIo
  <2>2. QED
    BY <1>1, <1>4, <1>6, <2>1, LeadsOnIo
 <1>7. CASE pos = -2 /\ u = Io!CloseStream(w)
  <2>1. HalfIo(u, 0) /\ SettledIo(u) /\ LeadsIo(w, u) /\ u.closed
    BY <1>1, <1>2, <1>7, CloseStreamIo
  <2>2. QED
    BY <2>1, <1>6, ClosedDoneIo
 <1>8. CASE pos >= 0 /\ u = Io!ReadFromBuffer(w, pos)
  <2>1. pos \in Nat /\ w.taken + pos <= w.recvd
    BY <1>4, <1>5, <1>8
  <2>2. /\ HalfIo(u, 0) /\ SettledIo(u) /\ LeadsIo(w, u) /\ u.closed = w.closed
        /\ ~w.closed => u.read.via = "none" /\ (IdleIo(u) => u.listen # {})
    BY <1>1, <1>2, <1>8, <2>1, ReadFromBufferIo
  <2>3. ReadDoneIo(u)
    BY <2>2 DEF ReadDoneIo, ReadEarIo, IdleHearsIo, IdleIo
  <2>4. QED
    BY <2>2, <2>3, <1>6
 <1>9. CASE w.closed /\ u = LateIo(w)
  <2>1. u \in StreamsIo /\ u.closed /\ u.late /\ u.pending = w.pending /\ u.onclose = w.onclose
        /\ u.futures = w.futures /\ u.connect = w.connect
    BY <1>4, <1>9 DEF StreamsIo, LateIo
  <2>2. HalfIo(u, 0) /\ LeadsIo(w, u)
    BY <1>2, <1>9, LateHalfIo
  <2>4. ASSUME SettledRestIo(t) PROVE SettledIo(u)
   <3>1. SettledRestIo(w)
     BY <1>2, <1>4, <2>4, SettledTwiceIo
   <3>2. QED
     BY <3>1, <1>9, <2>1 DEF SettledRestIo, SettledIo
  <2>5. QED
    BY <2>1, <2>2, <2>4, <1>6, ClosedDoneIo
 <1>10. CASE ~w.closed /\ \E o \in Io!ReadToBufferLoop(w) :
             u = CASE o.pos = -3 -> Io!MaybeRunCloseCallback(o.s)
                   [] o.pos = -2 -> Io!CloseStream(o.s)
                   [] o.pos >= 0 -> Io!ReadFromBuffer(o.s, o.pos)
                   [] o.pos = -1 /\ o.s.closed -> Io!MaybeRunCloseCallback(o.s)
                   [] o.pos = -1 /\ ~o.s.closed -> Io!AddIoState(o.s, "R")
  <2>1. PICK o \in Io!ReadToBufferLoop(w) :
            u = CASE o.pos = -3 -> Io!MaybeRunCloseCallback(o.s)
                  [] o.pos = -2 -> Io!CloseStream(o.s)
                  [] o.pos >= 0 -> Io!ReadFromBuffer(o.s, o.pos)
                  [] o.pos = -1 /\ o.s.closed -> Io!MaybeRunCloseCallback(o.s)
                  [] o.pos = -1 /\ ~o.s.closed -> Io!AddIoState(o.s, "R")
    BY <1>10
  <2>2. LoopedIo(w, 0, o)
    BY <1>1, <1>2, <1>10, ReadLoopIo
  <2>3. (o.pos \in {-3, -2, -1} \/ o.pos >= 0) /\ (o.pos = -3 => o.s.closed) /\ o.s.closed \in BOOLEAN
   <3>1. o.s.recvd \in Nat /\ o.s.taken \in Nat /\ o.pos \in {-3, -2, -1} \cup 0..(o.s.recvd - o.s.taken)
         /\ (o.pos = -3 => o.s.closed) /\ o.s.closed \in BOOLEAN
     BY <2>2 DEF LoopedIo, HalfIo, StreamsIo
   <3>2. QED
     BY <3>1
  <2>4. \/ u = Io!CloseStream(o.s)
        \/ (u = Io!MaybeRunCloseCallback(o.s) /\ o.s.closed)
        \/ (u = Io!ReadFromBuffer(o.s, o.pos) /\ o.pos >= 0)
        \/ (u = Io!AddIoState(o.s, "R") /\ ~o.s.closed)
    BY <2>1, <2>3
  <2>5. HalfIo(u, 0) /\ SettledIo(u) /\ LeadsIo(w, u) /\ (u.closed \/ ReadDoneIo(u))
    BY <1>4, <2>2, <2>4, FromLoopIo
  <2>6. QED
    BY <2>5, <1>6, ClosedDoneIo
 <1>11. QED
   BY <1>3, <1>7, <1>8, <1>9, <1>10


-----------------------------------------------------------------------------
(* The user's reads *)

(* A call leaves u of t. *)
CalledIo(t, u) ==
  /\ HalfIo(u, 0)
  /\ t.late => u.late
  /\ u.tls = t.tls
  /\ t.closed => u.closed
  /\ SettledIo(t) => SettledIo(u)
  /\ u.closed \/ AnswersIo(t, u)
  /\ ReadEarIo(t) => ReadEarIo(u)
  /\ RestEarIo(t) => RestEarIo(u)
  /\ IdleHearsIo(t) /\ ~u.connecting => IdleHearsIo(u)

LEMMA SettledPartIo == ASSUME NEW t, SettledIo(t) PROVE SettledRestIo(t)
  BY DEF SettledIo, SettledRestIo

LEMMA LeadsCalledIo ==
  ASSUME NEW t \in StreamsIo, NEW u, HalfIo(u, 0), LeadsIo(t, u), SettledIo(t) => SettledIo(u),
         IdleHearsIo(t) => IdleHearsIo(u)
  PROVE  CalledIo(t, u)
 <1>1. u \in StreamsIo
   BY DEF HalfIo
 <1>2. /\ ReadEarIo(t) => ReadEarIo(u)
       /\ RestEarIo(t) => RestEarIo(u)
   BY <1>1, LeadsEarIo
 <1>3. QED
   BY <1>2 DEF CalledIo, LeadsIo

LEMMA ClosedCalledIo ==
  ASSUME NEW t, NEW u, HalfIo(u, 0), u.closed, SettledIo(u), t.late => u.late, u.tls = t.tls
  PROVE  CalledIo(t, u)
  BY DEF CalledIo, ReadEarIo, RestEarIo, IdleHearsIo

(* A read begins: t becomes b. *)
BegunIo(t, b) ==
  /\ b.total = t.total /\ b.done = t.done /\ b.futures = t.futures
  /\ b.onclose = t.onclose /\ b.connect = t.connect /\ b.connecting = t.connecting
  /\ b.accepting = t.accepting /\ b.handshake = t.handshake /\ b.tls = t.tls
  /\ b.listen = t.listen /\ b.pending = t.pending /\ b.queue = t.queue
  /\ b.recvd = t.recvd /\ b.taken = t.taken /\ b.closed = t.closed /\ b.late = t.late

LEMMA BegunHalfIo ==
  ASSUME NEW t, HalfIo(t, 0), FreeIo(t), NEW b \in StreamsIo, BegunIo(t, b)
  PROVE  HalfIo(b, 0) /\ FreeIo(b)
 <1>1. HalfIo(b, 0)
   BY DEF HalfIo, BegunIo
 <1>2. FreeIo(b)
   BY DEF FreeIo, BegunIo
 <1>3. QED
   BY <1>1, <1>2

LEMMA BegunReadIo ==
  ASSUME NEW t, HalfIo(t, 0), FreeIo(t), peerIo.sent \in Nat,
         NEW b \in StreamsIo, BegunIo(t, b), NEW u \in Io!TryInlineRead(b)
  PROVE  CalledIo(t, u)
 <1>1. HalfIo(b, 0) /\ FreeIo(b)
   BY BegunHalfIo
 <1>2. HalfIo(u, 0) /\ LeadsIo(b, u) /\ ReadDoneIo(u) /\ (SettledRestIo(b) => SettledIo(u))
   BY <1>1, TryInlineReadIo
 <1>3. u \in StreamsIo
   BY <1>2 DEF HalfIo
 <1>4. RestEarIo(b) => RestEarIo(u)
   BY <1>2, <1>3, LeadsEarIo
 <1>5. RestEarIo(t) => RestEarIo(b)
   BY DEF BegunIo, RestEarIo
 <1>6. SettledIo(t) => SettledIo(u)
  <2>1. SettledRestIo(t) => SettledRestIo(b)
    BY DEF BegunIo, SettledRestIo
  <2>2. QED
    BY <2>1, <1>2, SettledPartIo
 <1>7. u.closed \/ AnswersIo(t, u)
   BY <1>2 DEF LeadsIo, AnswersIo, BegunIo
 <1>8. (t.late => u.late) /\ u.tls = t.tls /\ (t.closed => u.closed)
   BY <1>2 DEF LeadsIo, BegunIo
 <1>9. QED
   BY <1>2, <1>4, <1>5, <1>6, <1>7, <1>8 DEF CalledIo, ReadDoneIo

LEMMA BeginIo ==
  ASSUME NEW t \in StreamsIo, NEW r \in ReadsIo
  PROVE  /\ [t EXCEPT !.read = r] \in StreamsIo /\ BegunIo(t, [t EXCEPT !.read = r])
         /\ \A max \in {0, 1} :
              LET b == [[t EXCEPT !.read = r] EXCEPT !.max = max] IN b \in StreamsIo /\ BegunIo(t, b)
 <1>1. [t EXCEPT !.read = r] \in StreamsIo
   BY DEF StreamsIo
 <1>2. BegunIo(t, [t EXCEPT !.read = r])
   BY DEF BegunIo, StreamsIo
 <1>3. ASSUME NEW max \in {0, 1} PROVE
         LET b == [[t EXCEPT !.read = r] EXCEPT !.max = max] IN b \in StreamsIo /\ BegunIo(t, b)
  <2> DEFINE b == [[t EXCEPT !.read = r] EXCEPT !.max = max]
  <2>0. max \in Nat
    OBVIOUS
  <2>1. b \in StreamsIo
    BY <1>1, <2>0 DEF StreamsIo
  <2>2. BegunIo(t, b)
    BY DEF BegunIo, StreamsIo
  <2>3. QED
    BY <2>1, <2>2
 <1>4. QED
   BY <1>1, <1>2, <1>3

LEMMA ReadBytesIo ==
  ASSUME StreamBounds, NEW t, HalfIo(t, 0), FreeIo(t), peerIo.sent \in Nat, NEW u \in Io!ReadBytes(t)
  PROVE  CalledIo(t, u)
 <1>1. PICK n \in Sizes, partial \in BOOLEAN, via \in {"callback", "future"}, streaming \in BOOLEAN :
         u \in Io!TryInlineRead(Io!Begin(t, "bytes", n, partial, via, streaming))
   BY DEF Io!ReadBytes, Io!Vias
 <1> DEFINE r == [type |-> "bytes", n |-> n, partial |-> partial, via |-> via, streaming |-> streaming]
            b == [t EXCEPT !.read = r]
 <1>2. r \in ReadsIo /\ t \in StreamsIo
   BY DEF ReadsIo, StreamBounds, HalfIo
 <1>3. u \in Io!TryInlineRead(b)
   BY <1>1 DEF Io!Begin
 <1> HIDE DEF r
 <1>4. b \in StreamsIo /\ BegunIo(t, b)
   BY <1>2, BeginIo
 <1> HIDE DEF b
 <1>5. QED
   BY <1>3, <1>4, BegunReadIo

LEMMA ReadUntilIo ==
  ASSUME NEW t, HalfIo(t, 0), FreeIo(t), peerIo.sent \in Nat, NEW u \in Io!ReadUntil(t)
  PROVE  CalledIo(t, u)
 <1>1. PICK via \in {"callback", "future"}, max \in {0, 1} :
         u \in Io!TryInlineRead(Io!BeginUntil(t, via, max))
   BY DEF Io!ReadUntil, Io!Vias
 <1> DEFINE r == [type |-> "until", n |-> 0, partial |-> FALSE, via |-> via, streaming |-> FALSE]
            b == [[t EXCEPT !.read = r] EXCEPT !.max = max]
 <1>2. r \in ReadsIo /\ t \in StreamsIo
   BY DEF ReadsIo, HalfIo
 <1>3. u \in Io!TryInlineRead(b)
   BY <1>1 DEF Io!BeginUntil, Io!Begin
 <1> HIDE DEF r
 <1>4. b \in StreamsIo /\ BegunIo(t, b)
   BY <1>2, BeginIo
 <1> HIDE DEF b
 <1>5. QED
   BY <1>3, <1>4, BegunReadIo

LEMMA ReadUntilCloseIo ==
  ASSUME NEW t, HalfIo(t, 0), FreeIo(t), peerIo.sent \in Nat, NEW u \in Io!ReadUntilClose(t)
  PROVE  CalledIo(t, u)
 <1>1. PICK via \in {"callback", "future"}, streaming \in BOOLEAN : u \in Io!ReadToClose(t, via, streaming)
   BY DEF Io!ReadUntilClose, Io!Vias
 <1> DEFINE r == [type |-> IF t.closed THEN "none" ELSE "close", n |-> 0, partial |-> FALSE, via |-> via,
                  streaming |-> streaming]
            b == [t EXCEPT !.read = r]
            v == IF streaming THEN Io!RunStream(b, Io!Size(b)) ELSE b
 <1>2. r \in ReadsIo /\ t \in StreamsIo /\ 0 \in Nat
   BY DEF ReadsIo, HalfIo
 <1>3. u \in IF ~t.closed THEN Io!TryInlineRead(b) ELSE {Io!RunRead(v, Io!Size(v))}
   BY <1>1 DEF Io!ReadToClose, Io!Begin
 <1> HIDE DEF r
 <1>4. b \in StreamsIo /\ BegunIo(t, b)
   BY <1>2, BeginIo
 <1> HIDE DEF b
 <1>5. CASE ~t.closed
  <2> HIDE DEF v
  <2>1. u \in Io!TryInlineRead(b)
    BY <1>3, <1>5
  <2>2. QED
    BY <1>4, <2>1, BegunReadIo
 <1>6. CASE t.closed
  <2>1. HalfIo(b, 0) /\ FreeIo(b)
    BY <1>4, BegunHalfIo
  <2>2. b.closed /\ b.late = t.late /\ b.tls = t.tls
    BY <1>4, <1>6 DEF BegunIo
  <2>3. Io!Size(b) \in Nat /\ b.taken + Io!Size(b) <= b.recvd
    BY <1>4, <2>1 DEF Io!Size, HalfIo, StreamsIo
  <2>4. HalfIo(v, 0) /\ FreeIo(v) /\ KeepsIo(b, v)
   <3>1. CASE streaming
    <4>1. v = Io!RunStream(b, Io!Size(b))
      BY <3>1
    <4> HIDE DEF v
    <4>2. QED
      BY <1>2, <2>1, <2>3, <4>1, RunStreamIo
   <3>2. CASE ~streaming
     BY <3>2, <2>1, <1>4, LeadsSelfIo
   <3>3. QED
     BY <3>1, <3>2
  <2>5. u = Io!RunRead(v, Io!Size(v))
    BY <1>3, <1>6
  <2> HIDE DEF v
  <2>6. Io!Size(v) \in Nat /\ v.taken + Io!Size(v) <= v.recvd
    BY <2>4 DEF Io!Size, HalfIo, StreamsIo
  <2>7. HalfIo(u, 0) /\ SettledIo(u) /\ LeadsIo(v, u) /\ u.late = v.late /\ u.closed = v.closed
    BY <1>2, <2>4, <2>5, <2>6, RunReadIo
  <2>8. v.closed /\ v.late = t.late /\ v.tls = t.tls
    BY <2>2, <2>4 DEF KeepsIo
  <2>9. u.tls = t.tls
    BY <2>7, <2>8 DEF LeadsIo
  <2>10. QED
    BY <2>7, <2>8, <2>9, ClosedCalledIo
 <1>7. QED
   BY <1>5, <1>6


-----------------------------------------------------------------------------
(* Writing *)

(* The futures that are left, of fs, when done bytes were written.         *)
AnsweredIo(fs, done) ==
  CHOOSE n \in 0..Len(fs) : /\ \A i \in 1..n : fs[i] <= done
                            /\ n = Len(fs) \/ fs[n + 1] > done

LEMMA AnsweredIsIo ==
  ASSUME NEW fs \in Seq(Nat), NEW done \in Nat
  PROVE  /\ AnsweredIo(fs, done) \in 0..Len(fs)
         /\ \A i \in 1..AnsweredIo(fs, done) : fs[i] <= done
         /\ AnsweredIo(fs, done) = Len(fs) \/ fs[AnsweredIo(fs, done) + 1] > done
 <1> DEFINE S == {i \in 1..Len(fs) : fs[i] > done}
 <1>1. Len(fs) \in Nat /\ \A i \in 1..Len(fs) : fs[i] \in Nat
   OBVIOUS
 <1>2. \E n \in 0..Len(fs) : /\ \A i \in 1..n : fs[i] <= done
                             /\ n = Len(fs) \/ fs[n + 1] > done
  <2>1. CASE S = {}
   <3>1. \A i \in 1..Len(fs) : fs[i] <= done
     BY <1>1, <2>1
   <3>2. Len(fs) \in 0..Len(fs)
     BY <1>1
   <3>3. QED
     BY <3>1, <3>2
  <2>2. CASE S # {}
   <3>1. S \in SUBSET Nat
     BY <1>1
   <3>2. PICK m \in S : \A k \in S : m <= k
     BY <2>2, <3>1, LeastNatural
   <3> DEFINE n == m - 1
   <3>3. n \in 0..Len(fs) /\ n + 1 = m /\ fs[m] > done
     BY <1>1, <3>2
   <3>4. \A i \in 1..n : fs[i] <= done
     BY <1>1, <3>2
   <3>5. QED
     BY <3>3, <3>4
  <2>3. QED
    BY <2>1, <2>2
 <1>3. QED
   BY <1>2 DEF AnsweredIo

LEMMA FuturesLeftIo ==
  ASSUME NEW fs \in Seq(Nat), NEW old \in Nat, NEW done \in Nat, NEW total \in Nat,
         InTurnIo(fs, old, total)
  PROVE  LET n == AnsweredIo(fs, done)
             r == SubSeq(fs, n + 1, Len(fs))
         IN /\ r \in Seq(Nat) /\ InTurnIo(r, done, total)
            /\ \A i \in DOMAIN fs : fs[i] <= done \/ \E j \in DOMAIN r : r[j] = fs[i]
 <1> DEFINE n == AnsweredIo(fs, done)
            r == SubSeq(fs, n + 1, Len(fs))
 <1>1. /\ n \in 0..Len(fs)
       /\ \A i \in 1..n : fs[i] <= done
       /\ n = Len(fs) \/ fs[n + 1] > done
   BY AnsweredIsIo
 <1>2. Len(fs) \in Nat /\ DOMAIN fs = 1..Len(fs) /\ \A i \in 1..Len(fs) : fs[i] \in Nat
   OBVIOUS
 <1> HIDE DEF n
 <1>20. n \in Nat /\ Len(fs) \in Nat /\ n <= Len(fs)
  <2>1. n \in 0..Len(fs) /\ Len(fs) \in Nat
    BY <1>1, <1>2
  <2>2. QED
    BY <2>1
 <1>4. r \in Seq(Nat) /\ Len(r) = Len(fs) - n /\ DOMAIN r = 1..Len(r)
       /\ \A i \in 1..Len(r) : r[i] = fs[n + i] /\ n + i \in 1..Len(fs)
   BY <1>20, RestIs
 <1> HIDE DEF r
 <1>5. DOMAIN r = 1..Len(fs) - n
   BY <1>4
 <1>6. \A i \in 1..Len(fs) - n : r[i] = fs[n + i] /\ n + i \in 1..Len(fs) /\ n + 1 <= n + i
   BY <1>4, <1>20
 <1>7. \A i \in DOMAIN fs : /\ fs[i] > old /\ fs[i] <= total
                            /\ \A j \in DOMAIN fs : i < j => fs[i] < fs[j]
   BY DEF InTurnIo
 <1>8. \A i \in 1..Len(fs) : n + 1 <= i => fs[i] > done
  <2> SUFFICES ASSUME NEW i \in 1..Len(fs), n + 1 <= i PROVE fs[i] > done
    OBVIOUS
  <2>0. n + 1 \in 1..Len(fs) /\ n # Len(fs) /\ (n + 1 = i \/ n + 1 < i)
    BY <1>20
  <2>1. n + 1 \in 1..Len(fs) /\ fs[n + 1] > done /\ (n + 1 = i \/ n + 1 < i)
    BY <1>1, <2>0
  <2>2. fs[n + 1] <= fs[i]
   <3>1. n + 1 < i => fs[n + 1] < fs[i]
     BY <1>2, <1>7, <2>1
   <3>2. fs[n + 1] \in Nat /\ fs[i] \in Nat
     BY <1>2, <2>1
   <3>3. QED
     BY <2>1, <3>1, <3>2
  <2>3. QED
    BY <1>2, <2>1, <2>2
 <1>9. InTurnIo(r, done, total)
  <2> SUFFICES ASSUME NEW i \in DOMAIN r
               PROVE  /\ r[i] > done /\ r[i] <= total
                      /\ \A j \in DOMAIN r : i < j => r[i] < r[j]
    BY DEF InTurnIo
  <2>1. r[i] = fs[n + i] /\ n + i \in 1..Len(fs) /\ n + 1 <= n + i
    BY <1>5, <1>6
  <2>2. r[i] > done /\ r[i] <= total
    BY <1>2, <1>7, <1>8, <2>1
  <2>3. ASSUME NEW j \in DOMAIN r, i < j PROVE r[i] < r[j]
   <3>1. r[j] = fs[n + j] /\ n + j \in 1..Len(fs)
     BY <1>5, <1>6
   <3>2. n + i < n + j
    <4>1. i \in 1..Len(fs) - n /\ j \in 1..Len(fs) - n
      BY <1>5
    <4>2. QED
      BY <1>20, <2>3, <4>1
   <3>3. QED
     BY <1>2, <1>7, <2>1, <3>1, <3>2
  <2>4. QED
    BY <2>2, <2>3
 <1>10. ASSUME NEW i \in DOMAIN fs PROVE fs[i] <= done \/ \E j \in DOMAIN r : r[j] = fs[i]
  <2>1. CASE i \in 1..n
    BY <1>1, <2>1
  <2>2. CASE i \notin 1..n
   <3> DEFINE j == i - n
   <3>0. i \in 1..Len(fs)
     BY <1>2
   <3>1. j \in 1..Len(fs) - n /\ n + j = i
     BY <1>20, <2>2, <3>0
   <3>2. r[j] = fs[i]
     BY <1>6, <3>1
   <3>3. QED
     BY <1>5, <3>1, <3>2
  <2>3. QED
    BY <2>1, <2>2
 <1>11. QED
   BY <1>4, <1>9, <1>10 DEF r, n

(* What the handshake and the writer are about is of no concern to others. *)
PlainIo(t, b) ==
  /\ b.total = t.total /\ b.done = t.done /\ b.futures = t.futures
  /\ b.onclose = t.onclose /\ b.connect = t.connect
  /\ b.tls = t.tls /\ b.handshake = t.handshake
  /\ b.listen = t.listen /\ b.pending = t.pending /\ b.queue = t.queue /\ b.read = t.read
  /\ b.recvd = t.recvd /\ b.taken = t.taken /\ b.closed = t.closed /\ b.late = t.late
  /\ b.connecting => t.connecting
  /\ b.accepting => t.accepting

LEMMA PlainHalfIo ==
  ASSUME NEW t, HalfIo(t, 0), NEW b \in StreamsIo, PlainIo(t, b)
  PROVE  HalfIo(b, 0) /\ LeadsIo(t, b) /\ (FreeIo(t) => FreeIo(b)) /\ (SettledIo(t) => SettledIo(b))
 <1>1. HalfIo(b, 0)
   BY DEF HalfIo, PlainIo
 <1>2. FreeIo(t) => FreeIo(b)
   BY DEF FreeIo, PlainIo
 <1>3. t \in StreamsIo
   BY DEF HalfIo
 <1>4. AnswersIo(t, b) /\ b.total - b.done <= t.total - t.done
  <2>1. t.total \in Nat /\ t.done \in Nat
    BY <1>3 DEF StreamsIo
  <2>2. QED
    BY <2>1 DEF AnswersIo, PlainIo
 <1>5. LeadsIo(t, b)
   BY <1>4 DEF LeadsIo, PlainIo
 <1>6. SettledIo(t) => SettledIo(b)
   BY DEF SettledIo, PlainIo
 <1>7. QED
   BY <1>1, <1>2, <1>5, <1>6

(* Some bytes are sent. *)
LEMMA AnswerWritesIo ==
  ASSUME NEW t, HalfIo(t, 0), ~t.closed, NEW k \in 0..(t.total - t.done)
  PROVE  LET u == Io!AnswerWrites([t EXCEPT !.done = @ + k])
         IN HalfIo(u, 0) /\ LeadsIo(t, u) /\ ~u.closed
 <1> DEFINE done == t.done + k
            n == AnsweredIo(t.futures, done)
            r == SubSeq(t.futures, n + 1, Len(t.futures))
            w == [t EXCEPT !.done = done]
            u == [w EXCEPT !.futures = r]
 <1>1. /\ t \in StreamsIo /\ t.done \in Nat /\ t.total \in Nat /\ t.futures \in Seq(Nat)
       /\ InTurnIo(t.futures, t.done, t.total) /\ t.done <= t.total
   BY DEF HalfIo, StreamsIo
 <1>2. done \in Nat /\ t.done <= done /\ done <= t.total
   BY <1>1
 <1>3. /\ r \in Seq(Nat) /\ InTurnIo(r, done, t.total)
       /\ \A i \in DOMAIN t.futures : t.futures[i] <= done \/ \E j \in DOMAIN r : r[j] = t.futures[i]
   BY <1>1, <1>2, FuturesLeftIo
 <1> HIDE DEF done
 <1>4. w \in StreamsIo /\ w.done = done /\ w.futures = t.futures
   BY <1>1, <1>2 DEF StreamsIo
 <1>5. Io!AnswerWrites([t EXCEPT !.done = @ + k]) = u
  <2>1. [t EXCEPT !.done = @ + k] = w
    BY DEF done
  <2>2. n = CHOOSE x \in 0..Len(w.futures) : /\ \A i \in 1..x : w.futures[i] <= w.done
                                             /\ x = Len(w.futures) \/ w.futures[x + 1] > w.done
    BY <1>4, Zenon DEF AnsweredIo
  <2>3. r = SubSeq(w.futures, n + 1, Len(w.futures))
    BY <1>4
  <2> HIDE DEF w, n, r
  <2>4. Io!AnswerWrites(w) = [w EXCEPT !.futures = SubSeq(w.futures, n + 1, Len(w.futures))]
    BY <2>2 DEF Io!AnswerWrites
  <2>5. QED
    BY <2>1, <2>3, <2>4
 <1> HIDE DEF r, w
 <1>50. u \in StreamsIo
   BY <1>3, <1>4 DEF StreamsIo
 <1>6. /\ u.done = done /\ u.futures = r /\ u.total = t.total
       /\ u.onclose = t.onclose /\ u.connect = t.connect
       /\ u.tls = t.tls /\ u.handshake = t.handshake
   BY <1>1, <1>2, <1>3 DEF StreamsIo, w
 <1>7. /\ u.connecting = t.connecting /\ u.accepting = t.accepting
       /\ u.listen = t.listen /\ u.pending = t.pending /\ u.queue = t.queue /\ u.read = t.read
       /\ u.recvd = t.recvd /\ u.taken = t.taken /\ u.closed = t.closed /\ u.late = t.late
   BY <1>1, <1>2, <1>3 DEF StreamsIo, w
 <1> HIDE DEF u
 <1>8. HalfIo(u, 0)
  <2>1. InTurnIo(u.futures, u.done, u.total) /\ u.done <= u.total
    BY <1>2, <1>3, <1>6
  <2>2. QED
    BY <1>50, <1>6, <1>7, <2>1 DEF HalfIo
 <1>9. AnswersIo(t, u)
   BY <1>2, <1>3, <1>6 DEF AnswersIo
 <1>10. u.total - u.done <= t.total - t.done
   BY <1>1, <1>2, <1>6
 <1>11. LeadsIo(t, u)
   BY <1>6, <1>7, <1>9, <1>10 DEF LeadsIo
 <1>12. QED
   BY <1>5, <1>7, <1>8, <1>11

LEMMA SentIo ==
  ASSUME NEW t, HalfIo(t, 0), ~t.closed, NEW k \in 0..(t.total - t.done)
  PROVE  HalfIo(Io!Sent(t, k), 0) /\ LeadsIo(t, Io!Sent(t, k)) /\ ~Io!Sent(t, k).closed
 <1> DEFINE u == Io!AnswerWrites([t EXCEPT !.done = @ + k])
            b == [u EXCEPT !.writer = FALSE]
            v == Io!RunCallback(b, "write")
 <1>1. HalfIo(u, 0) /\ LeadsIo(t, u) /\ ~u.closed
   BY AnswerWritesIo
 <1>2. Io!Sent(t, k) = u \/ Io!Sent(t, k) = v
   BY DEF Io!Sent
 <1> HIDE DEF u
 <1>3. t \in StreamsIo /\ u \in StreamsIo /\ 0 \in Nat
   BY <1>1 DEF HalfIo
 <1>4. b \in StreamsIo
   BY <1>3 DEF StreamsIo
 <1>5. PlainIo(u, b)
   BY <1>3 DEF StreamsIo, PlainIo
 <1> HIDE DEF b
 <1>6. HalfIo(b, 0) /\ LeadsIo(u, b) /\ ~b.closed
   BY <1>1, <1>4, <1>5, PlainHalfIo DEF PlainIo
 <1>7. FreeIo(b)
  <2>1. b.onclose # "told"
    BY <1>6 DEF HalfIo
  <2>2. QED
    BY <1>6, <2>1, OpenFreeIo
 <1>8. HalfIo(v, 0) /\ KeepsIo(b, v) /\ v.listen = b.listen /\ v.read = b.read
   BY <1>3, <1>6, <1>7, RunCallbackIo
 <1> HIDE DEF v
 <1>9. v \in StreamsIo
   BY <1>8 DEF HalfIo
 <1>10. LeadsIo(b, v)
   BY <1>4, <1>8, KeepsLeadsIo
 <1>11. LeadsIo(t, v) /\ ~v.closed
  <2>1. LeadsIo(u, v)
    BY <1>3, <1>4, <1>6, <1>9, <1>10, LeadsOnIo
  <2>2. LeadsIo(t, v)
    BY <1>1, <1>3, <1>9, <2>1, LeadsOnIo
  <2>3. QED
    BY <2>2, <1>6, <1>8 DEF KeepsIo
 <1>12. QED
   BY <1>1, <1>2, <1>8, <1>11

(* An open stream has nothing to settle. *)
LEMMA OpenSettledIo == ASSUME NEW t, ~t.closed PROVE SettledIo(t)
  BY DEF SettledIo

LEMMA HandlePlainWriteIo ==
  ASSUME NEW t, HalfIo(t, 0), ~t.closed, NEW u \in Io!HandlePlainWrite(t)
  PROVE  HalfIo(u, 0) /\ LeadsIo(t, u) /\ SettledIo(u)
 <1>1. (\E k \in 0..(t.total - t.done) : u = Io!Sent(t, k)) \/ u = Io!CloseStream(t)
   BY DEF Io!HandlePlainWrite, Io!Sendable, Io!Unwritten
 <1>2. CASE \E k \in 0..(t.total - t.done) : u = Io!Sent(t, k)
   BY <1>2, SentIo, OpenSettledIo
 <1>3. CASE u = Io!CloseStream(t)
   BY <1>3, CloseStreamIo
 <1>4. QED
   BY <1>1, <1>2, <1>3


-----------------------------------------------------------------------------
(* The handshake *)

(* Nobody waits for it, or another. *)
HandedIo(t, b) ==
  /\ b.total = t.total /\ b.done = t.done /\ b.futures = t.futures
  /\ b.onclose = t.onclose /\ b.connect = t.connect
  /\ b.tls = t.tls /\ b.connecting = t.connecting /\ b.accepting = t.accepting /\ b.wants = t.wants
  /\ b.listen = t.listen /\ b.pending = t.pending /\ b.queue = t.queue /\ b.read = t.read
  /\ b.recvd = t.recvd /\ b.taken = t.taken /\ b.closed = t.closed

LEMMA HandedLeadsIo ==
  ASSUME NEW t \in StreamsIo, NEW b, HandedIo(t, b), t.late => b.late PROVE LeadsIo(t, b)
 <1>1. AnswersIo(t, b) /\ b.total - b.done <= t.total - t.done
  <2>1. t.total \in Nat /\ t.done \in Nat
    BY DEF StreamsIo
  <2>2. QED
    BY <2>1 DEF AnswersIo, HandedIo
 <1>2. QED
   BY <1>1 DEF LeadsIo, HandedIo

LEMMA RunSslConnectIo ==
  ASSUME NEW t, HalfIo(t, 0), ~t.closed
  PROVE  LET v == Io!RunSslConnectCallback(t)
         IN HalfIo(v, 0) /\ LeadsIo(t, v) /\ ~v.closed /\ v.accepting = t.accepting
 <1> DEFINE b == [t EXCEPT !.handshake = "none"]
            v == Io!RunCallback(b, "tls")
            u == Io!RunSslConnectCallback(t)
 <1>1. t \in StreamsIo /\ TlsOkIo(t.queue, t.tls, t.handshake, t.onclose) /\ t.onclose # "told"
   BY DEF HalfIo
 <1>2. b \in StreamsIo
   BY <1>1 DEF StreamsIo
 <1>3. HandedIo(t, b)
   BY <1>1 DEF StreamsIo, HandedIo
 <1>4. b.handshake = "none" /\ b.late = t.late
   BY <1>1 DEF StreamsIo
 <1>5. LeadsIo(t, b)
   BY <1>1, <1>3, <1>4, HandedLeadsIo
 <1>6. CASE t.handshake # "tls"
  <2>1. u = b
    BY <1>6 DEF Io!RunSslConnectCallback
  <2> HIDE DEF b, u
  <2>2. TlsOkIo(b.queue, b.tls, b.handshake, b.onclose)
    BY <1>1, <1>3, <1>4 DEF TlsOkIo, HandedIo
  <2>3. HalfIo(b, 0)
    BY <1>2, <1>3, <1>4, <2>2 DEF HalfIo, HandedIo
  <2>4. QED
    BY <2>1, <2>3, <1>3, <1>5 DEF HandedIo, u
 <1>7. CASE t.handshake = "tls"
  <2>1. u = v
    BY <1>7 DEF Io!RunSslConnectCallback
  <2> HIDE DEF b, u
  <2>2. t.queue \in QueuesIo /\ t.pending \in Nat /\ CountIo(t.queue) \in Nat
    BY <1>1, CountIsIo DEF StreamsIo
  <2>3. /\ TlsOkIo(Append(t.queue, "tls"), t.tls, "none", t.onclose)
        /\ HasIo(Append(t.queue, "tls"), "close callback") <=> HasIo(t.queue, "close callback")
    BY <1>1, <1>7, <2>2, AppendTlsIo
  <2>4. "tls" \in EntriesIo /\ "tls" # "close"
    BY DEF EntriesIo
  <2>5. CountIo(Append(t.queue, "tls")) = CountIo(t.queue) + 1
    BY <2>2, <2>4, CountAppendIo
  <2>6. /\ v \in StreamsIo /\ KeepsIo(b, v) /\ v.listen = b.listen
        /\ v.read = b.read /\ v.recvd = b.recvd /\ v.taken = b.taken
        /\ v.pending = b.pending + 1 /\ v.queue = Append(b.queue, "tls")
    BY <1>2, <2>4, RunCallbackIs
  <2> HIDE DEF v
  <2>7. ~HasIo(v.queue, "close callback")
   <3>1. ~HasIo(t.queue, "close callback")
     BY <1>1 DEF TlsOkIo
   <3>2. QED
     BY <3>1, <2>3, <2>6, <1>3 DEF HandedIo
  <2>8. LastOkIo(v.queue, v.late)
    BY <2>7, LastFreeIo
  <2>9. /\ v.total = t.total /\ v.done = t.done /\ v.futures = t.futures /\ v.onclose = t.onclose
        /\ v.tls = t.tls /\ v.handshake = "none" /\ v.closed = t.closed /\ v.accepting = t.accepting
    BY <1>3, <1>4, <2>6 DEF HandedIo, KeepsIo
  <2>10. /\ v.listen = t.listen /\ v.recvd = t.recvd /\ v.taken = t.taken
         /\ v.pending = t.pending + 1 /\ v.queue = Append(t.queue, "tls")
    BY <1>3, <2>6 DEF HandedIo
  <2>11. v.pending = CountIo(v.queue) + 0
   <3>1. t.pending = CountIo(t.queue) + 0
     BY DEF HalfIo
   <3>2. QED
     BY <3>1, <2>2, <2>5, <2>10
  <2>12. TlsOkIo(v.queue, v.tls, v.handshake, v.onclose)
    BY <2>3, <2>9, <2>10
  <2>13. HalfIo(v, 0)
    BY <2>6, <2>8, <2>9, <2>10, <2>11, <2>12 DEF HalfIo
  <2>14. LeadsIo(t, v)
   <3>1. LeadsIo(b, v)
     BY <1>2, <2>6, KeepsLeadsIo
   <3>2. QED
     BY <1>1, <1>2, <1>5, <2>6, <3>1, LeadsOnIo
  <2>15. QED
    BY <2>1, <2>9, <2>13, <2>14 DEF u
 <1>8. QED
   BY <1>6, <1>7

LEMMA WantsIo ==
  ASSUME NEW t, HalfIo(t, 0), NEW want \in {"none", "R", "W"}
  PROVE  /\ \A b \in {[t EXCEPT !.wants = want]} :
              HalfIo(b, 0) /\ LeadsIo(t, b) /\ b.closed = t.closed /\ b.wants = want
         /\ \A b \in {[t EXCEPT !.wants = want, !.accepting = FALSE]} :
              HalfIo(b, 0) /\ LeadsIo(t, b) /\ b.closed = t.closed /\ ~b.accepting
 <1>1. t \in StreamsIo
   BY DEF HalfIo
 <1>2. ASSUME NEW b, b = [t EXCEPT !.wants = want]
       PROVE  HalfIo(b, 0) /\ LeadsIo(t, b) /\ b.closed = t.closed /\ b.wants = want
  <2>1. b \in StreamsIo /\ b.wants = want
    BY <1>1, <1>2 DEF StreamsIo
  <2>2. PlainIo(t, b)
    BY <1>1, <1>2 DEF StreamsIo, PlainIo
  <2>3. QED
    BY <2>1, <2>2, PlainHalfIo DEF PlainIo
 <1>3. ASSUME NEW b, b = [t EXCEPT !.wants = want, !.accepting = FALSE]
       PROVE  HalfIo(b, 0) /\ LeadsIo(t, b) /\ b.closed = t.closed /\ ~b.accepting
  <2>1. b \in StreamsIo /\ ~b.accepting
    BY <1>1, <1>3 DEF StreamsIo
  <2>2. PlainIo(t, b)
    BY <1>1, <1>3 DEF StreamsIo, PlainIo
  <2>3. QED
    BY <2>1, <2>2, PlainHalfIo DEF PlainIo
 <1>4. QED
   BY <1>2, <1>3

(* A close leaves nobody. *)
LEMMA ThenCloseIo ==
  ASSUME NEW t \in StreamsIo, NEW b, HalfIo(b, 0), LeadsIo(t, b)
  PROVE  LET u == Io!CloseStream(b) IN HalfIo(u, 0) /\ LeadsIo(t, u) /\ SettledIo(u) /\ u.closed
 <1> DEFINE u == Io!CloseStream(b)
 <1>1. HalfIo(u, 0) /\ SettledIo(u) /\ LeadsIo(b, u) /\ u.closed
   BY CloseStreamIo
 <1> HIDE DEF u
 <1>2. b \in StreamsIo /\ u \in StreamsIo
   BY <1>1 DEF HalfIo
 <1>3. LeadsIo(t, u)
   BY <1>1, <1>2, LeadsOnIo
 <1>4. QED
   BY <1>1, <1>3 DEF u

LEMMA HandshakeIo ==
  ASSUME NEW t, HalfIo(t, 0), ~t.closed, NEW u \in Io!Handshake(t)
  PROVE  /\ HalfIo(u, 0) /\ LeadsIo(t, u) /\ SettledIo(u)
         /\ u.closed \/ ~u.accepting \/ u.wants # "none"
 <1> DEFINE c == [t EXCEPT !.wants = "none"]
            d == [t EXCEPT !.wants = "none", !.accepting = FALSE]
 <1>1. \/ \E want \in {"R", "W"} : u = [t EXCEPT !.wants = want]
       \/ u = Io!RunSslConnectCallback(d)
       \/ u = Io!CloseStream(c)
       \/ u = Io!CloseStream(d)
   BY DEF Io!Handshake
 <1>2. /\ HalfIo(c, 0) /\ LeadsIo(t, c)
       /\ HalfIo(d, 0) /\ LeadsIo(t, d) /\ d.closed = t.closed /\ ~d.accepting
   BY WantsIo
 <1> HIDE DEF c, d
 <1>3. t \in StreamsIo /\ d \in StreamsIo
   BY <1>2 DEF HalfIo
 <1>4. CASE \E want \in {"R", "W"} : u = [t EXCEPT !.wants = want]
  <2>1. PICK want \in {"R", "W"} : u = [t EXCEPT !.wants = want]
    BY <1>4
  <2>2. HalfIo(u, 0) /\ LeadsIo(t, u) /\ u.closed = t.closed /\ u.wants = want
    BY <2>1, WantsIo
  <2>3. QED
    BY <2>2, OpenSettledIo
 <1>5. CASE u = Io!RunSslConnectCallback(d)
  <2>1. HalfIo(u, 0) /\ LeadsIo(d, u) /\ ~u.closed /\ u.accepting = d.accepting
    BY <1>2, <1>5, RunSslConnectIo
  <2>2. u \in StreamsIo
    BY <2>1 DEF HalfIo
  <2>3. LeadsIo(t, u)
    BY <1>2, <1>3, <2>1, <2>2, LeadsOnIo
  <2>4. QED
    BY <1>2, <2>1, <2>3, OpenSettledIo
 <1>6. CASE u = Io!CloseStream(c)
   BY <1>2, <1>3, <1>6, ThenCloseIo
 <1>7. CASE u = Io!CloseStream(d)
   BY <1>2, <1>3, <1>7, ThenCloseIo
 <1>8. QED
   BY <1>1, <1>4, <1>5, <1>6, <1>7

LEMMA HandleWriteIo ==
  ASSUME NEW t, HalfIo(t, 0), ~t.closed, NEW u \in Io!HandleWrite(t)
  PROVE  /\ HalfIo(u, 0) /\ LeadsIo(t, u) /\ SettledIo(u)
         /\ u.closed \/ ~u.accepting \/ u.wants # "none"
 <1>1. CASE t.accepting
  <2>1. u \in Io!Handshake(t)
    BY <1>1 DEF Io!HandleWrite
  <2>2. QED
    BY <2>1, HandshakeIo
 <1>2. CASE ~t.accepting
  <2>1. u \in Io!HandlePlainWrite(t)
    BY <1>2 DEF Io!HandleWrite
  <2>2. HalfIo(u, 0) /\ LeadsIo(t, u) /\ SettledIo(u)
    BY <2>1, HandlePlainWriteIo
  <2>3. u.closed \/ ~u.accepting
    BY <1>2, <2>2 DEF LeadsIo
  <2>4. QED
    BY <2>2, <2>3
 <1>3. QED
   BY <1>1, <1>2

-----------------------------------------------------------------------------
(* write() *)

LEMMA AppendWriteIo ==
  ASSUME StreamBounds, NEW t, HalfIo(t, 0), ~t.closed, NEW n \in Sizes, NEW via
  PROVE  LET u == Io!AppendWrite(t, n, via) IN
         /\ HalfIo(u, 0) /\ ~u.closed /\ AnswersIo(t, u)
         /\ u.late = t.late /\ u.tls = t.tls /\ u.connecting = t.connecting /\ u.accepting = t.accepting
         /\ u.read = t.read /\ u.listen = t.listen
         /\ u.recvd = t.recvd /\ u.taken = t.taken /\ u.pending = t.pending /\ u.onclose = t.onclose
 <1> DEFINE total == t.total + n
            writer == (t.writer \/ via = "callback")
            fs == IF via = "future" THEN Append(t.futures, total) ELSE t.futures
            u == [t EXCEPT !.total = total, !.writer = writer, !.futures = fs]
 <1>1. /\ t \in StreamsIo /\ t.done \in Nat /\ t.total \in Nat /\ t.futures \in Seq(Nat)
       /\ InTurnIo(t.futures, t.done, t.total) /\ t.done <= t.total
   BY DEF HalfIo, StreamsIo
 <1>2. total \in Nat /\ t.total < total
   BY <1>1 DEF StreamBounds
 <1>3. writer \in BOOLEAN
   OBVIOUS
 <1>4. Io!AppendWrite(t, n, via) = u
   BY DEF Io!AppendWrite
 <1> HIDE DEF total, writer
 <1>5. ASSUME via = "future"
       PROVE  /\ fs \in Seq(Nat) /\ InTurnIo(fs, t.done, total)
              /\ \A i \in DOMAIN t.futures : i \in DOMAIN fs /\ fs[i] = t.futures[i]
  <2>1. fs = Append(t.futures, total)
    BY <1>5
  <2> HIDE DEF fs
  <2>2. /\ fs \in Seq(Nat) /\ Len(fs) = Len(t.futures) + 1 /\ Len(t.futures) \in Nat
        /\ DOMAIN fs = 1..Len(fs) /\ DOMAIN t.futures = 1..Len(t.futures)
        /\ \A i \in 1..Len(t.futures) : fs[i] = t.futures[i]
        /\ fs[Len(t.futures) + 1] = total
    BY <1>1, <1>2, <2>1, AppendProperties, LenProperties
  <2>3. \A i \in DOMAIN fs : i \in DOMAIN t.futures \/ i = Len(t.futures) + 1
    BY <2>2
  <2>4. \A i \in DOMAIN t.futures : i \in DOMAIN fs /\ fs[i] = t.futures[i] /\ fs[i] \in Nat
    BY <1>1, <2>2
  <2>5. InTurnIo(fs, t.done, total)
   <3> SUFFICES ASSUME NEW i \in DOMAIN fs
                PROVE  /\ fs[i] > t.done /\ fs[i] <= total
                       /\ \A j \in DOMAIN fs : i < j => fs[i] < fs[j]
     BY DEF InTurnIo
   <3>1. CASE i = Len(t.futures) + 1
    <4>1. \A j \in DOMAIN fs : ~(i < j)
      BY <2>2, <3>1
    <4>2. fs[i] = total
      BY <2>2, <3>1
    <4>3. total > t.done
      BY <1>1, <1>2
    <4>4. QED
      BY <4>1, <4>2, <4>3, <1>2
   <3>2. CASE i \in DOMAIN t.futures
    <4>1. /\ fs[i] = t.futures[i] /\ fs[i] \in Nat /\ fs[i] > t.done /\ fs[i] <= t.total
          /\ \A j \in DOMAIN t.futures : i < j => t.futures[i] < t.futures[j]
      BY <1>1, <2>4, <3>2 DEF InTurnIo
    <4>2. fs[i] < total
      BY <4>1, <1>1, <1>2
    <4>3. ASSUME NEW j \in DOMAIN fs, i < j PROVE fs[i] < fs[j]
      BY <2>2, <2>3, <2>4, <4>1, <4>2, <4>3
    <4>4. QED
      BY <4>1, <4>2, <4>3, <1>2
   <3>3. QED
     BY <2>3, <3>1, <3>2
  <2>6. QED
    BY <2>2, <2>4, <2>5
 <1>6. ASSUME via # "future"
       PROVE  /\ fs \in Seq(Nat) /\ InTurnIo(fs, t.done, total)
              /\ \A i \in DOMAIN t.futures : i \in DOMAIN fs /\ fs[i] = t.futures[i]
  <2>1. fs = t.futures
    BY <1>6
  <2> HIDE DEF fs
  <2>2. InTurnIo(t.futures, t.done, total)
   <3>1. \A i \in DOMAIN t.futures : t.futures[i] \in Nat
     BY <1>1
   <3>2. QED
     BY <3>1, <1>1, <1>2 DEF InTurnIo
  <2>3. QED
    BY <1>1, <2>1, <2>2
 <1>7. /\ fs \in Seq(Nat) /\ InTurnIo(fs, t.done, total)
       /\ \A i \in DOMAIN t.futures : i \in DOMAIN fs /\ fs[i] = t.futures[i]
   BY <1>5, <1>6
 <1> HIDE DEF fs
 <1>8. u \in StreamsIo
   BY <1>1, <1>2, <1>3, <1>7 DEF StreamsIo
 <1>9. /\ u.total = total /\ u.futures = fs /\ u.done = t.done /\ u.closed = t.closed
       /\ u.late = t.late /\ u.tls = t.tls /\ u.connecting = t.connecting /\ u.accepting = t.accepting
   BY <1>1 DEF StreamsIo
 <1>10. /\ u.read = t.read /\ u.listen = t.listen /\ u.handshake = t.handshake /\ u.queue = t.queue
        /\ u.recvd = t.recvd /\ u.taken = t.taken /\ u.pending = t.pending /\ u.onclose = t.onclose
   BY <1>1 DEF StreamsIo
 <1> HIDE DEF u
 <1>11. HalfIo(u, 0)
  <2>1. u.done <= u.total /\ InTurnIo(u.futures, u.done, u.total)
    BY <1>1, <1>2, <1>7, <1>9
  <2>2. QED
    BY <2>1, <1>8, <1>9, <1>10 DEF HalfIo
 <1>12. AnswersIo(t, u)
  <2>1. t.done <= u.done
    BY <1>1, <1>9
  <2>2. QED
    BY <2>1, <1>7, <1>9 DEF AnswersIo
 <1>13. QED
   BY <1>4, <1>9, <1>10, <1>11, <1>12

LEMMA ListenOnIo ==
  ASSUME NEW v, HalfIo(v, 0)
  PROVE  LET y == Io!ListenOn(v) IN
         /\ HalfIo(y, 0) /\ SettledIo(y) /\ LeadsIo(v, y) /\ IdleHearsIo(y)
         /\ ~y.closed /\ y.total > y.done => "W" \in y.listen
 <1> DEFINE x == IF Io!Unwritten(v) > 0 THEN Io!AddIoState(v, "W") ELSE v
            y == Io!MaybeAddErrorListener(x)
 <1>1. v \in StreamsIo /\ 0 \in Nat /\ v.total \in Nat /\ v.done \in Nat
   BY DEF HalfIo, StreamsIo
 <1>2. HalfIo(x, 0) /\ LeadsIo(v, x) /\ KeepsIo(v, x) /\ (~x.closed /\ x.total > x.done => "W" \in x.listen)
  <2>1. CASE Io!Unwritten(v) > 0
   <3>1. x = Io!AddIoState(v, "W")
     BY <2>1
   <3> HIDE DEF x
   <3>2. /\ HalfIo(x, 0) /\ KeepsIo(v, x) /\ LeadsIo(v, x)
         /\ ~v.closed => x.listen = v.listen \cup {"W"}
     BY <1>1, <3>1, AddIoStateIo
   <3>3. QED
     BY <3>2 DEF KeepsIo
  <2>2. CASE ~(Io!Unwritten(v) > 0)
   <3>1. x = v
     BY <2>2
   <3> HIDE DEF x
   <3>2. ~(v.total > v.done)
     BY <1>1, <2>2 DEF Io!Unwritten
   <3>3. QED
     BY <3>1, <3>2, <1>1, LeadsSelfIo
  <2>3. QED
    BY <2>1, <2>2
 <1> HIDE DEF x
 <1>3. /\ HalfIo(y, 0) /\ SettledIo(y) /\ LeadsIo(x, y)
       /\ y.closed = x.closed
       /\ ~x.closed => /\ KeepsIo(x, y) /\ x.listen \subseteq y.listen
                       /\ IdleIo(y) => y.listen # {}
   BY <1>1, <1>2, MaybeAddIo
 <1>4. Io!ListenOn(v) = y
   BY DEF Io!ListenOn, x
 <1> HIDE DEF y
 <1>5. x \in StreamsIo /\ y \in StreamsIo
   BY <1>2, <1>3 DEF HalfIo
 <1>6. LeadsIo(v, y)
   BY <1>1, <1>2, <1>3, <1>5, LeadsOnIo
 <1>7. IdleHearsIo(y)
   BY <1>3 DEF IdleHearsIo, IdleIo
 <1>8. ~y.closed /\ y.total > y.done => "W" \in y.listen
   BY <1>2, <1>3 DEF KeepsIo
 <1>9. QED
   BY <1>3, <1>4, <1>6, <1>7, <1>8

LEMMA WriteIo ==
  ASSUME StreamBounds, NEW t, HalfIo(t, 0), NEW u \in Io!Write(t)
  PROVE  CalledIo(t, u)
 <1>1. t \in StreamsIo
   BY DEF HalfIo
 <1>2. \/ u = t
       \/ (~t.closed /\ \E n \in Sizes, via \in {"callback", "future"} :
             \/ (t.connecting /\ u = Io!AppendWrite(t, n, via))
             \/ (~t.connecting /\ \E v \in Io!HandleWrite(Io!AppendWrite(t, n, via)) : u = Io!ListenOn(v)))
  <2>1. CASE t.closed
    BY <2>1 DEF Io!Write
  <2>2. CASE ~t.closed
   <3>1. PICK n \in Sizes, via \in {"callback", "future"} : u \in Io!WriteOnce(t, n, via)
     BY <2>2 DEF Io!Write, Io!Vias
   <3> DEFINE w == Io!AppendWrite(t, n, via)
   <3>2. u \in IF Io!Unwritten(w) > MaxWrite THEN {t}
               ELSE IF t.connecting THEN {w} ELSE {Io!ListenOn(v) : v \in Io!HandleWrite(w)}
     BY <3>1 DEF Io!WriteOnce
   <3> HIDE DEF w
   <3>3. u = t \/ (t.connecting /\ u = w) \/ (~t.connecting /\ \E v \in Io!HandleWrite(w) : u = Io!ListenOn(v))
     BY <3>2
   <3>4. QED
     BY <3>3, <2>2 DEF w
  <2>3. QED
    BY <2>1, <2>2
 <1>3. CASE u = t
   BY <1>3, <1>1, LeadsSelfIo, LeadsCalledIo
 <1>4. CASE ~t.closed /\ \E n \in Sizes, via \in {"callback", "future"} :
             \/ (t.connecting /\ u = Io!AppendWrite(t, n, via))
             \/ (~t.connecting /\ \E v \in Io!HandleWrite(Io!AppendWrite(t, n, via)) : u = Io!ListenOn(v))
  <2>1. PICK n \in Sizes, via \in {"callback", "future"} :
            \/ (t.connecting /\ u = Io!AppendWrite(t, n, via))
            \/ (~t.connecting /\ \E v \in Io!HandleWrite(Io!AppendWrite(t, n, via)) : u = Io!ListenOn(v))
    BY <1>4
  <2> DEFINE w == Io!AppendWrite(t, n, via)
  <2>2. /\ HalfIo(w, 0) /\ ~w.closed /\ AnswersIo(t, w)
        /\ w.late = t.late /\ w.tls = t.tls /\ w.connecting = t.connecting /\ w.accepting = t.accepting
        /\ w.read = t.read /\ w.listen = t.listen
    BY <1>4, AppendWriteIo
  <2>3. \/ (t.connecting /\ u = w)
        \/ (~t.connecting /\ \E v \in Io!HandleWrite(w) : u = Io!ListenOn(v))
    BY <2>1
  <2> HIDE DEF w
  <2>4. w \in StreamsIo
    BY <2>2 DEF HalfIo
  <2>5. CASE t.connecting /\ u = w
   <3>1. ReadEarIo(t) => ReadEarIo(w)
     BY <1>4, <2>2 DEF ReadEarIo
   <3>2. RestEarIo(t) => RestEarIo(w)
     BY <1>4, <2>2, <2>5 DEF RestEarIo
   <3>3. SettledIo(w)
     BY <2>2, OpenSettledIo
   <3>4. QED
     BY <1>4, <2>2, <2>5, <3>1, <3>2, <3>3 DEF CalledIo
  <2>6. CASE ~t.connecting /\ \E v \in Io!HandleWrite(w) : u = Io!ListenOn(v)
   <3>1. PICK v \in Io!HandleWrite(w) : u = Io!ListenOn(v)
     BY <2>6
   <3>2. HalfIo(v, 0) /\ LeadsIo(w, v)
     BY <2>2, HandleWriteIo
   <3>3. /\ HalfIo(u, 0) /\ SettledIo(u) /\ LeadsIo(v, u) /\ IdleHearsIo(u)
         /\ ~u.closed /\ u.total > u.done => "W" \in u.listen
     BY <3>1, <3>2, ListenOnIo
   <3>4. v \in StreamsIo /\ u \in StreamsIo
     BY <3>2, <3>3 DEF HalfIo
   <3>5. LeadsIo(w, u)
     BY <2>4, <3>2, <3>3, <3>4, LeadsOnIo
   <3>6. u.closed \/ AnswersIo(t, u)
    <4>1. u.closed \/ AnswersIo(w, u)
      BY <3>5 DEF LeadsIo
    <4>2. QED
      BY <4>1, <1>1, <2>2, <2>4, <3>4, AnswersOnIo
   <3>7. ReadEarIo(t) => ReadEarIo(u)
    <4>1. ReadEarIo(w) => ReadEarIo(u)
      BY <2>4, <3>4, <3>5, LeadsEarIo
    <4>2. ReadEarIo(t) => ReadEarIo(w)
      BY <1>4, <2>2 DEF ReadEarIo
    <4>3. QED
      BY <4>1, <4>2
   <3>8. RestEarIo(t) => RestEarIo(u)
    <4>1. u.closed \/ /\ w.listen \subseteq u.listen
                      /\ u.connecting => w.connecting
                      /\ u.accepting => w.accepting
      BY <3>5 DEF LeadsIo
    <4>2. QED
      BY <4>1, <1>4, <2>2, <2>6, <3>3 DEF RestEarIo
   <3>9. (t.late => u.late) /\ u.tls = t.tls
     BY <2>2, <3>5 DEF LeadsIo
   <3>10. QED
     BY <1>4, <3>3, <3>6, <3>7, <3>8, <3>9 DEF CalledIo
  <2>7. QED
    BY <2>3, <2>5, <2>6
 <1>5. QED
   BY <1>2, <1>3, <1>4

-----------------------------------------------------------------------------
(* The user's calls *)

LEMMA SetCloseCallbackIo ==
  ASSUME NEW t, HalfIo(t, 0), NEW u \in Io!SetCloseCallback(t)
  PROVE  CalledIo(t, u) /\ SettledIo(u) /\ IdleHearsIo(u)
 <1> DEFINE oc == IF t.onclose = "told" THEN t.onclose ELSE "set"
            b == [t EXCEPT !.onclose = oc]
 <1>1. t \in StreamsIo /\ TlsOkIo(t.queue, t.tls, t.handshake, t.onclose) /\ 0 \in Nat
   BY DEF HalfIo
 <1>2. oc \in {"set", "told"} /\ (oc = "told" <=> t.onclose = "told") /\ (t.onclose = "set" => oc = "set")
   OBVIOUS
 <1>3. u = Io!MaybeAddErrorListener(b)
   BY DEF Io!SetCloseCallback
 <1> HIDE DEF oc
 <1>4. b \in StreamsIo
   BY <1>1, <1>2 DEF StreamsIo
 <1>5. /\ b.total = t.total /\ b.done = t.done /\ b.futures = t.futures /\ b.onclose = oc
       /\ b.tls = t.tls /\ b.connecting = t.connecting /\ b.accepting = t.accepting /\ b.handshake = t.handshake
   BY <1>1 DEF StreamsIo
 <1>6. /\ b.listen = t.listen /\ b.pending = t.pending /\ b.queue = t.queue /\ b.read = t.read
       /\ b.recvd = t.recvd /\ b.taken = t.taken /\ b.closed = t.closed /\ b.late = t.late
   BY <1>1 DEF StreamsIo
 <1> HIDE DEF b
 <1>7. TlsOkIo(b.queue, b.tls, b.handshake, b.onclose)
   BY <1>1, <1>2, <1>5, <1>6 DEF TlsOkIo
 <1>8. HalfIo(b, 0)
   BY <1>2, <1>4, <1>5, <1>6, <1>7 DEF HalfIo
 <1>9. LeadsIo(t, b)
  <2>1. t.total \in Nat /\ t.done \in Nat
    BY <1>1 DEF StreamsIo
  <2>2. AnswersIo(t, b) /\ b.total - b.done <= t.total - t.done
    BY <2>1, <1>5 DEF AnswersIo
  <2>3. QED
    BY <2>2, <1>5, <1>6 DEF LeadsIo
 <1>10. /\ HalfIo(u, 0) /\ SettledIo(u) /\ LeadsIo(b, u)
        /\ u.closed = b.closed
        /\ ~b.closed => (IdleIo(u) => u.listen # {})
   BY <1>1, <1>3, <1>8, MaybeAddIo
 <1>11. u \in StreamsIo
   BY <1>10 DEF HalfIo
 <1>12. LeadsIo(t, u)
   BY <1>1, <1>4, <1>9, <1>10, <1>11, LeadsOnIo
 <1>13. IdleHearsIo(u)
   BY <1>10 DEF IdleHearsIo, IdleIo
 <1>14. QED
   BY <1>1, <1>10, <1>12, <1>13, LeadsCalledIo

LEMMA WaitForHandshakeIo ==
  ASSUME NEW t, HalfIo(t, 0), t.handshake = "none", NEW u \in Io!WaitForHandshake(t)
  PROVE  CalledIo(t, u)
 <1> DEFINE late == (t.late \/ t.closed)
 <1>1. t \in StreamsIo /\ TlsOkIo(t.queue, t.tls, t.handshake, t.onclose) /\ late \in BOOLEAN
   BY DEF HalfIo, StreamsIo
 <1>2. u = [t EXCEPT !.handshake = "future", !.late = late]
   BY DEF Io!WaitForHandshake
 <1>3. (t.late => late) /\ (t.closed => late)
   OBVIOUS
 <1> HIDE DEF late
 <1>4. u \in StreamsIo /\ u.handshake = "future" /\ u.late = late
   BY <1>1, <1>2 DEF StreamsIo
 <1>5. HandedIo(t, u)
   BY <1>1, <1>2 DEF StreamsIo, HandedIo
 <1>6. LeadsIo(t, u)
   BY <1>1, <1>3, <1>4, <1>5, HandedLeadsIo
 <1>7. TlsOkIo(u.queue, u.tls, u.handshake, u.onclose)
   BY <1>1, <1>4, <1>5 DEF TlsOkIo, HandedIo
 <1>8. LastOkIo(u.queue, u.late)
   BY <1>3, <1>4, <1>5 DEF LastOkIo, HandedIo, HalfIo
 <1>9. HalfIo(u, 0)
   BY <1>4, <1>5, <1>7, <1>8 DEF HalfIo, HandedIo
 <1>10. SettledIo(t) => SettledIo(u)
   BY <1>3, <1>4, <1>5 DEF SettledIo, HandedIo
 <1>11. IdleHearsIo(t) => IdleHearsIo(u)
   BY <1>5 DEF IdleHearsIo, HandedIo
 <1>12. QED
   BY <1>1, <1>6, <1>9, <1>10, <1>11, LeadsCalledIo

LEMMA UserCallsIo ==
  ASSUME StreamBounds, NEW t, HalfIo(t, 0), FreeIo(t), peerIo.sent \in Nat, NEW u \in Io!UserCalls(t)
  PROVE  CalledIo(t, u)
 <1>1. \/ u \in Io!ReadBytes(t)
       \/ u \in Io!ReadUntil(t)
       \/ u \in Io!ReadUntilClose(t)
       \/ u \in Io!Write(t)
       \/ u \in Io!SetCloseCallback(t)
       \/ u = Io!CloseStream(t)
       \/ (t.handshake = "none" /\ u \in Io!WaitForHandshake(t))
   BY DEF Io!UserCalls
 <1>2. t \in StreamsIo
   BY DEF HalfIo
 <1>3. CASE u = Io!CloseStream(t)
  <2>1. HalfIo(u, 0) /\ SettledIo(u) /\ LeadsIo(t, u) /\ u.closed
    BY <1>3, CloseStreamIo
  <2>2. QED
    BY <2>1, ClosedCalledIo DEF LeadsIo
 <1>4. QED
   BY <1>1, <1>3, ReadBytesIo, ReadUntilIo, ReadUntilCloseIo, WriteIo, SetCloseCallbackIo, WaitForHandshakeIo


-----------------------------------------------------------------------------
(* Events *)

LEMMA HandleConnectIo ==
  ASSUME NEW t, HalfIo(t, 0), ~t.closed, NEW u \in Io!HandleConnect(t)
  PROVE  /\ HalfIo(u, 0) /\ LeadsIo(t, u) /\ SettledIo(u)
         /\ u.closed \/ ~u.connecting
         /\ ~t.connecting => u = t
 <1> DEFINE b == [t EXCEPT !.connect = "none", !.connecting = FALSE]
 <1>1. t \in StreamsIo
   BY DEF HalfIo
 <1>2. \/ (u = t /\ ~t.connecting)
       \/ (u = Io!CloseStream(t) /\ t.connecting)
       \/ (u = b /\ t.connecting)
   BY DEF Io!HandleConnect, Io!Connected
 <1>3. CASE u = t /\ ~t.connecting
   BY <1>1, <1>3, LeadsSelfIo, OpenSettledIo
 <1>4. CASE u = Io!CloseStream(t) /\ t.connecting
   BY <1>4, CloseStreamIo
 <1>5. CASE u = b /\ t.connecting
  <2>1. u \in StreamsIo /\ ~u.connecting
    BY <1>1, <1>5 DEF StreamsIo
  <2>2. /\ u.total = t.total /\ u.done = t.done /\ u.futures = t.futures /\ u.onclose = t.onclose
        /\ u.tls = t.tls /\ u.accepting = t.accepting /\ u.handshake = t.handshake
    BY <1>1, <1>5 DEF StreamsIo
  <2>3. /\ u.listen = t.listen /\ u.pending = t.pending /\ u.queue = t.queue /\ u.read = t.read
        /\ u.recvd = t.recvd /\ u.taken = t.taken /\ u.closed = t.closed /\ u.late = t.late
    BY <1>1, <1>5 DEF StreamsIo
  <2> HIDE DEF b
  <2>4. HalfIo(u, 0)
    BY <2>1, <2>2, <2>3 DEF HalfIo
  <2>5. AnswersIo(t, u) /\ u.total - u.done <= t.total - t.done
   <3>1. t.total \in Nat /\ t.done \in Nat
     BY <1>1 DEF StreamsIo
   <3>2. QED
     BY <3>1, <2>2 DEF AnswersIo
  <2>6. LeadsIo(t, u)
    BY <2>1, <2>2, <2>3, <2>5 DEF LeadsIo
  <2>7. QED
    BY <1>5, <2>1, <2>3, <2>4, <2>6, OpenSettledIo
 <1>6. QED
   BY <1>2, <1>3, <1>4, <1>5

LEMMA OnReadIo ==
  ASSUME NEW t, HalfIo(t, 0), SettledIo(t), peerIo.sent \in Nat, NEW evs, NEW u \in Io!OnRead(t, evs)
  PROVE  /\ HalfIo(u, 0) /\ LeadsIo(t, u) /\ SettledIo(u)
         /\ u.closed \/ "R" \notin evs \/ ~u.accepting \/ u.wants # "none"
         /\ "R" \notin evs => u = t
 <1>1. t \in StreamsIo
   BY DEF HalfIo
 <1>2. CASE t.closed \/ "R" \notin evs
  <2>1. u = t
    BY <1>2 DEF Io!OnRead
  <2>2. QED
    BY <2>1, <1>1, <1>2, LeadsSelfIo
 <1>3. CASE ~(t.closed \/ "R" \notin evs) /\ t.accepting
  <2>1. u \in Io!Handshake(t)
    BY <1>3 DEF Io!OnRead
  <2>2. QED
    BY <2>1, <1>3, HandshakeIo
 <1>4. CASE ~(t.closed \/ "R" \notin evs) /\ ~t.accepting
  <2>1. u \in Io!HandleRead(t)
    BY <1>4 DEF Io!OnRead
  <2>2. HalfIo(u, 0) /\ SettledIo(u) /\ LeadsIo(t, u)
    BY <2>1, <1>4, HandleReadIo
  <2>3. QED
    BY <2>2, <1>4 DEF LeadsIo
 <1>5. QED
   BY <1>2, <1>3, <1>4

LEMMA OnWriteIo ==
  ASSUME NEW t, HalfIo(t, 0), SettledIo(t), NEW evs, NEW u \in Io!OnWrite(t, evs)
  PROVE  /\ HalfIo(u, 0) /\ LeadsIo(t, u) /\ SettledIo(u)
         /\ u.closed \/ "W" \notin evs \/ ~u.accepting \/ u.wants # "none"
         /\ "W" \notin evs => u = t
 <1>1. t \in StreamsIo
   BY DEF HalfIo
 <1>2. CASE t.closed \/ "W" \notin evs
  <2>1. u = t
    BY <1>2 DEF Io!OnWrite
  <2>2. QED
    BY <2>1, <1>1, <1>2, LeadsSelfIo
 <1>3. CASE ~(t.closed \/ "W" \notin evs)
  <2>1. u \in Io!HandleWrite(t)
    BY <1>3 DEF Io!OnWrite
  <2>2. QED
    BY <2>1, <1>3, HandleWriteIo
 <1>4. QED
   BY <1>2, <1>3

(* What it listens for now is what it needs.                               *)
LEMMA NewStateIo ==
  ASSUME NEW t, HalfIo(t, 0), ~t.closed, ~t.connecting, ~t.accepting \/ t.wants # "none"
  PROVE  LET u == Io!NewState(t) IN
         /\ HalfIo(u, 0) /\ EarIo(u) /\ AnswersIo(t, u) /\ u.late = t.late /\ u.tls = t.tls
         /\ u.closed = t.closed
 <1> DEFINE r == IF t.read.via # "none" \/ t.wants = "R" THEN {"R"} ELSE {}
            w == IF Io!Unwritten(t) > 0 \/ t.wants = "W" THEN {"W"} ELSE {}
            ls == IF r \cup w = {} /\ Io!Size(t) = 0 THEN {"R"} ELSE r \cup w
            u == [t EXCEPT !.listen = ls]
 <1>1. /\ t \in StreamsIo /\ t.total \in Nat /\ t.done \in Nat /\ t.recvd \in Nat /\ t.taken \in Nat
       /\ t.wants \in {"none", "R", "W"}
   BY DEF HalfIo, StreamsIo
 <1>2. /\ ls \in SUBSET {"R", "W"}
       /\ t.read.via # "none" => "R" \in ls
       /\ t.total > t.done => "W" \in ls
       /\ t.wants # "none" => ls # {}
       /\ t.recvd = t.taken => ls # {}
   BY <1>1 DEF Io!Unwritten, Io!Size
 <1>3. Io!NewState(t) = u
   BY DEF Io!NewState, Io!Reading
 <1> HIDE DEF ls, r, w
 <1>4. u \in StreamsIo /\ u.listen = ls
   BY <1>1, <1>2 DEF StreamsIo
 <1>5. /\ u.total = t.total /\ u.done = t.done /\ u.futures = t.futures /\ u.onclose = t.onclose
       /\ u.tls = t.tls /\ u.accepting = t.accepting /\ u.connecting = t.connecting /\ u.handshake = t.handshake
   BY <1>1 DEF StreamsIo
 <1>6. /\ u.wants = t.wants /\ u.pending = t.pending /\ u.queue = t.queue /\ u.read = t.read
       /\ u.recvd = t.recvd /\ u.taken = t.taken /\ u.closed = t.closed /\ u.late = t.late
   BY <1>1 DEF StreamsIo
 <1> HIDE DEF u
 <1>7. HalfIo(u, 0)
   BY <1>4, <1>5, <1>6 DEF HalfIo
 <1>8. ReadEarIo(u)
   BY <1>2, <1>4, <1>6 DEF ReadEarIo
 <1>9. RestEarIo(u)
   BY <1>2, <1>4, <1>5, <1>6 DEF RestEarIo
 <1>10. IdleHearsIo(u)
   BY <1>2, <1>4, <1>5, <1>6 DEF IdleHearsIo
 <1>11. AnswersIo(t, u)
  <2>1. t.done <= t.done
    BY <1>1
  <2>2. QED
    BY <2>1, <1>5 DEF AnswersIo
 <1>12. QED
   BY <1>3, <1>5, <1>6, <1>7, <1>8, <1>9, <1>10, <1>11 DEF EarIo

(* An error leaves the close to a callback.                                *)
LEMMA CloseLaterIo ==
  ASSUME NEW t, HalfIo(t, 0), ~t.closed
  PROVE  LET u == [t EXCEPT !.queue = Append(@, "close")] IN
         /\ HalfIo(u, 0) /\ AnswersIo(t, u) /\ u.late = t.late /\ u.tls = t.tls /\ u.closed = t.closed
         /\ ReadEarIo(t) => ReadEarIo(u)
         /\ RestEarIo(t) => RestEarIo(u)
         /\ IdleHearsIo(t) => IdleHearsIo(u)
 <1> DEFINE q == Append(t.queue, "close")
            u == [t EXCEPT !.queue = q]
 <1>1. /\ t \in StreamsIo /\ t.queue \in QueuesIo /\ t.done \in Nat /\ t.onclose # "told"
       /\ TlsOkIo(t.queue, t.tls, t.handshake, t.onclose)
   BY DEF HalfIo, StreamsIo
 <1>2. /\ q \in QueuesIo /\ TlsOkIo(q, t.tls, t.handshake, t.onclose)
       /\ HasIo(q, "close callback") <=> HasIo(t.queue, "close callback")
   BY <1>1, AppendOkIo
 <1>3. CountIo(q) = CountIo(t.queue)
  <2>1. CountIo(q) = CountIo(t.queue) + 0 /\ CountIo(t.queue) \in Nat
    BY <1>1, CountAppendIo, CountIsIo
  <2>2. QED
    BY <2>1
 <1>4. [t EXCEPT !.queue = Append(@, "close")] = u
   OBVIOUS
 <1> HIDE DEF q
 <1>5. u \in StreamsIo /\ u.queue = q
   BY <1>1, <1>2 DEF StreamsIo
 <1>6. /\ u.total = t.total /\ u.done = t.done /\ u.futures = t.futures /\ u.onclose = t.onclose
       /\ u.tls = t.tls /\ u.accepting = t.accepting /\ u.connecting = t.connecting /\ u.handshake = t.handshake
   BY <1>1 DEF StreamsIo
 <1>7. /\ u.listen = t.listen /\ u.pending = t.pending /\ u.read = t.read
       /\ u.recvd = t.recvd /\ u.taken = t.taken /\ u.closed = t.closed /\ u.late = t.late
   BY <1>1 DEF StreamsIo
 <1> HIDE DEF u
 <1>8. LastOkIo(q, u.late)
  <2>1. ~HasIo(q, "close callback")
    BY <1>1, <1>2 DEF TlsOkIo
  <2>2. QED
    BY <2>1, LastFreeIo
 <1>9. HalfIo(u, 0)
   BY <1>2, <1>3, <1>5, <1>6, <1>7, <1>8 DEF HalfIo
 <1>10. AnswersIo(t, u)
  <2>1. t.done <= t.done
    BY <1>1
  <2>2. QED
    BY <2>1, <1>6 DEF AnswersIo
 <1>11. /\ ReadEarIo(t) => ReadEarIo(u)
        /\ RestEarIo(t) => RestEarIo(u)
        /\ IdleHearsIo(t) => IdleHearsIo(u)
   BY <1>6, <1>7 DEF ReadEarIo, RestEarIo, IdleHearsIo
 <1>12. QED
   BY <1>4, <1>6, <1>7, <1>9, <1>10, <1>11

LEMMA HandleEventsIo ==
  ASSUME NEW t, HalfIo(t, 0), EarIo(t), ~t.closed, peerIo.sent \in Nat,
         NEW evs \in SUBSET {"R", "W", "E"}, evs # {}, evs \ {"E"} \subseteq t.listen,
         NEW u \in Io!HandleEvents(t, evs)
  PROVE  /\ HalfIo(u, 0) /\ SettledIo(u) /\ EarIo(u) /\ u.tls = t.tls /\ (t.late => u.late)
         /\ u.closed \/ AnswersIo(t, u)
 <1>100. \E a \in Io!HandleConnect(t) : \E b \in Io!OnRead(a, evs) : \E c \in Io!OnWrite(b, evs) :
           u = Io!OnRest(c, evs)
   BY DEF Io!HandleEvents
 <1>101. PICK a \in Io!HandleConnect(t) : \E b \in Io!OnRead(a, evs) : \E c \in Io!OnWrite(b, evs) :
           u = Io!OnRest(c, evs)
   BY <1>100
 <1>102. PICK b \in Io!OnRead(a, evs) : \E c \in Io!OnWrite(b, evs) : u = Io!OnRest(c, evs)
   BY <1>101
 <1>1. PICK c \in Io!OnWrite(b, evs) : u = Io!OnRest(c, evs)
   BY <1>102
 <1>2. t \in StreamsIo
   BY DEF HalfIo
 <1>3. /\ HalfIo(a, 0) /\ LeadsIo(t, a) /\ SettledIo(a)
       /\ a.closed \/ ~a.connecting
       /\ ~t.connecting => a = t
   BY HandleConnectIo
 <1>4. /\ HalfIo(b, 0) /\ LeadsIo(a, b) /\ SettledIo(b)
       /\ b.closed \/ "R" \notin evs \/ ~b.accepting \/ b.wants # "none"
       /\ "R" \notin evs => b = a
   BY <1>3, OnReadIo
 <1>5. /\ HalfIo(c, 0) /\ LeadsIo(b, c) /\ SettledIo(c)
       /\ c.closed \/ "W" \notin evs \/ ~c.accepting \/ c.wants # "none"
       /\ "W" \notin evs => c = b
   BY <1>4, OnWriteIo
 <1>6. a \in StreamsIo /\ b \in StreamsIo /\ c \in StreamsIo
   BY <1>3, <1>4, <1>5 DEF HalfIo
 <1>7. LeadsIo(a, c) /\ LeadsIo(t, c)
   BY <1>2, <1>3, <1>4, <1>5, <1>6, LeadsOnIo
 <1>8. c.closed \/ AnswersIo(t, c)
   BY <1>7 DEF LeadsIo
 <1>9. c.tls = t.tls /\ (t.late => c.late)
   BY <1>7 DEF LeadsIo
 <1>10. CASE c.closed
  <2>1. u = c
    BY <1>1, <1>10 DEF Io!OnRest
  <2>2. EarIo(c)
    BY <1>10 DEF EarIo, ReadEarIo, RestEarIo
  <2>3. QED
    BY <2>1, <2>2, <1>5, <1>9, <1>10
 <1>11. CASE ~c.closed /\ "E" \in evs
  <2> DEFINE v == [c EXCEPT !.queue = Append(@, "close")]
  <2>1. u = v
    BY <1>1, <1>11 DEF Io!OnRest
  <2>2. /\ HalfIo(v, 0) /\ AnswersIo(c, v) /\ v.late = c.late /\ v.tls = c.tls /\ v.closed = c.closed
        /\ ReadEarIo(c) => ReadEarIo(v)
        /\ RestEarIo(c) => RestEarIo(v)
        /\ IdleHearsIo(c) => IdleHearsIo(v)
    BY <1>5, <1>11, CloseLaterIo
  <2> HIDE DEF v
  <2>3. ReadEarIo(c) /\ RestEarIo(c)
    BY <1>2, <1>6, <1>7, LeadsEarIo DEF EarIo
  <2>4. IdleHearsIo(c)
   <3>1. CASE t.listen # {}
    <4>1. c.listen # {}
      BY <3>1, <1>7, <1>11 DEF LeadsIo
    <4>2. QED
      BY <4>1 DEF IdleHearsIo
   <3>2. CASE t.listen = {}
    <4>1. ~t.connecting
      BY <3>2 DEF EarIo, RestEarIo
    <4>2. c = t
      BY <3>2, <4>1, <1>3, <1>4, <1>5
    <4>3. QED
      BY <4>1, <4>2 DEF EarIo
   <3>3. QED
     BY <3>1, <3>2
  <2>5. v \in StreamsIo
    BY <2>2 DEF HalfIo
  <2>6. AnswersIo(t, v)
    BY <1>2, <1>6, <1>8, <1>11, <2>2, <2>5, AnswersOnIo
  <2>7. SettledIo(v)
    BY <1>11, <2>2, OpenSettledIo
  <2>8. EarIo(v)
    BY <2>2, <2>3, <2>4 DEF EarIo
  <2>9. QED
    BY <1>9, <2>1, <2>2, <2>6, <2>7, <2>8
 <1>12. CASE ~c.closed /\ "E" \notin evs
  <2>1. u = Io!NewState(c)
    BY <1>1, <1>12 DEF Io!OnRest
  <2>2. ~c.connecting
   <3>1. ~a.closed /\ ~a.connecting
     BY <1>3, <1>7, <1>12 DEF LeadsIo
   <3>2. QED
     BY <3>1, <1>7, <1>12 DEF LeadsIo
  <2>3. ~c.accepting \/ c.wants # "none"
   <3>1. CASE "W" \in evs
     BY <3>1, <1>5, <1>12
   <3>2. CASE "W" \notin evs
    <4>1. "R" \in evs
      BY <3>2, <1>12
    <4>2. c = b
      BY <3>2, <1>5
    <4>3. QED
      BY <4>1, <4>2, <1>4, <1>12
   <3>3. QED
     BY <3>1, <3>2
  <2>4. /\ HalfIo(u, 0) /\ EarIo(u) /\ AnswersIo(c, u) /\ u.late = c.late /\ u.tls = c.tls
        /\ u.closed = c.closed
    BY <1>5, <1>12, <2>1, <2>2, <2>3, NewStateIo
  <2>5. u \in StreamsIo
    BY <2>4 DEF HalfIo
  <2>6. AnswersIo(t, u)
    BY <1>2, <1>6, <1>8, <1>12, <2>4, <2>5, AnswersOnIo
  <2>7. QED
    BY <1>9, <1>12, <2>4, <2>6, OpenSettledIo
 <1>13. QED
   BY <1>10, <1>11, <1>12


-----------------------------------------------------------------------------
(* A read of a closed stream is the same when more was asked of it before  *)

LEMMA LateIsIo ==
  ASSUME NEW t \in StreamsIo
  PROVE  LET u == LateIo(t) IN
         /\ u \in StreamsIo
         /\ u.read = t.read /\ u.max = t.max /\ u.taken = t.taken /\ u.recvd = t.recvd
         /\ u.pending = t.pending /\ u.queue = t.queue /\ u.closed = t.closed /\ u.listen = t.listen
 <1>1. LateIo(t) \in StreamsIo
   BY DEF StreamsIo, LateIo
 <1>2. LET u == LateIo(t) IN
        /\ u.read = t.read /\ u.max = t.max /\ u.taken = t.taken /\ u.recvd = t.recvd
        /\ u.pending = t.pending /\ u.queue = t.queue /\ u.closed = t.closed /\ u.listen = t.listen
   BY DEF StreamsIo, LateIo
 <1>3. QED
   BY <1>1, <1>2

LEMMA LateCallbackIo ==
  ASSUME NEW t \in StreamsIo, NEW what \in EntriesIo
  PROVE  Io!RunCallback(LateIo(t), what) = LateIo(Io!RunCallback(t, what))
  BY DEF Io!RunCallback, LateIo, StreamsIo

LEMMA LateTakesIo ==
  ASSUME NEW t \in StreamsIo, NEW k \in Nat
  PROVE  /\ [LateIo(t) EXCEPT !.taken = @ + k] = LateIo([t EXCEPT !.taken = @ + k])
         /\ [LateIo(t) EXCEPT !.taken = @ + k, !.read.via = "none", !.read.streaming = FALSE]
              = LateIo([t EXCEPT !.taken = @ + k, !.read.via = "none", !.read.streaming = FALSE])
  BY DEF LateIo, StreamsIo, ReadsIo

LEMMA LateReadIo ==
  ASSUME NEW t \in StreamsIo, NEW r
  PROVE  [LateIo(t) EXCEPT !.read = r] = LateIo([t EXCEPT !.read = r])
  BY DEF LateIo, StreamsIo

LEMMA LateStreamIo ==
  ASSUME NEW t \in StreamsIo, NEW k \in Nat
  PROVE  Io!RunStream(LateIo(t), k) = LateIo(Io!RunStream(t, k))
 <1> DEFINE w == [t EXCEPT !.taken = @ + k]
 <1>1. w \in StreamsIo /\ "stream" \in EntriesIo
   BY TakesIs DEF EntriesIo
 <1>2. [LateIo(t) EXCEPT !.taken = @ + k] = LateIo(w)
   BY LateTakesIo
 <1>3. Io!RunStream(LateIo(t), k) = Io!RunCallback(LateIo(w), "stream") /\ Io!RunStream(t, k) = Io!RunCallback(w, "stream")
   BY <1>2 DEF Io!RunStream
 <1> HIDE DEF w
 <1>4. QED
   BY <1>1, <1>3, LateCallbackIo

LEMMA LateRunReadIo ==
  ASSUME NEW t \in StreamsIo, t.pending > 0, NEW k \in Nat
  PROVE  Io!RunRead(LateIo(t), k) = LateIo(Io!RunRead(t, k))
 <1> DEFINE w == [t EXCEPT !.taken = @ + k, !.read.via = "none", !.read.streaming = FALSE]
            x == [LateIo(t) EXCEPT !.taken = @ + k, !.read.via = "none", !.read.streaming = FALSE]
 <1>1. w \in StreamsIo /\ w.pending = t.pending /\ "read" \in EntriesIo
   BY TakesIs DEF EntriesIo
 <1>2. x = LateIo(w) /\ LateIo(t).read = t.read
   BY LateTakesIo, LateIsIo
 <1>3. /\ Io!RunRead(LateIo(t), k) = IF LateIo(t).read.via = "callback" THEN Io!RunCallback(x, "read")
                                    ELSE Io!MaybeAddErrorListener(x)
       /\ Io!RunRead(t, k) = IF t.read.via = "callback" THEN Io!RunCallback(w, "read")
                            ELSE Io!MaybeAddErrorListener(w)
   BY DEF Io!RunRead
 <1> HIDE DEF w, x
 <1>4. LateIo(w).pending = w.pending
   BY <1>1, LateIsIo
 <1>5. Io!MaybeAddErrorListener(w) = w /\ Io!MaybeAddErrorListener(LateIo(w)) = LateIo(w)
   BY <1>1, <1>4 DEF Io!MaybeAddErrorListener
 <1>6. Io!RunCallback(LateIo(w), "read") = LateIo(Io!RunCallback(w, "read"))
   BY <1>1, LateCallbackIo
 <1>7. QED
   BY <1>2, <1>3, <1>5, <1>6

LEMMA LateStreamingIo ==
  ASSUME NEW t, t \in StreamsIo, t.taken <= t.recvd
  PROVE  Io!RunStreamingCallback(LateIo(t)) = LateIo(Io!RunStreamingCallback(t))
 <1> DEFINE u == LateIo(t)
            k == Io!Least(t.read.n, Io!Size(t))
            r == [t.read EXCEPT !.n = @ - k]
 <1>1. u.read = t.read /\ u.taken = t.taken /\ u.recvd = t.recvd
   BY LateIsIo
 <1>2. t.read \in ReadsIo /\ t.read.n \in Nat /\ Io!Size(t) \in Nat /\ Io!Size(u) = Io!Size(t)
   BY <1>1 DEF StreamsIo, ReadsIo, Io!Size
 <1>3. k \in Nat /\ t.read.n - k \in Nat
   BY <1>2 DEF Io!Least
 <1>4. [t EXCEPT !.read.n = @ - k] = [t EXCEPT !.read = r] /\ [u EXCEPT !.read.n = @ - k] = [u EXCEPT !.read = r]
   BY <1>1, <1>2 DEF StreamsIo, ReadsIo, LateIo
 <1>5. r \in ReadsIo
   BY <1>2, <1>3 DEF ReadsIo
 <1>6. /\ Io!RunStreamingCallback(u) =
            IF ~t.read.streaming \/ Io!Size(t) = 0 THEN u
            ELSE IF t.read.type = "bytes" THEN Io!RunStream([u EXCEPT !.read.n = @ - k], k)
            ELSE Io!RunStream(u, Io!Size(t))
       /\ Io!RunStreamingCallback(t) =
            IF ~t.read.streaming \/ Io!Size(t) = 0 THEN t
            ELSE IF t.read.type = "bytes" THEN Io!RunStream([t EXCEPT !.read.n = @ - k], k)
            ELSE Io!RunStream(t, Io!Size(t))
   BY <1>1, <1>2 DEF Io!RunStreamingCallback
 <1> DEFINE x == [t EXCEPT !.read = r]
 <1>7. x \in StreamsIo
   BY <1>5, ReadSetIs
 <1>8. [u EXCEPT !.read = r] = LateIo(x)
   BY LateReadIo
 <1> HIDE DEF k, r, x, u
 <1>9. Io!RunStream(LateIo(x), k) = LateIo(Io!RunStream(x, k)) /\ Io!RunStream(u, Io!Size(t)) = LateIo(Io!RunStream(t, Io!Size(t)))
   BY <1>2, <1>3, <1>7, LateStreamIo DEF u
 <1>10. [t EXCEPT !.read.n = @ - k] = x /\ [u EXCEPT !.read.n = @ - k] = LateIo(x)
   BY <1>4, <1>8 DEF x
 <1>11. QED
   BY <1>6, <1>9, <1>10 DEF u

LEMMA LateBufferIo ==
  ASSUME NEW t \in StreamsIo, t.pending > 0, NEW k \in Nat
  PROVE  Io!ReadFromBuffer(LateIo(t), k) = LateIo(Io!ReadFromBuffer(t, k))
 <1> DEFINE u == LateIo(t)
            r == [t.read EXCEPT !.type = "none", !.partial = FALSE]
            x == [t EXCEPT !.read = r]
 <1>1. u.read = t.read /\ t.read \in ReadsIo
   BY LateIsIo DEF StreamsIo
 <1>2. /\ [t EXCEPT !.read.type = "none", !.read.partial = FALSE] = x
       /\ [u EXCEPT !.read.type = "none", !.read.partial = FALSE] = [u EXCEPT !.read = r]
   BY <1>1 DEF StreamsIo, ReadsIo, LateIo
 <1>3. r \in ReadsIo
   BY <1>1 DEF ReadsIo
 <1>4. x \in StreamsIo /\ x.pending = t.pending
   BY <1>3, ReadSetIs
 <1>5. [u EXCEPT !.read = r] = LateIo(x)
   BY LateReadIo
 <1>6. Io!ReadFromBuffer(u, k) = Io!RunRead(LateIo(x), k) /\ Io!ReadFromBuffer(t, k) = Io!RunRead(x, k)
   BY <1>2, <1>5 DEF Io!ReadFromBuffer
 <1> HIDE DEF r, x
 <1>7. QED
   BY <1>4, <1>6, LateRunReadIo

LEMMA LateFindIo ==
  ASSUME NEW t \in StreamsIo PROVE Io!FindReadPos(LateIo(t)) = Io!FindReadPos(t)
 <1>1. LET u == LateIo(t) IN u.read = t.read /\ u.max = t.max /\ u.taken = t.taken /\ u.recvd = t.recvd
   BY LateIsIo
 <1> DEFINE u == LateIo(t)
 <1>2. Io!Size(u) = Io!Size(t) /\ u.read = t.read /\ u.max = t.max /\ u.taken = t.taken /\ u.recvd = t.recvd
   BY <1>1 DEF Io!Size
 <1> HIDE DEF u
 <1>3. Io!FindReadPos(u) = Io!FindReadPos(t)
   BY <1>2 DEF Io!FindReadPos
 <1>4. QED
   BY <1>3 DEF u


LEMMA StreamTypeIo ==
  ASSUME NEW t \in StreamsIo, NEW k \in Nat
  PROVE  LET u == Io!RunStream(t, k) IN
         u \in StreamsIo /\ u.closed = t.closed /\ u.pending > 0 /\ u.taken = t.taken + k /\ u.recvd = t.recvd
 <1> DEFINE w == [t EXCEPT !.taken = @ + k]
            u == Io!RunCallback(w, "stream")
 <1>1. w \in StreamsIo /\ KeepsIo(t, w) /\ w.taken = t.taken + k /\ w.recvd = t.recvd /\ "stream" \in EntriesIo
   BY TakesIs DEF EntriesIo
 <1>2. Io!RunStream(t, k) = u
   BY DEF Io!RunStream
 <1> HIDE DEF w
 <1>3. u \in StreamsIo /\ KeepsIo(w, u) /\ u.pending = w.pending + 1 /\ u.taken = w.taken /\ u.recvd = w.recvd
   BY <1>1, RunCallbackIs
 <1>4. w.pending \in Nat
   BY <1>1 DEF StreamsIo
 <1> HIDE DEF u
 <1>5. u.closed = t.closed /\ u.pending > 0
   BY <1>1, <1>3, <1>4 DEF KeepsIo
 <1>6. QED
   BY <1>1, <1>2, <1>3, <1>5
LEMMA StreamingTypeIo ==
  ASSUME NEW t \in StreamsIo, t.taken <= t.recvd, t.pending > 0
  PROVE  LET u == Io!RunStreamingCallback(t) IN
         u \in StreamsIo /\ u.closed = t.closed /\ u.pending > 0 /\ u.taken <= u.recvd
 <1> DEFINE k == Io!Least(t.read.n, Io!Size(t))
            r == [t.read EXCEPT !.n = @ - k]
            u == Io!RunStreamingCallback(t)
            x == [t EXCEPT !.read = r]
 <1>2. t.read \in ReadsIo /\ t.read.n \in Nat /\ Io!Size(t) \in Nat
   BY DEF StreamsIo, ReadsIo, Io!Size
 <1>3. k \in Nat /\ t.read.n - k \in Nat /\ t.taken + k <= t.recvd /\ t.taken + Io!Size(t) <= t.recvd
   BY <1>2 DEF Io!Least, Io!Size, StreamsIo
 <1>4. [t EXCEPT !.read.n = @ - k] = x
   BY <1>2 DEF StreamsIo, ReadsIo
 <1>5. r \in ReadsIo
   BY <1>2, <1>3 DEF ReadsIo
 <1>6. u = IF ~t.read.streaming \/ Io!Size(t) = 0 THEN t
           ELSE IF t.read.type = "bytes" THEN Io!RunStream([t EXCEPT !.read.n = @ - k], k)
           ELSE Io!RunStream(t, Io!Size(t))
   BY DEF Io!RunStreamingCallback
 <1> HIDE DEF r, u
 <1>7. x \in StreamsIo /\ x.closed = t.closed /\ x.taken = t.taken /\ x.recvd = t.recvd
   BY <1>5, ReadSetIs DEF KeepsIo
 <1> HIDE DEF k, x
 <1>8. \/ u = t
       \/ u = Io!RunStream(x, k)
       \/ u = Io!RunStream(t, Io!Size(t))
   BY <1>4, <1>6
 <1>9. CASE u = Io!RunStream(x, k)
  <2>1. u \in StreamsIo /\ u.closed = x.closed /\ u.pending > 0 /\ u.taken = x.taken + k /\ u.recvd = x.recvd
    BY <1>3, <1>7, <1>9, StreamTypeIo
  <2>2. QED
    BY <1>3, <1>7, <2>1 DEF u
 <1>10. CASE u = Io!RunStream(t, Io!Size(t))
  <2>1. u \in StreamsIo /\ u.closed = t.closed /\ u.pending > 0 /\ u.taken = t.taken + Io!Size(t) /\ u.recvd = t.recvd
    BY <1>2, <1>10, StreamTypeIo
  <2>2. QED
    BY <1>3, <2>1 DEF u
 <1>11. CASE u = t
   BY <1>11 DEF u
 <1>12. QED
   BY <1>8, <1>9, <1>10, <1>11

LEMMA LateInlineIo ==
  ASSUME NEW t \in StreamsIo, t.taken <= t.recvd, t.pending > 0, t.closed, NEW u \in Io!TryInlineRead(t)
  PROVE  LateIo(u) \in Io!TryInlineRead(LateIo(t))
 <1> DEFINE w == Io!RunStreamingCallback(t)
            pos == Io!FindReadPos(w)
            After(x, p) == IF p = -2 THEN {Io!CloseStream(x)}
                           ELSE IF p >= 0 THEN {Io!ReadFromBuffer(x, p)}
                           ELSE {LateIo(x)}
 <1>1. w \in StreamsIo /\ w.closed /\ w.pending > 0 /\ w.taken <= w.recvd
   BY StreamingTypeIo
 <1>2. u \in After(w, pos)
   BY <1>1 DEF Io!TryInlineRead, Io!Unsatisfiable, LateIo
 <1>3. Io!RunStreamingCallback(LateIo(t)) = LateIo(w)
   BY LateStreamingIo
 <1>4. Io!FindReadPos(LateIo(w)) = pos /\ LateIo(w).closed /\ LateIo(w).pending > 0
   BY <1>1, LateFindIo, LateIsIo
 <1> HIDE DEF pos, w
 <1>5. Io!TryInlineRead(LateIo(t)) = After(LateIo(w), pos)
   BY <1>3, <1>4 DEF Io!TryInlineRead, Io!Unsatisfiable, LateIo
 <1>6. Io!CloseStream(w) = w /\ Io!CloseStream(LateIo(w)) = LateIo(w)
   BY <1>1, <1>4 DEF Io!CloseStream, Io!MaybeRunCloseCallback
 <1>7. pos \in Nat => Io!ReadFromBuffer(LateIo(w), pos) = LateIo(Io!ReadFromBuffer(w, pos))
   BY <1>1, LateBufferIo
 <1>8. pos \in Int
  <2>1. pos \in {-2, -1} \cup 0..(w.recvd - w.taken)
    BY <1>1, FindReadPosIo DEF pos
  <2>2. w.recvd \in Nat /\ w.taken \in Nat
    BY <1>1 DEF StreamsIo
  <2>3. QED
    BY <2>1, <2>2
 <1>9. QED
   BY <1>2, <1>5, <1>6, <1>7, <1>8

LEMMA LateAllIo ==
  ASSUME NEW t, HalfIo(t, 0), t.closed, t.onclose = "told", t.pending > 0, SettledIo(t), peerIo.sent \in Nat,
         StreamBounds, NEW u \in Io!UserCalls(t)
  PROVE  HalfIo(LateIo(u), 0) /\ SettledIo(LateIo(u)) /\ LateIo(u).closed /\ LateIo(u).tls = t.tls
 <1> DEFINE l == LateIo(t)
 <1>1. /\ t \in StreamsIo /\ t.taken <= t.recvd /\ t.recvd \in Nat /\ t.taken \in Nat /\ 0 \in Nat
       /\ t.pending \in Nat
   BY DEF HalfIo, StreamsIo
 <1>2. HalfIo(l, 0) /\ FreeIo(l) /\ LeadsIo(t, l) /\ SettledIo(l)
   BY LateHalfIo
 <1>3. /\ l \in StreamsIo /\ l.read = t.read /\ l.taken = t.taken /\ l.recvd = t.recvd /\ l.pending = t.pending
       /\ l.closed = t.closed /\ l.tls = t.tls
   BY <1>1, <1>2, LateIsIo DEF LeadsIo
 <1>4. ASSUME CalledIo(l, LateIo(u)) PROVE HalfIo(LateIo(u), 0) /\ SettledIo(LateIo(u)) /\ LateIo(u).closed /\ LateIo(u).tls = t.tls
   BY <1>2, <1>3, <1>4 DEF CalledIo
 <1>5. ASSUME CalledIo(t, u) PROVE HalfIo(LateIo(u), 0) /\ SettledIo(LateIo(u)) /\ LateIo(u).closed /\ LateIo(u).tls = t.tls
  <2>1. HalfIo(u, 0) /\ SettledIo(u) /\ u.closed /\ u.tls = t.tls
    BY <1>5 DEF CalledIo
  <2>2. HalfIo(LateIo(u), 0) /\ SettledIo(LateIo(u)) /\ LeadsIo(u, LateIo(u))
    BY <2>1, LateHalfIo
  <2>3. QED
    BY <2>1, <2>2 DEF LeadsIo
 <1> HIDE DEF l
 <1>6. \/ u \in Io!ReadBytes(t)
       \/ u \in Io!ReadUntil(t)
       \/ u \in Io!ReadUntilClose(t)
       \/ u \in Io!Write(t)
       \/ u \in Io!SetCloseCallback(t)
       \/ u = Io!CloseStream(t)
       \/ (t.handshake = "none" /\ u \in Io!WaitForHandshake(t))
   BY DEF Io!UserCalls
 <1>7. ASSUME NEW r \in ReadsIo, u \in Io!TryInlineRead([t EXCEPT !.read = r]) PROVE CalledIo(l, LateIo(u))
  <2> DEFINE b == [t EXCEPT !.read = r]
  <2>1. /\ b \in StreamsIo /\ KeepsIo(t, b) /\ b.pending = t.pending /\ b.taken = t.taken /\ b.recvd = t.recvd
    BY <1>1, ReadSetIs
  <2>2. LateIo(b) = [l EXCEPT !.read = r]
    BY <1>1, LateReadIo DEF l
  <2> HIDE DEF b
  <2>3. b.taken <= b.recvd /\ b.pending > 0 /\ b.closed
    BY <1>1, <2>1 DEF KeepsIo
  <2>4. LateIo(u) \in Io!TryInlineRead(LateIo(b))
    BY <1>7, <2>1, <2>3, LateInlineIo DEF b
  <2>5. LateIo(b) \in StreamsIo /\ BegunIo(l, LateIo(b))
    BY <1>3, <2>2, BeginIo
  <2>6. QED
    BY <1>2, <2>4, <2>5, BegunReadIo
 <1>8. ASSUME NEW r \in ReadsIo, NEW max \in {0, 1}, u \in Io!TryInlineRead([[t EXCEPT !.read = r] EXCEPT !.max = max])
       PROVE  CalledIo(l, LateIo(u))
  <2> DEFINE b == [[t EXCEPT !.read = r] EXCEPT !.max = max]
  <2>1. b \in StreamsIo /\ BegunIo(t, b)
    BY <1>1, BeginIo
  <2> DEFINE c == [[l EXCEPT !.read = r] EXCEPT !.max = max]
  <2>2. LateIo(b) = c
    BY <1>1 DEF l, LateIo, StreamsIo
  <2>20. c \in StreamsIo /\ BegunIo(l, c)
    BY <1>3, BeginIo
  <2> HIDE DEF b, c
  <2>3. b.taken <= b.recvd /\ b.pending > 0 /\ b.closed
    BY <1>1, <2>1 DEF BegunIo
  <2>4. LateIo(u) \in Io!TryInlineRead(LateIo(b))
    BY <1>8, <2>1, <2>3, LateInlineIo DEF b
  <2>5. LateIo(b) \in StreamsIo /\ BegunIo(l, LateIo(b))
    BY <2>2, <2>20
  <2>6. QED
    BY <1>2, <2>4, <2>5, BegunReadIo
 <1>9. CASE u \in Io!ReadBytes(t)
  <2>1. PICK n \in Sizes, partial \in BOOLEAN, via \in {"callback", "future"}, streaming \in BOOLEAN :
          u \in Io!TryInlineRead(Io!Begin(t, "bytes", n, partial, via, streaming))
    BY <1>9 DEF Io!ReadBytes, Io!Vias
  <2> DEFINE r == [type |-> "bytes", n |-> n, partial |-> partial, via |-> via, streaming |-> streaming]
  <2>2. r \in ReadsIo
    BY DEF ReadsIo, StreamBounds
  <2>3. u \in Io!TryInlineRead([t EXCEPT !.read = r])
    BY <2>1 DEF Io!Begin
  <2> HIDE DEF r
  <2>4. QED
    BY <2>2, <2>3, <1>4, <1>7
 <1>10. CASE u \in Io!ReadUntil(t)
  <2>1. PICK via \in {"callback", "future"}, max \in {0, 1} : u \in Io!TryInlineRead(Io!BeginUntil(t, via, max))
    BY <1>10 DEF Io!ReadUntil, Io!Vias
  <2> DEFINE r == [type |-> "until", n |-> 0, partial |-> FALSE, via |-> via, streaming |-> FALSE]
  <2>2. r \in ReadsIo
    BY DEF ReadsIo
  <2>3. u \in Io!TryInlineRead([[t EXCEPT !.read = r] EXCEPT !.max = max])
    BY <2>1 DEF Io!Begin, Io!BeginUntil
  <2> HIDE DEF r
  <2>4. QED
    BY <2>2, <2>3, <1>4, <1>8
 <1>11. CASE u \in Io!ReadUntilClose(t)
  <2>1. PICK via \in {"callback", "future"}, streaming \in BOOLEAN : u \in Io!ReadToClose(t, via, streaming)
    BY <1>11 DEF Io!ReadUntilClose, Io!Vias
  <2> DEFINE r == [type |-> "none", n |-> 0, partial |-> FALSE, via |-> via, streaming |-> streaming]
             b == [t EXCEPT !.read = r]
             v == IF streaming THEN Io!RunStream(b, Io!Size(b)) ELSE b
             c == LateIo(b)
             x == IF streaming THEN Io!RunStream(c, Io!Size(c)) ELSE c
  <2>2. r \in ReadsIo
    BY DEF ReadsIo
  <2>3. u = Io!RunRead(v, Io!Size(v))
    BY <2>1 DEF Io!Begin, Io!ReadToClose
  <2> HIDE DEF r
  <2>4. b \in StreamsIo /\ KeepsIo(t, b) /\ b.pending = t.pending /\ b.taken = t.taken /\ b.recvd = t.recvd
    BY <1>1, <2>2, ReadSetIs
  <2>5. c = [l EXCEPT !.read = r]
    BY <1>1, LateReadIo DEF l
  <2> HIDE DEF b
  <2>6. Io!Size(b) \in Nat /\ Io!Size(c) = Io!Size(b) /\ b.taken + Io!Size(b) <= b.recvd
   <3>1. c.taken = b.taken /\ c.recvd = b.recvd
     BY <2>4, LateIsIo
   <3>2. b.taken \in Nat /\ b.recvd \in Nat /\ b.taken <= b.recvd
     BY <1>1, <2>4
   <3> HIDE DEF c
   <3>3. QED
     BY <3>1, <3>2 DEF Io!Size
  <2>7. x = LateIo(v)
    BY <2>4, <2>6, LateStreamIo
  <2>8. v \in StreamsIo /\ v.pending > 0 /\ v.taken <= v.recvd
    BY <1>1, <2>4, <2>6, StreamTypeIo
  <2> HIDE DEF v
  <2>9. Io!Size(v) \in Nat /\ Io!Size(LateIo(v)) = Io!Size(v)
    BY <2>8, LateIsIo DEF Io!Size, StreamsIo
  <2>10. LateIo(u) = Io!RunRead(LateIo(v), Io!Size(LateIo(v)))
    BY <2>3, <2>8, <2>9, LateRunReadIo
  <2>11. LateIo(u) = Io!RunRead(x, Io!Size(x))
    BY <2>7, <2>10
  <2>12. Io!ReadToClose(l, via, streaming) = {Io!RunRead(x, Io!Size(x))}
   <3>1. Io!Begin(l, "none", 0, FALSE, via, streaming) = c
     BY <2>5 DEF Io!Begin, r
   <3> HIDE DEF c
   <3>2. QED
     BY <3>1, <1>3 DEF Io!ReadToClose
  <2> HIDE DEF x
  <2>13. LateIo(u) \in Io!ReadUntilClose(l)
    BY <2>11, <2>12 DEF Io!ReadUntilClose, Io!Vias
  <2>14. QED
    BY <2>13, <1>2, <1>4, ReadUntilCloseIo
 <1>12. CASE u = Io!CloseStream(t)
  <2>1. HalfIo(u, 0) /\ SettledIo(u) /\ LeadsIo(t, u) /\ u.closed
    BY <1>1, <1>12, CloseStreamIo
  <2>2. CalledIo(t, u)
    BY <2>1, ClosedCalledIo DEF LeadsIo
  <2>3. QED
    BY <2>2, <1>5
 <1>13. QED
   BY <1>5, <1>6, <1>9, <1>10, <1>11, <1>12, WriteIo, SetCloseCallbackIo, WaitForHandshakeIo


-----------------------------------------------------------------------------
(* The next callback *)

LEMMA HasCountIo ==
  ASSUME NEW q \in QueuesIo, NEW w, w # "close", HasIo(q, w)
  PROVE  CountIo(q) > 0
 <1>1. CountIo(q) # 0
   BY CountNoneIo DEF HasIo
 <1>2. QED
   BY <1>1, CountIsIo

LEMMA TailIsIo ==
  ASSUME NEW q \in QueuesIo, q # <<>>
  PROVE  /\ Tail(q) \in QueuesIo /\ Head(q) \in EntriesIo \cup {"close"} /\ Head(q) = q[1] /\ 1 \in DOMAIN q
         /\ \A i \in DOMAIN Tail(q) : i + 1 \in DOMAIN q /\ Tail(q)[i] = q[i + 1] /\ i \in Nat \ {0}
         /\ \A i \in DOMAIN q : i = 1 \/ (i - 1 \in DOMAIN Tail(q) /\ Tail(q)[i - 1] = q[i])
         /\ Len(Tail(q)) = Len(q) - 1 /\ Len(q) \in Nat
 <1>1. /\ Len(q) \in Nat \ {0} /\ DOMAIN q = 1..Len(q) /\ DOMAIN Tail(q) = 1..Len(q) - 1
       /\ \A i \in 1..Len(q) - 1 : Tail(q)[i] = q[i + 1]
       /\ Head(q) = q[1] /\ Tail(q) \in QueuesIo /\ Len(Tail(q)) = Len(q) - 1
   BY LenProperties, HeadTailProperties, EmptySeq DEF QueuesIo
 <1>2. Head(q) \in EntriesIo \cup {"close"}
   BY HeadTailProperties DEF QueuesIo
 <1>3. \A i \in DOMAIN Tail(q) : i + 1 \in DOMAIN q /\ Tail(q)[i] = q[i + 1] /\ i \in Nat \ {0}
   BY <1>1
 <1>4. ASSUME NEW i \in DOMAIN q, i # 1 PROVE i - 1 \in DOMAIN Tail(q) /\ Tail(q)[i - 1] = q[i]
  <2>1. i - 1 \in 1..Len(q) - 1 /\ (i - 1) + 1 = i
    BY <1>1, <1>4
  <2>2. QED
    BY <2>1, <1>1
 <1>5. QED
   BY <1>1, <1>2, <1>3, <1>4

(* Its callback is not counted twice, nor is its answer. *)
LEMMA TailOkIo ==
  ASSUME NEW q \in QueuesIo, q # <<>>, NEW x, NEW hs, NEW oc, TlsOkIo(q, x, hs, oc), NEW late, LastOkIo(q, late)
  PROVE  /\ LastOkIo(Tail(q), late)
         /\ Head(q) = "tls" => x = "waiting"
         /\ Head(q) \notin {"tls", "close callback"} => TlsOkIo(Tail(q), x, hs, oc)
         /\ Head(q) \in {"tls", "close callback"} =>
              \A y : y # "waiting" => TlsOkIo(Tail(q), y, hs, oc)
         /\ Head(q) # "close" => late \/ ~HasIo(Tail(q), "close callback")
 <1> DEFINE r == Tail(q)
 <1>1. /\ Head(q) = q[1] /\ 1 \in DOMAIN q
       /\ \A i \in DOMAIN r : i + 1 \in DOMAIN q /\ r[i] = q[i + 1] /\ i \in Nat \ {0}
       /\ \A i \in DOMAIN q : i = 1 \/ (i - 1 \in DOMAIN r /\ r[i - 1] = q[i])
       /\ Len(r) = Len(q) - 1 /\ Len(q) \in Nat
   BY TailIsIo
 <1> HIDE DEF r
 <1>2. LastOkIo(r, late)
  <2>1. CASE late
    BY <2>1 DEF LastOkIo
  <2>2. CASE ~late
   <3>1. \A i \in DOMAIN q : q[i] = "close callback" =>
           i = Len(q) /\ \A j \in DOMAIN q : j < i => q[j] = "close"
     BY <2>2 DEF LastOkIo
   <3>2. ASSUME NEW i \in DOMAIN r, r[i] = "close callback"
         PROVE  i = Len(r) /\ \A j \in DOMAIN r : j < i => r[j] = "close"
    <4>1. i + 1 = Len(q) /\ \A j \in DOMAIN q : j < i + 1 => q[j] = "close"
      BY <3>1, <3>2, <1>1
    <4>2. i \in Nat /\ Len(q) \in Nat /\ Len(r) = Len(q) - 1
      BY <1>1
    <4>3. i = Len(r)
      BY <4>1, <4>2
    <4>4. ASSUME NEW j \in DOMAIN r, j < i PROVE r[j] = "close"
     <5>1. j + 1 \in DOMAIN q /\ r[j] = q[j + 1] /\ j \in Nat
       BY <1>1
     <5>2. j + 1 < i + 1
       BY <5>1, <4>2, <4>4
     <5>3. QED
       BY <5>1, <5>2, <4>1
    <4>5. QED
      BY <4>3, <4>4
   <3>3. QED
     BY <3>2 DEF LastOkIo
  <2>3. QED
    BY <2>1, <2>2
 <1>3. \A w : HasIo(r, w) => HasIo(q, w)
   BY <1>1 DEF HasIo
 <1>4. \A w : HasIo(q, w) => HasIo(r, w) \/ w = Head(q)
   BY <1>1 DEF HasIo
 <1>5. \A i, j \in DOMAIN r : r[i] = "tls" /\ r[j] = "tls" => i = j
  <2> SUFFICES ASSUME NEW i \in DOMAIN r, NEW j \in DOMAIN r, r[i] = "tls", r[j] = "tls" PROVE i = j
    OBVIOUS
  <2>1. i + 1 = j + 1
    BY <1>1 DEF TlsOkIo
  <2>2. i \in Nat /\ j \in Nat
    BY <1>1
  <2>3. QED
    BY <2>1, <2>2
 <1>6. Head(q) = "tls" => ~HasIo(r, "tls") /\ HasIo(q, "tls")
  <2> SUFFICES ASSUME q[1] = "tls" PROVE ~HasIo(r, "tls") /\ HasIo(q, "tls")
    BY <1>1
  <2>1. HasIo(q, "tls")
    BY <1>1 DEF HasIo
  <2>2. ASSUME NEW i \in DOMAIN r, r[i] = "tls" PROVE FALSE
   <3>1. i + 1 = 1
     BY <1>1, <2>2 DEF TlsOkIo
   <3>2. i \in Nat \ {0}
     BY <1>1
   <3>3. QED
     BY <3>1, <3>2
  <2>3. QED
    BY <2>1, <2>2 DEF HasIo
 <1>7. Head(q) = "close callback" => HasIo(q, "close callback")
   BY <1>1 DEF HasIo
 <1>8. Head(q) \notin {"tls", "close callback"} => TlsOkIo(r, x, hs, oc)
   BY <1>3, <1>4, <1>5 DEF TlsOkIo
 <1>9. ASSUME Head(q) \in {"tls", "close callback"}, NEW y, y # "waiting"
       PROVE  TlsOkIo(r, y, hs, oc)
  <2>1. CASE Head(q) = "tls"
    BY <2>1, <1>3, <1>5, <1>6, <1>9 DEF TlsOkIo
  <2>2. CASE Head(q) = "close callback"
    BY <2>2, <1>3, <1>5, <1>7, <1>9 DEF TlsOkIo
  <2>3. QED
    BY <1>9, <2>1, <2>2
 <1>10. ASSUME Head(q) # "close", ~late, HasIo(r, "close callback") PROVE FALSE
  <2>1. PICK i \in DOMAIN r : r[i] = "close callback"
    BY <1>10 DEF HasIo
  <2>2. i + 1 \in DOMAIN q /\ q[i + 1] = "close callback" /\ i \in Nat \ {0}
    BY <1>1, <2>1
  <2>3. \A j \in DOMAIN q : j < i + 1 => q[j] = "close"
    BY <2>2, <1>10 DEF LastOkIo
  <2>4. 1 < i + 1
   <3>1. i \in Nat \ {0}
     BY <1>1
   <3>2. QED
     BY <3>1
  <2>5. QED
    BY <2>3, <2>4, <1>1, <1>10
 <1>11. QED
   BY <1>2, <1>6, <1>8, <1>9, <1>10 DEF r, TlsOkIo


LEMMA PoppedIo ==
  ASSUME NEW t, HalfIo(t, 0), t.queue # <<>>, Head(t.queue) = "close"
  PROVE  LET u == [t EXCEPT !.queue = Tail(@)] IN HalfIo(u, 0) /\ LeadsIo(t, u)
 <1> DEFINE q == Tail(t.queue)
            u == [t EXCEPT !.queue = q]
 <1>1. /\ t \in StreamsIo /\ t.queue \in QueuesIo /\ t.done \in Nat /\ t.total \in Nat
       /\ TlsOkIo(t.queue, t.tls, t.handshake, t.onclose) /\ LastOkIo(t.queue, t.late)
       /\ t.pending = CountIo(t.queue) + 0 /\ t.pending \in Nat
   BY DEF HalfIo, StreamsIo
 <1>2. q \in QueuesIo /\ TlsOkIo(q, t.tls, t.handshake, t.onclose) /\ LastOkIo(q, t.late)
   BY <1>1, TailIsIo, TailOkIo
 <1>3. CountIo(q) = CountIo(t.queue)
  <2>1. CountIo(q) = CountIo(t.queue) - 0 /\ CountIo(t.queue) \in Nat
    BY <1>1, CountTailIo, CountIsIo
  <2>2. QED
    BY <2>1
 <1>4. [t EXCEPT !.queue = Tail(@)] = u
   OBVIOUS
 <1> HIDE DEF q
 <1>5. u \in StreamsIo /\ u.queue = q
   BY <1>1, <1>2 DEF StreamsIo
 <1>6. /\ u.total = t.total /\ u.done = t.done /\ u.futures = t.futures /\ u.onclose = t.onclose
       /\ u.tls = t.tls /\ u.accepting = t.accepting /\ u.connecting = t.connecting /\ u.handshake = t.handshake
   BY <1>1 DEF StreamsIo
 <1>7. /\ u.listen = t.listen /\ u.pending = t.pending /\ u.read = t.read
       /\ u.recvd = t.recvd /\ u.taken = t.taken /\ u.closed = t.closed /\ u.late = t.late
   BY <1>1 DEF StreamsIo
 <1> HIDE DEF u
 <1>8. HalfIo(u, 0)
   BY <1>1, <1>2, <1>3, <1>5, <1>6, <1>7 DEF HalfIo
 <1>9. AnswersIo(t, u) /\ u.total - u.done <= t.total - t.done
   BY <1>1, <1>6 DEF AnswersIo
 <1>10. LeadsIo(t, u)
   BY <1>6, <1>7, <1>9 DEF LeadsIo
 <1>11. QED
   BY <1>4, <1>8, <1>10

(* One that runs is not counted any more.                                  *)
LEMMA RunsIo ==
  ASSUME NEW t, HalfIo(t, 0), t.queue # <<>>, Head(t.queue) # "close"
  PROVE  LET w == [t EXCEPT !.queue = Tail(@)]
             u == [w EXCEPT !.pending = @ - 1, !.tls = Io!AnswerTls(w, Head(t.queue))]
         IN /\ HalfIo(u, 0) /\ FreeIo(u) /\ AnswersIo(t, u)
            /\ ReadEarIo(t) => ReadEarIo(u)
            /\ RestEarIo(t) => RestEarIo(u)
            /\ u.late = t.late
 <1> DEFINE q == Tail(t.queue)
            x == IF Head(t.queue) \in {"tls", "close callback"} /\ t.tls = "waiting" THEN "answered" ELSE t.tls
            n == t.pending - 1
            w == [t EXCEPT !.queue = Tail(@)]
            u == [t EXCEPT !.queue = q, !.pending = n, !.tls = x]
 <1>1. /\ t \in StreamsIo /\ t.queue \in QueuesIo /\ t.done \in Nat /\ t.total \in Nat
       /\ TlsOkIo(t.queue, t.tls, t.handshake, t.onclose) /\ LastOkIo(t.queue, t.late)
       /\ t.pending = CountIo(t.queue) + 0 /\ t.pending \in Nat /\ t.tls \in {"none", "waiting", "answered"}
   BY DEF HalfIo, StreamsIo
 <1>2. q \in QueuesIo /\ LastOkIo(q, t.late) /\ (t.late \/ ~HasIo(q, "close callback"))
       /\ (Head(t.queue) = "tls" => t.tls = "waiting")
  <2>1. q \in QueuesIo
    BY <1>1, TailIsIo
  <2>2. LastOkIo(q, t.late)
    BY <1>1, TailOkIo
  <2>3. t.late \/ ~HasIo(q, "close callback")
   <3>1. CASE t.late
     BY <3>1
   <3>2. CASE ~t.late
    <4>1. \A i \in DOMAIN t.queue : t.queue[i] = "close callback" =>
            \A j \in DOMAIN t.queue : j < i => t.queue[j] = "close"
      BY <1>1, <3>2 DEF LastOkIo
    <4>2. \A i \in DOMAIN q : q[i] # "close callback"
     <5> TAKE i \in DOMAIN q
     <5>1. i + 1 \in DOMAIN t.queue /\ q[i] = t.queue[i + 1] /\ 1 \in DOMAIN t.queue
           /\ t.queue[1] # "close" /\ 1 < i + 1
       BY <1>1, TailIsIo
     <5>2. QED
       BY <4>1, <5>1
    <4>3. QED
      BY <4>2 DEF HasIo
   <3>3. QED
     BY <3>1, <3>2
  <2>4. Head(t.queue) = "tls" => t.tls = "waiting"
    BY <1>1, TailOkIo
  <2>5. QED
    BY <2>1, <2>2, <2>3, <2>4
 <1>3. TlsOkIo(q, x, t.handshake, t.onclose) /\ x \in {"none", "waiting", "answered"}
  <2>1. CASE Head(t.queue) \in {"tls", "close callback"}
   <3>1. x # "waiting"
     BY <2>1
   <3> HIDE DEF x
   <3>2. TlsOkIo(q, x, t.handshake, t.onclose)
     BY <1>1, <2>1, <3>1, TailOkIo
   <3>3. QED
     BY <3>2, <1>1 DEF x
  <2>2. CASE Head(t.queue) \notin {"tls", "close callback"}
   <3>1. x = t.tls
     BY <2>2
   <3>2. TlsOkIo(q, t.tls, t.handshake, t.onclose)
     BY <1>1, <2>2, TailOkIo
   <3>3. QED
     BY <3>1, <3>2, <1>1
  <2>3. QED
    BY <2>1, <2>2
 <1>4. n \in Nat /\ n = CountIo(q) + 0
  <2>1. CountIo(q) = CountIo(t.queue) - 1 /\ CountIo(t.queue) \in Nat /\ CountIo(q) \in Nat
    BY <1>1, <1>2, CountTailIo, CountIsIo
  <2>2. QED
    BY <2>1, <1>1
 <1>5. w.tls = t.tls /\ w.pending = t.pending
   BY <1>1 DEF StreamsIo
 <1>6. Io!AnswerTls(w, Head(t.queue)) = x
   BY <1>2, <1>5 DEF Io!AnswerTls
 <1>7. [w EXCEPT !.pending = @ - 1, !.tls = Io!AnswerTls(w, Head(t.queue))] = u
  <2> HIDE DEF x
  <2>1. QED
    BY <1>1, <1>6 DEF StreamsIo
 <1> HIDE DEF q, n, x, w
 <1>8. u \in StreamsIo /\ u.queue = q /\ u.pending = n /\ u.tls = x
   BY <1>1, <1>2, <1>3, <1>4 DEF StreamsIo
 <1>9. /\ u.total = t.total /\ u.done = t.done /\ u.futures = t.futures /\ u.onclose = t.onclose
       /\ u.accepting = t.accepting /\ u.connecting = t.connecting /\ u.handshake = t.handshake
   BY <1>1 DEF StreamsIo
 <1>10. /\ u.listen = t.listen /\ u.read = t.read
        /\ u.recvd = t.recvd /\ u.taken = t.taken /\ u.closed = t.closed /\ u.late = t.late
   BY <1>1 DEF StreamsIo
 <1> HIDE DEF u
 <1>11. HalfIo(u, 0)
   BY <1>2, <1>3, <1>4, <1>8, <1>9, <1>10 DEF HalfIo
 <1>12. FreeIo(u)
   BY <1>2, <1>8, <1>10 DEF FreeIo
 <1>13. AnswersIo(t, u)
   BY <1>1, <1>9 DEF AnswersIo
 <1>14. (ReadEarIo(t) => ReadEarIo(u)) /\ (RestEarIo(t) => RestEarIo(u))
   BY <1>9, <1>10 DEF ReadEarIo, RestEarIo
 <1>15. QED
   BY <1>7, <1>10, <1>11, <1>12, <1>13, <1>14 DEF w

-----------------------------------------------------------------------------
(* The stream as a whole *)

PeersIo == [sent : Nat, end : {"open", "eof", "reset"}]

(* What is true of the stream between two steps. *)
StreamsInv ==
  /\ peerIo \in PeersIo /\ peerIo.sent <= MaxSent /\ opsIo \in 0..MaxOps
  /\ HalfIo(sIo, 0) /\ SettledIo(sIo) /\ EarIo(sIo)

(* What a step makes of it. *)
SteppedIo(t, u) ==
  HalfIo(u, 0) /\ SettledIo(u) /\ EarIo(u) /\ (u.closed \/ AnswersIo(t, u))

LEMMA EarIdleIo == ASSUME NEW t, EarIo(t) PROVE IdleHearsIo(t)
  BY DEF EarIo, IdleHearsIo, RestEarIo

LEMMA ClosedEarIo == ASSUME NEW t, t.closed PROVE EarIo(t)
  BY DEF EarIo, ReadEarIo, RestEarIo

LEMMA ListenStepIo ==
  ASSUME NEW t \in StreamsIo, NEW w, HalfIo(w, 0), w.closed \/ AnswersIo(t, w), ReadEarIo(w), RestEarIo(w)
  PROVE  SteppedIo(t, Io!MaybeAddErrorListener(w))
 <1> DEFINE u == Io!MaybeAddErrorListener(w)
 <1>1. /\ HalfIo(u, 0) /\ SettledIo(u) /\ LeadsIo(w, u) /\ u.closed = w.closed
       /\ ~w.closed => (IdleIo(u) => u.listen # {})
   BY MaybeAddIo
 <1> HIDE DEF u
 <1>2. w \in StreamsIo /\ u \in StreamsIo
   BY <1>1 DEF HalfIo
 <1>3. ReadEarIo(u) /\ RestEarIo(u)
   BY <1>1, <1>2, LeadsEarIo
 <1>4. IdleHearsIo(u)
   BY <1>1 DEF IdleHearsIo, IdleIo
 <1>5. u.closed \/ AnswersIo(t, u)
  <2>1. u.closed \/ AnswersIo(w, u)
    BY <1>1 DEF LeadsIo
  <2>2. QED
    BY <2>1, <1>1, <1>2, AnswersOnIo
 <1>6. QED
   BY <1>1, <1>3, <1>4, <1>5 DEF SteppedIo, EarIo, u


LEMMA NoneCountIo == <<>> \in QueuesIo /\ CountIo(<<>>) = 0 /\ \A w : ~HasIo(<<>>, w)
 <1>1. DOMAIN <<>> = {} /\ <<>> \in QueuesIo
   BY DEF QueuesIo
 <1>2. CountedIo(<<>>) = {}
   BY <1>1 DEF CountedIo
 <1>3. QED
   BY <1>1, <1>2, FS_EmptySet DEF CountIo, HasIo

LEMMA InitIo == ASSUME StreamBounds, Io!Init PROVE StreamsInv
 <1>1. PICK start \in Starts : sIo = Io!New(start)
   BY DEF Io!Init
 <1>2. start \in Io!StreamStarts
   BY DEF StreamBounds
 <1>3. sIo \in StreamsIo
  <2> DEFINE oc == IF start = "start tls" THEN "set" ELSE "none"
             cn == IF start = "connecting" THEN "future" ELSE "none"
             hs == IF start = "start tls" THEN "tls" ELSE "none"
             x == IF start = "start tls" THEN "waiting" ELSE "none"
             l == IF start = "connected" THEN {} ELSE {"W"}
             coming == start \in {"connecting", "connecting ssl"}
             shakes == start \in {"accepting", "connecting ssl", "start tls"}
             known == start # "connected"
  <2>1. /\ Io!NoRead \in ReadsIo /\ oc \in {"none", "set", "told"} /\ cn \in {"none", "future"}
        /\ hs \in {"none", "tls", "future"} /\ x \in {"none", "waiting", "answered"}
        /\ coming \in BOOLEAN /\ shakes \in BOOLEAN /\ known \in BOOLEAN
    BY DEF Io!NoRead, ReadsIo
  <2>2. l \in SUBSET {"R", "W"} /\ <<>> \in QueuesIo /\ <<>> \in Seq(Nat)
    BY NoneCountIo
  <2>3. sIo = [read |-> Io!NoRead, max |-> 0, recvd |-> 0, taken |-> 0, total |-> 0, done |-> 0,
               writer |-> FALSE, futures |-> <<>>, onclose |-> oc, connect |-> cn,
               connecting |-> coming, accepting |-> shakes,
               wants |-> "none", handshake |-> hs, tls |-> x, listen |-> l,
               handler |-> known, pending |-> 0, queue |-> <<>>,
               closed |-> FALSE, late |-> FALSE]
    BY <1>1 DEF Io!New
  <2> HIDE DEF oc, cn, hs, x, l, coming, shakes, known
  <2>4. QED
    BY <2>1, <2>2, <2>3 DEF StreamsIo
 <1>4. /\ sIo.recvd = 0 /\ sIo.taken = 0 /\ sIo.total = 0 /\ sIo.done = 0 /\ sIo.futures = <<>>
       /\ sIo.pending = 0 /\ sIo.queue = <<>> /\ ~sIo.closed /\ ~sIo.late /\ sIo.read.via = "none"
       /\ sIo.onclose \in {"none", "set"}
       /\ sIo.connecting => "W" \in sIo.listen
       /\ sIo.accepting => sIo.listen # {}
       /\ sIo.onclose = "set" => sIo.listen # {}
       /\ (sIo.handshake = "tls" <=> sIo.tls = "waiting")
       /\ sIo.tls = "waiting" => sIo.onclose = "set"
   BY <1>1, <1>2 DEF Io!New, Io!NoRead, Io!StreamStarts
 <1>5. peerIo \in PeersIo /\ peerIo.sent = 0 /\ opsIo = 0
   BY DEF Io!Init, PeersIo
 <1>6. TlsOkIo(sIo.queue, sIo.tls, sIo.handshake, sIo.onclose) /\ LastOkIo(sIo.queue, sIo.late)
  <2>1. DOMAIN <<>> = {}
    OBVIOUS
  <2>2. QED
    BY <2>1, <1>4, NoneCountIo DEF TlsOkIo, LastOkIo
 <1>7. InTurnIo(sIo.futures, sIo.done, sIo.total)
   BY <1>4 DEF InTurnIo
 <1>8. HalfIo(sIo, 0)
   BY <1>3, <1>4, <1>5, <1>6, <1>7, NoneCountIo DEF HalfIo
 <1>9. SettledIo(sIo) /\ EarIo(sIo)
   BY <1>4 DEF SettledIo, EarIo, ReadEarIo, RestEarIo, IdleHearsIo
 <1>10. QED
   BY <1>5, <1>8, <1>9 DEF StreamsInv, StreamBounds

LEMMA EventsIo == ASSUME StreamsInv, Io!Events PROVE SteppedIo(sIo, sIo')
 <1>1. PICK evs \in SUBSET {"R", "W", "E"} :
         evs # {} /\ evs \ {"E"} \subseteq sIo.listen /\ sIo' \in Io!HandleEvents(sIo, evs)
   BY DEF Io!Events
 <1>2. ~sIo.closed /\ HalfIo(sIo, 0) /\ EarIo(sIo) /\ peerIo.sent \in Nat
   BY DEF Io!Events, StreamsInv, PeersIo
 <1>3. QED
   BY <1>1, <1>2, HandleEventsIo DEF SteppedIo

(* A call of the user from outside the loop.                               *)
LEMMA UserStepIo ==
  ASSUME StreamBounds, StreamsInv, NEW u \in Io!UserCalls(sIo)
  PROVE  SteppedIo(sIo, [u EXCEPT !.late = @ \/ sIo.onclose = "told"])
 <1>1. /\ HalfIo(sIo, 0) /\ SettledIo(sIo) /\ EarIo(sIo) /\ peerIo.sent \in Nat /\ sIo \in StreamsIo
       /\ sIo.queue \in QueuesIo /\ sIo.pending = CountIo(sIo.queue) + 0
   BY DEF StreamsInv, PeersIo, HalfIo, StreamsIo
 <1>2. FreeIo(sIo) => CalledIo(sIo, u)
   BY <1>1, UserCallsIo
 <1>3. CASE sIo.onclose # "told"
  <2>1. CalledIo(sIo, u)
    BY <1>1, <1>2, <1>3, OpenFreeIo
  <2>2. u \in StreamsIo
    BY <2>1 DEF CalledIo, HalfIo
  <2>3. [u EXCEPT !.late = @ \/ sIo.onclose = "told"] = u
    BY <2>2, <1>3 DEF StreamsIo
  <2>4. IdleHearsIo(sIo) /\ ReadEarIo(sIo) /\ RestEarIo(sIo)
    BY <1>1, EarIdleIo DEF EarIo
  <2>5. EarIo(u)
    BY <2>1, <2>4 DEF CalledIo, EarIo
  <2>6. QED
    BY <1>1, <2>1, <2>3, <2>5 DEF CalledIo, SteppedIo
 <1>4. CASE sIo.onclose = "told"
  <2>1. sIo.closed
    BY <1>1, <1>4 DEF HalfIo
  <2>2. HalfIo(LateIo(u), 0) /\ SettledIo(LateIo(u)) /\ LateIo(u).closed
   <3>1. CASE FreeIo(sIo)
    <4>1. HalfIo(u, 0) /\ SettledIo(u) /\ u.closed
      BY <3>1, <1>1, <1>2, <2>1 DEF CalledIo
    <4>2. u \in StreamsIo
      BY <4>1 DEF HalfIo
    <4>3. HalfIo(LateIo(u), 0) /\ SettledIo(LateIo(u)) /\ LateIo(u).closed
      BY <4>1, <4>2, LateHalfIo, LateIsIo
    <4>4. QED
      BY <4>3
   <3>2. CASE ~FreeIo(sIo)
    <4>1. HasIo(sIo.queue, "close callback")
      BY <3>2 DEF FreeIo
    <4>2. CountIo(sIo.queue) > 0
      BY <4>1, <1>1, HasCountIo
    <4>3. sIo.pending > 0
      BY <4>2, <1>1, CountIsIo
    <4>4. HalfIo(LateIo(u), 0) /\ SettledIo(LateIo(u)) /\ LateIo(u).closed
      BY <4>3, <1>1, <1>4, <2>1, LateAllIo
    <4>5. QED
      BY <4>4
   <3>3. QED
     BY <3>1, <3>2
  <2>3. [u EXCEPT !.late = @ \/ sIo.onclose = "told"] = LateIo(u)
    BY <1>4 DEF LateIo
  <2>4. EarIo(LateIo(u))
    BY <2>2, ClosedEarIo
  <2>5. QED
    BY <2>2, <2>3, <2>4 DEF SteppedIo
 <1>5. QED
   BY <1>3, <1>4

(* A callback of the stream runs on the loop.                              *)
LEMMA QueuedStepIo == ASSUME StreamBounds, StreamsInv, Io!RunQueued PROVE SteppedIo(sIo, sIo')
 <1> DEFINE t == [sIo EXCEPT !.queue = Tail(@)]
            c == [t EXCEPT !.pending = @ - 1, !.tls = Io!AnswerTls(t, Head(sIo.queue))]
 <1>1. /\ HalfIo(sIo, 0) /\ SettledIo(sIo) /\ EarIo(sIo) /\ peerIo.sent \in Nat /\ sIo \in StreamsIo
       /\ sIo.queue # <<>> /\ ReadEarIo(sIo) /\ RestEarIo(sIo)
   BY DEF StreamsInv, PeersIo, HalfIo, Io!RunQueued, EarIo
 <1>2. CASE Head(sIo.queue) = "close"
  <2>1. sIo' = Io!CloseStream(t)
    BY <1>2 DEF Io!RunQueued
  <2>2. HalfIo(t, 0) /\ LeadsIo(sIo, t)
    BY <1>1, <1>2, PoppedIo
  <2> HIDE DEF t
  <2>3. HalfIo(sIo', 0) /\ LeadsIo(sIo, sIo') /\ SettledIo(sIo') /\ sIo'.closed
    BY <1>1, <2>1, <2>2, ThenCloseIo
  <2>4. EarIo(sIo')
    BY <2>3, ClosedEarIo
  <2>5. QED
    BY <2>3, <2>4 DEF SteppedIo
 <1>3. CASE Head(sIo.queue) # "close"
  <2>1. \/ sIo' = Io!MaybeAddErrorListener(c)
        \/ sIo' = Io!MaybeAddErrorListener(Io!CloseStream(c))
        \/ \E u \in Io!UserCalls(c) : sIo' = Io!MaybeAddErrorListener(u)
    BY <1>3 DEF Io!RunQueued
  <2>2. HalfIo(c, 0) /\ FreeIo(c) /\ AnswersIo(sIo, c) /\ ReadEarIo(c) /\ RestEarIo(c)
    BY <1>1, <1>3, RunsIo
  <2> HIDE DEF c, t
  <2>3. CASE sIo' = Io!MaybeAddErrorListener(c)
    BY <1>1, <2>2, <2>3, ListenStepIo
  <2>4. CASE sIo' = Io!MaybeAddErrorListener(Io!CloseStream(c))
   <3>1. HalfIo(Io!CloseStream(c), 0) /\ Io!CloseStream(c).closed
     BY <2>2, CloseStreamIo
   <3>2. EarIo(Io!CloseStream(c))
     BY <3>1, ClosedEarIo
   <3>3. QED
     BY <1>1, <2>4, <3>1, <3>2, ListenStepIo DEF EarIo
  <2>5. CASE \E u \in Io!UserCalls(c) : sIo' = Io!MaybeAddErrorListener(u)
   <3>1. PICK u \in Io!UserCalls(c) : sIo' = Io!MaybeAddErrorListener(u)
     BY <2>5
   <3>2. CalledIo(c, u)
     BY <1>1, <2>2, UserCallsIo
   <3>3. HalfIo(u, 0) /\ ReadEarIo(u) /\ RestEarIo(u)
     BY <2>2, <3>2 DEF CalledIo
   <3>4. u.closed \/ AnswersIo(sIo, u)
    <4>1. c \in StreamsIo /\ u \in StreamsIo
      BY <2>2, <3>3 DEF HalfIo
    <4>2. u.closed \/ AnswersIo(c, u)
      BY <3>2 DEF CalledIo
    <4>3. QED
      BY <4>1, <4>2, <1>1, <2>2, AnswersOnIo
   <3>5. QED
     BY <1>1, <3>1, <3>3, <3>4, ListenStepIo
  <2>6. QED
    BY <2>1, <2>3, <2>4, <2>5
 <1>4. QED
   BY <1>2, <1>3

LEMMA SelfStepIo == ASSUME StreamsInv PROVE SteppedIo(sIo, sIo)
 <1>1. sIo \in StreamsIo
   BY DEF StreamsInv, HalfIo
 <1>2. AnswersIo(sIo, sIo)
   BY <1>1 DEF AnswersIo, StreamsIo
 <1>3. QED
   BY <1>2 DEF StreamsInv, SteppedIo

(* The peer keeps what it sent; its step and that of the stream are apart. *)
LEMMA PeerStepIo ==
  ASSUME StreamBounds, StreamsInv, Io!Next
  PROVE  /\ SteppedIo(sIo, sIo')
         /\ peerIo' \in PeersIo /\ peerIo'.sent >= peerIo.sent /\ peerIo'.sent <= MaxSent
         /\ opsIo' \in 0..MaxOps
 <1>1. peerIo \in PeersIo /\ peerIo.sent \in Nat /\ peerIo.sent <= MaxSent /\ opsIo \in 0..MaxOps
       /\ MaxOps \in Nat /\ MaxSent \in Nat
   BY DEF StreamsInv, PeersIo, StreamBounds
 <1>2. CASE Io!Events
   BY <1>1, <1>2, EventsIo DEF Io!Events
 <1>3. CASE Io!UserActs
  <2>1. PICK u \in Io!UserCalls(sIo) : sIo' = [u EXCEPT !.late = @ \/ sIo.onclose = "told"]
    BY <1>3 DEF Io!UserActs
  <2>2. SteppedIo(sIo, sIo')
    BY <2>1, UserStepIo
  <2>3. QED
    BY <1>1, <1>3, <2>2 DEF Io!UserActs
 <1>4. CASE Io!RunQueued
  <2>1. SteppedIo(sIo, sIo')
    BY <1>4, QueuedStepIo
  <2>2. opsIo' \in 0..MaxOps /\ peerIo' = peerIo
    BY <1>1, <1>4 DEF Io!RunQueued
  <2>3. QED
    BY <1>1, <2>1, <2>2
 <1>5. CASE Io!PeerSends
   BY <1>1, <1>5, SelfStepIo DEF Io!PeerSends, PeersIo
 <1>6. CASE Io!PeerEnds
   BY <1>1, <1>6, SelfStepIo DEF Io!PeerEnds, PeersIo
 <1>7. QED
   BY <1>2, <1>3, <1>4, <1>5, <1>6 DEF Io!Next

LEMMA NextIo == ASSUME StreamBounds, StreamsInv, Io!Next PROVE StreamsInv' /\ Io!AnswersWrites
 <1>1. /\ HalfIo(sIo', 0) /\ SettledIo(sIo') /\ EarIo(sIo') /\ (sIo'.closed \/ AnswersIo(sIo, sIo'))
       /\ peerIo' \in PeersIo /\ peerIo'.sent >= peerIo.sent /\ peerIo'.sent <= MaxSent /\ opsIo' \in 0..MaxOps
   BY PeerStepIo DEF SteppedIo
 <1>2. peerIo.sent \in Nat /\ peerIo'.sent \in Nat /\ sIo'.recvd \in Nat
   BY <1>1 DEF StreamsInv, PeersIo, HalfIo, StreamsIo
 <1>3. HalfIo(sIo, 0)'
   BY <1>1, <1>2 DEF HalfIo
 <1>4. SettledIo(sIo)' /\ EarIo(sIo)'
   BY <1>1
 <1>5. Io!AnswersWrites
  <2>1. sIo'.closed \/ InTurnIo(sIo'.futures, sIo'.done, sIo'.total)
    BY <1>1 DEF HalfIo
  <2>2. QED
    BY <1>1, <2>1 DEF Io!AnswersWrites, AnswersIo, InTurnIo
 <1>6. QED
   BY <1>1, <1>3, <1>4, <1>5 DEF StreamsInv

(* What the parts of the invariant say.                                    *)
LEMMA SoundIo == ASSUME StreamsInv PROVE Io!TypeOK /\ Io!StreamSound
 <1>1. /\ HalfIo(sIo, 0) /\ SettledIo(sIo) /\ EarIo(sIo) /\ sIo \in StreamsIo /\ peerIo \in PeersIo
       /\ sIo.queue \in QueuesIo /\ sIo.pending = CountIo(sIo.queue) + 0 /\ CountIo(sIo.queue) \in Nat
       /\ peerIo.sent <= MaxSent /\ opsIo \in 0..MaxOps
  <2>1. HalfIo(sIo, 0) /\ sIo \in StreamsIo
    BY DEF StreamsInv, HalfIo
  <2>2. sIo.queue \in QueuesIo /\ sIo.pending = CountIo(sIo.queue) + 0
    BY <2>1 DEF HalfIo, StreamsIo
  <2>3. QED
    BY <2>1, <2>2, CountIsIo DEF StreamsInv
 <1>2. /\ sIo.taken \in Nat /\ sIo.recvd \in Nat /\ sIo.done \in Nat /\ sIo.total \in Nat /\ sIo.pending \in Nat
       /\ sIo.read \in ReadsIo /\ sIo.listen \subseteq {"R", "W"} /\ sIo.tls \in {"none", "waiting", "answered"}
   BY <1>1 DEF StreamsIo
 <1>3. Io!TypeOK
  <2>1. sIo.queue \in Seq({"read", "stream", "write", "close", "close callback", "tls"})
   <3>1. EntriesIo \cup {"close"} = {"read", "stream", "write", "close", "close callback", "tls"}
     BY DEF EntriesIo
   <3>2. QED
     BY <3>1, <1>1 DEF QueuesIo
  <2>2. peerIo.sent \in 0..MaxSent /\ peerIo.end \in {"open", "eof", "reset"}
    BY <1>1 DEF PeersIo
  <2>3. sIo.read.type \in {"none", "bytes", "until", "close"}
    BY <1>2 DEF ReadsIo
  <2>4. 0 <= sIo.taken /\ sIo.taken <= sIo.recvd /\ sIo.recvd <= peerIo.sent /\ sIo.done <= sIo.total
    BY <1>1, <1>2 DEF HalfIo
  <2>5. QED
    BY <1>1, <1>2, <2>1, <2>2, <2>3, <2>4 DEF Io!TypeOK
 <1>4. Io!ClosedIsTold
  <2>1. {i \in DOMAIN sIo.queue : sIo.queue[i] \in {"read", "stream", "write", "close callback", "tls"}}
          = CountedIo(sIo.queue)
   <3>1. \A i \in DOMAIN sIo.queue : sIo.queue[i] \in EntriesIo \cup {"close"}
     BY <1>1 DEF QueuesIo
   <3>2. QED
     BY <3>1 DEF CountedIo, EntriesIo
  <2>2. Io!Waiting({"read", "stream", "write", "close callback", "tls"}) = CountIo(sIo.queue)
    BY <2>1, SameCardinalityIo DEF Io!Waiting, CountIo
  <2>3. sIo.pending = Io!Waiting({"read", "stream", "write", "close callback", "tls"})
   <3>1. sIo.pending = CountIo(sIo.queue)
     BY <1>1
   <3>2. QED
     BY <3>1, <2>2
  <2>4. QED
    BY <2>3, <1>1 DEF Io!ClosedIsTold, SettledIo, Io!Reading
 <1>5. Io!TlsAnswered
  <2>1. ASSUME sIo.closed, sIo.pending = 0 PROVE sIo.tls # "waiting"
   <3>1. sIo.onclose # "set"
     BY <1>1, <2>1 DEF SettledIo
   <3>2. ~HasIo(sIo.queue, "close callback")
    <4>1. CountIo(sIo.queue) = 0
      BY <1>1, <2>1
    <4>2. ASSUME HasIo(sIo.queue, "close callback") PROVE FALSE
     <5>1. CountIo(sIo.queue) > 0
       BY <4>2, <1>1, HasCountIo
     <5>2. QED
       BY <4>1, <5>1
    <4>3. QED
      BY <4>2
   <3>3. QED
     BY <1>1, <3>1, <3>2 DEF HalfIo, TlsOkIo
  <2>2. QED
    BY <1>2, <2>1 DEF Io!TlsAnswered
 <1>6. Io!CloseComesLast
   BY <1>1 DEF Io!CloseComesLast, HalfIo, LastOkIo
 <1>7. Io!Hears
  <2>1. ASSUME ~sIo.closed, ~sIo.connecting PROVE ReadEarIo(sIo) /\ RestEarIo(sIo) /\ IdleHearsIo(sIo)
    BY <1>1, <2>1 DEF EarIo
  <2>2. QED
    BY <2>1, <1>2 DEF Io!Hears, ReadEarIo, RestEarIo, IdleHearsIo, Io!Reading, Io!Unwritten, Io!Size
 <1>8. QED
   BY <1>3, <1>4, <1>5, <1>6, <1>7 DEF Io!StreamSound

(* A stream leaves nobody waiting, and its counts agree.                   *)
THEOREM StreamTold == StreamBounds => (Io!Spec => [](Io!TypeOK /\ Io!StreamSound) /\ Io!WritesAnswered)
 <1> SUFFICES ASSUME StreamBounds PROVE Io!Spec => [](Io!TypeOK /\ Io!StreamSound) /\ Io!WritesAnswered
   OBVIOUS
 <1>1. Io!Init => StreamsInv
   BY InitIo
 <1>2. StreamsInv /\ [Io!Next]_(Io!vars) => StreamsInv' /\ [Io!AnswersWrites]_(Io!vars)
  <2>1. ASSUME StreamsInv, Io!Next PROVE StreamsInv' /\ Io!AnswersWrites
    BY <2>1, NextIo
  <2>2. ASSUME StreamsInv, UNCHANGED Io!vars PROVE StreamsInv'
   <3>1. peerIo' = peerIo /\ sIo' = sIo /\ opsIo' = opsIo
     BY <2>2 DEF Io!vars
   <3>2. HalfIo(sIo, 0)' /\ SettledIo(sIo)' /\ EarIo(sIo)'
     BY <2>2, <3>1 DEF StreamsInv, HalfIo
   <3>3. QED
     BY <2>2, <3>1, <3>2 DEF StreamsInv
  <2>3. QED
    BY <2>1, <2>2
 <1>3. StreamsInv => Io!TypeOK /\ Io!StreamSound
   BY SoundIo
 <1>4. QED
   BY <1>1, <1>2, <1>3, PTL DEF Io!Spec, Io!WritesAnswered

HIDE DEF peerIo, sIo, opsIo

-----------------------------------------------------------------------------
(* The run                                                                 *)

vars == <<part, v1, v2, v3, v4, v5, v6, v7, v8, v9, v10, v11, v12, v13, v14, v15,
                v16, v17>>

(* The parts of which Tornado_proofs and Parts_proofs have the proofs, and *)
(* those of which there is none.                                           *)
Tornado == INSTANCE Tornado_proofs
Parts == INSTANCE Parts_proofs

Sc == INSTANCE StackContexts WITH
       Kinds <- KindsSc, MaxFrames <- MaxFramesSc, kind <- v1, active <- v2,
       old <- v3, used <- v4, depth <- v5, state <- v6, frames <- v7, raising <- v8,
       saved <- v9, inconsistent <- v10, broke <- v11, pulled <- v12
Hc == INSTANCE HttpClient WITH
       Request <- RequestHc, MaxClients <- MaxClientsHc, closed <- v1, queue <- v2,
       waiting <- v3, queued <- v4, active <- v5, conn <- v6, answers <- v7,
       resolved <- v8, dropped <- v9
Cu == INSTANCE CurlClient WITH
       Request <- RequestCu, bad <- v1, fetched <- v2, requests <- v3, free <- v4,
       info <- v5, easy <- v6, fds <- v7, timeout <- v8, answers <- v9,
       closed <- v10
Nc == INSTANCE Connectors WITH
       how <- v1, ssl <- v2, timed <- v3, phase <- v4, result <- v5, c <- v6
Ca == INSTANCE ClientCache WITH
       MaxClients <- MaxClientsCa, impl <- v1, loops <- v2, current <- v3,
       clients <- v4, cache <- v5, syncs <- v6, fetches <- v7, raised <- v8

(* What is assumed of the constants. *)
ASSUME PartsBounds ==
  /\ Tornado!ServingBounds
  /\ MaxBodyY \in Nat
  /\ Tornado!FutureNames
  /\ Tornado!WorkerCounts
  /\ Tornado!PidsGiven
  /\ Tornado!ChunkBounds
  /\ RuleBounds
  /\ Tornado!CookieDays
  /\ Tornado!Sm!SemaphoresAssumption
  /\ Tornado!ConditionBounds
  /\ Tornado!PingBounds
  /\ QueueBounds
  /\ Parts!PollBounds
  /\ Parts!LoopBounds
  /\ Parts!PeriodicBounds
  /\ Parts!CallCounts
  /\ StreamBounds
  /\ Parts!BufferBounds
  /\ Parts!DispatchBounds
  /\ Parts!OlderBounds
  /\ Parts!LineBounds
  /\ Parts!SomeInputs

(* Values of the run for constants that a .cfg cannot write. *)
KindsScOf ==
  {<<"stack", "eats", "faulty">>, <<"passes", "faulty", "broken">>, <<"stack", "stack", "passes">>}
MaxFramesWeOf ==
  ({} :> [server |-> 1, client |-> 2]) @@ ({"server"} :> [server |-> 1, client |-> 1])

(* Nothing in the queue tells its gets, or its joins, from each other. *)
Symmetry == Permutations(JoinCall) \cup Permutations(GetCall)

(* Variables from the one named on are not used. *)
None17 == v17 = 0
None15 == v15 = 0 /\ v16 = 0 /\ None17
None13 == v13 = 0 /\ v14 = 0 /\ None15
None12 == v12 = 0 /\ None13
None11 == v11 = 0 /\ None12
None10 == v10 = 0 /\ None11
None9 == v9 = 0 /\ None10
None8 == v8 = 0 /\ None9
None7 == v7 = 0 /\ None8
None6 == v6 = 0 /\ None7
None5 == v5 = 0 /\ None6
None4 == v4 = 0 /\ None5
Keep17 == UNCHANGED <<v17>>
Keep15 == UNCHANGED <<v15, v16>> /\ Keep17
Keep13 == UNCHANGED <<v13, v14>> /\ Keep15
Keep12 == UNCHANGED <<v12>> /\ Keep13
Keep11 == UNCHANGED <<v11>> /\ Keep12
Keep10 == UNCHANGED <<v10>> /\ Keep11
Keep9 == UNCHANGED <<v9>> /\ Keep10
Keep8 == UNCHANGED <<v8>> /\ Keep9
Keep7 == UNCHANGED <<v7>> /\ Keep8
Keep6 == UNCHANGED <<v6>> /\ Keep7
Keep5 == UNCHANGED <<v5>> /\ Keep6
Keep4 == UNCHANGED <<v4>> /\ Keep5

(* The queue is looked at for so many of its calls at a time. *)
FewCalls == Cardinality({c \in Qu!Call : callQu[c] # "none"}) <= MaxCallsQu

Init ==
  \/ part = "queue" /\ Qu!Init /\ None13
  \/ part = "semaphore" /\ Tornado!Sm!Init /\ None9
  \/ part = "condition" /\ Tornado!Cn!Init /\ None10
  \/ part = "loop" /\ Parts!Lo!Init
  \/ part = "asyncio" /\ Parts!As!Init /\ None10
  \/ part = "periodic" /\ Parts!Pc!Init /\ None9
  \/ part = "sync" /\ Parts!Rs!Init /\ None11
  \/ part = "coroutine" /\ Tornado!G!Init /\ None17
  \/ part = "combinator" /\ Parts!Cb!Init /\ None10
  \/ part = "executor" /\ Parts!Ex!Init /\ None8
  \/ part = "context" /\ Sc!Init /\ None13
  \/ part = "stream" /\ Io!Init /\ None4
  \/ part = "buffer" /\ Parts!Sb!Init /\ None6
  \/ part = "serving" /\ Tornado!H!Init /\ None15
  \/ part = "handler" /\ Tornado!Y!Init /\ None9
  \/ part = "websocket" /\ Tornado!We!Init /\ None8
  \/ part = "client" /\ Hc!Init /\ None10
  \/ part = "curl" /\ Cu!Init /\ None11
  \/ part = "connector" /\ Nc!Init /\ None7
  \/ part = "clients" /\ Ca!Init /\ None9
  \/ part = "server" /\ Tornado!V!Init /\ None15
  \/ part = "workers" /\ Tornado!J!Init /\ None7
  \/ part = "subprocess" /\ Tornado!D!Init /\ None13
  \/ part = "static" /\ Tornado!F!Init /\ None6
  \/ part = "routing" /\ Z!Init /\ None5
  \/ part = "cookie" /\ Tornado!Co!Init /\ None9
  \/ part = "dispatch" /\ Parts!Di!Init /\ None13
  \/ part = "older" /\ Parts!Ol!Init /\ None8
  \/ part = "broadcast" /\ Parts!Br!Init /\ None8

Next ==
  \/ part = "queue" /\ Qu!Next /\ FewCalls' /\ UNCHANGED part /\ Keep13
  \/ part = "semaphore" /\ Tornado!Sm!Next /\ UNCHANGED part /\ Keep9
  \/ part = "condition" /\ Tornado!Cn!Next /\ UNCHANGED part /\ Keep10
  \/ part = "loop" /\ Parts!Lo!Next /\ UNCHANGED part
  \/ part = "asyncio" /\ Parts!As!Next /\ UNCHANGED part /\ Keep10
  \/ part = "periodic" /\ Parts!Pc!Next /\ UNCHANGED part /\ Keep9
  \/ part = "sync" /\ Parts!Rs!Next /\ UNCHANGED part /\ Keep11
  \/ part = "coroutine" /\ Tornado!G!Next /\ UNCHANGED part /\ Keep17
  \/ part = "combinator" /\ Parts!Cb!Next /\ UNCHANGED part /\ Keep10
  \/ part = "executor" /\ Parts!Ex!Next /\ UNCHANGED part /\ Keep8
  \/ part = "context" /\ Sc!Next /\ UNCHANGED part /\ Keep13
  \/ part = "stream" /\ Io!Next /\ UNCHANGED part /\ Keep4
  \/ part = "buffer" /\ Parts!Sb!Next /\ UNCHANGED part /\ Keep6
  \/ part = "serving" /\ Tornado!H!Next /\ UNCHANGED part /\ Keep15
  \/ part = "handler" /\ Tornado!Y!Next /\ UNCHANGED part /\ Keep9
  \/ part = "websocket" /\ Tornado!We!Next /\ UNCHANGED part /\ Keep8
  \/ part = "client" /\ Hc!Next /\ UNCHANGED part /\ Keep10
  \/ part = "curl" /\ Cu!Next /\ UNCHANGED part /\ Keep11
  \/ part = "connector" /\ Nc!Next /\ UNCHANGED part /\ Keep7
  \/ part = "clients" /\ Ca!Next /\ UNCHANGED part /\ Keep9
  \/ part = "server" /\ Tornado!V!Next /\ UNCHANGED part /\ Keep15
  \/ part = "workers" /\ Tornado!J!Next /\ UNCHANGED part /\ Keep7
  \/ part = "subprocess" /\ Tornado!D!Next /\ UNCHANGED part /\ Keep13
  \/ part = "static" /\ Tornado!F!Next /\ UNCHANGED part /\ Keep6
  \/ part = "routing" /\ Z!Next /\ UNCHANGED part /\ Keep5
  \/ part = "cookie" /\ Tornado!Co!Next /\ UNCHANGED part /\ Keep9
  \/ part = "dispatch" /\ Parts!Di!Next /\ UNCHANGED part /\ Keep13
  \/ part = "older" /\ Parts!Ol!Next /\ UNCHANGED part /\ Keep8
  \/ part = "broadcast" /\ Parts!Br!Next /\ UNCHANGED part /\ Keep8

Spec == Init /\ [][Next]_vars

(* The types of the variables of each part. *)
TypeOK ==
  /\ part = "queue" => Qu!TypeOK
  /\ part = "semaphore" => Tornado!Sm!TypeOK
  /\ part = "condition" => Tornado!Cn!TypeOK
  /\ part = "loop" => Parts!Lo!TypeOK
  /\ part = "asyncio" => Parts!As!TypeOK
  /\ part = "periodic" => Parts!Pc!TypeOK
  /\ part = "sync" => Parts!Rs!TypeOK
  /\ part = "coroutine" => Tornado!G!TypeOK
  /\ part = "combinator" => Parts!Cb!TypeOK
  /\ part = "executor" => Parts!Ex!TypeOK
  /\ part = "context" => Sc!TypeOK
  /\ part = "stream" => Io!TypeOK
  /\ part = "buffer" => Parts!Sb!TypeOK
  /\ part = "serving" => Tornado!H!TypeOK
  /\ part = "handler" => Tornado!Y!TypeOK
  /\ part = "websocket" => Tornado!We!TypeOK
  /\ part = "client" => Hc!TypeOK
  /\ part = "curl" => Cu!TypeOK
  /\ part = "connector" => Nc!TypeOK
  /\ part = "clients" => Ca!TypeOK
  /\ part = "server" => Tornado!V!TypeOK
  /\ part = "workers" => Tornado!J!TypeOK
  /\ part = "subprocess" => Tornado!D!TypeOK
  /\ part = "static" => Tornado!F!TypeOK
  /\ part = "routing" => Z!TypeOK
  /\ part = "cookie" => Tornado!Co!TypeOK
  /\ part = "dispatch" => Parts!Di!TypeOK
  /\ part = "older" => Parts!Ol!TypeOK
  /\ part = "broadcast" => Parts!Br!TypeOK

(* Whoever waits on a queue, a semaphore, a condition or an event waits    *)
(* for a reason, and is where a put, a release or a notify finds him; no   *)
(* permit is lost or made (queues.py, locks.py).                           *)
WaitersSound ==
  /\ part = "queue" => Qu!NobodyWaitsInVain
  /\ part = "semaphore" => Tornado!Sm!PermitsConserved /\ Tornado!Sm!WaitersSwept
  /\ part = "condition" => Tornado!Cn!WaitersReachable

(* A queue is a channel, of which every item is taken once and in order,   *)
(* whatever waiters time out or are cancelled (queues.py).                 *)
QueueImplementsChannel ==
  /\ part = "queue" => Qu!Abstract!Init
  /\ [][part = "queue" => Qu!ChannelStep]_vars

(* The loops never sleep with work, nor call a handler for another's       *)
(* event; a periodic callback has one timer; run_sync ends (ioloop.py,     *)
(* platform/asyncio.py).                                                   *)
LoopsSound ==
  /\ part = "loop" => Parts!Lo!LoopSound
  /\ part = "asyncio" => Parts!As!AsyncioSound
  /\ part = "periodic" => Parts!Pc!OneTimer
  /\ part = "sync" => Parts!Rs!CallsEnd

(* Coroutines are never stuck and give their result; so do combinators of  *)
(* futures and other threads (gen.py, concurrent.py).                      *)
CoroutinesSound ==
  /\ part = "coroutine" => Tornado!G!NeverStuck /\ Tornado!G!ResultGiven
  /\ part = "combinator" => Parts!Cb!CombinatorsSound
  /\ part = "executor" => Parts!Ex!ExecutorsSound

(* Callbacks run in their own stack contexts, which are entered as often   *)
(* as they are left (stack_context.py).                                    *)
ContextsKept == part = "context" => Sc!ContextsSound

(* A stream leaves nobody waiting when it closes, hears what it waits for, *)
(* and keeps what it has to write in order (iostream.py).                  *)
StreamsSound ==
  /\ part = "stream" => Io!StreamSound
  /\ part = "buffer" => Parts!Sb!BufferSound

(* Every request that a server reads is answered once, or its connection   *)
(* closed, and its delegate told (http1connection.py, web.py).             *)
ServingSound ==
  /\ part = "serving" => Tornado!H!ServingSound
  /\ part = "handler" => Tornado!Y!HandlerSound

(* Every request that a client makes is answered once, within max_clients, *)
(* on connections that are closed if nobody is given them, by a client     *)
(* that is open (simple_httpclient.py, curl_httpclient.py, tcpclient.py,   *)
(* httpclient.py).                                                         *)
ClientsSound ==
  /\ part = "client" => Hc!ClientsSound
  /\ part = "curl" => Cu!CurlSound
  /\ part = "connector" => Nc!ConnectorSound
  /\ part = "clients" => Ca!CacheOfClientsSound

(* A websocket that begins to close ends, and its messages arrive in order *)
(* (websocket.py).                                                         *)
WebSocketSound == part = "websocket" => Tornado!We!WebSocketSound

(* A server that is stopped accepts no more; the parent knows its workers, *)
(* and the ends of processes are told once (tcpserver.py, process.py).     *)
ProcessesSound ==
  /\ part = "server" => Tornado!V!StopHolds
  /\ part = "workers" => Tornado!J!WorkersKnown
  /\ part = "subprocess" => Tornado!D!SubprocessSound

(* Requests go where the rules say, files are sent as asked, and cookies   *)
(* are taken as long as they should be (routing.py, web.py).               *)
AnswersSound ==
  /\ part = "static" => Tornado!F!StaticSound
  /\ part = "routing" => Z!RoutingSound
  /\ part = "cookie" => Tornado!Co!CookiesSound

(* Orders that cross never wait for a thread that sleeps with nothing on   *)
(* the way to it, until a fault strikes that the code does not recover     *)
(* from (MatchingServer.py, WebServer.py).                              *)
WakeUpsSound == part = "dispatch" => Parts!Di!WakeInv

(* The older matching loop fills orders just up to their volume, and no    *)
(* client of the TCP server misses an update (MatchingServer.py, Server.py). *)
SideProgramsSound ==
  /\ part = "older" => Parts!Ol!OlderSound
  /\ part = "broadcast" => Parts!Br!BroadcastSound

(* What no step does: pass over who waited longer, waste a notify, call    *)
(* off the schedule, go on with a coroutine before the answer is there,    *)
(* answer a write early, read a request before the response to the last,   *)
(* deliver a message after on_close, or take a request from a handler that *)
(* has it.                                                                 *)
StepsSound ==
  [][/\ part = "semaphore" => Tornado!Sm!LongestWaitingFirst
     /\ part = "condition" => Tornado!Cn!NotifyWakes
     /\ part = "periodic" => Parts!Pc!ArmsOnSchedule
     /\ part = "coroutine" => Tornado!G!GoesOnAnswered /\ Tornado!G!ResultStays
     /\ part = "stream" => Io!AnswersWrites
     /\ part = "serving" => Tornado!H!NextInTurn
     /\ part = "websocket" => Tornado!We!QuietWhenTold
     /\ part = "routing" => Z!KeepsRequests]_vars

-----------------------------------------------------------------------------
(* What is proved of the parts, for the run.                               *)

LEMMA QueuePart ==
  Spec => [](part = "queue" => Qu!NobodyWaitsInVain)
 <1>1. part = "queue" /\ Init => Qu!Init
   BY DEF Init
 <1>2. part = "queue" /\ [Next]_vars => [Qu!Next]_(Qu!vars) /\ (part = "queue")'
   BY DEF Next, vars, Qu!vars
 <1>3. ~(part = "queue") /\ [Next]_vars => ~(part = "queue")'
   BY DEF Next, vars
 <1>4. Qu!Spec => []Qu!NobodyWaitsInVain
   BY PartsBounds, QueueWaitsFor DEF PartsBounds
 <1>5. QED
   BY <1>1, <1>2, <1>3, <1>4, PTL DEF Spec, Qu!Spec

LEMMA SemaphorePart ==
  Spec => [](part = "semaphore" => Tornado!Sm!PermitsConserved /\ Tornado!Sm!WaitersSwept)
 <1>1. part = "semaphore" /\ Init => Tornado!Sm!Init
   BY DEF Init
 <1>2. part = "semaphore" /\ [Next]_vars => [Tornado!Sm!Next]_(Tornado!Sm!vars) /\ (part = "semaphore")'
   BY DEF Next, vars, Tornado!Sm!vars
 <1>3. ~(part = "semaphore") /\ [Next]_vars => ~(part = "semaphore")'
   BY DEF Next, vars
 <1>4. Tornado!Sm!Spec => [](Tornado!Sm!PermitsConserved /\ Tornado!Sm!WaitersSwept)
   BY PartsBounds, Tornado!PermitsAreKept DEF PartsBounds
 <1>5. QED
   BY <1>1, <1>2, <1>3, <1>4, PTL DEF Spec, Tornado!Sm!Spec

LEMMA ConditionPart ==
  Spec => [](part = "condition" => Tornado!Cn!WaitersReachable)
 <1>1. part = "condition" /\ Init => Tornado!Cn!Init
   BY DEF Init
 <1>2. part = "condition" /\ [Next]_vars => [Tornado!Cn!Next]_(Tornado!Cn!vars) /\ (part = "condition")'
   BY DEF Next, vars, Tornado!Cn!vars
 <1>3. ~(part = "condition") /\ [Next]_vars => ~(part = "condition")'
   BY DEF Next, vars
 <1>4. Tornado!Cn!Spec => []Tornado!Cn!WaitersReachable
   BY PartsBounds, Tornado!WaitsAreReached DEF PartsBounds
 <1>5. QED
   BY <1>1, <1>2, <1>3, <1>4, PTL DEF Spec, Tornado!Cn!Spec

LEMMA ServingPart ==
  Spec => [](part = "serving" => Tornado!H!ServingSound)
 <1>1. part = "serving" /\ Init => Tornado!H!Init
   BY DEF Init
 <1>2. part = "serving" /\ [Next]_vars => [Tornado!H!Next]_(Tornado!H!vars) /\ (part = "serving")'
   BY DEF Next, vars, Tornado!H!vars
 <1>3. ~(part = "serving") /\ [Next]_vars => ~(part = "serving")'
   BY DEF Next, vars
 <1>4. Tornado!H!Spec => []Tornado!H!ServingSound
   BY PartsBounds, Tornado!ServingIsSound DEF PartsBounds
 <1>5. QED
   BY <1>1, <1>2, <1>3, <1>4, PTL DEF Spec, Tornado!H!Spec

LEMMA ServerPart ==
  Spec => [](part = "server" => Tornado!V!StopHolds)
 <1>1. part = "server" /\ Init => Tornado!V!Init
   BY DEF Init
 <1>2. part = "server" /\ [Next]_vars => [Tornado!V!Next]_(Tornado!V!vars) /\ (part = "server")'
   BY DEF Next, vars, Tornado!V!vars
 <1>3. ~(part = "server") /\ [Next]_vars => ~(part = "server")'
   BY DEF Next, vars
 <1>4. Tornado!V!Spec => []Tornado!V!StopHolds
   BY Tornado!StopIsFinal
 <1>5. QED
   BY <1>1, <1>2, <1>3, <1>4, PTL DEF Spec, Tornado!V!Spec

LEMMA WorkersPart ==
  Spec => [](part = "workers" => Tornado!J!TypeOK /\ Tornado!J!WorkersKnown)
 <1>1. part = "workers" /\ Init => Tornado!J!Init
   BY DEF Init
 <1>2. part = "workers" /\ [Next]_vars => [Tornado!J!Next]_(Tornado!J!vars) /\ (part = "workers")'
   BY DEF Next, vars, Tornado!J!vars
 <1>3. ~(part = "workers") /\ [Next]_vars => ~(part = "workers")'
   BY DEF Next, vars
 <1>4. Tornado!J!Spec => [](Tornado!J!TypeOK /\ Tornado!J!WorkersKnown)
   BY PartsBounds, Tornado!ParentKnowsWorkers DEF PartsBounds
 <1>5. QED
   BY <1>1, <1>2, <1>3, <1>4, PTL DEF Spec, Tornado!J!Spec

LEMMA SubprocessPart ==
  Spec => [](part = "subprocess" => Tornado!D!TypeOK /\ Tornado!D!SubprocessSound)
 <1>1. part = "subprocess" /\ Init => Tornado!D!Init
   BY DEF Init
 <1>2. part = "subprocess" /\ [Next]_vars => [Tornado!D!Next]_(Tornado!D!vars) /\ (part = "subprocess")'
   BY DEF Next, vars, Tornado!D!vars
 <1>3. ~(part = "subprocess") /\ [Next]_vars => ~(part = "subprocess")'
   BY DEF Next, vars
 <1>4. Tornado!D!Spec => [](Tornado!D!TypeOK /\ Tornado!D!SubprocessSound)
   BY PartsBounds, Tornado!EndsAreTold DEF PartsBounds
 <1>5. QED
   BY <1>1, <1>2, <1>3, <1>4, PTL DEF Spec, Tornado!D!Spec

LEMMA StaticPart ==
  Spec => [](part = "static" => Tornado!F!TypeOK /\ Tornado!F!StaticSound)
 <1>1. part = "static" /\ Init => Tornado!F!Init
   BY DEF Init
 <1>2. part = "static" /\ [Next]_vars => [Tornado!F!Next]_(Tornado!F!vars) /\ (part = "static")'
   BY DEF Next, vars, Tornado!F!vars
 <1>3. ~(part = "static") /\ [Next]_vars => ~(part = "static")'
   BY DEF Next, vars
 <1>4. Tornado!F!Spec => [](Tornado!F!TypeOK /\ Tornado!F!StaticSound)
   BY PartsBounds, Tornado!FilesAreServed DEF PartsBounds
 <1>5. QED
   BY <1>1, <1>2, <1>3, <1>4, PTL DEF Spec, Tornado!F!Spec

LEMMA RoutingPart ==
  Spec => [](part = "routing" => Z!TypeOK /\ Z!RoutingSound)
 <1>1. part = "routing" /\ Init => Z!Init
   BY DEF Init
 <1>2. part = "routing" /\ [Next]_vars => [Z!Next]_(Z!vars) /\ (part = "routing")'
   BY DEF Next, vars, Z!vars
 <1>3. ~(part = "routing") /\ [Next]_vars => ~(part = "routing")'
   BY DEF Next, vars
 <1>4. Z!Spec => [](Z!TypeOK /\ Z!RoutingSound)
   BY PartsBounds, RoutedWell DEF PartsBounds
 <1>5. QED
   BY <1>1, <1>2, <1>3, <1>4, PTL DEF Spec, Z!Spec

LEMMA CookiePart ==
  Spec => [](part = "cookie" => Tornado!Co!TypeOK /\ Tornado!Co!CookiesSound)
 <1>1. part = "cookie" /\ Init => Tornado!Co!Init
   BY DEF Init
 <1>2. part = "cookie" /\ [Next]_vars => [Tornado!Co!Next]_(Tornado!Co!vars) /\ (part = "cookie")'
   BY DEF Next, vars, Tornado!Co!vars
 <1>3. ~(part = "cookie") /\ [Next]_vars => ~(part = "cookie")'
   BY DEF Next, vars
 <1>4. Tornado!Co!Spec => [](Tornado!Co!TypeOK /\ Tornado!Co!CookiesSound)
   BY PartsBounds, Tornado!FormsAndLogins DEF PartsBounds
 <1>5. QED
   BY <1>1, <1>2, <1>3, <1>4, PTL DEF Spec, Tornado!Co!Spec

LEMMA HandlerPart ==
  Spec => [](part = "handler" => Tornado!Y!TypeOK /\ Tornado!Y!HandlerSound)
 <1>1. part = "handler" /\ Init => Tornado!Y!Init
   BY DEF Init
 <1>2. part = "handler" /\ [Next]_vars => [Tornado!Y!Next]_(Tornado!Y!vars) /\ (part = "handler")'
   BY DEF Next, vars, Tornado!Y!vars
 <1>3. ~(part = "handler") /\ [Next]_vars => ~(part = "handler")'
   BY DEF Next, vars
 <1>4. Tornado!Y!Spec => [](Tornado!Y!TypeOK /\ Tornado!Y!HandlerSound)
   BY PartsBounds, Tornado!RequestsAreAnswered DEF PartsBounds
 <1>5. QED
   BY <1>1, <1>2, <1>3, <1>4, PTL DEF Spec, Tornado!Y!Spec

LEMMA LoopPart ==
  Spec => [](part = "loop" => Parts!Lo!TypeOK /\ Parts!Lo!LoopSound)
 <1>1. part = "loop" /\ Init => Parts!Lo!Init
   BY DEF Init
 <1>2. part = "loop" /\ [Next]_vars => [Parts!Lo!Next]_(Parts!Lo!vars) /\ (part = "loop")'
   BY DEF Next, vars, Parts!Lo!vars
 <1>3. ~(part = "loop") /\ [Next]_vars => ~(part = "loop")'
   BY DEF Next, vars
 <1>4. Parts!Lo!Spec => [](Parts!Lo!TypeOK /\ Parts!Lo!LoopSound)
   BY PartsBounds, Parts!LoopNeverSleeps DEF PartsBounds
 <1>5. QED
   BY <1>1, <1>2, <1>3, <1>4, PTL DEF Spec, Parts!Lo!Spec

LEMMA AsyncioPart ==
  Spec => [](part = "asyncio" => Parts!As!TypeOK /\ Parts!As!AsyncioSound)
 <1>1. part = "asyncio" /\ Init => Parts!As!Init
   BY DEF Init
 <1>2. part = "asyncio" /\ [Next]_vars => [Parts!As!Next]_(Parts!As!vars) /\ (part = "asyncio")'
   BY DEF Next, vars, Parts!As!vars
 <1>3. ~(part = "asyncio") /\ [Next]_vars => ~(part = "asyncio")'
   BY DEF Next, vars
 <1>4. Parts!As!Spec => [](Parts!As!TypeOK /\ Parts!As!AsyncioSound)
   BY PartsBounds, Parts!AsyncioIsSound DEF PartsBounds
 <1>5. QED
   BY <1>1, <1>2, <1>3, <1>4, PTL DEF Spec, Parts!As!Spec

LEMMA PeriodicPart ==
  Spec => [](part = "periodic" => Parts!Pc!TypeOK /\ Parts!Pc!OneTimer)
 <1>1. part = "periodic" /\ Init => Parts!Pc!Init
   BY DEF Init
 <1>2. part = "periodic" /\ [Next]_vars => [Parts!Pc!Next]_(Parts!Pc!vars) /\ (part = "periodic")'
   BY DEF Next, vars, Parts!Pc!vars
 <1>3. ~(part = "periodic") /\ [Next]_vars => ~(part = "periodic")'
   BY DEF Next, vars
 <1>4. Parts!Pc!Spec => [](Parts!Pc!TypeOK /\ Parts!Pc!OneTimer)
   BY PartsBounds, Parts!OnePeriodicTimer DEF PartsBounds
 <1>5. QED
   BY <1>1, <1>2, <1>3, <1>4, PTL DEF Spec, Parts!Pc!Spec

LEMMA SyncPart ==
  Spec => [](part = "sync" => Parts!Rs!TypeOK /\ Parts!Rs!CallsEnd)
 <1>1. part = "sync" /\ Init => Parts!Rs!Init
   BY DEF Init
 <1>2. part = "sync" /\ [Next]_vars => [Parts!Rs!Next]_(Parts!Rs!vars) /\ (part = "sync")'
   BY DEF Next, vars, Parts!Rs!vars
 <1>3. ~(part = "sync") /\ [Next]_vars => ~(part = "sync")'
   BY DEF Next, vars
 <1>4. Parts!Rs!Spec => [](Parts!Rs!TypeOK /\ Parts!Rs!CallsEnd)
   BY PartsBounds, Parts!SyncCallsEnd DEF PartsBounds
 <1>5. QED
   BY <1>1, <1>2, <1>3, <1>4, PTL DEF Spec, Parts!Rs!Spec

LEMMA CoroutinePart ==
  Spec => [](part = "coroutine" => Tornado!G!NeverStuck /\ Tornado!G!ResultGiven)
 <1>1. part = "coroutine" /\ Init => Tornado!G!Init
   BY DEF Init
 <1>2. part = "coroutine" /\ [Next]_vars => [Tornado!G!Next]_(Tornado!G!vars) /\ (part = "coroutine")'
   BY DEF Next, vars, Tornado!G!vars
 <1>3. ~(part = "coroutine") /\ [Next]_vars => ~(part = "coroutine")'
   BY DEF Next, vars
 <1>4. Tornado!G!Spec => [](Tornado!G!NeverStuck /\ Tornado!G!ResultGiven)
   BY PartsBounds, Tornado!NeverStuckForGood DEF PartsBounds
 <1>5. QED
   BY <1>1, <1>2, <1>3, <1>4, PTL DEF Spec, Tornado!G!Spec

LEMMA CombinatorPart ==
  Spec => [](part = "combinator" => Parts!Cb!TypeOK /\ Parts!Cb!CombinatorsSound)
 <1>1. part = "combinator" /\ Init => Parts!Cb!Init
   BY DEF Init
 <1>2. part = "combinator" /\ [Next]_vars => [Parts!Cb!Next]_(Parts!Cb!vars) /\ (part = "combinator")'
   BY DEF Next, vars, Parts!Cb!vars
 <1>3. ~(part = "combinator") /\ [Next]_vars => ~(part = "combinator")'
   BY DEF Next, vars
 <1>4. Parts!Cb!Spec => [](Parts!Cb!TypeOK /\ Parts!Cb!CombinatorsSound)
   BY PartsBounds, Parts!CombinatorsAnswerOnce DEF PartsBounds
 <1>5. QED
   BY <1>1, <1>2, <1>3, <1>4, PTL DEF Spec, Parts!Cb!Spec

LEMMA ExecutorPart ==
  Spec => [](part = "executor" => Parts!Ex!TypeOK /\ Parts!Ex!ExecutorsSound)
 <1>1. part = "executor" /\ Init => Parts!Ex!Init
   BY DEF Init
 <1>2. part = "executor" /\ [Next]_vars => [Parts!Ex!Next]_(Parts!Ex!vars) /\ (part = "executor")'
   BY DEF Next, vars, Parts!Ex!vars
 <1>3. ~(part = "executor") /\ [Next]_vars => ~(part = "executor")'
   BY DEF Next, vars
 <1>4. Parts!Ex!Spec => [](Parts!Ex!TypeOK /\ Parts!Ex!ExecutorsSound)
   BY Parts!OutcomesArrive
 <1>5. QED
   BY <1>1, <1>2, <1>3, <1>4, PTL DEF Spec, Parts!Ex!Spec

LEMMA DispatchPart ==
  Spec => [](part = "dispatch" => Parts!Di!WakeInv)
 <1>1. part = "dispatch" /\ Init => Parts!Di!Init
   BY DEF Init
 <1>2. part = "dispatch" /\ [Next]_vars => [Parts!Di!Next]_(Parts!Di!vars) /\ (part = "dispatch")'
   BY DEF Next, vars, Parts!Di!vars
 <1>3. ~(part = "dispatch") /\ [Next]_vars => ~(part = "dispatch")'
   BY DEF Next, vars
 <1>4. Parts!Di!Spec => [](Parts!Di!WakeInv)
   BY PartsBounds, Parts!WakeInvariance DEF PartsBounds
 <1>5. QED
   BY <1>1, <1>2, <1>3, <1>4, PTL DEF Spec, Parts!Di!Spec

LEMMA OlderPart ==
  Spec => [](part = "older" => Parts!Ol!TypeOK /\ Parts!Ol!OlderSound)
 <1>1. part = "older" /\ Init => Parts!Ol!Init
   BY DEF Init
 <1>2. part = "older" /\ [Next]_vars => [Parts!Ol!Next]_(Parts!Ol!vars) /\ (part = "older")'
   BY DEF Next, vars, Parts!Ol!vars
 <1>3. ~(part = "older") /\ [Next]_vars => ~(part = "older")'
   BY DEF Next, vars
 <1>4. Parts!Ol!Spec => [](Parts!Ol!TypeOK /\ Parts!Ol!OlderSound)
   BY PartsBounds, Parts!OlderIsSound DEF PartsBounds
 <1>5. QED
   BY <1>1, <1>2, <1>3, <1>4, PTL DEF Spec, Parts!Ol!Spec

LEMMA BroadcastPart ==
  Spec => [](part = "broadcast" => Parts!Br!TypeOK /\ Parts!Br!BroadcastSound)
 <1>1. part = "broadcast" /\ Init => Parts!Br!Init
   BY DEF Init
 <1>2. part = "broadcast" /\ [Next]_vars => [Parts!Br!Next]_(Parts!Br!vars) /\ (part = "broadcast")'
   BY DEF Next, vars, Parts!Br!vars
 <1>3. ~(part = "broadcast") /\ [Next]_vars => ~(part = "broadcast")'
   BY DEF Next, vars
 <1>4. Parts!Br!Spec => [](Parts!Br!TypeOK /\ Parts!Br!BroadcastSound)
   BY PartsBounds, Parts!UpdatesArrive DEF PartsBounds
 <1>5. QED
   BY <1>1, <1>2, <1>3, <1>4, PTL DEF Spec, Parts!Br!Spec

LEMMA WebsocketPart ==
  Spec => [](part = "websocket" => Tornado!We!TypeOK /\ Tornado!We!WebSocketSound)
 <1>1. part = "websocket" /\ Init => Tornado!We!Init
   BY DEF Init
 <1>2. part = "websocket" /\ [Next]_vars => [Tornado!We!Next]_(Tornado!We!vars) /\ (part = "websocket")'
   BY DEF Next, vars, Tornado!We!vars
 <1>3. ~(part = "websocket") /\ [Next]_vars => ~(part = "websocket")'
   BY DEF Next, vars
 <1>4. Tornado!We!Spec => [](Tornado!We!TypeOK /\ Tornado!We!WebSocketSound)
   BY PartsBounds, Tornado!SocketsAreSound DEF PartsBounds
 <1>5. QED
   BY <1>1, <1>2, <1>3, <1>4, PTL DEF Spec, Tornado!We!Spec

LEMMA StreamPart ==
  Spec => [](part = "stream" => Io!TypeOK /\ Io!StreamSound)
 <1>1. part = "stream" /\ Init => Io!Init
   BY DEF Init
 <1>2. part = "stream" /\ [Next]_vars => [Io!Next]_(Io!vars) /\ (part = "stream")'
   BY DEF Next, vars, Io!vars
 <1>3. ~(part = "stream") /\ [Next]_vars => ~(part = "stream")'
   BY DEF Next, vars
 <1>4. Io!Spec => [](Io!TypeOK /\ Io!StreamSound)
   BY PartsBounds, StreamTold DEF PartsBounds
 <1>5. QED
   BY <1>1, <1>2, <1>3, <1>4, PTL DEF Spec, Io!Spec

LEMMA BufferPart ==
  Spec => [](part = "buffer" => Parts!Sb!TypeOK /\ Parts!Sb!BufferSound)
 <1>1. part = "buffer" /\ Init => Parts!Sb!Init
   BY DEF Init
 <1>2. part = "buffer" /\ [Next]_vars => [Parts!Sb!Next]_(Parts!Sb!vars) /\ (part = "buffer")'
   BY DEF Next, vars, Parts!Sb!vars
 <1>3. ~(part = "buffer") /\ [Next]_vars => ~(part = "buffer")'
   BY DEF Next, vars
 <1>4. Parts!Sb!Spec => [](Parts!Sb!TypeOK /\ Parts!Sb!BufferSound)
   BY PartsBounds, Parts!BytesKept DEF PartsBounds
 <1>5. QED
   BY <1>1, <1>2, <1>3, <1>4, PTL DEF Spec, Parts!Sb!Spec

(* Whoever waits on a queue, a semaphore, a condition or an event waits    *)
(* for a reason and where he is found, and no permit is lost or made       *)
(* (queues.py, locks.py).                                                  *)
THEOREM WaitersAreSound == Spec => []WaitersSound
 <1>1. /\ (part = "queue" => Qu!NobodyWaitsInVain)
       /\ (part = "semaphore" => Tornado!Sm!PermitsConserved /\ Tornado!Sm!WaitersSwept)
       /\ (part = "condition" => Tornado!Cn!WaitersReachable)
       => WaitersSound
   BY DEF WaitersSound
 <1>2. QED
   BY <1>1, QueuePart, SemaphorePart, ConditionPart, PTL

(* The loops never sleep with work, nor call a handler for another's       *)
(* event; a periodic callback has one timer; run_sync ends (ioloop.py,     *)
(* platform/asyncio.py).                                                   *)
THEOREM LoopsAreSound == Spec => []LoopsSound
 <1>1. /\ (part = "loop" => Parts!Lo!TypeOK /\ Parts!Lo!LoopSound)
       /\ (part = "asyncio" => Parts!As!TypeOK /\ Parts!As!AsyncioSound)
       /\ (part = "periodic" => Parts!Pc!TypeOK /\ Parts!Pc!OneTimer)
       /\ (part = "sync" => Parts!Rs!TypeOK /\ Parts!Rs!CallsEnd)
       => LoopsSound
   BY DEF LoopsSound
 <1>2. QED
   BY <1>1, LoopPart, AsyncioPart, PeriodicPart, SyncPart, PTL

(* A server that was stopped accepts nothing any more, the parent of       *)
(* worker processes knows its workers whatever pids come again, and the    *)
(* end of a process is told once (tcpserver.py, process.py).               *)
THEOREM ProcessesAreSound == Spec => []ProcessesSound
 <1>1. /\ (part = "server" => Tornado!V!StopHolds)
       /\ (part = "workers" => Tornado!J!TypeOK /\ Tornado!J!WorkersKnown)
       /\ (part = "subprocess" => Tornado!D!TypeOK /\ Tornado!D!SubprocessSound)
       => ProcessesSound
   BY DEF ProcessesSound
 <1>2. QED
   BY <1>1, ServerPart, WorkersPart, SubprocessPart, PTL

(* Every request that a server reads is answered once, or its connection   *)
(* closed, and its delegate told (http1connection.py, web.py).             *)
THEOREM RequestsAreServed == Spec => []ServingSound
 <1>1. /\ (part = "serving" => Tornado!H!ServingSound)
       /\ (part = "handler" => Tornado!Y!TypeOK /\ Tornado!Y!HandlerSound)
       => ServingSound
   BY DEF ServingSound
 <1>2. QED
   BY <1>1, ServingPart, HandlerPart, PTL

(* A file is sent as it was asked for, a request goes to the handler that  *)
(* the rules say, and a form or a login is taken as long as its cookie     *)
(* should be good (routing.py, web.py).                                    *)
THEOREM AnswersAreRight == Spec => []AnswersSound
 <1>1. /\ (part = "static" => Tornado!F!TypeOK /\ Tornado!F!StaticSound)
       /\ (part = "routing" => Z!TypeOK /\ Z!RoutingSound)
       /\ (part = "cookie" => Tornado!Co!TypeOK /\ Tornado!Co!CookiesSound)
       => AnswersSound
   BY DEF AnswersSound
 <1>2. QED
   BY <1>1, StaticPart, RoutingPart, CookiePart, PTL

(* Coroutines are never stuck for good and give their result; what is made *)
(* of several futures answers once, and so do threads and callbacks,       *)
(* whatever times out or is cancelled (gen.py, concurrent.py).             *)
THEOREM CoroutinesAreSound == Spec => []CoroutinesSound
 <1>1. /\ (part = "coroutine" => Tornado!G!NeverStuck /\ Tornado!G!ResultGiven)
       /\ (part = "combinator" => Parts!Cb!TypeOK /\ Parts!Cb!CombinatorsSound)
       /\ (part = "executor" => Parts!Ex!TypeOK /\ Parts!Ex!ExecutorsSound)
       => CoroutinesSound
   BY DEF CoroutinesSound
 <1>2. QED
   BY <1>1, CoroutinePart, CombinatorPart, ExecutorPart, PTL

(* No wake-up is lost between a commit and the thread that matches, until  *)
(* a fault past recovery (MatchingServer.py, WebServer.py).             *)
THEOREM WakeUpsAreSound == Spec => []WakeUpsSound
 <1>1. /\ (part = "dispatch" => Parts!Di!WakeInv)
       => WakeUpsSound
   BY DEF WakeUpsSound
 <1>2. QED
   BY <1>1, DispatchPart, PTL

(* The older matching loop deals just what crosses and no more, whatever   *)
(* fails; every client of the TCP server gets every good update once, in   *)
(* order, beside its replies (MatchingServer.py, Server.py).               *)
THEOREM SideProgramsAreSound == Spec => []SideProgramsSound
 <1>1. /\ (part = "older" => Parts!Ol!TypeOK /\ Parts!Ol!OlderSound)
       /\ (part = "broadcast" => Parts!Br!TypeOK /\ Parts!Br!BroadcastSound)
       => SideProgramsSound
   BY DEF SideProgramsSound
 <1>2. QED
   BY <1>1, OlderPart, BroadcastPart, PTL

(* A websocket that begins to close ends, and its messages arrive in order *)
(* and are read so (websocket.py).                                         *)
THEOREM WebSocketsAreSound == Spec => []WebSocketSound
 <1>1. (part = "websocket" => Tornado!We!TypeOK /\ Tornado!We!WebSocketSound)
       => WebSocketSound
   BY DEF WebSocketSound
 <1>2. QED
   BY <1>1, WebsocketPart, PTL

(* A queue is a channel, step by step: each item is put once, taken at     *)
(* most once and in order, and is lost only with a put that gave up        *)
(* (queues.py).                                                            *)
THEOREM QueueIsAChannel == Spec => QueueImplementsChannel
 <1> DEFINE Inv == part = "queue" => QueueInv
 <1>1. QueueBounds
   BY PartsBounds
 <1>2. Init => Inv /\ (part = "queue" => Qu!Abstract!Init)
  <2>1. part = "queue" /\ Init => Qu!Init
    BY DEF Init
  <2>2. QED
    BY <1>1, <2>1, InitQueue, ChannelInit
 <1>3. part = "queue" /\ [Next]_vars => [Qu!Next]_(Qu!vars)
   BY DEF Next, vars, Qu!vars
 <1>4. ~(part = "queue") /\ [Next]_vars => ~(part' = "queue")
   BY DEF Next, vars
 <1>5. Inv /\ [Next]_vars => Inv' /\ (part = "queue" => Qu!ChannelStep)
   BY <1>1, <1>3, <1>4, QueueStep, ChannelSteps
 <1>6. QED
   BY <1>2, <1>5, PTL DEF Spec, QueueImplementsChannel

(* A stream that closes leaves nobody waiting, and one that does not hears *)
(* what it waits for; what it has to write goes out in the order it was    *)
(* written, whatever pieces it is kept in (iostream.py).                   *)
THEOREM StreamsAreSound == Spec => []StreamsSound
 <1>1. /\ (part = "stream" => Io!TypeOK /\ Io!StreamSound)
       /\ (part = "buffer" => Parts!Sb!TypeOK /\ Parts!Sb!BufferSound)
       => StreamsSound
   BY DEF StreamsSound
 <1>2. QED
   BY <1>1, StreamPart, BufferPart, PTL

LEMMA SemaphoreSteps ==
  Spec => [][part = "semaphore" => Tornado!Sm!LongestWaitingFirst]_vars
 <1>1. part = "semaphore" /\ Init => Tornado!Sm!Init
   BY DEF Init
 <1>2. part = "semaphore" /\ [Next]_vars => [Tornado!Sm!Next]_(Tornado!Sm!vars) /\ (part = "semaphore")'
   BY DEF Next, vars, Tornado!Sm!vars
 <1>3. ~(part = "semaphore") /\ [Next]_vars => ~(part = "semaphore")'
   BY DEF Next, vars
 <1>4. Tornado!Sm!Spec => [][Tornado!Sm!LongestWaitingFirst]_(Tornado!Sm!vars)
   BY PartsBounds, Tornado!PermitsAreKept DEF PartsBounds, Tornado!Sm!FirstComeFirstServed
 <1>5. part = "semaphore" /\ [Next]_vars /\ [Tornado!Sm!LongestWaitingFirst]_(Tornado!Sm!vars) => [part = "semaphore" => Tornado!Sm!LongestWaitingFirst]_vars
   BY DEF Next, vars, Tornado!Sm!vars, Keep17, Keep15, Keep13, Keep12, Keep11, Keep10, Keep9
 <1>6. ~(part = "semaphore") => [part = "semaphore" => Tornado!Sm!LongestWaitingFirst]_vars
   OBVIOUS
 <1>7. QED
   BY <1>1, <1>2, <1>3, <1>4, <1>5, <1>6, PTL DEF Spec, Tornado!Sm!Spec

LEMMA ConditionSteps ==
  Spec => [][part = "condition" => Tornado!Cn!NotifyWakes]_vars
 <1>1. part = "condition" /\ Init => Tornado!Cn!Init
   BY DEF Init
 <1>2. part = "condition" /\ [Next]_vars => [Tornado!Cn!Next]_(Tornado!Cn!vars) /\ (part = "condition")'
   BY DEF Next, vars, Tornado!Cn!vars
 <1>3. ~(part = "condition") /\ [Next]_vars => ~(part = "condition")'
   BY DEF Next, vars
 <1>4. Tornado!Cn!Spec => [][Tornado!Cn!NotifyWakes]_(Tornado!Cn!vars)
   BY PartsBounds, Tornado!WaitsAreReached DEF PartsBounds, Tornado!Cn!NotifyNotWasted
 <1>5. part = "condition" /\ [Next]_vars /\ [Tornado!Cn!NotifyWakes]_(Tornado!Cn!vars) => [part = "condition" => Tornado!Cn!NotifyWakes]_vars
   BY DEF Next, vars, Tornado!Cn!vars, Keep17, Keep15, Keep13, Keep12, Keep11, Keep10, Keep9
 <1>6. ~(part = "condition") => [part = "condition" => Tornado!Cn!NotifyWakes]_vars
   OBVIOUS
 <1>7. QED
   BY <1>1, <1>2, <1>3, <1>4, <1>5, <1>6, PTL DEF Spec, Tornado!Cn!Spec

LEMMA PeriodicSteps ==
  Spec => [][part = "periodic" => Parts!Pc!ArmsOnSchedule]_vars
 <1>1. part = "periodic" /\ Init => Parts!Pc!Init
   BY DEF Init
 <1>2. part = "periodic" /\ [Next]_vars => [Parts!Pc!Next]_(Parts!Pc!vars) /\ (part = "periodic")'
   BY DEF Next, vars, Parts!Pc!vars
 <1>3. ~(part = "periodic") /\ [Next]_vars => ~(part = "periodic")'
   BY DEF Next, vars
 <1>4. Parts!Pc!Spec => [][Parts!Pc!ArmsOnSchedule]_(Parts!Pc!vars)
   BY PartsBounds, Parts!OnePeriodicTimer DEF PartsBounds, Parts!Pc!OnSchedule
 <1>5. part = "periodic" /\ [Next]_vars /\ [Parts!Pc!ArmsOnSchedule]_(Parts!Pc!vars) => [part = "periodic" => Parts!Pc!ArmsOnSchedule]_vars
   BY DEF Next, vars, Parts!Pc!vars, Keep17, Keep15, Keep13, Keep12, Keep11, Keep10, Keep9
 <1>6. ~(part = "periodic") => [part = "periodic" => Parts!Pc!ArmsOnSchedule]_vars
   OBVIOUS
 <1>7. QED
   BY <1>1, <1>2, <1>3, <1>4, <1>5, <1>6, PTL DEF Spec, Parts!Pc!Spec

LEMMA CoroutineSteps ==
  Spec => [][part = "coroutine" => Tornado!G!GoesOnAnswered /\ Tornado!G!ResultStays]_vars
 <1>1. part = "coroutine" /\ Init => Tornado!G!Init
   BY DEF Init
 <1>2. part = "coroutine" /\ [Next]_vars => [Tornado!G!Next]_(Tornado!G!vars) /\ (part = "coroutine")'
   BY DEF Next, vars, Tornado!G!vars
 <1>3. ~(part = "coroutine") /\ [Next]_vars => ~(part = "coroutine")'
   BY DEF Next, vars
 <1>4. Tornado!G!Spec => [][Tornado!G!GoesOnAnswered /\ Tornado!G!ResultStays]_(Tornado!G!vars)
   BY PartsBounds, Tornado!AnswersAsked DEF PartsBounds, Tornado!G!AnsweredYield
 <1>5. part = "coroutine" /\ [Next]_vars /\ [Tornado!G!GoesOnAnswered /\ Tornado!G!ResultStays]_(Tornado!G!vars) => [part = "coroutine" => Tornado!G!GoesOnAnswered /\ Tornado!G!ResultStays]_vars
   BY DEF Next, vars, Tornado!G!vars, Keep17
 <1>6. ~(part = "coroutine") => [part = "coroutine" => Tornado!G!GoesOnAnswered /\ Tornado!G!ResultStays]_vars
   OBVIOUS
 <1>7. QED
   BY <1>1, <1>2, <1>3, <1>4, <1>5, <1>6, PTL DEF Spec, Tornado!G!Spec

LEMMA StreamSteps ==
  Spec => [][part = "stream" => Io!AnswersWrites]_vars
 <1>1. part = "stream" /\ Init => Io!Init
   BY DEF Init
 <1>2. part = "stream" /\ [Next]_vars => [Io!Next]_(Io!vars) /\ (part = "stream")'
   BY DEF Next, vars, Io!vars
 <1>3. ~(part = "stream") /\ [Next]_vars => ~(part = "stream")'
   BY DEF Next, vars
 <1>4. Io!Spec => [][Io!AnswersWrites]_(Io!vars)
   BY PartsBounds, StreamTold DEF PartsBounds, Io!WritesAnswered
 <1>5. part = "stream" /\ [Next]_vars /\ [Io!AnswersWrites]_(Io!vars) => [part = "stream" => Io!AnswersWrites]_vars
   BY DEF Next, vars, Io!vars, Keep17, Keep15, Keep13, Keep12, Keep11, Keep10, Keep9, Keep8, Keep7, Keep6, Keep5, Keep4
 <1>6. ~(part = "stream") => [part = "stream" => Io!AnswersWrites]_vars
   OBVIOUS
 <1>7. QED
   BY <1>1, <1>2, <1>3, <1>4, <1>5, <1>6, PTL DEF Spec, Io!Spec

LEMMA ServingSteps ==
  Spec => [][part = "serving" => Tornado!H!NextInTurn]_vars
 <1>1. part = "serving" /\ Init => Tornado!H!Init
   BY DEF Init
 <1>2. part = "serving" /\ [Next]_vars => [Tornado!H!Next]_(Tornado!H!vars) /\ (part = "serving")'
   BY DEF Next, vars, Tornado!H!vars
 <1>3. ~(part = "serving") /\ [Next]_vars => ~(part = "serving")'
   BY DEF Next, vars
 <1>4. Tornado!H!Spec => [][Tornado!H!NextInTurn]_(Tornado!H!vars)
   BY PartsBounds, Tornado!RequestsApart DEF PartsBounds, Tornado!H!RequestsInTurn
 <1>5. part = "serving" /\ [Next]_vars /\ [Tornado!H!NextInTurn]_(Tornado!H!vars) => [part = "serving" => Tornado!H!NextInTurn]_vars
   BY DEF Next, vars, Tornado!H!vars, Keep17, Keep15
 <1>6. ~(part = "serving") => [part = "serving" => Tornado!H!NextInTurn]_vars
   OBVIOUS
 <1>7. QED
   BY <1>1, <1>2, <1>3, <1>4, <1>5, <1>6, PTL DEF Spec, Tornado!H!Spec

LEMMA WebsocketSteps ==
  Spec => [][part = "websocket" => Tornado!We!QuietWhenTold]_vars
 <1>1. part = "websocket" /\ Init => Tornado!We!Init
   BY DEF Init
 <1>2. part = "websocket" /\ [Next]_vars => [Tornado!We!Next]_(Tornado!We!vars) /\ (part = "websocket")'
   BY DEF Next, vars, Tornado!We!vars
 <1>3. ~(part = "websocket") /\ [Next]_vars => ~(part = "websocket")'
   BY DEF Next, vars
 <1>4. Tornado!We!Spec => [][Tornado!We!QuietWhenTold]_(Tornado!We!vars)
   BY PartsBounds, Tornado!SocketsAreSound DEF PartsBounds, Tornado!We!QuietAfterClose
 <1>5. part = "websocket" /\ [Next]_vars /\ [Tornado!We!QuietWhenTold]_(Tornado!We!vars) => [part = "websocket" => Tornado!We!QuietWhenTold]_vars
   BY DEF Next, vars, Tornado!We!vars, Keep17, Keep15, Keep13, Keep12, Keep11, Keep10, Keep9, Keep8
 <1>6. ~(part = "websocket") => [part = "websocket" => Tornado!We!QuietWhenTold]_vars
   OBVIOUS
 <1>7. QED
   BY <1>1, <1>2, <1>3, <1>4, <1>5, <1>6, PTL DEF Spec, Tornado!We!Spec

LEMMA RoutingSteps ==
  Spec => [][part = "routing" => Z!KeepsRequests]_vars
 <1>1. part = "routing" /\ Init => Z!Init
   BY DEF Init
 <1>2. part = "routing" /\ [Next]_vars => [Z!Next]_(Z!vars) /\ (part = "routing")'
   BY DEF Next, vars, Z!vars
 <1>3. ~(part = "routing") /\ [Next]_vars => ~(part = "routing")'
   BY DEF Next, vars
 <1>4. Z!Spec => [][Z!KeepsRequests]_(Z!vars)
   BY PartsBounds, EarlierHandlersKeep DEF PartsBounds, Z!EarlierKeep
 <1>5. part = "routing" /\ [Next]_vars /\ [Z!KeepsRequests]_(Z!vars) => [part = "routing" => Z!KeepsRequests]_vars
   BY DEF Next, vars, Z!vars, Keep17, Keep15, Keep13, Keep12, Keep11, Keep10, Keep9, Keep8, Keep7, Keep6, Keep5
 <1>6. ~(part = "routing") => [part = "routing" => Z!KeepsRequests]_vars
   OBVIOUS
 <1>7. QED
   BY <1>1, <1>2, <1>3, <1>4, <1>5, <1>6, PTL DEF Spec, Z!Spec

(* No step passes over who waited longer for a permit, wastes a notify,    *)
(* calls off the schedule of a periodic callback, goes on with a coroutine *)
(* before the answer it asked for, answers a write before its last byte    *)
(* was sent, reads a request before the response to the last, delivers a   *)
(* message after on_close, or takes a request from a handler that has it.  *)
THEOREM StepsHold == Spec => StepsSound
  BY SemaphoreSteps, ConditionSteps, PeriodicSteps, CoroutineSteps, StreamSteps, ServingSteps,
     WebsocketSteps, RoutingSteps, PTL DEF StepsSound
=============================================================================
