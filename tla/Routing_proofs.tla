--------------------------- MODULE Routing_proofs ---------------------------
(***************************************************************************)
(* Theorems about Routing, for every set of nodes, every way they are      *)
(* linked and every bound on ids and hops.                                 *)
(***************************************************************************)
EXTENDS Routing, TLAPS

\* What a node has received of an origin, it has a route for that is as new.
ReceivedHasRoute ==
  \A n, o \in Node : n # o =>
    \A r \in stored[n] \cup handling[n] :
      r.origin = o => HasRoute(n, o) /\ r.id <= originLastID[n][o]

\* Packets come from nodes with a route to their destination and go to nodes
\* that have one or are the destination.
PacketsOnRoute ==
  \A p \in packets :
    /\ HasRoute(p.src, p.body.destination)
    /\ p.dst # p.body.destination => HasRoute(p.dst, p.body.destination)

\* An entry of a node for itself, left by a private message, points to a node
\* that has a route to it.
SelfEntryLeadsBack ==
  \A n \in Node : HasRoute(n, n) => HasRoute(routingTable[n][n], n)

RouteInv ==
  /\ TypeOK
  /\ ReceivedHasRoute
  /\ RouteLeadsOn
  /\ RouteFromRumor
  /\ PacketsOnRoute
  /\ SelfEntryLeadsBack
  /\ LoopFree

LEMMA InitRoute == Init => RouteInv
BY RoutingAssumption
   DEF Init, RouteInv, TypeOK, ReceivedHasRoute, RouteLeadsOn, RouteFromRumor,
       PacketsOnRoute, SelfEntryLeadsBack, LoopFree, HasRoute

\* A step that leaves the table alone keeps what is said of the table.
LEMMA TableUnchanged ==
  ASSUME RouteInv, UNCHANGED <<routingTable, originLastID>>
  PROVE  RouteLeadsOn' /\ RouteFromRumor' /\ SelfEntryLeadsBack' /\ LoopFree'
BY DEF RouteInv, RouteLeadsOn, RouteFromRumor, SelfEntryLeadsBack, LoopFree, HasRoute

\* The step at the heart of the matter: n has just learnt of id i of o from s,
\* which has received that id or is o.  Suppose the new next hop closed a set
\* S of nodes.  The nodes of S other than n whose routes are as new as i were
\* closed before: their next hops are as new as they are, so none is n.
LEMMA NoNewLoop ==
  ASSUME RouteInv, NEW n \in Node, NEW o \in Node \ {n}, NEW i \in 1 .. MaxID, NEW s \in Node,
         s # o => HasRoute(s, o) /\ i <= originLastID[s][o],
         ~HasRoute(n, o) \/ i > originLastID[n][o],
         routingTable' = [routingTable EXCEPT ![n][o] = s]
  PROVE  LoopFree'
<1> USE RoutingAssumption
<1>1. /\ routingTable'[n][o] = s
      /\ \A m, x \in Node : ~(m = n /\ x = o) => routingTable'[m][x] = routingTable[m][x]
  BY DEF RouteInv, TypeOK
<1>2. SUFFICES ASSUME NEW x \in Node, NEW S \in SUBSET (Node \ {x}), S # {},
                      \A m \in S : routingTable'[m][x] \in S
               PROVE  FALSE
  BY DEF LoopFree
<1>3. CASE x # o \/ n \notin S
  <2>1. \A m \in S : routingTable[m][x] \in S
    BY <1>1, <1>2, <1>3
  <2> QED
    BY <1>2, <2>1 DEF RouteInv, LoopFree
<1>4. CASE x = o /\ n \in S
  <2> DEFINE T == {m \in S \ {n} : originLastID[m][o] >= i}
  <2>0. \A m \in Node : originLastID[m][o] \in 0 .. MaxID
    BY DEF RouteInv, TypeOK
  <2>1. s \in S
    BY <1>1, <1>2, <1>4
  <2>2. s # o /\ originLastID[s][o] >= i
    BY <1>2, <1>4, <2>0, <2>1
  <2>3. s # n
    BY <2>0, <2>2
  <2>4. s \in T
    BY <2>1, <2>2, <2>3
  <2>5. ASSUME NEW m \in T PROVE routingTable[m][o] \in T
    <3>1. m \in S /\ m \in Node /\ m # n /\ m # o /\ originLastID[m][o] >= i
      BY <1>4
    <3>2. routingTable[m][o] \in S
      BY <1>1, <1>2, <1>4, <3>1
    <3>3. routingTable[m][o] \in Node /\ routingTable[m][o] # o
      BY <1>4, <3>2
    <3>4. HasRoute(m, o)
      BY <3>3 DEF HasRoute
    <3>5. /\ HasRoute(routingTable[m][o], o)
          /\ originLastID[routingTable[m][o]][o] >= originLastID[m][o]
      BY <3>1, <3>3, <3>4 DEF RouteInv, RouteLeadsOn
    <3>6. originLastID[routingTable[m][o]][o] >= i
      BY <2>0, <3>1, <3>3, <3>5
    <3>7. routingTable[m][o] # n
      BY <2>0, <3>5, <3>6
    <3> QED
      BY <3>2, <3>6, <3>7
  <2>6. T \in SUBSET (Node \ {o}) /\ T # {}
    BY <1>4, <2>4
  <2> HIDE DEF T
  <2> QED
    BY <2>5, <2>6 DEF RouteInv, LoopFree
<1> QED
  BY <1>3, <1>4

\* The same step keeps the other invariants of the table.
LEMMA NewRoute ==
  ASSUME RouteInv, NEW n \in Node, NEW o \in Node \ {n}, NEW i \in 1 .. MaxID, NEW s \in Node,
         s # o => HasRoute(s, o) /\ i <= originLastID[s][o],
         ~HasRoute(n, o) \/ i > originLastID[n][o],
         routingTable' = [routingTable EXCEPT ![n][o] = s],
         originLastID' = [originLastID EXCEPT ![n][o] = i]
  PROVE  /\ RouteLeadsOn' /\ RouteFromRumor' /\ SelfEntryLeadsBack'
         /\ \A m, x \in Node : HasRoute(m, x) => routingTable'[m][x] # NoRoute
         /\ \A m, x \in Node : HasRoute(m, x) => originLastID'[m][x] >= originLastID[m][x]
         /\ routingTable'[n][o] # NoRoute /\ originLastID'[n][o] = i
<1> USE RoutingAssumption
<1>1. /\ routingTable'[n][o] = s /\ originLastID'[n][o] = i
      /\ \A m, x \in Node : ~(m = n /\ x = o) => /\ routingTable'[m][x] = routingTable[m][x]
                                               /\ originLastID'[m][x] = originLastID[m][x]
  BY DEF RouteInv, TypeOK
<1>2. \A m, x \in Node : originLastID[m][x] \in 0 .. MaxID /\ routingTable[m][x] \in Node \cup {NoRoute}
  BY DEF RouteInv, TypeOK
<1>3. (\A m, x \in Node : HasRoute(m, x) => routingTable'[m][x] # NoRoute)
      /\ routingTable'[n][o] # NoRoute
  BY <1>1 DEF HasRoute
<1>4. \A m, x \in Node : HasRoute(m, x) => originLastID'[m][x] >= originLastID[m][x]
  <2>1. ASSUME NEW m \in Node, NEW x \in Node, HasRoute(m, x)
        PROVE  originLastID'[m][x] >= originLastID[m][x]
    <3>1. CASE m = n /\ x = o
      BY <1>1, <1>2, <2>1, <3>1
    <3>2. CASE ~(m = n /\ x = o)
      BY <1>1, <1>2, <3>2
    <3> QED
      BY <3>1, <3>2
  <2> QED
    BY <2>1
<1>5. ASSUME NEW m \in Node, NEW x \in Node, NEW t, t = routingTable'[m][x],
             m # x, t # NoRoute, t # x
      PROVE  routingTable'[t][x] # NoRoute /\ originLastID'[t][x] >= originLastID'[m][x]
  <2>1. CASE m = n /\ x = o
    <3>1. t = s /\ s # o
      BY <1>1, <1>5, <2>1
    <3>2. HasRoute(s, o) /\ i <= originLastID[s][o]
      BY <3>1
    <3>3. s # n
      BY <1>2, <3>2
    <3>4. originLastID'[s][o] = originLastID[s][o] /\ routingTable'[s][o] # NoRoute
      BY <1>1, <1>3, <3>2, <3>3
    <3> QED
      BY <1>1, <1>2, <2>1, <3>1, <3>2, <3>4
  <2>2. CASE ~(m = n /\ x = o)
    <3>1. routingTable[m][x] = t /\ t \in Node /\ HasRoute(m, x)
      BY <1>1, <1>2, <1>5, <2>2 DEF HasRoute
    <3>2. HasRoute(t, x) /\ originLastID[t][x] >= originLastID[m][x]
      BY <1>5, <3>1 DEF RouteInv, RouteLeadsOn
    <3>3. originLastID'[t][x] >= originLastID[t][x] /\ routingTable'[t][x] # NoRoute
      BY <1>3, <1>4, <3>1, <3>2
    <3>4. originLastID'[m][x] = originLastID[m][x]
      BY <1>1, <2>2
    <3>5. originLastID'[t][x] \in Nat
      BY <1>1, <1>2, <3>1
    <3> QED
      BY <1>2, <3>1, <3>2, <3>3, <3>4, <3>5
  <2> QED
    BY <2>1, <2>2
<1>6. RouteLeadsOn'
  BY <1>5 DEF RouteLeadsOn, HasRoute
<1>7. RouteFromRumor'
  BY <1>1, <1>2 DEF RouteInv, RouteFromRumor, HasRoute
<1>8. SelfEntryLeadsBack'
  <2>1. ASSUME NEW m \in Node, NEW t, t = routingTable'[m][m], t # NoRoute
        PROVE  routingTable'[t][m] # NoRoute
    <3>1. routingTable[m][m] = t /\ t \in Node /\ HasRoute(m, m)
      BY <1>1, <1>2, <2>1 DEF HasRoute
    <3>2. HasRoute(t, m)
      BY <3>1 DEF RouteInv, SelfEntryLeadsBack
    <3> QED
      BY <1>3, <3>1, <3>2
  <2> QED
    BY <2>1 DEF SelfEntryLeadsBack, HasRoute
<1> QED
  BY <1>1, <1>3, <1>4, <1>6, <1>7, <1>8

-----------------------------------------------------------------------------
(***************************************************************************)
(* The steps.                                                              *)
(***************************************************************************)
LEMMA NextRoute == RouteInv /\ [Next]_vars => RouteInv'
<1> SUFFICES ASSUME RouteInv, [Next]_vars PROVE RouteInv'
  OBVIOUS
<1> USE RoutingAssumption
<1>1. ASSUME NEW n \in Source, NEW i \in 1 .. MaxID, CreateRumor(n, i)
      PROVE  RouteInv'
  <2>1. UNCHANGED <<routingTable, originLastID, handling, forwarding, packets>>
    BY <1>1 DEF CreateRumor
  <2>2. RouteLeadsOn' /\ RouteFromRumor' /\ SelfEntryLeadsBack' /\ LoopFree'
    BY <2>1, TableUnchanged
  <2>3. TypeOK'
    BY <1>1 DEF CreateRumor, RouteInv, TypeOK, Rumor
  <2>4. ReceivedHasRoute'
    BY <1>1 DEF CreateRumor, RouteInv, TypeOK, ReceivedHasRoute, HasRoute
  <2>5. PacketsOnRoute'
    BY <2>1 DEF RouteInv, PacketsOnRoute, HasRoute
  <2> QED
    BY <2>2, <2>3, <2>4, <2>5 DEF RouteInv
<1>2. ASSUME NEW s \in Node, NEW n \in Node, NEW r \in stored[s], ReceiveRumor(n, s, r)
      PROVE  RouteInv'
  <2> DEFINE o == r.origin
             i == r.id
  <2>1. r \in Rumor /\ o \in Node \ {n} /\ i \in 1 .. MaxID
    BY <1>2 DEF ReceiveRumor, RouteInv, TypeOK, Rumor
  <2>2. s # o => HasRoute(s, o) /\ i <= originLastID[s][o]
    BY <2>1 DEF RouteInv, ReceivedHasRoute
  <2>3. /\ UNCHANGED <<stored, forwarding, packets>>
        /\ handling' = [handling EXCEPT ![n] = @ \cup {r}]
    BY <1>2 DEF ReceiveRumor
  <2>4. handling' \in [Node -> SUBSET Rumor] /\ handling'[n] = handling[n] \cup {r}
        /\ \A m \in Node : m # n => handling'[m] = handling[m]
    BY <2>1, <2>3 DEF RouteInv, TypeOK
  <2>5. CASE ~HasRoute(n, o) \/ i > originLastID[n][o]
    <3>1. /\ routingTable' = [routingTable EXCEPT ![n][o] = s]
          /\ originLastID' = [originLastID EXCEPT ![n][o] = i]
      BY <1>2, <2>5 DEF ReceiveRumor, updateRoutingTable
    <3>2. LoopFree'
      BY <2>1, <2>2, <2>5, <3>1, NoNewLoop
    <3>3. /\ RouteLeadsOn' /\ RouteFromRumor' /\ SelfEntryLeadsBack'
          /\ \A m, x \in Node : HasRoute(m, x) => routingTable'[m][x] # NoRoute
          /\ \A m, x \in Node : HasRoute(m, x) => originLastID'[m][x] >= originLastID[m][x]
          /\ routingTable'[n][o] # NoRoute /\ originLastID'[n][o] = i
      BY <2>1, <2>2, <2>5, <3>1, NewRoute
    <3>4. TypeOK'
      <4>1. routingTable' \in [Node -> [Node -> Node \cup {NoRoute}]]
        BY <3>1 DEF RouteInv, TypeOK
      <4>2. originLastID' \in [Node -> [Node -> 0 .. MaxID]]
        <5>1. i \in 0 .. MaxID
          BY <2>1
        <5> QED
          BY <3>1, <5>1 DEF RouteInv, TypeOK
      <4> QED
        BY <2>3, <2>4, <4>1, <4>2 DEF RouteInv, TypeOK
    <3>5. ReceivedHasRoute'
      <4>1. ASSUME NEW m \in Node, NEW x \in Node, m # x,
                   NEW q \in stored'[m] \cup handling'[m], q.origin = x
            PROVE  routingTable'[m][x] # NoRoute /\ q.id <= originLastID'[m][x]
        <5>1. q \in stored[m] \cup handling[m] \/ (m = n /\ q = r)
          BY <2>3, <2>4
        <5>2. CASE m = n /\ q = r
          BY <2>1, <3>3, <4>1, <5>2
        <5>3. CASE q \in stored[m] \cup handling[m]
          <6>1. HasRoute(m, x) /\ q.id <= originLastID[m][x]
            BY <4>1, <5>3 DEF RouteInv, ReceivedHasRoute
          <6>2. q.id \in Nat /\ originLastID[m][x] \in Nat /\ originLastID'[m][x] \in Nat
            BY <3>4, <5>3 DEF RouteInv, TypeOK, Rumor
          <6> QED
            BY <3>3, <6>1, <6>2
        <5> QED
          BY <5>1, <5>2, <5>3
      <4> QED
        BY <4>1 DEF ReceivedHasRoute, HasRoute
    <3>6. PacketsOnRoute'
      BY <2>3, <3>3 DEF RouteInv, TypeOK, PacketsOnRoute, HasRoute, PacketTo, Forward
    <3> QED
      BY <3>2, <3>3, <3>4, <3>5, <3>6 DEF RouteInv
  <2>6. CASE ~(~HasRoute(n, o) \/ i > originLastID[n][o])
    <3>1. UNCHANGED <<routingTable, originLastID>>
      BY <1>2, <2>6 DEF ReceiveRumor, updateRoutingTable
    <3>2. RouteLeadsOn' /\ RouteFromRumor' /\ SelfEntryLeadsBack' /\ LoopFree'
      BY <3>1, TableUnchanged
    <3>3. TypeOK'
      BY <2>3, <2>4, <3>1 DEF RouteInv, TypeOK
    <3>4. HasRoute(n, o) /\ i <= originLastID[n][o]
      BY <2>1, <2>6 DEF RouteInv, TypeOK
    <3>5. ReceivedHasRoute'
      BY <2>3, <2>4, <3>1, <3>4 DEF RouteInv, ReceivedHasRoute, HasRoute
    <3>6. PacketsOnRoute'
      BY <2>3, <3>1 DEF RouteInv, PacketsOnRoute, HasRoute
    <3> QED
      BY <3>2, <3>3, <3>5, <3>6 DEF RouteInv
  <2> QED
    BY <2>5, <2>6
<1>3. ASSUME NEW n \in Node, NEW r \in handling[n], StoreRumor(n, r)
      PROVE  RouteInv'
  <2>1. UNCHANGED <<routingTable, originLastID, forwarding, packets>>
    BY <1>3 DEF StoreRumor
  <2>2. RouteLeadsOn' /\ RouteFromRumor' /\ SelfEntryLeadsBack' /\ LoopFree'
    BY <2>1, TableUnchanged
  <2>3. TypeOK'
    BY <1>3 DEF StoreRumor, RouteInv, TypeOK
  <2>4. \A m \in Node : stored'[m] \cup handling'[m] \subseteq stored[m] \cup handling[m]
    BY <1>3 DEF StoreRumor, RouteInv, TypeOK
  <2>5. ReceivedHasRoute'
    BY <2>1, <2>4 DEF RouteInv, ReceivedHasRoute, HasRoute
  <2>6. PacketsOnRoute'
    BY <2>1 DEF RouteInv, PacketsOnRoute, HasRoute
  <2> QED
    BY <2>2, <2>3, <2>5, <2>6 DEF RouteInv
<1>4. ASSUME NEW n \in Client, NEW t \in PacketType, NEW d \in Node, NewPacket(n, t, d)
      PROVE  RouteInv'
  <2>1. UNCHANGED <<routingTable, originLastID, stored, handling, packets>>
    BY <1>4 DEF NewPacket
  <2>2. RouteLeadsOn' /\ RouteFromRumor' /\ SelfEntryLeadsBack' /\ LoopFree'
    BY <2>1, TableUnchanged
  <2>3. [type |-> t, destination |-> d, hopLimit |-> HopLimit] \in Forward
    BY DEF Forward
  <2>4. TypeOK'
    BY <1>4, <2>3 DEF NewPacket, RouteInv, TypeOK
  <2> QED
    BY <2>1, <2>2, <2>4 DEF RouteInv, ReceivedHasRoute, PacketsOnRoute, HasRoute
<1>5. ASSUME NEW n \in Node, NEW f \in forwarding[n], ForwardPacket(n, f)
      PROVE  RouteInv'
  <2>1. UNCHANGED <<routingTable, originLastID, stored, handling>>
    BY <1>5 DEF ForwardPacket
  <2>2. RouteLeadsOn' /\ RouteFromRumor' /\ SelfEntryLeadsBack' /\ LoopFree'
    BY <2>1, TableUnchanged
  <2>3. f \in Forward
    BY DEF RouteInv, TypeOK
  <2>4. forwarding' \in [Node -> SUBSET Forward]
    BY <1>5 DEF ForwardPacket, RouteInv, TypeOK
  <2>5. CASE f.hopLimit > 0 /\ HasRoute(n, f.destination)
    <3> DEFINE s == routingTable[n][f.destination]
               g == [f EXCEPT !.hopLimit = @ - 1]
               p == [src |-> n, dst |-> s, body |-> g]
    <3>1. packets' = packets \cup {p}
      BY <1>5, <2>5 DEF ForwardPacket
    <3>2. g \in Forward /\ g.destination = f.destination /\ f.destination \in Node
      BY <2>3, <2>5 DEF Forward
    <3>3. s \in Node
      BY <2>5, <3>2 DEF RouteInv, TypeOK, HasRoute
    <3> HIDE DEF g, s
    <3>4. p \in PacketTo /\ p.src = n /\ p.dst = s /\ p.body.destination = f.destination
      BY <3>2, <3>3 DEF PacketTo
    <3>5. s # f.destination => HasRoute(s, f.destination)
      <4>1. CASE n = f.destination
        BY <2>5, <4>1 DEF RouteInv, SelfEntryLeadsBack, s
      <4>2. CASE n # f.destination
        BY <2>5, <3>2, <4>2 DEF RouteInv, RouteLeadsOn, s
      <4> QED
        BY <4>1, <4>2
    <3> HIDE DEF p
    <3>6. TypeOK'
      BY <2>1, <2>4, <3>1, <3>4 DEF RouteInv, TypeOK
    <3>7. PacketsOnRoute'
      BY <2>1, <2>5, <3>1, <3>4, <3>5 DEF RouteInv, PacketsOnRoute, HasRoute
    <3> QED
      BY <2>1, <2>2, <3>6, <3>7 DEF RouteInv, ReceivedHasRoute, HasRoute
  <2>6. CASE ~(f.hopLimit > 0 /\ HasRoute(n, f.destination))
    <3>1. packets' = packets
      BY <1>5, <2>6 DEF ForwardPacket
    <3>2. TypeOK'
      BY <2>1, <2>4, <3>1 DEF RouteInv, TypeOK
    <3> QED
      BY <2>1, <2>2, <3>1, <3>2 DEF RouteInv, ReceivedHasRoute, PacketsOnRoute, HasRoute
  <2> QED
    BY <2>5, <2>6
<1>6. ASSUME NEW p \in packets, ReceivePacket(p)
      PROVE  RouteInv'
  <2> DEFINE n == p.dst
             d == p.body.destination
  <2>1. p \in PacketTo /\ p.body \in Forward /\ n \in Node /\ d \in Node /\ p.src \in Node
    BY DEF RouteInv, TypeOK, PacketTo, Forward
  <2>2. UNCHANGED <<stored, handling, packets>>
    BY <1>6 DEF ReceivePacket
  <2>3. forwarding' \in [Node -> SUBSET Forward]
    BY <1>6, <2>1 DEF ReceivePacket, RouteInv, TypeOK
  <2>4. HasRoute(p.src, d) /\ (n # d => HasRoute(n, d))
    BY DEF RouteInv, PacketsOnRoute
  <2>5. CASE UNCHANGED <<routingTable, originLastID>>
    <3>1. RouteLeadsOn' /\ RouteFromRumor' /\ SelfEntryLeadsBack' /\ LoopFree'
      BY <2>5, TableUnchanged
    <3>2. TypeOK'
      BY <2>2, <2>3, <2>5 DEF RouteInv, TypeOK
    <3> QED
      BY <2>2, <2>5, <3>1, <3>2 DEF RouteInv, ReceivedHasRoute, PacketsOnRoute, HasRoute
  <2>6. CASE ~UNCHANGED <<routingTable, originLastID>>
    <3>1. /\ routingTable' = [routingTable EXCEPT ![n][d] = p.src]
          /\ originLastID' = [originLastID EXCEPT ![n][d] = 0]
          /\ ~HasRoute(n, d) \/ 0 > originLastID[n][d]
      BY <1>6, <2>6 DEF ReceivePacket, updateRoutingTable
    <3>2. n = d
      BY <2>1, <2>4, <3>1 DEF RouteInv, TypeOK
    <3>3. /\ \A m, x \in Node : m # x => /\ routingTable'[m][x] = routingTable[m][x]
                                         /\ originLastID'[m][x] = originLastID[m][x]
          /\ \A m \in Node : m # n => routingTable'[m][m] = routingTable[m][m]
          /\ routingTable'[n][n] = p.src
      BY <2>1, <3>1, <3>2 DEF RouteInv, TypeOK
    <3>4. p.src # NoRoute
      BY <2>1
    <3>5. /\ routingTable' \in [Node -> [Node -> Node \cup {NoRoute}]]
          /\ originLastID' \in [Node -> [Node -> 0 .. MaxID]]
      <4>1. 0 \in 0 .. MaxID
        OBVIOUS
      <4> QED
        BY <2>1, <3>1, <4>1 DEF RouteInv, TypeOK
    <3>6. TypeOK'
      BY <2>2, <2>3, <3>5 DEF RouteInv, TypeOK
    <3>7. ReceivedHasRoute'
      BY <2>2, <3>3 DEF RouteInv, ReceivedHasRoute, HasRoute
    <3>8. RouteLeadsOn'
      <4>1. ASSUME NEW m \in Node, NEW x \in Node, NEW t, t = routingTable'[m][x],
                   m # x, t # NoRoute, t # x
            PROVE  routingTable'[t][x] # NoRoute /\ originLastID'[t][x] >= originLastID'[m][x]
        <5>1. t = routingTable[m][x] /\ t \in Node /\ HasRoute(m, x)
          BY <3>3, <4>1 DEF RouteInv, TypeOK, HasRoute
        <5>2. HasRoute(t, x) /\ originLastID[t][x] >= originLastID[m][x]
          BY <4>1, <5>1 DEF RouteInv, RouteLeadsOn
        <5> QED
          BY <3>3, <4>1, <5>1, <5>2 DEF HasRoute
      <4> QED
        BY <4>1 DEF RouteLeadsOn, HasRoute
    <3>9. RouteFromRumor'
      BY <3>3 DEF RouteInv, RouteFromRumor, HasRoute
    <3>10. LoopFree'
      BY <3>3 DEF RouteInv, LoopFree
    <3>11. \A m, x \in Node : HasRoute(m, x) => routingTable'[m][x] # NoRoute
      BY <3>3, <3>4 DEF HasRoute
    <3>12. PacketsOnRoute'
      <4>1. \A q \in packets : q.src \in Node /\ q.dst \in Node /\ q.body.destination \in Node
        BY DEF RouteInv, TypeOK, PacketTo, Forward
      <4> QED
        BY <2>2, <3>11, <4>1 DEF RouteInv, PacketsOnRoute, HasRoute
    <3>13. SelfEntryLeadsBack'
      <4>1. ASSUME NEW m \in Node, NEW t, t = routingTable'[m][m], t # NoRoute
            PROVE  routingTable'[t][m] # NoRoute
        <5>1. CASE m = n
          <6>1. t = p.src /\ HasRoute(p.src, n)
            BY <2>4, <3>2, <3>3, <4>1, <5>1
          <6> QED
            BY <2>1, <3>11, <5>1, <6>1
        <5>2. CASE m # n
          <6>1. t = routingTable[m][m] /\ HasRoute(m, m) /\ t \in Node
            BY <3>3, <4>1, <5>2 DEF RouteInv, TypeOK, HasRoute
          <6>2. HasRoute(t, m)
            BY <6>1 DEF RouteInv, SelfEntryLeadsBack
          <6> QED
            BY <3>11, <6>1, <6>2
        <5> QED
          BY <5>1, <5>2
      <4> QED
        BY <4>1 DEF SelfEntryLeadsBack, HasRoute
    <3> QED
      BY <3>6, <3>7, <3>8, <3>9, <3>10, <3>12, <3>13 DEF RouteInv
  <2> QED
    BY <2>5, <2>6
<1>7. CASE UNCHANGED vars
  BY <1>7 DEF vars, RouteInv, TypeOK, ReceivedHasRoute, RouteLeadsOn, RouteFromRumor,
              PacketsOnRoute, SelfEntryLeadsBack, LoopFree, HasRoute
<1> QED
  BY <1>1, <1>2, <1>3, <1>4, <1>5, <1>6, <1>7 DEF Next

\* Whatever order rumors arrive in and whatever private messages pass, the
\* routes to a destination never run in a circle.
THEOREM RoutesAreLoopFree == Spec => []LoopFree
<1>1. Init => RouteInv
  BY InitRoute
<1>2. RouteInv /\ [Next]_vars => RouteInv'
  BY NextRoute
<1>3. RouteInv => LoopFree
  BY DEF RouteInv
<1> QED
  BY <1>1, <1>2, <1>3, PTL DEF Spec

\* A next hop is the destination or has a route to it that is as recent.
THEOREM RoutesLeadOn == Spec => []RouteLeadsOn
<1>1. Init => RouteInv
  BY InitRoute
<1>2. RouteInv /\ [Next]_vars => RouteInv'
  BY NextRoute
<1>3. RouteInv => RouteLeadsOn
  BY DEF RouteInv
<1> QED
  BY <1>1, <1>2, <1>3, PTL DEF Spec

\* A route to another node comes from a rumor of it: a private message makes
\* none, although updateRoutingTable is called for it too.
THEOREM RoutesFromRumors == Spec => []RouteFromRumor
<1>1. Init => RouteInv
  BY InitRoute
<1>2. RouteInv /\ [Next]_vars => RouteInv'
  BY NextRoute
<1>3. RouteInv => RouteFromRumor
  BY DEF RouteInv
<1> QED
  BY <1>1, <1>2, <1>3, PTL DEF Spec

\* The routing table, the storages and the packets keep their types: the hop
\* limit of a packet, an unsigned number in the code, never goes below 0.
THEOREM TypeCorrect == Spec => []TypeOK
<1>1. Init => RouteInv
  BY InitRoute
<1>2. RouteInv /\ [Next]_vars => RouteInv'
  BY NextRoute
<1>3. RouteInv => TypeOK
  BY DEF RouteInv
<1> QED
  BY <1>1, <1>2, <1>3, PTL DEF Spec

-----------------------------------------------------------------------------
(***************************************************************************)
(* originLastID is the largest id received: one half is ReceivedHasRoute,  *)
(* the other is that the id of a route has been received.                  *)
(***************************************************************************)
RouteReceived ==
  \A n, o \in Node : n # o /\ HasRoute(n, o) =>
    \E r \in stored[n] \cup handling[n] : r.origin = o /\ r.id = originLastID[n][o]

LEMMA NextRouteReceived == RouteInv /\ RouteReceived /\ [Next]_vars => RouteReceived'
<1> SUFFICES ASSUME RouteInv, RouteReceived, [Next]_vars PROVE RouteReceived'
  OBVIOUS
<1> USE DEF RouteInv
\* Nodes forget no rumor, so an unchanged table keeps its rumors.
<1>1. ASSUME UNCHANGED <<routingTable, originLastID>>,
             \A n \in Node : stored[n] \cup handling[n] \subseteq stored'[n] \cup handling'[n]
      PROVE  RouteReceived'
  BY <1>1 DEF RouteReceived, HasRoute
<1>2. ASSUME NEW n \in Source, NEW i \in 1 .. MaxID, CreateRumor(n, i) PROVE RouteReceived'
  BY <1>1, <1>2, RoutingAssumption DEF CreateRumor, TypeOK
<1>3. ASSUME NEW s \in Node, NEW n \in Node, NEW r \in stored[s], ReceiveRumor(n, s, r)
      PROVE  RouteReceived'
  <2>1. /\ r \in Rumor /\ r.origin \in Node
        /\ stored' = stored /\ handling' = [handling EXCEPT ![n] = @ \cup {r}]
        /\ updateRoutingTable(n, r.origin, r.id, s)
    BY <1>3 DEF ReceiveRumor, TypeOK, Rumor
  <2>2. CASE UNCHANGED <<originLastID, routingTable>>
    BY <1>1, <2>1, <2>2 DEF TypeOK
  <2>3. CASE /\ originLastID' = [originLastID EXCEPT ![n][r.origin] = r.id]
             /\ routingTable' = [routingTable EXCEPT ![n][r.origin] = s]
    <3> SUFFICES ASSUME NEW m \in Node, NEW o \in Node, m # o, HasRoute(m, o)'
                 PROVE  \E x \in stored'[m] \cup handling'[m] :
                          x.origin = o /\ x.id = originLastID'[m][o]
      BY DEF RouteReceived
    <3>1. CASE m = n /\ o = r.origin
      <4>1. r \in handling'[m] /\ originLastID'[m][o] = r.id
        BY <2>1, <2>3, <3>1 DEF TypeOK
      <4> QED BY <3>1, <4>1
    <3>2. CASE ~(m = n /\ o = r.origin)
      <4>1. originLastID'[m][o] = originLastID[m][o] /\ HasRoute(m, o)
        BY <2>3, <3>2 DEF TypeOK, HasRoute
      <4>2. stored[m] \cup handling[m] \subseteq stored'[m] \cup handling'[m]
        BY <2>1 DEF TypeOK
      <4> QED BY <4>1, <4>2 DEF RouteReceived
    <3> QED BY <3>1, <3>2
  <2> QED BY <2>1, <2>2, <2>3 DEF updateRoutingTable
<1>4. ASSUME NEW n \in Node, NEW r \in handling[n], StoreRumor(n, r) PROVE RouteReceived'
  BY <1>1, <1>4 DEF StoreRumor, TypeOK
<1>5. ASSUME NEW n \in Node, NEW f \in forwarding[n], ForwardPacket(n, f) PROVE RouteReceived'
  BY <1>1, <1>5 DEF ForwardPacket
<1>6. ASSUME NEW n \in Client, NEW t \in PacketType, NEW d \in Node, NewPacket(n, t, d)
      PROVE  RouteReceived'
  BY <1>1, <1>6 DEF NewPacket
<1>7. ASSUME NEW p \in packets, ReceivePacket(p) PROVE RouteReceived'
  <2> DEFINE n == p.dst
             d == p.body.destination
  <2>1. /\ n \in Node /\ d \in Node /\ stored' = stored /\ handling' = handling
        /\ n # d => HasRoute(n, d) /\ originLastID[n][d] \in Nat
    BY <1>7, RoutingAssumption DEF ReceivePacket, TypeOK, PacketTo, Forward, PacketsOnRoute
  <2>2. CASE UNCHANGED <<originLastID, routingTable>>
    BY <1>1, <2>1, <2>2
  \* Only the entry of the node for itself can have changed.
  <2>3. CASE ~UNCHANGED <<originLastID, routingTable>>
    <3>1. /\ originLastID' = [originLastID EXCEPT ![n][d] = 0]
          /\ routingTable' = [routingTable EXCEPT ![n][d] = p.src]
          /\ ~HasRoute(n, d) \/ 0 > originLastID[n][d]
      BY <1>7, <2>3 DEF ReceivePacket, updateRoutingTable
    <3>2. n = d
      BY <2>1, <3>1
    <3>3. \A m, o \in Node : m # o =>
            originLastID'[m][o] = originLastID[m][o] /\ routingTable'[m][o] = routingTable[m][o]
      BY <2>1, <3>1, <3>2 DEF TypeOK
    <3> QED BY <2>1, <3>3 DEF RouteReceived, HasRoute
  <2> QED BY <2>2, <2>3
<1>8. CASE UNCHANGED vars
  BY <1>1, <1>8 DEF vars
<1> QED
  BY <1>2, <1>3, <1>4, <1>5, <1>6, <1>7, <1>8 DEF Next

\* originLastID is the largest id received of an origin, as its comment says,
\* although rumors arrive in any order and private messages carry the id 0.
THEOREM LastIDCorrect == Spec => []LastIDIsLargest
<1>1. Init => RouteInv /\ RouteReceived
  BY InitRoute DEF Init, RouteReceived, HasRoute
<1>2. RouteInv /\ RouteReceived /\ [Next]_vars => (RouteInv /\ RouteReceived)'
  BY NextRoute, NextRouteReceived
<1>3. RouteInv /\ RouteReceived => LastIDIsLargest
  BY DEF RouteInv, RouteReceived, ReceivedHasRoute, LastIDIsLargest
<1> QED
  BY <1>1, <1>2, <1>3, PTL DEF Spec
=============================================================================
