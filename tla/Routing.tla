------------------------------ MODULE Routing -------------------------------
(***************************************************************************)
(* Next-hop routing (gossiper/routinghandler.go) over gossiped rumors and  *)
(* the point-to-point packets that follow the routes: private messages,    *)
(* acks, data and search replies (gossiper/mainhandler.go).                *)
(*                                                                         *)
(* Of gossiping this module keeps what module Gossip shows: a node sends   *)
(* only messages it has stored, and never drops one.  A rumor in flight is *)
(* then a rumor its sender has stored, delivered at any later time, any    *)
(* number of times or never, so the network needs no variable of its own.  *)
(***************************************************************************)
EXTENDS Naturals

CONSTANTS
  Node,      \* gossipers; one value is both the name and the UDP address
  Link,      \* Link[s]: the nodes that s sends rumors to
  Source,    \* the nodes that create rumors
  Client,    \* the nodes that start point-to-point packets
  HopLimit,  \* hop limit of a new point-to-point packet
  MaxID,     \* bound: largest id of a rumor
  NoRoute    \* value of the routing table without an entry

ASSUME RoutingAssumption ==
  /\ Source \subseteq Node
  /\ Client \subseteq Node
  /\ Link \in [Node -> SUBSET Node]
  /\ HopLimit \in Nat
  /\ MaxID \in Nat
  /\ NoRoute \notin Node

VARIABLES
  stored,        \* rumors in the storage of each node
  handling,      \* handleGossipMessage between routing table and storage
  routingTable,  \* next hop per destination, or NoRoute
  originLastID,  \* per origin the largest id that updated the table
  forwarding,    \* goroutines about to run forwardPrivateMessage
  packets        \* point-to-point packets sent; UDP may deliver each again

vars == <<stored, handling, routingTable, originLastID, forwarding, packets>>

Rumor == [origin : Node, id : 1 .. MaxID]

\* Only processPrivateMessages updates the routing table.
PacketType == {"private", "other"}
Forward == [type : PacketType, destination : Node, hopLimit : 0 .. HopLimit]
PacketTo == [src : Node, dst : Node, body : Forward]

Init ==
  /\ stored = [n \in Node |-> {}]
  /\ handling = [n \in Node |-> {}]
  /\ routingTable = [n \in Node |-> [o \in Node |-> NoRoute]]
  /\ originLastID = [n \in Node |-> [o \in Node |-> 0]]
  /\ forwarding = [n \in Node |-> {}]
  /\ packets = {}

HasRoute(n, o) == routingTable[n][o] # NoRoute

\* Variant: an id seen before also updates the table.
UpdateOnEqual(n, o, i, s) ==
  IF ~HasRoute(n, o) \/ i >= originLastID[n][o]
  THEN /\ originLastID' = [originLastID EXCEPT ![n][o] = i]
       /\ routingTable' = [routingTable EXCEPT ![n][o] = s]
  ELSE UNCHANGED <<originLastID, routingTable>>

\* Variant: the table is not consulted for the age of the route.
UpdateAlways(n, o, i, s) ==
  /\ originLastID' = [originLastID EXCEPT ![n][o] = i]
  /\ routingTable' = [routingTable EXCEPT ![n][o] = s]

\* updateRoutingTable under the mutex.  An origin has an entry in
\* originLastID exactly if it has one in the table.
updateRoutingTable(n, o, i, s) ==
  IF ~HasRoute(n, o) \/ i > originLastID[n][o]
  THEN /\ originLastID' = [originLastID EXCEPT ![n][o] = i]
       /\ routingTable' = [routingTable EXCEPT ![n][o] = s]
  ELSE UNCHANGED <<originLastID, routingTable>>

\* A rumor of n is created and stored.  Concurrent creators of one node may
\* store their ids in any order.
CreateRumor(n, i) ==
  /\ [origin |-> n, id |-> i] \notin stored[n]
  /\ stored' = [stored EXCEPT ![n] = @ \cup {[origin |-> n, id |-> i]}]
  /\ UNCHANGED <<handling, routingTable, originLastID, forwarding, packets>>

\* handleGossipMessage for a rumor of another node that s sent: the routing
\* table is updated first.
ReceiveRumor(n, s, r) ==
  /\ n \in Link[s] /\ r \in stored[s] /\ r.origin # n
  /\ updateRoutingTable(n, r.origin, r.id, s)
  /\ handling' = [handling EXCEPT ![n] = @ \cup {r}]
  /\ UNCHANGED <<stored, forwarding, packets>>

\* storeMessage; from now on n may send the rumor.
StoreRumor(n, r) ==
  /\ r \in handling[n]
  /\ stored' = [stored EXCEPT ![n] = @ \cup {r}]
  /\ handling' = [handling EXCEPT ![n] = @ \ {r}]
  /\ UNCHANGED <<routingTable, originLastID, forwarding, packets>>

\* A client, a request handler or handleTLCMessage of n starts a packet to d.
NewPacket(n, t, d) ==
  /\ forwarding' = [forwarding EXCEPT ![n] = @ \cup
                      {[type |-> t, destination |-> d, hopLimit |-> HopLimit]}]
  /\ UNCHANGED <<stored, handling, routingTable, originLastID, packets>>

\* Variant: the hop limit is not looked at.
ForwardWithoutLimit(n, f) ==
  /\ f \in forwarding[n]
  /\ packets' = packets \cup
       IF HasRoute(n, f.destination)
       THEN {[src |-> n, dst |-> routingTable[n][f.destination],
              body |-> [f EXCEPT !.hopLimit = @ - 1]]}
       ELSE {}
  /\ forwarding' = [forwarding EXCEPT ![n] = @ \ {f}]
  /\ UNCHANGED <<stored, handling, routingTable, originLastID>>

\* forwardPrivateMessage: without hops left or without a route it is dropped.
ForwardPacket(n, f) ==
  /\ f \in forwarding[n]
  /\ packets' = packets \cup
       IF f.hopLimit > 0 /\ HasRoute(n, f.destination)
       THEN {[src |-> n, dst |-> routingTable[n][f.destination],
              body |-> [f EXCEPT !.hopLimit = @ - 1]]}
       ELSE {}
  /\ forwarding' = [forwarding EXCEPT ![n] = @ \ {f}]
  /\ UNCHANGED <<stored, handling, routingTable, originLastID>>

\* processPrivateMessages and the handlers of the other types.  A private
\* message updates the table with its DESTINATION and its id, which is 0.
ReceivePacket(p) ==
  /\ p \in packets
  /\ IF p.body.type = "private"
     THEN updateRoutingTable(p.dst, p.body.destination, 0, p.src)
     ELSE UNCHANGED <<originLastID, routingTable>>
  /\ forwarding' = IF p.body.destination = p.dst THEN forwarding
                   ELSE [forwarding EXCEPT ![p.dst] = @ \cup {p.body}]
  /\ UNCHANGED <<stored, handling, packets>>

Next ==
  \/ \E n \in Source, i \in 1 .. MaxID : CreateRumor(n, i)
  \/ \E s, n \in Node : \E r \in stored[s] : ReceiveRumor(n, s, r)
  \/ \E n \in Node : \/ \E r \in handling[n] : StoreRumor(n, r)
                     \/ \E f \in forwarding[n] : ForwardPacket(n, f)
  \/ \E n \in Client, t \in PacketType, d \in Node : NewPacket(n, t, d)
  \/ \E p \in packets : ReceivePacket(p)

Spec == Init /\ [][Next]_vars

-----------------------------------------------------------------------------
TypeOK ==
  /\ stored \in [Node -> SUBSET Rumor]
  /\ handling \in [Node -> SUBSET Rumor]
  /\ routingTable \in [Node -> [Node -> Node \cup {NoRoute}]]
  /\ originLastID \in [Node -> [Node -> 0 .. MaxID]]
  /\ forwarding \in [Node -> SUBSET Forward]
  /\ packets \subseteq PacketTo

\* The routes to o, followed from any node, never run in a circle: no set of
\* nodes other than o is closed under taking the next hop.
LoopFree ==
  \A o \in Node : \A S \in SUBSET (Node \ {o}) :
    S # {} => \E n \in S : routingTable[n][o] \notin S

\* The next hop to o is o or has itself a route to o that is as recent, so a
\* packet that follows a route is never dropped for want of one.
RouteLeadsOn ==
  \A n, o \in Node : n # o /\ HasRoute(n, o) =>
    LET s == routingTable[n][o] IN
    s # o => HasRoute(s, o) /\ originLastID[s][o] >= originLastID[n][o]

\* A route to another node comes from a rumor of that node, never from a
\* private message, although processPrivateMessages passes the message's
\* destination and sender to updateRoutingTable.
RouteFromRumor ==
  \A n, o \in Node : n # o /\ HasRoute(n, o) => originLastID[n][o] > 0

\* originLastID saves iterating over the storage, as its comment says: it is
\* the largest id received from an origin.
LastIDIsLargest ==
  \A n, o \in Node : n # o =>
    /\ \A r \in stored[n] \cup handling[n] : r.origin = o => r.id <= originLastID[n][o]
    /\ HasRoute(n, o) => \E r \in stored[n] \cup handling[n] :
                           r.origin = o /\ r.id = originLastID[n][o]
=============================================================================
