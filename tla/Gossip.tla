------------------------------- MODULE Gossip -------------------------------
(***************************************************************************)
(* Dissemination of gossip messages (rumors and TLC messages) between      *)
(* gossipers: creation, storage, the vector clock of least unknown ids,    *)
(* rumor mongering, status exchange and anti-entropy                       *)
(* (gossiper/gossiphandler.go, status.go, rumormongering.go, peers.go).    *)
(*                                                                         *)
(* A gossiper is a set of goroutines over shared maps.  A step is what a   *)
(* goroutine does between two points at which another one can interfere:   *)
(* one atomic access, one sync.Map operation, or one section under the     *)
(* mutex of the vector clock, with the sends that follow it.  The network  *)
(* is UDP: packets are lost, duplicated and reordered.                     *)
(***************************************************************************)
EXTENDS Naturals, FiniteSets

CONSTANTS
  Node,          \* gossipers; one value is both the name and the UDP address
  Source,        \* the nodes whose goroutines create messages
  Creator,       \* the goroutines of a node that may create a message
  Body,          \* contents of a message
  InitPeers,     \* neighbours given on the command line, a function of Node
  MaxID,         \* bound: largest sequence number that is drawn
  HandlerLimit,  \* bound: handleGossipMessage activations at one node
  MongerLimit,   \* bound: mongering goroutines that get to run at one node
  NetCapacity    \* bound: packets in flight; a packet beyond it is lost

ASSUME GossipAssumption ==
  /\ Source \subseteq Node
  /\ InitPeers \in [Node -> SUBSET Node]
  /\ MaxID \in Nat \ {0}
  /\ HandlerLimit \in Nat
  /\ MongerLimit \in Nat
  /\ NetCapacity \in Nat

VARIABLES
  seqID,           \* next sequence number of each node
  creating,        \* progress of each creating goroutine
  messageStorage,  \* gossip messages kept by each node
  myStatus,        \* vector clock: per origin the least unknown id
  peers,           \* known neighbours
  handling,        \* handleGossipMessage between storing and updating
  pushing,         \* handlePeerStatus between choosing an entry and sending
  mongering,       \* running startRumorMongering goroutines
  net              \* packets in flight

vars == <<seqID, creating, messageStorage, myStatus, peers, handling,
          pushing, mongering, net>>

\* The vector clock is a map: an origin without an entry has this value.
NoEntry == 0

MsgID == Nat \ {0}
Message == [origin : Node, id : MsgID, body : Body]
VectorClock == [Node -> Nat]
Packet ==
  [type : {"gossip"}, src : Node, dst : Node, msg : Message] \cup
  [type : {"status"}, src : Node, dst : Node, want : VectorClock]

CreatorState ==
  [pc : {"idle"}] \cup
  [pc : {"loaded", "added", "stored"}, id : MsgID, body : Body]
Handler == [msg : Message, src : Node, known : BOOLEAN]
Push == [dst : Node, origin : Node, id : MsgID]
Mongerer == [msg : Message, last : Node]

-----------------------------------------------------------------------------
(***************************************************************************)
(* The data structures.                                                    *)
(***************************************************************************)

\* messageStorage[origin] has an entry for id.
Holds(S, o, i) == \E m \in S : m.origin = o /\ m.id = i

\* Variant: the new message replaces the stored one.
StoreOverwriting(S, m) ==
  {x \in S : ~(x.origin = m.origin /\ x.id = m.id)} \cup {m}

\* mapValue.LoadOrStore(id, packet): the first message with an id stays.
LoadOrStore(S, m) == IF Holds(S, m.origin, m.id) THEN S ELSE S \cup {m}

\* The id from which updateStatus starts: 1 when the origin has no entry.
NextID(vc, o) == IF vc[o] = NoEntry THEN 1 ELSE vc[o]

\* The guard and the first lookup of updateStatus.
Advances(vc, S, o, id) == NextID(vc, o) <= id /\ Holds(S, o, NextID(vc, o))

\* Variant: the entry becomes the successor of the id just stored.
JumpsToSuccessor(vc, S, o, id, new) == new = id + 1

\* updateStatus: new is the entry of o afterwards.  The loop moves it past
\* every consecutive known id; without a first hit the map is not written.
updateStatus(vc, S, o, id, new) ==
  IF Advances(vc, S, o, id)
  THEN /\ new > NextID(vc, o)
       /\ \A i \in NextID(vc, o) .. (new - 1) : Holds(S, o, i)
       /\ ~Holds(S, o, new)
  ELSE new = vc[o]

\* Variant: the next id this node knows, not the one the peer asked for.
PeerStatusOfMine(mine, theirs) ==
  {[origin |-> o, id |-> mine[o]] :
     o \in {x \in Node : mine[x] # NoEntry /\ theirs[x] < mine[x]}}

\* Variant: an origin the peer has never heard of is sent from id 0.
PeerStatusFromZero(mine, theirs) ==
  {[origin |-> o, id |-> theirs[o]] :
     o \in {x \in Node : mine[x] # NoEntry /\ mine[x] > theirs[x]}}

\* Variant: an origin the peer has never heard of is skipped.
PeerStatusKnownOnly(mine, theirs) ==
  {[origin |-> o, id |-> theirs[o]] :
     o \in {x \in Node : /\ mine[x] # NoEntry /\ theirs[x] # NoEntry
                         /\ mine[x] > theirs[x]}}

\* getPeerStatusForPeer: what the peer lacks.  The code returns the first
\* hit of a map iteration, whose order is random: any element may be it.
getPeerStatusForPeer(mine, theirs) ==
  {[origin |-> o, id |-> NextID(theirs, o)] :
     o \in {x \in Node : /\ mine[x] # NoEntry
                         /\ theirs[x] = NoEntry \/ mine[x] > theirs[x]}}

\* checkIfINeedPeerStatus: the peer knows something this node lacks.
checkIfINeedPeerStatus(mine, theirs) ==
  \E o \in Node : /\ theirs[o] # NoEntry
                  /\ mine[o] = NoEntry \/ theirs[o] > mine[o]

-----------------------------------------------------------------------------
(***************************************************************************)
(* The network.                                                            *)
(***************************************************************************)

GossipPacket(s, d, m) == [type |-> "gossip", src |-> s, dst |-> d, msg |-> m]
StatusPacket(s, d) ==
  [type |-> "status", src |-> s, dst |-> d, want |-> myStatus[s]]

\* sendPacket on the packets N in flight.
Sent(N, pkts) ==
  IF Cardinality(N \cup pkts) <= NetCapacity THEN N \cup pkts ELSE N

\* The receiver can take p: there is a goroutine to handle a gossip message,
\* and the goroutine for statuses of this sender is not busy with one.
Ready(p) ==
  IF p.type = "gossip" THEN Cardinality(handling[p.dst]) < HandlerLimit
  ELSE \A q \in pushing[p.dst] : q.dst # p.src

\* What remains in flight once p is read: UDP may deliver p again.
ReadFrom(p) == {net \ {p}, net}

\* receivePacketsFromPeers hands a packet to its handler after AddPeer.
AddPeer(n, a) == peers' = [peers EXCEPT ![n] = @ \cup {a}]

\* go startRumorMongering(packet): the goroutine is added to those of a node.
StartMongering(G, m, sender) ==
  IF Cardinality(G) < MongerLimit THEN G \cup {[msg |-> m, last |-> sender]} ELSE G

-----------------------------------------------------------------------------
Init ==
  /\ seqID = [n \in Node |-> 1]
  /\ creating = [n \in Node |-> [c \in Creator |-> [pc |-> "idle"]]]
  /\ messageStorage = [n \in Node |-> {}]
  /\ myStatus = [n \in Node |-> [o \in Node |-> NoEntry]]
  /\ peers = InitPeers
  /\ handling = [n \in Node |-> {}]
  /\ pushing = [n \in Node |-> {}]
  /\ mongering = [n \in Node |-> {}]
  /\ net = {}

-----------------------------------------------------------------------------
(***************************************************************************)
(* createRumorMessage and createTLCMessage, run by goroutine c of node n.  *)
(***************************************************************************)

\* id := atomic.LoadUint32(&seqID)
LoadSeqID(n, c, b) ==
  /\ creating[n][c].pc = "idle"
  /\ seqID[n] <= MaxID
  /\ creating' = [creating EXCEPT
                    ![n][c] = [pc |-> "loaded", id |-> seqID[n], body |-> b]]
  /\ UNCHANGED <<seqID, messageStorage, myStatus, peers, handling, pushing,
                 mongering, net>>

\* Variant: the sequence number is not advanced.
ForgetSeqID(n, c) ==
  /\ creating[n][c].pc = "loaded"
  /\ creating' = [creating EXCEPT ![n][c].pc = "added"]
  /\ UNCHANGED <<seqID, messageStorage, myStatus, peers, handling, pushing,
                 mongering, net>>

\* atomic.AddUint32(&seqID, 1): a separate atomic operation.
AddSeqID(n, c) ==
  /\ creating[n][c].pc = "loaded"
  /\ seqID' = [seqID EXCEPT ![n] = @ + 1]
  /\ creating' = [creating EXCEPT ![n][c].pc = "added"]
  /\ UNCHANGED <<messageStorage, myStatus, peers, handling, pushing,
                 mongering, net>>

Created(n, c) == [origin |-> n, id |-> creating[n][c].id,
                  body |-> creating[n][c].body]

\* Variant: the message is mongered without having been stored.
SkipStoring(n, c) ==
  /\ creating[n][c].pc = "added"
  /\ creating' = [creating EXCEPT ![n][c].pc = "stored"]
  /\ UNCHANGED <<seqID, messageStorage, myStatus, peers, handling, pushing,
                 mongering, net>>

\* storeMessage, first half; whether the id was known is ignored.
StoreCreated(n, c) ==
  /\ creating[n][c].pc = "added"
  /\ messageStorage' = [messageStorage EXCEPT ![n] = LoadOrStore(@, Created(n, c))]
  /\ creating' = [creating EXCEPT ![n][c].pc = "stored"]
  /\ UNCHANGED <<seqID, myStatus, peers, handling, pushing, mongering, net>>

\* storeMessage, second half (updateStatus), then the caller starts
\* mongering: the sender address excluded at first is the node's own.
FinishCreate(n, c) ==
  /\ creating[n][c].pc = "stored"
  /\ \E new \in 0 .. (MaxID + 1) :
       /\ updateStatus(myStatus[n], messageStorage[n], n, creating[n][c].id, new)
       /\ myStatus' = [myStatus EXCEPT ![n][n] = new]
  /\ mongering' = [mongering EXCEPT ![n] = StartMongering(@, Created(n, c), n)]
  /\ creating' = [creating EXCEPT ![n][c] = [pc |-> "idle"]]
  /\ UNCHANGED <<seqID, messageStorage, peers, handling, pushing, net>>

-----------------------------------------------------------------------------
(***************************************************************************)
(* handleGossipMessage at node n.                                          *)
(***************************************************************************)

\* storeMessage, first half.  A node's own message coming back is not stored.
ReceiveGossip(n, p) ==
  /\ p \in net /\ p.type = "gossip" /\ p.dst = n /\ Ready(p)
  /\ AddPeer(n, p.src)
  /\ IF p.msg.origin = n
     THEN /\ UNCHANGED <<messageStorage, handling>>
          /\ \E N \in ReadFrom(p) : net' = Sent(N, {StatusPacket(n, p.src)})
     ELSE /\ messageStorage' = [messageStorage EXCEPT ![n] = LoadOrStore(@, p.msg)]
          /\ handling' = [handling EXCEPT ![n] = @ \cup
               {[msg |-> p.msg, src |-> p.src,
                 known |-> Holds(messageStorage[n], p.msg.origin, p.msg.id)]}]
          /\ net' \in ReadFrom(p)
  /\ UNCHANGED <<seqID, creating, myStatus, pushing, mongering>>

\* updateStatus, the status sent back, and mongering if the message is new.
FinishGossip(n, h) ==
  /\ h \in handling[n]
  /\ \E new \in 0 .. (MaxID + 1) :
       /\ updateStatus(myStatus[n], messageStorage[n], h.msg.origin, h.msg.id, new)
       /\ myStatus' = [myStatus EXCEPT ![n][h.msg.origin] = new]
  /\ net' = Sent(net, {StatusPacket(n, h.src)'})
  /\ mongering' = [mongering EXCEPT ![n] =
                     IF h.known THEN @ ELSE StartMongering(@, h.msg, h.src)]
  /\ handling' = [handling EXCEPT ![n] = @ \ {h}]
  /\ UNCHANGED <<seqID, creating, messageStorage, peers, pushing>>

-----------------------------------------------------------------------------
(***************************************************************************)
(* handlePeerStatus at node n.  Each sender has its own goroutine, which   *)
(* takes the next status once the previous one is dealt with.              *)
(***************************************************************************)

TakesStatus(n, p) ==
  /\ p \in net /\ p.type = "status" /\ p.dst = n /\ Ready(p)
  /\ AddPeer(n, p.src)

\* The peer lacks a message: choose one under the read lock.
ChooseForPeer(n, p) ==
  /\ TakesStatus(n, p)
  /\ \E ps \in getPeerStatusForPeer(myStatus[n], p.want) :
       pushing' = [pushing EXCEPT ![n] = @ \cup
                     {[dst |-> p.src, origin |-> ps.origin, id |-> ps.id]}]
  /\ net' \in ReadFrom(p)
  /\ UNCHANGED <<seqID, creating, messageStorage, myStatus, handling, mongering>>

\* getPacketFromPeerStatus after the lock is released, and the send.
PushToPeer(n, q) ==
  /\ q \in pushing[n]
  /\ \E m \in messageStorage[n] :
       /\ m.origin = q.origin /\ m.id = q.id
       /\ net' = Sent(net, {GossipPacket(n, q.dst, m)})
  /\ pushing' = [pushing EXCEPT ![n] = @ \ {q}]
  /\ UNCHANGED <<seqID, creating, messageStorage, myStatus, peers, handling, mongering>>

\* The peer lacks nothing: ask it for what it has, or be in sync.
AnswerPeer(n, p) ==
  /\ TakesStatus(n, p)
  /\ getPeerStatusForPeer(myStatus[n], p.want) = {}
  /\ \E N \in ReadFrom(p) :
       net' = IF checkIfINeedPeerStatus(myStatus[n], p.want)
              THEN Sent(N, {StatusPacket(n, p.src)}) ELSE N
  /\ UNCHANGED <<seqID, creating, messageStorage, myStatus, handling, pushing, mongering>>

-----------------------------------------------------------------------------
(***************************************************************************)
(* Periodic and background work.                                           *)
(***************************************************************************)

\* startAntiEntropy: a tick sends the status to a random peer.
AntiEntropy(n, a) ==
  /\ a \in peers[n]
  /\ net' = Sent(net, {StatusPacket(n, a)})
  /\ UNCHANGED <<seqID, creating, messageStorage, myStatus, peers, handling,
                 pushing, mongering>>

\* startRumorMongering: send to a random peer other than the last one, then
\* stop (a status came and the coin said so) or go on (coin or timeout).
MongerTo(n, g, a) ==
  /\ g \in mongering[n] /\ a \in peers[n] \ {g.last}
  /\ net' = Sent(net, {GossipPacket(n, a, g.msg)})
  /\ \E next \in {{}, {[g EXCEPT !.last = a]}} :
       mongering' = [mongering EXCEPT ![n] = (@ \ {g}) \cup next]
  /\ UNCHANGED <<seqID, creating, messageStorage, myStatus, peers, handling, pushing>>

\* startRumorMongering without an available peer: the goroutine returns.
MongerReturn(n, g) ==
  /\ g \in mongering[n] /\ peers[n] \ {g.last} = {}
  /\ mongering' = [mongering EXCEPT ![n] = @ \ {g}]
  /\ UNCHANGED <<seqID, creating, messageStorage, myStatus, peers, handling, pushing, net>>

\* UDP drops a packet.  One whose receiver is busy waits in flight, or in the
\* channel of its handler: dropping it later comes to the same.
Lose(p) ==
  /\ p \in net /\ Ready(p)
  /\ net' = net \ {p}
  /\ UNCHANGED <<seqID, creating, messageStorage, myStatus, peers, handling,
                 pushing, mongering>>

-----------------------------------------------------------------------------
Create(n, c) ==
  \/ \E b \in Body : LoadSeqID(n, c, b)
  \/ AddSeqID(n, c) \/ StoreCreated(n, c) \/ FinishCreate(n, c)

Receive(n, p) == ReceiveGossip(n, p) \/ ChooseForPeer(n, p) \/ AnswerPeer(n, p)

Next ==
  \/ \E n \in Source, c \in Creator : Create(n, c)
  \/ \E p \in net : Receive(p.dst, p) \/ Lose(p)
  \/ \E n \in Node :
       \/ \E h \in handling[n] : FinishGossip(n, h)
       \/ \E q \in pushing[n] : PushToPeer(n, q)
       \/ \E a \in peers[n] : AntiEntropy(n, a)
       \/ \E g \in mongering[n] : MongerReturn(n, g) \/ \E a \in peers[n] : MongerTo(n, g, a)

Spec == Init /\ [][Next]_vars

-----------------------------------------------------------------------------
TypeOK ==
  /\ seqID \in [Node -> MsgID]
  /\ creating \in [Node -> [Creator -> CreatorState]]
  /\ messageStorage \in [Node -> SUBSET Message]
  /\ myStatus \in [Node -> VectorClock]
  /\ peers \in [Node -> SUBSET Node]
  /\ handling \in [Node -> SUBSET Handler]
  /\ pushing \in [Node -> SUBSET Push]
  /\ mongering \in [Node -> SUBSET Mongerer]
  /\ net \subseteq Packet

\* A goroutine has stored (o, i) and not yet run updateStatus for it: H and C
\* are the handlers and the creators of a node, own says that o is its name.
UpdatePending(H, C, own, o, i) ==
  \/ \E h \in H : h.msg.origin = o /\ h.msg.id = i
  \/ own /\ \E c \in Creator : C[c].pc = "stored" /\ C[c].id = i

\* The entry of the vector clock is the least unknown id, as the comment of
\* updateStatus says: all smaller ids are stored, and the entry itself is
\* stored only while the goroutine that stored it still has to update.
StatusIsLeastUnknown ==
  \A n, o \in Node :
    LET next == NextID(myStatus[n], o) IN
    /\ \A i \in 1 .. (next - 1) : Holds(messageStorage[n], o, i)
    /\ Holds(messageStorage[n], o, next) =>
         UpdatePending(handling[n], creating[n], o = n, o, next)

\* getPacketFromPeerStatus never fails its type assertion: the entry chosen
\* under the lock is still in the storage when the packet is looked up.
PushedIsStored ==
  \A n \in Node : \A q \in pushing[n] : Holds(messageStorage[n], q.origin, q.id)

\* No vector clock runs ahead of the origin's own, so a node is never asked
\* for, and never sent, a message of its own that it lacks (handleGossipMessage
\* would not store it and the exchange would never end).
OriginAhead ==
  \A n, o \in Node : NextID(myStatus[n], o) <= NextID(myStatus[o], o)

\* (Origin, ID) identifies a message everywhere, as MessageUniqueID says.
UniqueID ==
  \A n1, n2 \in Node : \A m1 \in messageStorage[n1], m2 \in messageStorage[n2] :
    m1.origin = m2.origin /\ m1.id = m2.id => m1 = m2

\* A stored message is never dropped or replaced and no vector clock entry
\* ever goes back, whatever goroutines interleave in storeMessage.
Grows ==
  \A n \in Node :
    /\ messageStorage[n] \subseteq messageStorage'[n]
    /\ \A o \in Node : myStatus[n][o] <= myStatus'[n][o]
OnlyGrows == [][Grows]_vars

-----------------------------------------------------------------------------
(***************************************************************************)
(* The detailed specification implements prefix replication: what a node   *)
(* knows of an origin is everything before the entry of its vector clock.  *)
(***************************************************************************)
KnownPrefix == [n \in Node |-> [o \in Node |-> NextID(myStatus[n], o) - 1]]
Replication == INSTANCE PrefixReplication WITH known <- KnownPrefix

\* Every change of a vector clock is an origin publishing or a node learning
\* what the origin has published: storeMessage, mongering and anti-entropy
\* together implement the abstract replication of prefixes.
ImplementsReplication == Replication!Spec

-----------------------------------------------------------------------------
(***************************************************************************)
(* Fairness.  Goroutines that can run do run.  The ticker of anti-entropy  *)
(* keeps ticking and its random peer is every peer now and then.  Links    *)
(* are fair-lossy: a message, and the status a node currently has, get     *)
(* through to the handler if they are sent again and again.                *)
(***************************************************************************)
Linked(n, a) == a \in InitPeers[n] \/ n \in InitPeers[a]

ReceiveMessage(s, d, i) ==
  \E p \in net : p.src = s /\ p.type = "gossip" /\ p.msg.id = i /\ ReceiveGossip(d, p)

ReceiveCurrentStatus(s, d) ==
  \E p \in net : /\ p.type = "status" /\ p.src = s /\ p.want = myStatus[s]
                 /\ ChooseForPeer(d, p) \/ AnswerPeer(d, p)

Fairness ==
  /\ \A n \in Source, c \in Creator :
       WF_vars(AddSeqID(n, c) \/ StoreCreated(n, c) \/ FinishCreate(n, c))
  /\ \A n \in Node :
       /\ WF_vars(\E h \in handling[n] : FinishGossip(n, h))
       /\ WF_vars(\E q \in pushing[n] : PushToPeer(n, q))
  /\ \A n, a \in Node : Linked(n, a) =>
       /\ WF_vars(AntiEntropy(n, a))
       /\ SF_vars(ReceiveCurrentStatus(n, a))
       /\ \A i \in 1 .. MaxID : SF_vars(ReceiveMessage(n, a, i))

FairSpec == Spec /\ Fairness

\* Anti-entropy reaches everyone: a message that its origin counts as known
\* is eventually counted as known by every node, although mongering may stop
\* at once, packets are lost, duplicated and reordered, and nodes may begin
\* without knowing their neighbours.
Convergence ==
  \A o \in Source : \A n \in Node \ {o} : \A i \in 1 .. MaxID :
    (NextID(myStatus[o], o) > i) ~> (NextID(myStatus[n], o) > i)
=============================================================================
