--------------------------- MODULE Gossip_proofs ----------------------------
(***************************************************************************)
(* Theorems about Gossip, for every set of nodes, creating goroutines,     *)
(* contents, initial neighbours and every value of the bounds.             *)
(***************************************************************************)
EXTENDS Gossip, TLAPS

-----------------------------------------------------------------------------
(***************************************************************************)
(* Type correctness.                                                       *)
(***************************************************************************)

\* updateStatus leaves an entry that is a number.
LEMMA UpdateStatusType ==
  ASSUME NEW vc \in VectorClock, NEW S, NEW o \in Node, NEW id, NEW new \in 0 .. (MaxID + 1)
  PROVE  [vc EXCEPT ![o] = new] \in VectorClock
BY GossipAssumption DEF VectorClock

\* What is in flight after a send was in flight before it or is sent.
LEMMA SentSubset ==
  ASSUME NEW N, NEW pkts
  PROVE  Sent(N, pkts) \subseteq N \cup pkts
BY DEF Sent

\* Storing a message adds that message or nothing.
LEMMA LoadOrStoreSubset ==
  ASSUME NEW S, NEW m
  PROVE  /\ S \subseteq LoadOrStore(S, m)
         /\ LoadOrStore(S, m) \subseteq S \cup {m}
BY DEF LoadOrStore

LEMMA StartMongeringSubset ==
  ASSUME NEW G, NEW m, NEW s
  PROVE  StartMongering(G, m, s) \subseteq G \cup {[msg |-> m, last |-> s]}
BY DEF StartMongering

LEMMA ReadFromSubset ==
  ASSUME NEW p, NEW N \in ReadFrom(p)
  PROVE  N \subseteq net
BY DEF ReadFrom

LEMMA InitTypeOK == Init => TypeOK
BY GossipAssumption
   DEF Init, TypeOK, CreatorState, VectorClock, MsgID, NoEntry

LEMMA NextTypeOK == TypeOK /\ [Next]_vars => TypeOK'
<1> SUFFICES ASSUME TypeOK, [Next]_vars PROVE TypeOK'
  OBVIOUS
<1> USE GossipAssumption
<1>1. ASSUME NEW n \in Source, NEW c \in Creator, NEW b \in Body, LoadSeqID(n, c, b)
      PROVE  TypeOK'
  BY <1>1 DEF LoadSeqID, TypeOK, CreatorState, MsgID
<1>2. ASSUME NEW n \in Source, NEW c \in Creator, AddSeqID(n, c)
      PROVE  TypeOK'
  <2>1. creating[n][c] \in [pc : {"loaded"}, id : MsgID, body : Body]
    BY <1>2 DEF AddSeqID, TypeOK, CreatorState
  <2>2. [creating[n][c] EXCEPT !.pc = "added"] \in CreatorState
    BY <2>1 DEF CreatorState
  <2>3. creating' \in [Node -> [Creator -> CreatorState]]
    BY <1>2, <2>2 DEF AddSeqID, TypeOK
  <2>4. seqID' \in [Node -> MsgID]
    BY <1>2 DEF AddSeqID, TypeOK, MsgID
  <2> QED
    BY <1>2, <2>3, <2>4 DEF AddSeqID, TypeOK
<1>3. ASSUME NEW n \in Source, NEW c \in Creator, StoreCreated(n, c)
      PROVE  TypeOK'
  <2>1. creating[n][c] \in [pc : {"added"}, id : MsgID, body : Body]
    BY <1>3 DEF StoreCreated, TypeOK, CreatorState
  <2>2. Created(n, c) \in Message
    BY <2>1 DEF Created, Message
  <2>3. LoadOrStore(messageStorage[n], Created(n, c)) \in SUBSET Message
    BY <2>2, LoadOrStoreSubset DEF TypeOK
  <2> QED
    BY <1>3, <2>1, <2>3 DEF StoreCreated, TypeOK, CreatorState
<1>4. ASSUME NEW n \in Source, NEW c \in Creator, FinishCreate(n, c)
      PROVE  TypeOK'
  <2>1. creating[n][c] \in [pc : {"stored"}, id : MsgID, body : Body]
    BY <1>4 DEF FinishCreate, TypeOK, CreatorState
  <2>2. StartMongering(mongering[n], Created(n, c), n) \in SUBSET Mongerer
    BY <2>1, StartMongeringSubset DEF Created, Message, Mongerer, TypeOK
  <2>3. myStatus' \in [Node -> VectorClock]
    BY <1>4 DEF FinishCreate, TypeOK, VectorClock
  <2> QED
    BY <1>4, <2>2, <2>3 DEF FinishCreate, TypeOK, CreatorState
<1>5. ASSUME NEW p \in net, ReceiveGossip(p.dst, p)
      PROVE  TypeOK'
  <2>1. p \in [type : {"gossip"}, src : Node, dst : Node, msg : Message]
    BY <1>5 DEF ReceiveGossip, TypeOK, Packet
  <2>2. peers' \in [Node -> SUBSET Node]
    BY <1>5, <2>1 DEF ReceiveGossip, AddPeer, TypeOK
  <2>3. StatusPacket(p.dst, p.src) \in Packet
    BY <2>1 DEF StatusPacket, Packet, TypeOK
  <2>4. net' \subseteq Packet
    BY <1>5, <2>3, SentSubset, ReadFromSubset DEF ReceiveGossip, TypeOK
  <2>5. LoadOrStore(messageStorage[p.dst], p.msg) \in SUBSET Message
    BY <2>1, LoadOrStoreSubset DEF TypeOK
  <2>6. [msg |-> p.msg, src |-> p.src,
         known |-> Holds(messageStorage[p.dst], p.msg.origin, p.msg.id)] \in Handler
    BY <2>1 DEF Handler, Holds
  <2>7. messageStorage' \in [Node -> SUBSET Message]
    BY <1>5, <2>1, <2>5 DEF ReceiveGossip, TypeOK
  <2>8. handling' \in [Node -> SUBSET Handler]
    BY <1>5, <2>1, <2>6 DEF ReceiveGossip, TypeOK
  <2> QED
    BY <1>5, <2>2, <2>4, <2>7, <2>8 DEF ReceiveGossip, TypeOK
<1>6. ASSUME NEW n \in Node, NEW h \in handling[n], FinishGossip(n, h)
      PROVE  TypeOK'
  <2>1. h \in Handler
    BY DEF TypeOK
  <2>2. StartMongering(mongering[n], h.msg, h.src) \in SUBSET Mongerer
    BY <2>1, StartMongeringSubset DEF Handler, Mongerer, TypeOK
  <2>3. myStatus' \in [Node -> VectorClock]
    BY <1>6, <2>1 DEF FinishGossip, TypeOK, VectorClock, Handler, Message
  <2>4. StatusPacket(n, h.src)' \in Packet
    BY <2>1, <2>3 DEF StatusPacket, Packet, Handler
  <2>5. net' \subseteq Packet
    BY <1>6, <2>4, SentSubset DEF FinishGossip, TypeOK
  <2> QED
    BY <1>6, <2>2, <2>3, <2>5 DEF FinishGossip, TypeOK
<1>7. ASSUME NEW p \in net, ChooseForPeer(p.dst, p)
      PROVE  TypeOK'
  <2>1. p \in [type : {"status"}, src : Node, dst : Node, want : VectorClock]
    BY <1>7 DEF ChooseForPeer, TakesStatus, TypeOK, Packet
  <2>2. peers' \in [Node -> SUBSET Node]
    BY <1>7, <2>1 DEF ChooseForPeer, TakesStatus, AddPeer, TypeOK
  <2>3. \A ps \in getPeerStatusForPeer(myStatus[p.dst], p.want) :
          [dst |-> p.src, origin |-> ps.origin, id |-> ps.id] \in Push
    BY <2>1 DEF getPeerStatusForPeer, NextID, NoEntry, VectorClock, Push, MsgID
  <2>4. pushing' \in [Node -> SUBSET Push]
    BY <1>7, <2>1, <2>3 DEF ChooseForPeer, TypeOK
  <2>5. net' \subseteq Packet
    BY <1>7, ReadFromSubset DEF ChooseForPeer, TypeOK
  <2> QED
    BY <1>7, <2>2, <2>4, <2>5 DEF ChooseForPeer, TypeOK
<1>8. ASSUME NEW n \in Node, NEW q \in pushing[n], PushToPeer(n, q)
      PROVE  TypeOK'
  <2>1. q \in Push
    BY DEF TypeOK
  <2>2. \A m \in messageStorage[n] : GossipPacket(n, q.dst, m) \in Packet
    BY <2>1 DEF GossipPacket, Packet, Push, TypeOK
  <2>3. net' \subseteq Packet
    BY <1>8, <2>2, SentSubset DEF PushToPeer, TypeOK
  <2> QED
    BY <1>8, <2>3 DEF PushToPeer, TypeOK
<1>9. ASSUME NEW p \in net, AnswerPeer(p.dst, p)
      PROVE  TypeOK'
  <2>1. p \in [type : {"status"}, src : Node, dst : Node, want : VectorClock]
    BY <1>9 DEF AnswerPeer, TakesStatus, TypeOK, Packet
  <2>2. peers' \in [Node -> SUBSET Node]
    BY <1>9, <2>1 DEF AnswerPeer, TakesStatus, AddPeer, TypeOK
  <2>3. StatusPacket(p.dst, p.src) \in Packet
    BY <2>1 DEF StatusPacket, Packet, TypeOK
  <2>4. net' \subseteq Packet
    BY <1>9, <2>3, SentSubset, ReadFromSubset DEF AnswerPeer, TypeOK
  <2> QED
    BY <1>9, <2>2, <2>4 DEF AnswerPeer, TypeOK
<1>10. ASSUME NEW n \in Node, NEW a \in peers[n], AntiEntropy(n, a)
       PROVE  TypeOK'
  <2>1. StatusPacket(n, a) \in Packet
    BY DEF StatusPacket, Packet, TypeOK
  <2> QED
    BY <1>10, <2>1, SentSubset DEF AntiEntropy, TypeOK
<1>11. ASSUME NEW n \in Node, NEW g \in mongering[n], NEW a \in peers[n], MongerTo(n, g, a)
       PROVE  TypeOK'
  <2>1. g \in Mongerer /\ a \in Node
    BY DEF TypeOK
  <2>2. GossipPacket(n, a, g.msg) \in Packet /\ [g EXCEPT !.last = a] \in Mongerer
    BY <2>1 DEF GossipPacket, Packet, Mongerer
  <2>3. net' \subseteq Packet
    BY <1>11, <2>2, SentSubset DEF MongerTo, TypeOK
  <2>4. PICK next \in {{}, {[g EXCEPT !.last = a]}} :
          mongering' = [mongering EXCEPT ![n] = (@ \ {g}) \cup next]
    BY <1>11 DEF MongerTo
  <2>5. (mongering[n] \ {g}) \cup next \in SUBSET Mongerer
    BY <2>2 DEF TypeOK
  <2>6. mongering' \in [Node -> SUBSET Mongerer]
    BY <2>4, <2>5 DEF TypeOK
  <2> QED
    BY <1>11, <2>3, <2>6 DEF MongerTo, TypeOK
<1>12. ASSUME NEW n \in Node, NEW g \in mongering[n], MongerReturn(n, g)
       PROVE  TypeOK'
  BY <1>12 DEF MongerReturn, TypeOK
<1>13. ASSUME NEW p \in net, Lose(p)
       PROVE  TypeOK'
  BY <1>13 DEF Lose, TypeOK
<1>14. CASE UNCHANGED vars
  BY <1>14 DEF vars, TypeOK
<1> QED
  BY <1>1, <1>2, <1>3, <1>4, <1>5, <1>6, <1>7, <1>8, <1>9, <1>10, <1>11, <1>12, <1>13, <1>14
     DEF Next, Create, Receive

\* Every map, goroutine and packet of the program keeps its shape.
THEOREM TypeCorrect == Spec => []TypeOK
BY InitTypeOK, NextTypeOK, PTL DEF Spec

-----------------------------------------------------------------------------
(***************************************************************************)
(* The vector clock.  StatusIsLeastUnknown is inductive with the types and *)
(* the fact that an entry, once made, is past the first id.                *)
(***************************************************************************)
EntryIsPastFirst == \A n, o \in Node : myStatus[n][o] # 1

ClockInv == TypeOK /\ StatusIsLeastUnknown /\ EntryIsPastFirst

\* Storage only gains messages.
LEMMA HoldsMonotone ==
  ASSUME NEW S, NEW T, S \subseteq T, NEW o, NEW i, Holds(S, o, i)
  PROVE  Holds(T, o, i)
BY DEF Holds

\* The entry updateStatus leaves: it does not go back, what it skips is
\* stored, and if it is itself stored then it was so before, past the id.
LEMMA UpdateStatusEffect ==
  ASSUME NEW vc \in VectorClock, NEW S, NEW o \in Node, NEW id \in MsgID,
         NEW new \in Nat, updateStatus(vc, S, o, id, new),
         NEW wc, wc = [vc EXCEPT ![o] = new]
  PROVE  /\ vc[o] <= wc[o]
         /\ NextID(vc, o) <= NextID(wc, o)
         /\ \A i \in NextID(vc, o) .. (NextID(wc, o) - 1) : Holds(S, o, i)
         /\ Holds(S, o, NextID(wc, o)) => NextID(wc, o) = NextID(vc, o) /\ id < NextID(wc, o)
         /\ vc[o] # 1 => wc[o] # 1
         /\ wc[o] # vc[o] => Holds(S, o, NextID(vc, o)) /\ NextID(wc, o) = new
         /\ \A x \in Node \ {o} : wc[x] = vc[x] /\ NextID(wc, x) = NextID(vc, x)
<1>1. wc[o] = new /\ vc[o] \in Nat /\ \A x \in Node \ {o} : wc[x] = vc[x]
  BY DEF VectorClock
<1>2. CASE Advances(vc, S, o, id)
  BY <1>1, <1>2 DEF updateStatus, Advances, NextID, NoEntry, MsgID
<1>3. CASE ~Advances(vc, S, o, id)
  BY <1>1, <1>3 DEF updateStatus, Advances, NextID, NoEntry, MsgID
<1> QED
  BY <1>2, <1>3

\* Node n has a pending update of (o, i).
Pending(n, o, i) == UpdatePending(handling[n], creating[n], o = n, o, i)

\* What ClockInv says of the clock of one node for one origin.
ClockRight(S, H, C, own, vc, o) ==
  /\ \A i \in 1 .. (NextID(vc, o) - 1) : Holds(S, o, i)
  /\ Holds(S, o, NextID(vc, o)) => UpdatePending(H, C, own, o, NextID(vc, o))

LEMMA StatusIsClockRight ==
  StatusIsLeastUnknown <=>
    \A n, o \in Node :
      ClockRight(messageStorage[n], handling[n], creating[n], o = n, myStatus[n], o)
BY DEF StatusIsLeastUnknown, ClockRight

\* Entries are natural numbers, and so are the ids updateStatus starts from.
LEMMA NextIDType ==
  ASSUME NEW vc \in VectorClock, NEW o \in Node
  PROVE  vc[o] \in Nat /\ NextID(vc, o) \in MsgID
BY DEF VectorClock, NextID, NoEntry, MsgID

\* A clock stays right if its entry is the same, the storage gains only
\* messages whose update is pending, and pending updates of others stay.
LEMMA ClockRightFrame ==
  ASSUME NEW S, NEW T, NEW H, NEW G, NEW C, NEW D, NEW own, NEW vc, NEW o,
         ClockRight(S, H, C, own, vc, o),
         S \subseteq T,
         \A i : Holds(T, o, i) => Holds(S, o, i) \/ UpdatePending(G, D, own, o, i),
         \A i : UpdatePending(H, C, own, o, i) => UpdatePending(G, D, own, o, i)
  PROVE  ClockRight(T, G, D, own, vc, o)
BY HoldsMonotone DEF ClockRight

\* The entry that updateStatus changes is right afterwards, although the
\* goroutine that ran it no longer has the update of (o, id) pending.
LEMMA ClockRightUpdate ==
  ASSUME NEW S, NEW H, NEW G, NEW C, NEW D, NEW own,
         NEW vc \in VectorClock, NEW o \in Node, NEW id \in MsgID, NEW new \in Nat,
         ClockRight(S, H, C, own, vc, o),
         updateStatus(vc, S, o, id, new),
         NEW wc \in VectorClock, wc = [vc EXCEPT ![o] = new],
         \A i : UpdatePending(H, C, own, o, i) /\ i # id => UpdatePending(G, D, own, o, i)
  PROVE  ClockRight(S, G, D, own, wc, o) /\ (vc[o] # 1 => wc[o] # 1)
<1>1. /\ NextID(vc, o) <= NextID(wc, o)
      /\ \A i \in NextID(vc, o) .. (NextID(wc, o) - 1) : Holds(S, o, i)
      /\ Holds(S, o, NextID(wc, o)) => NextID(wc, o) = NextID(vc, o) /\ id < NextID(wc, o)
  BY UpdateStatusEffect
<1>2. NextID(vc, o) \in MsgID /\ NextID(wc, o) \in MsgID
  BY NextIDType
<1>3. ASSUME NEW i \in 1 .. (NextID(wc, o) - 1) PROVE Holds(S, o, i)
  <2>1. CASE i < NextID(vc, o)
    <3>1. i \in 1 .. (NextID(vc, o) - 1)
      BY <1>2, <2>1 DEF MsgID
    <3> QED
      BY <3>1 DEF ClockRight
  <2>2. CASE ~(i < NextID(vc, o))
    <3>1. i \in NextID(vc, o) .. (NextID(wc, o) - 1)
      BY <1>2, <2>2 DEF MsgID
    <3> QED
      BY <1>1, <3>1
  <2> QED
    BY <2>1, <2>2
<1>4. ASSUME Holds(S, o, NextID(wc, o))
      PROVE  UpdatePending(G, D, own, o, NextID(wc, o))
  <2>1. NextID(wc, o) = NextID(vc, o) /\ NextID(wc, o) # id
    BY <1>1, <1>2, <1>4 DEF MsgID
  <2>2. UpdatePending(H, C, own, o, NextID(wc, o))
    BY <1>4, <2>1 DEF ClockRight
  <2> QED
    BY <2>1, <2>2
<1>5. vc[o] # 1 => wc[o] # 1
  BY UpdateStatusEffect
<1> QED
  BY <1>3, <1>4, <1>5 DEF ClockRight

LEMMA InitClock == Init => ClockInv
<1> SUFFICES ASSUME Init PROVE ClockInv
  OBVIOUS
<1>1. \A n, o \in Node : NextID(myStatus[n], o) = 1 /\ myStatus[n][o] = 0
  BY DEF Init, NextID, NoEntry
<1>2. \A n, o \in Node : \A i : ~Holds(messageStorage[n], o, i)
  BY DEF Init, Holds
<1>3. StatusIsLeastUnknown
  BY <1>1, <1>2 DEF StatusIsLeastUnknown
<1>4. EntryIsPastFirst
  BY <1>1 DEF EntryIsPastFirst
<1> QED
  BY <1>3, <1>4, InitTypeOK DEF ClockInv

\* A step that leaves the clocks, the storage and the pending updates alone.
LEMMA ClockUnchanged ==
  ASSUME ClockInv, TypeOK', UNCHANGED <<messageStorage, myStatus>>,
         \A n, o \in Node : \A i : Pending(n, o, i) => UpdatePending(handling'[n], creating'[n], o = n, o, i)
  PROVE  ClockInv'
<1>1. ASSUME NEW n \in Node, NEW o \in Node
      PROVE  ClockRight(messageStorage'[n], handling'[n], creating'[n], o = n, myStatus'[n], o)
  <2>1. ClockRight(messageStorage[n], handling[n], creating[n], o = n, myStatus[n], o)
    BY StatusIsClockRight DEF ClockInv
  <2> QED
    BY <2>1, ClockRightFrame DEF Pending
<1>2. StatusIsLeastUnknown'
  BY <1>1 DEF StatusIsLeastUnknown, ClockRight
<1> QED
  BY <1>2 DEF ClockInv, EntryIsPastFirst

\* A step runs updateStatus at node n for (o, id) and ends no other pending
\* update.
UpdatesClock(n, o, id, new) ==
  /\ UNCHANGED messageStorage
  /\ updateStatus(myStatus[n], messageStorage[n], o, id, new)
  /\ myStatus' = [myStatus EXCEPT ![n] = [myStatus[n] EXCEPT ![o] = new]]
  /\ \A m, x \in Node : \A i : Pending(m, x, i) /\ ~(m = n /\ x = o /\ i = id) =>
       UpdatePending(handling'[m], creating'[m], x = m, x, i)

\* Such a step keeps every clock right.
LEMMA ClockUpdate ==
  ASSUME ClockInv, TypeOK', NEW n \in Node, NEW o \in Node, NEW id \in MsgID,
         NEW new \in Nat, UpdatesClock(n, o, id, new)
  PROVE  ClockInv'
<1> USE DEF UpdatesClock
<1>1. /\ myStatus[n] \in VectorClock /\ myStatus'[n] \in VectorClock
      /\ myStatus'[n] = [myStatus[n] EXCEPT ![o] = new]
      /\ \A m \in Node \ {n} : myStatus'[m] = myStatus[m]
  BY DEF ClockInv, TypeOK
<1>2. ASSUME NEW m \in Node, NEW x \in Node
      PROVE  ClockRight(messageStorage[m], handling'[m], creating'[m], x = m, myStatus'[m], x)
  <2>1. ClockRight(messageStorage[m], handling[m], creating[m], x = m, myStatus[m], x)
    BY StatusIsClockRight DEF ClockInv
  <2>2. CASE <<m, x>> = <<n, o>>
    <3>1. \A i : UpdatePending(handling[n], creating[n], o = n, o, i) /\ i # id =>
                 UpdatePending(handling'[n], creating'[n], o = n, o, i)
      BY DEF Pending
    <3> QED
      BY <1>1, <2>1, <2>2, <3>1, ClockRightUpdate
  <2>3. CASE <<m, x>> # <<n, o>>
    <3>1. NextID(myStatus'[m], x) = NextID(myStatus[m], x)
      BY <1>1, <2>3 DEF NextID
    <3>2. ClockRight(messageStorage[m], handling[m], creating[m], x = m, myStatus'[m], x)
      BY <2>1, <3>1 DEF ClockRight
    <3>3. \A i : UpdatePending(handling[m], creating[m], x = m, x, i) =>
                 UpdatePending(handling'[m], creating'[m], x = m, x, i)
      BY <2>3 DEF Pending
    <3> QED
      BY <3>2, <3>3, ClockRightFrame
  <2> QED
    BY <2>2, <2>3
<1>3. StatusIsLeastUnknown'
  BY <1>2 DEF StatusIsLeastUnknown, ClockRight
<1>4. EntryIsPastFirst'
  <2>1. ClockRight(messageStorage[n], handling[n], creating[n], o = n, myStatus[n], o)
    BY StatusIsClockRight DEF ClockInv
  <2>2. \A i : UpdatePending(handling[n], creating[n], o = n, o, i) /\ i # id =>
               UpdatePending(handling'[n], creating'[n], o = n, o, i)
    BY DEF Pending
  <2>3. myStatus[n][o] # 1 => myStatus'[n][o] # 1
    BY <1>1, <2>1, <2>2, ClockRightUpdate
  <2> QED
    BY <1>1, <2>3 DEF ClockInv, EntryIsPastFirst
<1> QED
  BY <1>3, <1>4 DEF ClockInv

\* A step that stores message m at node n with an update of it pending.
LEMMA ClockStore ==
  ASSUME ClockInv, TypeOK', UNCHANGED myStatus,
         NEW n \in Node, NEW m \in Message,
         messageStorage' = [messageStorage EXCEPT ![n] = LoadOrStore(@, m)],
         UpdatePending(handling'[n], creating'[n], m.origin = n, m.origin, m.id),
         \A k, x \in Node : \A i : Pending(k, x, i) =>
           UpdatePending(handling'[k], creating'[k], x = k, x, i)
  PROVE  ClockInv'
<1>1. ASSUME NEW k \in Node, NEW x \in Node
      PROVE  ClockRight(messageStorage'[k], handling'[k], creating'[k], x = k, myStatus'[k], x)
  <2>1. ClockRight(messageStorage[k], handling[k], creating[k], x = k, myStatus[k], x)
    BY StatusIsClockRight DEF ClockInv
  <2>2. messageStorage[k] \subseteq messageStorage'[k]
    BY LoadOrStoreSubset DEF ClockInv, TypeOK
  <2>3. messageStorage'[k] \subseteq messageStorage[k] \cup (IF k = n THEN {m} ELSE {})
    BY LoadOrStoreSubset DEF ClockInv, TypeOK
  <2>4. ASSUME NEW i, Holds(messageStorage'[k], x, i)
        PROVE  \/ Holds(messageStorage[k], x, i)
               \/ UpdatePending(handling'[k], creating'[k], x = k, x, i)
    <3>1. Holds(messageStorage[k], x, i) \/ (k = n /\ m.origin = x /\ m.id = i)
      BY <2>3, <2>4 DEF Holds
    <3> QED
      BY <3>1
  <2> QED
    BY <2>1, <2>2, <2>4, ClockRightFrame DEF Pending
<1>2. StatusIsLeastUnknown'
  BY <1>1 DEF StatusIsLeastUnknown, ClockRight
<1> QED
  BY <1>2 DEF ClockInv, EntryIsPastFirst

LEMMA NextClock == ClockInv /\ [Next]_vars => ClockInv'
<1> SUFFICES ASSUME ClockInv, [Next]_vars PROVE ClockInv'
  OBVIOUS
<1> USE GossipAssumption
<1>a. TypeOK /\ TypeOK'
  BY NextTypeOK DEF ClockInv
<1>1. ASSUME NEW n \in Source, NEW c \in Creator, NEW b \in Body, LoadSeqID(n, c, b)
      PROVE  ClockInv'
  BY <1>a, <1>1, ClockUnchanged DEF LoadSeqID, Pending, UpdatePending, TypeOK
<1>2. ASSUME NEW n \in Source, NEW c \in Creator, AddSeqID(n, c)
      PROVE  ClockInv'
  <2>1. \A k \in Node : \A d \in Creator : creating[k][d].pc = "stored" =>
          creating'[k][d] = creating[k][d]
    BY <1>a, <1>2 DEF AddSeqID, TypeOK
  <2> QED
    BY <1>a, <1>2, <2>1, ClockUnchanged DEF AddSeqID, Pending, UpdatePending, TypeOK
<1>3. ASSUME NEW n \in Source, NEW c \in Creator, StoreCreated(n, c)
      PROVE  ClockInv'
  <2>1. creating[n][c] \in [pc : {"added"}, id : MsgID, body : Body]
    BY <1>a, <1>3 DEF StoreCreated, TypeOK, CreatorState
  <2>2. Created(n, c) \in Message /\ Created(n, c).origin = n
        /\ Created(n, c).id = creating[n][c].id
    BY <2>1 DEF Created, Message
  <2>3. \A k \in Node : \A d \in Creator : creating[k][d].pc = "stored" =>
          creating'[k][d] = creating[k][d]
    BY <1>a, <1>3 DEF StoreCreated, TypeOK
  <2>4. creating'[n][c].pc = "stored" /\ creating'[n][c].id = creating[n][c].id
    BY <1>a, <1>3, <2>1 DEF StoreCreated, TypeOK
  <2>5. \A k, x \in Node : \A i : Pending(k, x, i) =>
          UpdatePending(handling'[k], creating'[k], x = k, x, i)
    BY <1>3, <2>3 DEF StoreCreated, Pending, UpdatePending
  <2>6. UpdatePending(handling'[n], creating'[n], Created(n, c).origin = n,
                      Created(n, c).origin, Created(n, c).id)
    BY <2>2, <2>4 DEF UpdatePending
  <2>7. /\ UNCHANGED myStatus
        /\ messageStorage' = [messageStorage EXCEPT ![n] = LoadOrStore(@, Created(n, c))]
    BY <1>3 DEF StoreCreated
  <2> QED
    BY <1>a, <2>2, <2>5, <2>6, <2>7, ClockStore
<1>4. ASSUME NEW n \in Source, NEW c \in Creator, FinishCreate(n, c)
      PROVE  ClockInv'
  <2>1. creating[n][c].pc = "stored" /\ creating[n][c].id \in MsgID
    BY <1>a, <1>4 DEF FinishCreate, TypeOK, CreatorState
  <2>2. PICK new \in 0 .. (MaxID + 1) :
          /\ updateStatus(myStatus[n], messageStorage[n], n, creating[n][c].id, new)
          /\ myStatus' = [myStatus EXCEPT ![n][n] = new]
    BY <1>4 DEF FinishCreate
  <2>3. \A k \in Node : \A d \in Creator : <<k, d>> # <<n, c>> =>
          creating'[k][d] = creating[k][d]
    BY <1>a, <1>4 DEF FinishCreate, TypeOK
  <2>4. \A k, x \in Node : \A i : Pending(k, x, i) /\ ~(k = n /\ x = n /\ i = creating[n][c].id) =>
          UpdatePending(handling'[k], creating'[k], x = k, x, i)
    BY <1>4, <2>3 DEF FinishCreate, Pending, UpdatePending
  <2>5. UNCHANGED messageStorage
    BY <1>4 DEF FinishCreate
  <2> QED
    <3>1. n \in Node /\ new \in Nat
      BY <2>2
    <3>2. myStatus' = [myStatus EXCEPT ![n] = [myStatus[n] EXCEPT ![n] = new]]
      BY <2>2
    <3>3. UpdatesClock(n, n, creating[n][c].id, new)
      BY <2>2, <2>4, <2>5, <3>2 DEF UpdatesClock
    <3> QED
      BY <1>a, <2>1, <3>1, <3>3, ClockUpdate
<1>5. ASSUME NEW p \in net, ReceiveGossip(p.dst, p)
      PROVE  ClockInv'
  <2>1. p \in [type : {"gossip"}, src : Node, dst : Node, msg : Message]
    BY <1>a, <1>5 DEF ReceiveGossip, TypeOK, Packet
  <2>2. CASE p.msg.origin = p.dst
    BY <1>a, <1>5, <2>2, ClockUnchanged DEF ReceiveGossip, Pending, UpdatePending
  <2>3. CASE p.msg.origin # p.dst
    <3> DEFINE h == [msg |-> p.msg, src |-> p.src,
                     known |-> Holds(messageStorage[p.dst], p.msg.origin, p.msg.id)]
    <3>0. h.msg = p.msg /\ handling' = [handling EXCEPT ![p.dst] = @ \cup {h}]
      BY <1>5, <2>3 DEF ReceiveGossip
    <3> HIDE DEF h
    <3>1. \E x \in handling'[p.dst] : x.msg = p.msg
      BY <1>a, <2>1, <3>0 DEF TypeOK
    <3>2. \A k \in Node : handling[k] \subseteq handling'[k]
      BY <1>a, <2>1, <3>0 DEF TypeOK
    <3>3. UpdatePending(handling'[p.dst], creating'[p.dst], p.msg.origin = p.dst,
                        p.msg.origin, p.msg.id)
      BY <3>1 DEF UpdatePending
    <3>4. \A k, x \in Node : \A i : Pending(k, x, i) =>
            UpdatePending(handling'[k], creating'[k], x = k, x, i)
      BY <1>5, <3>2 DEF ReceiveGossip, Pending, UpdatePending
    <3>5. /\ UNCHANGED myStatus
          /\ messageStorage' = [messageStorage EXCEPT ![p.dst] = LoadOrStore(@, p.msg)]
      BY <1>5, <2>3 DEF ReceiveGossip
    <3> QED
      BY <1>a, <2>1, <3>3, <3>4, <3>5, ClockStore
  <2> QED
    BY <2>2, <2>3
<1>6. ASSUME NEW n \in Node, NEW h \in handling[n], FinishGossip(n, h)
      PROVE  ClockInv'
  <2>1. h.msg.origin \in Node /\ h.msg.id \in MsgID
    BY <1>a DEF TypeOK, Handler, Message
  <2>2. PICK new \in 0 .. (MaxID + 1) :
          /\ updateStatus(myStatus[n], messageStorage[n], h.msg.origin, h.msg.id, new)
          /\ myStatus' = [myStatus EXCEPT ![n][h.msg.origin] = new]
    BY <1>6 DEF FinishGossip
  <2>3. handling' = [handling EXCEPT ![n] = @ \ {h}] /\ UNCHANGED <<creating, messageStorage>>
    BY <1>6 DEF FinishGossip
  <2>4. \A k, x \in Node : \A i : Pending(k, x, i) /\ ~(k = n /\ x = h.msg.origin /\ i = h.msg.id) =>
          UpdatePending(handling'[k], creating'[k], x = k, x, i)
    BY <1>a, <2>3 DEF Pending, UpdatePending, TypeOK
  <2> QED
    <3>1. new \in Nat /\ UNCHANGED messageStorage
      BY <2>2, <2>3
    <3>2. myStatus' = [myStatus EXCEPT ![n] = [myStatus[n] EXCEPT ![h.msg.origin] = new]]
      BY <2>2
    <3>3. UpdatesClock(n, h.msg.origin, h.msg.id, new)
      BY <2>2, <2>3, <2>4, <3>2 DEF UpdatesClock
    <3> QED
      BY <1>a, <2>1, <3>1, <3>3, ClockUpdate
<1>7. CASE UNCHANGED <<creating, messageStorage, myStatus, handling>>
  BY <1>a, <1>7, ClockUnchanged DEF Pending
<1> QED
  <2>1. ASSUME Next,
               ~UNCHANGED <<creating, messageStorage, myStatus, handling>>
        PROVE  \/ \E n \in Source, c \in Creator : Create(n, c)
               \/ \E p \in net : ReceiveGossip(p.dst, p)
               \/ \E n \in Node : \E h \in handling[n] : FinishGossip(n, h)
    BY <2>1 DEF Next, Receive, ChooseForPeer, AnswerPeer, PushToPeer, AntiEntropy,
                MongerTo, MongerReturn, Lose
  <2> QED
    BY <1>1, <1>2, <1>3, <1>4, <1>5, <1>6, <1>7, <2>1 DEF Create, vars

\* The comment of updateStatus is right: every entry of a vector clock is the
\* least unknown id, up to the update a goroutine still has to run.
THEOREM StatusCorrect == Spec => []StatusIsLeastUnknown
<1>1. Init => ClockInv
  BY InitClock
<1>2. ClockInv /\ [Next]_vars => ClockInv'
  BY NextClock
<1>3. ClockInv => StatusIsLeastUnknown
  BY DEF ClockInv
<1> QED
  BY <1>1, <1>2, <1>3, PTL DEF Spec

-----------------------------------------------------------------------------
(***************************************************************************)
(* Storage and clocks only grow.                                           *)
(***************************************************************************)

\* The two ways a step changes the storage.
LEMMA StorageStep ==
  ASSUME TypeOK, [Next]_vars
  PROVE  \/ UNCHANGED messageStorage
         \/ \E n \in Node, m \in Message :
              /\ messageStorage' = [messageStorage EXCEPT ![n] = LoadOrStore(@, m)]
              /\ UNCHANGED <<myStatus, pushing, mongering>>
              /\ m.origin = n \/ \E p \in net : p.type = "gossip" /\ p.msg = m
<1>1. ASSUME NEW n \in Source, NEW c \in Creator, StoreCreated(n, c)
      PROVE  /\ Created(n, c) \in Message /\ Created(n, c).origin = n
             /\ n \in Node
  <2>1. creating[n][c] \in [pc : {"added"}, id : MsgID, body : Body] /\ n \in Node
    BY <1>1, GossipAssumption DEF StoreCreated, TypeOK, CreatorState
  <2> QED
    BY <2>1 DEF Created, Message
<1>2. ASSUME NEW p \in net, ReceiveGossip(p.dst, p)
      PROVE  p \in [type : {"gossip"}, src : Node, dst : Node, msg : Message]
  BY <1>2 DEF ReceiveGossip, TypeOK, Packet
<1>3. ASSUME Next, messageStorage' # messageStorage
      PROVE  \/ \E n \in Source, c \in Creator : StoreCreated(n, c)
             \/ \E p \in net : ReceiveGossip(p.dst, p)
  BY <1>3 DEF Next, Create, Receive, LoadSeqID, AddSeqID, FinishCreate, FinishGossip,
              ChooseForPeer, AnswerPeer, PushToPeer, AntiEntropy, MongerTo, MongerReturn, Lose
<1>4. ASSUME NEW n \in Source, NEW c \in Creator, StoreCreated(n, c)
      PROVE  /\ messageStorage' = [messageStorage EXCEPT ![n] = LoadOrStore(@, Created(n, c))]
             /\ UNCHANGED <<myStatus, pushing, mongering>>
  BY <1>4 DEF StoreCreated
<1>5. ASSUME NEW p \in net, ReceiveGossip(p.dst, p), messageStorage' # messageStorage
      PROVE  /\ messageStorage' = [messageStorage EXCEPT ![p.dst] = LoadOrStore(@, p.msg)]
             /\ UNCHANGED <<myStatus, pushing, mongering>>
  BY <1>5 DEF ReceiveGossip
<1> QED
  BY <1>1, <1>2, <1>3, <1>4, <1>5 DEF vars

\* The two ways a step changes a clock: updateStatus for a message that a
\* goroutine of the node has stored.
LEMMA ClockStep ==
  ASSUME TypeOK, [Next]_vars
  PROVE  \/ UNCHANGED myStatus
         \/ /\ UNCHANGED <<messageStorage, pushing, seqID>>
            /\ \E n, o \in Node, id \in MsgID, new \in Nat :
                 /\ updateStatus(myStatus[n], messageStorage[n], o, id, new)
                 /\ myStatus' = [myStatus EXCEPT ![n][o] = new]
<1>1. ASSUME NEW n \in Source, NEW c \in Creator, FinishCreate(n, c)
      PROVE  /\ UNCHANGED <<messageStorage, pushing, seqID>>
             /\ \E x, o \in Node, id \in MsgID, new \in Nat :
                  /\ updateStatus(myStatus[x], messageStorage[x], o, id, new)
                  /\ myStatus' = [myStatus EXCEPT ![x][o] = new]
  <2>1. creating[n][c].id \in MsgID /\ n \in Node
    BY <1>1, GossipAssumption DEF FinishCreate, TypeOK, CreatorState
  <2>2. PICK new \in 0 .. (MaxID + 1) :
          /\ updateStatus(myStatus[n], messageStorage[n], n, creating[n][c].id, new)
          /\ myStatus' = [myStatus EXCEPT ![n][n] = new]
    BY <1>1 DEF FinishCreate
  <2>3. new \in Nat
    BY <2>2
  <2> QED
    BY <1>1, <2>1, <2>2, <2>3 DEF FinishCreate
<1>2. ASSUME NEW n \in Node, NEW h \in handling[n], FinishGossip(n, h)
      PROVE  /\ UNCHANGED <<messageStorage, pushing, seqID>>
             /\ \E x, o \in Node, id \in MsgID, new \in Nat :
                  /\ updateStatus(myStatus[x], messageStorage[x], o, id, new)
                  /\ myStatus' = [myStatus EXCEPT ![x][o] = new]
  <2>1. h.msg.origin \in Node /\ h.msg.id \in MsgID
    BY DEF TypeOK, Handler, Message
  <2>2. PICK new \in 0 .. (MaxID + 1) :
          /\ updateStatus(myStatus[n], messageStorage[n], h.msg.origin, h.msg.id, new)
          /\ myStatus' = [myStatus EXCEPT ![n][h.msg.origin] = new]
    BY <1>2 DEF FinishGossip
  <2>3. new \in Nat
    BY <2>2
  <2> QED
    BY <1>2, <2>1, <2>2, <2>3 DEF FinishGossip
<1>3. ASSUME Next, myStatus' # myStatus
      PROVE  \/ \E n \in Source, c \in Creator : FinishCreate(n, c)
             \/ \E n \in Node : \E h \in handling[n] : FinishGossip(n, h)
  BY <1>3 DEF Next, Create, Receive, LoadSeqID, AddSeqID, StoreCreated, ReceiveGossip,
              ChooseForPeer, AnswerPeer, PushToPeer, AntiEntropy, MongerTo, MongerReturn, Lose
<1> QED
  BY <1>1, <1>2, <1>3 DEF vars

LEMMA StepGrows ==
  ASSUME TypeOK, [Next]_vars
  PROVE  Grows
<1>1. ASSUME NEW n \in Node
      PROVE  messageStorage[n] \subseteq messageStorage'[n]
  BY StorageStep, LoadOrStoreSubset DEF TypeOK
<1>2. ASSUME NEW n \in Node, NEW o \in Node
      PROVE  myStatus[n][o] <= myStatus'[n][o]
  <2>1. myStatus[n] \in VectorClock /\ myStatus[n][o] \in Nat
    BY NextIDType DEF TypeOK
  <2>2. CASE UNCHANGED myStatus
    BY <2>1, <2>2
  <2>3. ASSUME NEW k \in Node, NEW x \in Node, NEW id \in MsgID, NEW new \in Nat,
               updateStatus(myStatus[k], messageStorage[k], x, id, new),
               myStatus' = [myStatus EXCEPT ![k][x] = new]
        PROVE  myStatus[n][o] <= myStatus'[n][o]
    <3>1. myStatus'[k] = [myStatus[k] EXCEPT ![x] = new] /\ myStatus[k] \in VectorClock
      BY <2>3 DEF TypeOK
    <3>2. myStatus[k][x] <= myStatus'[k][x]
      <4>1. new = myStatus[k][x] \/ new > NextID(myStatus[k], x)
        BY <2>3 DEF updateStatus
      <4> QED
        BY <2>3, <3>1, <4>1 DEF NextID, NoEntry, VectorClock
    <3>3. CASE n = k /\ o = x
      BY <3>2, <3>3
    <3>4. CASE ~(n = k /\ o = x)
      <4>1. myStatus'[n][o] = myStatus[n][o]
        BY <2>1, <2>3, <3>1, <3>4 DEF TypeOK, VectorClock
      <4> QED
        BY <2>1, <4>1
    <3> QED
      BY <3>3, <3>4
  <2> QED
    BY <2>2, <2>3, ClockStep
<1> QED
  BY <1>1, <1>2 DEF Grows

\* No interleaving of the goroutines in storeMessage drops or replaces a
\* message or moves an entry of a vector clock back.
THEOREM NothingLost == Spec => OnlyGrows
<1>1. Init => TypeOK
  BY InitTypeOK
<1>2. TypeOK /\ [Next]_vars => TypeOK'
  BY NextTypeOK
<1>3. TypeOK /\ [Next]_vars => [Grows]_vars
  BY StepGrows
<1> QED
  BY <1>1, <1>2, <1>3, PTL DEF Spec, OnlyGrows

-----------------------------------------------------------------------------
(***************************************************************************)
(* Answering a status.                                                     *)
(***************************************************************************)
PushInv == ClockInv /\ PushedIsStored

\* What getPeerStatusForPeer chooses is in the storage.
LEMMA ChosenIsStored ==
  ASSUME ClockInv, NEW n \in Node, NEW theirs \in VectorClock,
         NEW ps \in getPeerStatusForPeer(myStatus[n], theirs)
  PROVE  Holds(messageStorage[n], ps.origin, ps.id) /\ ps.id # NextID(myStatus[n], ps.origin)
<1> DEFINE o == ps.origin
           mine == myStatus[n]
<1>1. /\ o \in Node /\ mine[o] # NoEntry /\ ps.id = NextID(theirs, o)
      /\ theirs[o] = NoEntry \/ mine[o] > theirs[o]
  BY DEF getPeerStatusForPeer
<1>2. mine \in VectorClock /\ mine[o] \in Nat /\ theirs[o] \in Nat /\ mine[o] # 1
  BY <1>1, NextIDType DEF ClockInv, TypeOK, EntryIsPastFirst
<1>3. NextID(mine, o) = mine[o] /\ ps.id \in 1 .. (NextID(mine, o) - 1)
  BY <1>1, <1>2 DEF NextID, NoEntry
<1>4. ps.id # NextID(mine, o)
  BY <1>2, <1>3
<1> QED
  BY <1>1, <1>3, <1>4 DEF ClockInv, StatusIsLeastUnknown

\* Only a status that was chosen for adds to what is being pushed.
LEMMA PushingStep ==
  ASSUME TypeOK, [Next]_vars, NEW n \in Node
  PROVE  pushing'[n] \subseteq pushing[n] \/ \E p \in net : ChooseForPeer(p.dst, p)
BY DEF Next, vars, TypeOK, Create, Receive, LoadSeqID, AddSeqID, StoreCreated, FinishCreate,
       ReceiveGossip, FinishGossip, AnswerPeer, PushToPeer, AntiEntropy, MongerTo,
       MongerReturn, Lose

LEMMA NextPush == PushInv /\ [Next]_vars => PushInv'
<1> SUFFICES ASSUME PushInv, [Next]_vars PROVE PushInv'
  OBVIOUS
<1>1. ClockInv /\ ClockInv' /\ TypeOK
  BY NextClock DEF PushInv, ClockInv
<1>2. \A n \in Node : messageStorage[n] \subseteq messageStorage'[n]
  BY <1>1, StepGrows DEF Grows
<1>3. ASSUME NEW n \in Node, NEW q \in pushing[n]
      PROVE  Holds(messageStorage'[n], q.origin, q.id)
  BY <1>2, <1>3, HoldsMonotone DEF PushInv, PushedIsStored
<1>4. ASSUME NEW p \in net, ChooseForPeer(p.dst, p), NEW n \in Node, NEW q \in pushing'[n]
      PROVE  Holds(messageStorage'[n], q.origin, q.id)
  <2>1. p \in [type : {"status"}, src : Node, dst : Node, want : VectorClock]
    BY <1>1, <1>4 DEF ChooseForPeer, TakesStatus, TypeOK, Packet
  <2>2. PICK ps \in getPeerStatusForPeer(myStatus[p.dst], p.want) :
          pushing' = [pushing EXCEPT ![p.dst] = @ \cup
                        {[dst |-> p.src, origin |-> ps.origin, id |-> ps.id]}]
    BY <1>4 DEF ChooseForPeer
  <2>3. Holds(messageStorage[p.dst], ps.origin, ps.id)
    BY <1>1, <2>1, ChosenIsStored
  <2>4. q \in pushing[n] \/ (n = p.dst /\ q.origin = ps.origin /\ q.id = ps.id)
    BY <1>1, <2>1, <2>2 DEF TypeOK
  <2> QED
    BY <1>2, <1>3, <2>3, <2>4, HoldsMonotone
<1>5. PushedIsStored'
  BY <1>1, <1>3, <1>4, PushingStep DEF PushedIsStored
<1> QED
  BY <1>1, <1>5 DEF PushInv

\* handlePeerStatus looks a message up after it has released the lock under
\* which it chose it, and still finds it: the type assertion cannot fail.
THEOREM PushCorrect == Spec => []PushedIsStored
<1>1. Init => PushInv
  BY InitClock DEF Init, PushInv, PushedIsStored
<1>2. PushInv /\ [Next]_vars => PushInv'
  BY NextPush
<1>3. PushInv => PushedIsStored
  BY DEF PushInv
<1> QED
  BY <1>1, <1>2, <1>3, PTL DEF Spec

-----------------------------------------------------------------------------
(***************************************************************************)
(* No clock runs ahead of the origin's own.  A message is away when it is  *)
(* on the network, in the hands of a mongering or handling goroutine, or   *)
(* stored at a node other than its origin.  The origin has stored every    *)
(* such message and run updateStatus for it, so the entry of the origin is *)
(* never the id of a message that is away.                                 *)
(***************************************************************************)
IsAway(m) ==
  \/ \E p \in net : p.type = "gossip" /\ p.msg = m
  \/ \E n \in Node :
       \/ \E g \in mongering[n] : g.msg = m
       \/ \E h \in handling[n] : h.msg = m
       \/ m \in messageStorage[n] /\ m.origin # n

Away == {m \in Message : IsAway(m)}

\* The origin o has stored its id i and its clock does not stop there.
Settled(o, i) ==
  Holds(messageStorage[o], o, i) /\ i # NextID(myStatus[o], o)

AwayInv ==
  /\ ClockInv
  /\ \A n \in Node : \A c \in Creator :
       creating[n][c].pc = "stored" => Holds(messageStorage[n], n, creating[n][c].id)
  /\ \A n \in Node : \A q \in pushing[n] : Holds(messageStorage[n], q.origin, q.id)
                                           /\ q.id # NextID(myStatus[n], q.origin)
  /\ \A m \in Away : Settled(m.origin, m.id)

\* What a node has stored and its clock is not waiting for stays so.
LEMMA SettledStays ==
  ASSUME TypeOK, [Next]_vars, NEW n \in Node, NEW o \in Node, NEW i \in MsgID,
         Holds(messageStorage[n], o, i), i # NextID(myStatus[n], o)
  PROVE  Holds(messageStorage'[n], o, i) /\ i # NextID(myStatus'[n], o)
<1>1. Holds(messageStorage'[n], o, i)
  BY StepGrows, HoldsMonotone DEF Grows
<1>2. ASSUME NEW k \in Node, NEW x \in Node, NEW id \in MsgID, NEW new \in Nat,
             updateStatus(myStatus[k], messageStorage[k], x, id, new),
             myStatus' = [myStatus EXCEPT ![k][x] = new]
      PROVE  i # NextID(myStatus'[n], o)
  <2>1. CASE n = k /\ o = x
    <3>1. myStatus'[n][o] = new /\ myStatus[n] \in VectorClock
      BY <1>2, <2>1 DEF TypeOK, VectorClock
    <3>2. CASE Advances(myStatus[n], messageStorage[n], o, id)
      <4>1. new > NextID(myStatus[n], o) /\ ~Holds(messageStorage[n], o, new)
        BY <1>2, <2>1, <3>2 DEF updateStatus
      <4>2. NextID(myStatus'[n], o) = new
        BY <3>1, <4>1, NextIDType DEF NextID, NoEntry, MsgID
      <4> QED
        BY <4>1, <4>2
    <3>3. CASE ~Advances(myStatus[n], messageStorage[n], o, id)
      <4>1. new = myStatus[n][o]
        BY <1>2, <2>1, <3>3 DEF updateStatus
      <4> QED
        BY <3>1, <4>1 DEF NextID
    <3> QED
      BY <3>2, <3>3
  <2>2. CASE ~(n = k /\ o = x)
    <3>1. myStatus'[n][o] = myStatus[n][o]
      BY <1>2, <2>2 DEF TypeOK, VectorClock
    <3> QED
      BY <3>1 DEF NextID
  <2> QED
    BY <2>1, <2>2
<1> QED
  BY <1>1, <1>2, ClockStep

\* updateStatus for a stored id leaves the clock past that id.
LEMMA UpdatedIsSettled ==
  ASSUME NEW vc \in VectorClock, NEW S, NEW o \in Node, NEW id \in MsgID, NEW new \in Nat,
         updateStatus(vc, S, o, id, new), Holds(S, o, id)
  PROVE  id # NextID([vc EXCEPT ![o] = new], o)
<1> DEFINE wc == [vc EXCEPT ![o] = new]
<1>1. Holds(S, o, NextID(wc, o)) => id < NextID(wc, o)
  BY UpdateStatusEffect
<1>2. wc \in VectorClock
  BY DEF VectorClock
<1>3. NextID(wc, o) \in MsgID
  BY <1>2, NextIDType
<1> HIDE DEF wc
<1>4. id # NextID(wc, o)
  BY <1>1, <1>3 DEF MsgID
<1> QED
  BY <1>4 DEF wc

\* A message that is away after a step was away before it, was created by a
\* goroutine that has just run updateStatus, or was pushed by its origin.
LEMMA AwayStep ==
  ASSUME TypeOK, [Next]_vars, NEW m \in Away'
  PROVE  \/ m \in Away
         \/ \E n \in Source, c \in Creator : FinishCreate(n, c) /\ m = Created(n, c)
         \/ \E n \in Node : \E q \in pushing[n] :
              m \in messageStorage[n] /\ m.origin = q.origin /\ m.id = q.id
<1> USE GossipAssumption
<1>0. m \in Message /\ IsAway(m)'
  BY DEF Away
<1>1. CASE \E p \in net' : p.type = "gossip" /\ p.msg = m
  <2>1. PICK p \in net' : p.type = "gossip" /\ p.msg = m
    BY <1>1
  <2>2. CASE p \in net
    BY <1>0, <2>1, <2>2 DEF Away, IsAway
  <2>3. CASE p \notin net
    <3>1. \/ \E n \in Node : \E q \in pushing[n] : PushToPeer(n, q)
          \/ \E n \in Node : \E g \in mongering[n] : \E a \in peers[n] : MongerTo(n, g, a)
      <4>1. Next
        BY <2>3 DEF vars
      <4>2. ASSUME NEW n \in Node, NEW h \in handling[n], FinishGossip(n, h) PROVE FALSE
        BY <2>1, <2>3, <4>2, SentSubset DEF FinishGossip, StatusPacket
      <4>3. ASSUME NEW x \in net, ReceiveGossip(x.dst, x) PROVE FALSE
        BY <2>1, <2>3, <4>3, SentSubset, ReadFromSubset DEF ReceiveGossip, StatusPacket
      <4>4. ASSUME NEW x \in net, AnswerPeer(x.dst, x) PROVE FALSE
        BY <2>1, <2>3, <4>4, SentSubset, ReadFromSubset DEF AnswerPeer, StatusPacket
      <4>5. ASSUME NEW x \in net, ChooseForPeer(x.dst, x) PROVE FALSE
        BY <2>3, <4>5, ReadFromSubset DEF ChooseForPeer
      <4>6. ASSUME NEW n \in Node, NEW a \in peers[n], AntiEntropy(n, a) PROVE FALSE
        BY <2>1, <2>3, <4>6, SentSubset DEF AntiEntropy, StatusPacket
      <4>7. ASSUME NEW x \in net, Lose(x) PROVE FALSE
        BY <2>3, <4>7 DEF Lose
      <4>8. ASSUME NEW n \in Source, NEW c \in Creator, Create(n, c) PROVE FALSE
        BY <2>3, <4>8 DEF Create, LoadSeqID, AddSeqID, StoreCreated, FinishCreate
      <4>9. ASSUME NEW n \in Node, NEW g \in mongering[n], MongerReturn(n, g) PROVE FALSE
        BY <2>3, <4>9 DEF MongerReturn
      <4> QED
        BY <4>1, <4>2, <4>3, <4>4, <4>5, <4>6, <4>7, <4>8, <4>9 DEF Next, Receive
    <3>2. ASSUME NEW n \in Node, NEW q \in pushing[n], PushToPeer(n, q)
          PROVE  m \in messageStorage[n] /\ m.origin = q.origin /\ m.id = q.id
      BY <2>1, <2>3, <3>2, SentSubset DEF PushToPeer, GossipPacket
    <3>3. ASSUME NEW n \in Node, NEW g \in mongering[n], NEW a \in peers[n], MongerTo(n, g, a)
          PROVE  m \in Away
      <4>1. g.msg = m
        BY <2>1, <2>3, <3>3, SentSubset DEF MongerTo, GossipPacket
      <4> QED
        BY <1>0, <4>1 DEF Away, IsAway
    <3> QED
      BY <3>1, <3>2, <3>3
  <2> QED
    BY <2>2, <2>3
<1>2. ASSUME NEW n \in Node, NEW g \in mongering'[n], g.msg = m
      PROVE  \/ m \in Away
             \/ \E k \in Source, c \in Creator : FinishCreate(k, c) /\ m = Created(k, c)
  <2>1. CASE \E x \in mongering[n] : x.msg = m
    BY <1>0, <2>1 DEF Away, IsAway
  <2>2. CASE ~\E x \in mongering[n] : x.msg = m
    <3>1. mongering' # mongering
      BY <1>2, <2>2
    <3>2. \/ \E k \in Source, c \in Creator : FinishCreate(k, c)
          \/ \E k \in Node : \E h \in handling[k] : FinishGossip(k, h)
          \/ \E k \in Node : \E x \in mongering[k] : MongerReturn(k, x)
          \/ \E k \in Node : \E x \in mongering[k] : \E a \in peers[k] : MongerTo(k, x, a)
      BY <3>1 DEF vars, Next, Create, Receive, LoadSeqID, AddSeqID, StoreCreated, ReceiveGossip,
                  ChooseForPeer, AnswerPeer, PushToPeer, AntiEntropy, Lose
    <3>3. ASSUME NEW k \in Source, NEW c \in Creator, FinishCreate(k, c)
          PROVE  m = Created(k, c)
      BY <1>2, <2>2, <3>3, StartMongeringSubset DEF FinishCreate, TypeOK
    <3>4. ASSUME NEW k \in Node, NEW h \in handling[k], FinishGossip(k, h)
          PROVE  m \in Away
      <4>1. h.msg = m
        BY <1>2, <2>2, <3>4, StartMongeringSubset DEF FinishGossip, TypeOK
      <4> QED
        BY <1>0, <4>1 DEF Away, IsAway
    <3>5. ASSUME NEW k \in Node, NEW x \in mongering[k], MongerReturn(k, x)
          PROVE  FALSE
      BY <1>2, <2>2, <3>5 DEF MongerReturn, TypeOK
    <3>6. ASSUME NEW k \in Node, NEW x \in mongering[k], NEW a \in peers[k], MongerTo(k, x, a)
          PROVE  FALSE
      <4>1. x \in Mongerer
        BY DEF TypeOK
      <4>2. [x EXCEPT !.last = a].msg = x.msg
        BY <4>1 DEF Mongerer
      <4>3. PICK next \in {{}, {[x EXCEPT !.last = a]}} :
              mongering' = [mongering EXCEPT ![k] = (@ \ {x}) \cup next]
        BY <3>6 DEF MongerTo
      <4>4. \A y \in next : y.msg = x.msg
        BY <4>2
      <4> HIDE DEF Mongerer
      <4>5. g \in mongering[n] \/ (n = k /\ g \in next)
        BY <1>2, <4>3 DEF TypeOK
      <4> QED
        BY <1>2, <2>2, <4>4, <4>5
    <3> QED
      BY <3>2, <3>3, <3>4, <3>5, <3>6
  <2> QED
    BY <2>1, <2>2
<1>3. ASSUME NEW n \in Node, NEW h \in handling'[n], h.msg = m
      PROVE  m \in Away
  <2>1. CASE \E x \in handling[n] : x.msg = m
    BY <1>0, <2>1 DEF Away, IsAway
  <2>2. CASE ~\E x \in handling[n] : x.msg = m
    <3>1. \/ \E p \in net : ReceiveGossip(p.dst, p)
          \/ \E k \in Node : \E x \in handling[k] : FinishGossip(k, x)
      BY <1>3, <2>2
         DEF vars, Next, Create, Receive, LoadSeqID, AddSeqID, StoreCreated, FinishCreate,
             ChooseForPeer, AnswerPeer, PushToPeer, AntiEntropy, MongerTo, MongerReturn, Lose
    <3>2. ASSUME NEW p \in net, ReceiveGossip(p.dst, p)
          PROVE  m \in Away
      <4> DEFINE x == [msg |-> p.msg, src |-> p.src,
                       known |-> Holds(messageStorage[p.dst], p.msg.origin, p.msg.id)]
      <4>0. x.msg = p.msg /\ handling' = [handling EXCEPT ![p.dst] = @ \cup {x}]
        BY <1>3, <2>2, <3>2 DEF ReceiveGossip
      <4> HIDE DEF x
      <4>1. p.msg = m
        BY <1>3, <2>2, <4>0 DEF TypeOK
      <4>2. p.type = "gossip"
        BY <3>2 DEF ReceiveGossip
      <4> QED
        BY <1>0, <4>1, <4>2 DEF Away, IsAway
    <3>3. ASSUME NEW k \in Node, NEW x \in handling[k], FinishGossip(k, x)
          PROVE  FALSE
      BY <1>3, <2>2, <3>3 DEF FinishGossip, TypeOK
    <3> QED
      BY <3>1, <3>2, <3>3
  <2> QED
    BY <2>1, <2>2
<1>4. ASSUME NEW n \in Node, m \in messageStorage'[n], m.origin # n
      PROVE  m \in Away
  <2>1. CASE m \in messageStorage[n]
    BY <1>0, <1>4, <2>1 DEF Away, IsAway
  <2>2. CASE m \notin messageStorage[n]
    <3>1. PICK k \in Node, x \in Message :
            /\ messageStorage' = [messageStorage EXCEPT ![k] = LoadOrStore(@, x)]
            /\ x.origin = k \/ \E p \in net : p.type = "gossip" /\ p.msg = x
      BY <1>4, <2>2, StorageStep
    <3>2. k = n /\ m = x
      BY <1>4, <2>2, <3>1, LoadOrStoreSubset DEF TypeOK
    <3> QED
      BY <1>0, <1>4, <3>1, <3>2 DEF Away, IsAway
  <2> QED
    BY <2>1, <2>2
<1> QED
  BY <1>0, <1>1, <1>2, <1>3, <1>4 DEF IsAway

LEMMA InitAway == Init => AwayInv
<1> SUFFICES ASSUME Init PROVE AwayInv
  OBVIOUS
<1>1. ClockInv
  BY InitClock
<1>2. \A n \in Node : \A c \in Creator : creating[n][c].pc # "stored"
  BY DEF Init
<1>3. Away = {} /\ \A n \in Node : pushing[n] = {}
  BY DEF Init, Away, IsAway
<1> QED
  BY <1>1, <1>2, <1>3 DEF AwayInv

LEMMA NextAway == AwayInv /\ [Next]_vars => AwayInv'
<1> SUFFICES ASSUME AwayInv, [Next]_vars PROVE AwayInv'
  OBVIOUS
<1> USE GossipAssumption
<1>0. ClockInv /\ ClockInv' /\ TypeOK /\ TypeOK'
  BY NextClock DEF AwayInv, ClockInv
<1>1. ASSUME NEW n \in Node, NEW c \in Creator, creating'[n][c].pc = "stored"
      PROVE  Holds(messageStorage'[n], n, creating'[n][c].id)
  <2>1. CASE creating'[n][c] = creating[n][c]
    BY <1>0, <1>1, <2>1, StepGrows, HoldsMonotone DEF AwayInv, Grows
  <2>2. CASE creating'[n][c] # creating[n][c]
    <3>1. StoreCreated(n, c)
      <4>1. \E k \in Source, d \in Creator : Create(k, d)
        BY <2>2 DEF Next, vars, Receive, ReceiveGossip, FinishGossip, ChooseForPeer,
                    AnswerPeer, PushToPeer, AntiEntropy, MongerTo, MongerReturn, Lose
      <4>2. PICK k \in Source, d \in Creator : Create(k, d)
        BY <4>1
      <4>3. k = n /\ d = c
        <5>1. PICK s : creating' = [creating EXCEPT ![k] = [creating[k] EXCEPT ![d] = s]]
          BY <4>2 DEF Create, LoadSeqID, AddSeqID, StoreCreated, FinishCreate
        <5> QED
          BY <1>0, <2>2, <5>1 DEF TypeOK
      <4>4. ~AddSeqID(n, c)
        <5>1. ASSUME AddSeqID(n, c) PROVE FALSE
          <6>1. creating[n][c] \in [pc : {"loaded"}, id : MsgID, body : Body]
            BY <1>0, <5>1 DEF AddSeqID, TypeOK, CreatorState
          <6> QED
            BY <1>0, <1>1, <5>1, <6>1 DEF AddSeqID, TypeOK
        <5> QED
          BY <5>1
      <4>5. ~FinishCreate(n, c) /\ \A b \in Body : ~LoadSeqID(n, c, b)
        BY <1>0, <1>1 DEF FinishCreate, LoadSeqID, TypeOK
      <4> QED
        BY <4>2, <4>3, <4>4, <4>5 DEF Create
    <3>2. creating[n][c] \in [pc : {"added"}, id : MsgID, body : Body]
      BY <1>0, <3>1 DEF StoreCreated, TypeOK, CreatorState
    <3>3. creating'[n][c].id = creating[n][c].id
      BY <1>0, <3>1, <3>2 DEF StoreCreated, TypeOK
    <3>4. messageStorage'[n] = LoadOrStore(messageStorage[n], Created(n, c))
      BY <1>0, <3>1 DEF StoreCreated, TypeOK
    <3>5. Created(n, c).origin = n /\ Created(n, c).id = creating[n][c].id
      BY DEF Created
    <3> QED
      BY <3>3, <3>4, <3>5 DEF LoadOrStore, Holds
  <2> QED
    BY <2>1, <2>2
<1>2. ASSUME NEW n \in Node, NEW q \in pushing'[n]
      PROVE  Holds(messageStorage'[n], q.origin, q.id) /\ q.id # NextID(myStatus'[n], q.origin)
  <2>1. q \in Push
    BY <1>0 DEF TypeOK
  <2>2. CASE q \in pushing[n]
    BY <1>0, <2>1, <2>2, SettledStays DEF AwayInv, Push
  <2>3. ASSUME q \notin pushing[n]
        PROVE  Holds(messageStorage[n], q.origin, q.id) /\ q.id # NextID(myStatus[n], q.origin)
    <3>1. PICK p \in net : ChooseForPeer(p.dst, p)
      BY <1>0, <2>3, PushingStep
    <3>2. p \in [type : {"status"}, src : Node, dst : Node, want : VectorClock]
      BY <1>0, <3>1 DEF ChooseForPeer, TakesStatus, TypeOK, Packet
    <3>3. PICK ps \in getPeerStatusForPeer(myStatus[p.dst], p.want) :
            pushing' = [pushing EXCEPT ![p.dst] = @ \cup
                          {[dst |-> p.src, origin |-> ps.origin, id |-> ps.id]}]
      BY <3>1 DEF ChooseForPeer
    <3>4. n = p.dst /\ q.origin = ps.origin /\ q.id = ps.id
      BY <1>0, <2>3, <3>2, <3>3 DEF TypeOK
    <3> QED
      BY <1>0, <3>2, <3>4, ChosenIsStored
  <2> QED
    BY <1>0, <2>1, <2>2, <2>3, SettledStays DEF Push
<1>3. ASSUME NEW m \in Away'
      PROVE  Settled(m.origin, m.id)'
  <2>0. m \in Message /\ m.origin \in Node /\ m.id \in MsgID
    BY DEF Away, Message
  <2>1. ASSUME Settled(m.origin, m.id)
        PROVE  Settled(m.origin, m.id)'
    BY <1>0, <2>0, <2>1, SettledStays DEF Settled
  <2>2. CASE m \in Away
    BY <2>1, <2>2 DEF AwayInv
  <2>3. ASSUME NEW n \in Source, NEW c \in Creator, FinishCreate(n, c), m = Created(n, c)
        PROVE  Settled(m.origin, m.id)'
    <3>1. m.origin = n /\ m.id = creating[n][c].id /\ n \in Node
      BY <2>3 DEF Created
    <3>2. Holds(messageStorage[n], n, m.id)
      BY <2>3, <3>1 DEF FinishCreate, AwayInv
    <3>3. PICK new \in 0 .. (MaxID + 1) :
            /\ updateStatus(myStatus[n], messageStorage[n], n, creating[n][c].id, new)
            /\ myStatus' = [myStatus EXCEPT ![n][n] = new]
      BY <2>3 DEF FinishCreate
    <3>4. myStatus'[n] = [myStatus[n] EXCEPT ![n] = new] /\ myStatus[n] \in VectorClock
          /\ new \in Nat
      BY <1>0, <3>1, <3>3 DEF TypeOK
    <3>5. m.id # NextID(myStatus'[n], n)
      BY <2>0, <3>1, <3>2, <3>3, <3>4, UpdatedIsSettled
    <3>6. UNCHANGED messageStorage
      BY <2>3 DEF FinishCreate
    <3> QED
      BY <3>1, <3>2, <3>5, <3>6 DEF Settled
  <2>4. ASSUME NEW n \in Node, NEW q \in pushing[n],
               m \in messageStorage[n], m.origin = q.origin, m.id = q.id
        PROVE  Settled(m.origin, m.id)'
    <3>1. CASE m.origin = n
      BY <2>1, <2>4, <3>1 DEF AwayInv, Settled
    <3>2. CASE m.origin # n
      BY <2>0, <2>1, <2>4, <3>2 DEF AwayInv, Away, IsAway
    <3> QED
      BY <3>1, <3>2
  <2> QED
    BY <1>0, <2>2, <2>3, <2>4, AwayStep
<1> QED
  BY <1>0, <1>1, <1>2, <1>3 DEF AwayInv

LEMMA AwayImpliesOriginAhead == AwayInv => OriginAhead
<1> SUFFICES ASSUME AwayInv, NEW n \in Node, NEW o \in Node,
                    ~(NextID(myStatus[n], o) <= NextID(myStatus[o], o))
             PROVE  FALSE
  BY DEF OriginAhead
<1> DEFINE k == NextID(myStatus[o], o)
<1>1. k \in MsgID /\ NextID(myStatus[n], o) \in MsgID
  BY NextIDType DEF AwayInv, ClockInv, TypeOK
<1>2. k \in 1 .. (NextID(myStatus[n], o) - 1)
  BY <1>1 DEF MsgID
<1>3. PICK m \in messageStorage[n] : m.origin = o /\ m.id = k
  BY <1>2 DEF AwayInv, ClockInv, StatusIsLeastUnknown, Holds
<1>4. n # o
  BY <1>1 DEF MsgID
<1>5. m \in Message
  BY DEF AwayInv, ClockInv, TypeOK
<1>6. m \in Away
  BY <1>3, <1>4, <1>5 DEF Away, IsAway
<1> QED
  BY <1>3, <1>6 DEF AwayInv, Settled

\* A node never waits for a message of its own that another node has: the
\* origin has stored, and counted in its clock, all that leaves it.
THEOREM OriginStaysAhead == Spec => []OriginAhead
<1>1. Init => AwayInv
  BY InitAway
<1>2. AwayInv /\ [Next]_vars => AwayInv'
  BY NextAway
<1>3. AwayInv => OriginAhead
  BY AwayImpliesOriginAhead
<1> QED
  BY <1>1, <1>2, <1>3, PTL DEF Spec

-----------------------------------------------------------------------------
(***************************************************************************)
(* Gossip implements prefix replication.                                   *)
(***************************************************************************)
LEMMA InitReplication == Init => Replication!Init
<1> SUFFICES ASSUME Init PROVE Replication!Init
  OBVIOUS
<1>1. \A n, o \in Node : NextID(myStatus[n], o) - 1 = 0
  BY DEF Init, NextID, NoEntry
<1> QED
  BY <1>1 DEF Replication!Init, KnownPrefix

LEMMA StepReplication ==
  ASSUME TypeOK, TypeOK', OriginAhead', [Next]_vars
  PROVE  [Replication!Next]_KnownPrefix
<1>1. CASE UNCHANGED myStatus
  BY <1>1 DEF KnownPrefix
<1>2. ASSUME NEW n \in Node, NEW o \in Node, NEW id \in MsgID, NEW new \in Nat,
             updateStatus(myStatus[n], messageStorage[n], o, id, new),
             myStatus' = [myStatus EXCEPT ![n][o] = new]
      PROVE  [Replication!Next]_KnownPrefix
  <2>1. /\ \A k, x \in Node : ~(k = n /\ x = o) => myStatus'[k][x] = myStatus[k][x]
        /\ myStatus'[n][o] = new
    BY <1>2 DEF TypeOK, VectorClock
  <2>2. \A k, x \in Node : /\ myStatus[k][x] \in Nat /\ myStatus'[k][x] \in Nat
                           /\ NextID(myStatus[k], x) \in MsgID
                           /\ NextID(myStatus'[k], x) \in MsgID
    BY NextIDType DEF TypeOK
  <2>3. \A k, x \in Node : ~(k = n /\ x = o) => KnownPrefix'[k][x] = KnownPrefix[k][x]
    BY <2>1 DEF KnownPrefix, NextID
  <2>4. KnownPrefix'[n][o] \in Nat /\ KnownPrefix[n][o] \in Nat
    BY <2>2 DEF KnownPrefix, MsgID
  <2>5. KnownPrefix' = [KnownPrefix EXCEPT ![n][o] = KnownPrefix'[n][o]]
    <3>1. /\ KnownPrefix = [k \in Node |-> KnownPrefix[k]]
          /\ KnownPrefix' = [k \in Node |-> KnownPrefix'[k]]
          /\ \A k \in Node : KnownPrefix[k] = [x \in Node |-> KnownPrefix[k][x]]
          /\ \A k \in Node : KnownPrefix'[k] = [x \in Node |-> KnownPrefix'[k][x]]
      BY DEF KnownPrefix
    <3> HIDE DEF KnownPrefix
    <3>2. \A k \in Node \ {n} : KnownPrefix'[k] = KnownPrefix[k]
      BY <2>3, <3>1
    <3>3. KnownPrefix'[n] = [KnownPrefix[n] EXCEPT ![o] = KnownPrefix'[n][o]]
      BY <2>3, <3>1
    <3> QED
      BY <3>1, <3>2, <3>3
  <2>6. CASE KnownPrefix'[n][o] = KnownPrefix[n][o]
    BY <2>3, <2>6 DEF KnownPrefix
  <2>7. CASE KnownPrefix'[n][o] # KnownPrefix[n][o]
    <3>1. new # myStatus[n][o]
      BY <2>1, <2>7 DEF KnownPrefix, NextID
    <3>2. new > NextID(myStatus[n], o)
      BY <1>2, <3>1 DEF updateStatus
    <3>3. KnownPrefix'[n][o] > KnownPrefix[n][o]
      BY <2>1, <2>2, <3>2 DEF KnownPrefix, NextID, NoEntry, MsgID
    <3>4. Replication!Grow(n, o)
      BY <2>4, <2>5, <3>3 DEF Replication!Grow
    <3>5. CASE n = o
      BY <3>4, <3>5 DEF Replication!Next, Replication!Publish
    <3>6. CASE n # o
      <4>1. NextID(myStatus'[n], o) <= NextID(myStatus'[o], o)
        BY DEF OriginAhead
      <4>2. KnownPrefix'[n][o] <= KnownPrefix'[o][o]
        BY <2>2, <4>1 DEF KnownPrefix, MsgID
      <4>3. KnownPrefix'[o][o] = KnownPrefix[o][o]
        BY <2>3, <3>6
      <4> QED
        BY <3>4, <3>6, <4>2, <4>3 DEF Replication!Next, Replication!Learn
    <3> QED
      BY <3>5, <3>6
  <2> QED
    BY <2>6, <2>7
<1> QED
  BY <1>1, <1>2, ClockStep

\* Storing, mongering and anti-entropy implement the replication of prefixes:
\* every step publishes at the origin, lets one node learn what the origin
\* has published, or is invisible.
THEOREM GossipImplementsReplication == Spec => ImplementsReplication
<1>1. Init => AwayInv /\ Replication!Init
  BY InitAway, InitReplication
<1>2. AwayInv /\ [Next]_vars => AwayInv'
  BY NextAway
<1>3. AwayInv => TypeOK /\ OriginAhead
  BY AwayImpliesOriginAhead DEF AwayInv, ClockInv
<1>4. TypeOK /\ TypeOK' /\ OriginAhead' /\ [Next]_vars => [Replication!Next]_KnownPrefix
  BY StepReplication
<1> QED
  BY <1>1, <1>2, <1>3, <1>4, PTL DEF Spec, ImplementsReplication, Replication!Spec

-----------------------------------------------------------------------------
(***************************************************************************)
(* With one creating goroutine per node, (Origin, ID) names one message.   *)
(* The load and the increment of seqID are two atomic operations, so this  *)
(* fails with two goroutines.                                              *)
(***************************************************************************)
SingleCreator == \A c, d \in Creator : c = d

\* The messages of its own that a node has stored have ids below i.
OwnBelow(n, i) == \A m \in messageStorage[n] : m.origin = n => m.id < i

\* Where the creating goroutine of n stands.
CreatorRight(n, c) ==
  /\ creating[n][c].pc = "loaded" =>
       creating[n][c].id = seqID[n]
  /\ creating[n][c].pc = "added" =>
       creating[n][c].id < seqID[n] /\ OwnBelow(n, creating[n][c].id)
  /\ creating[n][c].pc = "stored" =>
       Created(n, c) \in messageStorage[n]

UniqueInv ==
  /\ TypeOK
  /\ \A n \in Node : OwnBelow(n, seqID[n])
  /\ \A n \in Node : \A c \in Creator : CreatorRight(n, c)
  /\ \A n \in Node : \A m1, m2 \in messageStorage[n] :
       m1.origin = n /\ m2.origin = n /\ m1.id = m2.id => m1 = m2
  /\ \A m \in Away : m \in messageStorage[m.origin]

LEMMA InitUnique == Init => UniqueInv
<1> SUFFICES ASSUME Init PROVE UniqueInv
  OBVIOUS
<1>1. Away = {}
  BY DEF Init, Away, IsAway
<1> QED
  BY <1>1, InitTypeOK DEF Init, UniqueInv, OwnBelow, CreatorRight

\* Only the creating goroutine of a node stores messages of that node.
LEMMA OwnStep ==
  ASSUME TypeOK, [Next]_vars, NEW n \in Node, NEW m \in messageStorage'[n], m.origin = n,
         m \notin messageStorage[n]
  PROVE  \E c \in Creator : StoreCreated(n, c) /\ m = Created(n, c) /\ n \in Source
                            /\ ~Holds(messageStorage[n], n, m.id)
<1>1. ASSUME NEW p \in net, ReceiveGossip(p.dst, p) PROVE FALSE
  <2>1. CASE p.msg.origin = p.dst
    BY <1>1, <2>1 DEF ReceiveGossip
  <2>2. CASE p.msg.origin # p.dst
    <3>1. messageStorage' = [messageStorage EXCEPT ![p.dst] = LoadOrStore(@, p.msg)]
      BY <1>1, <2>2 DEF ReceiveGossip
    <3>2. n = p.dst /\ m = p.msg
      BY <3>1, LoadOrStoreSubset DEF TypeOK
    <3> QED
      BY <2>2, <3>2
  <2> QED
    BY <2>1, <2>2
<1>2. PICK k \in Source, c \in Creator : StoreCreated(k, c)
  BY <1>1 DEF Next, vars, Create, Receive, LoadSeqID, AddSeqID, FinishCreate, FinishGossip,
              ChooseForPeer, AnswerPeer, PushToPeer, AntiEntropy, MongerTo, MongerReturn, Lose
<1>3. messageStorage' = [messageStorage EXCEPT ![k] = LoadOrStore(@, Created(k, c))]
  BY <1>2 DEF StoreCreated
<1>4. k = n /\ m \in LoadOrStore(messageStorage[n], Created(n, c))
  BY <1>3 DEF TypeOK
<1>5. m = Created(n, c) /\ ~Holds(messageStorage[n], Created(n, c).origin, Created(n, c).id)
  BY <1>4 DEF LoadOrStore
<1> QED
  BY <1>2, <1>4, <1>5

LEMMA NextUnique == SingleCreator /\ UniqueInv /\ [Next]_vars => UniqueInv'
<1> SUFFICES ASSUME SingleCreator, UniqueInv, [Next]_vars PROVE UniqueInv'
  OBVIOUS
<1> USE GossipAssumption
<1>0. TypeOK /\ TypeOK'
  BY NextTypeOK DEF UniqueInv
<1>1. \A n \in Node : messageStorage[n] \subseteq messageStorage'[n]
  BY <1>0, StepGrows DEF Grows
<1>2. \A n \in Node : seqID[n] \in Nat /\ seqID'[n] \in Nat /\ seqID[n] <= seqID'[n]
  <2>1. \A n \in Node : seqID[n] \in Nat /\ seqID'[n] \in Nat
    BY <1>0 DEF TypeOK, MsgID
  <2>2. UNCHANGED seqID \/ \E n \in Source, c \in Creator : AddSeqID(n, c)
    BY DEF Next, vars, Create, Receive, LoadSeqID, StoreCreated, FinishCreate, ReceiveGossip,
           FinishGossip, ChooseForPeer, AnswerPeer, PushToPeer, AntiEntropy, MongerTo,
           MongerReturn, Lose
  <2>3. ASSUME NEW k \in Source, NEW c \in Creator, AddSeqID(k, c), NEW n \in Node
        PROVE  seqID[n] <= seqID'[n]
    <3>1. seqID'[n] = seqID[n] \/ seqID'[n] = seqID[n] + 1
      BY <1>0, <2>3 DEF AddSeqID, TypeOK
    <3> QED
      BY <2>1, <3>1
  <2> QED
    BY <2>1, <2>2, <2>3
<1>3. ASSUME NEW n \in Node, NEW m \in messageStorage'[n], m.origin = n
      PROVE  m.id < seqID'[n] /\ m.id \in Nat /\ seqID'[n] \in Nat
  <2>1. m.id \in Nat
    BY <1>0 DEF TypeOK, Message, MsgID
  <2>2. CASE m \in messageStorage[n]
    BY <1>2, <1>3, <2>1, <2>2 DEF UniqueInv, OwnBelow
  <2>3. CASE m \notin messageStorage[n]
    <3>1. PICK c \in Creator : StoreCreated(n, c) /\ m = Created(n, c)
      BY <1>0, <1>3, <2>3, OwnStep
    <3>2. creating[n][c].pc = "added" /\ m.id = creating[n][c].id
      BY <3>1 DEF StoreCreated, Created
    <3> QED
      BY <1>2, <2>1, <3>2 DEF UniqueInv, CreatorRight
  <2> QED
    BY <2>2, <2>3
<1>4. ASSUME NEW n \in Node, NEW m1 \in messageStorage'[n], NEW m2 \in messageStorage'[n],
             m1.origin = n, m2.origin = n, m1.id = m2.id
      PROVE  m1 = m2
  <2>1. CASE m1 \in messageStorage[n] /\ m2 \in messageStorage[n]
    BY <1>4, <2>1 DEF UniqueInv
  <2>2. CASE m1 \notin messageStorage[n] /\ m2 \notin messageStorage[n]
    <3>1. PICK c \in Creator : m1 = Created(n, c)
      BY <1>0, <1>4, <2>2, OwnStep
    <3>2. PICK d \in Creator : m2 = Created(n, d)
      BY <1>0, <1>4, <2>2, OwnStep
    <3> QED
      BY <3>1, <3>2 DEF SingleCreator
  <2>3. CASE m1 \notin messageStorage[n] /\ m2 \in messageStorage[n]
    <3>1. ~Holds(messageStorage[n], n, m1.id)
      BY <1>0, <1>4, <2>3, OwnStep
    <3> QED
      BY <1>4, <2>3, <3>1 DEF Holds
  <2>4. CASE m1 \in messageStorage[n] /\ m2 \notin messageStorage[n]
    <3>1. ~Holds(messageStorage[n], n, m2.id)
      BY <1>0, <1>4, <2>4, OwnStep
    <3> QED
      BY <1>4, <2>4, <3>1 DEF Holds
  <2> QED
    BY <2>1, <2>2, <2>3, <2>4
<1>5. ASSUME NEW n \in Node, NEW c \in Creator
      PROVE  CreatorRight(n, c)'
  <2>1. CASE creating'[n][c] = creating[n][c]
    <3>1. Created(n, c)' = Created(n, c)
      BY <2>1 DEF Created
    <3>2. ~\E d \in Creator : n \in Source /\ (AddSeqID(n, d) \/ StoreCreated(n, d))
      <4>1. ASSUME NEW d \in Creator, AddSeqID(n, d) PROVE FALSE
        <5>1. d = c
          BY DEF SingleCreator
        <5>2. creating[n][c] \in [pc : {"loaded"}, id : MsgID, body : Body]
          BY <1>0, <4>1, <5>1 DEF AddSeqID, TypeOK, CreatorState
        <5> QED
          BY <1>0, <2>1, <4>1, <5>1, <5>2 DEF AddSeqID, TypeOK
      <4>2. ASSUME NEW d \in Creator, StoreCreated(n, d) PROVE FALSE
        <5>1. d = c
          BY DEF SingleCreator
        <5>2. creating[n][c] \in [pc : {"added"}, id : MsgID, body : Body]
          BY <1>0, <4>2, <5>1 DEF StoreCreated, TypeOK, CreatorState
        <5> QED
          BY <1>0, <2>1, <4>2, <5>1, <5>2 DEF StoreCreated, TypeOK
      <4> QED
        BY <4>1, <4>2
    <3>3. seqID'[n] = seqID[n]
      <4>1. UNCHANGED seqID \/ \E k \in Source, d \in Creator : AddSeqID(k, d)
        BY DEF Next, vars, Create, Receive, LoadSeqID, StoreCreated, FinishCreate, ReceiveGossip,
               FinishGossip, ChooseForPeer, AnswerPeer, PushToPeer, AntiEntropy, MongerTo,
               MongerReturn, Lose
      <4> QED
        BY <1>0, <3>2, <4>1 DEF AddSeqID, TypeOK
    <3>4. \A m \in messageStorage'[n] : m.origin = n => m \in messageStorage[n]
      BY <1>0, <3>2, OwnStep
    <3> QED
      BY <1>1, <2>1, <3>1, <3>3, <3>4 DEF UniqueInv, CreatorRight, OwnBelow
  <2>2. CASE creating'[n][c] # creating[n][c]
    <3>1. PICK k \in Source, d \in Creator : Create(k, d)
      BY <2>2 DEF Next, vars, Receive, ReceiveGossip, FinishGossip, ChooseForPeer,
                  AnswerPeer, PushToPeer, AntiEntropy, MongerTo, MongerReturn, Lose
    <3>2. k = n /\ d = c
      <4>1. PICK s : creating' = [creating EXCEPT ![k] = [creating[k] EXCEPT ![d] = s]]
        BY <3>1 DEF Create, LoadSeqID, AddSeqID, StoreCreated, FinishCreate
      <4> QED
        BY <1>0, <2>2, <4>1 DEF TypeOK
    <3>3. ASSUME NEW b \in Body, LoadSeqID(n, c, b) PROVE CreatorRight(n, c)'
      BY <1>0, <3>3 DEF LoadSeqID, TypeOK, CreatorRight
    <3>4. ASSUME AddSeqID(n, c) PROVE CreatorRight(n, c)'
      <4>1. creating[n][c] \in [pc : {"loaded"}, id : MsgID, body : Body]
        BY <1>0, <3>4 DEF AddSeqID, TypeOK, CreatorState
      <4>2. creating'[n][c].pc = "added" /\ creating'[n][c].id = creating[n][c].id
        BY <1>0, <3>4, <4>1 DEF AddSeqID, TypeOK
      <4>3. creating[n][c].id = seqID[n] /\ seqID'[n] = seqID[n] + 1 /\ UNCHANGED messageStorage
        BY <1>0, <3>4 DEF AddSeqID, TypeOK, UniqueInv, CreatorRight
      <4>4. creating'[n][c].id < seqID'[n]
        BY <1>2, <4>2, <4>3
      <4>5. OwnBelow(n, creating[n][c].id)'
        BY <4>2, <4>3 DEF UniqueInv, OwnBelow
      <4> QED
        BY <4>2, <4>4, <4>5 DEF CreatorRight
    <3>5. ASSUME StoreCreated(n, c) PROVE CreatorRight(n, c)'
      <4>1. creating[n][c] \in [pc : {"added"}, id : MsgID, body : Body]
        BY <1>0, <3>5 DEF StoreCreated, TypeOK, CreatorState
      <4>2. /\ creating'[n][c].pc = "stored" /\ creating'[n][c].id = creating[n][c].id
            /\ creating'[n][c].body = creating[n][c].body
        BY <1>0, <3>5, <4>1 DEF StoreCreated, TypeOK
      <4>3. Created(n, c)' = Created(n, c) /\ Created(n, c).origin = n
            /\ Created(n, c).id = creating[n][c].id
        BY <4>2 DEF Created
      <4>4. ~Holds(messageStorage[n], n, creating[n][c].id)
        <5>1. OwnBelow(n, creating[n][c].id)
          BY <3>5 DEF StoreCreated, UniqueInv, CreatorRight
        <5> QED
          BY <1>0, <4>1, <5>1 DEF OwnBelow, Holds, TypeOK, Message, MsgID
      <4>5. messageStorage'[n] = messageStorage[n] \cup {Created(n, c)}
        BY <1>0, <3>5, <4>3, <4>4 DEF StoreCreated, LoadOrStore, TypeOK
      <4> QED
        BY <4>2, <4>3, <4>5 DEF CreatorRight
    <3>6. ASSUME FinishCreate(n, c) PROVE CreatorRight(n, c)'
      BY <1>0, <3>6 DEF FinishCreate, TypeOK, CreatorRight
    <3> QED
      BY <3>1, <3>2, <3>3, <3>4, <3>5, <3>6 DEF Create
  <2> QED
    BY <2>1, <2>2
<1>6. ASSUME NEW m \in Away'
      PROVE  m \in messageStorage'[m.origin]
  <2>0. m \in Message /\ m.origin \in Node
    BY DEF Away, Message
  <2>1. CASE m \in Away
    BY <1>1, <2>0, <2>1 DEF UniqueInv
  <2>2. ASSUME NEW n \in Source, NEW c \in Creator, FinishCreate(n, c), m = Created(n, c)
        PROVE  m \in messageStorage'[m.origin]
    <3>1. m.origin = n
      BY <2>2 DEF Created
    <3> QED
      BY <2>0, <2>2, <3>1 DEF FinishCreate, UniqueInv, CreatorRight
  <2>3. ASSUME NEW n \in Node, m \in messageStorage[n]
        PROVE  m \in messageStorage'[m.origin]
    <3>1. CASE m.origin = n
      BY <1>1, <2>3, <3>1
    <3>2. CASE m.origin # n
      <4>1. m \in Away
        BY <2>0, <2>3, <3>2 DEF Away, IsAway
      <4> QED
        BY <1>1, <2>0, <4>1 DEF UniqueInv
    <3> QED
      BY <3>1, <3>2
  <2> QED
    BY <1>0, <2>1, <2>2, <2>3, AwayStep
<1>7. \A n \in Node : OwnBelow(n, seqID[n])'
  BY <1>3 DEF OwnBelow
<1> QED
  BY <1>0, <1>4, <1>5, <1>6, <1>7 DEF UniqueInv

LEMMA UniqueInvImpliesUniqueID == UniqueInv => UniqueID
<1> SUFFICES ASSUME UniqueInv, NEW n1 \in Node, NEW n2 \in Node,
                    NEW m1 \in messageStorage[n1], NEW m2 \in messageStorage[n2],
                    m1.origin = m2.origin, m1.id = m2.id
             PROVE  m1 = m2
  BY DEF UniqueID
<1>1. m1 \in Message /\ m2 \in Message
  BY DEF UniqueInv, TypeOK
<1>2. m1 \in messageStorage[m1.origin]
  BY <1>1 DEF UniqueInv, Away, IsAway
<1>3. m2 \in messageStorage[m1.origin]
  BY <1>1 DEF UniqueInv, Away, IsAway
<1>4. m1.origin \in Node
  BY <1>1 DEF Message
<1> QED
  BY <1>2, <1>3, <1>4 DEF UniqueInv

\* A node with one goroutine that creates messages never gives two messages
\* the same id, so no two nodes ever hold different messages under one key.
THEOREM SingleCreatorUnique ==
  ASSUME SingleCreator
  PROVE  Spec => []UniqueID
<1>1. Init => UniqueInv
  BY InitUnique
<1>2. UniqueInv /\ [Next]_vars => UniqueInv'
  BY NextUnique
<1>3. UniqueInv => UniqueID
  BY UniqueInvImpliesUniqueID
<1> QED
  BY <1>1, <1>2, <1>3, PTL DEF Spec
=============================================================================
