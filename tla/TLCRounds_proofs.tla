-------------------------- MODULE TLCRounds_proofs --------------------------
(***************************************************************************)
(* Theorems about TLCRounds, for every finite set of nodes, any number of  *)
(* blocks, with or without ackAllMode.                                     *)
(***************************************************************************)
EXTENDS TLCRounds, FiniteSetTheorems, TLAPS

-----------------------------------------------------------------------------
(***************************************************************************)
(* Finite sets of ids, and the blocks that a set of messages confirms.     *)
(***************************************************************************)

\* A bounded set of ids is finite.
LEMMA BoundedIDs ==
  ASSUME NEW S \in SUBSET ID, NEW k \in Nat, \A i \in S : i < k
  PROVE  IsFiniteSet(S) /\ Cardinality(S) \in Nat
<1>1. S \in SUBSET Nat /\ \A i \in S : i <= k
  BY DEF ID
<1>2. IsFiniteSet(S)
  BY <1>1, FS_BoundedSetOfNaturals
<1> QED BY <1>2, FS_CardinalityType

\* A subset of a finite set is not larger than it.
LEMMA SubsetCardinality ==
  ASSUME NEW T, IsFiniteSet(T), NEW S \in SUBSET T
  PROVE  /\ IsFiniteSet(S)
         /\ Cardinality(S) \in Nat /\ Cardinality(T) \in Nat
         /\ Cardinality(S) <= Cardinality(T)
BY FS_Subset, FS_CardinalityType

\* Only a confirmation of n adds to the blocks that n confirms.
LEMMA BlocksOfAdd ==
  ASSUME NEW S \in SUBSET TLCMessage, NEW m \in TLCMessage, NEW n \in Node
  PROVE  /\ m.origin = n /\ m.confirmed # NotConfirmed =>
              BlocksOf(S \cup {m}, n) = BlocksOf(S, n) \cup {m.confirmed}
         /\ m.origin # n \/ m.confirmed = NotConfirmed =>
              BlocksOf(S \cup {m}, n) = BlocksOf(S, n)
BY DEF BlocksOf, Confirming

LEMMA BlocksOfType ==
  ASSUME NEW S \in SUBSET TLCMessage, NEW n \in Node
  PROVE  BlocksOf(S, n) \in SUBSET ID
BY DEF BlocksOf, Confirming, TLCMessage, NotConfirmed

-----------------------------------------------------------------------------
(***************************************************************************)
(* Types, together with what makes the vector clocks well-defined: every   *)
(* message is one of its origin's and its id has been drawn.               *)
(***************************************************************************)
StoredInv ==
  \A n \in Node : \A m \in stored[n] :
    m \in stored[m.origin] /\ m.id < seqID[m.origin]

\* The clock of a set of messages with drawn ids is a vector clock.
LEMMA ClockType ==
  ASSUME NEW S \in SUBSET TLCMessage, NEW drawn \in [Node -> ID],
         \A m \in S : m.id < drawn[m.origin]
  PROVE  Clock(S) \in VectorClock
<1> SUFFICES ASSUME NEW o \in Node
             PROVE  1 + Cardinality({i \in Held(S, o) : 1 .. i \subseteq Held(S, o)}) \in ID
  BY DEF Clock, VectorClock
<1> DEFINE H == {i \in Held(S, o) : 1 .. i \subseteq Held(S, o)}
<1>1. H \in SUBSET ID /\ \A i \in H : i < drawn[o]
  BY DEF Held, TLCMessage
<1>2. drawn[o] \in Nat
  BY DEF ID
<1>3. Cardinality(H) \in Nat
  BY <1>1, <1>2, BoundedIDs
<1> QED BY <1>3 DEF ID

\* A message of n that takes the next id and is stored at n.
LEMMA CreateStored ==
  ASSUME TypeOK, StoredInv, NEW n \in Node, NEW m \in TLCMessage,
         m.origin = n, m.id = seqID[n],
         stored' = [stored EXCEPT ![n] = @ \cup {m}],
         seqID' = [seqID EXCEPT ![n] = @ + 1]
  PROVE  /\ stored' \in [Node -> SUBSET TLCMessage]
         /\ seqID' \in [Node -> ID]
         /\ StoredInv'
<1>1. stored' \in [Node -> SUBSET TLCMessage] /\ seqID' \in [Node -> ID]
  BY DEF TypeOK, ID
<1>2. \A o \in Node : seqID[o] \in Nat /\ seqID[o] <= seqID'[o] /\ seqID'[n] = seqID[n] + 1
  BY DEF TypeOK, ID
<1>3. ASSUME NEW s \in Node, NEW x \in stored'[s]
      PROVE  x \in stored'[x.origin] /\ x.id < seqID'[x.origin]
  <2>1. x \in TLCMessage /\ x.origin \in Node /\ x.id \in Nat
    BY <1>1, <1>3 DEF TLCMessage, ID
  <2>2. CASE x \in stored[s]
    BY <2>1, <2>2, <1>2 DEF StoredInv, TypeOK
  <2>3. CASE x = m
    BY <2>1, <2>3, <1>2 DEF TypeOK
  <2> QED BY <1>3, <2>2, <2>3 DEF TypeOK
<1> QED BY <1>1, <1>3 DEF StoredInv

\* Sending a confirmation keeps the storages well-formed.
LEMMA ConfirmStored ==
  ASSUME TypeOK, StoredInv, NEW n \in Node, NEW i \in ID, Confirm(n, i)
  PROVE  /\ stored' \in [Node -> SUBSET TLCMessage]
         /\ seqID' \in [Node -> ID]
         /\ StoredInv'
<1>1. Clock(stored[n]) \in VectorClock
  BY ClockType DEF TypeOK, StoredInv
<1>2. [origin |-> n, id |-> seqID[n], confirmed |-> i, vc |-> Clock(stored[n])] \in TLCMessage
  BY <1>1 DEF TypeOK, TLCMessage
<1> QED BY <1>2, CreateStored DEF Confirm

\* The round of a message is a number.
LEMMA RoundOfType ==
  ASSUME TypeOK, NEW n \in Node, NEW m \in TLCMessage
  PROVE  RoundOf(n, m) \in Nat
<1> DEFINE i == IF m.confirmed = NotConfirmed THEN m.id ELSE m.confirmed
           K == {k \in tlcStatus[n][m.origin] : k < i}
<1>1. i \in Nat /\ m.origin \in Node
  BY DEF TLCMessage, ID
<1>2. K \in SUBSET ID /\ \A k \in K : k < i
  BY <1>1 DEF TypeOK
<1>3. Cardinality(K) \in Nat
  BY <1>1, <1>2, BoundedIDs
<1> QED BY <1>3 DEF RoundOf, getMessageOriginalRound

LEMMA InitTyped == Init => TypeOK /\ StoredInv
BY DEF Init, TypeOK, StoredInv, ID, RoundState

LEMMA NextTyped == TypeOK /\ StoredInv /\ [Next]_vars => TypeOK' /\ StoredInv'
<1> SUFFICES ASSUME TypeOK, StoredInv, [Next]_vars PROVE TypeOK' /\ StoredInv'
  OBVIOUS
<1>1. ASSUME NEW n \in Node, Publish(n) PROVE TypeOK' /\ StoredInv'
  <2> DEFINE m == [origin |-> n, id |-> seqID[n], confirmed |-> NotConfirmed]
  <2>1. m \in TLCMessage
    BY DEF TypeOK, TLCMessage
  <2>2. stored' \in [Node -> SUBSET TLCMessage] /\ seqID' \in [Node -> ID] /\ StoredInv'
    BY <1>1, <2>1, CreateStored DEF Publish
  <2> QED BY <1>1, <2>2 DEF Publish, TypeOK
<1>2. ASSUME NEW n \in Node, NEW i \in ID, NEW d \in BOOLEAN, Advance(n, i, d)
      PROVE  /\ stored' \in [Node -> SUBSET TLCMessage]
             /\ seqID' \in [Node -> ID] /\ StoredInv'
             /\ myTime' \in [Node -> Nat] /\ round' \in [Node -> RoundState]
  <2>1. stored' \in [Node -> SUBSET TLCMessage] /\ seqID' \in [Node -> ID] /\ StoredInv'
    <3>1. CASE d
      BY <1>2, <3>1 DEF Advance, TypeOK, StoredInv
    <3>2. CASE ~d
      BY <1>2, <3>2, ConfirmStored DEF Advance
    <3> QED BY <3>1, <3>2
  <2>2. myTime' \in [Node -> Nat]
    BY <1>2 DEF Advance, TypeOK
  <2>3. [pc |-> "idle"] \in RoundState
    BY DEF RoundState
  <2>4. round' \in [Node -> RoundState]
    BY <1>2, <2>3 DEF Advance, TypeOK
  <2> QED BY <2>1, <2>2, <2>4
<1>3. ASSUME NEW n \in Node, NEW i \in clientBlock[n], StartRound(n, i)
      PROVE  TypeOK' /\ StoredInv'
  <2>1. i \in ID
    BY DEF TypeOK
  <2>2. CASE Advance(n, i, FALSE)
    <3>1. /\ stored' \in [Node -> SUBSET TLCMessage] /\ seqID' \in [Node -> ID] /\ StoredInv'
          /\ myTime' \in [Node -> Nat] /\ round' \in [Node -> RoundState]
      BY <2>1, <2>2, <1>2
    <3> QED BY <1>3, <3>1 DEF StartRound, TypeOK
  <2>3. CASE Wait(n, i)
    <3>1. round' \in [Node -> RoundState]
      BY <2>1, <2>3 DEF Wait, TypeOK, RoundState
    <3> QED BY <1>3, <2>3, <3>1 DEF StartRound, Wait, TypeOK, StoredInv
  <2> QED BY <1>3, <2>2, <2>3 DEF StartRound
<1>4. ASSUME NEW n \in Node, NEW k \in acks, ReceiveAck(n, k)
      PROVE  TypeOK' /\ StoredInv'
  <2> DEFINE W == round[n].witnesses \cup {k.from}
  <2>1. /\ round[n] \in [pc : {"waiting"}, id : ID, witnesses : SUBSET Node, delivered : BOOLEAN]
        /\ k.id \in ID /\ k.from \in Node
    BY <1>4 DEF ReceiveAck, TypeOK, RoundState, Ack
  <2>2. W \in SUBSET Node
    BY <2>1
  <2>3. ASSUME NEW d \in BOOLEAN
        PROVE  [pc |-> "waiting", id |-> k.id, witnesses |-> W, delivered |-> d] \in RoundState
    BY <2>1, <2>2 DEF RoundState
  <2>4. round' \in [Node -> RoundState]
    <3> DEFINE d == Majority(W)
    <3>1. d \in BOOLEAN
      BY DEF Majority
    <3>2. round' = [round EXCEPT ![n] =
                      [pc |-> "waiting", id |-> k.id, witnesses |-> W, delivered |-> d]]
      BY <1>4 DEF ReceiveAck
    <3> HIDE DEF d, W
    <3> QED BY <2>3, <3>1, <3>2 DEF TypeOK
  <2>5. CASE Majority(W)
    <3>1. stored' \in [Node -> SUBSET TLCMessage] /\ seqID' \in [Node -> ID] /\ StoredInv'
      BY <1>4, <2>1, <2>5, ConfirmStored DEF ReceiveAck
    <3>2. confirmations' \in [Node -> SUBSET Confirmation]
      <4> DEFINE c == [round |-> myTime[n], origin |-> n, confirmed |-> k.id]
      <4>1. c \in Confirmation
        BY <2>1 DEF TypeOK, Confirmation
      <4>2. confirmations' = [confirmations EXCEPT ![n] = Put(confirmations[n], c)]
        BY <1>4, <2>5 DEF ReceiveAck
      <4> HIDE DEF c
      <4> QED BY <4>1, <4>2 DEF TypeOK, Put
    <3>3. tlcConfirm' \in [Node -> BOOLEAN]
      BY <1>4, <2>5 DEF ReceiveAck, TypeOK
    <3> QED BY <1>4, <2>4, <3>1, <3>2, <3>3 DEF ReceiveAck, TypeOK
  <2>6. CASE ~Majority(W)
    BY <1>4, <2>4, <2>6 DEF ReceiveAck, TypeOK, StoredInv
  <2> QED BY <2>5, <2>6
<1>5. ASSUME NEW n \in Node, ReceiveConfirm(n) PROVE TypeOK' /\ StoredInv'
  <2>1. round[n].id \in ID /\ round[n].delivered \in BOOLEAN
    BY <1>5 DEF ReceiveConfirm, TypeOK, RoundState
  <2>2. CASE Advance(n, round[n].id, round[n].delivered)
    <3>1. /\ stored' \in [Node -> SUBSET TLCMessage] /\ seqID' \in [Node -> ID] /\ StoredInv'
          /\ myTime' \in [Node -> Nat] /\ round' \in [Node -> RoundState]
      BY <2>1, <2>2, <1>2
    <3> QED BY <1>5, <3>1 DEF ReceiveConfirm, TypeOK
  <2>3. CASE UNCHANGED <<myTime, round, stored, seqID>>
    BY <1>5, <2>3 DEF ReceiveConfirm, TypeOK, StoredInv
  <2> QED BY <1>5, <2>2, <2>3 DEF ReceiveConfirm
<1>6. ASSUME NEW n \in Node, NEW m \in Received(n)
      PROVE  m \in TLCMessage /\ m \in stored[m.origin] /\ m.id < seqID[m.origin] /\ m.origin \in Node
  BY DEF Received, TypeOK, StoredInv, TLCMessage
<1>7. ASSUME NEW n \in Node, NEW m \in Received(n), Store(n, m) PROVE TypeOK' /\ StoredInv'
  BY <1>6, <1>7 DEF Store, TypeOK, StoredInv
<1>8. ASSUME NEW n \in Node, NEW m \in Received(n), HandleUnconfirmed(n, m)
      PROVE  TypeOK' /\ StoredInv'
  <2>1. [from |-> n, to |-> m.origin, id |-> m.id] \in Ack
    BY <1>6 DEF Ack, TLCMessage
  <2> QED BY <1>8, <2>1 DEF HandleUnconfirmed, TypeOK, StoredInv
<1>9. ASSUME NEW n \in Node, NEW m \in Received(n), HandleConfirmed(n, m)
      PROVE  TypeOK' /\ StoredInv'
  <2>1. m.confirmed \in ID /\ m.origin \in Node /\ RoundOf(n, m) \in Nat
    BY <1>6, <1>9, RoundOfType DEF HandleConfirmed, TLCMessage
  <2>2. tlcStatus' \in [Node -> [Node -> SUBSET ID]]
    BY <1>9, <2>1 DEF HandleConfirmed, TypeOK
  <2>3. saving' \in [Node -> SUBSET Confirmation]
    <3> DEFINE c == [round |-> RoundOf(n, m), origin |-> m.origin, confirmed |-> m.confirmed]
    <3>1. c \in Confirmation
      BY <2>1 DEF Confirmation
    <3>2. saving' = [saving EXCEPT ![n] = {c}] \/ saving' = saving
      BY <1>9 DEF HandleConfirmed
    <3> HIDE DEF c
    <3> QED BY <3>1, <3>2 DEF TypeOK
  <2>4. tlcConfirm' \in [Node -> BOOLEAN]
    BY <1>9 DEF HandleConfirmed, TypeOK
  <2> QED BY <1>9, <2>2, <2>3, <2>4 DEF HandleConfirmed, TypeOK, StoredInv
<1>10. ASSUME NEW n \in Node, NEW c \in saving[n], SaveConfirmation(n, c)
       PROVE  TypeOK' /\ StoredInv'
  BY <1>10 DEF SaveConfirmation, TypeOK, StoredInv, Put
<1>11. CASE UNCHANGED vars
  BY <1>11 DEF vars, TypeOK, StoredInv
<1> QED BY <1>1, <1>3, <1>4, <1>5, <1>7, <1>8, <1>9, <1>10, <1>11 DEF Next

\* Every variable keeps its type; in particular the vector clock put into a
\* confirmation is one, and the round of a message is a number.
THEOREM TypeCorrect == Spec => []TypeOK
<1>1. Init => TypeOK /\ StoredInv
  BY InitTyped
<1>2. TypeOK /\ StoredInv /\ [Next]_vars => (TypeOK /\ StoredInv)'
  BY NextTyped
<1> QED BY <1>1, <1>2, PTL DEF Spec

-----------------------------------------------------------------------------
(***************************************************************************)
(* Blocks: each is confirmed at most once, in one round.                   *)
(***************************************************************************)

\* How the blocks B that a node has confirmed, its queue of blocks C, its
\* round r, its time t and its next id fit together.
Books(B, C, r, t, next) ==
  /\ \A i \in B \cup C : i < next
  /\ B \cap C = {}
  /\ r.pc = "waiting" => r.id < next /\ r.id \notin C /\ (r.delivered <=> r.id \in B)
  /\ Cardinality(B) = t + (IF r.pc = "waiting" /\ r.delivered THEN 1 ELSE 0)

BlockInv ==
  \A n \in Node : Books(ConfirmedBlocks(n), clientBlock[n], round[n], myTime[n], seqID[n])

Typed == TypeOK /\ StoredInv

LEMMA BlocksFinite ==
  ASSUME Typed, BlockInv, NEW n \in Node
  PROVE  /\ ConfirmedBlocks(n) \in SUBSET ID
         /\ IsFiniteSet(ConfirmedBlocks(n))
         /\ Cardinality(ConfirmedBlocks(n)) \in Nat
<1>1. ConfirmedBlocks(n) \in SUBSET ID
  BY BlocksOfType DEF Typed, TypeOK, ConfirmedBlocks
<1>2. seqID[n] \in Nat /\ \A i \in ConfirmedBlocks(n) : i < seqID[n]
  BY DEF Typed, TypeOK, ID, BlockInv, Books
<1> QED BY <1>1, <1>2, BoundedIDs

\* Confirming a block once counts once.
LEMMA OneMoreBlock ==
  ASSUME Typed, BlockInv, NEW n \in Node, NEW i \in ID, i \notin ConfirmedBlocks(n)
  PROVE  Cardinality(ConfirmedBlocks(n) \cup {i}) = Cardinality(ConfirmedBlocks(n)) + 1
BY BlocksFinite, FS_AddElement

\* What sending a confirmation does to the blocks of all nodes.
LEMMA ConfirmBlocks ==
  ASSUME Typed, NEW n \in Node, NEW i \in ID, Confirm(n, i)
  PROVE  /\ ConfirmedBlocks(n)' = ConfirmedBlocks(n) \cup {i}
         /\ \A x \in Node \ {n} : ConfirmedBlocks(x)' = ConfirmedBlocks(x)
         /\ seqID' = [seqID EXCEPT ![n] = @ + 1]
<1> DEFINE m == [origin |-> n, id |-> seqID[n], confirmed |-> i, vc |-> Clock(stored[n])]
<1>1. m \in TLCMessage
  BY ClockType DEF Typed, TypeOK, StoredInv, TLCMessage
<1>2. m.origin = n /\ m.confirmed = i /\ i # NotConfirmed
  BY DEF ID, NotConfirmed
<1>3. stored' = [stored EXCEPT ![n] = @ \cup {m}]
  BY DEF Confirm
<1> HIDE DEF m
<1> stored[n] \in SUBSET TLCMessage
  BY DEF Typed, TypeOK
<1>4. BlocksOf(stored[n] \cup {m}, n) = BlocksOf(stored[n], n) \cup {i}
  BY <1>1, <1>2, BlocksOfAdd
<1> QED BY <1>3, <1>4 DEF ConfirmedBlocks, Typed, TypeOK, Confirm

\* The books of the nodes that take no part in a step are as before.
LEMMA OtherBooks ==
  ASSUME BlockInv, NEW n \in Node, NEW x \in Node \ {n},
         ConfirmedBlocks(x)' = ConfirmedBlocks(x), clientBlock'[x] = clientBlock[x],
         round'[x] = round[x], myTime'[x] = myTime[x], seqID'[x] = seqID[x]
  PROVE  Books(ConfirmedBlocks(x), clientBlock[x], round[x], myTime[x], seqID[x])'
BY DEF BlockInv

\* A node that moves on to its next round, when block i is the one of its
\* round and delivered says whether it has been confirmed.
LEMMA AdvanceBooks ==
  ASSUME Typed, BlockInv, NEW n \in Node, NEW i \in ID, NEW delivered \in BOOLEAN,
         Advance(n, i, delivered), clientBlock'[n] \subseteq clientBlock[n] \ {i},
         i < seqID[n], delivered <=> i \in ConfirmedBlocks(n),
         Cardinality(ConfirmedBlocks(n)) = myTime[n] + (IF delivered THEN 1 ELSE 0)
  PROVE  /\ Books(ConfirmedBlocks(n), clientBlock[n], round[n], myTime[n], seqID[n])'
         /\ \A x \in Node \ {n} :
              /\ ConfirmedBlocks(x)' = ConfirmedBlocks(x)
              /\ round'[x] = round[x] /\ myTime'[x] = myTime[x] /\ seqID'[x] = seqID[x]
         /\ ConfirmedBlocks(n) \subseteq ConfirmedBlocks(n)'
<1>1. /\ round'[n].pc = "idle" /\ myTime'[n] = myTime[n] + 1
      /\ \A x \in Node \ {n} : round'[x] = round[x] /\ myTime'[x] = myTime[x]
      /\ seqID[n] \in Nat /\ myTime[n] \in Nat /\ i \in Nat
  BY DEF Advance, Typed, TypeOK, ID
<1>2. CASE delivered
  <2>1. stored' = stored /\ seqID' = seqID
    BY <1>2 DEF Advance
  <2> QED BY <1>1, <1>2, <2>1 DEF BlockInv, Books, ConfirmedBlocks
<1>3. CASE ~delivered
  <2>1. /\ ConfirmedBlocks(n)' = ConfirmedBlocks(n) \cup {i}
        /\ \A x \in Node \ {n} : ConfirmedBlocks(x)' = ConfirmedBlocks(x)
        /\ seqID' = [seqID EXCEPT ![n] = @ + 1]
    BY <1>3, ConfirmBlocks DEF Advance
  <2>2. Cardinality(ConfirmedBlocks(n)') = myTime[n] + 1
    BY <1>1, <1>3, <2>1, OneMoreBlock
  <2>3. /\ \A j \in ConfirmedBlocks(n) \cup clientBlock[n] : j < seqID[n] /\ j \in Nat
        /\ ConfirmedBlocks(n) \cap clientBlock[n] = {}
    BY BlocksFinite DEF BlockInv, Books, Typed, TypeOK, ID
  <2>4. seqID'[n] = seqID[n] + 1 /\ \A x \in Node \ {n} : seqID'[x] = seqID[x]
    BY <2>1 DEF Typed, TypeOK
  <2> QED BY <1>1, <2>1, <2>2, <2>3, <2>4 DEF Books
<1> QED BY <1>2, <1>3

LEMMA InitBooks == Init => BlockInv
<1> SUFFICES ASSUME Init, NEW n \in Node
             PROVE  Books(ConfirmedBlocks(n), clientBlock[n], round[n], myTime[n], seqID[n])
  BY DEF BlockInv
<1>1. ConfirmedBlocks(n) = {}
  BY DEF Init, ConfirmedBlocks, BlocksOf, Confirming
<1> QED BY <1>1, FS_EmptySet DEF Init, Books

LEMMA NextBooks == Typed /\ BlockInv /\ [Next]_vars => BlockInv'
<1> SUFFICES ASSUME Typed, BlockInv, [Next]_vars PROVE BlockInv'
  OBVIOUS
<1>1. ASSUME NEW n \in Node, Publish(n) PROVE BlockInv'
  <2> DEFINE m == [origin |-> n, id |-> seqID[n], confirmed |-> NotConfirmed]
  <2>1. m \in TLCMessage /\ m.confirmed = NotConfirmed
    BY DEF Typed, TypeOK, TLCMessage
  <2>2. stored' = [stored EXCEPT ![n] = @ \cup {m}]
    BY <1>1 DEF Publish
  <2> HIDE DEF m
  <2> stored[n] \in SUBSET TLCMessage
    BY DEF Typed, TypeOK
  <2>3. BlocksOf(stored[n] \cup {m}, n) = BlocksOf(stored[n], n)
    BY <2>1, BlocksOfAdd
  <2>4. \A x \in Node : ConfirmedBlocks(x)' = ConfirmedBlocks(x)
    BY <2>2, <2>3 DEF ConfirmedBlocks, Typed, TypeOK
  <2>5. /\ clientBlock'[n] = clientBlock[n] \cup {seqID[n]} /\ seqID'[n] = seqID[n] + 1
        /\ round' = round /\ myTime' = myTime /\ seqID[n] \in Nat
        /\ \A x \in Node \ {n} : clientBlock'[x] = clientBlock[x] /\ seqID'[x] = seqID[x]
    BY <1>1 DEF Publish, Typed, TypeOK, ID
  <2>6. \A j \in ConfirmedBlocks(n) \cup clientBlock[n] : j \in Nat
    BY BlocksFinite DEF Typed, TypeOK, ID
  <2>7. round[n].pc = "waiting" => round[n].id \in Nat
    BY DEF Typed, TypeOK, RoundState, ID
  <2>8. Books(ConfirmedBlocks(n), clientBlock[n], round[n], myTime[n], seqID[n])'
    BY <2>4, <2>5, <2>6, <2>7 DEF BlockInv, Books
  <2>9. ASSUME NEW x \in Node \ {n}
        PROVE  Books(ConfirmedBlocks(x), clientBlock[x], round[x], myTime[x], seqID[x])'
    BY <2>4, <2>5, OtherBooks
  <2> QED BY <2>8, <2>9 DEF BlockInv
<1>2. ASSUME NEW n \in Node, NEW i \in clientBlock[n], StartRound(n, i) PROVE BlockInv'
  <2>1. /\ i \in ID /\ i \in Nat /\ i < seqID[n] /\ i \notin ConfirmedBlocks(n)
        /\ round[n].pc = "idle" /\ Cardinality(ConfirmedBlocks(n)) = myTime[n]
        /\ clientBlock'[n] = clientBlock[n] \ {i} /\ myTime[n] \in Nat
        /\ \A x \in Node \ {n} : clientBlock'[x] = clientBlock[x]
    BY <1>2 DEF StartRound, BlockInv, Books, Typed, TypeOK, ID
  <2>2. CASE Advance(n, i, FALSE)
    <3>1. /\ Books(ConfirmedBlocks(n), clientBlock[n], round[n], myTime[n], seqID[n])'
          /\ \A x \in Node \ {n} :
               /\ ConfirmedBlocks(x)' = ConfirmedBlocks(x)
               /\ round'[x] = round[x] /\ myTime'[x] = myTime[x] /\ seqID'[x] = seqID[x]
      <4> DEFINE d == FALSE
      <4>1. d \in BOOLEAN /\ ~d
        OBVIOUS
      <4>2. Advance(n, i, d)
        BY <2>2, Zenon
      <4> HIDE DEF d
      <4>3. /\ d <=> i \in ConfirmedBlocks(n)
            /\ Cardinality(ConfirmedBlocks(n)) = myTime[n] + (IF d THEN 1 ELSE 0)
        BY <2>1, <4>1
      <4>4. clientBlock'[n] \subseteq clientBlock[n] \ {i}
        BY <2>1
      <4>5. i \in ID /\ i < seqID[n]
        BY <2>1
      <4> QED BY <4>1, <4>2, <4>3, <4>4, <4>5, AdvanceBooks
    <3>2. ASSUME NEW x \in Node \ {n}
          PROVE  Books(ConfirmedBlocks(x), clientBlock[x], round[x], myTime[x], seqID[x])'
      BY <2>1, <3>1, OtherBooks
    <3> QED BY <3>1, <3>2 DEF BlockInv
  <2>3. CASE Wait(n, i)
    <3>1. /\ round'[n].pc = "waiting" /\ round'[n].id = i /\ ~round'[n].delivered
          /\ \A x \in Node \ {n} : round'[x] = round[x]
          /\ stored' = stored /\ seqID' = seqID /\ myTime' = myTime
      BY <2>3 DEF Wait, Typed, TypeOK
    <3>2. \A x \in Node : ConfirmedBlocks(x)' = ConfirmedBlocks(x)
      BY <3>1 DEF ConfirmedBlocks
    <3>3. Books(ConfirmedBlocks(n), clientBlock[n], round[n], myTime[n], seqID[n])'
      BY <2>1, <3>1, <3>2 DEF BlockInv, Books
    <3>4. ASSUME NEW x \in Node \ {n}
          PROVE  Books(ConfirmedBlocks(x), clientBlock[x], round[x], myTime[x], seqID[x])'
      BY <2>1, <3>1, <3>2, OtherBooks
    <3> QED BY <3>3, <3>4 DEF BlockInv
  <2> QED BY <1>2, <2>2, <2>3 DEF StartRound
<1>3. ASSUME NEW n \in Node, NEW k \in acks, ReceiveAck(n, k) PROVE BlockInv'
  <2> DEFINE W == round[n].witnesses \cup {k.from}
             d == Majority(W)
  <2>1. /\ round[n].pc = "waiting" /\ round[n].id = k.id /\ ~round[n].delivered
        /\ k.id \in ID /\ k.id \in Nat /\ myTime[n] \in Nat /\ seqID[n] \in Nat
    BY <1>3 DEF ReceiveAck, Typed, TypeOK, Ack, ID
  <2>2. /\ round'[n].pc = "waiting" /\ round'[n].id = k.id /\ (round'[n].delivered <=> d)
        /\ \A x \in Node \ {n} : round'[x] = round[x]
        /\ clientBlock' = clientBlock /\ myTime' = myTime
    <3>1. round' = [round EXCEPT ![n] =
                      [pc |-> "waiting", id |-> k.id, witnesses |-> W, delivered |-> d]]
      BY <1>3 DEF ReceiveAck
    <3>2. clientBlock' = clientBlock /\ myTime' = myTime
      BY <1>3 DEF ReceiveAck
    <3> HIDE DEF W, d
    <3> QED BY <3>1, <3>2 DEF Typed, TypeOK
  <2>3. CASE d
    <3>1. Confirm(n, k.id)
      BY <1>3, <2>3 DEF ReceiveAck
    <3>2. /\ ConfirmedBlocks(n)' = ConfirmedBlocks(n) \cup {k.id}
          /\ \A x \in Node \ {n} : ConfirmedBlocks(x)' = ConfirmedBlocks(x)
          /\ seqID' = [seqID EXCEPT ![n] = @ + 1]
      BY <2>1, <3>1, ConfirmBlocks
    <3>3. /\ k.id < seqID[n] /\ k.id \notin clientBlock[n] /\ k.id \notin ConfirmedBlocks(n)
          /\ Cardinality(ConfirmedBlocks(n)) = myTime[n]
      BY <2>1 DEF BlockInv, Books
    <3>4. Cardinality(ConfirmedBlocks(n)') = myTime[n] + 1
      BY <2>1, <3>2, <3>3, OneMoreBlock
    <3>5. \A j \in ConfirmedBlocks(n) \cup clientBlock[n] : j < seqID[n] /\ j \in Nat
      BY BlocksFinite DEF BlockInv, Books, Typed, TypeOK, ID
    <3>6. seqID'[n] = seqID[n] + 1 /\ \A x \in Node \ {n} : seqID'[x] = seqID[x]
      BY <3>2 DEF Typed, TypeOK
    <3>7. ConfirmedBlocks(n) \cap clientBlock[n] = {}
      BY DEF BlockInv, Books
    <3>8. round'[n].delivered
      BY <2>2, <2>3
    <3> HIDE DEF d
    <3>9. Books(ConfirmedBlocks(n), clientBlock[n], round[n], myTime[n], seqID[n])'
      BY <2>1, <2>2, <3>2, <3>3, <3>4, <3>5, <3>6, <3>7, <3>8 DEF Books
    <3>10. ASSUME NEW x \in Node \ {n}
           PROVE  Books(ConfirmedBlocks(x), clientBlock[x], round[x], myTime[x], seqID[x])'
      BY <2>2, <3>2, <3>6, OtherBooks
    <3> QED BY <3>9, <3>10 DEF BlockInv
  <2>4. CASE ~d
    <3>1. stored' = stored /\ seqID' = seqID
      BY <1>3, <2>4 DEF ReceiveAck
    <3>2. \A x \in Node : ConfirmedBlocks(x)' = ConfirmedBlocks(x)
      BY <3>1 DEF ConfirmedBlocks
    <3>3. ~round'[n].delivered
      BY <2>2, <2>4
    <3> HIDE DEF d
    <3>4. Books(ConfirmedBlocks(n), clientBlock[n], round[n], myTime[n], seqID[n])'
      BY <2>1, <2>2, <3>1, <3>2, <3>3 DEF BlockInv, Books
    <3>5. ASSUME NEW x \in Node \ {n}
          PROVE  Books(ConfirmedBlocks(x), clientBlock[x], round[x], myTime[x], seqID[x])'
      BY <2>2, <3>1, <3>2, OtherBooks
    <3> QED BY <3>4, <3>5 DEF BlockInv
  <2> QED BY <2>3, <2>4
<1>4. ASSUME NEW n \in Node, ReceiveConfirm(n) PROVE BlockInv'
  <2> DEFINE i == round[n].id
             d == round[n].delivered
  <2>1. /\ round[n].pc = "waiting" /\ i \in ID /\ d \in BOOLEAN /\ clientBlock' = clientBlock
        /\ i < seqID[n] /\ i \notin clientBlock[n] /\ (d <=> i \in ConfirmedBlocks(n))
        /\ Cardinality(ConfirmedBlocks(n)) = myTime[n] + (IF d THEN 1 ELSE 0)
    BY <1>4 DEF ReceiveConfirm, Typed, TypeOK, RoundState, BlockInv, Books
  <2>2. CASE Advance(n, i, d)
    <3>1. /\ Books(ConfirmedBlocks(n), clientBlock[n], round[n], myTime[n], seqID[n])'
          /\ \A x \in Node \ {n} :
               /\ ConfirmedBlocks(x)' = ConfirmedBlocks(x)
               /\ round'[x] = round[x] /\ myTime'[x] = myTime[x] /\ seqID'[x] = seqID[x]
      BY <2>1, <2>2, AdvanceBooks
    <3>2. ASSUME NEW x \in Node \ {n}
          PROVE  Books(ConfirmedBlocks(x), clientBlock[x], round[x], myTime[x], seqID[x])'
      BY <2>1, <3>1, OtherBooks
    <3> QED BY <3>1, <3>2 DEF BlockInv
  <2>3. CASE UNCHANGED <<myTime, round, stored, seqID>>
    BY <2>1, <2>3 DEF BlockInv, ConfirmedBlocks
  <2> QED BY <1>4, <2>2, <2>3 DEF ReceiveConfirm
<1>5. ASSUME NEW n \in Node, NEW m \in Received(n), Store(n, m) PROVE BlockInv'
  <2>1. m \in TLCMessage /\ m.origin # n
    BY DEF Received, Typed, TypeOK
  <2> stored[n] \in SUBSET TLCMessage
    BY DEF Typed, TypeOK
  <2>2. BlocksOf(stored[n] \cup {m}, n) = BlocksOf(stored[n], n)
    BY <2>1, BlocksOfAdd
  <2>3. \A x \in Node : ConfirmedBlocks(x)' = ConfirmedBlocks(x)
    BY <1>5, <2>2 DEF Store, ConfirmedBlocks, Typed, TypeOK
  <2> QED BY <1>5, <2>3 DEF Store, BlockInv
<1>6. ASSUME NEW n \in Node, NEW m \in Received(n), HandleUnconfirmed(n, m) PROVE BlockInv'
  BY <1>6 DEF HandleUnconfirmed, BlockInv, ConfirmedBlocks
<1>7. ASSUME NEW n \in Node, NEW m \in Received(n), HandleConfirmed(n, m) PROVE BlockInv'
  BY <1>7 DEF HandleConfirmed, BlockInv, ConfirmedBlocks
<1>8. ASSUME NEW n \in Node, NEW c \in saving[n], SaveConfirmation(n, c) PROVE BlockInv'
  BY <1>8 DEF SaveConfirmation, BlockInv, ConfirmedBlocks
<1>9. CASE UNCHANGED vars
  BY <1>9 DEF vars, BlockInv, ConfirmedBlocks
<1> QED BY <1>1, <1>2, <1>3, <1>4, <1>5, <1>6, <1>7, <1>8, <1>9 DEF Next

\* A message other than a second confirmation of a block.
LEMMA AddOnce ==
  ASSUME TypeOK, NEW n \in Node, NEW m \in TLCMessage,
         \A o \in Node : EachOnce(stored[o], o),
         m.origin = n /\ m.confirmed # NotConfirmed => m.confirmed \notin ConfirmedBlocks(n),
         stored' = [stored EXCEPT ![n] = @ \cup {m}]
  PROVE  \A o \in Node : EachOnce(stored'[o], o)
<1>1. EachOnce(stored[n] \cup {m}, n)
  BY DEF EachOnce, Confirming, ConfirmedBlocks, BlocksOf
<1>2. \A o \in Node : stored'[o] = IF o = n THEN stored[n] \cup {m} ELSE stored[o]
  BY DEF TypeOK
<1> QED BY <1>1, <1>2

LEMMA ConfirmOnce ==
  ASSUME Typed, NEW n \in Node, NEW i \in ID, Confirm(n, i),
         \A o \in Node : EachOnce(stored[o], o), i \notin ConfirmedBlocks(n)
  PROVE  \A o \in Node : EachOnce(stored'[o], o)
<1> DEFINE m == [origin |-> n, id |-> seqID[n], confirmed |-> i, vc |-> Clock(stored[n])]
<1>1. m \in TLCMessage
  BY ClockType DEF Typed, TypeOK, StoredInv, TLCMessage
<1>2. m.confirmed = i
  OBVIOUS
<1>3. stored' = [stored EXCEPT ![n] = @ \cup {m}]
  BY DEF Confirm
<1> HIDE DEF m
<1> QED BY <1>1, <1>2, <1>3, AddOnce DEF Typed

\* A confirmation is sent only for a block that has none.
OnceInv == \A n \in Node : EachOnce(stored[n], n)

LEMMA NextOnce == Typed /\ BlockInv /\ OnceInv /\ [Next]_vars => OnceInv'
<1> SUFFICES ASSUME Typed, BlockInv, OnceInv, [Next]_vars
             PROVE  \A o \in Node : EachOnce(stored'[o], o)
  BY DEF OnceInv
<1>1. ASSUME stored' = stored PROVE \A o \in Node : EachOnce(stored'[o], o)
  BY <1>1 DEF OnceInv
<1>2. ASSUME NEW n \in Node, Publish(n) PROVE \A o \in Node : EachOnce(stored'[o], o)
  <2> DEFINE m == [origin |-> n, id |-> seqID[n], confirmed |-> NotConfirmed]
  <2>1. m \in TLCMessage /\ m.confirmed = NotConfirmed
    BY DEF Typed, TypeOK, TLCMessage
  <2>2. stored' = [stored EXCEPT ![n] = @ \cup {m}]
    BY <1>2 DEF Publish
  <2> HIDE DEF m
  <2> QED BY <2>1, <2>2, AddOnce DEF OnceInv, Typed
<1>3. ASSUME NEW n \in Node, NEW i \in clientBlock[n], StartRound(n, i)
      PROVE  \A o \in Node : EachOnce(stored'[o], o)
  <2>1. i \in ID /\ i \notin ConfirmedBlocks(n)
    BY DEF BlockInv, Books, Typed, TypeOK
  <2>2. CASE Confirm(n, i)
    BY <2>1, <2>2, ConfirmOnce DEF OnceInv
  <2>3. Confirm(n, i) \/ stored' = stored
    BY <1>3 DEF StartRound, Advance, Wait
  <2> QED BY <1>1, <2>2, <2>3
<1>4. ASSUME NEW n \in Node, NEW k \in acks, ReceiveAck(n, k)
      PROVE  \A o \in Node : EachOnce(stored'[o], o)
  <2>1. k.id \in ID /\ k.id \notin ConfirmedBlocks(n)
    BY <1>4 DEF ReceiveAck, BlockInv, Books, Typed, TypeOK, Ack
  <2>2. CASE Confirm(n, k.id)
    BY <2>1, <2>2, ConfirmOnce DEF OnceInv
  <2>3. Confirm(n, k.id) \/ stored' = stored
    BY <1>4 DEF ReceiveAck
  <2> QED BY <1>1, <2>2, <2>3
<1>5. ASSUME NEW n \in Node, ReceiveConfirm(n) PROVE \A o \in Node : EachOnce(stored'[o], o)
  <2> DEFINE i == round[n].id
             d == round[n].delivered
  <2>1. i \in ID /\ d \in BOOLEAN /\ (d <=> i \in ConfirmedBlocks(n))
    BY <1>5 DEF ReceiveConfirm, Typed, TypeOK, RoundState, BlockInv, Books
  <2>2. stored' = stored \/ (~d /\ Confirm(n, i))
    BY <1>5 DEF ReceiveConfirm, Advance
  <2> QED BY <1>1, <2>1, <2>2, ConfirmOnce DEF OnceInv
<1>6. ASSUME NEW n \in Node, NEW m \in Received(n), Store(n, m)
      PROVE  \A o \in Node : EachOnce(stored'[o], o)
  <2>1. m \in TLCMessage /\ m.origin # n /\ stored' = [stored EXCEPT ![n] = @ \cup {m}]
    BY <1>6 DEF Store, Received, Typed, TypeOK
  <2> QED BY <2>1, AddOnce DEF OnceInv, Typed
<1>7. ASSUME NEW n \in Node, NEW m \in Received(n), HandleUnconfirmed(n, m) \/ HandleConfirmed(n, m)
      PROVE  stored' = stored
  BY <1>7 DEF HandleUnconfirmed, HandleConfirmed
<1>8. ASSUME NEW n \in Node, NEW c \in saving[n], SaveConfirmation(n, c) PROVE stored' = stored
  BY <1>8 DEF SaveConfirmation
<1>9. CASE UNCHANGED vars
  BY <1>1, <1>9 DEF vars
<1> QED BY <1>1, <1>2, <1>3, <1>4, <1>5, <1>6, <1>7, <1>8, <1>9 DEF Next

\* Every round confirms exactly one block, however acks, notifications and
\* confirmations of the others interleave with gossipWithConfirmation.
THEOREM OneConfirmation == Spec => []OneConfirmationPerRound
<1>1. Init => Typed /\ BlockInv /\ OnceInv
  <2>1. Init => OnceInv
    BY DEF Init, OnceInv, EachOnce, Confirming
  <2> QED BY <2>1, InitTyped, InitBooks DEF Typed
<1>2. Typed /\ BlockInv /\ OnceInv /\ [Next]_vars => (Typed /\ BlockInv /\ OnceInv)'
  BY NextTyped, NextBooks, NextOnce DEF Typed
<1>3. BlockInv /\ OnceInv => OneConfirmationPerRound
  BY DEF BlockInv, OnceInv, Books, OneConfirmationPerRound
<1> QED BY <1>1, <1>2, <1>3, PTL DEF Spec

-----------------------------------------------------------------------------
(***************************************************************************)
(* What a node believes about confirmations, and when it moves on.         *)
(***************************************************************************)

\* A confirmation kept under round r has an origin with more than r of them.
Saved(n) ==
  /\ \A o \in Node : tlcStatus[n][o] \subseteq ConfirmedBlocks(o)
  /\ \A c \in confirmations[n] \cup saving[n] :
       c.round < Cardinality(ConfirmedBlocks(c.origin))
SavedInv == \A n \in Node : Saved(n)

\* The blocks in the books of a node are finitely many.
LEMMA BooksFinite ==
  ASSUME NEW B \in SUBSET ID, NEW C, NEW r, NEW t, NEW next \in Nat, Books(B, C, r, t, next)
  PROVE  IsFiniteSet(B) /\ Cardinality(B) \in Nat
BY BoundedIDs DEF Books

LEMMA StoredGrows ==
  ASSUME Typed, [Next]_vars, NEW x \in Node
  PROVE  stored[x] \subseteq stored'[x]
<1> USE DEF Typed, TypeOK
<1>1. ASSUME NEW n \in Node, NEW i, Confirm(n, i) PROVE stored[x] \subseteq stored'[x]
  BY <1>1 DEF Confirm
<1>2. ASSUME NEW n \in Node, NEW i, NEW d, Advance(n, i, d)
      PROVE  stored[x] \subseteq stored'[x]
  BY <1>1, <1>2 DEF Advance
<1>3. ASSUME NEW n \in Node, Publish(n) PROVE stored[x] \subseteq stored'[x]
  BY <1>3 DEF Publish
<1>4. ASSUME NEW n \in Node, NEW i \in clientBlock[n], StartRound(n, i)
      PROVE  stored[x] \subseteq stored'[x]
  <2>1. CASE Advance(n, i, FALSE)
    <3>1. Confirm(n, i)
      BY <2>1, Zenon DEF Advance
    <3> QED BY <1>1, <3>1
  <2>2. CASE Wait(n, i)
    BY <2>2 DEF Wait
  <2> QED BY <1>4, <2>1, <2>2 DEF StartRound
<1>5. ASSUME NEW n \in Node, NEW k \in acks, ReceiveAck(n, k)
      PROVE  stored[x] \subseteq stored'[x]
  <2>1. Confirm(n, k.id) \/ stored' = stored
    BY <1>5 DEF ReceiveAck
  <2> QED BY <1>1, <2>1
<1>6. ASSUME NEW n \in Node, ReceiveConfirm(n) PROVE stored[x] \subseteq stored'[x]
  <2>1. Advance(n, round[n].id, round[n].delivered) \/ stored' = stored
    BY <1>6 DEF ReceiveConfirm
  <2> QED BY <1>2, <2>1
<1>7. ASSUME NEW n \in Node, NEW m \in Received(n), Store(n, m)
      PROVE  stored[x] \subseteq stored'[x]
  BY <1>7 DEF Store
<1>8. ASSUME NEW n \in Node, NEW m \in Received(n),
             HandleUnconfirmed(n, m) \/ HandleConfirmed(n, m)
      PROVE  stored[x] \subseteq stored'[x]
  BY <1>8 DEF HandleUnconfirmed, HandleConfirmed
<1>9. ASSUME NEW n \in Node, NEW c \in saving[n], SaveConfirmation(n, c)
      PROVE  stored[x] \subseteq stored'[x]
  BY <1>9 DEF SaveConfirmation
<1>10. CASE UNCHANGED vars
  BY <1>10 DEF vars
<1> QED BY <1>3, <1>4, <1>5, <1>6, <1>7, <1>8, <1>9, <1>10 DEF Next

\* A step never takes a confirmation back.
LEMMA BlocksGrow ==
  ASSUME Typed, BlockInv, [Next]_vars, NEW x \in Node
  PROVE  /\ ConfirmedBlocks(x) \subseteq ConfirmedBlocks(x)'
         /\ Cardinality(ConfirmedBlocks(x)) \in Nat
         /\ Cardinality(ConfirmedBlocks(x)') \in Nat
         /\ Cardinality(ConfirmedBlocks(x)) <= Cardinality(ConfirmedBlocks(x)')
<1>1. Typed' /\ BlockInv'
  BY NextTyped, NextBooks DEF Typed
<1>2. ConfirmedBlocks(x) \subseteq ConfirmedBlocks(x)'
  BY StoredGrows DEF ConfirmedBlocks, BlocksOf, Confirming
<1>3. ConfirmedBlocks(x)' \in SUBSET ID /\ seqID'[x] \in Nat
  BY <1>1, BlocksOfType DEF Typed, TypeOK, ConfirmedBlocks, ID
<1>4. Books(ConfirmedBlocks(x)', clientBlock'[x], round'[x], myTime'[x], seqID'[x])
  BY <1>1 DEF BlockInv
<1>5. IsFiniteSet(ConfirmedBlocks(x)')
  BY <1>3, <1>4, BooksFinite
<1> QED BY <1>2, <1>5, SubsetCardinality

\* The round computed for a confirmation counts confirmations of its origin
\* without the one at hand.
LEMMA RoundBelow ==
  ASSUME Typed, BlockInv, SavedInv, NEW n \in Node, NEW m \in Received(n),
         m.confirmed # NotConfirmed
  PROVE  /\ m.confirmed \in ConfirmedBlocks(m.origin)
         /\ RoundOf(n, m) < Cardinality(ConfirmedBlocks(m.origin))
<1> DEFINE o == m.origin
           K == {k \in tlcStatus[n][o] : k < m.confirmed}
<1>1. o \in Node /\ m \in stored[o] /\ m.confirmed \in Nat
  BY DEF Received, Typed, TypeOK, StoredInv, TLCMessage, ID
<1>2. m.confirmed \in ConfirmedBlocks(o)
  BY <1>1 DEF ConfirmedBlocks, BlocksOf, Confirming
<1>3. K \subseteq ConfirmedBlocks(o) \ {m.confirmed}
  BY <1>1 DEF SavedInv, Saved
<1>4. IsFiniteSet(ConfirmedBlocks(o)) /\ Cardinality(ConfirmedBlocks(o)) \in Nat
  BY <1>1, BlocksFinite
<1>5. /\ IsFiniteSet(ConfirmedBlocks(o) \ {m.confirmed})
      /\ Cardinality(ConfirmedBlocks(o) \ {m.confirmed}) = Cardinality(ConfirmedBlocks(o)) - 1
  BY <1>2, <1>4, FS_RemoveElement
<1>6. Cardinality(K) \in Nat /\ Cardinality(K) <= Cardinality(ConfirmedBlocks(o)) - 1
  BY <1>3, <1>5, SubsetCardinality
<1>7. RoundOf(n, m) = Cardinality(K)
  BY DEF RoundOf, getMessageOriginalRound
<1> QED BY <1>2, <1>4, <1>6, <1>7

LEMMA InitSaved == Init => SavedInv /\ MajorityConfirmed
BY DEF Init, SavedInv, Saved, MajorityConfirmed

LEMMA NextSaved == Typed /\ BlockInv /\ SavedInv /\ [Next]_vars => SavedInv'
<1> SUFFICES ASSUME Typed, BlockInv, SavedInv, [Next]_vars PROVE SavedInv'
  OBVIOUS
<1>1. \A x \in Node :
        /\ ConfirmedBlocks(x) \subseteq ConfirmedBlocks(x)'
        /\ Cardinality(ConfirmedBlocks(x)) \in Nat
        /\ Cardinality(ConfirmedBlocks(x)') \in Nat
        /\ Cardinality(ConfirmedBlocks(x)) <= Cardinality(ConfirmedBlocks(x)')
  BY BlocksGrow
<1>2. \A n \in Node : \A c \in confirmations[n] \cup saving[n] :
        c.round < Cardinality(ConfirmedBlocks(c.origin)')
  BY <1>1 DEF SavedInv, Saved, Typed, TypeOK, Confirmation
<1>3. \A n, o \in Node : tlcStatus[n][o] \subseteq ConfirmedBlocks(o)'
  BY <1>1 DEF SavedInv, Saved
<1>4. CASE UNCHANGED <<confirmations, tlcStatus, saving>>
  BY <1>2, <1>3, <1>4 DEF SavedInv, Saved
<1>5. ASSUME NEW n \in Node, NEW k \in acks, ReceiveAck(n, k) PROVE SavedInv'
  <2> DEFINE c == [round |-> myTime[n], origin |-> n, confirmed |-> k.id]
             W == round[n].witnesses \cup {k.from}
             d == Majority(W)
  <2>1. CASE d
    <3>1. /\ confirmations' = [confirmations EXCEPT ![n] = Put(@, c)]
          /\ UNCHANGED <<tlcStatus, saving>> /\ myTime' = myTime
      BY <1>5, <2>1 DEF ReceiveAck
    <3>2. round' = [round EXCEPT ![n] =
                      [pc |-> "waiting", id |-> k.id, witnesses |-> W, delivered |-> d]]
      BY <1>5 DEF ReceiveAck
    <3>3. round'[n].pc = "waiting" /\ round'[n].delivered
      <4> HIDE DEF W, d
      <4> QED BY <2>1, <3>2 DEF Typed, TypeOK
    <3>4. Books(ConfirmedBlocks(n)', clientBlock'[n], round'[n], myTime'[n], seqID'[n])
      BY NextBooks DEF BlockInv
    <3>5. c.round < Cardinality(ConfirmedBlocks(n)') /\ c.origin = n
      BY <3>1, <3>3, <3>4 DEF Books, Typed, TypeOK
    <3>6. \A x \in Node : confirmations'[x] \subseteq
            confirmations[x] \cup (IF x = n THEN {c} ELSE {})
      BY <3>1 DEF Typed, TypeOK, Put
    <3> HIDE DEF c
    <3>7. ASSUME NEW x \in Node, NEW y \in confirmations'[x] \cup saving'[x]
          PROVE  y.round < Cardinality(ConfirmedBlocks(y.origin)')
      BY <1>2, <3>1, <3>5, <3>6, <3>7
    <3> QED BY <1>3, <3>1, <3>7 DEF SavedInv, Saved
  <2>2. CASE ~d
    BY <1>4, <1>5, <2>2 DEF ReceiveAck
  <2> QED BY <2>1, <2>2
<1>6. ASSUME NEW n \in Node, NEW m \in Received(n), HandleConfirmed(n, m) PROVE SavedInv'
  <2> DEFINE c == [round |-> RoundOf(n, m), origin |-> m.origin, confirmed |-> m.confirmed]
  <2>1. /\ m.confirmed \in ConfirmedBlocks(m.origin) /\ m.origin \in Node
        /\ RoundOf(n, m) < Cardinality(ConfirmedBlocks(m.origin)) /\ RoundOf(n, m) \in Nat
    BY <1>6, RoundBelow, RoundOfType DEF HandleConfirmed, Received, Typed, TypeOK, TLCMessage
  <2>2. c.round < Cardinality(ConfirmedBlocks(m.origin)') /\ c.origin = m.origin
    BY <1>1, <2>1
  <2>3. /\ confirmations' = confirmations
        /\ \A x \in Node : saving'[x] \subseteq saving[x] \cup {c}
        /\ tlcStatus' = [tlcStatus EXCEPT ![n][m.origin] = @ \cup {m.confirmed}]
    BY <1>6 DEF HandleConfirmed, Typed, TypeOK
  <2> HIDE DEF c
  <2>4. \A x, o \in Node : tlcStatus'[x][o] \subseteq ConfirmedBlocks(o)'
    BY <1>1, <1>3, <2>1, <2>3 DEF Typed, TypeOK
  <2>5. ASSUME NEW x \in Node, NEW y \in confirmations'[x] \cup saving'[x]
        PROVE  y.round < Cardinality(ConfirmedBlocks(y.origin)')
    <3>1. y \in confirmations[x] \cup saving[x] \/ y = c
      BY <2>3, <2>5
    <3> QED BY <1>2, <2>2, <3>1
  <2> QED BY <2>4, <2>5 DEF SavedInv, Saved
<1>7. ASSUME NEW n \in Node, NEW c \in saving[n], SaveConfirmation(n, c) PROVE SavedInv'
  <2>1. \A x \in Node : confirmations'[x] \cup saving'[x] \subseteq confirmations[x] \cup saving[x]
    BY <1>7 DEF SaveConfirmation, Put, Typed, TypeOK
  <2>2. tlcStatus' = tlcStatus
    BY <1>7 DEF SaveConfirmation
  <2> QED BY <1>2, <1>3, <2>1, <2>2 DEF SavedInv, Saved
<1>8. ASSUME NEW n \in Node,
             \/ Publish(n) \/ ReceiveConfirm(n)
             \/ \E i \in clientBlock[n] : StartRound(n, i)
             \/ \E m \in Received(n) : Store(n, m) \/ HandleUnconfirmed(n, m)
      PROVE  UNCHANGED <<confirmations, tlcStatus, saving>>
  BY <1>8 DEF Publish, ReceiveConfirm, StartRound, Store, HandleUnconfirmed
<1>9. CASE UNCHANGED vars
  BY <1>4, <1>9 DEF vars
<1> QED BY <1>4, <1>5, <1>6, <1>7, <1>8, <1>9 DEF Next

\* A node moves on by one round, and only with a majority.
LEMMA TimeStep ==
  ASSUME Typed, [Next]_vars, NEW n \in Node
  PROVE  \/ myTime'[n] = myTime[n]
         \/ myTime'[n] = myTime[n] + 1 /\ Majority(Confirmed(n, myTime[n]))
<1> USE DEF Typed, TypeOK
<1>1. ASSUME NEW x \in Node, NEW i \in clientBlock[x], StartRound(x, i)
      PROVE  \/ myTime'[n] = myTime[n]
             \/ myTime'[n] = myTime[n] + 1 /\ Majority(Confirmed(n, myTime[n]))
  BY <1>1 DEF StartRound, Advance, Wait
<1>2. ASSUME NEW x \in Node, ReceiveConfirm(x)
      PROVE  \/ myTime'[n] = myTime[n]
             \/ myTime'[n] = myTime[n] + 1 /\ Majority(Confirmed(n, myTime[n]))
  BY <1>2 DEF ReceiveConfirm, Advance
<1>3. ASSUME NEW x \in Node,
             \/ Publish(x) \/ \E k \in acks : ReceiveAck(x, k)
             \/ \E m \in Received(x) :
                  Store(x, m) \/ HandleUnconfirmed(x, m) \/ HandleConfirmed(x, m)
             \/ \E c \in saving[x] : SaveConfirmation(x, c)
      PROVE  myTime' = myTime
  BY <1>3 DEF Publish, ReceiveAck, Store, HandleUnconfirmed, HandleConfirmed, SaveConfirmation
<1>4. CASE UNCHANGED vars
  BY <1>4 DEF vars
<1> QED BY <1>1, <1>2, <1>3, <1>4 DEF Next

LEMMA NextMajority ==
  Typed /\ BlockInv /\ SavedInv /\ MajorityConfirmed /\ [Next]_vars => MajorityConfirmed'
<1> SUFFICES ASSUME Typed, BlockInv, SavedInv, MajorityConfirmed, [Next]_vars,
                    NEW n \in Node, myTime'[n] > 0
             PROVE  2 * Cardinality({o \in Node : Cardinality(ConfirmedBlocks(o)') >= myTime'[n]})
                      > Cardinality(Node)
  BY DEF MajorityConfirmed
<1> DEFINE After == {o \in Node : Cardinality(ConfirmedBlocks(o)') >= myTime'[n]}
<1>1. IsFiniteSet(After) /\ Cardinality(After) \in Nat /\ Cardinality(Node) \in Nat
  BY SubsetCardinality, RoundsAssumption
<1>2. myTime[n] \in Nat
  BY DEF Typed, TypeOK
<1>3. \A x \in Node : /\ Cardinality(ConfirmedBlocks(x)) \in Nat
                      /\ Cardinality(ConfirmedBlocks(x)') \in Nat
                      /\ Cardinality(ConfirmedBlocks(x)) <= Cardinality(ConfirmedBlocks(x)')
  BY BlocksGrow
<1>4. CASE myTime'[n] = myTime[n]
  <2> DEFINE Before == {o \in Node : Cardinality(ConfirmedBlocks(o)) >= myTime[n]}
  <2>1. 2 * Cardinality(Before) > Cardinality(Node)
    BY <1>4 DEF MajorityConfirmed
  <2>2. Before \subseteq After
    BY <1>2, <1>3, <1>4
  <2>3. Cardinality(Before) \in Nat /\ Cardinality(Before) <= Cardinality(After)
    BY <1>1, <2>2, SubsetCardinality
  <2> HIDE DEF Before, After
  <2>4. 2 * Cardinality(After) > Cardinality(Node)
    BY <1>1, <2>1, <2>3
  <2> QED BY <2>4 DEF After
<1>5. CASE myTime'[n] = myTime[n] + 1 /\ Majority(Confirmed(n, myTime[n]))
  <2>1. ASSUME NEW o \in Confirmed(n, myTime[n])
        PROVE  o \in After
    <3>1. PICK c \in confirmations[n] : c.round = myTime[n] /\ c.origin = o
      BY DEF Confirmed
    <3>2. o \in Node /\ myTime[n] < Cardinality(ConfirmedBlocks(o))
      BY <3>1 DEF SavedInv, Saved, Typed, TypeOK, Confirmation
    <3> QED BY <1>2, <1>3, <1>5, <3>2
  <2>2. /\ Cardinality(Confirmed(n, myTime[n])) \in Nat
        /\ Cardinality(Confirmed(n, myTime[n])) <= Cardinality(After)
    BY <1>1, <2>1, SubsetCardinality
  <2>3. Cardinality(Confirmed(n, myTime[n])) > Cardinality(Node) \div 2
    BY <1>5 DEF Majority
  <2> HIDE DEF After
  <2>4. 2 * Cardinality(After) > Cardinality(Node)
    BY <1>1, <2>2, <2>3
  <2> QED BY <2>4 DEF After
<1> QED BY <1>4, <1>5, TimeStep

\* A node is in round r only when more than half of the nodes have sent r
\* confirmations: no order of acks, confirmations, retries and blocks, and no
\* confirmation saved under the wrong round, lets it run ahead of a majority.
THEOREM RoundsNeedMajority == Spec => []MajorityConfirmed
<1> DEFINE IInv == Typed /\ BlockInv /\ SavedInv /\ MajorityConfirmed
<1>1. Init => IInv
  BY InitTyped, InitBooks, InitSaved DEF Typed
<1>2. IInv /\ [Next]_vars => IInv'
  BY NextTyped, NextBooks, NextSaved, NextMajority DEF Typed
<1>3. IInv => MajorityConfirmed
  OBVIOUS
<1> QED BY <1>1, <1>2, <1>3, PTL DEF Spec

-----------------------------------------------------------------------------
(***************************************************************************)
(* Notifications: NoLostWakeup is inductive with the types.                *)
(***************************************************************************)

\* What NoLostWakeup says of one node: r, C, t and w are its round, its
\* confirmations, its time and whether a notification waits.
Awake(r, C, t, w) ==
  r.pc = "waiting" /\ Majority({c.origin : c \in {x \in C : x.round = t}}) => w = TRUE

WakeInv == \A n \in Node : Awake(round[n], confirmations[n], myTime[n], tlcConfirm[n])

LEMMA NextWakeup == Typed /\ WakeInv /\ [Next]_vars => WakeInv'
<1> SUFFICES ASSUME Typed, WakeInv, [Next]_vars, NEW x \in Node
             PROVE  Awake(round'[x], confirmations'[x], myTime'[x], tlcConfirm'[x])
  BY DEF WakeInv
<1> DEFINE Goal == Awake(round'[x], confirmations'[x], myTime'[x], tlcConfirm'[x])
<1>1. ASSUME round'[x] = round[x], confirmations'[x] = confirmations[x],
             myTime'[x] = myTime[x], tlcConfirm'[x] = tlcConfirm[x]
      PROVE  Goal
  BY <1>1 DEF WakeInv
<1>2. ASSUME tlcConfirm'[x] = TRUE \/ round'[x].pc = "idle" PROVE Goal
  BY <1>2 DEF Awake
<1>3. ASSUME NEW n \in Node, Publish(n) PROVE Goal
  BY <1>1, <1>3 DEF Publish
<1>4. ASSUME NEW n \in Node, NEW i \in clientBlock[n], StartRound(n, i) PROVE Goal
  <2>1. CASE x # n
    BY <1>1, <1>4, <2>1 DEF StartRound, Advance, Wait, Typed, TypeOK
  <2>2. CASE x = n /\ Majority(Confirmed(n, myTime[n]))
    BY <1>2, <1>4, <2>2 DEF StartRound, Advance, Typed, TypeOK
  <2>3. CASE x = n /\ ~Majority(Confirmed(n, myTime[n]))
    <3>1. UNCHANGED <<myTime, confirmations>>
      BY <1>4, <2>3 DEF StartRound, Wait
    <3>2. ~Majority(Confirmed(x, myTime[x]))
      BY <2>3, Zenon
    <3> QED BY <3>1, <3>2 DEF Awake, Confirmed
  <2> QED BY <2>1, <2>2, <2>3
<1>5. ASSUME NEW n \in Node, NEW k \in acks, ReceiveAck(n, k) PROVE Goal
  <2> DEFINE W == round[n].witnesses \cup {k.from}
             d == Majority(W)
  <2>1. CASE x = n /\ d
    BY <1>2, <1>5, <2>1 DEF ReceiveAck, Typed, TypeOK
  <2>2. CASE x # n
    <3>1. /\ round' = [round EXCEPT ![n] =
                [pc |-> "waiting", id |-> k.id, witnesses |-> W, delivered |-> d]]
          /\ myTime' = myTime
      BY <1>5 DEF ReceiveAck
    <3>2. \/ /\ tlcConfirm' = [tlcConfirm EXCEPT ![n] = TRUE]
             /\ \E C : confirmations' = [confirmations EXCEPT ![n] = C]
          \/ tlcConfirm' = tlcConfirm /\ confirmations' = confirmations
      BY <1>5 DEF ReceiveAck
    <3> HIDE DEF W, d
    <3>3. round'[x] = round[x] /\ myTime'[x] = myTime[x]
      BY <2>2, <3>1 DEF Typed, TypeOK
    <3>4. confirmations'[x] = confirmations[x] /\ tlcConfirm'[x] = tlcConfirm[x]
      BY <2>2, <3>2 DEF Typed, TypeOK
    <3> QED BY <1>1, <3>3, <3>4
  <2>3. CASE x = n /\ ~d
    <3>1. /\ round[n].pc = "waiting" /\ myTime' = myTime
          /\ confirmations' = confirmations /\ tlcConfirm' = tlcConfirm
      BY <1>5, <2>3 DEF ReceiveAck
    <3> QED BY <2>3, <3>1 DEF WakeInv, Awake
  <2> QED BY <2>1, <2>2, <2>3
<1>6. ASSUME NEW n \in Node, ReceiveConfirm(n) PROVE Goal
  <2>1. CASE x # n
    BY <1>1, <1>6, <2>1 DEF ReceiveConfirm, Advance, Typed, TypeOK
  <2>2. CASE x = n /\ Majority(Confirmed(n, myTime[n]))
    <3>1. Advance(n, round[n].id, round[n].delivered)
      BY <1>6, <2>2 DEF ReceiveConfirm
    <3>2. round' = [round EXCEPT ![n] = [pc |-> "idle"]]
      BY <3>1 DEF Advance
    <3> QED BY <1>2, <2>2, <3>2 DEF Typed, TypeOK
  <2>3. CASE x = n /\ ~Majority(Confirmed(n, myTime[n]))
    BY <1>6, <2>3 DEF ReceiveConfirm, Awake, Confirmed
  <2> QED BY <2>1, <2>2, <2>3
<1>7. ASSUME NEW n \in Node, NEW m \in Received(n), Store(n, m) \/ HandleUnconfirmed(n, m)
      PROVE  Goal
  BY <1>1, <1>7 DEF Store, HandleUnconfirmed
<1>8. ASSUME NEW n \in Node, NEW m \in Received(n), HandleConfirmed(n, m) PROVE Goal
  <2>1. /\ UNCHANGED <<round, confirmations, myTime>>
        /\ tlcConfirm' = tlcConfirm \/ tlcConfirm' = [tlcConfirm EXCEPT ![n] = TRUE]
    BY <1>8 DEF HandleConfirmed
  <2> QED BY <1>1, <1>2, <2>1 DEF Typed, TypeOK
<1>9. ASSUME NEW n \in Node, NEW c \in saving[n], SaveConfirmation(n, c) PROVE Goal
  <2>1. CASE x = n
    BY <1>2, <1>9, <2>1 DEF SaveConfirmation, Typed, TypeOK
  <2>2. CASE x # n
    BY <1>1, <1>9, <2>2 DEF SaveConfirmation, Typed, TypeOK
  <2> QED BY <2>1, <2>2
<1>10. CASE UNCHANGED vars
  BY <1>1, <1>10 DEF vars
<1>11. CASE Next
  BY <1>3, <1>4, <1>5, <1>6, <1>7, <1>8, <1>9, <1>11, ZenonT(30) DEF Next
<1> QED BY <1>10, <1>11

\* A goroutine whose round has its majority is always notified, for any
\* interleaving of its tests with confirmations saved early, late or by itself.
THEOREM WakeupsAreNotLost == Spec => []NoLostWakeup
<1>1. Init => Typed /\ WakeInv
  BY InitTyped DEF Typed, Init, WakeInv, Awake
<1>2. Typed /\ WakeInv /\ [Next]_vars => (Typed /\ WakeInv)'
  BY NextTyped, NextWakeup DEF Typed
<1>3. Typed /\ WakeInv => NoLostWakeup
  BY DEF WakeInv, Awake, NoLostWakeup, Confirmed
<1> QED BY <1>1, <1>2, <1>3, PTL DEF Spec
-----------------------------------------------------------------------------
(***************************************************************************)
(* The abstract clock: each step of the rounds is one of ThresholdClock or *)
(* leaves its state as it is.                                              *)
(***************************************************************************)

Sent == [n \in Node |-> Cardinality(ConfirmedBlocks(n))]

\* 1 when the confirmation of the round is sent, and 0 before.
Delivered(r) == IF r.pc = "waiting" /\ r.delivered THEN 1 ELSE 0

\* How many confirmations a node has sent follows from its round.
SentInv ==
  \A x \in Node : Sent[x] = myTime[x] + Delivered(round[x]) /\ Sent[x] \in Nat

LEMMA SentByRound == Typed /\ BlockInv => SentInv
BY BlocksFinite DEF Sent, SentInv, BlockInv, Books, Delivered

\* ThresholdClock counts as this module does.
LEMMA SameCardinality == \A S : Threshold!Cardinality(S) = Cardinality(S)
BY DEF Threshold!Cardinality, Cardinality

\* A node in its round moves on: the abstract clock ticks.
LEMMA AdvanceTicks ==
  ASSUME Typed, SavedInv, SentInv, SentInv', NEW n \in Node,
         Majority(Confirmed(n, myTime[n])),
         myTime' = [myTime EXCEPT ![n] = @ + 1],
         round' = [round EXCEPT ![n] = [pc |-> "idle"]]
  PROVE  Threshold!Tick(n)
<1>1. Threshold!Majority(Threshold!Ahead(n))
  <2> DEFINE A == {o \in Node : Sent[o] > myTime[n]}
             C == Confirmed(n, myTime[n])
  <2>1. \A o \in C : o \in Node /\ myTime[n] < Cardinality(ConfirmedBlocks(o))
    BY DEF Confirmed, SavedInv, Saved, Typed, TypeOK, Confirmation
  <2>2. C \subseteq A
    <3>1. \A o \in C : o \in Node /\ Sent[o] = Cardinality(ConfirmedBlocks(o))
      BY <2>1 DEF Sent
    <3>2. \A o \in Node : Sent[o] \in Nat /\ myTime[n] \in Nat
      BY DEF SentInv, Typed, TypeOK
    <3> QED BY <2>1, <3>1, <3>2
  <2>3. /\ Cardinality(C) \in Nat /\ Cardinality(A) \in Nat /\ Cardinality(C) <= Cardinality(A)
        /\ Cardinality(Node) \in Nat
    <3>1. IsFiniteSet(A) /\ Cardinality(Node) \in Nat
      BY SubsetCardinality, RoundsAssumption
    <3> HIDE DEF A, C
    <3> QED BY <2>2, <3>1, SubsetCardinality
  <2>4. Cardinality(C) > Cardinality(Node) \div 2
    BY DEF Majority
  <2> HIDE DEF C
  <2>5. Cardinality(A) > Cardinality(Node) \div 2
    <3> HIDE DEF A
    <3>1. Cardinality(Node) \div 2 \in Nat
      BY <2>3
    <3> QED BY <2>3, <2>4, <3>1
  <2>6. Threshold!Ahead(n) = A
    BY DEF Threshold!Ahead, Sent
  <2> HIDE DEF A
  <2> QED BY <2>5, <2>6, SameCardinality DEF Threshold!Majority
<1>2. Sent' = [Sent EXCEPT ![n] = myTime[n] + 1]
  <2>1. Sent \in [Node -> Nat] /\ Sent' \in [Node -> Nat]
    <3>1. Sent = [x \in Node |-> Sent[x]] /\ Sent' = [x \in Node |-> Sent'[x]]
      BY DEF Sent
    <3>2. \A x \in Node : Sent[x] \in Nat /\ Sent'[x] \in Nat
      BY DEF SentInv
    <3> QED BY <3>1, <3>2
  <2>2. Sent'[n] = myTime[n] + 1
    <3>1. myTime'[n] = myTime[n] + 1 /\ round'[n].pc = "idle" /\ myTime[n] \in Nat
      BY DEF Typed, TypeOK
    <3>2. Delivered(round'[n]) = 0
      BY <3>1 DEF Delivered
    <3>3. Sent'[n] = myTime'[n] + Delivered(round'[n])
      BY DEF SentInv
    <3> QED BY <3>1, <3>2, <3>3
  <2>3. \A x \in Node \ {n} : Sent'[x] = Sent[x]
    <3>1. \A x \in Node \ {n} : myTime'[x] = myTime[x] /\ round'[x] = round[x]
      BY DEF Typed, TypeOK
    <3>2. \A x \in Node : /\ Sent[x] = myTime[x] + Delivered(round[x])
                          /\ Sent'[x] = myTime'[x] + Delivered(round'[x])
      BY DEF SentInv
    <3> QED BY <3>1, <3>2
  <2> QED BY <2>1, <2>2, <2>3
<1> QED BY <1>1, <1>2 DEF Threshold!Tick, Sent

LEMMA InitTicks == Init => Threshold!Init
<1> SUFFICES ASSUME Init PROVE Threshold!Init
  OBVIOUS
<1>1. \A n \in Node : ConfirmedBlocks(n) = {}
  BY DEF Init, ConfirmedBlocks, BlocksOf, Confirming
<1>2. \A n \in Node : Cardinality(ConfirmedBlocks(n)) = 0
  BY <1>1, FS_EmptySet
<1> QED BY <1>2 DEF Init, Threshold!Init

LEMMA NextTicks ==
  ASSUME Typed, SavedInv, SentInv, SentInv', [Next]_vars
  PROVE  [Threshold!Next]_(Threshold!vars)
<1> DEFINE Goal == [Threshold!Next]_(Threshold!vars)
<1>1. ASSUME myTime' = myTime, \A x \in Node : Delivered(round'[x]) = Delivered(round[x])
      PROVE  Goal
  <2>1. \A x \in Node : Sent'[x] = Sent[x]
    BY <1>1 DEF SentInv
  <2>2. Sent' = Sent
    <3>1. Sent = [x \in Node |-> Sent[x]] /\ Sent' = [x \in Node |-> Sent'[x]]
      BY DEF Sent
    <3> QED BY <2>1, <3>1
  <2> QED BY <1>1, <2>2 DEF Threshold!vars, Sent
<1>2. ASSUME NEW n \in Node, Threshold!Tick(n) \/ Threshold!Confirm(n) PROVE Goal
  BY <1>2 DEF Threshold!Next
<1>3. ASSUME NEW n \in Node, NEW i \in clientBlock[n], StartRound(n, i) PROVE Goal
  <2>1. CASE Majority(Confirmed(n, myTime[n]))
    <3>1. /\ myTime' = [myTime EXCEPT ![n] = @ + 1]
          /\ round' = [round EXCEPT ![n] = [pc |-> "idle"]]
      BY <1>3, <2>1 DEF StartRound, Advance
    <3> QED BY <1>2, <2>1, <3>1, AdvanceTicks
  <2>2. CASE ~Majority(Confirmed(n, myTime[n]))
    <3>1. Wait(n, i) /\ round[n].pc = "idle"
      BY <1>3, <2>2 DEF StartRound
    <3>2. myTime' = myTime /\ \A x \in Node : round'[x] = round[x] \/
            (x = n /\ round'[x].pc = "waiting" /\ round'[x].delivered = FALSE)
      BY <3>1 DEF Wait, Typed, TypeOK
    <3> QED BY <1>1, <3>1, <3>2 DEF Delivered
  <2> QED BY <2>1, <2>2
<1>4. ASSUME NEW n \in Node, NEW k \in acks, ReceiveAck(n, k) PROVE Goal
  <2> DEFINE W == round[n].witnesses \cup {k.from}
             d == Majority(W)
  <2>1. /\ myTime' = myTime /\ round[n].pc = "waiting" /\ ~round[n].delivered
        /\ round' = [round EXCEPT ![n] =
                      [pc |-> "waiting", id |-> k.id, witnesses |-> W, delivered |-> d]]
    BY <1>4 DEF ReceiveAck
  <2> HIDE DEF W, d
  <2>2. /\ round'[n].pc = "waiting" /\ round'[n].delivered = d
        /\ \A x \in Node \ {n} : round'[x] = round[x]
    BY <2>1 DEF Typed, TypeOK
  <2>3. CASE ~d
    BY <1>1, <2>1, <2>2, <2>3 DEF Delivered
  <2>4. CASE d
    <3>1. Delivered(round[n]) = 0 /\ Delivered(round'[n]) = 1
      BY <2>1, <2>2, <2>4 DEF Delivered
    <3>2. Sent[n] = myTime[n] /\ Sent'[n] = Sent[n] + 1
      BY <2>1, <3>1 DEF SentInv, Typed, TypeOK
    <3>3. \A x \in Node \ {n} : Sent'[x] = Sent[x]
      BY <2>1, <2>2 DEF SentInv
    <3>4. Sent' = [Sent EXCEPT ![n] = @ + 1]
      <4>1. Sent = [x \in Node |-> Sent[x]] /\ Sent' = [x \in Node |-> Sent'[x]]
        BY DEF Sent
      <4> QED BY <3>2, <3>3, <4>1
    <3>5. Threshold!Confirm(n)
      BY <2>1, <3>2, <3>4 DEF Threshold!Confirm, Sent
    <3> QED BY <1>2, <3>5
  <2> QED BY <2>3, <2>4
<1>5. ASSUME NEW n \in Node, ReceiveConfirm(n) PROVE Goal
  <2>1. CASE Majority(Confirmed(n, myTime[n]))
    <3>1. /\ myTime' = [myTime EXCEPT ![n] = @ + 1]
          /\ round' = [round EXCEPT ![n] = [pc |-> "idle"]]
      BY <1>5, <2>1 DEF ReceiveConfirm, Advance
    <3> QED BY <1>2, <2>1, <3>1, AdvanceTicks
  <2>2. CASE ~Majority(Confirmed(n, myTime[n]))
    BY <1>1, <1>5, <2>2 DEF ReceiveConfirm
  <2> QED BY <2>1, <2>2
<1>6. ASSUME NEW n \in Node,
             \/ Publish(n)
             \/ \E m \in Received(n) : Store(n, m) \/ HandleUnconfirmed(n, m) \/ HandleConfirmed(n, m)
             \/ \E c \in saving[n] : SaveConfirmation(n, c)
      PROVE  Goal
  <2>1. UNCHANGED <<myTime, round>>
    BY <1>6 DEF Publish, Store, HandleUnconfirmed, HandleConfirmed, SaveConfirmation
  <2> QED BY <1>1, <2>1
<1>7. CASE UNCHANGED vars
  <2>1. UNCHANGED <<myTime, round>>
    BY <1>7 DEF vars
  <2> QED BY <1>1, <2>1
<1> HIDE DEF Goal
<1>8. ASSUME Next PROVE Goal
  BY <1>3, <1>4, <1>5, <1>6, <1>8, ZenonT(30) DEF Next
<1> QED BY <1>7, <1>8 DEF Goal

\* Packets, acks, queues and notifications implement a threshold logical clock:
\* gossipWithConfirmation confirms once in a round, and a node's round ends only
\* after more than half of the nodes have confirmed in it.
THEOREM RoundsAreClock == Spec => ImplementsClock
<1> DEFINE IInv == Typed /\ BlockInv /\ SavedInv
<1>1. Init => IInv /\ Threshold!Init
  BY InitTyped, InitBooks, InitSaved, InitTicks DEF Typed
<1>2. IInv /\ [Next]_vars => IInv'
  BY NextTyped, NextBooks, NextSaved DEF Typed
<1>3. IInv => SentInv
  BY SentByRound
<1>4. IInv /\ SentInv /\ SentInv' /\ [Next]_vars => [Threshold!Next]_(Threshold!vars)
  BY NextTicks
<1> QED BY <1>1, <1>2, <1>3, <1>4, PTL DEF Spec, ImplementsClock, Threshold!Spec
=============================================================================
