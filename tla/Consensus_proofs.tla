-------------------------- MODULE Consensus_proofs --------------------------
(***************************************************************************)
(* Theorems about Consensus, for every finite set of nodes and any files:  *)
(* types, and that the blocks committed by a node are one chain.           *)
(***************************************************************************)
EXTENDS Consensus, FiniteSetTheorems, SequenceTheorems, TLAPS

-----------------------------------------------------------------------------
(* Chains of blocks. *)

\* A sequence that grows keeps its prefixes and has itself as a new one.
LEMMA PrefixesOfAppend ==
  ASSUME NEW S, NEW s \in Seq(S), NEW e \in S
  PROVE  {SubSeq(Append(s, e), 1, i) : i \in 1 .. Len(Append(s, e))} =
           {SubSeq(s, 1, i) : i \in 1 .. Len(s)} \cup {Append(s, e)}
<1> DEFINE t == Append(s, e)
<1>1. t \in Seq(S) /\ Len(t) = Len(s) + 1 /\ Len(s) \in Nat
  OBVIOUS
<1>2. t = s \o <<e>> /\ <<e>> \in Seq(S)
  BY AppendIsConcat
<1>3. \A i \in 1 .. Len(s) : SubSeq(t, 1, i) = SubSeq(s, 1, i)
  <2> TAKE i \in 1 .. Len(s)
  <2>1. i \in 1 .. Len(s) /\ 1 \in 1 .. Len(s)
    BY <1>1
  <2>. QED
    BY <2>1, <1>2, SubSeqOfConcat1
<1>4. SubSeq(t, 1, Len(t)) = t
  BY <1>1, SubSeqFull
<1>5. 1 .. Len(t) = 1 .. Len(s) \cup {Len(t)}
  BY <1>1
<1> HIDE DEF t
<1>6. {SubSeq(t, 1, i) : i \in 1 .. Len(t)} = {SubSeq(s, 1, i) : i \in 1 .. Len(s)} \cup {t}
  BY <1>3, <1>4, <1>5
<1>. QED
  BY <1>6 DEF t

\* The last name of a block.
LEMMA LastOfBlock ==
  ASSUME NEW b \in Block
  PROVE  Len(b) \in Nat /\ b[Len(b)] \in Name \cup {NoName}
BY DEF Block

\* A name after a hash makes a block.
LEMMA BlockOfAppend ==
  ASSUME NEW h \in Hash, NEW e \in Name \cup {NoName}
  PROVE  Append(h, e) \in Block /\ Append(h, e) \in Hash
<1>1. Append(h, e) \in Seq(Name \cup {NoName}) /\ Len(Append(h, e)) = Len(h) + 1 /\ Len(h) \in Nat
  BY DEF Hash
<1>2. Append(h, e) # <<>>
  BY <1>1
<1>. QED
  BY <1>1, <1>2 DEF Block, Hash

-----------------------------------------------------------------------------
(* Rounds and messages. *)

\* A set of ids below another is finite.
LEMMA FinitelyManyBelow ==
  ASSUME NEW T \in SUBSET ID, NEW k \in Nat, \A j \in T : j <= k
  PROVE  IsFiniteSet(T)
<1>1. T \in SUBSET Nat
  BY DEF ID
<1>. QED
  BY <1>1, FS_BoundedSetOfNaturals

\* A round is a number.
LEMMA RoundIsNat ==
  ASSUME NEW S \in SUBSET ID, NEW k \in ID
  PROVE  getMessageOriginalRound(S, k) \in Nat
<1> DEFINE T == {j \in S : j < k}
<1>1. T \in SUBSET ID /\ k \in Nat /\ \A j \in T : j <= k
  <2>1. k \in Nat /\ \A j \in S : j \in Nat
    BY DEF ID
  <2>2. \A j \in S : j < k => j <= k
    BY <2>1
  <2>. QED BY <2>1, <2>2
<1>2. IsFiniteSet(T)
  <2> HIDE DEF T
  <2>. QED BY <1>1, FinitelyManyBelow
<1>. QED
  BY <1>2, FS_CardinalityType DEF getMessageOriginalRound

LEMMA HighestIsMessage ==
  ASSUME NEW M \in SUBSET Message
  PROVE  Highest(M) \subseteq Message
<1>1. <<NoName>> \in Block
  <2>1. <<NoName>> \in Seq(Name \cup {NoName}) /\ <<NoName>> # <<>>
    OBVIOUS
  <2>. QED BY <2>1 DEF Block
<1>2. EmptyMessage \in Message
  BY <1>1 DEF EmptyMessage, Message
<1>. QED
  BY <1>2 DEF Highest

\* What is kept is put in place of what was kept of the round and the origin.
LEMMA PutType ==
  ASSUME NEW C \in SUBSET Saved, NEW c \in Saved
  PROVE  Put(C, c) \in SUBSET Saved /\ Put(C, c) \subseteq C \cup {c}
BY DEF Put

-----------------------------------------------------------------------------
(* Type correctness, with what it needs: ids are those of messages sent. *)

SentIds ==
  \A n \in Node :
    /\ confirmed[n] \subseteq DOMAIN tlc[n]
    /\ clientBlock[n] \subseteq DOMAIN tlc[n]
    /\ qsc[n].pc \in {"start", "wait"} => qsc[n].id \in DOMAIN tlc[n]

KeptIds ==
  /\ \A n \in Node : \A c \in acking[n] : c.id \in DOMAIN tlc[c.origin]
  /\ \A n \in Node : \A c \in saving[n] : c.id \in DOMAIN tlc[c.origin]
  /\ \A n \in Node : \A c \in confirmations[n] : c.id \in DOMAIN tlc[c.origin]
  /\ \A n \in Node : \A c \in messageSeen[n] : c.id \in DOMAIN tlc[c.origin]

Types == TypeOK /\ SentIds /\ KeptIds

\* The id of a message is one.
LEMMA IdsOfMessages ==
  ASSUME TypeOK, NEW n \in Node
  PROVE  /\ DOMAIN tlc[n] \subseteq ID
         /\ Len(tlc[n]) + 1 \in ID
         /\ \A i \in DOMAIN tlc[n] : tlc[n][i] \in Message
<1>1. tlc[n] \in Seq(Message)
  BY DEF TypeOK
<1>2. DOMAIN tlc[n] = 1 .. Len(tlc[n]) /\ Len(tlc[n]) \in Nat
  BY <1>1
<1>. QED
  BY <1>1, <1>2 DEF ID

\* A message sent takes the next id.
LEMMA MessageSent ==
  ASSUME TypeOK, NEW n \in Node, NEW m \in Message,
         tlc' = [tlc EXCEPT ![n] = Append(@, m)]
  PROVE  /\ tlc' \in [Node -> Seq(Message)]
         /\ \A o \in Node : DOMAIN tlc[o] \subseteq DOMAIN tlc'[o]
         /\ Len(tlc[n]) + 1 \in DOMAIN tlc'[n]
<1>1. tlc \in [Node -> Seq(Message)]
  BY DEF TypeOK
<1>2. Append(tlc[n], m) \in Seq(Message) /\ Len(Append(tlc[n], m)) = Len(tlc[n]) + 1
      /\ Len(tlc[n]) \in Nat
  BY <1>1
<1>3. DOMAIN tlc[n] = 1 .. Len(tlc[n]) /\ DOMAIN Append(tlc[n], m) = 1 .. Len(tlc[n]) + 1
  BY <1>1, <1>2
<1>4. tlc' \in [Node -> Seq(Message)]
  BY <1>1, <1>2
<1>5. tlc'[n] = Append(tlc[n], m) /\ \A o \in Node \ {n} : tlc'[o] = tlc[o]
  BY <1>1
<1>6. DOMAIN tlc[n] \subseteq DOMAIN tlc'[n] /\ Len(tlc[n]) + 1 \in DOMAIN tlc'[n]
  BY <1>2, <1>3, <1>5
<1>. QED
  BY <1>4, <1>5, <1>6

\* What is kept of a round is messages.
LEMMA KeptMessages ==
  ASSUME Types, NEW n \in Node, NEW r
  PROVE  Messages(Of(confirmations[n], r)) \in SUBSET Message
<1>1. \A c \in confirmations[n] : c.origin \in Node /\ c.id \in DOMAIN tlc[c.origin]
  BY DEF Types, TypeOK, KeptIds, Saved
<1>2. \A c \in confirmations[n] : tlc[c.origin][c.id] \in Message
  BY <1>1, IdsOfMessages DEF Types
<1>. QED
  BY <1>2 DEF Messages, Of

\* The goroutine of a consensus by its program counter.
LEMMA QSCFields ==
  ASSUME NEW q \in QSCRound
  PROVE  /\ q.pc \in {"idle", "crashed", "start", "wait"}
         /\ q.pc \in {"start", "wait"} => q.step \in 0 .. 2 /\ q.id \in ID
         /\ q.pc = "wait" => q.delivered \in BOOLEAN
         /\ q.pc = "wait" => q = [pc |-> "wait", step |-> q.step, id |-> q.id,
                                  delivered |-> q.delivered]
BY DEF QSCRound

LEMMA QSCForms ==
  ASSUME NEW k \in 0 .. 2, NEW i \in ID, NEW d \in BOOLEAN
  PROVE  /\ [pc |-> "idle"] \in QSCRound
         /\ [pc |-> "crashed"] \in QSCRound
         /\ [pc |-> "start", step |-> k, id |-> i] \in QSCRound
         /\ [pc |-> "wait", step |-> k, id |-> i, delivered |-> d] \in QSCRound
BY DEF QSCRound

LEMMA InitTypes == Init => Types
<1> SUFFICES ASSUME Init PROVE Types
  OBVIOUS
<1>1. [pc |-> "idle"] \in QSCRound /\ <<>> \in Hash /\ <<>> \in Seq(Message)
  BY DEF QSCRound, Hash
<1>2. TypeOK
  BY <1>1 DEF Init, TypeOK
<1>3. SentIds /\ KeptIds
  BY DEF Init, SentIds, KeptIds
<1>. QED
  BY <1>2, <1>3 DEF Types

LEMMA PublishTypes ==
  ASSUME Types, NEW n \in Node, Publish(n)
  PROVE  Types'
<1>1. PICK f \in Fitness[n][indexed[n] + 1] :
        tlc' = [tlc EXCEPT ![n] = Append(@,
          [block |-> Append(previousBlockHash[n], Files[n][indexed[n] + 1]), fitness |-> f])]
  BY DEF Publish
<1> DEFINE m == [block |-> Append(previousBlockHash[n], Files[n][indexed[n] + 1]), fitness |-> f]
<1>2. TypeOK /\ SentIds /\ KeptIds
  BY DEF Types
<1>3. m \in Message
  <2>1. Files[n] \in Seq(Name) /\ Fitness[n] \in Seq(SUBSET Nat) /\ Len(Fitness[n]) = Len(Files[n])
    BY ConsensusAssumption
  <2>2. indexed[n] \in Nat /\ indexed[n] + 1 <= Len(Files[n])
    <3>1. indexed[n] \in Nat /\ indexed[n] < Len(Files[n])
      BY <1>2 DEF TypeOK, Publish
    <3>. QED BY <2>1, <3>1
  <2>3. Files[n][indexed[n] + 1] \in Name /\ Fitness[n][indexed[n] + 1] \in SUBSET Nat
    BY <2>1, <2>2
  <2>4. Append(previousBlockHash[n], Files[n][indexed[n] + 1]) \in Block
    BY <1>2, <2>3, BlockOfAppend DEF TypeOK
  <2>. QED
    BY <2>3, <2>4 DEF Message
<1>4. tlc' = [tlc EXCEPT ![n] = Append(@, m)]
  BY <1>1
<1> HIDE DEF m
<1>5. /\ tlc' \in [Node -> Seq(Message)]
      /\ \A o \in Node : DOMAIN tlc[o] \subseteq DOMAIN tlc'[o]
      /\ Len(tlc[n]) + 1 \in DOMAIN tlc'[n]
  BY <1>2, <1>3, <1>4, MessageSent
<1>6. Len(tlc[n]) + 1 \in ID
  BY <1>2, IdsOfMessages
<1>7. /\ indexed' = [indexed EXCEPT ![n] = @ + 1]
      /\ clientBlock' = [clientBlock EXCEPT ![n] = @ \cup {Len(tlc[n]) + 1}]
      /\ UNCHANGED <<confirmed, acks, qsc, myTime, tlcStatus, acking, saving, confirmations, messageSeen,
                     committedHistory, topBlockchainHash, previousBlockHash>>
  BY DEF Publish, kept, chain
<1>8. TypeOK'
  <2>1. indexed' \in [Node -> Nat]
    BY <1>2, <1>7 DEF TypeOK
  <2>2. clientBlock' \in [Node -> SUBSET ID]
    BY <1>2, <1>6, <1>7 DEF TypeOK
  <2>. QED
    BY <1>2, <1>5, <1>7, <2>1, <2>2 DEF TypeOK
<1>9. SentIds'
  <2>1. \A o \in Node : clientBlock'[o] \subseteq DOMAIN tlc'[o]
    BY <1>2, <1>5, <1>7 DEF TypeOK, SentIds
  <2>. QED
    BY <1>2, <1>5, <1>7, <2>1 DEF SentIds
<1>10. KeptIds'
  <2>1. \A o \in Node : acking[o] \in SUBSET Saved /\ saving[o] \in SUBSET Saved
                          /\ confirmations[o] \in SUBSET Saved /\ messageSeen[o] \in SUBSET Saved
    BY <1>2 DEF TypeOK
  <2>2. \A c \in Saved : c.origin \in Node
    BY DEF Saved
  <2>. QED
    BY <1>2, <1>5, <1>7, <2>1, <2>2 DEF KeptIds
<1>. QED
  BY <1>8, <1>9, <1>10 DEF Types

LEMMA TakeBlockTypes ==
  ASSUME Types, NEW n \in Node, NEW i \in clientBlock[n], TakeBlock(n, i)
  PROVE  Types'
<1>1. TypeOK /\ SentIds /\ KeptIds
  BY DEF Types
<1>2. i \in ID /\ i \in DOMAIN tlc[n]
  BY <1>1 DEF TypeOK, SentIds
<1>3. [pc |-> "start", step |-> 0, id |-> i] \in QSCRound
  BY <1>2 DEF QSCRound
<1>4. /\ clientBlock' = [clientBlock EXCEPT ![n] = @ \ {i}]
      /\ qsc' = [qsc EXCEPT ![n] = [pc |-> "start", step |-> 0, id |-> i]]
      /\ UNCHANGED <<indexed, tlc, confirmed, acks, myTime, tlcStatus, acking, saving, confirmations,
                     messageSeen, committedHistory, topBlockchainHash, previousBlockHash>>
  BY DEF TakeBlock, kept, chain
<1>5. TypeOK'
  <2>1. clientBlock' \in [Node -> SUBSET ID]
    BY <1>1, <1>4 DEF TypeOK
  <2>2. qsc' \in [Node -> QSCRound]
    BY <1>1, <1>3, <1>4 DEF TypeOK
  <2>. QED
    BY <1>1, <1>4, <2>1, <2>2 DEF TypeOK
<1>6. SentIds'
  <2>1. \A o \in Node : qsc'[o] = qsc[o] \/ (o = n /\ qsc'[o].id = i)
    BY <1>1, <1>4 DEF TypeOK
  <2>2. \A o \in Node : clientBlock'[o] \subseteq clientBlock[o]
    BY <1>1, <1>4 DEF TypeOK
  <2>. QED
    BY <1>1, <1>2, <1>4, <2>1, <2>2 DEF SentIds
<1>7. KeptIds'
  BY <1>1, <1>4 DEF KeptIds
<1>. QED
  BY <1>5, <1>6, <1>7 DEF Types

LEMMA WaitTypes ==
  ASSUME Types, NEW n \in Node, Wait(n)
  PROVE  Types'
<1> DEFINE q == [pc |-> "wait", step |-> qsc[n].step, id |-> qsc[n].id, delivered |-> FALSE]
<1>1. TypeOK /\ SentIds /\ KeptIds
  BY DEF Types
<1>2. qsc[n] \in QSCRound /\ qsc[n].pc = "start"
  BY <1>1 DEF TypeOK, Wait
<1>3. qsc[n].step \in 0 .. 2 /\ qsc[n].id \in ID /\ qsc[n].id \in DOMAIN tlc[n]
  BY <1>1, <1>2, QSCFields DEF SentIds
<1>4. q \in QSCRound /\ q.id = qsc[n].id
  BY <1>3, QSCForms
<1>5. /\ qsc' = [qsc EXCEPT ![n] = q]
      /\ UNCHANGED <<indexed, tlc, confirmed, acks, clientBlock, myTime, tlcStatus, acking, saving,
                     confirmations, messageSeen, committedHistory, topBlockchainHash,
                     previousBlockHash>>
  BY DEF Wait, kept, chain
<1> HIDE DEF q
<1>6. TypeOK'
  <2>1. qsc' \in [Node -> QSCRound]
    BY <1>1, <1>4, <1>5 DEF TypeOK
  <2>. QED
    BY <1>1, <1>5, <2>1 DEF TypeOK
<1>7. SentIds'
  <2>1. \A o \in Node : qsc'[o] = qsc[o] \/ (o = n /\ qsc'[o].id = qsc[n].id)
    BY <1>1, <1>4, <1>5 DEF TypeOK
  <2>. QED
    BY <1>1, <1>3, <1>5, <2>1 DEF SentIds
<1>8. KeptIds'
  BY <1>1, <1>5 DEF KeptIds
<1>. QED
  BY <1>6, <1>7, <1>8 DEF Types

LEMMA ConfirmTypes ==
  ASSUME Types, NEW n \in Node, Confirm(n)
  PROVE  Types'
<1> DEFINE q == qsc[n]
           c == [round |-> myTime[n], origin |-> n, id |-> q.id]
<1>1. TypeOK /\ SentIds /\ KeptIds
  BY DEF Types
<1>2. q \in QSCRound /\ q.pc = "wait"
  BY <1>1 DEF TypeOK, Confirm
<1>3. q.step \in 0 .. 2 /\ q.id \in ID /\ q.id \in DOMAIN tlc[n]
  BY <1>1, <1>2, QSCFields DEF SentIds
<1>4. [q EXCEPT !.delivered = TRUE] \in QSCRound /\ [q EXCEPT !.delivered = TRUE].id = q.id
  BY <1>2 DEF QSCRound
<1>5. c \in Saved /\ c.id = q.id /\ c.origin = n
  BY <1>1, <1>3 DEF Saved, TypeOK
<1>6. /\ qsc' = [qsc EXCEPT ![n] = [q EXCEPT !.delivered = TRUE]]
      /\ confirmed' = [confirmed EXCEPT ![n] = @ \cup {q.id}]
      /\ confirmations' = [confirmations EXCEPT ![n] = Put(@, c)]
      /\ UNCHANGED <<indexed, tlc, acks, clientBlock, myTime, tlcStatus, acking, saving, messageSeen,
                     committedHistory, topBlockchainHash, previousBlockHash>>
  BY <1>1 DEF Confirm, chain, TypeOK
<1> HIDE DEF q, c
<1>7. Put(confirmations[n], c) \in SUBSET Saved /\ Put(confirmations[n], c) \subseteq confirmations[n] \cup {c}
  BY <1>1, <1>5, PutType DEF TypeOK
<1>8. TypeOK'
  <2>1. qsc' \in [Node -> QSCRound]
    BY <1>1, <1>4, <1>6 DEF TypeOK
  <2>2. confirmed' \in [Node -> SUBSET ID]
    BY <1>1, <1>3, <1>6 DEF TypeOK
  <2>3. confirmations' \in [Node -> SUBSET Saved]
    BY <1>1, <1>6, <1>7 DEF TypeOK
  <2>. QED
    BY <1>1, <1>6, <2>1, <2>2, <2>3 DEF TypeOK
<1>9. SentIds'
  <2>1. \A o \in Node : qsc'[o] = qsc[o] \/ (o = n /\ qsc'[o].id = q.id)
    BY <1>1, <1>4, <1>6 DEF TypeOK
  <2>2. \A o \in Node : confirmed'[o] \subseteq DOMAIN tlc[o]
    BY <1>1, <1>3, <1>6 DEF TypeOK, SentIds
  <2>. QED
    BY <1>1, <1>3, <1>6, <2>1, <2>2 DEF SentIds
<1>10. KeptIds'
  <2>1. \A o \in Node : \A k \in confirmations'[o] : k \in confirmations[o] \/ k = c
    BY <1>1, <1>6, <1>7 DEF TypeOK
  <2>. QED
    BY <1>1, <1>3, <1>5, <1>6, <2>1 DEF KeptIds
<1>. QED
  BY <1>8, <1>9, <1>10 DEF Types

\* The end of a round.
LEMMA RoundOverTypes ==
  ASSUME Types, NEW n \in Node, RoundOver(n)
  PROVE  /\ qsc[n].id \in DOMAIN tlc[n]
         /\ qsc[n].step \in 0 .. 2
         /\ myTime' \in [Node -> Nat]
         /\ confirmed' \in [Node -> SUBSET ID]
         /\ \A o \in Node : confirmed'[o] \subseteq DOMAIN tlc[o]
<1>1. TypeOK /\ SentIds
  BY DEF Types
<1>2. qsc[n] \in QSCRound /\ qsc[n].pc \in {"start", "wait"}
  BY <1>1 DEF TypeOK, RoundOver
<1>3. qsc[n].step \in 0 .. 2 /\ qsc[n].id \in ID /\ qsc[n].id \in DOMAIN tlc[n]
  BY <1>1, <1>2, QSCFields DEF SentIds
<1>4. /\ myTime' = [myTime EXCEPT ![n] = @ + 1]
      /\ confirmed' = [confirmed EXCEPT ![n] = @ \cup {qsc[n].id}]
  BY DEF RoundOver
<1>5. myTime' \in [Node -> Nat] /\ confirmed' \in [Node -> SUBSET ID]
  BY <1>1, <1>3, <1>4 DEF TypeOK
<1>6. \A o \in Node : confirmed'[o] \subseteq DOMAIN tlc[o]
  BY <1>1, <1>3, <1>4 DEF TypeOK, SentIds
<1>. QED
  BY <1>3, <1>5, <1>6

LEMMA NextRoundTypes ==
  ASSUME Types, NEW n \in Node, NextRound(n)
  PROVE  Types'
<1> DEFINE k == Len(tlc[n]) + 1
           q == [pc |-> "start", step |-> qsc[n].step + 1, id |-> k]
<1>1. TypeOK /\ SentIds /\ KeptIds
  BY DEF Types
<1>2. /\ qsc[n].step \in 0 .. 2
      /\ myTime' \in [Node -> Nat]
      /\ confirmed' \in [Node -> SUBSET ID]
      /\ \A o \in Node : confirmed'[o] \subseteq DOMAIN tlc[o]
  BY RoundOverTypes DEF NextRound
<1>3. PICK m \in Highest(Messages(Of(confirmations[n], myTime[n]))) :
        tlc' = [tlc EXCEPT ![n] = Append(@, m)]
  BY DEF NextRound
<1>4. m \in Message
  BY KeptMessages, HighestIsMessage
<1>5. /\ tlc' \in [Node -> Seq(Message)]
      /\ \A o \in Node : DOMAIN tlc[o] \subseteq DOMAIN tlc'[o]
      /\ k \in DOMAIN tlc'[n]
  BY <1>1, <1>3, <1>4, MessageSent
<1>6. k \in ID
  BY <1>1, IdsOfMessages
<1>7. /\ qsc' = [qsc EXCEPT ![n] = q]
      /\ qsc[n].step < 2
      /\ UNCHANGED <<indexed, acks, clientBlock, tlcStatus, acking, saving, confirmations, messageSeen,
                     committedHistory, topBlockchainHash, previousBlockHash>>
  BY DEF NextRound, kept, chain
<1> HIDE DEF k
<1>8. q \in QSCRound /\ q.id = k
  <2>1. qsc[n].step + 1 \in 0 .. 2
    BY <1>2, <1>7
  <2>. QED BY <2>1, <1>6, QSCForms
<1> HIDE DEF q
<1>9. TypeOK'
  <2>1. qsc' \in [Node -> QSCRound]
    BY <1>1, <1>7, <1>8 DEF TypeOK
  <2>. QED
    BY <1>1, <1>2, <1>5, <1>7, <2>1 DEF TypeOK
<1>10. SentIds'
  <2>1. \A o \in Node : qsc'[o] = qsc[o] \/ (o = n /\ qsc'[o].id = k)
    BY <1>1, <1>7, <1>8 DEF TypeOK
  <2>2. \A o \in Node : confirmed'[o] \subseteq DOMAIN tlc'[o]
    BY <1>2, <1>5
  <2>. QED
    BY <1>1, <1>5, <1>7, <2>1, <2>2 DEF SentIds
<1>11. KeptIds'
  <2>1. \A o \in Node : acking[o] \in SUBSET Saved /\ saving[o] \in SUBSET Saved
                          /\ confirmations[o] \in SUBSET Saved /\ messageSeen[o] \in SUBSET Saved
    BY <1>1 DEF TypeOK
  <2>2. \A c \in Saved : c.origin \in Node
    BY DEF Saved
  <2>. QED
    BY <1>1, <1>5, <1>7, <2>1, <2>2 DEF KeptIds
<1>. QED
  BY <1>9, <1>10, <1>11 DEF Types

\* Blocks are hashes of themselves.
LEMMA BlocksAreHashes == Block \subseteq Hash
BY DEF Block, Hash

LEMMA CommitTypes ==
  ASSUME TypeOK, NEW n \in Node, NEW m \in Message, Commit(n, m)
  PROVE  /\ committedHistory' \in [Node -> SUBSET Block]
         /\ topBlockchainHash' \in [Node -> Hash]
         /\ previousBlockHash' \in [Node -> Hash]
<1> DEFINE b == Append(topBlockchainHash[n], m.block[Len(m.block)])
<1>1. m.block[Len(m.block)] \in Name \cup {NoName}
  <2>1. m.block \in Block
    BY DEF Message
  <2>. QED BY <2>1, LastOfBlock
<1>2. b \in Block /\ b \in Hash
  <2>1. topBlockchainHash[n] \in Hash
    BY DEF TypeOK
  <2>. QED BY <1>1, <2>1, BlockOfAppend
<1>3. /\ committedHistory' = [committedHistory EXCEPT ![n] = @ \cup {b}]
      /\ topBlockchainHash' = [topBlockchainHash EXCEPT ![n] = b]
      /\ previousBlockHash' = [previousBlockHash EXCEPT ![n] = b]
  BY DEF Commit
<1> HIDE DEF b
<1>. QED
  BY <1>2, <1>3 DEF TypeOK

\* A consensus is on a message.
LEMMA ConsensusOnMessage ==
  ASSUME Types, NEW n \in Node, NEW s, NEW m \in checkIfConsensusReached(n, s)
  PROVE  m \in Message
<1>1. m \in Highest(Messages(Of(confirmations[n], s)))
  BY DEF checkIfConsensusReached
<1>. QED
  BY <1>1, KeptMessages, HighestIsMessage

\* What the end of a consensus makes of the chain.
LEMMA DecideChain ==
  ASSUME Types, NEW n \in Node, Decide(n)
  PROVE  /\ \/ \E m \in Message : Commit(n, m)
            \/ UNCHANGED <<committedHistory, topBlockchainHash>>
         /\ committedHistory' \in [Node -> SUBSET Block]
         /\ topBlockchainHash' \in [Node -> Hash]
         /\ previousBlockHash' \in [Node -> Hash]
<1>1. TypeOK
  BY DEF Types
<1>2. qsc[n].id \in DOMAIN tlc[n]
  BY RoundOverTypes DEF Decide
<1>3. \/ \E m \in checkIfConsensusReached(n, myTime[n] - 2) : Commit(n, m)
      \/ /\ previousBlockHash' = [previousBlockHash EXCEPT ![n] = tlc[n][qsc[n].id].block]
         /\ UNCHANGED <<committedHistory, topBlockchainHash>>
  BY Zenon DEF Decide
<1>4. CASE \E m \in checkIfConsensusReached(n, myTime[n] - 2) : Commit(n, m)
  <2>1. PICK m \in checkIfConsensusReached(n, myTime[n] - 2) : Commit(n, m)
    BY <1>4
  <2>2. m \in Message
    BY ConsensusOnMessage
  <2>. QED
    BY <1>1, <2>1, <2>2, CommitTypes
<1>5. CASE /\ previousBlockHash' = [previousBlockHash EXCEPT ![n] = tlc[n][qsc[n].id].block]
           /\ UNCHANGED <<committedHistory, topBlockchainHash>>
  <2>1. tlc[n][qsc[n].id] \in Message
    BY <1>1, <1>2, IdsOfMessages
  <2>2. tlc[n][qsc[n].id].block \in Hash
    BY <2>1, BlocksAreHashes DEF Message
  <2>. QED
    BY <1>1, <1>5, <2>2 DEF TypeOK
<1>. QED
  BY <1>3, <1>4, <1>5

LEMMA DecideTypes ==
  ASSUME Types, NEW n \in Node, Decide(n)
  PROVE  Types'
<1>1. TypeOK /\ SentIds /\ KeptIds
  BY DEF Types
<1>2. /\ myTime' \in [Node -> Nat]
      /\ confirmed' \in [Node -> SUBSET ID]
      /\ \A o \in Node : confirmed'[o] \subseteq DOMAIN tlc[o]
  BY RoundOverTypes DEF Decide
<1>3. /\ committedHistory' \in [Node -> SUBSET Block]
      /\ topBlockchainHash' \in [Node -> Hash]
      /\ previousBlockHash' \in [Node -> Hash]
  BY DecideChain
<1>4. /\ qsc' = [qsc EXCEPT ![n] = [pc |-> "idle"]]
      /\ UNCHANGED <<indexed, tlc, acks, clientBlock, tlcStatus, acking, saving, confirmations,
                     messageSeen>>
  BY DEF Decide, kept
<1>5. [pc |-> "idle"] \in QSCRound
  BY DEF QSCRound
<1>6. TypeOK'
  <2>1. qsc' \in [Node -> QSCRound]
    BY <1>1, <1>4, <1>5 DEF TypeOK
  <2>. QED
    BY <1>1, <1>2, <1>3, <1>4, <2>1 DEF TypeOK
<1>7. SentIds'
  <2>1. \A o \in Node : qsc'[o] = qsc[o] \/ qsc'[o].pc = "idle"
    BY <1>1, <1>4 DEF TypeOK
  <2>. QED
    BY <1>1, <1>2, <1>4, <2>1 DEF SentIds
<1>8. KeptIds'
  BY <1>1, <1>4 DEF KeptIds
<1>. QED
  BY <1>6, <1>7, <1>8 DEF Types

LEMMA CrashTypes ==
  ASSUME Types, NEW n \in Node, Crash(n)
  PROVE  Types'
<1>1. TypeOK /\ SentIds /\ KeptIds
  BY DEF Types
<1>2. /\ myTime' \in [Node -> Nat]
      /\ confirmed' \in [Node -> SUBSET ID]
      /\ \A o \in Node : confirmed'[o] \subseteq DOMAIN tlc[o]
  BY RoundOverTypes DEF Crash
<1>3. /\ qsc' = [qsc EXCEPT ![n] = [pc |-> "crashed"]]
      /\ UNCHANGED <<indexed, tlc, acks, clientBlock, tlcStatus, acking, saving, confirmations,
                     messageSeen, committedHistory, topBlockchainHash, previousBlockHash>>
  BY DEF Crash, kept, chain
<1>4. [pc |-> "crashed"] \in QSCRound
  BY DEF QSCRound
<1>5. TypeOK'
  <2>1. qsc' \in [Node -> QSCRound]
    BY <1>1, <1>3, <1>4 DEF TypeOK
  <2>. QED
    BY <1>1, <1>2, <1>3, <2>1 DEF TypeOK
<1>6. SentIds'
  <2>1. \A o \in Node : qsc'[o] = qsc[o] \/ qsc'[o].pc = "crashed"
    BY <1>1, <1>3 DEF TypeOK
  <2>. QED
    BY <1>1, <1>2, <1>3, <2>1 DEF SentIds
<1>7. KeptIds'
  BY <1>1, <1>3 DEF KeptIds
<1>. QED
  BY <1>5, <1>6, <1>7 DEF Types

\* What is kept of a message of o: the round counted and the id.
LEMMA SavedMessage ==
  ASSUME TypeOK, NEW n \in Node, NEW o \in Node, NEW i \in DOMAIN tlc[o]
  PROVE  [round |-> RoundOf(n, o, i), origin |-> o, id |-> i] \in Saved
<1>1. i \in ID
  BY IdsOfMessages
<1>2. tlcStatus[n][o] \in SUBSET ID
  BY DEF TypeOK
<1>3. RoundOf(n, o, i) \in Nat
  BY <1>1, <1>2, RoundIsNat DEF RoundOf
<1>. QED
  BY <1>1, <1>3 DEF Saved

LEMMA HandleUnconfirmedTypes ==
  ASSUME Types, NEW n \in Node, NEW o \in Node, NEW i \in DOMAIN tlc[o],
         HandleUnconfirmed(n, o, i)
  PROVE  Types'
<1> DEFINE c == [round |-> RoundOf(n, o, i), origin |-> o, id |-> i]
<1>1. TypeOK /\ SentIds /\ KeptIds
  BY DEF Types
<1>2. c \in Saved /\ c.id = i /\ c.origin = o
  BY <1>1, SavedMessage
<1>3. /\ acking' = [acking EXCEPT ![n] = {c}]
      /\ UNCHANGED <<indexed, tlc, confirmed, acks, clientBlock, qsc, myTime, tlcStatus, saving,
                     confirmations, messageSeen, committedHistory, topBlockchainHash,
                     previousBlockHash>>
  BY DEF HandleUnconfirmed, chain
<1> HIDE DEF c
<1>4. TypeOK'
  <2>1. acking' \in [Node -> SUBSET Saved]
    BY <1>1, <1>2, <1>3 DEF TypeOK
  <2>. QED
    BY <1>1, <1>3, <2>1 DEF TypeOK
<1>5. SentIds'
  BY <1>1, <1>3 DEF SentIds
<1>6. KeptIds'
  <2>1. \A p \in Node : \A x \in acking'[p] : x \in acking[p] \/ x = c
    BY <1>1, <1>3 DEF TypeOK
  <2>. QED
    BY <1>1, <1>2, <1>3, <2>1 DEF KeptIds
<1>. QED
  BY <1>4, <1>5, <1>6 DEF Types

LEMMA AcknowledgeTypes ==
  ASSUME Types, NEW n \in Node, NEW c \in acking[n], Acknowledge(n, c)
  PROVE  Types'
<1> DEFINE k == [from |-> n, to |-> c.origin, id |-> c.id]
<1>1. TypeOK /\ SentIds /\ KeptIds
  BY DEF Types
<1>2. c \in Saved /\ c.id \in DOMAIN tlc[c.origin]
  BY <1>1 DEF TypeOK, KeptIds
<1>3. k \in Ack
  BY <1>2 DEF Saved, Ack
<1>4. /\ messageSeen' = [messageSeen EXCEPT ![n] = Put(@, c)]
      /\ acks' = acks \cup {k}
      /\ acking' = [acking EXCEPT ![n] = @ \ {c}]
      /\ UNCHANGED <<indexed, tlc, confirmed, clientBlock, qsc, myTime, tlcStatus, saving,
                     confirmations, committedHistory, topBlockchainHash, previousBlockHash>>
  BY DEF Acknowledge, chain
<1> HIDE DEF k
<1>5. Put(messageSeen[n], c) \in SUBSET Saved /\ Put(messageSeen[n], c) \subseteq messageSeen[n] \cup {c}
  BY <1>1, <1>2, PutType DEF TypeOK
<1>6. TypeOK'
  <2>1. messageSeen' \in [Node -> SUBSET Saved] /\ acking' \in [Node -> SUBSET Saved]
    BY <1>1, <1>4, <1>5 DEF TypeOK
  <2>2. acks' \subseteq Ack
    BY <1>1, <1>3, <1>4 DEF TypeOK
  <2>. QED
    BY <1>1, <1>4, <2>1, <2>2 DEF TypeOK
<1>7. SentIds'
  BY <1>1, <1>4 DEF SentIds
<1>8. KeptIds'
  <2>1. \A p \in Node : \A x \in messageSeen'[p] : x \in messageSeen[p] \/ x = c
    BY <1>1, <1>4, <1>5 DEF TypeOK
  <2>2. \A p \in Node : acking'[p] \subseteq acking[p]
    BY <1>1, <1>4 DEF TypeOK
  <2>. QED
    BY <1>1, <1>2, <1>4, <2>1, <2>2 DEF KeptIds
<1>. QED
  BY <1>6, <1>7, <1>8 DEF Types

LEMMA HandleConfirmedTypes ==
  ASSUME Types, NEW n \in Node, NEW o \in Node, NEW i \in DOMAIN tlc[o],
         HandleConfirmed(n, o, i)
  PROVE  Types'
<1> DEFINE c == [round |-> RoundOf(n, o, i), origin |-> o, id |-> i]
           C == {x \in {c} : x.round >= myTime[n]}
<1>1. TypeOK /\ SentIds /\ KeptIds
  BY DEF Types
<1>2. i \in ID
  BY <1>1, IdsOfMessages
<1>3. c \in Saved /\ c.id = i /\ c.origin = o
  BY <1>1, SavedMessage
<1>4. C \in SUBSET Saved /\ C \subseteq {c}
  BY <1>3
<1>5. /\ tlcStatus' = [tlcStatus EXCEPT ![n][o] = @ \cup {i}]
      /\ saving' = [saving EXCEPT ![n] = C]
      /\ UNCHANGED <<indexed, tlc, confirmed, acks, clientBlock, qsc, myTime,
                     acking, confirmations, messageSeen, committedHistory, topBlockchainHash,
                     previousBlockHash>>
  BY DEF HandleConfirmed, chain
<1> HIDE DEF c, C
<1>6. TypeOK'
  <2>1. tlcStatus' \in [Node -> [Node -> SUBSET ID]]
    <3>1. tlcStatus[n] \in [Node -> SUBSET ID]
      BY <1>1 DEF TypeOK
    <3>2. [tlcStatus[n] EXCEPT ![o] = @ \cup {i}] \in [Node -> SUBSET ID]
      BY <1>2, <3>1
    <3>3. tlcStatus' = [tlcStatus EXCEPT ![n] = [tlcStatus[n] EXCEPT ![o] = @ \cup {i}]]
      BY <1>1, <1>5 DEF TypeOK
    <3>. QED
      BY <1>1, <3>2, <3>3 DEF TypeOK
  <2>2. saving' \in [Node -> SUBSET Saved]
    BY <1>1, <1>4, <1>5 DEF TypeOK
  <2>. QED
    BY <1>1, <1>5, <2>1, <2>2 DEF TypeOK
<1>7. SentIds'
  BY <1>1, <1>5 DEF SentIds
<1>8. KeptIds'
  <2>1. \A p \in Node : \A x \in saving'[p] : x \in saving[p] \/ x = c
    BY <1>1, <1>4, <1>5 DEF TypeOK
  <2>. QED
    BY <1>1, <1>3, <1>5, <2>1 DEF KeptIds
<1>. QED
  BY <1>6, <1>7, <1>8 DEF Types

LEMMA SaveConfirmationTypes ==
  ASSUME Types, NEW n \in Node, NEW c \in saving[n], SaveConfirmation(n, c)
  PROVE  Types'
<1>1. TypeOK /\ SentIds /\ KeptIds
  BY DEF Types
<1>2. c \in Saved /\ c.id \in DOMAIN tlc[c.origin]
  BY <1>1 DEF TypeOK, KeptIds
<1>3. /\ confirmations' = [confirmations EXCEPT ![n] = Put(@, c)]
      /\ saving' = [saving EXCEPT ![n] = {}]
      /\ UNCHANGED <<indexed, tlc, confirmed, acks, clientBlock, qsc, myTime, tlcStatus,
                     acking, messageSeen, committedHistory, topBlockchainHash, previousBlockHash>>
  BY DEF SaveConfirmation, chain
<1>4. Put(confirmations[n], c) \in SUBSET Saved /\ Put(confirmations[n], c) \subseteq confirmations[n] \cup {c}
  BY <1>1, <1>2, PutType DEF TypeOK
<1>5. TypeOK'
  <2>1. confirmations' \in [Node -> SUBSET Saved] /\ saving' \in [Node -> SUBSET Saved]
    BY <1>1, <1>3, <1>4 DEF TypeOK
  <2>. QED
    BY <1>1, <1>3, <2>1 DEF TypeOK
<1>6. SentIds'
  BY <1>1, <1>3 DEF SentIds
<1>7. KeptIds'
  <2>1. \A p \in Node : \A x \in confirmations'[p] : x \in confirmations[p] \/ x = c
    BY <1>1, <1>3, <1>4 DEF TypeOK
  <2>2. \A p \in Node : saving'[p] \subseteq saving[p]
    BY <1>1, <1>3 DEF TypeOK
  <2>. QED
    BY <1>1, <1>2, <1>3, <2>1, <2>2 DEF KeptIds
<1>. QED
  BY <1>5, <1>6, <1>7 DEF Types

LEMMA StepTypes ==
  ASSUME Types, [Next]_vars
  PROVE  Types'
<1>1. CASE UNCHANGED vars
  BY <1>1 DEF Types, TypeOK, SentIds, KeptIds, vars, kept, chain
<1>2. ASSUME NEW n \in Node, Publish(n) PROVE Types'
  BY <1>2, PublishTypes
<1>3. ASSUME NEW n \in Node, NEW i \in clientBlock[n], TakeBlock(n, i) PROVE Types'
  BY <1>3, TakeBlockTypes
<1>4. ASSUME NEW n \in Node, QSCStep(n) PROVE Types'
  <2>1. CASE Wait(n)
    BY <2>1, WaitTypes
  <2>2. CASE Confirm(n)
    BY <2>2, ConfirmTypes
  <2>3. CASE NextRound(n)
    BY <2>3, NextRoundTypes
  <2>4. CASE Decide(n)
    BY <2>4, DecideTypes
  <2>5. CASE Crash(n)
    BY <2>5, CrashTypes
  <2>. QED
    BY <1>4, <2>1, <2>2, <2>3, <2>4, <2>5 DEF QSCStep
<1>5. ASSUME NEW n \in Node, NEW o \in Hears[n], NEW i \in DOMAIN tlc[o],
             HandleUnconfirmed(n, o, i) \/ HandleConfirmed(n, o, i)
      PROVE  Types'
  <2>1. o \in Node
    BY ConsensusAssumption
  <2>. QED
    BY <1>5, <2>1, HandleUnconfirmedTypes, HandleConfirmedTypes
<1>6. ASSUME NEW n \in Node, NEW c \in acking[n], Acknowledge(n, c) PROVE Types'
  BY <1>6, AcknowledgeTypes
<1>7. ASSUME NEW n \in Node, NEW c \in saving[n], SaveConfirmation(n, c) PROVE Types'
  BY <1>7, SaveConfirmationTypes
<1>. QED
  BY <1>1, <1>2, <1>3, <1>4, <1>5, <1>6, <1>7 DEF Next

\* Every value of the state is of its type, and whatever a node keeps or waits
\* for is a message that was sent (createTLCMessage, saveConfirmation,
\* saveMessageSeen).
THEOREM TypesHold == Spec => []Types
<1>1. Init => Types
  BY InitTypes
<1>2. Types /\ [Next]_vars => Types'
  BY StepTypes
<1>. QED
  BY <1>1, <1>2, PTL DEF Spec

\* TypeOK of Consensus: blocks are never empty, and the messages chosen from
\* those kept of a round (getTLCWithHighestFitness) are messages.
THEOREM TypeCorrect == Spec => []TypeOK
<1>1. Types => TypeOK
  BY DEF Types
<1>. QED
  BY <1>1, TypesHold, PTL

-----------------------------------------------------------------------------
(* The blocks committed. *)

\* A block that is committed extends the chain.
LEMMA CommitExtends ==
  ASSUME TypeOK, HistoryIsChain, NEW n \in Node, NEW m \in Message, Commit(n, m)
  PROVE  HistoryIsChain'
<1> DEFINE e == m.block[Len(m.block)]
           t == topBlockchainHash[n]
           b == Append(t, e)
<1>1. e \in Name \cup {NoName}
  <2>1. m.block \in Block
    BY DEF Message
  <2>. QED BY <2>1, LastOfBlock
<1>2. t \in Seq(Name \cup {NoName})
  BY DEF TypeOK, Hash
<1>3. {SubSeq(b, 1, i) : i \in 1 .. Len(b)} = {SubSeq(t, 1, i) : i \in 1 .. Len(t)} \cup {b}
  <2> HIDE DEF e, t
  <2>. QED BY <1>1, <1>2, PrefixesOfAppend
<1>4. committedHistory[n] = {SubSeq(t, 1, i) : i \in 1 .. Len(t)}
  BY DEF HistoryIsChain
<1>5. /\ committedHistory' = [committedHistory EXCEPT ![n] = @ \cup {b}]
      /\ topBlockchainHash' = [topBlockchainHash EXCEPT ![n] = b]
  BY DEF Commit
<1> HIDE DEF b, t, e
<1>6. committedHistory'[n] = committedHistory[n] \cup {b} /\ topBlockchainHash'[n] = b
  BY <1>5 DEF TypeOK
<1>7. committedHistory'[n] = {SubSeq(b, 1, i) : i \in 1 .. Len(b)}
  BY <1>3, <1>4, <1>6
<1>8. \A o \in Node \ {n} : committedHistory'[o] = committedHistory[o]
                            /\ topBlockchainHash'[o] = topBlockchainHash[o]
  BY <1>5 DEF TypeOK
<1>. QED
  BY <1>6, <1>7, <1>8 DEF HistoryIsChain

LEMMA StepChain ==
  ASSUME Types, HistoryIsChain, [Next]_vars
  PROVE  HistoryIsChain'
<1>1. ASSUME NEW n \in Node, Decide(n) PROVE HistoryIsChain'
  <2>1. CASE \E m \in Message : Commit(n, m)
    BY <2>1, CommitExtends DEF Types
  <2>2. CASE UNCHANGED <<committedHistory, topBlockchainHash>>
    BY <2>2 DEF HistoryIsChain
  <2>. QED
    BY <1>1, <2>1, <2>2, DecideChain
<1>2. \/ UNCHANGED <<committedHistory, topBlockchainHash>>
      \/ \E n \in Node : Decide(n)
  <2> DEFINE Same == UNCHANGED <<committedHistory, topBlockchainHash>>
  <2>1. CASE UNCHANGED vars
    BY <2>1 DEF vars, chain
  <2>2. ASSUME NEW n \in Node PROVE Publish(n) => Same
    BY DEF Publish, chain
  <2>3. ASSUME NEW n \in Node, NEW i PROVE TakeBlock(n, i) => Same
    BY DEF TakeBlock, chain
  <2>4. ASSUME NEW n \in Node PROVE QSCStep(n) => Same \/ Decide(n)
    BY DEF QSCStep, Wait, Confirm, NextRound, Crash, chain
  <2>5. ASSUME NEW n \in Node, NEW o, NEW i
        PROVE  HandleUnconfirmed(n, o, i) \/ HandleConfirmed(n, o, i) => Same
    BY DEF HandleUnconfirmed, HandleConfirmed, chain
  <2>6. ASSUME NEW n \in Node, NEW c PROVE Acknowledge(n, c) \/ SaveConfirmation(n, c) => Same
    BY DEF Acknowledge, SaveConfirmation, chain
  <2> HIDE DEF Same
  <2>7. CASE Next
    <3>1. PICK n \in Node :
            \/ Publish(n)
            \/ \E i \in clientBlock[n] : TakeBlock(n, i)
            \/ QSCStep(n)
            \/ \E o \in Hears[n] : \E i \in DOMAIN tlc[o] :
                 HandleUnconfirmed(n, o, i) \/ HandleConfirmed(n, o, i)
            \/ \E c \in acking[n] : Acknowledge(n, c)
            \/ \E c \in saving[n] : SaveConfirmation(n, c)
      BY <2>7, Zenon DEF Next
    <3>2. Same \/ Decide(n)
      BY <3>1, <2>2, <2>3, <2>4, <2>5, <2>6, Zenon
    <3>. QED
      BY <3>2 DEF Same
  <2>. QED
    BY <2>1, <2>7 DEF Same
<1>3. CASE UNCHANGED <<committedHistory, topBlockchainHash>>
  BY <1>3 DEF HistoryIsChain
<1>. QED
  BY <1>1, <1>2, <1>3

\* The blocks that a node has committed are the prefixes of its last one, so
\* that the walk of isTxBlockValid from any of them ends at the beginning:
\* qscRound commits a block after the last one, whichever it was proposed
\* after.
THEOREM CommittedIsOneChain == Spec => []HistoryIsChain
<1>1. Init => HistoryIsChain
  <2> SUFFICES ASSUME Init PROVE HistoryIsChain
    OBVIOUS
  <2>1. \A n \in Node : committedHistory[n] = {} /\ topBlockchainHash[n] = <<>>
    BY DEF Init
  <2>2. {SubSeq(<<>>, 1, i) : i \in 1 .. Len(<<>>)} = {}
    OBVIOUS
  <2>. QED
    BY <2>1, <2>2 DEF HistoryIsChain
<1>2. Types /\ HistoryIsChain /\ [Next]_vars => HistoryIsChain'
  BY StepChain
<1>. QED
  BY <1>1, <1>2, TypesHold, PTL DEF Spec
=============================================================================
