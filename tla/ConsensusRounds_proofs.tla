----------------------- MODULE ConsensusRounds_proofs ------------------------
(***************************************************************************)
(* Theorems about Consensus that rest on its rounds: that they are those of*)
(* a threshold logical clock, for every finite set of nodes and any files. *)
(***************************************************************************)
EXTENDS Consensus_proofs, WellFoundedInduction

-----------------------------------------------------------------------------
(* The messages that a node has confirmed, and its round. *)

\* 1 when the message of the round is confirmed, and 0 before.
Delivered(q) == IF q.pc = "wait" /\ q.delivered THEN 1 ELSE 0

\* How the messages B that a node has confirmed, its queue of blocks C, its
\* goroutine q and its time t fit together.
Books(B, C, q, t) ==
  /\ B \cap C = {}
  /\ q.pc \in {"start", "wait"} => q.id \notin C
  /\ q.pc = "start" => q.id \notin B
  /\ q.pc = "wait" => (q.delivered <=> q.id \in B)
  /\ Cardinality(B) = t + Delivered(q)

RoundInv == \A n \in Node : Books(confirmed[n], clientBlock[n], qsc[n], myTime[n])

\* Ids of messages are finitely many.
LEMMA ConfirmedFinite ==
  ASSUME Types, NEW n \in Node
  PROVE  /\ confirmed[n] \in SUBSET ID
         /\ IsFiniteSet(confirmed[n])
         /\ Cardinality(confirmed[n]) \in Nat
<1>1. confirmed[n] \in SUBSET ID /\ confirmed[n] \subseteq DOMAIN tlc[n] /\ tlc[n] \in Seq(Message)
  BY DEF Types, TypeOK, SentIds
<1>2. DOMAIN tlc[n] = 1 .. Len(tlc[n]) /\ Len(tlc[n]) \in Nat
  BY <1>1
<1>3. \A i \in confirmed[n] : i <= Len(tlc[n])
  BY <1>1, <1>2
<1>4. IsFiniteSet(confirmed[n])
  BY <1>1, <1>2, <1>3, FinitelyManyBelow
<1> QED BY <1>1, <1>4, FS_CardinalityType

\* A message confirmed once counts once.
LEMMA OneMoreConfirmed ==
  ASSUME Types, NEW n \in Node, NEW i, i \notin confirmed[n]
  PROVE  Cardinality(confirmed[n] \cup {i}) = Cardinality(confirmed[n]) + 1
<1>1. IsFiniteSet(confirmed[n])
  BY ConfirmedFinite
<1> QED BY <1>1, FS_AddElement

\* The next id is that of no message yet.
LEMMA NextIdIsNew ==
  ASSUME Types, NEW n \in Node
  PROVE  /\ Len(tlc[n]) + 1 \notin confirmed[n]
         /\ Len(tlc[n]) + 1 \notin clientBlock[n]
         /\ qsc[n].pc \in {"start", "wait"} => qsc[n].id # Len(tlc[n]) + 1
<1>1. tlc[n] \in Seq(Message)
  BY DEF Types, TypeOK
<1>2. Len(tlc[n]) + 1 \notin DOMAIN tlc[n]
  BY <1>1
<1> QED BY <1>2 DEF Types, SentIds

\* The books of a node that takes no part in a step are as before.
LEMMA OtherBooks ==
  ASSUME RoundInv, NEW x \in Node,
         confirmed'[x] = confirmed[x], clientBlock'[x] = clientBlock[x],
         qsc'[x] = qsc[x], myTime'[x] = myTime[x]
  PROVE  Books(confirmed'[x], clientBlock'[x], qsc'[x], myTime'[x])
BY DEF RoundInv

LEMMA InitRoundInv == Init => RoundInv
<1> SUFFICES ASSUME Init, NEW n \in Node
             PROVE  Books(confirmed[n], clientBlock[n], qsc[n], myTime[n])
  BY DEF RoundInv
<1>1. confirmed[n] = {} /\ clientBlock[n] = {} /\ qsc[n] = [pc |-> "idle"] /\ myTime[n] = 0
  BY DEF Init
<1>2. Cardinality({}) = 0
  BY FS_EmptySet
<1> QED BY <1>1, <1>2 DEF Books, Delivered

LEMMA PublishBooks ==
  ASSUME Types, RoundInv, NEW n \in Node, Publish(n)
  PROVE  RoundInv'
<1>1. /\ clientBlock' = [clientBlock EXCEPT ![n] = @ \cup {Len(tlc[n]) + 1}]
      /\ confirmed' = confirmed /\ qsc' = qsc /\ myTime' = myTime
  BY DEF Publish
<1>2. Books(confirmed'[n], clientBlock'[n], qsc'[n], myTime'[n])
  BY <1>1, NextIdIsNew DEF RoundInv, Books, Types, TypeOK
<1>3. \A x \in Node \ {n} : clientBlock'[x] = clientBlock[x]
  BY <1>1 DEF Types, TypeOK
<1> QED BY <1>1, <1>2, <1>3, OtherBooks DEF RoundInv

LEMMA TakeBlockBooks ==
  ASSUME Types, RoundInv, NEW n \in Node, NEW i \in clientBlock[n], TakeBlock(n, i)
  PROVE  RoundInv'
<1>1. /\ qsc[n].pc = "idle"
      /\ clientBlock' = [clientBlock EXCEPT ![n] = @ \ {i}]
      /\ qsc' = [qsc EXCEPT ![n] = [pc |-> "start", step |-> 0, id |-> i]]
      /\ confirmed' = confirmed /\ myTime' = myTime
  BY DEF TakeBlock
<1>2. /\ clientBlock'[n] = clientBlock[n] \ {i}
      /\ qsc'[n].pc = "start" /\ qsc'[n].id = i
      /\ \A x \in Node \ {n} : clientBlock'[x] = clientBlock[x] /\ qsc'[x] = qsc[x]
  BY <1>1 DEF Types, TypeOK
<1>3. Delivered(qsc[n]) = 0 /\ Delivered(qsc'[n]) = 0
  BY <1>1, <1>2 DEF Delivered
<1>4. Books(confirmed'[n], clientBlock'[n], qsc'[n], myTime'[n])
  BY <1>1, <1>2, <1>3 DEF RoundInv, Books
<1> QED BY <1>1, <1>2, <1>4, OtherBooks DEF RoundInv

LEMMA WaitBooks ==
  ASSUME Types, RoundInv, NEW n \in Node, Wait(n)
  PROVE  RoundInv'
<1> DEFINE q == [pc |-> "wait", step |-> qsc[n].step, id |-> qsc[n].id, delivered |-> FALSE]
<1>1. /\ qsc[n].pc = "start" /\ qsc' = [qsc EXCEPT ![n] = q]
      /\ confirmed' = confirmed /\ clientBlock' = clientBlock /\ myTime' = myTime
  BY DEF Wait
<1>2. q.pc = "wait" /\ q.id = qsc[n].id /\ q.delivered = FALSE
  OBVIOUS
<1> HIDE DEF q
<1>3. qsc'[n] = q /\ \A x \in Node \ {n} : qsc'[x] = qsc[x]
  BY <1>1 DEF Types, TypeOK
<1>4. Delivered(qsc[n]) = 0 /\ Delivered(qsc'[n]) = 0
  BY <1>1, <1>2, <1>3 DEF Delivered
<1>5. Books(confirmed'[n], clientBlock'[n], qsc'[n], myTime'[n])
  BY <1>1, <1>2, <1>3, <1>4 DEF RoundInv, Books
<1> QED BY <1>1, <1>3, <1>5, OtherBooks DEF RoundInv

\* What a majority of acks changes.
LEMMA ConfirmChanges ==
  ASSUME Types, RoundInv, NEW n \in Node, Confirm(n)
  PROVE  /\ qsc[n].pc = "wait" /\ qsc[n].delivered = FALSE
         /\ qsc'[n].pc = "wait" /\ qsc'[n].delivered = TRUE
         /\ qsc'[n].id = qsc[n].id /\ qsc'[n].step = qsc[n].step
         /\ qsc[n].id \in ID /\ qsc[n].id \notin confirmed[n]
         /\ confirmed'[n] = confirmed[n] \cup {qsc[n].id}
         /\ \A x \in Node \ {n} : qsc'[x] = qsc[x] /\ confirmed'[x] = confirmed[x]
         /\ clientBlock' = clientBlock /\ myTime' = myTime
<1>1. /\ qsc[n].pc = "wait" /\ ~qsc[n].delivered
      /\ qsc' = [qsc EXCEPT ![n].delivered = TRUE]
      /\ confirmed' = [confirmed EXCEPT ![n] = @ \cup {qsc[n].id}]
      /\ clientBlock' = clientBlock /\ myTime' = myTime
  BY DEF Confirm
<1>2. /\ qsc[n].id \in ID /\ qsc[n].delivered \in BOOLEAN
      /\ qsc[n] = [pc |-> "wait", step |-> qsc[n].step, id |-> qsc[n].id,
                   delivered |-> qsc[n].delivered]
  BY <1>1, QSCFields DEF Types, TypeOK
<1>3. qsc'[n] = [qsc[n] EXCEPT !.delivered = TRUE] /\ \A x \in Node \ {n} : qsc'[x] = qsc[x]
  BY <1>1 DEF Types, TypeOK
<1>4. /\ qsc'[n].pc = "wait" /\ qsc'[n].delivered = TRUE /\ qsc'[n].id = qsc[n].id
      /\ qsc'[n].step = qsc[n].step
  BY <1>2, <1>3
<1>5. qsc[n].id \notin confirmed[n]
  BY <1>1 DEF RoundInv, Books
<1>6. /\ confirmed'[n] = confirmed[n] \cup {qsc[n].id}
      /\ \A x \in Node \ {n} : confirmed'[x] = confirmed[x]
  BY <1>1 DEF Types, TypeOK
<1>7. qsc[n].delivered = FALSE
  BY <1>1, <1>2
<1> QED BY <1>1, <1>2, <1>3, <1>4, <1>5, <1>6, <1>7

LEMMA ConfirmBooks ==
  ASSUME Types, RoundInv, NEW n \in Node, Confirm(n)
  PROVE  RoundInv'
<1>1. /\ qsc[n].pc = "wait" /\ qsc[n].delivered = FALSE
      /\ qsc'[n].pc = "wait" /\ qsc'[n].delivered = TRUE /\ qsc'[n].id = qsc[n].id
      /\ qsc[n].id \in ID /\ qsc[n].id \notin confirmed[n]
      /\ confirmed'[n] = confirmed[n] \cup {qsc[n].id}
      /\ \A x \in Node \ {n} : qsc'[x] = qsc[x] /\ confirmed'[x] = confirmed[x]
      /\ clientBlock' = clientBlock /\ myTime' = myTime
  BY ConfirmChanges
<1>2. Cardinality(confirmed'[n]) = Cardinality(confirmed[n]) + 1
  BY <1>1, OneMoreConfirmed
<1>3. Delivered(qsc[n]) = 0 /\ Delivered(qsc'[n]) = 1
  BY <1>1 DEF Delivered
<1>4. Cardinality(confirmed'[n]) = myTime'[n] + Delivered(qsc'[n])
  BY <1>1, <1>2, <1>3 DEF RoundInv, Books, Types, TypeOK
<1>5. Books(confirmed'[n], clientBlock'[n], qsc'[n], myTime'[n])
  BY <1>1, <1>4 DEF RoundInv, Books
<1> QED BY <1>1, <1>5, OtherBooks DEF RoundInv

\* The end of a round leaves as many messages confirmed as rounds are over.
LEMMA RoundOverChanges ==
  ASSUME Types, RoundInv, NEW n \in Node, RoundOver(n)
  PROVE  /\ qsc[n].pc \in {"start", "wait"}
         /\ Majority(Origins(Of(confirmations[n], myTime[n])))
         /\ myTime'[n] = myTime[n] + 1 /\ myTime' = [myTime EXCEPT ![n] = @ + 1]
         /\ confirmed'[n] = confirmed[n] \cup {qsc[n].id}
         /\ \A x \in Node \ {n} : myTime'[x] = myTime[x] /\ confirmed'[x] = confirmed[x]
         /\ Cardinality(confirmed'[n]) = myTime'[n]
         /\ confirmed'[n] \cap clientBlock[n] = {}
<1>1. /\ qsc[n].pc \in {"start", "wait"}
      /\ Majority(Origins(Of(confirmations[n], myTime[n])))
      /\ myTime' = [myTime EXCEPT ![n] = @ + 1]
      /\ confirmed' = [confirmed EXCEPT ![n] = @ \cup {qsc[n].id}]
  BY DEF RoundOver
<1>2. /\ myTime'[n] = myTime[n] + 1 /\ myTime[n] \in Nat
      /\ confirmed'[n] = confirmed[n] \cup {qsc[n].id}
      /\ \A x \in Node \ {n} : myTime'[x] = myTime[x] /\ confirmed'[x] = confirmed[x]
  BY <1>1 DEF Types, TypeOK
<1>3. /\ qsc[n].id \in ID /\ qsc[n].id \notin clientBlock[n]
      /\ qsc[n].pc = "start" => qsc[n].id \notin confirmed[n]
      /\ qsc[n].pc = "wait" => (qsc[n].delivered <=> qsc[n].id \in confirmed[n])
      /\ Cardinality(confirmed[n]) = myTime[n] + Delivered(qsc[n])
      /\ confirmed[n] \cap clientBlock[n] = {}
  BY <1>1, QSCFields DEF Types, TypeOK, RoundInv, Books
<1>4. CASE qsc[n].id \in confirmed[n]
  <2>1. confirmed'[n] = confirmed[n]
    BY <1>2, <1>4
  <2>2. Delivered(qsc[n]) = 1
    BY <1>1, <1>3, <1>4 DEF Delivered
  <2> QED BY <1>1, <1>2, <1>3, <2>1, <2>2
<1>5. CASE qsc[n].id \notin confirmed[n]
  <2>1. Cardinality(confirmed'[n]) = Cardinality(confirmed[n]) + 1
    BY <1>2, <1>5, OneMoreConfirmed
  <2>2. Delivered(qsc[n]) = 0
    BY <1>1, <1>3, <1>5 DEF Delivered
  <2>3. Cardinality(confirmed'[n]) = myTime'[n]
    BY <1>2, <1>3, <2>1, <2>2
  <2> QED BY <1>1, <1>2, <1>3, <2>3
<1> QED BY <1>4, <1>5

LEMMA NextRoundBooks ==
  ASSUME Types, RoundInv, NEW n \in Node, NextRound(n)
  PROVE  RoundInv'
<1> DEFINE k == Len(tlc[n]) + 1
           q == [pc |-> "start", step |-> qsc[n].step + 1, id |-> k]
<1>1. RoundOver(n) /\ qsc' = [qsc EXCEPT ![n] = q] /\ clientBlock' = clientBlock
  BY DEF NextRound
<1>2. q.pc = "start" /\ q.id = k
  OBVIOUS
<1> HIDE DEF q
<1>3. qsc'[n] = q /\ \A x \in Node \ {n} : qsc'[x] = qsc[x]
  BY <1>1 DEF Types, TypeOK
<1>4. /\ qsc[n].pc \in {"start", "wait"}
      /\ confirmed'[n] = confirmed[n] \cup {qsc[n].id}
      /\ \A x \in Node \ {n} : myTime'[x] = myTime[x] /\ confirmed'[x] = confirmed[x]
      /\ Cardinality(confirmed'[n]) = myTime'[n]
      /\ confirmed'[n] \cap clientBlock[n] = {}
      /\ myTime'[n] \in Nat
  <2>1. myTime[n] \in Nat
    BY DEF Types, TypeOK
  <2> QED BY <1>1, <2>1, RoundOverChanges
<1>5. k \notin confirmed'[n] /\ k \notin clientBlock[n]
  BY <1>4, NextIdIsNew
<1>6. Delivered(qsc'[n]) = 0
  BY <1>2, <1>3 DEF Delivered
<1> HIDE DEF k
<1>7. Books(confirmed'[n], clientBlock'[n], qsc'[n], myTime'[n])
  BY <1>1, <1>2, <1>3, <1>4, <1>5, <1>6 DEF Books
<1> QED BY <1>1, <1>3, <1>4, <1>7, OtherBooks DEF RoundInv

\* The end of a consensus.
LEMMA LastRoundBooks ==
  ASSUME Types, RoundInv, NEW n \in Node, Decide(n) \/ Crash(n)
  PROVE  RoundInv'
<1>1. /\ RoundOver(n) /\ clientBlock' = clientBlock
      /\ \E p \in {"idle", "crashed"} : qsc' = [qsc EXCEPT ![n] = [pc |-> p]]
  BY DEF Decide, Crash
<1>2. qsc'[n].pc \in {"idle", "crashed"} /\ \A x \in Node \ {n} : qsc'[x] = qsc[x]
  BY <1>1 DEF Types, TypeOK
<1>3. /\ \A x \in Node \ {n} : myTime'[x] = myTime[x] /\ confirmed'[x] = confirmed[x]
      /\ Cardinality(confirmed'[n]) = myTime'[n]
      /\ confirmed'[n] \cap clientBlock[n] = {}
      /\ myTime'[n] \in Nat
  <2>1. myTime[n] \in Nat
    BY DEF Types, TypeOK
  <2> QED BY <1>1, <2>1, RoundOverChanges
<1>4. Delivered(qsc'[n]) = 0
  BY <1>2 DEF Delivered
<1>5. Books(confirmed'[n], clientBlock'[n], qsc'[n], myTime'[n])
  BY <1>1, <1>2, <1>3, <1>4 DEF Books
<1> QED BY <1>1, <1>2, <1>3, <1>5, OtherBooks DEF RoundInv

\* The steps that concern no round of their own.
Handles(n) ==
  \/ \E o \in Hears[n] : \E i \in DOMAIN tlc[o] :
       HandleUnconfirmed(n, o, i) \/ HandleConfirmed(n, o, i)
  \/ \E c \in acking[n] : Acknowledge(n, c)
  \/ \E c \in saving[n] : SaveConfirmation(n, c)

\* The cases of a step.
LEMMA StepCases ==
  ASSUME [Next]_vars
  PROVE  \/ \E n \in Node : Publish(n)
         \/ \E n \in Node : \E i \in clientBlock[n] : TakeBlock(n, i)
         \/ \E n \in Node : Wait(n)
         \/ \E n \in Node : Confirm(n)
         \/ \E n \in Node : NextRound(n)
         \/ \E n \in Node : Decide(n) \/ Crash(n)
         \/ \E n \in Node : Handles(n)
         \/ UNCHANGED vars
<1>1. CASE Next
  <2>1. PICK n \in Node :
          \/ Publish(n)
          \/ \E i \in clientBlock[n] : TakeBlock(n, i)
          \/ QSCStep(n)
          \/ \E o \in Hears[n] : \E i \in DOMAIN tlc[o] :
               HandleUnconfirmed(n, o, i) \/ HandleConfirmed(n, o, i)
          \/ \E c \in acking[n] : Acknowledge(n, c)
          \/ \E c \in saving[n] : SaveConfirmation(n, c)
    BY <1>1, Zenon DEF Next
  <2> QED BY <2>1, Zenon DEF QSCStep, Handles
<1> QED BY <1>1

LEMMA HandlesUnchanged ==
  ASSUME NEW n \in Node, Handles(n)
  PROVE  UNCHANGED <<indexed, tlc, confirmed, clientBlock, qsc, myTime, chain>>
BY DEF Handles, HandleUnconfirmed, Acknowledge, HandleConfirmed, SaveConfirmation

LEMMA NextRoundInv ==
  ASSUME Types, RoundInv, [Next]_vars
  PROVE  RoundInv'
<1>1. ASSUME UNCHANGED <<confirmed, clientBlock, qsc, myTime>> PROVE RoundInv'
  BY <1>1 DEF RoundInv
<1>2. ASSUME NEW n \in Node, Handles(n) PROVE RoundInv'
  BY <1>1, <1>2, HandlesUnchanged
<1>3. CASE UNCHANGED vars
  BY <1>1, <1>3 DEF vars
<1> QED BY <1>2, <1>3, StepCases, PublishBooks, TakeBlockBooks, WaitBooks, ConfirmBooks,
           NextRoundBooks, LastRoundBooks

-----------------------------------------------------------------------------
(* What a node believes about the messages that others have confirmed. *)

\* What is kept under round r is of an origin with more than r messages
\* confirmed.
KeptInv ==
  \A n \in Node :
    /\ \A o \in Node : tlcStatus[n][o] \subseteq confirmed[o]
    /\ \A c \in confirmations[n] \cup saving[n] : c.round < Cardinality(confirmed[c.origin])

\* A step never takes a confirmation back.
LEMMA ConfirmedGrows ==
  ASSUME Types, RoundInv, [Next]_vars, NEW x \in Node
  PROVE  /\ confirmed[x] \subseteq confirmed'[x]
         /\ Cardinality(confirmed[x]) \in Nat /\ Cardinality(confirmed'[x]) \in Nat
         /\ Cardinality(confirmed[x]) <= Cardinality(confirmed'[x])
<1>1. confirmed[x] \subseteq confirmed'[x]
  <2>1. ASSUME confirmed' = confirmed PROVE confirmed[x] \subseteq confirmed'[x]
    BY <2>1
  <2>2. ASSUME NEW n \in Node, Confirm(n) PROVE confirmed[x] \subseteq confirmed'[x]
    BY <2>2, ConfirmChanges
  <2>3. ASSUME NEW n \in Node, RoundOver(n) PROVE confirmed[x] \subseteq confirmed'[x]
    BY <2>3, RoundOverChanges
  <2>4. ASSUME NEW n \in Node, NextRound(n) \/ Decide(n) \/ Crash(n)
        PROVE  confirmed[x] \subseteq confirmed'[x]
    BY <2>3, <2>4 DEF NextRound, Decide, Crash
  <2>5. ASSUME NEW n \in Node,
               Publish(n) \/ (\E i \in clientBlock[n] : TakeBlock(n, i)) \/ Wait(n) \/ Handles(n)
        PROVE  confirmed' = confirmed
    BY <2>5, HandlesUnchanged DEF Publish, TakeBlock, Wait
  <2>6. CASE UNCHANGED vars
    BY <2>1, <2>6 DEF vars
  <2> QED BY <2>1, <2>2, <2>4, <2>5, <2>6, StepCases
<1>2. IsFiniteSet(confirmed'[x])
  <2>1. Types'
    BY StepTypes
  <2>2. /\ confirmed'[x] \in SUBSET ID /\ confirmed'[x] \subseteq DOMAIN tlc'[x]
        /\ tlc'[x] \in Seq(Message)
    BY <2>1 DEF Types, TypeOK, SentIds
  <2>3. DOMAIN tlc'[x] = 1 .. Len(tlc'[x]) /\ Len(tlc'[x]) \in Nat
    BY <2>2
  <2>4. \A i \in confirmed'[x] : i <= Len(tlc'[x])
    BY <2>2, <2>3
  <2> QED BY <2>2, <2>3, <2>4, FinitelyManyBelow
<1> QED BY <1>1, <1>2, FS_Subset, FS_CardinalityType

\* The round computed for a confirmation counts confirmations of its origin
\* without the one at hand.
LEMMA RoundBelow ==
  ASSUME Types, KeptInv, NEW n \in Node, NEW o \in Node, NEW i \in confirmed[o]
  PROVE  RoundOf(n, o, i) < Cardinality(confirmed[o]) /\ RoundOf(n, o, i) \in Nat
<1> DEFINE K == {k \in tlcStatus[n][o] : k < i}
<1>1. confirmed[o] \in SUBSET ID /\ IsFiniteSet(confirmed[o]) /\ Cardinality(confirmed[o]) \in Nat
  BY ConfirmedFinite
<1>2. K \subseteq confirmed[o] \ {i}
  <2>1. i \in Nat
    BY <1>1 DEF ID
  <2> QED BY <2>1 DEF KeptInv
<1>3. /\ IsFiniteSet(confirmed[o] \ {i})
      /\ Cardinality(confirmed[o] \ {i}) = Cardinality(confirmed[o]) - 1
  BY <1>1, FS_RemoveElement
<1>4. Cardinality(K) <= Cardinality(confirmed[o] \ {i}) /\ Cardinality(K) \in Nat
  <2> HIDE DEF K
  <2> QED BY <1>2, <1>3, FS_Subset, FS_CardinalityType
<1>5. RoundOf(n, o, i) = Cardinality(K)
  BY DEF RoundOf, getMessageOriginalRound
<1> QED BY <1>1, <1>3, <1>4, <1>5

LEMMA InitKept == Init => KeptInv
BY DEF Init, KeptInv

LEMMA NextKept ==
  ASSUME Types, RoundInv, KeptInv, [Next]_vars
  PROVE  KeptInv'
<1>1. \A x \in Node :
        /\ confirmed[x] \subseteq confirmed'[x]
        /\ Cardinality(confirmed[x]) \in Nat /\ Cardinality(confirmed'[x]) \in Nat
        /\ Cardinality(confirmed[x]) <= Cardinality(confirmed'[x])
  BY ConfirmedGrows
<1>2. \A n \in Node : \A c \in confirmations[n] \cup saving[n] :
        c.round < Cardinality(confirmed'[c.origin])
  <2>1. \A n \in Node : \A c \in confirmations[n] \cup saving[n] : c.origin \in Node /\ c.round \in Nat
    BY DEF Types, TypeOK, Saved
  <2> QED BY <1>1, <2>1 DEF KeptInv
<1>3. \A n, o \in Node : tlcStatus[n][o] \subseteq confirmed'[o]
  BY <1>1 DEF KeptInv
<1>4. ASSUME UNCHANGED <<confirmations, tlcStatus, saving>> PROVE KeptInv'
  BY <1>2, <1>3, <1>4 DEF KeptInv
<1>5. ASSUME NEW n \in Node, Confirm(n) PROVE KeptInv'
  <2> DEFINE c == [round |-> myTime[n], origin |-> n, id |-> qsc[n].id]
  <2>1. /\ confirmations' = [confirmations EXCEPT ![n] = Put(@, c)]
        /\ tlcStatus' = tlcStatus /\ saving' = saving
    BY <1>5 DEF Confirm
  <2>2. c.round < Cardinality(confirmed'[c.origin])
    <3>1. RoundInv'
      BY NextRoundInv
    <3>2. qsc'[n].pc = "wait" /\ qsc'[n].delivered = TRUE /\ myTime'[n] = myTime[n]
      BY <1>5, ConfirmChanges
    <3>3. Cardinality(confirmed'[n]) = myTime[n] + 1
      BY <3>1, <3>2 DEF RoundInv, Books, Delivered
    <3> QED BY <3>3 DEF Types, TypeOK
  <2> HIDE DEF c
  <2>3. \A x \in Node : \A k \in confirmations'[x] : k \in confirmations[x] \/ k = c
    BY <2>1 DEF Put, Types, TypeOK
  <2> QED BY <1>2, <1>3, <2>1, <2>2, <2>3 DEF KeptInv
<1>6. ASSUME NEW n \in Node, NEW o \in Node, NEW i \in DOMAIN tlc[o], HandleConfirmed(n, o, i)
      PROVE  KeptInv'
  <2> DEFINE c == [round |-> RoundOf(n, o, i), origin |-> o, id |-> i]
             C == {x \in {c} : x.round >= myTime[n]}
  <2>1. /\ i \in confirmed[o]
        /\ tlcStatus' = [tlcStatus EXCEPT ![n][o] = @ \cup {i}]
        /\ saving' = [saving EXCEPT ![n] = C]
        /\ confirmations' = confirmations /\ confirmed' = confirmed
    BY <1>6 DEF HandleConfirmed
  <2>2. c.round < Cardinality(confirmed'[c.origin])
    BY <2>1, RoundBelow
  <2>3. C \subseteq {c}
    OBVIOUS
  <2> HIDE DEF c, C
  <2>4. \A x \in Node : \A k \in saving'[x] : k \in saving[x] \/ k = c
    BY <2>1, <2>3 DEF Types, TypeOK
  <2>5. \A x, p \in Node : tlcStatus'[x][p] \subseteq confirmed'[p]
    BY <1>3, <2>1 DEF Types, TypeOK
  <2> QED BY <1>2, <2>1, <2>2, <2>4, <2>5 DEF KeptInv
<1>7. ASSUME NEW n \in Node, NEW c \in saving[n], SaveConfirmation(n, c) PROVE KeptInv'
  <2>1. /\ confirmations' = [confirmations EXCEPT ![n] = Put(@, c)]
        /\ saving' = [saving EXCEPT ![n] = {}] /\ tlcStatus' = tlcStatus
    BY <1>7 DEF SaveConfirmation
  <2>2. \A x \in Node : confirmations'[x] \cup saving'[x] \subseteq confirmations[x] \cup saving[x]
    BY <2>1 DEF Put, Types, TypeOK
  <2> QED BY <1>2, <1>3, <2>1, <2>2 DEF KeptInv
<1>8. ASSUME NEW n \in Node, Handles(n) PROVE KeptInv'
  <2>1. ASSUME NEW o \in Hears[n], NEW i \in DOMAIN tlc[o],
               HandleUnconfirmed(n, o, i) \/ HandleConfirmed(n, o, i)
        PROVE  KeptInv'
    <3>1. o \in Node
      BY ConsensusAssumption
    <3>2. CASE HandleUnconfirmed(n, o, i)
      BY <1>4, <3>2 DEF HandleUnconfirmed
    <3> QED BY <1>6, <2>1, <3>1, <3>2
  <2>2. ASSUME NEW c \in acking[n], Acknowledge(n, c) PROVE KeptInv'
    BY <1>4, <2>2 DEF Acknowledge
  <2> QED BY <1>7, <1>8, <2>1, <2>2 DEF Handles
<1>9. ASSUME NEW n \in Node,
             \/ Publish(n) \/ (\E i \in clientBlock[n] : TakeBlock(n, i)) \/ Wait(n)
             \/ NextRound(n) \/ Decide(n) \/ Crash(n)
      PROVE  UNCHANGED <<confirmations, tlcStatus, saving>>
  BY <1>9 DEF Publish, TakeBlock, Wait, NextRound, Decide, Crash, kept
<1>10. CASE UNCHANGED vars
  BY <1>4, <1>10 DEF vars, kept
<1> QED BY <1>4, <1>5, <1>8, <1>9, <1>10, StepCases

-----------------------------------------------------------------------------
(* The threshold logical clock. *)

Sent == [n \in Node |-> Cardinality(confirmed[n])]

\* How many confirmations a node has sent follows from its round.
SentInv == \A x \in Node : Sent[x] = myTime[x] + Delivered(qsc[x]) /\ Sent[x] \in Nat

LEMMA SentByRound == Types /\ RoundInv => SentInv
BY ConfirmedFinite DEF Sent, SentInv, RoundInv, Books

\* ThresholdClock counts as this module does.
LEMMA SameCardinality == \A S : Threshold!Cardinality(S) = Cardinality(S)
BY DEF Threshold!Cardinality, Cardinality

\* Those whose messages a node keeps of its round have confirmed in it.
LEMMA AheadOfRound ==
  ASSUME Types, KeptInv, NEW n \in Node, Majority(Origins(Of(confirmations[n], myTime[n])))
  PROVE  Threshold!Majority(Threshold!Ahead(n))
<1> DEFINE A == {o \in Node : Sent[o] > myTime[n]}
           C == Origins(Of(confirmations[n], myTime[n]))
<1>1. C \subseteq A
  <2>1. \A c \in confirmations[n] : c.origin \in Node /\ c.round < Cardinality(confirmed[c.origin])
    BY DEF Types, TypeOK, Saved, KeptInv
  <2>2. \A o \in Node : Sent[o] = Cardinality(confirmed[o]) /\ Sent[o] \in Nat /\ myTime[n] \in Nat
    BY ConfirmedFinite DEF Sent, Types, TypeOK
  <2> QED BY <2>1, <2>2 DEF Origins, Of
<1>2. IsFiniteSet(A) /\ IsFiniteSet(C) /\ Cardinality(C) <= Cardinality(A)
  <2>1. IsFiniteSet(Node) /\ A \subseteq Node
    BY ConsensusAssumption
  <2>2. IsFiniteSet(A)
    <3> HIDE DEF A
    <3> QED BY <2>1, FS_Subset
  <2> HIDE DEF A, C
  <2> QED BY <1>1, <2>2, FS_Subset
<1>3. /\ Cardinality(C) \in Nat /\ Cardinality(A) \in Nat /\ Cardinality(Node) \div 2 \in Nat
  <2>1. IsFiniteSet(Node)
    BY ConsensusAssumption
  <2>2. Cardinality(Node) \in Nat
    BY <2>1, FS_CardinalityType
  <2> HIDE DEF A, C
  <2> QED BY <1>2, <2>2, FS_CardinalityType
<1>4. Cardinality(C) > Cardinality(Node) \div 2
  BY DEF Majority
<1> HIDE DEF C
<1>5. Threshold!Ahead(n) = A
  BY DEF Threshold!Ahead, Sent
<1> HIDE DEF A
<1>6. Cardinality(A) > Cardinality(Node) \div 2
  BY <1>2, <1>3, <1>4
<1> QED BY <1>5, <1>6, SameCardinality DEF Threshold!Majority

\* The end of a round is a tick of the clock.
LEMMA RoundOverTicks ==
  ASSUME Types, RoundInv, KeptInv, NEW n \in Node, RoundOver(n)
  PROVE  Threshold!Tick(n)
<1>1. /\ Majority(Origins(Of(confirmations[n], myTime[n])))
      /\ myTime' = [myTime EXCEPT ![n] = @ + 1]
      /\ myTime'[n] = myTime[n] + 1
      /\ \A x \in Node \ {n} : confirmed'[x] = confirmed[x]
      /\ Cardinality(confirmed'[n]) = myTime'[n]
  BY RoundOverChanges
<1>2. Threshold!Majority(Threshold!Ahead(n))
  BY <1>1, AheadOfRound
<1>3. Sent' = [Sent EXCEPT ![n] = myTime[n] + 1]
  BY <1>1 DEF Sent
<1> QED BY <1>1, <1>2, <1>3 DEF Threshold!Tick, Sent

LEMMA InitTicks == Init => Threshold!Init
<1> SUFFICES ASSUME Init PROVE Threshold!Init
  OBVIOUS
<1>1. \A n \in Node : Cardinality(confirmed[n]) = 0
  BY FS_EmptySet DEF Init
<1> QED BY <1>1 DEF Init, Threshold!Init

LEMMA NextTicks ==
  ASSUME Types, RoundInv, KeptInv, SentInv, [Next]_vars
  PROVE  [Threshold!Next]_(Threshold!vars)
<1> DEFINE Goal == [Threshold!Next]_(Threshold!vars)
<1>1. ASSUME UNCHANGED <<confirmed, myTime>> PROVE Goal
  BY <1>1 DEF Threshold!vars
<1>2. ASSUME NEW n \in Node, Confirm(n) PROVE Goal
  <2>1. /\ qsc[n].pc = "wait" /\ qsc[n].delivered = FALSE /\ qsc[n].id \notin confirmed[n]
        /\ confirmed'[n] = confirmed[n] \cup {qsc[n].id}
        /\ \A x \in Node \ {n} : confirmed'[x] = confirmed[x]
        /\ myTime' = myTime
    BY <1>2, ConfirmChanges
  <2>2. Sent[n] = myTime[n]
    BY <2>1 DEF SentInv, Delivered, Types, TypeOK
  <2>3. Cardinality(confirmed'[n]) = Sent[n] + 1
    BY <2>1, OneMoreConfirmed DEF Sent
  <2>4. Sent' = [Sent EXCEPT ![n] = @ + 1]
    BY <2>1, <2>3 DEF Sent
  <2>5. Threshold!Confirm(n)
    BY <2>1, <2>2, <2>4 DEF Threshold!Confirm, Sent
  <2> QED BY <2>5 DEF Threshold!Next
<1>3. ASSUME NEW n \in Node, NextRound(n) \/ Decide(n) \/ Crash(n) PROVE Goal
  <2>1. RoundOver(n)
    BY <1>3 DEF NextRound, Decide, Crash
  <2>2. Threshold!Tick(n)
    BY <2>1, RoundOverTicks
  <2> QED BY <2>2 DEF Threshold!Next
<1>4. ASSUME NEW n \in Node,
             Publish(n) \/ (\E i \in clientBlock[n] : TakeBlock(n, i)) \/ Wait(n) \/ Handles(n)
      PROVE  UNCHANGED <<confirmed, myTime>>
  BY <1>4, HandlesUnchanged DEF Publish, TakeBlock, Wait
<1>5. ASSUME UNCHANGED vars PROVE Goal
  BY <1>1, <1>5 DEF vars
<1> HIDE DEF Goal
<1>6. Goal
  <2>1. \/ UNCHANGED <<confirmed, myTime>>
        \/ \E n \in Node : Confirm(n)
        \/ \E n \in Node : NextRound(n) \/ Decide(n) \/ Crash(n)
        \/ UNCHANGED vars
    BY <1>4, StepCases
  <2>2. CASE UNCHANGED <<confirmed, myTime>>
    BY <1>1, <2>2
  <2>3. CASE \E n \in Node : Confirm(n)
    BY <1>2, <2>3
  <2>4. CASE \E n \in Node : NextRound(n) \/ Decide(n) \/ Crash(n)
    BY <1>3, <2>4
  <2> QED BY <1>5, <2>1, <2>2, <2>3, <2>4
<1> QED BY <1>6 DEF Goal

RoundsInv == Types /\ RoundInv /\ KeptInv

LEMMA RoundsHold == Spec => []RoundsInv
<1>1. Init => RoundsInv
  BY InitTypes, InitRoundInv, InitKept DEF RoundsInv
<1>2. RoundsInv /\ [Next]_vars => RoundsInv'
  BY StepTypes, NextRoundInv, NextKept DEF RoundsInv
<1> QED BY <1>1, <1>2, PTL DEF Spec

\* The rounds of a consensus are those of a threshold logical clock: a message
\* that nobody acknowledged is confirmed at the end of the round that it was
\* sent for, and one that is sent on takes a round of its own.
THEOREM RoundsAreClock == Spec => ImplementsClock
<1>1. Init => Threshold!Init
  BY InitTicks
<1>2. RoundsInv => SentInv
  BY SentByRound DEF RoundsInv
<1>3. RoundsInv /\ SentInv /\ [Next]_vars => [Threshold!Next]_(Threshold!vars)
  BY NextTicks DEF RoundsInv
<1> QED BY <1>1, <1>2, <1>3, RoundsHold, PTL DEF Spec, ImplementsClock, Threshold!Spec

\* The theorem of the abstract clock, for this one.
ClockProofs == INSTANCE ThresholdClock_proofs WITH
  clock <- myTime, sent <- [n \in Node |-> Cardinality(confirmed[n])]

LEMMA SameCount == \A S : ClockProofs!Cardinality(S) = Cardinality(S)
BY DEF ClockProofs!Cardinality, Cardinality

\* No node is more than one round ahead of a majority, because its rounds are
\* those of a threshold logical clock.
THEOREM PaceIsKept == Spec => []KeepsPace
<1>1. ClockProofs!IsFiniteSet(Node)
  BY ConsensusAssumption DEF ClockProofs!IsFiniteSet, IsFiniteSet
<1>2. ClockProofs!Spec => []ClockProofs!Pace
  BY <1>1, ClockProofs!PaceKept, PTL
<1>3. Threshold!Init => ClockProofs!Init
  BY DEF Threshold!Init, ClockProofs!Init
<1>4. [Threshold!Next]_(Threshold!vars) => [ClockProofs!Next]_(ClockProofs!vars)
  <2>1. \A S : Threshold!Majority(S) <=> ClockProofs!Majority(S)
    BY SameCardinality, SameCount DEF Threshold!Majority, ClockProofs!Majority
  <2>2. \A n \in Node : Threshold!Confirm(n) <=> ClockProofs!Confirm(n)
    BY DEF Threshold!Confirm, ClockProofs!Confirm
  <2>3. \A n \in Node : Threshold!Tick(n) <=> ClockProofs!Tick(n)
    BY <2>1 DEF Threshold!Tick, ClockProofs!Tick, Threshold!Ahead, ClockProofs!Ahead
  <2> QED BY <2>2, <2>3 DEF Threshold!Next, ClockProofs!Next, Threshold!vars, ClockProofs!vars
<1>5. ClockProofs!Pace => KeepsPace
  BY SameCardinality, SameCount
  DEF KeepsPace, Threshold!Pace, ClockProofs!Pace, Threshold!Majority, ClockProofs!Majority
<1> QED BY <1>2, <1>3, <1>4, <1>5, RoundsAreClock, PTL
        DEF ImplementsClock, Threshold!Spec, ClockProofs!Spec

-----------------------------------------------------------------------------
(* The message that is chosen. *)

\* A set of numbers below a bound has a greatest one.
LEMMA GreatestOfBounded ==
  ASSUME NEW N \in Nat, NEW F \in SUBSET (0 .. N), F # {}
  PROVE  \E f \in F : \A g \in F : g <= f
<1> DEFINE Above(f) == (f + 1) .. N
           T == {Above(f) : f \in F}
<1>1. T \subseteq FiniteSubsetsOf(Nat) /\ T # {}
  <2>1. ASSUME NEW f \in F PROVE Above(f) \in FiniteSubsetsOf(Nat)
    <3>1. f + 1 \in Int /\ N \in Int /\ f \in Nat
      OBVIOUS
    <3>2. IsFiniteSet((f + 1) .. N)
      BY <3>1, FS_Interval
    <3> QED BY <3>1, <3>2 DEF FiniteSubsetsOf
  <2> QED BY <2>1
<1>2. IsWellFoundedOn(StrictSubsetOrdering(Nat), FiniteSubsetsOf(Nat))
  BY FS_StrictSubsetOrderingWellFounded
<1>3. PICK x \in T : \A y \in T : ~(<<y, x>> \in StrictSubsetOrdering(Nat))
  <2> HIDE DEF T
  <2> QED BY <1>1, <1>2, WFMin
<1>4. PICK f \in F : x = Above(f)
  BY <1>3
<1>5. ASSUME NEW g \in F, g > f PROVE FALSE
  <2>1. f \in Nat /\ g \in Nat /\ g <= N
    OBVIOUS
  <2>2. Above(g) \in SUBSET Nat /\ Above(f) \in SUBSET Nat /\ Above(g) \subseteq Above(f)
    BY <1>5, <2>1
  <2>3. g \in Above(f) /\ g \notin Above(g)
    BY <1>5, <2>1
  <2>4. <<Above(g), Above(f)>> \in StrictSubsetOrdering(Nat)
    <3> HIDE DEF Above
    <3> QED BY <2>2, <2>3 DEF StrictSubsetOrdering
  <2> QED BY <1>3, <1>4, <2>4
<1> QED BY <1>5

\* The best of some messages, none of which has fitness 0, is one of them.
LEMMA HighestOfPositive ==
  ASSUME NEW N \in Nat, NEW M \in SUBSET Message, M # {},
         \A m \in M : m.fitness > 0 /\ m.fitness <= N
  PROVE  Highest(M) \subseteq M
<1> DEFINE F == {m.fitness : m \in M}
<1>1. F \in SUBSET (0 .. N) /\ F # {}
  BY DEF Message
<1>2. PICK f \in F : \A g \in F : g <= f
  <2> HIDE DEF F
  <2> QED BY <1>1, GreatestOfBounded
<1>3. PICK m \in M : m.fitness = f
  BY <1>2
<1>4. m.fitness > 0 /\ \A x \in M : x.fitness <= m.fitness
  BY <1>2, <1>3
<1> QED BY <1>4 DEF Highest

\* Messages are kept of a round that is over.
LEMMA MajorityIsSomeone ==
  ASSUME NEW C \in SUBSET Saved, Majority(Origins(C))
  PROVE  C # {}
<1> SUFFICES ASSUME C = {} PROVE FALSE
  OBVIOUS
<1>1. Origins(C) = {}
  BY DEF Origins
<1>2. Cardinality(Origins(C)) = 0
  BY <1>1, FS_EmptySet
<1>3. IsFiniteSet(Node)
  BY ConsensusAssumption
<1>4. Cardinality(Node) \in Nat
  BY <1>3, FS_CardinalityType
<1> QED BY <1>2, <1>4 DEF Majority

-----------------------------------------------------------------------------
(* Names of the blocks proposed, sent on and committed. *)

\* rand.Float32 draws no 0.
FitnessPositive == \A n \in Node : \A k \in DOMAIN Fitness[n] : 0 \notin Fitness[n][k]

\* A message with one of the names I and a fitness above that of the empty one.
Proper(I, m) == m.fitness > 0 /\ m.block[Len(m.block)] \in I

\* A bound on the fitness drawn so far.
Bounded == \E N \in Nat : \A n \in Node : \A i \in DOMAIN tlc[n] : tlc[n][i].fitness <= N

ProperInv == Bounded /\ \A n \in Node : \A i \in DOMAIN tlc[n] : Proper(Indexed, tlc[n][i])

LEMMA InitProper == Init => ProperInv
<1> SUFFICES ASSUME Init PROVE ProperInv
  OBVIOUS
<1>1. \A n \in Node : DOMAIN tlc[n] = {}
  BY DEF Init
<1>2. 0 \in Nat
  OBVIOUS
<1> QED BY <1>1, <1>2 DEF ProperInv, Bounded

\* No file is taken back.
LEMMA StillIndexed ==
  ASSUME Types, [Next]_vars
  PROVE  Indexed \subseteq Indexed'
<1>1. indexed' = indexed \/ \E n \in Node : Publish(n)
  <2>1. ASSUME NEW n \in Node, Handles(n) PROVE indexed' = indexed
    BY <2>1, HandlesUnchanged
  <2>2. ASSUME NEW n \in Node,
               \/ (\E i \in clientBlock[n] : TakeBlock(n, i)) \/ Wait(n) \/ Confirm(n)
               \/ NextRound(n) \/ Decide(n) \/ Crash(n)
        PROVE  indexed' = indexed
    BY <2>2 DEF TakeBlock, Wait, Confirm, NextRound, Decide, Crash
  <2>3. UNCHANGED vars => indexed' = indexed
    BY DEF vars
  <2> QED BY <2>1, <2>2, <2>3, StepCases
<1>2. indexed' = indexed \/ \E n \in Node : indexed' = [indexed EXCEPT ![n] = @ + 1]
  BY <1>1 DEF Publish
<1>3. indexed \in [Node -> Nat]
  BY DEF Types, TypeOK
<1>4. \A o \in Node : indexed[o] \in Nat /\ indexed'[o] \in Nat /\ indexed[o] <= indexed'[o]
  BY <1>2, <1>3
<1>5. \A o \in Node : 1 .. indexed[o] \subseteq 1 .. indexed'[o]
  BY <1>4
<1> QED BY <1>5 DEF Indexed

\* What is kept of a round are proper messages.
LEMMA KeptProper ==
  ASSUME Types, ProperInv, NEW n \in Node, NEW r
  PROVE  \A m \in Messages(Of(confirmations[n], r)) : Proper(Indexed, m)
<1>1. \A c \in confirmations[n] : c.origin \in Node /\ c.id \in DOMAIN tlc[c.origin]
  BY DEF Types, TypeOK, KeptIds, Saved
<1> QED BY <1>1 DEF Messages, Of, ProperInv

\* A node that has a majority chooses a proper message.
LEMMA ChoiceIsProper ==
  ASSUME Types, ProperInv, NEW n \in Node, NEW r,
         Majority(Origins(Of(confirmations[n], r)))
  PROVE  \A m \in Highest(Messages(Of(confirmations[n], r))) : m \in Message /\ Proper(Indexed, m)
<1> DEFINE C == Of(confirmations[n], r)
           M == Messages(C)
<1>1. C \in SUBSET Saved /\ C # {}
  <2>1. C \in SUBSET Saved
    BY DEF Of, Types, TypeOK
  <2> HIDE DEF C
  <2>2. Majority(Origins(C))
    BY DEF C
  <2> QED BY <2>1, <2>2, MajorityIsSomeone
<1>2. M \in SUBSET Message /\ M # {}
  <2>1. M \in SUBSET Message
    BY KeptMessages
  <2> QED BY <1>1, <2>1 DEF Messages
<1>3. PICK N \in Nat : \A x \in Node : \A i \in DOMAIN tlc[x] : tlc[x][i].fitness <= N
  BY DEF ProperInv, Bounded
<1>4. \A c \in C : c.origin \in Node /\ c.id \in DOMAIN tlc[c.origin]
  BY DEF Of, Types, TypeOK, KeptIds, Saved
<1>5. \A m \in M : m.fitness <= N
  BY <1>3, <1>4 DEF Messages
<1>6. \A m \in M : Proper(Indexed, m) /\ m.fitness > 0
  BY KeptProper DEF Proper
<1> HIDE DEF M
<1>7. Highest(M) \subseteq M
  BY <1>2, <1>5, <1>6, HighestOfPositive
<1> QED BY <1>2, <1>6, <1>7 DEF M

\* A proper message is sent.
LEMMA SentIsProper ==
  ASSUME Types, ProperInv, [Next]_vars, NEW n \in Node, NEW m \in Message, Proper(Indexed', m),
         tlc' = [tlc EXCEPT ![n] = Append(@, m)]
  PROVE  ProperInv'
<1>1. tlc \in [Node -> Seq(Message)]
  BY DEF Types, TypeOK
<1>2. \A x \in Node : \A i \in DOMAIN tlc'[x] : tlc'[x][i] = m \/ (i \in DOMAIN tlc[x] /\ tlc'[x][i] = tlc[x][i])
  <2>1. \A x \in Node \ {n} : tlc'[x] = tlc[x]
    BY <1>1
  <2>2. tlc'[n] = Append(tlc[n], m) /\ tlc[n] \in Seq(Message)
    BY <1>1
  <2>3. DOMAIN tlc'[n] = 1 .. Len(tlc[n]) + 1 /\ DOMAIN tlc[n] = 1 .. Len(tlc[n]) /\ Len(tlc[n]) \in Nat
    BY <2>2
  <2>4. \A i \in DOMAIN tlc'[n] : tlc'[n][i] = m \/ (i \in DOMAIN tlc[n] /\ tlc'[n][i] = tlc[n][i])
    BY <2>2, <2>3
  <2> QED BY <2>1, <2>4
<1>3. \A x \in Node : \A i \in DOMAIN tlc'[x] : Proper(Indexed', tlc'[x][i])
  BY <1>2, StillIndexed DEF ProperInv, Proper
<1>4. Bounded'
  <2>1. PICK N \in Nat : \A x \in Node : \A i \in DOMAIN tlc[x] : tlc[x][i].fitness <= N
    BY DEF ProperInv, Bounded
  <2>2. m.fitness \in Nat /\ \A x \in Node : \A i \in DOMAIN tlc[x] : tlc[x][i].fitness \in Nat
    BY IdsOfMessages DEF Types, Message
  <2>3. N + m.fitness \in Nat
    BY <2>2
  <2>4. \A x \in Node : \A i \in DOMAIN tlc'[x] : tlc'[x][i].fitness <= N + m.fitness
    BY <1>2, <2>1, <2>2
  <2> QED BY <2>3, <2>4 DEF Bounded
<1> QED BY <1>3, <1>4 DEF ProperInv

\* The block of a client has the name of the file that it indexes.
LEMMA PublishProper ==
  ASSUME FitnessPositive, Types, ProperInv, NEW n \in Node, Publish(n)
  PROVE  ProperInv'
<1> DEFINE k == indexed[n] + 1
           e == Files[n][k]
<1>1. PICK f \in Fitness[n][k] :
        tlc' = [tlc EXCEPT ![n] = Append(@, [block |-> Append(previousBlockHash[n], e), fitness |-> f])]
  BY DEF Publish
<1>2. indexed[n] < Len(Files[n]) /\ indexed' = [indexed EXCEPT ![n] = @ + 1]
  BY DEF Publish
<1>3. indexed[n] \in Nat /\ indexed'[n] = k /\ k \in 1 .. Len(Files[n]) /\ k \in 1 .. indexed'[n]
  <2>1. Files[n] \in Seq(Name) /\ indexed \in [Node -> Nat]
    BY ConsensusAssumption DEF Types, TypeOK
  <2>2. Len(Files[n]) \in Nat
    BY <2>1
  <2> QED BY <1>2, <2>1, <2>2
<1>4. e \in Name /\ Fitness[n][k] \in SUBSET Nat /\ k \in DOMAIN Fitness[n]
  <2>1. Files[n] \in Seq(Name) /\ Fitness[n] \in Seq(SUBSET Nat) /\ Len(Fitness[n]) = Len(Files[n])
    BY ConsensusAssumption
  <2> QED BY <1>3, <2>1
<1>5. f \in Nat /\ f > 0
  BY <1>4 DEF FitnessPositive
<1>6. e \in Indexed'
  BY <1>3, <1>4 DEF Indexed
<1> DEFINE b == Append(previousBlockHash[n], e)
           m == [block |-> b, fitness |-> f]
<1>7. b \in Block /\ b[Len(b)] = e
  <2>1. previousBlockHash[n] \in Hash /\ e \in Name \cup {NoName}
    BY <1>4 DEF Types, TypeOK
  <2>2. Len(b) = Len(previousBlockHash[n]) + 1 /\ b[Len(previousBlockHash[n]) + 1] = e
    BY <2>1 DEF Hash
  <2> QED BY <2>1, <2>2, BlockOfAppend
<1> HIDE DEF b, e
<1>8. m \in Message /\ Proper(Indexed', m)
  BY <1>5, <1>6, <1>7 DEF Message, Proper
<1>9. tlc' = [tlc EXCEPT ![n] = Append(@, m)]
  BY <1>1 DEF b, e
<1>10. [Next]_vars
  BY DEF Next
<1> HIDE DEF m
<1> QED BY <1>8, <1>9, <1>10, SentIsProper

LEMMA NextRoundProper ==
  ASSUME Types, ProperInv, NEW n \in Node, NextRound(n)
  PROVE  ProperInv'
<1>1. RoundOver(n) /\ \E m \in Highest(Messages(Of(confirmations[n], myTime[n]))) :
        tlc' = [tlc EXCEPT ![n] = Append(@, m)]
  BY DEF NextRound
<1>2. PICK m \in Highest(Messages(Of(confirmations[n], myTime[n]))) :
        tlc' = [tlc EXCEPT ![n] = Append(@, m)]
  BY <1>1
<1>3. m \in Message /\ Proper(Indexed, m)
  BY <1>1, ChoiceIsProper DEF RoundOver
<1>4. [Next]_vars
  BY DEF Next, QSCStep
<1>5. Proper(Indexed', m)
  BY <1>3, <1>4, StillIndexed DEF Proper
<1> QED BY <1>2, <1>3, <1>4, <1>5, SentIsProper

\* Without a new message everything stays proper.
LEMMA SameProper ==
  ASSUME Types, ProperInv, [Next]_vars, tlc' = tlc
  PROVE  ProperInv'
BY StillIndexed DEF ProperInv, Bounded, Proper

LEMMA NextProper ==
  ASSUME FitnessPositive, Types, ProperInv, [Next]_vars
  PROVE  ProperInv'
<1>1. ASSUME NEW n \in Node, Handles(n) PROVE tlc' = tlc
  BY <1>1, HandlesUnchanged
<1>2. ASSUME NEW n \in Node,
             \/ (\E i \in clientBlock[n] : TakeBlock(n, i)) \/ Wait(n) \/ Confirm(n)
             \/ Decide(n) \/ Crash(n)
      PROVE  tlc' = tlc
  BY <1>2 DEF TakeBlock, Wait, Confirm, Decide, Crash
<1>3. UNCHANGED vars => tlc' = tlc
  BY DEF vars
<1> QED BY <1>1, <1>2, <1>3, StepCases, SameProper, PublishProper, NextRoundProper

\* What is committed has the name of a message of the second round, so that
\* the empty message is not chosen even where there is nothing to choose.
LEMMA CommitIndexed ==
  ASSUME Types, ProperInv, NEW n \in Node, NEW s, NEW m \in checkIfConsensusReached(n, s)
  PROVE  m.block[Len(m.block)] \in Indexed
<1>1. PICK x \in Messages(Of(confirmations[n], s + 1)) : x.block = m.block
  BY DEF checkIfConsensusReached
<1>2. Proper(Indexed, x)
  BY KeptProper
<1> QED BY <1>1, <1>2 DEF Proper

-----------------------------------------------------------------------------
(* The first consensus. *)

\* The step of a consensus follows from the round.
StepOf(q) == IF q.pc \in {"start", "wait"} THEN q.step ELSE 0
TurnInv == \A n \in Node : myTime[n] % 3 = StepOf(qsc[n])

\* What is kept, or about to be, was confirmed.
KeptConfirmed == \A n \in Node : \A c \in confirmations[n] \cup saving[n] : c.id \in confirmed[c.origin]

\* In round 0 a node has no messages but those of its client.
Drawn(n, m) == \E k \in DOMAIN Fitness[n] : m.fitness \in Fitness[n][k]
DrawnInv == \A n \in Node : myTime[n] = 0 => \A i \in DOMAIN tlc[n] : Drawn(n, tlc[n][i])

\* Nothing is committed before the end of round 2.
FreshInv == \A n \in Node : myTime[n] < 3 => committedHistory[n] = {} /\ topBlockchainHash[n] = <<>>

FirstInv == TurnInv /\ KeptConfirmed /\ DrawnInv /\ FreshInv

\* Messages that are sent stay as they are.
LEMMA SentStays ==
  ASSUME Types, [Next]_vars
  PROVE  \A o \in Node : \A i \in DOMAIN tlc[o] : i \in DOMAIN tlc'[o] /\ tlc'[o][i] = tlc[o][i]
<1> DEFINE Goal == \A o \in Node : \A i \in DOMAIN tlc[o] : i \in DOMAIN tlc'[o] /\ tlc'[o][i] = tlc[o][i]
<1>1. tlc' = tlc \/ \E n \in Node : \E m : tlc' = [tlc EXCEPT ![n] = Append(@, m)]
  <2>1. ASSUME NEW n \in Node, Handles(n) PROVE tlc' = tlc
    BY <2>1, HandlesUnchanged
  <2>2. ASSUME NEW n \in Node,
               \/ (\E i \in clientBlock[n] : TakeBlock(n, i)) \/ Wait(n) \/ Confirm(n)
               \/ Decide(n) \/ Crash(n)
        PROVE  tlc' = tlc
    BY <2>2 DEF TakeBlock, Wait, Confirm, Decide, Crash
  <2>3. ASSUME NEW n \in Node, Publish(n) \/ NextRound(n)
        PROVE  \E m : tlc' = [tlc EXCEPT ![n] = Append(@, m)]
    BY <2>3 DEF Publish, NextRound
  <2>4. UNCHANGED vars => tlc' = tlc
    BY DEF vars
  <2> QED BY <2>1, <2>2, <2>3, <2>4, StepCases
<1>2. ASSUME NEW n \in Node, NEW m, tlc' = [tlc EXCEPT ![n] = Append(@, m)] PROVE Goal
  <2>1. tlc \in [Node -> Seq(Message)]
    BY DEF Types, TypeOK
  <2>2. tlc'[n] = Append(tlc[n], m) /\ \A o \in Node \ {n} : tlc'[o] = tlc[o]
    BY <1>2, <2>1
  <2>3. tlc[n] \in Seq(Message)
    BY <2>1
  <2>4. \A i \in DOMAIN tlc[n] : i \in DOMAIN Append(tlc[n], m) /\ Append(tlc[n], m)[i] = tlc[n][i]
    BY <2>3
  <2> QED BY <2>2, <2>4
<1>3. tlc' = tlc => Goal
  OBVIOUS
<1> HIDE DEF Goal
<1>4. Goal
  BY <1>1, <1>2, <1>3
<1> QED BY <1>4 DEF Goal

LEMMA InitFirst == Init => FirstInv
<1> SUFFICES ASSUME Init PROVE FirstInv
  OBVIOUS
<1>1. TurnInv
  BY DEF Init, TurnInv, StepOf
<1>2. KeptConfirmed
  BY DEF Init, KeptConfirmed
<1>3. DrawnInv /\ FreshInv
  BY DEF Init, DrawnInv, FreshInv
<1> QED BY <1>1, <1>2, <1>3 DEF FirstInv

\* The rounds go with the steps.
LEMMA NextTurn ==
  ASSUME Types, TurnInv, RoundInv, [Next]_vars
  PROVE  TurnInv'
<1> USE DEF TurnInv
<1>1. \A x \in Node : myTime[x] \in Nat /\ qsc[x] \in QSCRound
  BY DEF Types, TypeOK
<1>2. ASSUME NEW n \in Node, NEW i \in clientBlock[n], TakeBlock(n, i) PROVE TurnInv'
  <2>1. /\ qsc[n].pc = "idle" /\ myTime' = myTime
        /\ qsc' = [qsc EXCEPT ![n] = [pc |-> "start", step |-> 0, id |-> i]]
    BY <1>2 DEF TakeBlock
  <2>2. qsc'[n].pc = "start" /\ qsc'[n].step = 0 /\ \A x \in Node \ {n} : qsc'[x] = qsc[x]
    BY <2>1 DEF Types, TypeOK
  <2>3. StepOf(qsc[n]) = 0 /\ StepOf(qsc'[n]) = 0
    BY <2>1, <2>2 DEF StepOf
  <2> QED BY <2>1, <2>2, <2>3
<1>3. ASSUME NEW n \in Node, Wait(n) PROVE TurnInv'
  <2> DEFINE q == [pc |-> "wait", step |-> qsc[n].step, id |-> qsc[n].id, delivered |-> FALSE]
  <2>1. qsc[n].pc = "start" /\ myTime' = myTime /\ qsc' = [qsc EXCEPT ![n] = q]
    BY <1>3 DEF Wait
  <2>2. q.pc = "wait" /\ q.step = qsc[n].step
    OBVIOUS
  <2> HIDE DEF q
  <2>3. qsc'[n] = q /\ \A x \in Node \ {n} : qsc'[x] = qsc[x]
    BY <2>1 DEF Types, TypeOK
  <2>4. StepOf(qsc[n]) = StepOf(qsc'[n])
    BY <2>1, <2>2, <2>3 DEF StepOf
  <2> QED BY <2>1, <2>3, <2>4
<1>4. ASSUME NEW n \in Node, Confirm(n) PROVE TurnInv'
  <2>1. /\ qsc[n].pc = "wait" /\ qsc'[n].pc = "wait" /\ qsc'[n].step = qsc[n].step
        /\ \A x \in Node \ {n} : qsc'[x] = qsc[x]
        /\ myTime' = myTime
    BY <1>4, ConfirmChanges
  <2>2. StepOf(qsc[n]) = StepOf(qsc'[n])
    BY <2>1 DEF StepOf
  <2> QED BY <2>1, <2>2
<1>5. ASSUME NEW n \in Node, NextRound(n) PROVE TurnInv'
  <2> DEFINE q == [pc |-> "start", step |-> qsc[n].step + 1, id |-> Len(tlc[n]) + 1]
  <2>1. RoundOver(n) /\ qsc[n].step < 2 /\ qsc' = [qsc EXCEPT ![n] = q]
    BY <1>5 DEF NextRound
  <2>2. q.pc = "start" /\ q.step = qsc[n].step + 1
    OBVIOUS
  <2> HIDE DEF q
  <2>3. qsc'[n] = q /\ \A x \in Node \ {n} : qsc'[x] = qsc[x]
    BY <2>1 DEF Types, TypeOK
  <2>4. /\ qsc[n].pc \in {"start", "wait"} /\ myTime'[n] = myTime[n] + 1
        /\ \A x \in Node \ {n} : myTime'[x] = myTime[x]
    BY <2>1, RoundOverChanges
  <2>5. qsc[n].step \in 0 .. 2 /\ StepOf(qsc[n]) = qsc[n].step /\ StepOf(qsc'[n]) = qsc[n].step + 1
    BY <1>1, <2>2, <2>3, <2>4, QSCFields DEF StepOf
  <2>6. myTime'[n] % 3 = StepOf(qsc'[n])
    BY <1>1, <2>1, <2>4, <2>5
  <2> QED BY <2>3, <2>4, <2>6
<1>6. ASSUME NEW n \in Node, Decide(n) \/ Crash(n) PROVE TurnInv'
  <2>1. /\ RoundOver(n) /\ qsc[n].step = 2
        /\ \E p \in {"idle", "crashed"} : qsc' = [qsc EXCEPT ![n] = [pc |-> p]]
    BY <1>6 DEF Decide, Crash
  <2>2. qsc'[n].pc \in {"idle", "crashed"} /\ \A x \in Node \ {n} : qsc'[x] = qsc[x]
    BY <2>1 DEF Types, TypeOK
  <2>3. /\ qsc[n].pc \in {"start", "wait"} /\ myTime'[n] = myTime[n] + 1
        /\ \A x \in Node \ {n} : myTime'[x] = myTime[x]
    BY <2>1, RoundOverChanges
  <2>4. StepOf(qsc[n]) = 2 /\ StepOf(qsc'[n]) = 0
    BY <2>1, <2>2, <2>3 DEF StepOf
  <2>5. myTime'[n] % 3 = StepOf(qsc'[n])
    BY <1>1, <2>3, <2>4
  <2> QED BY <2>2, <2>3, <2>5
<1>7. ASSUME NEW n \in Node, Publish(n) \/ Handles(n) PROVE qsc' = qsc /\ myTime' = myTime
  BY <1>7, HandlesUnchanged DEF Publish
<1>8. UNCHANGED vars => qsc' = qsc /\ myTime' = myTime
  BY DEF vars
<1>9. qsc' = qsc /\ myTime' = myTime => TurnInv'
  OBVIOUS
<1> HIDE DEF TurnInv
<1> QED BY <1>2, <1>3, <1>4, <1>5, <1>6, <1>7, <1>8, <1>9, StepCases

LEMMA NextKeptConfirmed ==
  ASSUME Types, RoundInv, KeptConfirmed, [Next]_vars
  PROVE  KeptConfirmed'
<1>1. \A n \in Node : \A c \in confirmations[n] \cup saving[n] : c.id \in confirmed'[c.origin]
  <2>1. \A x \in Node : confirmed[x] \subseteq confirmed'[x]
    BY ConfirmedGrows
  <2>2. \A n \in Node : \A c \in confirmations[n] \cup saving[n] : c.origin \in Node
    BY DEF Types, TypeOK, Saved
  <2> QED BY <2>1, <2>2 DEF KeptConfirmed
<1>2. ASSUME UNCHANGED <<confirmations, saving>> PROVE KeptConfirmed'
  BY <1>1, <1>2 DEF KeptConfirmed
<1>3. ASSUME NEW n \in Node, Confirm(n) PROVE KeptConfirmed'
  <2> DEFINE c == [round |-> myTime[n], origin |-> n, id |-> qsc[n].id]
  <2>1. confirmations' = [confirmations EXCEPT ![n] = Put(@, c)] /\ saving' = saving
    BY <1>3 DEF Confirm
  <2>2. c.id \in confirmed'[c.origin]
    BY <1>3, ConfirmChanges
  <2> HIDE DEF c
  <2>3. \A x \in Node : \A k \in confirmations'[x] : k \in confirmations[x] \/ k = c
    BY <2>1 DEF Put, Types, TypeOK
  <2> QED BY <1>1, <2>1, <2>2, <2>3 DEF KeptConfirmed
<1>4. ASSUME NEW n \in Node, NEW o \in Node, NEW i \in DOMAIN tlc[o], HandleConfirmed(n, o, i)
      PROVE  KeptConfirmed'
  <2> DEFINE c == [round |-> RoundOf(n, o, i), origin |-> o, id |-> i]
             C == {x \in {c} : x.round >= myTime[n]}
  <2>1. /\ i \in confirmed[o]
        /\ saving' = [saving EXCEPT ![n] = C]
        /\ confirmations' = confirmations /\ confirmed' = confirmed
    BY <1>4 DEF HandleConfirmed
  <2>2. c.id \in confirmed'[c.origin] /\ C \subseteq {c}
    BY <2>1
  <2> HIDE DEF c, C
  <2>3. \A x \in Node : \A k \in saving'[x] : k \in saving[x] \/ k = c
    BY <2>1, <2>2 DEF Types, TypeOK
  <2> QED BY <1>1, <2>1, <2>2, <2>3 DEF KeptConfirmed
<1>5. ASSUME NEW n \in Node, NEW c \in saving[n], SaveConfirmation(n, c) PROVE KeptConfirmed'
  <2>1. /\ confirmations' = [confirmations EXCEPT ![n] = Put(@, c)]
        /\ saving' = [saving EXCEPT ![n] = {}]
    BY <1>5 DEF SaveConfirmation
  <2>2. \A x \in Node : confirmations'[x] \cup saving'[x] \subseteq confirmations[x] \cup saving[x]
    BY <2>1 DEF Put, Types, TypeOK
  <2> QED BY <1>1, <2>2 DEF KeptConfirmed
<1>6. ASSUME NEW n \in Node, Handles(n) PROVE KeptConfirmed'
  <2>1. ASSUME NEW o \in Hears[n], NEW i \in DOMAIN tlc[o],
               HandleUnconfirmed(n, o, i) \/ HandleConfirmed(n, o, i)
        PROVE  KeptConfirmed'
    <3>1. o \in Node
      BY ConsensusAssumption
    <3>2. CASE HandleUnconfirmed(n, o, i)
      BY <1>2, <3>2 DEF HandleUnconfirmed
    <3> QED BY <1>4, <2>1, <3>1, <3>2
  <2>2. ASSUME NEW c \in acking[n], Acknowledge(n, c) PROVE KeptConfirmed'
    BY <1>2, <2>2 DEF Acknowledge
  <2> QED BY <1>5, <1>6, <2>1, <2>2 DEF Handles
<1>7. ASSUME NEW n \in Node,
             \/ Publish(n) \/ (\E i \in clientBlock[n] : TakeBlock(n, i)) \/ Wait(n)
             \/ NextRound(n) \/ Decide(n) \/ Crash(n)
      PROVE  UNCHANGED <<confirmations, saving>>
  BY <1>7 DEF Publish, TakeBlock, Wait, NextRound, Decide, Crash, kept
<1>8. CASE UNCHANGED vars
  BY <1>2, <1>8 DEF vars, kept
<1> QED BY <1>2, <1>3, <1>6, <1>7, <1>8, StepCases

\* A round number only grows.
LEMMA TimeGrows ==
  ASSUME Types, RoundInv, [Next]_vars, NEW x \in Node
  PROVE  myTime[x] \in Nat /\ (myTime'[x] = myTime[x] \/ myTime'[x] = myTime[x] + 1)
<1>1. ASSUME NEW n \in Node, NextRound(n) \/ Decide(n) \/ Crash(n)
      PROVE  myTime'[x] = myTime[x] \/ myTime'[x] = myTime[x] + 1
  <2>1. RoundOver(n)
    BY <1>1 DEF NextRound, Decide, Crash
  <2> QED BY <2>1, RoundOverChanges
<1>2. ASSUME NEW n \in Node,
             \/ Publish(n) \/ (\E i \in clientBlock[n] : TakeBlock(n, i)) \/ Wait(n)
             \/ Confirm(n) \/ Handles(n)
      PROVE  myTime' = myTime
  BY <1>2, HandlesUnchanged DEF Publish, TakeBlock, Wait, Confirm
<1>3. UNCHANGED vars => myTime' = myTime
  BY DEF vars
<1>4. myTime[x] \in Nat
  BY DEF Types, TypeOK
<1> QED BY <1>1, <1>2, <1>3, <1>4, StepCases

LEMMA NextDrawn ==
  ASSUME Types, RoundInv, DrawnInv, [Next]_vars
  PROVE  DrawnInv'
<1>1. ASSUME tlc' = tlc PROVE DrawnInv'
  <2>1. \A x \in Node : myTime'[x] = 0 => myTime[x] = 0
    BY TimeGrows
  <2> QED BY <1>1, <2>1 DEF DrawnInv, Drawn
<1>2. ASSUME NEW n \in Node, Publish(n) PROVE DrawnInv'
  <2> DEFINE k == indexed[n] + 1
             b == Append(previousBlockHash[n], Files[n][k])
  <2>1. PICK f \in Fitness[n][k] : tlc' = [tlc EXCEPT ![n] = Append(@, [block |-> b, fitness |-> f])]
    BY <1>2 DEF Publish
  <2>2. indexed[n] < Len(Files[n]) /\ myTime' = myTime
    BY <1>2 DEF Publish
  <2>3. k \in DOMAIN Fitness[n]
    <3>1. Files[n] \in Seq(Name) /\ Fitness[n] \in Seq(SUBSET Nat) /\ Len(Fitness[n]) = Len(Files[n])
      BY ConsensusAssumption
    <3>2. indexed[n] \in Nat
      BY DEF Types, TypeOK
    <3> QED BY <2>2, <3>1, <3>2
  <2> DEFINE m == [block |-> b, fitness |-> f]
  <2>4. Drawn(n, m)
    BY <2>1, <2>3 DEF Drawn
  <2>5. tlc' = [tlc EXCEPT ![n] = Append(@, m)]
    BY <2>1
  <2> HIDE DEF m
  <2>6. tlc'[n] = Append(tlc[n], m) /\ tlc[n] \in Seq(Message) /\ \A x \in Node \ {n} : tlc'[x] = tlc[x]
    BY <2>5 DEF Types, TypeOK
  <2>7. \A i \in DOMAIN Append(tlc[n], m) :
          Append(tlc[n], m)[i] = m \/ (i \in DOMAIN tlc[n] /\ Append(tlc[n], m)[i] = tlc[n][i])
    BY <2>6
  <2>8. ASSUME myTime[n] = 0, NEW i \in DOMAIN tlc'[n] PROVE Drawn(n, tlc'[n][i])
    BY <2>4, <2>6, <2>7, <2>8 DEF DrawnInv
  <2>9. ASSUME NEW x \in Node \ {n}, myTime[x] = 0, NEW i \in DOMAIN tlc'[x] PROVE Drawn(x, tlc'[x][i])
    BY <2>6, <2>9 DEF DrawnInv
  <2> QED BY <2>2, <2>8, <2>9 DEF DrawnInv, Drawn
<1>3. ASSUME NEW n \in Node, NextRound(n) PROVE DrawnInv'
  <2>1. RoundOver(n) /\ \E m : tlc' = [tlc EXCEPT ![n] = Append(@, m)]
    BY <1>3 DEF NextRound
  <2>2. \A x \in Node \ {n} : tlc'[x] = tlc[x]
    BY <2>1 DEF Types, TypeOK
  <2>3. myTime'[n] = myTime[n] + 1 /\ myTime[n] \in Nat /\ \A x \in Node \ {n} : myTime'[x] = myTime[x]
    BY <2>1, RoundOverChanges DEF Types, TypeOK
  <2> QED BY <2>2, <2>3 DEF DrawnInv, Drawn
<1>4. ASSUME NEW n \in Node, Handles(n) PROVE tlc' = tlc
  BY <1>4, HandlesUnchanged
<1>5. ASSUME NEW n \in Node,
             \/ (\E i \in clientBlock[n] : TakeBlock(n, i)) \/ Wait(n) \/ Confirm(n)
             \/ Decide(n) \/ Crash(n)
      PROVE  tlc' = tlc
  BY <1>5 DEF TakeBlock, Wait, Confirm, Decide, Crash
<1>6. UNCHANGED vars => tlc' = tlc
  BY DEF vars
<1> QED BY <1>1, <1>2, <1>3, <1>4, <1>5, <1>6, StepCases

\* The first block is committed at the end of round 2, or a later one.
LEMMA DecideLate ==
  ASSUME Types, TurnInv, NEW n \in Node, qsc[n].pc \in {"start", "wait"}, qsc[n].step = 2
  PROVE  myTime[n] >= 2 /\ myTime[n] # 3 /\ myTime[n] # 4
<1>1. myTime[n] % 3 = 2
  BY DEF TurnInv, StepOf
<1>2. myTime[n] \in Nat
  BY DEF Types, TypeOK
<1> QED BY <1>1, <1>2

LEMMA NextFresh ==
  ASSUME Types, TurnInv, RoundInv, FreshInv, [Next]_vars
  PROVE  FreshInv'
<1>1. ASSUME UNCHANGED <<committedHistory, topBlockchainHash>> PROVE FreshInv'
  <2>1. \A x \in Node : myTime'[x] < 3 => myTime[x] < 3
    BY TimeGrows
  <2> QED BY <1>1, <2>1 DEF FreshInv
<1>2. ASSUME NEW n \in Node, Decide(n) PROVE FreshInv'
  <2>1. /\ RoundOver(n) /\ qsc[n].step = 2
        /\ \/ UNCHANGED <<committedHistory, topBlockchainHash>>
           \/ \E m : Commit(n, m)
    BY <1>2 DEF Decide
  <2>2. qsc[n].pc \in {"start", "wait"} /\ myTime'[n] = myTime[n] + 1
        /\ \A x \in Node \ {n} : myTime'[x] = myTime[x]
    BY <2>1, RoundOverChanges
  <2>3. ~(myTime'[n] < 3)
    BY <2>1, <2>2, DecideLate DEF Types, TypeOK
  <2>4. \A x \in Node \ {n} : committedHistory'[x] = committedHistory[x]
                              /\ topBlockchainHash'[x] = topBlockchainHash[x]
    BY <2>1 DEF Commit, Types, TypeOK
  <2> QED BY <2>2, <2>3, <2>4 DEF FreshInv
<1>3. ASSUME NEW n \in Node, Handles(n) PROVE UNCHANGED <<committedHistory, topBlockchainHash>>
  BY <1>3, HandlesUnchanged DEF chain
<1>4. ASSUME NEW n \in Node,
             \/ Publish(n) \/ (\E i \in clientBlock[n] : TakeBlock(n, i)) \/ Wait(n) \/ Confirm(n)
             \/ NextRound(n) \/ Crash(n)
      PROVE  UNCHANGED <<committedHistory, topBlockchainHash>>
  BY <1>4 DEF Publish, TakeBlock, Wait, Confirm, NextRound, Crash, chain
<1>5. UNCHANGED vars => UNCHANGED <<committedHistory, topBlockchainHash>>
  BY DEF vars, chain
<1> QED BY <1>1, <1>2, <1>3, <1>4, <1>5, StepCases

LEMMA NextFirst ==
  ASSUME Types, RoundInv, FirstInv, [Next]_vars
  PROVE  FirstInv'
BY NextTurn, NextKeptConfirmed, NextDrawn, NextFresh DEF FirstInv

-----------------------------------------------------------------------------
(* The first consensus.  Who has something of everyone in round 0 has the    *)
(* same best message as everyone else.                                       *)

\* Nobody ends round 0 before it has a confirmation of everyone, nor round 1
\* while another is in round 0: delays are below the length of a round.
FirstRoundHeard ==
  \A n \in Node : myTime'[n] # myTime[n] =>
    /\ myTime[n] = 0 => Origins(Of(confirmations[n], 0)) = Node
    /\ myTime[n] = 1 => \A o \in Node : myTime[o] # 0

\* No two nodes draw the same fitness.
FitnessDistinct ==
  \A n, o \in Node : n # o =>
    \A i \in DOMAIN Fitness[n] : \A j \in DOMAIN Fitness[o] : Fitness[n][i] \cap Fitness[o][j] = {}

\* Message m of o may stand next to B, the best one, whose author is p.
Yields(p, B, o, m) == m.fitness <= B.fitness /\ (m.fitness = B.fitness \/ o = p => m = B)

\* Who is still in round 0 has its message confirmed and waits for others.
Waiting == \A n \in Node : myTime[n] = 0 => qsc[n].pc = "wait" /\ qsc[n].delivered = TRUE

\* What is sent in rounds 0 and 1.
SentYield(p, B) ==
  \A n \in Node : myTime[n] <= 1 =>
    \A i \in confirmed[n] \cup {qsc[n].id} : Yields(p, B, n, tlc[n][i])

\* What is kept under round 0, also where it is a message of round 1.
KeptYield(p, B) ==
  \A n \in Node : \A c \in confirmations[n] \cup saving[n] :
    c.round = 0 => Yields(p, B, c.origin, tlc[c.origin][c.id])

KeptAll == \A n \in Node : myTime[n] >= 1 => Origins(Of(confirmations[n], 0)) = Node
Close == \A n, o \in Node : myTime[n] >= 2 => myTime[o] >= 1

CommitsBest(B) ==
  \A n \in Node : myTime[n] \in 3 .. 5 =>
    committedHistory[n] = {} \/ topBlockchainHash[n] = <<B.block[Len(B.block)]>>

\* The best message of round 0 is B, of p.
Best(p, B) ==
  /\ Waiting /\ KeptAll /\ Close
  /\ SentYield(p, B) /\ KeptYield(p, B) /\ CommitsBest(B)

BestInv ==
  \/ \A n \in Node : myTime[n] = 0
  \/ \E p \in Node : \E B \in Message : B.fitness > 0 /\ Best(p, B)

\* When a node has something of everyone in its round, everyone is as far.
LEMMA EveryoneIsThere ==
  ASSUME Types, RoundInv, KeptInv, NEW n \in Node, Origins(Of(confirmations[n], myTime[n])) = Node
  PROVE  /\ \A o \in Node : myTime[o] >= myTime[n]
         /\ \A o \in Node : myTime[o] = myTime[n] => qsc[o].pc = "wait" /\ qsc[o].delivered = TRUE
<1>2. \A o \in Node : \E c \in confirmations[n] : c.origin = o /\ c.round = myTime[n]
  BY DEF Origins, Of
<1>3. \A o \in Node : myTime[n] < Cardinality(confirmed[o])
  BY <1>2 DEF KeptInv
<1>4. \A o \in Node : myTime[n] < myTime[o] + Delivered(qsc[o])
  BY <1>3 DEF RoundInv, Books
<1>5. ASSUME NEW o \in Node
      PROVE  /\ myTime[o] >= myTime[n]
             /\ myTime[o] = myTime[n] => qsc[o].pc = "wait" /\ qsc[o].delivered = TRUE
  <2>1. myTime[o] \in Nat /\ myTime[n] \in Nat /\ qsc[o] \in QSCRound
    BY DEF Types, TypeOK
  <2>2. CASE Delivered(qsc[o]) = 0
    BY <1>4, <2>1, <2>2
  <2>3. CASE Delivered(qsc[o]) # 0
    <3>1. Delivered(qsc[o]) = 1 /\ qsc[o].pc = "wait" /\ qsc[o].delivered
      BY <2>3 DEF Delivered
    <3>2. qsc[o].delivered = TRUE
      BY <2>1, <3>1, QSCFields
    <3>3. myTime[n] < myTime[o] + 1
      BY <1>4, <3>1
    <3> QED BY <2>1, <3>1, <3>2, <3>3
  <2> QED BY <2>2, <2>3
<1> QED BY <1>5

\* Who has something of everyone in round 0 has the best message, and no other
\* is as good.
LEMMA ChoiceIsBest ==
  ASSUME Types, NEW p \in Node, NEW B \in Message, B.fitness > 0, KeptYield(p, B),
         NEW n \in Node, Origins(Of(confirmations[n], 0)) = Node
  PROVE  Highest(Messages(Of(confirmations[n], 0))) = {B}
<1> DEFINE M == Messages(Of(confirmations[n], 0))
<1>1. \A m \in M : m.fitness <= B.fitness /\ (m.fitness = B.fitness => m = B)
  BY DEF Messages, Of, KeptYield, Yields
<1>2. B \in M
  <2>1. PICK k \in Of(confirmations[n], 0) : k.origin = p
    BY DEF Origins
  <2>2. tlc[k.origin][k.id] = B
    BY <2>1 DEF Of, KeptYield, Yields
  <2> QED BY <2>1, <2>2 DEF Messages
<1>3. M \in SUBSET Message /\ \A m \in Message : m.fitness \in Nat
  BY KeptMessages DEF Message
<1> HIDE DEF M
<1>4. {m \in M : m.fitness > 0 /\ \A x \in M : x.fitness <= m.fitness} = {B}
  <2>1. ASSUME NEW m \in M, \A x \in M : x.fitness <= m.fitness PROVE m = B
    <3>1. B.fitness <= m.fitness /\ m.fitness <= B.fitness /\ m.fitness \in Nat /\ B.fitness \in Nat
      BY <1>1, <1>2, <1>3, <2>1
    <3> QED BY <1>1, <3>1
  <2> QED BY <1>1, <1>2, <2>1
<1>5. Highest(M) = {B}
  BY <1>4 DEF Highest
<1> QED BY <1>5 DEF M

\* When the first round ends for the first time everyone has one message
\* confirmed, that of its client, and one of these is the best.
LEMMA FirstIsOver ==
  ASSUME FitnessPositive, FitnessDistinct, Types, RoundInv, KeptInv, ProperInv, FirstInv,
         \A x \in Node : myTime[x] = 0, NEW n \in Node, Origins(Of(confirmations[n], 0)) = Node
  PROVE  \E p \in Node : \E B \in Message : B.fitness > 0 /\ Best(p, B)
<1> DEFINE F(o) == tlc[o][qsc[o].id]
<1>1. Waiting
  BY EveryoneIsThere DEF Waiting
<1>2. \A o \in Node : confirmed[o] = {qsc[o].id}
  <2> TAKE o \in Node
  <2>1. qsc[o].id \in confirmed[o] /\ Cardinality(confirmed[o]) = 1
    BY <1>1 DEF Waiting, RoundInv, Books, Delivered
  <2>2. IsFiniteSet(confirmed[o])
    BY ConfirmedFinite
  <2>3. PICK e : confirmed[o] = {e}
    BY <2>1, <2>2, FS_Singleton
  <2> QED BY <2>1, <2>3
<1>3. \A o \in Node : qsc[o].id \in DOMAIN tlc[o] /\ F(o) \in Message /\ F(o).fitness \in Nat
                      /\ F(o).fitness > 0 /\ Drawn(o, F(o))
  <2> TAKE o \in Node
  <2>1. qsc[o].id \in DOMAIN tlc[o]
    BY <1>1 DEF Waiting, Types, SentIds
  <2>2. F(o) \in Message
    BY <2>1, IdsOfMessages DEF Types
  <2>3. F(o).fitness > 0
    BY <2>1 DEF ProperInv, Proper
  <2>4. Drawn(o, F(o))
    BY <2>1 DEF FirstInv, DrawnInv
  <2> QED BY <2>1, <2>2, <2>3, <2>4 DEF Message
<1>4. PICK p \in Node : \A o \in Node : F(o).fitness <= F(p).fitness
  <2> DEFINE G == {F(o).fitness : o \in Node}
  <2>1. PICK N \in Nat : \A x \in Node : \A i \in DOMAIN tlc[x] : tlc[x][i].fitness <= N
    BY DEF ProperInv, Bounded
  <2>2. G \in SUBSET (0 .. N) /\ G # {}
    BY <1>3, <2>1
  <2>3. PICK f \in G : \A g \in G : g <= f
    <3> HIDE DEF G
    <3> QED BY <2>2, GreatestOfBounded
  <2> QED BY <2>3
<1>5. \A o \in Node : F(o).fitness = F(p).fitness => o = p
  <2> SUFFICES ASSUME NEW o \in Node, o # p, F(o).fitness = F(p).fitness PROVE FALSE
    OBVIOUS
  <2>1. PICK i \in DOMAIN Fitness[o] : F(o).fitness \in Fitness[o][i]
    BY <1>3 DEF Drawn
  <2>2. PICK j \in DOMAIN Fitness[p] : F(p).fitness \in Fitness[p][j]
    BY <1>3 DEF Drawn
  <2>3. Fitness[o][i] \cap Fitness[p][j] = {}
    BY DEF FitnessDistinct
  <2> QED BY <2>1, <2>2, <2>3
<1> DEFINE B == F(p)
<1>6. \A o \in Node : Yields(p, B, o, F(o))
  BY <1>4, <1>5 DEF Yields
<1>7. SentYield(p, B)
  BY <1>2, <1>6 DEF SentYield
<1>8. KeptYield(p, B)
  <2>1. \A x \in Node : \A k \in confirmations[x] \cup saving[x] :
          k.origin \in Node /\ k.id \in confirmed[k.origin]
    BY DEF Types, TypeOK, Saved, FirstInv, KeptConfirmed
  <2>2. \A x \in Node : \A k \in confirmations[x] \cup saving[x] : k.id = qsc[k.origin].id
    BY <1>2, <2>1
  <2> QED BY <1>6, <2>1, <2>2 DEF KeptYield
<1>9. KeptAll /\ Close /\ CommitsBest(B)
  BY DEF KeptAll, Close, CommitsBest
<1>10. B \in Message /\ B.fitness > 0
  BY <1>3
<1> HIDE DEF B
<1> QED BY <1>1, <1>7, <1>8, <1>9, <1>10 DEF Best

\* A node in round 0 or 1 has a consensus at work once the first round is over.
LEMMA EarlyIsBusy ==
  ASSUME Types, TurnInv, Waiting, NEW x \in Node, myTime[x] <= 1
  PROVE  /\ qsc[x].pc \in {"start", "wait"} /\ qsc[x].step < 2
         /\ \A i \in confirmed[x] \cup {qsc[x].id} : i \in DOMAIN tlc[x]
         /\ qsc[x].pc = "wait" /\ qsc[x].delivered = FALSE => myTime[x] = 1
<1>1. myTime[x] \in Nat /\ qsc[x] \in QSCRound
  BY DEF Types, TypeOK
<1>2. qsc[x].pc \in {"start", "wait"}
  <2>1. CASE myTime[x] = 0
    BY <2>1 DEF Waiting
  <2>2. CASE myTime[x] = 1
    <3>1. StepOf(qsc[x]) = 1
      BY <2>2 DEF TurnInv
    <3> QED BY <3>1 DEF StepOf
  <2> QED BY <1>1, <2>1, <2>2
<1>3. qsc[x].step < 2
  <2>1. qsc[x].step \in 0 .. 2
    BY <1>1, <1>2, QSCFields
  <2>2. ASSUME qsc[x].step = 2 PROVE FALSE
    <3>1. myTime[x] >= 2
      BY <1>2, <2>2, DecideLate
    <3> QED BY <1>1, <3>1
  <2> QED BY <2>1, <2>2
<1>4. \A i \in confirmed[x] \cup {qsc[x].id} : i \in DOMAIN tlc[x]
  BY <1>2 DEF Types, SentIds
<1>5. qsc[x].pc = "wait" /\ qsc[x].delivered = FALSE => myTime[x] = 1
  BY <1>1 DEF Waiting
<1> QED BY <1>2, <1>3, <1>4, <1>5

LEMMA NextWaiting ==
  ASSUME Types, TurnInv, RoundInv, Waiting, [Next]_vars
  PROVE  Waiting'
<1> SUFFICES ASSUME NEW x \in Node, myTime'[x] = 0
             PROVE  qsc'[x].pc = "wait" /\ qsc'[x].delivered = TRUE
  BY DEF Waiting
<1>1. myTime[x] = 0
  BY TimeGrows
<1>2. qsc[x].pc = "wait" /\ qsc[x].delivered = TRUE
  BY <1>1 DEF Waiting
<1>3. ASSUME qsc'[x] = qsc[x] PROVE qsc'[x].pc = "wait" /\ qsc'[x].delivered = TRUE
  BY <1>2, <1>3
<1>4. ASSUME NEW n \in Node, RoundOver(n) PROVE n # x
  BY <1>1, <1>4, RoundOverChanges
<1>5. ASSUME NEW n \in Node, NextRound(n) \/ Decide(n) \/ Crash(n) PROVE qsc'[x] = qsc[x]
  <2>1. n # x
    BY <1>4, <1>5 DEF NextRound, Decide, Crash
  <2> QED BY <1>5, <2>1 DEF NextRound, Decide, Crash, Types, TypeOK
<1>6. ASSUME NEW n \in Node, Confirm(n) PROVE qsc'[x] = qsc[x]
  BY <1>2, <1>6, ConfirmChanges
<1>7. ASSUME NEW n \in Node, (\E i \in clientBlock[n] : TakeBlock(n, i)) \/ Wait(n) PROVE qsc'[x] = qsc[x]
  <2>1. n # x
    BY <1>2, <1>7 DEF TakeBlock, Wait
  <2> QED BY <1>7, <2>1 DEF TakeBlock, Wait, Types, TypeOK
<1>8. ASSUME NEW n \in Node, Publish(n) \/ Handles(n) PROVE qsc' = qsc
  BY <1>8, HandlesUnchanged DEF Publish
<1>9. UNCHANGED vars => qsc' = qsc
  BY DEF vars
<1> QED BY <1>3, <1>5, <1>6, <1>7, <1>8, <1>9, StepCases

\* What is sent on in round 1 is the best message.
LEMMA NextSentYield ==
  ASSUME Types, TurnInv, RoundInv, KeptInv, [Next]_vars, FirstRoundHeard,
         NEW p \in Node, NEW B \in Message, B.fitness > 0, Waiting, SentYield(p, B), KeptYield(p, B)
  PROVE  \A x \in Node : myTime'[x] <= 1 =>
           \A i \in confirmed'[x] \cup {qsc'[x].id} : Yields(p, B, x, tlc'[x][i])
<1> SUFFICES ASSUME NEW x \in Node, myTime'[x] <= 1
             PROVE  \A i \in confirmed'[x] \cup {qsc'[x].id} : Yields(p, B, x, tlc'[x][i])
  OBVIOUS
<1> DEFINE Goal == \A i \in confirmed'[x] \cup {qsc'[x].id} : Yields(p, B, x, tlc'[x][i])
<1>1. myTime[x] <= 1
  BY TimeGrows
<1>2. /\ qsc[x].pc \in {"start", "wait"} /\ qsc[x].step < 2
      /\ \A i \in confirmed[x] \cup {qsc[x].id} : i \in DOMAIN tlc[x]
  BY <1>1, EarlyIsBusy
<1>3. \A i \in confirmed[x] \cup {qsc[x].id} : Yields(p, B, x, tlc'[x][i])
  BY <1>1, <1>2, SentStays DEF SentYield
<1>4. ASSUME confirmed'[x] \subseteq confirmed[x] \cup {qsc[x].id}, qsc'[x].id = qsc[x].id PROVE Goal
  BY <1>3, <1>4
<1>5. ASSUME NEW n \in Node, NextRound(n) PROVE Goal
  <2> DEFINE k == Len(tlc[n]) + 1
             q == [pc |-> "start", step |-> qsc[n].step + 1, id |-> k]
  <2>1. /\ RoundOver(n) /\ qsc' = [qsc EXCEPT ![n] = q]
        /\ \E m \in Highest(Messages(Of(confirmations[n], myTime[n]))) : tlc' = [tlc EXCEPT ![n] = Append(@, m)]
    BY <1>5 DEF NextRound
  <2>2. q.id = k
    OBVIOUS
  <2> HIDE DEF q
  <2>3. /\ confirmed'[n] = confirmed[n] \cup {qsc[n].id} /\ myTime'[n] = myTime[n] + 1
        /\ \A o \in Node \ {n} : confirmed'[o] = confirmed[o]
    BY <2>1, RoundOverChanges
  <2>4. qsc'[n] = q /\ \A o \in Node \ {n} : qsc'[o] = qsc[o]
    BY <2>1 DEF Types, TypeOK
  <2>5. CASE n # x
    BY <1>4, <2>3, <2>4, <2>5
  <2>6. CASE n = x
    <3>1. myTime[n] = 0
      BY <2>3, <2>6 DEF Types, TypeOK
    <3>2. Origins(Of(confirmations[n], 0)) = Node
      BY <2>3, <3>1 DEF FirstRoundHeard
    <3>3. Highest(Messages(Of(confirmations[n], 0))) = {B}
      BY <3>2, ChoiceIsBest
    <3>4. tlc' = [tlc EXCEPT ![n] = Append(@, B)]
      BY <2>1, <3>1, <3>3
    <3>5. tlc'[n] = Append(tlc[n], B) /\ tlc[n] \in Seq(Message)
      BY <3>4 DEF Types, TypeOK
    <3>6. tlc'[n][k] = B
      BY <3>5
    <3>7. Yields(p, B, n, B)
      BY DEF Yields, Message
    <3> QED BY <1>3, <2>2, <2>3, <2>4, <2>6, <3>6, <3>7
  <2> QED BY <2>5, <2>6
<1>6. ASSUME NEW n \in Node, Decide(n) \/ Crash(n) PROVE Goal
  <2>1. RoundOver(n) /\ qsc[n].step = 2
    BY <1>6 DEF Decide, Crash
  <2>2. n # x
    BY <1>2, <2>1
  <2>3. confirmed'[x] = confirmed[x]
    BY <2>1, <2>2, RoundOverChanges
  <2>4. qsc'[x] = qsc[x]
    BY <1>6, <2>2 DEF Decide, Crash, Types, TypeOK
  <2> QED BY <1>4, <2>3, <2>4
<1>7. ASSUME NEW n \in Node, Confirm(n) PROVE Goal
  BY <1>4, <1>7, ConfirmChanges
<1>8. ASSUME NEW n \in Node, NEW i \in clientBlock[n], TakeBlock(n, i) PROVE Goal
  <2>1. n # x
    BY <1>2, <1>8 DEF TakeBlock
  <2>2. qsc'[x] = qsc[x] /\ confirmed' = confirmed
    BY <1>8, <2>1 DEF TakeBlock, Types, TypeOK
  <2> QED BY <1>4, <2>2
<1>9. ASSUME NEW n \in Node, Wait(n) PROVE Goal
  <2> DEFINE q == [pc |-> "wait", step |-> qsc[n].step, id |-> qsc[n].id, delivered |-> FALSE]
  <2>1. qsc' = [qsc EXCEPT ![n] = q] /\ q.id = qsc[n].id /\ confirmed' = confirmed
    BY <1>9 DEF Wait
  <2> HIDE DEF q
  <2>2. qsc'[x].id = qsc[x].id
    BY <2>1 DEF Types, TypeOK
  <2> QED BY <1>4, <2>1, <2>2
<1>10. ASSUME NEW n \in Node, Publish(n) \/ Handles(n) PROVE qsc' = qsc /\ confirmed' = confirmed
  BY <1>10, HandlesUnchanged DEF Publish
<1>11. UNCHANGED vars => qsc' = qsc /\ confirmed' = confirmed
  BY DEF vars
<1>12. qsc' = qsc /\ confirmed' = confirmed => Goal
  BY <1>4
<1> HIDE DEF Goal
<1>13. Goal
  BY <1>5, <1>6, <1>7, <1>8, <1>9, <1>10, <1>11, <1>12, StepCases
<1> QED BY <1>13 DEF Goal

\* What comes to be kept under round 0 was sent in round 0 or 1.
LEMMA NextKeptYield ==
  ASSUME Types, RoundInv, KeptInv, TurnInv, [Next]_vars,
         NEW p \in Node, NEW B \in Message, Waiting, Close, SentYield(p, B), KeptYield(p, B)
  PROVE  \A x \in Node : \A k \in confirmations'[x] \cup saving'[x] :
           k.round = 0 => Yields(p, B, k.origin, tlc'[k.origin][k.id])
<1> DEFINE Good(k) == k.round = 0 => Yields(p, B, k.origin, tlc'[k.origin][k.id])
           Goal == \A x \in Node : \A k \in confirmations'[x] \cup saving'[x] : Good(k)
<1>1. \A x \in Node : \A k \in confirmations[x] \cup saving[x] : Good(k)
  <2>1. \A x \in Node : \A k \in confirmations[x] \cup saving[x] :
          k.origin \in Node /\ k.id \in DOMAIN tlc[k.origin]
    BY DEF Types, TypeOK, KeptIds, Saved
  <2> QED BY <2>1, SentStays DEF KeptYield
<1>2. ASSUME UNCHANGED <<confirmations, saving>> PROVE Goal
  BY <1>1, <1>2
<1>3. ASSUME NEW n \in Node, Confirm(n) PROVE Goal
  <2> DEFINE c == [round |-> myTime[n], origin |-> n, id |-> qsc[n].id]
  <2>1. confirmations' = [confirmations EXCEPT ![n] = Put(@, c)] /\ saving' = saving
    BY <1>3 DEF Confirm
  <2>2. myTime[n] # 0
    BY <1>3, ConfirmChanges DEF Waiting
  <2>3. Good(c)
    BY <2>2
  <2> HIDE DEF c, Good
  <2>4. \A x \in Node : \A k \in confirmations'[x] : k \in confirmations[x] \/ k = c
    BY <2>1 DEF Put, Types, TypeOK
  <2> QED BY <1>1, <2>1, <2>3, <2>4
<1>4. ASSUME NEW n \in Node, NEW o \in Node, NEW i \in DOMAIN tlc[o], HandleConfirmed(n, o, i)
      PROVE  Goal
  <2> DEFINE c == [round |-> RoundOf(n, o, i), origin |-> o, id |-> i]
             C == {x \in {c} : x.round >= myTime[n]}
  <2>1. /\ i \in confirmed[o] /\ saving' = [saving EXCEPT ![n] = C]
        /\ confirmations' = confirmations /\ tlc' = tlc
    BY <1>4 DEF HandleConfirmed
  <2>2. ASSUME RoundOf(n, o, i) = 0, RoundOf(n, o, i) >= myTime[n] PROVE Yields(p, B, o, tlc'[o][i])
    <3>1. myTime[n] \in Nat /\ myTime[o] \in Nat
      BY DEF Types, TypeOK
    <3>2. myTime[n] = 0
      BY <2>2, <3>1
    <3>3. myTime[o] <= 1
      BY <3>1, <3>2 DEF Close
    <3> QED BY <2>1, <3>3 DEF SentYield
  <2>3. \A k \in C : k = c /\ Good(k)
    BY <2>2
  <2> HIDE DEF c, C, Good
  <2>4. \A x \in Node : \A k \in saving'[x] : k \in saving[x] \/ k \in C
    BY <2>1 DEF Types, TypeOK
  <2> QED BY <1>1, <2>1, <2>3, <2>4
<1>5. ASSUME NEW n \in Node, NEW c \in saving[n], SaveConfirmation(n, c) PROVE Goal
  <2>1. /\ confirmations' = [confirmations EXCEPT ![n] = Put(@, c)]
        /\ saving' = [saving EXCEPT ![n] = {}]
    BY <1>5 DEF SaveConfirmation
  <2>2. \A x \in Node : confirmations'[x] \cup saving'[x] \subseteq confirmations[x] \cup saving[x]
    BY <2>1 DEF Put, Types, TypeOK
  <2> HIDE DEF Good
  <2> QED BY <1>1, <2>2
<1>6. ASSUME NEW n \in Node, Handles(n) PROVE Goal
  <2> HIDE DEF Goal
  <2>1. ASSUME NEW o \in Hears[n], NEW i \in DOMAIN tlc[o],
               HandleUnconfirmed(n, o, i) \/ HandleConfirmed(n, o, i)
        PROVE  Goal
    <3>1. o \in Node
      BY ConsensusAssumption
    <3>2. CASE HandleUnconfirmed(n, o, i)
      BY <1>2, <3>2 DEF HandleUnconfirmed
    <3> QED BY <1>4, <2>1, <3>1, <3>2
  <2>2. ASSUME NEW c \in acking[n], Acknowledge(n, c) PROVE Goal
    BY <1>2, <2>2 DEF Acknowledge
  <2> QED BY <1>5, <1>6, <2>1, <2>2 DEF Handles
<1>7. ASSUME NEW n \in Node,
             \/ Publish(n) \/ (\E i \in clientBlock[n] : TakeBlock(n, i)) \/ Wait(n)
             \/ NextRound(n) \/ Decide(n) \/ Crash(n)
      PROVE  UNCHANGED <<confirmations, saving>>
  BY <1>7 DEF Publish, TakeBlock, Wait, NextRound, Decide, Crash, kept
<1>8. UNCHANGED vars => UNCHANGED <<confirmations, saving>>
  BY DEF vars, kept
<1> HIDE DEF Goal
<1>9. Goal
  BY <1>2, <1>3, <1>6, <1>7, <1>8, StepCases
<1> QED BY <1>9 DEF Goal

\* Of every origin something stays kept under round 0.
LEMMA KeptStays ==
  ASSUME Types, [Next]_vars, NEW x \in Node
  PROVE  Origins(Of(confirmations[x], 0)) \subseteq Origins(Of(confirmations'[x], 0))
<1>1. ASSUME NEW n \in Node, NEW c, confirmations' = [confirmations EXCEPT ![n] = Put(@, c)]
      PROVE  Origins(Of(confirmations[x], 0)) \subseteq Origins(Of(confirmations'[x], 0))
  <2>1. confirmations'[x] = confirmations[x] \/ confirmations'[x] = Put(confirmations[x], c)
    BY <1>1 DEF Types, TypeOK
  <2>2. \A k \in confirmations[x] : \E j \in Put(confirmations[x], c) : j.origin = k.origin /\ j.round = k.round
    BY DEF Put
  <2> QED BY <2>1, <2>2 DEF Origins, Of
<1>2. ASSUME NEW n \in Node, Confirm(n) \/ Handles(n)
      PROVE  confirmations' = confirmations \/ \E c : confirmations' = [confirmations EXCEPT ![n] = Put(@, c)]
  BY <1>2 DEF Confirm, Handles, HandleUnconfirmed, Acknowledge, HandleConfirmed,
                   SaveConfirmation
<1>3. ASSUME NEW n \in Node,
             \/ Publish(n) \/ (\E i \in clientBlock[n] : TakeBlock(n, i)) \/ Wait(n)
             \/ NextRound(n) \/ Decide(n) \/ Crash(n)
      PROVE  confirmations' = confirmations
  BY <1>3 DEF Publish, TakeBlock, Wait, NextRound, Decide, Crash, kept
<1>4. UNCHANGED vars => confirmations' = confirmations
  BY DEF vars, kept
<1> QED BY <1>1, <1>2, <1>3, <1>4, StepCases

\* The end of a round, or none.
LEMMA WhoseRound ==
  ASSUME Types, RoundInv, [Next]_vars, NEW x \in Node, myTime'[x] # myTime[x]
  PROVE  /\ RoundOver(x) /\ (NextRound(x) \/ Decide(x) \/ Crash(x))
         /\ myTime'[x] = myTime[x] + 1
         /\ confirmations' = confirmations
         /\ \A o \in Node \ {x} : myTime'[o] = myTime[o]
<1>1. ASSUME NEW n \in Node,
             \/ Publish(n) \/ (\E i \in clientBlock[n] : TakeBlock(n, i)) \/ Wait(n)
             \/ Confirm(n) \/ Handles(n)
      PROVE  myTime' = myTime
  BY <1>1, HandlesUnchanged DEF Publish, TakeBlock, Wait, Confirm
<1>2. UNCHANGED vars => myTime' = myTime
  BY DEF vars
<1>3. PICK n \in Node : NextRound(n) \/ Decide(n) \/ Crash(n)
  BY <1>1, <1>2, StepCases
<1>4. RoundOver(n) /\ confirmations' = confirmations
  BY <1>3 DEF NextRound, Decide, Crash, kept
<1>5. myTime'[n] = myTime[n] + 1 /\ \A o \in Node \ {n} : myTime'[o] = myTime[o]
  BY <1>4, RoundOverChanges
<1>6. n = x
  BY <1>5
<1> QED BY <1>3, <1>4, <1>5, <1>6

LEMMA NextKeptAll ==
  ASSUME Types, RoundInv, KeptAll, [Next]_vars, FirstRoundHeard
  PROVE  KeptAll'
<1> SUFFICES ASSUME NEW x \in Node, myTime'[x] >= 1
             PROVE  Origins(Of(confirmations'[x], 0)) = Node
  BY DEF KeptAll
<1>1. Origins(Of(confirmations'[x], 0)) \in SUBSET Node
  <2>1. \A k \in confirmations'[x] : k.origin \in Node
    BY StepTypes DEF Types, TypeOK, Saved
  <2> QED BY <2>1 DEF Origins, Of
<1>2. Origins(Of(confirmations[x], 0)) \subseteq Origins(Of(confirmations'[x], 0))
  BY KeptStays
<1>3. Origins(Of(confirmations[x], 0)) = Node
  <2>1. CASE myTime[x] >= 1
    BY <2>1 DEF KeptAll
  <2>2. CASE ~(myTime[x] >= 1)
    <3>1. myTime[x] = 0 /\ myTime'[x] # myTime[x]
      BY <2>2, TimeGrows
    <3> QED BY <3>1 DEF FirstRoundHeard
  <2> QED BY <2>1, <2>2
<1> QED BY <1>1, <1>2, <1>3

LEMMA NextClose ==
  ASSUME Types, RoundInv, Close, [Next]_vars, FirstRoundHeard
  PROVE  Close'
<1> SUFFICES ASSUME NEW x \in Node, NEW o \in Node, myTime'[x] >= 2 PROVE myTime'[o] >= 1
  BY DEF Close
<1>1. /\ myTime[x] \in Nat /\ (myTime'[x] = myTime[x] \/ myTime'[x] = myTime[x] + 1)
      /\ myTime[o] \in Nat /\ (myTime'[o] = myTime[o] \/ myTime'[o] = myTime[o] + 1)
  BY TimeGrows
<1>2. myTime[o] >= 1
  <2>1. CASE myTime[x] >= 2
    BY <2>1 DEF Close
  <2>2. CASE ~(myTime[x] >= 2)
    <3>1. myTime[x] = 1 /\ myTime'[x] # myTime[x]
      BY <1>1, <2>2
    <3>2. myTime[o] # 0
      BY <3>1 DEF FirstRoundHeard
    <3> QED BY <1>1, <3>2
  <2> QED BY <2>1, <2>2
<1> QED BY <1>1, <1>2

\* What is committed at the end of round 2 is the best message.
LEMMA NextCommitsBest ==
  ASSUME Types, RoundInv, TurnInv, FreshInv, [Next]_vars,
         NEW p \in Node, NEW B \in Message, B.fitness > 0, KeptYield(p, B), KeptAll, CommitsBest(B)
  PROVE  \A x \in Node : myTime'[x] \in 3 .. 5 =>
           committedHistory'[x] = {} \/ topBlockchainHash'[x] = <<B.block[Len(B.block)]>>
<1> DEFINE e == B.block[Len(B.block)]
<1> SUFFICES ASSUME NEW x \in Node, myTime'[x] \in 3 .. 5
             PROVE  committedHistory'[x] = {} \/ topBlockchainHash'[x] = <<e>>
  OBVIOUS
<1>1. myTime[x] \in Nat /\ (myTime'[x] = myTime[x] \/ myTime'[x] = myTime[x] + 1)
  BY TimeGrows
<1>2. ASSUME myTime[x] = 2, Decide(x) PROVE committedHistory'[x] = {} \/ topBlockchainHash'[x] = <<e>>
  <2> DEFINE H == Highest(Messages(Of(confirmations[x], 0)))
  <2>1. committedHistory[x] = {} /\ topBlockchainHash[x] = <<>>
    BY <1>2 DEF FreshInv
  <2>2. H = {B}
    <3>1. Origins(Of(confirmations[x], 0)) = Node
      BY <1>2 DEF KeptAll
    <3> QED BY <3>1, ChoiceIsBest
  <2>3. \/ UNCHANGED <<committedHistory, topBlockchainHash>>
        \/ \E m \in checkIfConsensusReached(x, myTime[x] - 2) : Commit(x, m)
    BY <1>2, Zenon DEF Decide
  <2>4. checkIfConsensusReached(x, myTime[x] - 2) \subseteq H
    <3>1. myTime[x] - 2 = 0
      BY <1>2
    <3>2. checkIfConsensusReached(x, 0) \subseteq H
      BY DEF checkIfConsensusReached
    <3> QED BY <3>1, <3>2
  <2> HIDE DEF H
  <2>5. UNCHANGED <<committedHistory, topBlockchainHash>> \/ Commit(x, B)
    BY <2>2, <2>3, <2>4
  <2>6. CASE Commit(x, B)
    <3>1. topBlockchainHash' = [topBlockchainHash EXCEPT ![x] = Append(topBlockchainHash[x], e)]
      BY <2>6 DEF Commit
    <3>2. topBlockchainHash'[x] = Append(<<>>, e)
      BY <2>1, <3>1 DEF Types, TypeOK
    <3> QED BY <3>2
  <2> QED BY <2>1, <2>5, <2>6
<1>3. CASE myTime'[x] # myTime[x]
  <2>1. /\ RoundOver(x) /\ (NextRound(x) \/ Decide(x) \/ Crash(x)) /\ myTime'[x] = myTime[x] + 1
    BY <1>3, WhoseRound
  <2>2. CASE myTime[x] = 2
    <3>1. qsc[x].step = 2
      BY <2>1, <2>2 DEF TurnInv, StepOf, RoundOver
    <3>2. CASE Crash(x)
      BY <2>2, <3>2 DEF Crash, chain, FreshInv
    <3>3. CASE NextRound(x)
      BY <3>1, <3>3 DEF NextRound
    <3> QED BY <1>2, <2>1, <2>2, <3>2, <3>3
  <2>3. CASE myTime[x] # 2
    <3>1. myTime[x] = 3 \/ myTime[x] = 4
      BY <1>1, <2>1, <2>3
    <3>2. qsc[x].step # 2
      <4>1. qsc[x].pc \in {"start", "wait"}
        BY <2>1 DEF RoundOver
      <4>2. ASSUME qsc[x].step = 2 PROVE FALSE
        BY <3>1, <4>1, <4>2, DecideLate
      <4> QED BY <4>2
    <3>3. UNCHANGED <<committedHistory, topBlockchainHash>>
      BY <2>1, <3>2 DEF NextRound, Decide, Crash, chain
    <3>4. myTime[x] \in 3 .. 5
      BY <3>1
    <3> QED BY <3>3, <3>4 DEF CommitsBest
  <2> QED BY <2>2, <2>3
<1>4. CASE myTime'[x] = myTime[x]
  <2>1. committedHistory'[x] = committedHistory[x] /\ topBlockchainHash'[x] = topBlockchainHash[x]
    <3>1. ASSUME NEW n \in Node, Decide(n)
          PROVE  committedHistory'[x] = committedHistory[x] /\ topBlockchainHash'[x] = topBlockchainHash[x]
      <4>1. RoundOver(n)
        BY <3>1 DEF Decide
      <4>2. n # x
        BY <1>1, <1>4, <4>1, RoundOverChanges
      <4>3. UNCHANGED <<committedHistory, topBlockchainHash>> \/ \E m : Commit(n, m)
        BY <3>1 DEF Decide
      <4> QED BY <4>2, <4>3 DEF Commit, Types, TypeOK
    <3>2. ASSUME NEW n \in Node, Handles(n) PROVE UNCHANGED <<committedHistory, topBlockchainHash>>
      BY <3>2, HandlesUnchanged DEF chain
    <3>3. ASSUME NEW n \in Node,
                 \/ Publish(n) \/ (\E i \in clientBlock[n] : TakeBlock(n, i)) \/ Wait(n) \/ Confirm(n)
                 \/ NextRound(n) \/ Crash(n)
          PROVE  UNCHANGED <<committedHistory, topBlockchainHash>>
      BY <3>3 DEF Publish, TakeBlock, Wait, Confirm, NextRound, Crash, chain
    <3>4. UNCHANGED vars => UNCHANGED <<committedHistory, topBlockchainHash>>
      BY DEF vars, chain
    <3> QED BY <3>1, <3>2, <3>3, <3>4, StepCases
  <2> QED BY <1>4, <2>1 DEF CommitsBest
<1> QED BY <1>3, <1>4

LEMMA NextBestInv ==
  ASSUME FitnessPositive, FitnessDistinct,
         Types, RoundInv, KeptInv, ProperInv, FirstInv, BestInv, [Next]_vars, FirstRoundHeard
  PROVE  BestInv'
<1>1. ASSUME NEW p \in Node, NEW B \in Message, B.fitness > 0, Best(p, B) PROVE BestInv'
  <2>1. Waiting /\ KeptAll /\ Close /\ SentYield(p, B) /\ KeptYield(p, B) /\ CommitsBest(B)
    BY <1>1 DEF Best
  <2>2. Waiting'
    BY <2>1, NextWaiting DEF FirstInv
  <2>3. KeptAll' /\ Close'
    BY <2>1, NextKeptAll, NextClose
  <2>4. SentYield(p, B)'
    BY <1>1, <2>1, NextSentYield DEF FirstInv, SentYield
  <2>5. KeptYield(p, B)'
    BY <2>1, NextKeptYield DEF FirstInv, KeptYield
  <2>6. CommitsBest(B)'
    BY <1>1, <2>1, NextCommitsBest DEF FirstInv, CommitsBest
  <2>7. Best(p, B)'
    BY <2>2, <2>3, <2>4, <2>5, <2>6 DEF Best
  <2> QED BY <1>1, <2>7 DEF BestInv
<1>2. ASSUME \A n \in Node : myTime[n] = 0 PROVE BestInv'
  <2>1. CASE \A n \in Node : myTime'[n] = 0
    BY <2>1 DEF BestInv
  <2>2. CASE ~(\A n \in Node : myTime'[n] = 0)
    <3>1. PICK n \in Node : myTime'[n] # myTime[n]
      BY <1>2, <2>2
    <3>2. Origins(Of(confirmations[n], 0)) = Node
      BY <1>2, <3>1 DEF FirstRoundHeard
    <3>3. \E p \in Node : \E B \in Message : B.fitness > 0 /\ Best(p, B)
      BY <1>2, <3>2, FirstIsOver
    <3> QED BY <1>1, <3>3
  <2> QED BY <2>1, <2>2
<1> QED BY <1>1, <1>2 DEF BestInv

\* Nodes that draw no fitness of another, and not 0, agree in their first
\* consensus if none of them ends the first round before it has heard of
\* everyone: what getMessageOriginalRound may count to round 0 by mistake is the
\* best message of that round.  With equal fitnesses they need not, nor if a
\* majority goes on without hearing of the others.
THEOREM HeardAgreeFirst ==
  FitnessPositive /\ FitnessDistinct =>
    (Spec /\ [][FirstRoundHeard]_vars => []FirstConsensusAgrees)
<1> SUFFICES ASSUME FitnessPositive, FitnessDistinct
             PROVE  Spec /\ [][FirstRoundHeard]_vars => []FirstConsensusAgrees
  OBVIOUS
<1>1. Init => ProperInv /\ FirstInv /\ BestInv
  BY InitFirst, InitProper DEF Init, BestInv
<1>2. /\ RoundsInv /\ ProperInv /\ FirstInv /\ BestInv
      /\ [Next]_vars /\ [FirstRoundHeard]_vars
      => ProperInv' /\ FirstInv' /\ BestInv'
  <2> SUFFICES ASSUME RoundsInv, ProperInv, FirstInv, BestInv, [Next]_vars, [FirstRoundHeard]_vars
               PROVE  ProperInv' /\ FirstInv' /\ BestInv'
    OBVIOUS
  <2>1. FirstRoundHeard
    BY DEF FirstRoundHeard, vars
  <2> QED BY <2>1, NextProper, NextFirst, NextBestInv DEF RoundsInv
<1>3. BestInv => FirstConsensusAgrees
  <2> SUFFICES ASSUME BestInv, NEW n \in Node, NEW o \in Node,
                      myTime[n] \in 3 .. 5, committedHistory[n] # {},
                      myTime[o] \in 3 .. 5, committedHistory[o] # {}
               PROVE  topBlockchainHash[n] = topBlockchainHash[o]
    BY DEF FirstConsensusAgrees
  <2>1. PICK p \in Node, B \in Message : Best(p, B)
    BY DEF BestInv
  <2> QED BY <2>1 DEF Best, CommitsBest
<1> QED BY <1>1, <1>2, <1>3, RoundsHold, PTL DEF Spec

-----------------------------------------------------------------------------
(* Two nodes: a majority is everyone.                                        *)

\* One node, or two.
AtMostTwo == Cardinality(Node) <= 2

\* The majority of two is both.
LEMMA MajorityIsAll ==
  ASSUME AtMostTwo, NEW S \in SUBSET Node, Majority(S)
  PROVE  S = Node
<1>1. IsFiniteSet(Node)
  BY ConsensusAssumption
<1>2. /\ Cardinality(S) \in Nat /\ Cardinality(Node) \in Nat
      /\ Cardinality(S) <= Cardinality(Node)
      /\ Cardinality(Node) = Cardinality(S) => Node = S
  BY <1>1, FS_Subset, FS_CardinalityType
<1>3. Cardinality(S) > Cardinality(Node) \div 2
  BY DEF Majority
<1> QED BY <1>2, <1>3 DEF AtMostTwo

LEMMA KeptOrigins ==
  ASSUME Types, NEW n \in Node, NEW r
  PROVE  Origins(Of(confirmations[n], r)) \in SUBSET Node
BY DEF Origins, Of, Types, TypeOK, Saved

\* Two nodes cannot do otherwise than hear each other.
LEMMA TwoHear ==
  ASSUME AtMostTwo, Types, RoundInv, KeptInv, [Next]_vars
  PROVE  FirstRoundHeard
<1> SUFFICES ASSUME NEW n \in Node, myTime'[n] # myTime[n]
             PROVE  /\ myTime[n] = 0 => Origins(Of(confirmations[n], 0)) = Node
                    /\ myTime[n] = 1 => \A o \in Node : myTime[o] # 0
  BY DEF FirstRoundHeard
<1>1. RoundOver(n)
  BY WhoseRound
<1>2. Origins(Of(confirmations[n], myTime[n])) = Node
  BY <1>1, KeptOrigins, MajorityIsAll DEF RoundOver
<1>3. \A o \in Node : myTime[o] >= myTime[n]
  BY <1>2, EveryoneIsThere
<1>4. myTime[n] = 1 => \A o \in Node : myTime[o] # 0
  BY <1>3
<1> QED BY <1>2, <1>4

\* Two nodes that draw no fitness twice, and not 0, agree in their first
\* consensus, whatever is delayed, repeated or counted to another round.  With
\* three nodes they need not.
THEOREM TwoAgreeFirst ==
  AtMostTwo /\ FitnessPositive /\ FitnessDistinct => (Spec => []FirstConsensusAgrees)
<1> SUFFICES ASSUME AtMostTwo, FitnessPositive, FitnessDistinct PROVE Spec => []FirstConsensusAgrees
  OBVIOUS
<1>1. RoundsInv /\ [Next]_vars => [FirstRoundHeard]_vars
  BY TwoHear DEF RoundsInv
<1>2. Spec /\ [][FirstRoundHeard]_vars => []FirstConsensusAgrees
  BY HeardAgreeFirst
<1> QED BY <1>1, <1>2, RoundsHold, PTL DEF Spec

-----------------------------------------------------------------------------
(* The ledger of a node. *)

LEMMA InitLedger == Init => Ledger!Init
<1> SUFFICES ASSUME Init PROVE Ledger!Init
  OBVIOUS
<1>1. Indexed = {}
  BY DEF Init, Indexed
<1> QED BY <1>1 DEF Init, Ledger!Init

\* A client's file becomes a name that may be committed.
LEMMA PublishProposes ==
  ASSUME Types, NEW n \in Node, Publish(n)
  PROVE  \E e \in Name : Ledger!Propose(e)
<1> DEFINE k == indexed[n] + 1
           e == Files[n][k]
<1>1. indexed[n] < Len(Files[n]) /\ indexed' = [indexed EXCEPT ![n] = k]
  BY DEF Publish
<1>2. indexed \in [Node -> Nat] /\ Files[n] \in Seq(Name) /\ indexed[n] \in Nat
  BY ConsensusAssumption DEF Types, TypeOK
<1>3. k \in 1 .. Len(Files[n]) /\ 1 .. k = 1 .. indexed[n] \cup {k}
  BY <1>1, <1>2
<1>4. e \in Name
  BY <1>2, <1>3
<1>5. indexed'[n] = k /\ \A o \in Node \ {n} : indexed'[o] = indexed[o]
  BY <1>1, <1>2
<1> HIDE DEF k
<1>6. \A x \in Name :
        (\E o \in Node : \E i \in 1 .. indexed'[o] : x = Files[o][i])
        <=> (\E o \in Node : \E i \in 1 .. indexed[o] : x = Files[o][i]) \/ x = e
  BY <1>3, <1>5
<1> HIDE DEF e
<1>7. Indexed' = Indexed \cup {e}
  BY <1>4, <1>6 DEF Indexed
<1>8. UNCHANGED <<myTime, topBlockchainHash>>
  BY DEF Publish, chain
<1> QED BY <1>4, <1>7, <1>8 DEF Ledger!Propose

\* Deciding is the end of a third round, with a name that was proposed.
LEMMA DecideIsLedger ==
  ASSUME Types, RoundInv, ProperInv, TurnInv, NEW n \in Node, Decide(n)
  PROVE  Ledger!Pass(n) \/ \E e \in Indexed : Ledger!Decide(n, e)
<1>1. RoundOver(n) /\ qsc[n].step = 2 /\ indexed' = indexed
  BY DEF Decide
<1>2. myTime' = [myTime EXCEPT ![n] = @ + 1] /\ Indexed' = Indexed
  BY <1>1 DEF RoundOver, Indexed
<1>3. myTime[n] % 3 = 2
  BY <1>1 DEF RoundOver, TurnInv, StepOf
<1>4. \/ UNCHANGED topBlockchainHash
      \/ \E m \in checkIfConsensusReached(n, myTime[n] - 2) : Commit(n, m)
  BY Zenon DEF Decide
<1>5. CASE UNCHANGED topBlockchainHash
  BY <1>2, <1>5 DEF Ledger!Pass, Ledger!EndRound
<1>6. ASSUME NEW m \in checkIfConsensusReached(n, myTime[n] - 2), Commit(n, m)
      PROVE  \E e \in Indexed : Ledger!Decide(n, e)
  <2> DEFINE e == m.block[Len(m.block)]
  <2>1. e \in Indexed
    BY CommitIndexed
  <2>2. topBlockchainHash' = [topBlockchainHash EXCEPT ![n] = Append(@, e)]
    BY <1>6 DEF Commit
  <2> HIDE DEF e
  <2>3. Ledger!Decide(n, e)
    BY <1>2, <1>3, <2>1, <2>2 DEF Ledger!Decide, Ledger!EndRound
  <2> QED BY <2>1, <2>3
<1> QED BY <1>4, <1>5, <1>6

LEMMA NextLedger ==
  ASSUME Types, RoundInv, ProperInv, TurnInv, [Next]_vars
  PROVE  [Ledger!Next]_(Ledger!vars)
<1> DEFINE Goal == [Ledger!Next]_(Ledger!vars)
<1>1. ASSUME UNCHANGED <<indexed, myTime, topBlockchainHash>> PROVE Goal
  BY <1>1 DEF Ledger!vars, Indexed
<1>2. ASSUME NEW n \in Node, Publish(n) PROVE Goal
  BY <1>2, PublishProposes DEF Ledger!Next
<1>3. ASSUME NEW n \in Node, NextRound(n) \/ Crash(n) PROVE Goal
  <2>1. RoundOver(n) /\ UNCHANGED <<indexed, topBlockchainHash>>
    BY <1>3 DEF NextRound, Crash, chain
  <2>2. Ledger!Pass(n)
    BY <2>1 DEF RoundOver, Indexed, Ledger!Pass, Ledger!EndRound
  <2> QED BY <2>2 DEF Ledger!Next
<1>4. ASSUME NEW n \in Node, Decide(n) PROVE Goal
  BY <1>4, DecideIsLedger DEF Ledger!Next
<1>5. ASSUME NEW n \in Node,
             (\E i \in clientBlock[n] : TakeBlock(n, i)) \/ Wait(n) \/ Confirm(n) \/ Handles(n)
      PROVE  UNCHANGED <<indexed, myTime, topBlockchainHash>>
  BY <1>5, HandlesUnchanged DEF TakeBlock, Wait, Confirm, chain
<1>6. UNCHANGED vars => UNCHANGED <<indexed, myTime, topBlockchainHash>>
  BY DEF vars, chain
<1> HIDE DEF Goal
<1>7. Goal
  <2>1. CASE \E n \in Node : Publish(n)
    BY <1>2, <2>1
  <2>2. CASE \E n \in Node : NextRound(n) \/ Crash(n)
    BY <1>3, <2>2
  <2>3. CASE \E n \in Node : Decide(n)
    BY <1>4, <2>3
  <2> QED BY <1>1, <1>5, <1>6, <2>1, <2>2, <2>3, StepCases
<1> QED BY <1>7 DEF Goal

\* Whatever messages lead to a decision, what a node commits is a ledger: it is
\* never rewritten, and a name that was indexed is added at the end of a third
\* round only (getTLCWithHighestFitness never falls back on the empty message
\* in what is sent on).  No fitness drawn is 0: with a draw of 0 a block without
\* a name could be committed.
THEOREM LedgerIsKept == FitnessPositive => (Spec => ImplementsLedger)
<1> SUFFICES ASSUME FitnessPositive PROVE Spec => ImplementsLedger
  OBVIOUS
<1>1. Init => ProperInv /\ TurnInv /\ Ledger!Init
  BY InitFirst, InitProper, InitLedger DEF FirstInv
<1>2. RoundsInv /\ ProperInv /\ TurnInv /\ [Next]_vars => ProperInv' /\ TurnInv'
  BY NextProper, NextTurn DEF RoundsInv
<1>3. RoundsInv /\ ProperInv /\ TurnInv /\ [Next]_vars => [Ledger!Next]_(Ledger!vars)
  BY NextLedger DEF RoundsInv
<1> QED BY <1>1, <1>2, <1>3, RoundsHold, PTL DEF Spec, ImplementsLedger, Ledger!Spec

\* Every third round leaves room for one more.
LEMMA ThirdRound ==
  ASSUME NEW r \in Nat, r % 3 = 2
  PROVE  r \div 3 \in Int /\ (r + 1) \div 3 = r \div 3 + 1
<1>1. r \div 3 \in Int
  OBVIOUS
<1>2. (r + 1) \div 3 = r \div 3 + 1
  OBVIOUS
<1> QED BY <1>1, <1>2

\* A step of a ledger leaves room for its rounds.
LEMMA NextOneBlock ==
  ASSUME myTime \in [Node -> Nat], topBlockchainHash \in [Node -> Hash],
         Ledger!OneBlockPerConsensus, [Ledger!Next]_(Ledger!vars)
  PROVE  Ledger!OneBlockPerConsensus'
<1> USE DEF Ledger!OneBlockPerConsensus
<1> SUFFICES ASSUME NEW x \in Node PROVE Len(topBlockchainHash'[x]) <= myTime'[x] \div 3
  OBVIOUS
<1>1. /\ myTime[x] \in Nat /\ Len(topBlockchainHash[x]) \in Nat
      /\ Len(topBlockchainHash[x]) <= myTime[x] \div 3
  BY DEF Hash
<1>2. ASSUME NEW n \in Node, Ledger!Pass(n) PROVE Len(topBlockchainHash'[x]) <= myTime'[x] \div 3
  <2>1. myTime'[x] \in {myTime[x], myTime[x] + 1} /\ topBlockchainHash' = topBlockchainHash
    BY <1>2 DEF Ledger!Pass, Ledger!EndRound
  <2> QED BY <1>1, <2>1
<1>3. ASSUME NEW n \in Node, NEW e, Ledger!Decide(n, e)
      PROVE  Len(topBlockchainHash'[x]) <= myTime'[x] \div 3
  <2>1. CASE n = x
    <3>1. myTime'[x] = myTime[x] + 1 /\ myTime[x] % 3 = 2
      BY <1>3, <2>1 DEF Ledger!Decide, Ledger!EndRound
    <3>2. topBlockchainHash'[x] = Append(topBlockchainHash[x], e)
      BY <1>3, <2>1 DEF Ledger!Decide
    <3>3. Len(topBlockchainHash'[x]) = Len(topBlockchainHash[x]) + 1
      BY <3>2 DEF Hash
    <3>4. myTime[x] \div 3 \in Int /\ (myTime[x] + 1) \div 3 = myTime[x] \div 3 + 1
      BY <1>1, <3>1, ThirdRound
    <3>5. Len(topBlockchainHash[x]) + 1 <= myTime[x] \div 3 + 1
      BY <1>1, <3>4
    <3> QED BY <3>1, <3>3, <3>4, <3>5
  <2>2. CASE n # x
    <3>1. myTime'[x] = myTime[x] /\ topBlockchainHash'[x] = topBlockchainHash[x]
      BY <1>3, <2>2 DEF Ledger!Decide, Ledger!EndRound
    <3> QED BY <1>1, <3>1
  <2> QED BY <2>1, <2>2
<1>4. ASSUME UNCHANGED <<myTime, topBlockchainHash>> PROVE Len(topBlockchainHash'[x]) <= myTime'[x] \div 3
  BY <1>1, <1>4
<1>5. \/ \E n \in Node : Ledger!Pass(n) \/ \E e : Ledger!Decide(n, e)
      \/ UNCHANGED <<myTime, topBlockchainHash>>
  BY DEF Ledger!Next, Ledger!Propose, Ledger!vars
<1> QED BY <1>2, <1>3, <1>4, <1>5

\* A block takes a consensus of its own: a node in round r has committed r \div 3
\* names at most.
THEOREM BlocksTakeRounds == FitnessPositive => (Spec => []Ledger!OneBlockPerConsensus)
<1> SUFFICES ASSUME FitnessPositive PROVE Spec => []Ledger!OneBlockPerConsensus
  OBVIOUS
<1>1. Ledger!Init => Ledger!OneBlockPerConsensus
  BY DEF Ledger!Init, Ledger!OneBlockPerConsensus
<1>2. Types /\ Ledger!OneBlockPerConsensus /\ [Ledger!Next]_(Ledger!vars) => Ledger!OneBlockPerConsensus'
  BY NextOneBlock DEF Types, TypeOK
<1>3. Spec => ImplementsLedger
  BY LedgerIsKept
<1> QED BY <1>1, <1>2, <1>3, TypesHold, PTL DEF ImplementsLedger, Ledger!Spec

-----------------------------------------------------------------------------
(* Two nodes whose clients wait: files are indexed one after the other.      *)

\* A client publishes a block when the last one is through its rounds.
PublishedInTurn ==
  \A n \in Node : indexed'[n] # indexed[n] => qsc[n].pc = "idle" /\ clientBlock[n] = {}

TwoNodes == Cardinality(Node) = 2

\* Ids are rounds then: how the messages B that a node has confirmed, its queue
\* C, its goroutine q, its round t and the number k of its messages fit together.
Ordered(B, C, q, t, k) ==
  /\ B = 1 .. t + Delivered(q)
  /\ C \subseteq {t + 1}
  /\ C # {} => q.pc = "idle"
  /\ q.pc \in {"start", "wait"} => q.id = t + 1
  /\ k \in {t, t + 1}
  /\ C = {} /\ q.pc \notin {"start", "wait"} => k = t

OrderInv == \A n \in Node : Ordered(confirmed[n], clientBlock[n], qsc[n], myTime[n], Len(tlc[n]))

\* A message is kept under a round before its id.
LateInv == \A n \in Node : \A c \in confirmations[n] \cup saving[n] : c.round + 1 <= c.id

LEMMA OtherOrdered ==
  ASSUME OrderInv, NEW x \in Node,
         confirmed'[x] = confirmed[x], clientBlock'[x] = clientBlock[x],
         qsc'[x] = qsc[x], myTime'[x] = myTime[x], tlc'[x] = tlc[x]
  PROVE  Ordered(confirmed'[x], clientBlock'[x], qsc'[x], myTime'[x], Len(tlc'[x]))
BY DEF OrderInv

LEMMA InitOrder == Init => OrderInv /\ LateInv
<1> SUFFICES ASSUME Init PROVE OrderInv /\ LateInv
  OBVIOUS
<1>1. ASSUME NEW n \in Node
      PROVE  Ordered(confirmed[n], clientBlock[n], qsc[n], myTime[n], Len(tlc[n]))
  <2>1. /\ confirmed[n] = {} /\ clientBlock[n] = {} /\ qsc[n] = [pc |-> "idle"] /\ myTime[n] = 0
        /\ Len(tlc[n]) = 0
    BY DEF Init
  <2>2. qsc[n].pc = "idle" /\ Delivered(qsc[n]) = 0
    BY <2>1 DEF Delivered
  <2>3. 1 .. 0 + 0 = {}
    OBVIOUS
  <2> QED BY <2>1, <2>2, <2>3 DEF Ordered
<1>2. LateInv
  BY DEF Init, LateInv
<1> QED BY <1>1, <1>2 DEF OrderInv

LEMMA PublishOrder ==
  ASSUME Types, OrderInv, NEW n \in Node, Publish(n), PublishedInTurn
  PROVE  OrderInv'
<1>1. /\ clientBlock' = [clientBlock EXCEPT ![n] = @ \cup {Len(tlc[n]) + 1}]
      /\ indexed' = [indexed EXCEPT ![n] = @ + 1]
      /\ confirmed' = confirmed /\ qsc' = qsc /\ myTime' = myTime
      /\ \E m : tlc' = [tlc EXCEPT ![n] = Append(@, m)]
  BY DEF Publish
<1>2. indexed'[n] # indexed[n]
  BY <1>1 DEF Types, TypeOK
<1>3. qsc[n].pc = "idle" /\ clientBlock[n] = {}
  BY <1>2 DEF PublishedInTurn
<1>4. /\ clientBlock'[n] = {Len(tlc[n]) + 1}
      /\ \A x \in Node \ {n} : clientBlock'[x] = clientBlock[x] /\ tlc'[x] = tlc[x]
      /\ Len(tlc'[n]) = Len(tlc[n]) + 1 /\ Len(tlc[n]) \in Nat
  <2>1. tlc \in [Node -> Seq(Message)] /\ clientBlock \in [Node -> SUBSET ID]
    BY DEF Types, TypeOK
  <2>2. PICK m : tlc' = [tlc EXCEPT ![n] = Append(@, m)]
    BY <1>1
  <2>3. tlc'[n] = Append(tlc[n], m) /\ \A x \in Node \ {n} : tlc'[x] = tlc[x]
    BY <2>1, <2>2
  <2>4. Len(tlc[n]) \in Nat /\ Len(Append(tlc[n], m)) = Len(tlc[n]) + 1
    BY <2>1
  <2> QED BY <1>1, <1>3, <2>1, <2>3, <2>4
<1>5. Len(tlc[n]) = myTime[n]
  BY <1>3 DEF OrderInv, Ordered
<1>6. Ordered(confirmed'[n], clientBlock'[n], qsc'[n], myTime'[n], Len(tlc'[n]))
  BY <1>1, <1>3, <1>4, <1>5 DEF OrderInv, Ordered
<1> QED BY <1>1, <1>4, <1>6, OtherOrdered DEF OrderInv

LEMMA TakeBlockOrder ==
  ASSUME Types, OrderInv, NEW n \in Node, NEW i \in clientBlock[n], TakeBlock(n, i)
  PROVE  OrderInv'
<1>1. /\ qsc[n].pc = "idle"
      /\ clientBlock' = [clientBlock EXCEPT ![n] = @ \ {i}]
      /\ qsc' = [qsc EXCEPT ![n] = [pc |-> "start", step |-> 0, id |-> i]]
      /\ confirmed' = confirmed /\ myTime' = myTime /\ tlc' = tlc
  BY DEF TakeBlock
<1>2. /\ clientBlock'[n] = clientBlock[n] \ {i}
      /\ qsc'[n].pc = "start" /\ qsc'[n].id = i
      /\ \A x \in Node \ {n} : clientBlock'[x] = clientBlock[x] /\ qsc'[x] = qsc[x]
  BY <1>1 DEF Types, TypeOK
<1>3. Delivered(qsc[n]) = 0 /\ Delivered(qsc'[n]) = 0
  BY <1>1, <1>2 DEF Delivered
<1>4. i = myTime[n] + 1 /\ clientBlock'[n] = {}
  BY <1>2 DEF OrderInv, Ordered
<1>5. Ordered(confirmed'[n], clientBlock'[n], qsc'[n], myTime'[n], Len(tlc'[n]))
  BY <1>1, <1>2, <1>3, <1>4 DEF OrderInv, Ordered
<1> QED BY <1>1, <1>2, <1>5, OtherOrdered DEF OrderInv

LEMMA WaitOrder ==
  ASSUME Types, OrderInv, NEW n \in Node, Wait(n)
  PROVE  OrderInv'
<1> DEFINE q == [pc |-> "wait", step |-> qsc[n].step, id |-> qsc[n].id, delivered |-> FALSE]
<1>1. /\ qsc[n].pc = "start" /\ qsc' = [qsc EXCEPT ![n] = q]
      /\ confirmed' = confirmed /\ clientBlock' = clientBlock /\ myTime' = myTime /\ tlc' = tlc
  BY DEF Wait
<1>2. q.pc = "wait" /\ q.id = qsc[n].id /\ q.delivered = FALSE
  OBVIOUS
<1> HIDE DEF q
<1>3. qsc'[n] = q /\ \A x \in Node \ {n} : qsc'[x] = qsc[x]
  BY <1>1 DEF Types, TypeOK
<1>4. Delivered(qsc[n]) = 0 /\ Delivered(qsc'[n]) = 0
  BY <1>1, <1>2, <1>3 DEF Delivered
<1>5. Ordered(confirmed'[n], clientBlock'[n], qsc'[n], myTime'[n], Len(tlc'[n]))
  BY <1>1, <1>2, <1>3, <1>4 DEF OrderInv, Ordered
<1> QED BY <1>1, <1>3, <1>5, OtherOrdered DEF OrderInv

LEMMA ConfirmOrder ==
  ASSUME Types, RoundInv, OrderInv, NEW n \in Node, Confirm(n)
  PROVE  OrderInv'
<1>1. /\ qsc[n].pc = "wait" /\ qsc[n].delivered = FALSE
      /\ qsc'[n].pc = "wait" /\ qsc'[n].delivered = TRUE /\ qsc'[n].id = qsc[n].id
      /\ confirmed'[n] = confirmed[n] \cup {qsc[n].id}
      /\ \A x \in Node \ {n} : qsc'[x] = qsc[x] /\ confirmed'[x] = confirmed[x]
      /\ clientBlock' = clientBlock /\ myTime' = myTime
  BY ConfirmChanges
<1>2. tlc' = tlc
  BY DEF Confirm
<1>3. Delivered(qsc[n]) = 0 /\ Delivered(qsc'[n]) = 1
  BY <1>1 DEF Delivered
<1>4. qsc[n].id = myTime[n] + 1 /\ confirmed[n] = 1 .. myTime[n] + 0 /\ myTime[n] \in Nat
  BY <1>1, <1>3 DEF OrderInv, Ordered, Types, TypeOK
<1>5. confirmed'[n] = 1 .. myTime'[n] + Delivered(qsc'[n])
  <2>1. 1 .. myTime[n] + 1 = (1 .. myTime[n] + 0) \cup {myTime[n] + 1}
    BY <1>4
  <2> QED BY <1>1, <1>3, <1>4, <2>1
<1>6. Ordered(confirmed'[n], clientBlock'[n], qsc'[n], myTime'[n], Len(tlc'[n]))
  BY <1>1, <1>2, <1>5 DEF OrderInv, Ordered
<1> QED BY <1>1, <1>2, <1>6, OtherOrdered DEF OrderInv

\* Who ends a round has sent its message, and keeps no other waiting.
LEMMA RoundOverOrder ==
  ASSUME Types, RoundInv, OrderInv, NEW n \in Node, RoundOver(n)
  PROVE  /\ myTime[n] \in Nat /\ myTime'[n] = myTime[n] + 1
         /\ confirmed'[n] = 1 .. myTime[n] + 1
         /\ clientBlock[n] = {} /\ Len(tlc[n]) = myTime[n] + 1
         /\ qsc[n].pc \in {"start", "wait"} /\ qsc[n].id = myTime[n] + 1
         /\ \A x \in Node \ {n} : myTime'[x] = myTime[x] /\ confirmed'[x] = confirmed[x]
<1>1. /\ qsc[n].pc \in {"start", "wait"}
      /\ myTime'[n] = myTime[n] + 1
      /\ confirmed'[n] = confirmed[n] \cup {qsc[n].id}
      /\ \A x \in Node \ {n} : myTime'[x] = myTime[x] /\ confirmed'[x] = confirmed[x]
  BY RoundOverChanges
<1>2. /\ qsc[n].id = myTime[n] + 1 /\ clientBlock[n] = {}
      /\ confirmed[n] = 1 .. myTime[n] + Delivered(qsc[n])
      /\ Len(tlc[n]) \in {myTime[n], myTime[n] + 1}
  BY <1>1 DEF OrderInv, Ordered
<1>3. myTime[n] \in Nat /\ Delivered(qsc[n]) \in {0, 1}
  BY DEF Types, TypeOK, Delivered
<1>4. confirmed'[n] = 1 .. myTime[n] + 1
  <2>1. (1 .. myTime[n] + 0) \cup {myTime[n] + 1} = 1 .. myTime[n] + 1
    BY <1>3
  <2>2. (1 .. myTime[n] + 1) \cup {myTime[n] + 1} = 1 .. myTime[n] + 1
    BY <1>3
  <2> QED BY <1>1, <1>2, <1>3, <2>1, <2>2
<1>5. Len(tlc[n]) = myTime[n] + 1
  <2>1. qsc[n].id \in DOMAIN tlc[n] /\ tlc[n] \in Seq(Message)
    BY <1>1 DEF Types, TypeOK, SentIds
  <2>2. qsc[n].id <= Len(tlc[n])
    BY <2>1
  <2> QED BY <1>2, <1>3, <2>2
<1> QED BY <1>1, <1>2, <1>3, <1>4, <1>5

LEMMA NextRoundOrder ==
  ASSUME Types, RoundInv, OrderInv, NEW n \in Node, NextRound(n)
  PROVE  OrderInv'
<1> DEFINE q == [pc |-> "start", step |-> qsc[n].step + 1, id |-> Len(tlc[n]) + 1]
<1>1. /\ RoundOver(n) /\ qsc' = [qsc EXCEPT ![n] = q] /\ clientBlock' = clientBlock
      /\ \E m : tlc' = [tlc EXCEPT ![n] = Append(@, m)]
  BY DEF NextRound
<1>2. q.pc = "start" /\ q.id = Len(tlc[n]) + 1
  OBVIOUS
<1> HIDE DEF q
<1>3. qsc'[n] = q /\ \A x \in Node \ {n} : qsc'[x] = qsc[x]
  BY <1>1 DEF Types, TypeOK
<1>4. Len(tlc'[n]) = Len(tlc[n]) + 1 /\ Len(tlc[n]) \in Nat /\ \A x \in Node \ {n} : tlc'[x] = tlc[x]
  <2>1. tlc \in [Node -> Seq(Message)]
    BY DEF Types, TypeOK
  <2>2. PICK m : tlc' = [tlc EXCEPT ![n] = Append(@, m)]
    BY <1>1
  <2>3. tlc'[n] = Append(tlc[n], m) /\ \A x \in Node \ {n} : tlc'[x] = tlc[x]
    BY <2>1, <2>2
  <2>4. Len(tlc[n]) \in Nat /\ Len(Append(tlc[n], m)) = Len(tlc[n]) + 1
    BY <2>1
  <2> QED BY <2>3, <2>4
<1>5. /\ myTime[n] \in Nat /\ myTime'[n] = myTime[n] + 1
      /\ confirmed'[n] = 1 .. myTime[n] + 1
      /\ clientBlock[n] = {} /\ Len(tlc[n]) = myTime[n] + 1
      /\ \A x \in Node \ {n} : myTime'[x] = myTime[x] /\ confirmed'[x] = confirmed[x]
  BY <1>1, RoundOverOrder
<1>6. Delivered(qsc'[n]) = 0
  BY <1>2, <1>3 DEF Delivered
<1>7. Ordered(confirmed'[n], clientBlock'[n], qsc'[n], myTime'[n], Len(tlc'[n]))
  BY <1>1, <1>2, <1>3, <1>4, <1>5, <1>6 DEF Ordered
<1> QED BY <1>1, <1>3, <1>4, <1>5, <1>7, OtherOrdered DEF OrderInv

LEMMA LastRoundOrder ==
  ASSUME Types, RoundInv, OrderInv, NEW n \in Node, Decide(n) \/ Crash(n)
  PROVE  OrderInv'
<1>1. /\ RoundOver(n) /\ clientBlock' = clientBlock /\ tlc' = tlc
      /\ \E p \in {"idle", "crashed"} : qsc' = [qsc EXCEPT ![n] = [pc |-> p]]
  BY DEF Decide, Crash
<1>2. qsc'[n].pc \in {"idle", "crashed"} /\ \A x \in Node \ {n} : qsc'[x] = qsc[x]
  BY <1>1 DEF Types, TypeOK
<1>3. /\ myTime[n] \in Nat /\ myTime'[n] = myTime[n] + 1
      /\ confirmed'[n] = 1 .. myTime[n] + 1
      /\ clientBlock[n] = {} /\ Len(tlc[n]) = myTime[n] + 1
      /\ \A x \in Node \ {n} : myTime'[x] = myTime[x] /\ confirmed'[x] = confirmed[x]
  BY <1>1, RoundOverOrder
<1>4. Delivered(qsc'[n]) = 0
  BY <1>2 DEF Delivered
<1>5. Ordered(confirmed'[n], clientBlock'[n], qsc'[n], myTime'[n], Len(tlc'[n]))
  BY <1>1, <1>2, <1>3, <1>4 DEF Ordered
<1> QED BY <1>1, <1>2, <1>3, <1>5, OtherOrdered DEF OrderInv

LEMMA NextOrder ==
  ASSUME Types, RoundInv, OrderInv, [Next]_vars, PublishedInTurn
  PROVE  OrderInv'
<1>1. ASSUME UNCHANGED <<confirmed, clientBlock, qsc, myTime, tlc>> PROVE OrderInv'
  BY <1>1 DEF OrderInv
<1>2. ASSUME NEW n \in Node, Handles(n) PROVE OrderInv'
  BY <1>1, <1>2, HandlesUnchanged
<1>3. CASE UNCHANGED vars
  BY <1>1, <1>3 DEF vars
<1> QED BY <1>2, <1>3, StepCases, PublishOrder, TakeBlockOrder, WaitOrder, ConfirmOrder,
           NextRoundOrder, LastRoundOrder

\* As many ids are below another as numbers, at most.
LEMMA FewBelow ==
  ASSUME NEW S \in SUBSET ID, NEW i \in ID
  PROVE  getMessageOriginalRound(S, i) \in Nat /\ getMessageOriginalRound(S, i) + 1 <= i
<1> DEFINE T == {k \in S : k < i}
<1>1. i \in Nat /\ i >= 1 /\ \A k \in S : k \in Nat /\ k >= 1
  BY DEF ID
<1>2. T \subseteq 1 .. i - 1
  <2>1. ASSUME NEW k \in T PROVE k \in 1 .. i - 1
    <3>1. k \in Nat /\ k >= 1 /\ k < i
      BY <1>1
    <3> HIDE DEF T
    <3> QED BY <1>1, <3>1
  <2> QED BY <2>1
<1>3. IsFiniteSet(1 .. i - 1) /\ Cardinality(1 .. i - 1) = i - 1
  BY <1>1, FS_Interval
<1> HIDE DEF T
<1>4. Cardinality(T) \in Nat /\ Cardinality(T) <= i - 1
  BY <1>1, <1>2, <1>3, FS_Subset, FS_CardinalityType
<1>5. getMessageOriginalRound(S, i) = Cardinality(T)
  BY DEF getMessageOriginalRound, T
<1> QED BY <1>1, <1>4, <1>5

LEMMA NextLate ==
  ASSUME Types, RoundInv, OrderInv, LateInv, [Next]_vars
  PROVE  LateInv'
<1>1. ASSUME UNCHANGED <<confirmations, saving>> PROVE LateInv'
  BY <1>1 DEF LateInv
<1>2. ASSUME NEW n \in Node, Confirm(n) PROVE LateInv'
  <2> DEFINE c == [round |-> myTime[n], origin |-> n, id |-> qsc[n].id]
  <2>1. confirmations' = [confirmations EXCEPT ![n] = Put(@, c)] /\ saving' = saving
    BY <1>2 DEF Confirm
  <2>2. c.round + 1 <= c.id
    <3>1. qsc[n].id = myTime[n] + 1 /\ myTime[n] \in Nat
      BY <1>2, ConfirmChanges DEF OrderInv, Ordered, Types, TypeOK
    <3> QED BY <3>1
  <2> HIDE DEF c
  <2>3. \A x \in Node : \A k \in confirmations'[x] : k \in confirmations[x] \/ k = c
    BY <2>1 DEF Put, Types, TypeOK
  <2> QED BY <2>1, <2>2, <2>3 DEF LateInv
<1>3. ASSUME NEW n \in Node, NEW o \in Node, NEW i \in DOMAIN tlc[o], HandleConfirmed(n, o, i)
      PROVE  LateInv'
  <2> DEFINE c == [round |-> RoundOf(n, o, i), origin |-> o, id |-> i]
             C == {x \in {c} : x.round >= myTime[n]}
  <2>1. saving' = [saving EXCEPT ![n] = C] /\ confirmations' = confirmations
    BY <1>3 DEF HandleConfirmed
  <2>2. c.round + 1 <= c.id /\ C \subseteq {c}
    <3>1. i \in ID /\ tlcStatus[n][o] \in SUBSET ID
      BY IdsOfMessages DEF Types, TypeOK
    <3>2. RoundOf(n, o, i) + 1 <= i
      BY <3>1, FewBelow DEF RoundOf
    <3> QED BY <3>2
  <2> HIDE DEF c, C
  <2>3. \A x \in Node : \A k \in saving'[x] : k \in saving[x] \/ k = c
    BY <2>1, <2>2 DEF Types, TypeOK
  <2> QED BY <2>1, <2>2, <2>3 DEF LateInv
<1>4. ASSUME NEW n \in Node, NEW c \in saving[n], SaveConfirmation(n, c) PROVE LateInv'
  <2>1. /\ confirmations' = [confirmations EXCEPT ![n] = Put(@, c)]
        /\ saving' = [saving EXCEPT ![n] = {}]
    BY <1>4 DEF SaveConfirmation
  <2>2. \A x \in Node : confirmations'[x] \cup saving'[x] \subseteq confirmations[x] \cup saving[x]
    BY <2>1 DEF Put, Types, TypeOK
  <2> QED BY <2>2 DEF LateInv
<1>5. ASSUME NEW n \in Node, Handles(n) PROVE LateInv'
  <2>1. ASSUME NEW o \in Hears[n], NEW i \in DOMAIN tlc[o],
               HandleUnconfirmed(n, o, i) \/ HandleConfirmed(n, o, i)
        PROVE  LateInv'
    <3>1. o \in Node
      BY ConsensusAssumption
    <3>2. CASE HandleUnconfirmed(n, o, i)
      BY <1>1, <3>2 DEF HandleUnconfirmed
    <3> QED BY <1>3, <2>1, <3>1, <3>2
  <2>2. ASSUME NEW c \in acking[n], Acknowledge(n, c) PROVE LateInv'
    BY <1>1, <2>2 DEF Acknowledge
  <2> QED BY <1>4, <1>5, <2>1, <2>2 DEF Handles
<1>6. ASSUME NEW n \in Node,
             \/ Publish(n) \/ (\E i \in clientBlock[n] : TakeBlock(n, i)) \/ Wait(n)
             \/ NextRound(n) \/ Decide(n) \/ Crash(n)
      PROVE  UNCHANGED <<confirmations, saving>>
  BY <1>6 DEF Publish, TakeBlock, Wait, NextRound, Decide, Crash, kept
<1>7. CASE UNCHANGED vars
  BY <1>1, <1>7 DEF vars, kept
<1> QED BY <1>1, <1>2, <1>5, <1>6, <1>7, StepCases

\* What everyone has confirmed when one of two nodes ends its round.
LEMMA BothConfirmed ==
  ASSUME AtMostTwo, Types, OrderInv, LateInv, KeptConfirmed,
         NEW n \in Node, RoundOver(n), NEW o \in Node
  PROVE  1 .. myTime[n] + 1 \subseteq confirmed[o]
<1>1. Origins(Of(confirmations[n], myTime[n])) = Node
  BY KeptOrigins, MajorityIsAll DEF RoundOver
<1>2. PICK c \in confirmations[n] : c.round = myTime[n] /\ c.origin = o
  BY <1>1 DEF Origins, Of
<1>3. c.round + 1 <= c.id /\ c.id \in confirmed[o] /\ c.id \in Nat
  <2>1. c \in Saved
    BY DEF Types, TypeOK
  <2> QED BY <1>2, <2>1 DEF LateInv, KeptConfirmed, Saved, ID
<1>4. confirmed[o] = 1 .. myTime[o] + Delivered(qsc[o])
  BY DEF OrderInv, Ordered
<1>5. myTime[o] + Delivered(qsc[o]) \in Nat /\ myTime[n] \in Nat
  BY DEF Types, TypeOK, Delivered
<1> DEFINE top == myTime[o] + Delivered(qsc[o])
<1> HIDE DEF top
<1>6. confirmed[o] = 1 .. top /\ top \in Nat
  BY <1>4, <1>5 DEF top
<1> QED BY <1>2, <1>3, <1>5, <1>6

\* The end of a round confirms nothing that was not confirmed.
LEMMA RoundKeepsConfirmed ==
  ASSUME AtMostTwo, Types, RoundInv, OrderInv, LateInv, KeptConfirmed,
         NEW n \in Node, RoundOver(n), NEW o \in Node
  PROVE  confirmed'[o] = confirmed[o]
<1>1. CASE n = o
  <2>1. confirmed'[o] = 1 .. myTime[o] + 1 /\ confirmed'[o] = confirmed[o] \cup {qsc[o].id}
    BY <1>1, RoundOverOrder, RoundOverChanges
  <2>2. 1 .. myTime[o] + 1 \subseteq confirmed[o]
    BY <1>1, BothConfirmed
  <2> QED BY <2>1, <2>2
<1>2. CASE n # o
  BY <1>2, RoundOverChanges
<1> QED BY <1>1, <1>2

-----------------------------------------------------------------------------
(* What two nodes know of each other. *)

\* n has acknowledged message i of o, or is about to.
Acked(n, o, i) ==
  \/ [from |-> n, to |-> o, id |-> i] \in acks
  \/ \E c \in acking[n] : c.origin = o /\ c.id = i

\* Messages are acknowledged before they are confirmed, and confirmed by the
\* other before a node goes on.
MutualInv ==
  \A n \in Node : \A o \in Node \ {n} :
    /\ 1 .. myTime[n] \subseteq confirmed[o]
    /\ \A i \in confirmed[o] : Acked(n, o, i)

\* Messages that are acknowledged exist.
AckedSent == \A n, o \in Node : \A i : Acked(n, o, i) => i \in DOMAIN tlc[o]

\* How the acks change.
LEMMA AcksChange ==
  ASSUME [Next]_vars
  PROVE  \/ UNCHANGED <<acks, acking>>
         \/ \E n \in Node : \E o \in Node : \E i \in DOMAIN tlc[o] : HandleUnconfirmed(n, o, i)
         \/ \E n \in Node : \E c \in acking[n] : Acknowledge(n, c)
<1>1. ASSUME NEW n \in Node,
             \/ Publish(n) \/ (\E i \in clientBlock[n] : TakeBlock(n, i)) \/ Wait(n) \/ Confirm(n)
             \/ NextRound(n) \/ Decide(n) \/ Crash(n)
      PROVE  UNCHANGED <<acks, acking>>
  BY <1>1 DEF Publish, TakeBlock, Wait, Confirm, NextRound, Decide, Crash, kept
<1>2. ASSUME NEW n \in Node, Handles(n)
      PROVE  \/ UNCHANGED <<acks, acking>>
             \/ \E o \in Node : \E i \in DOMAIN tlc[o] : HandleUnconfirmed(n, o, i)
             \/ \E c \in acking[n] : Acknowledge(n, c)
  <2>1. \A o \in Hears[n] : o \in Node
    BY ConsensusAssumption
  <2>2. \A o, i : HandleConfirmed(n, o, i) => UNCHANGED <<acks, acking>>
    BY DEF HandleConfirmed
  <2>3. \A c : SaveConfirmation(n, c) => UNCHANGED <<acks, acking>>
    BY DEF SaveConfirmation
  <2> QED BY <1>2, <2>1, <2>2, <2>3 DEF Handles
<1>3. UNCHANGED vars => UNCHANGED <<acks, acking>>
  BY DEF vars, kept
<1> QED BY <1>1, <1>2, <1>3, StepCases

\* An ack is that of the message handled, or an old one: between its tests and
\* its ack nothing else is acknowledged by the node.
LEMMA AcksGrow ==
  ASSUME Types, [Next]_vars, NEW n \in Node, NEW o, NEW i
  PROVE  /\ Acked(n, o, i) => Acked(n, o, i)'
         /\ Acked(n, o, i)' /\ ~Acked(n, o, i) =>
              o \in Node /\ i \in DOMAIN tlc[o] /\ HandleUnconfirmed(n, o, i)
<1>1. CASE UNCHANGED <<acks, acking>>
  BY <1>1 DEF Acked
<1>2. ASSUME NEW m \in Node, NEW p \in Node, NEW j \in DOMAIN tlc[p], HandleUnconfirmed(m, p, j)
      PROVE  /\ Acked(n, o, i) => Acked(n, o, i)'
             /\ Acked(n, o, i)' /\ ~Acked(n, o, i) => n = m /\ o = p /\ i = j
  <2> DEFINE c == [round |-> RoundOf(m, p, j), origin |-> p, id |-> j]
  <2>1. acks' = acks /\ acking[m] = {} /\ acking' = [acking EXCEPT ![m] = {c}]
    BY <1>2 DEF HandleUnconfirmed, Ready
  <2>2. c.origin = p /\ c.id = j
    OBVIOUS
  <2> HIDE DEF c
  <2>3. acking'[n] = IF n = m THEN {c} ELSE acking[n]
    BY <2>1 DEF Types, TypeOK
  <2> QED BY <2>1, <2>2, <2>3 DEF Acked
<1>3. ASSUME NEW m \in Node, NEW c \in acking[m], Acknowledge(m, c)
      PROVE  Acked(n, o, i)' <=> Acked(n, o, i)
  <2> DEFINE k == [from |-> m, to |-> c.origin, id |-> c.id]
  <2>1. acks' = acks \cup {k} /\ acking' = [acking EXCEPT ![m] = @ \ {c}]
    BY <1>3 DEF Acknowledge
  <2>2. acking'[n] = IF n = m THEN acking[n] \ {c} ELSE acking[n]
    BY <2>1 DEF Types, TypeOK
  <2> QED BY <1>3, <2>1, <2>2 DEF Acked
<1> QED BY <1>1, <1>2, <1>3, AcksChange

LEMMA NextAckedSent ==
  ASSUME Types, AckedSent, [Next]_vars
  PROVE  AckedSent'
<1>1. ASSUME NEW n \in Node, NEW o \in Node, NEW i, Acked(n, o, i)' PROVE i \in DOMAIN tlc[o]
  BY <1>1, AcksGrow DEF AckedSent
<1>2. \A o \in Node : \A i \in DOMAIN tlc[o] : i \in DOMAIN tlc'[o]
  BY SentStays
<1> QED BY <1>1, <1>2 DEF AckedSent, Acked

\* A message that is confirmed was acknowledged by the other.
LEMMA ConfirmAcked ==
  ASSUME AtMostTwo, Types, NEW o \in Node, Confirm(o), NEW n \in Node \ {o}
  PROVE  Acked(n, o, qsc[o].id)
<1> DEFINE S == {o} \cup {k.from : k \in {x \in acks : x.to = o /\ x.id = qsc[o].id}}
<1>1. Majority(S)
  BY DEF Confirm
<1>2. \A k \in acks : k \in Ack
  BY DEF Types, TypeOK
<1>3. S \in SUBSET Node
  BY <1>2 DEF Ack
<1>4. n \in S
  <2> HIDE DEF S
  <2> QED BY <1>1, <1>3, MajorityIsAll
<1>5. PICK k \in acks : k.to = o /\ k.id = qsc[o].id /\ k.from = n
  BY <1>4
<1>6. k = [from |-> n, to |-> o, id |-> qsc[o].id]
  BY <1>2, <1>5 DEF Ack
<1> QED BY <1>5, <1>6 DEF Acked

LEMMA NextMutual ==
  ASSUME AtMostTwo, Types, RoundInv, OrderInv, LateInv, KeptConfirmed, MutualInv, [Next]_vars
  PROVE  MutualInv'
<1> SUFFICES ASSUME NEW n \in Node, NEW o \in Node \ {n}
             PROVE  1 .. myTime'[n] \subseteq confirmed'[o] /\ \A i \in confirmed'[o] : Acked(n, o, i)'
  BY DEF MutualInv, Acked
<1>1. confirmed[o] \subseteq confirmed'[o]
  BY ConfirmedGrows
<1>2. 1 .. myTime'[n] \subseteq confirmed'[o]
  <2>1. CASE myTime'[n] = myTime[n]
    BY <1>1, <2>1 DEF MutualInv
  <2>2. CASE myTime'[n] # myTime[n]
    <3>1. RoundOver(n) /\ myTime'[n] = myTime[n] + 1
      BY <2>2, WhoseRound
    <3>2. 1 .. myTime[n] + 1 \subseteq confirmed[o]
      BY <3>1, BothConfirmed
    <3> QED BY <1>1, <3>1, <3>2
  <2> QED BY <2>1, <2>2
<1>3. ASSUME NEW i \in confirmed'[o] PROVE Acked(n, o, i)'
  <2>1. CASE i \in confirmed[o]
    BY <2>1, AcksGrow DEF MutualInv
  <2>2. CASE i \notin confirmed[o]
    <3>1. ASSUME NEW x \in Node, NextRound(x) \/ Decide(x) \/ Crash(x) PROVE confirmed'[o] = confirmed[o]
      BY <3>1, RoundKeepsConfirmed DEF NextRound, Decide, Crash
    <3>2. ASSUME NEW x \in Node,
                 \/ Publish(x) \/ (\E j \in clientBlock[x] : TakeBlock(x, j)) \/ Wait(x) \/ Handles(x)
          PROVE  confirmed' = confirmed
      BY <3>2, HandlesUnchanged DEF Publish, TakeBlock, Wait
    <3>3. UNCHANGED vars => confirmed' = confirmed
      BY DEF vars
    <3>4. PICK x \in Node : Confirm(x)
      BY <2>2, <3>1, <3>2, <3>3, StepCases
    <3>5. x = o /\ i = qsc[o].id
      BY <2>2, <3>4, ConfirmChanges
    <3>6. Acked(n, o, i)
      BY <3>4, <3>5, ConfirmAcked
    <3> QED BY <3>6, AcksGrow
  <2> QED BY <2>1, <2>2
<1> QED BY <1>2, <1>3

-----------------------------------------------------------------------------
(* The consensus that a node is in, and the last block it knows. *)

\* The round in which the consensus of n began; Base(n) + 1 is the id of the
\* block of its client.
Base(n) == myTime[n] - StepOf(qsc[n])
Live(n) == qsc[n].pc # "crashed"

LEMMA BaseIs ==
  ASSUME Types, TurnInv, NEW n \in Node
  PROVE  /\ Base(n) \in Nat /\ Base(n) % 3 = 0
         /\ StepOf(qsc[n]) \in 0 .. 2 /\ myTime[n] = Base(n) + StepOf(qsc[n])
<1>1. myTime[n] \in Nat /\ StepOf(qsc[n]) \in 0 .. 2 /\ myTime[n] % 3 = StepOf(qsc[n])
  BY QSCFields DEF Types, TypeOK, StepOf, TurnInv
<1> DEFINE s == StepOf(qsc[n])
           t == myTime[n]
<1>2. Base(n) = t - s
  BY DEF Base
<1>3. t \in Nat /\ s \in 0 .. 2 /\ t % 3 = s
  BY <1>1
<1> HIDE DEF s, t
<1>4. t - s \in Nat /\ (t - s) % 3 = 0 /\ t = (t - s) + s
  BY <1>3
<1> QED BY <1>2, <1>3, <1>4 DEF s, t

\* Rounds of different consensuses are apart.
LEMMA BasesApart ==
  ASSUME NEW b \in Nat, NEW d \in Nat, b % 3 = 0, d % 3 = 0
  PROVE  /\ d < b + 3 => d <= b
         /\ d <= b \/ d >= b + 3
OBVIOUS

\* A consensus begins where one ends.
LEMMA BaseChanges ==
  ASSUME Types, TurnInv, RoundInv, [Next]_vars, NEW x \in Node
  PROVE  \/ Base(x)' = Base(x) /\ (Live(x)' <=> Live(x))
         \/ /\ Decide(x) \/ Crash(x)
            /\ RoundOver(x) /\ StepOf(qsc[x]) = 2
            /\ Base(x)' = Base(x) + 3 /\ Base(x)' = myTime'[x]
            /\ Live(x)' <=> Decide(x)
<1> DEFINE Stays == Base(x)' = Base(x) /\ (Live(x)' <=> Live(x))
           Ends == /\ Decide(x) \/ Crash(x)
                   /\ RoundOver(x) /\ StepOf(qsc[x]) = 2
                   /\ Base(x)' = Base(x) + 3 /\ Base(x)' = myTime'[x]
                   /\ Live(x)' <=> Decide(x)
<1>1. myTime[x] \in Nat /\ qsc[x] \in QSCRound
  BY DEF Types, TypeOK
<1>2. ASSUME qsc'[x] = qsc[x], myTime'[x] = myTime[x] PROVE Stays
  BY <1>2 DEF Base, Live
<1>3. ASSUME NEW n \in Node, NEW i \in clientBlock[n], TakeBlock(n, i) PROVE Stays
  <2>1. /\ qsc[n].pc = "idle" /\ myTime' = myTime
        /\ qsc' = [qsc EXCEPT ![n] = [pc |-> "start", step |-> 0, id |-> i]]
    BY <1>3 DEF TakeBlock
  <2>2. qsc'[n].pc = "start" /\ qsc'[n].step = 0 /\ \A y \in Node \ {n} : qsc'[y] = qsc[y]
    BY <2>1 DEF Types, TypeOK
  <2>3. StepOf(qsc[n]) = 0 /\ StepOf(qsc'[n]) = 0
    BY <2>1, <2>2 DEF StepOf
  <2> QED BY <1>2, <2>1, <2>2, <2>3 DEF Base, Live
<1>4. ASSUME NEW n \in Node, Wait(n) PROVE Stays
  <2> DEFINE q == [pc |-> "wait", step |-> qsc[n].step, id |-> qsc[n].id, delivered |-> FALSE]
  <2>1. qsc[n].pc = "start" /\ myTime' = myTime /\ qsc' = [qsc EXCEPT ![n] = q]
    BY <1>4 DEF Wait
  <2>2. q.pc = "wait" /\ q.step = qsc[n].step
    OBVIOUS
  <2> HIDE DEF q
  <2>3. qsc'[n] = q /\ \A y \in Node \ {n} : qsc'[y] = qsc[y]
    BY <2>1 DEF Types, TypeOK
  <2>4. StepOf(qsc[n]) = StepOf(qsc'[n])
    BY <2>1, <2>2, <2>3 DEF StepOf
  <2> QED BY <1>2, <2>1, <2>2, <2>3, <2>4 DEF Base, Live
<1>5. ASSUME NEW n \in Node, Confirm(n) PROVE Stays
  <2>1. /\ qsc[n].pc = "wait" /\ qsc'[n].pc = "wait" /\ qsc'[n].step = qsc[n].step
        /\ \A y \in Node \ {n} : qsc'[y] = qsc[y]
        /\ myTime' = myTime
    BY <1>5, ConfirmChanges
  <2>2. StepOf(qsc[n]) = StepOf(qsc'[n])
    BY <2>1 DEF StepOf
  <2> QED BY <1>2, <2>1, <2>2 DEF Base, Live
<1>6. ASSUME NEW n \in Node, NextRound(n) PROVE Stays
  <2> DEFINE q == [pc |-> "start", step |-> qsc[n].step + 1, id |-> Len(tlc[n]) + 1]
  <2>1. RoundOver(n) /\ qsc[n].step < 2 /\ qsc' = [qsc EXCEPT ![n] = q]
    BY <1>6 DEF NextRound
  <2>2. q.pc = "start" /\ q.step = qsc[n].step + 1
    OBVIOUS
  <2> HIDE DEF q
  <2>3. qsc'[n] = q /\ \A y \in Node \ {n} : qsc'[y] = qsc[y]
    BY <2>1 DEF Types, TypeOK
  <2>4. /\ qsc[n].pc \in {"start", "wait"} /\ myTime'[n] = myTime[n] + 1
        /\ \A y \in Node \ {n} : myTime'[y] = myTime[y]
    BY <2>1, RoundOverChanges
  <2>5. CASE n = x
    <3>1. qsc[n].step \in 0 .. 2 /\ StepOf(qsc[n]) = qsc[n].step /\ StepOf(qsc'[n]) = qsc[n].step + 1
      BY <1>1, <2>2, <2>3, <2>4, <2>5, QSCFields DEF StepOf
    <3>2. /\ Base(x)' = myTime'[n] - StepOf(qsc'[n])
          /\ Base(x) = myTime[n] - StepOf(qsc[n])
      BY <2>5 DEF Base
    <3>3. Base(x)' = Base(x)
      <4>1. \A t \in Nat : \A k \in 0 .. 2 : (t + 1) - (k + 1) = t - k
        OBVIOUS
      <4>2. (myTime[n] + 1) - (qsc[n].step + 1) = myTime[n] - qsc[n].step
        BY <1>1, <2>5, <3>1, <4>1
      <4> QED BY <2>4, <3>1, <3>2, <4>2
    <3>4. Live(x)' /\ Live(x)
      BY <2>2, <2>3, <2>4, <2>5 DEF Live
    <3> QED BY <3>3, <3>4
  <2> QED BY <1>2, <2>3, <2>4, <2>5
<1>7. ASSUME NEW n \in Node, Decide(n) \/ Crash(n) PROVE Stays \/ Ends
  <2>1. /\ RoundOver(n) /\ qsc[n].step = 2
        /\ \/ Decide(n) /\ qsc' = [qsc EXCEPT ![n] = [pc |-> "idle"]]
           \/ Crash(n) /\ qsc' = [qsc EXCEPT ![n] = [pc |-> "crashed"]]
    BY <1>7 DEF Decide, Crash
  <2>2. /\ \A y \in Node \ {n} : qsc'[y] = qsc[y]
        /\ \/ Decide(n) /\ qsc'[n].pc = "idle"
           \/ Crash(n) /\ qsc'[n].pc = "crashed"
    BY <2>1 DEF Types, TypeOK
  <2>3. /\ qsc[n].pc \in {"start", "wait"} /\ myTime'[n] = myTime[n] + 1
        /\ \A y \in Node \ {n} : myTime'[y] = myTime[y]
    BY <2>1, RoundOverChanges
  <2>4. CASE n = x
    <3>1. StepOf(qsc[x]) = 2 /\ StepOf(qsc'[x]) = 0
      BY <2>1, <2>2, <2>3, <2>4 DEF StepOf
    <3>2. Base(x)' = myTime[x] + 1 /\ Base(x)' = myTime'[x] /\ Base(x) + 3 = myTime[x] + 1
      BY <1>1, <2>3, <2>4, <3>1 DEF Base
    <3>3. ASSUME Decide(x), Crash(x) PROVE FALSE
      BY <3>3 DEF Decide, Crash
    <3> QED BY <2>1, <2>2, <2>4, <3>1, <3>2, <3>3 DEF Live
  <2> QED BY <1>2, <2>2, <2>3, <2>4
<1>8. ASSUME NEW n \in Node, Publish(n) \/ Handles(n) PROVE qsc' = qsc /\ myTime' = myTime
  BY <1>8, HandlesUnchanged DEF Publish
<1>9. UNCHANGED vars => qsc' = qsc /\ myTime' = myTime
  BY DEF vars
<1> HIDE DEF Stays, Ends
<1>10. Stays \/ Ends
  BY <1>2, <1>3, <1>4, <1>5, <1>6, <1>7, <1>8, <1>9, StepCases
<1> QED BY <1>10 DEF Stays, Ends

\* The blocks of a chain that ends in t.
Blocks(t) == {SubSeq(t, 1, k) : k \in 1 .. Len(t)}

\* P is that of the blocks after the chain T, with a name that is not in it, that
\* a consensus has come to; t is the chain after it, with that block or not.
Outcome(T, P, t) ==
  /\ P \in Block /\ \A c \in Blocks(T) : c[Len(c)] # P[Len(P)]
  /\ t = T \/ (t = P /\ \E e \in Name \cup {NoName} : P = Append(T, e))

LEMMA BlocksOfAppend ==
  ASSUME NEW T \in Hash, NEW e \in Name \cup {NoName}
  PROVE  Blocks(Append(T, e)) = Blocks(T) \cup {Append(T, e)}
BY PrefixesOfAppend DEF Blocks, Hash

\* Two ends of a consensus: who knows what the other has come to has come to
\* the same.
LEMMA TwoOutcomes ==
  ASSUME NEW T \in Hash, NEW P, NEW Q, NEW t, NEW u,
         Outcome(T, P, t), Outcome(T, Q, u), Q \in Blocks(t)
  PROVE  Q = t /\ P = t
<1>1. Q \notin Blocks(T)
  BY DEF Outcome
<1>2. PICK e \in Name \cup {NoName} : t = P /\ P = Append(T, e)
  BY <1>1 DEF Outcome
<1>3. Blocks(t) = Blocks(T) \cup {t}
  BY <1>2, BlocksOfAppend
<1> QED BY <1>1, <1>2, <1>3

\* A block is the last one of its chain.
LEMMA LastIsBlock ==
  ASSUME NEW P \in Block
  PROVE  Len(P) \in 1 .. Len(P) /\ SubSeq(P, 1, Len(P)) = P
<1>1. P \in Seq(Name \cup {NoName}) /\ Len(P) \in Nat /\ Len(P) # 0
  BY DEF Block
<1>2. SubSeq(P, 1, Len(P)) = P
  BY <1>1, SubSeqFull
<1> QED BY <1>1, <1>2

\* What n knows: that the blocks up to P are committed at it.
Known(n, P) == \A k \in 1 .. Len(P) : SubSeq(P, 1, k) \in committedHistory[n]

\* Who acknowledges a block knows what it follows.
LEMMA ValidIsKnown ==
  ASSUME NEW n \in Node, NEW P \in Hash, NEW e, NEW b, b = Append(P, e), HistoryIsKnown(n, b)
  PROVE  Known(n, P)
<1>1. P \in Seq(Name \cup {NoName}) /\ Len(P) \in Nat /\ Len(b) = Len(P) + 1
  BY DEF Hash
<1>2. ASSUME NEW k \in 1 .. Len(P) PROVE SubSeq(b, 1, k) = SubSeq(P, 1, k)
  <2> DEFINE S == Name \cup {NoName} \cup {e}
  <2>2. P \in Seq(S) /\ <<e>> \in Seq(S) /\ e \in S
    BY <1>1
  <2> HIDE DEF S
  <2>1. b = P \o <<e>>
    BY <2>2, AppendIsConcat
  <2>3. k \in 1 .. Len(P) /\ 1 \in 1 .. Len(P)
    BY <1>1
  <2> QED BY <2>1, <2>2, <2>3, SubSeqOfConcat1
<1>3. \A k \in 1 .. Len(P) : k \in 1 .. Len(b) - 1
  BY <1>1
<1> QED BY <1>2, <1>3 DEF HistoryIsKnown, Known

\* A name that is new in a chain is there once.
LEMMA OutcomeNamesOnce ==
  ASSUME NEW T \in Hash, NEW P, NEW t, Outcome(T, P, t), \A i, j \in DOMAIN T : T[i] = T[j] => i = j
  PROVE  \A i, j \in DOMAIN t : t[i] = t[j] => i = j
<1>1. CASE t = T
  BY <1>1
<1>2. CASE t # T
  <2>1. PICK e \in Name \cup {NoName} : t = P /\ P = Append(T, e)
    BY <1>2 DEF Outcome
  <2>2. T \in Seq(Name \cup {NoName}) /\ Len(T) \in Nat /\ DOMAIN T = 1 .. Len(T)
    BY DEF Hash
  <2>3. /\ Len(t) = Len(T) + 1 /\ t[Len(t)] = e /\ \A i \in 1 .. Len(T) : t[i] = T[i]
        /\ DOMAIN t = 1 .. Len(T) + 1
    BY <2>1, <2>2
  <2>4. ASSUME NEW i \in 1 .. Len(T) PROVE T[i] # e
    <3>1. SubSeq(T, 1, i) \in Blocks(T)
      BY DEF Blocks
    <3>2. Len(SubSeq(T, 1, i)) = i /\ SubSeq(T, 1, i)[i] = T[i]
      BY <2>2
    <3>3. P[Len(P)] = e
      BY <2>1, <2>3
    <3> QED BY <3>1, <3>2, <3>3 DEF Outcome
  <2>5. \A i \in 1 .. Len(T) + 1 : i \in 1 .. Len(T) \/ i = Len(t)
    BY <2>2, <2>3
  <2> QED BY <2>2, <2>3, <2>4, <2>5
<1> QED BY <1>1, <1>2

\* A node of two has another.
LEMMA OtherNode ==
  ASSUME TwoNodes, NEW n \in Node
  PROVE  AtMostTwo /\ \E o \in Node : o # n
<1>1. AtMostTwo
  BY DEF TwoNodes, AtMostTwo
<1>2. IsFiniteSet(Node) /\ Cardinality(Node) = 2
  BY ConsensusAssumption DEF TwoNodes
<1>3. Cardinality({n}) = 1
  BY FS_Singleton
<1>4. Node # {n}
  BY <1>2, <1>3
<1> QED BY <1>1, <1>4

\* There is no third.
LEMMA TwoAreAll ==
  ASSUME TwoNodes, NEW n \in Node, NEW o \in Node, n # o, NEW x \in Node
  PROVE  x = n \/ x = o
<1>1. IsFiniteSet(Node) /\ Cardinality(Node) = 2
  BY ConsensusAssumption DEF TwoNodes
<1>2. Cardinality({n, o}) = 2
  <2>1. Cardinality({n}) = 1 /\ IsFiniteSet({n})
    BY FS_Singleton
  <2>2. {n, o} = {n} \cup {o} /\ o \notin {n}
    OBVIOUS
  <2>3. Cardinality({n} \cup {o}) = Cardinality({n}) + 1
    BY <2>1, <2>2, FS_AddElement
  <2> QED BY <2>1, <2>2, <2>3
<1>3. {n, o} = Node
  BY <1>1, <1>2, FS_Subset
<1> QED BY <1>3

-----------------------------------------------------------------------------
(* How far two nodes that wait can come apart.                               *)

\* t is the chain T, or T and one block more.
OneMore(T, t) == t = T \/ \E e \in Name \cup {NoName} : t = Append(T, e)

\* The block of the client of n follows the last one that n knows.
OwnBlock(n) ==
  Len(tlc[n]) > Base(n) => \E e \in Name : tlc[n][Base(n) + 1].block = Append(previousBlockHash[n], e)

\* What is confirmed after the first round of a consensus has a new name.
ConfirmedNew(n) == \A i \in confirmed[n] : i >= Base(n) + 2 => NameIsNew(n, tlc[n][i].block)

\* n acknowledges nothing of the consensus after its own, and only new names.
AckedNew(n, o) ==
  \A i : Acked(n, o, i) => i <= Base(n) + 3 /\ (i > Base(n) => NameIsNew(n, tlc[o][i].block))

\* Two nodes begin a consensus with the same block.
SameStart(n, o) ==
  previousBlockHash[o] = topBlockchainHash[n] /\ previousBlockHash[n] = topBlockchainHash[n]

AckedStart(n, o) == Acked(n, o, Base(n) + 1) /\ Base(o) = Base(n) => SameStart(n, o)
KnownStart(n, o) ==
  Base(o) = Base(n) /\ Live(n) /\ Live(o) /\ Known(n, previousBlockHash[o]) => SameStart(n, o)

\* The node that is ahead has one block more, or knows of one.
OneAhead(n, o) ==
  Base(o) = Base(n) + 3 =>
    /\ OneMore(topBlockchainHash[n], topBlockchainHash[o])
    /\ Live(o) => Outcome(topBlockchainHash[n], previousBlockHash[o], topBlockchainHash[o])

\* The chains of two nodes differ in their last block at most.
NearChains ==
  \A n, o \in Node : \E T \in Hash : OneMore(T, topBlockchainHash[n]) /\ OneMore(T, topBlockchainHash[o])

OwnInv == \A n \in Node : OwnBlock(n) /\ ConfirmedNew(n)
PairInv ==
  \A n \in Node : \A o \in Node \ {n} :
    AckedNew(n, o) /\ AckedStart(n, o) /\ KnownStart(n, o) /\ OneAhead(n, o)

\* What is acknowledged in the other's consensus has begun with the same block.
LEMMA SameChain ==
  ASSUME PairInv, MutualInv, NEW n \in Node, NEW o \in Node \ {n}, Base(n) = Base(o),
         Base(n) + 1 \in confirmed[n], Base(n) + 1 \in confirmed[o]
  PROVE  SameStart(n, o) /\ topBlockchainHash[n] = topBlockchainHash[o]
<1>1. Acked(n, o, Base(n) + 1) /\ Acked(o, n, Base(o) + 1)
  BY DEF MutualInv
<1>2. AckedStart(n, o) /\ AckedStart(o, n)
  BY DEF PairInv
<1> QED BY <1>1, <1>2 DEF AckedStart, SameStart

\* What is confirmed at each node, in numbers.
LEMMA ConfirmedUpTo ==
  ASSUME Types, TurnInv, OrderInv, NEW n \in Node
  PROVE  \E k \in Nat : /\ confirmed[n] = 1 .. k /\ k >= myTime[n] /\ k <= myTime[n] + 1
                        /\ k <= Base(n) + 3
                        /\ Delivered(qsc[n]) = 0 => k = myTime[n]
<1>1. /\ Base(n) \in Nat /\ StepOf(qsc[n]) \in 0 .. 2 /\ myTime[n] = Base(n) + StepOf(qsc[n])
  BY BaseIs
<1>2. confirmed[n] = 1 .. myTime[n] + Delivered(qsc[n]) /\ Delivered(qsc[n]) \in {0, 1}
  BY DEF OrderInv, Ordered, Delivered
<1>3. myTime[n] + Delivered(qsc[n]) \in Nat
  BY <1>1, <1>2
<1> DEFINE k == myTime[n] + Delivered(qsc[n])
<1>4. k >= myTime[n] /\ k <= myTime[n] + 1 /\ k <= Base(n) + 3 /\ (Delivered(qsc[n]) = 0 => k = myTime[n])
  BY <1>1, <1>2
<1>5. k \in Nat /\ confirmed[n] = 1 .. k
  BY <1>2, <1>3
<1> HIDE DEF k
<1> QED BY <1>4, <1>5

\* The rounds of two nodes are close to each other.
LEMMA OthersRound ==
  ASSUME Types, TurnInv, OrderInv, MutualInv, NEW n \in Node, NEW o \in Node \ {n}
  PROVE  /\ myTime[o] <= Base(n) + 3 /\ Base(o) <= Base(n) + 3
         /\ Delivered(qsc[n]) = 0 => myTime[o] <= myTime[n]
<1>1. PICK k \in Nat : /\ confirmed[n] = 1 .. k /\ k <= Base(n) + 3
                       /\ Delivered(qsc[n]) = 0 => k = myTime[n]
  BY ConfirmedUpTo
<1>2. 1 .. myTime[o] \subseteq 1 .. k
  BY <1>1 DEF MutualInv
<1>3. /\ Base(n) \in Nat /\ Base(o) \in Nat /\ StepOf(qsc[o]) \in 0 .. 2
      /\ myTime[o] = Base(o) + StepOf(qsc[o])
  BY BaseIs
<1>4. myTime[o] \in Nat /\ Base(o) <= myTime[o]
  BY <1>3
<1>5. myTime[o] <= k
  BY <1>2, <1>4
<1> QED BY <1>1, <1>3, <1>4, <1>5

\* Who ends a consensus has the other in it, or one ahead.
LEMMA EndTogether ==
  ASSUME AtMostTwo, Types, TurnInv, OrderInv, LateInv, KeptConfirmed, MutualInv,
         NEW o \in Node, RoundOver(o), StepOf(qsc[o]) = 2, NEW n \in Node \ {o}
  PROVE  /\ Base(n) = Base(o) \/ Base(n) = Base(o) + 3
         /\ Base(o) + 1 \in confirmed[n] /\ Base(o) + 1 \in confirmed[o]
         /\ Base(o) + 3 \in confirmed[o]
<1>1. 1 .. myTime[o] + 1 \subseteq confirmed[n] /\ 1 .. myTime[o] + 1 \subseteq confirmed[o]
  BY BothConfirmed
<1>2. Base(o) \in Nat /\ Base(o) % 3 = 0 /\ myTime[o] = Base(o) + 2
  BY BaseIs
<1>3. /\ Base(n) \in Nat /\ Base(n) % 3 = 0
  BY BaseIs
<1>4. PICK k \in Nat : confirmed[n] = 1 .. k /\ k <= Base(n) + 3
  BY ConfirmedUpTo
<1>5. 1 .. Base(o) + 3 \subseteq 1 .. k
  <2>1. myTime[o] + 1 = Base(o) + 3
    BY <1>2
  <2> QED BY <1>1, <1>4, <2>1
<1>6. Base(o) + 3 <= Base(n) + 3 /\ Base(o) + 3 >= 1
  BY <1>2, <1>3, <1>4, <1>5
<1>7. Base(n) <= Base(o) + 3
  BY OthersRound
<1>8. Base(n) < Base(o) + 3 => Base(n) <= Base(o)
  BY <1>2, <1>3, BasesApart
<1>9. Base(n) = Base(o) \/ Base(n) = Base(o) + 3
  BY <1>2, <1>3, <1>6, <1>7, <1>8
<1>10. Base(o) + 1 \in 1 .. myTime[o] + 1 /\ Base(o) + 3 \in 1 .. myTime[o] + 1
  BY <1>2
<1> QED BY <1>1, <1>9, <1>10

\* The rounds of two nodes and where their consensuses began, in numbers.
LEMMA ClosestBases ==
  ASSUME Types, TurnInv, NEW n \in Node, NEW o \in Node
  PROVE  /\ Base(n) \in Nat /\ Base(o) \in Nat /\ myTime[n] \in Nat /\ myTime[o] \in Nat
         /\ Base(o) <= myTime[o] /\ myTime[o] <= Base(o) + 2 /\ Base(n) <= myTime[n]
         /\ StepOf(qsc[o]) = 0 => myTime[o] = Base(o)
         /\ Base(o) <= Base(n) \/ Base(o) >= Base(n) + 3
         /\ Base(n) <= Base(o) \/ Base(n) >= Base(o) + 3
<1>1. /\ Base(n) \in Nat /\ Base(n) % 3 = 0 /\ Base(o) \in Nat /\ Base(o) % 3 = 0
  BY BaseIs
<1>2. /\ Base(o) <= Base(n) \/ Base(o) >= Base(n) + 3
      /\ Base(n) <= Base(o) \/ Base(n) >= Base(o) + 3
  BY <1>1, BasesApart
<1>3. /\ StepOf(qsc[o]) \in 0 .. 2 /\ myTime[o] = Base(o) + StepOf(qsc[o])
      /\ StepOf(qsc[n]) \in 0 .. 2 /\ myTime[n] = Base(n) + StepOf(qsc[n])
      /\ Base(n) \in Nat /\ Base(o) \in Nat
  BY BaseIs
<1>4. /\ myTime[n] \in Nat /\ myTime[o] \in Nat
      /\ Base(o) <= myTime[o] /\ myTime[o] <= Base(o) + 2 /\ Base(n) <= myTime[n]
      /\ StepOf(qsc[o]) = 0 => myTime[o] = Base(o)
  BY <1>3
<1> QED BY <1>2, <1>3, <1>4

\* What n has just acknowledged has a new name, is of its own consensus, and
\* begins it with the same block.
LEMMA AckIsNew ==
  ASSUME Types, TurnInv, OrderInv, MutualInv, HistoryIsChain, OwnInv, PairInv,
         NEW n \in Node, NEW o \in Node \ {n}, NEW i \in DOMAIN tlc[o], HandleUnconfirmed(n, o, i)
  PROVE  /\ i <= Base(n) + 3 /\ NameIsNew(n, tlc[o][i].block)
         /\ i = Base(n) + 1 /\ Base(o) = Base(n) => SameStart(n, o)
<1>1. Live(n) /\ NameIsNew(n, tlc[o][i].block) /\ HistoryIsKnown(n, tlc[o][i].block)
  BY DEF HandleUnconfirmed, Ready, isTxBlockValid, Live
<1>2. /\ Base(n) \in Nat /\ Base(o) \in Nat /\ myTime[o] \in Nat
      /\ Base(o) <= myTime[o] /\ myTime[o] <= Base(o) + 2
      /\ StepOf(qsc[o]) = 0 => myTime[o] = Base(o)
      /\ Base(o) <= Base(n) \/ Base(o) >= Base(n) + 3
  BY ClosestBases
<1>3. myTime[o] <= Base(n) + 3
  BY OthersRound
<1>4. i \in Nat /\ i <= Len(tlc[o]) /\ Len(tlc[o]) \in {myTime[o], myTime[o] + 1}
  <2>1. tlc[o] \in Seq(Message)
    BY DEF Types, TypeOK
  <2>2. i \in 1 .. Len(tlc[o])
    BY <2>1
  <2>3. Len(tlc[o]) \in {myTime[o], myTime[o] + 1}
    BY DEF OrderInv, Ordered
  <2> QED BY <1>3, <2>2, <2>3
<1>5. ASSUME i = Base(o) + 1, myTime[o] = Base(o)
      PROVE  Live(o) /\ Known(n, previousBlockHash[o])
  <2>1. Len(tlc[o]) = myTime[o] + 1 /\ Len(tlc[o]) > Base(o) /\ Len(tlc[o]) # myTime[o]
    BY <1>2, <1>4, <1>5
  <2>2. Live(o)
    <3>1. ASSUME qsc[o].pc = "crashed" PROVE Len(tlc[o]) = myTime[o]
      BY <3>1 DEF OrderInv, Ordered
    <3> QED BY <2>1, <3>1 DEF Live
  <2>3. PICK e \in Name : tlc[o][i].block = Append(previousBlockHash[o], e)
    BY <1>5, <2>1 DEF OwnInv, OwnBlock
  <2>4. previousBlockHash[o] \in Hash
    BY DEF Types, TypeOK
  <2> QED BY <1>1, <2>2, <2>3, <2>4, ValidIsKnown
<1>6. i <= Base(n) + 3
  <2> SUFFICES ASSUME ~(i <= Base(n) + 3) PROVE FALSE
    OBVIOUS
  <2>1. i = Base(n) + 4 /\ myTime[o] = Base(n) + 3
    BY <1>2, <1>3, <1>4
  <2>2. Base(o) = Base(n) + 3
    <3>1. Base(o) <= Base(n) + 3 /\ Base(o) + 2 >= Base(n) + 3
      BY <1>2, <2>1
    <3> QED BY <1>2, <3>1
  <2>3. Live(o) /\ Known(n, previousBlockHash[o])
    BY <1>2, <1>5, <2>1, <2>2
  <2> DEFINE P == previousBlockHash[o]
  <2>4. P \in Block /\ \A c \in Blocks(topBlockchainHash[n]) : c[Len(c)] # P[Len(P)]
    BY <2>2, <2>3 DEF PairInv, OneAhead, Outcome
  <2>5. P \in committedHistory[n]
    BY <2>3, <2>4, LastIsBlock DEF Known
  <2> QED BY <2>4, <2>5 DEF HistoryIsChain, Blocks
<1>7. ASSUME i = Base(n) + 1, Base(o) = Base(n) PROVE SameStart(n, o)
  <2>1. Len(tlc[o]) > Base(o)
    BY <1>2, <1>4, <1>7
  <2>2. Live(o) /\ Known(n, previousBlockHash[o])
    <3>1. Live(o)
      <4>1. ASSUME qsc[o].pc = "crashed" PROVE Len(tlc[o]) = myTime[o] /\ myTime[o] = Base(o)
        <5>1. Len(tlc[o]) = myTime[o] /\ StepOf(qsc[o]) = 0
          BY <4>1 DEF OrderInv, Ordered, StepOf
        <5> QED BY <1>2, <5>1
      <4> QED BY <1>2, <2>1, <4>1 DEF Live
    <3>2. PICK e \in Name : tlc[o][i].block = Append(previousBlockHash[o], e)
      BY <1>7, <2>1 DEF OwnInv, OwnBlock
    <3>3. previousBlockHash[o] \in Hash
      BY DEF Types, TypeOK
    <3> QED BY <1>1, <3>1, <3>2, <3>3, ValidIsKnown
  <2> QED BY <1>1, <1>7, <2>2 DEF PairInv, KnownStart
<1> QED BY <1>1, <1>6, <1>7

\* A message that is confirmed in a later round of its consensus has a new name.
LEMMA ConfirmIsNew ==
  ASSUME TwoNodes, Types, TurnInv, RoundInv, OrderInv, MutualInv, HistoryIsChain, OwnInv, PairInv,
         NEW o \in Node, Confirm(o), qsc[o].id >= Base(o) + 2
  PROVE  NameIsNew(o, tlc[o][qsc[o].id].block)
<1>1. AtMostTwo /\ \E n \in Node : n # o
  BY OtherNode
<1>2. PICK n \in Node : n # o
  BY <1>1
<1> DEFINE i == qsc[o].id
<1>3. i = myTime[o] + 1 /\ Delivered(qsc[o]) = 0
  <2>1. qsc[o].pc = "wait" /\ qsc[o].delivered = FALSE
    BY ConfirmChanges
  <2> QED BY <2>1 DEF OrderInv, Ordered, Delivered
<1>4. Acked(n, o, i)
  BY <1>1, <1>2, ConfirmAcked
<1>5. i <= Base(n) + 3 /\ (i > Base(n) => NameIsNew(n, tlc[o][i].block))
  BY <1>2, <1>4 DEF PairInv, AckedNew
<1>6. /\ Base(n) \in Nat /\ Base(o) \in Nat /\ myTime[n] \in Nat /\ myTime[o] \in Nat
      /\ Base(o) <= myTime[o] /\ myTime[o] <= Base(o) + 2 /\ Base(n) <= myTime[n]
      /\ Base(o) <= Base(n) \/ Base(o) >= Base(n) + 3
      /\ Base(n) <= Base(o) \/ Base(n) >= Base(o) + 3
  BY ClosestBases
<1>7. myTime[n] <= myTime[o]
  BY <1>2, <1>3, OthersRound
<1> HIDE DEF i
<1>8. Base(n) = Base(o)
  <2>1. i >= Base(o) + 2
    BY DEF i
  <2> QED BY <1>3, <1>5, <1>6, <1>7, <2>1
<1>9. Base(o) + 1 \in confirmed[o] /\ Base(o) + 1 \in confirmed[n]
  <2>1. Base(o) + 1 <= myTime[o]
    <3>1. i >= Base(o) + 2
      BY DEF i
    <3> QED BY <1>3, <1>6, <3>1
  <2>2. Base(o) + 1 \in 1 .. myTime[o]
    BY <1>6, <2>1
  <2>3. confirmed[o] = 1 .. myTime[o]
    <3>1. myTime[o] + 0 = myTime[o]
      BY <1>6
    <3> QED BY <1>3, <3>1 DEF OrderInv, Ordered
  <2> QED BY <1>2, <2>2, <2>3 DEF MutualInv
<1>10. topBlockchainHash[n] = topBlockchainHash[o]
  BY <1>2, <1>8, <1>9, SameChain
<1>11. NameIsNew(n, tlc[o][i].block)
  <2>1. i > Base(n)
    <3>1. i = myTime[o] + 1 /\ Base(n) <= myTime[o]
      BY <1>3, <1>6, <1>8
    <3> QED BY <1>6, <3>1
  <2> QED BY <1>5, <2>1
<1> QED BY <1>10, <1>11 DEF NameIsNew, HistoryIsChain, i

-----------------------------------------------------------------------------
(* Steps within a consensus. *)

LEMMA WithinConsensus ==
  ASSUME Types, TurnInv, RoundInv, [Next]_vars, \A n \in Node : ~Decide(n) /\ ~Crash(n)
  PROVE  /\ UNCHANGED chain
         /\ \A n \in Node : Base(n)' = Base(n) /\ (Live(n)' <=> Live(n))
<1>1. ASSUME NEW n \in Node,
             \/ Publish(n) \/ (\E i \in clientBlock[n] : TakeBlock(n, i)) \/ Wait(n) \/ Confirm(n)
             \/ NextRound(n) \/ Handles(n)
      PROVE  UNCHANGED chain
  BY <1>1, HandlesUnchanged DEF Publish, TakeBlock, Wait, Confirm, NextRound
<1>2. UNCHANGED vars => UNCHANGED chain
  BY DEF vars
<1>3. UNCHANGED chain
  BY <1>1, <1>2, StepCases
<1>4. ASSUME NEW n \in Node PROVE Base(n)' = Base(n) /\ (Live(n)' <=> Live(n))
  BY BaseChanges
<1> QED BY <1>3, <1>4

\* The block of a client is published after the last one that the node knows.
LEMMA WithinOwnBlock ==
  ASSUME Types, TurnInv, RoundInv, OrderInv, OwnInv, [Next]_vars, PublishedInTurn,
         \A n \in Node : ~Decide(n) /\ ~Crash(n), NEW n \in Node
  PROVE  OwnBlock(n)'
<1>1. previousBlockHash' = previousBlockHash /\ Base(n)' = Base(n)
  BY WithinConsensus DEF chain
<1>2. Base(n) \in Nat /\ Base(n) <= myTime[n] /\ (StepOf(qsc[n]) = 0 => myTime[n] = Base(n))
  BY ClosestBases
<1>3. tlc[n] \in Seq(Message) /\ Len(tlc[n]) \in Nat
  BY DEF Types, TypeOK
<1>4. CASE Len(tlc[n]) > Base(n)
  <2>1. Base(n) + 1 \in DOMAIN tlc[n]
    BY <1>2, <1>3, <1>4
  <2>2. tlc'[n][Base(n) + 1] = tlc[n][Base(n) + 1]
    BY <2>1, SentStays
  <2> QED BY <1>1, <1>4, <2>2 DEF OwnInv, OwnBlock
<1>5. CASE Len(tlc[n]) <= Base(n)
  <2>1. CASE tlc'[n] = tlc[n]
    BY <1>1, <1>2, <1>3, <1>5, <2>1 DEF OwnBlock
  <2>2. CASE tlc'[n] # tlc[n]
    <3>1. ASSUME NextRound(n) PROVE FALSE
      <4>1. Len(tlc[n]) = myTime[n] + 1 /\ myTime[n] \in Nat
        BY <3>1, RoundOverOrder DEF NextRound
      <4> QED BY <1>2, <1>3, <1>5, <4>1
    <3>2. ASSUME NEW x \in Node, x # n, Publish(x) \/ NextRound(x) PROVE tlc'[n] = tlc[n]
      <4>1. PICK m : tlc' = [tlc EXCEPT ![x] = Append(@, m)]
        BY <3>2 DEF Publish, NextRound
      <4> QED BY <3>2, <4>1 DEF Types, TypeOK
    <3>3. ASSUME NEW x \in Node,
                 \/ (\E i \in clientBlock[x] : TakeBlock(x, i)) \/ Wait(x) \/ Confirm(x) \/ Handles(x)
          PROVE  tlc' = tlc
      BY <3>3, HandlesUnchanged DEF TakeBlock, Wait, Confirm
    <3>4. UNCHANGED vars => tlc' = tlc
      BY DEF vars
    <3>5. Publish(n)
      BY <2>2, <3>1, <3>2, <3>3, <3>4, StepCases
    <3>6. PICK f \in Fitness[n][indexed[n] + 1] : tlc' = [tlc EXCEPT ![n] = Append(@,
            [block |-> Append(previousBlockHash[n], Files[n][indexed[n] + 1]), fitness |-> f])]
      BY <3>5 DEF Publish
    <3> DEFINE e == Files[n][indexed[n] + 1]
               m == [block |-> Append(previousBlockHash[n], e), fitness |-> f]
    <3>7. m.block = Append(previousBlockHash[n], e)
      OBVIOUS
    <3>8. e \in Name
      <4>1. indexed[n] \in Nat /\ indexed[n] < Len(Files[n]) /\ Files[n] \in Seq(Name)
        BY <3>5, ConsensusAssumption DEF Publish, Types, TypeOK
      <4>2. indexed[n] + 1 \in 1 .. Len(Files[n])
        BY <4>1
      <4> QED BY <4>1, <4>2
    <3>9. tlc' = [tlc EXCEPT ![n] = Append(@, m)]
      BY <3>6
    <3> HIDE DEF m, e
    <3>10. tlc'[n] = Append(tlc[n], m)
      BY <3>9 DEF Types, TypeOK
    <3>11. Len(tlc[n]) = Base(n)
      <4>1. indexed'[n] # indexed[n]
        BY <3>5 DEF Publish, Types, TypeOK
      <4>2. qsc[n].pc = "idle" /\ clientBlock[n] = {}
        BY <4>1 DEF PublishedInTurn
      <4>3. Len(tlc[n]) = myTime[n] /\ StepOf(qsc[n]) = 0
        BY <4>2 DEF OrderInv, Ordered, StepOf
      <4> QED BY <1>2, <4>3
    <3>12. tlc'[n][Base(n) + 1] = m
      BY <1>3, <3>10, <3>11
    <3> QED BY <1>1, <3>7, <3>8, <3>12 DEF OwnBlock
  <2> QED BY <2>1, <2>2
<1> QED BY <1>2, <1>3, <1>4, <1>5

LEMMA WithinConfirmed ==
  ASSUME TwoNodes, Types, TurnInv, RoundInv, OrderInv, LateInv, KeptConfirmed, MutualInv,
         HistoryIsChain, OwnInv, PairInv, [Next]_vars,
         \A n \in Node : ~Decide(n) /\ ~Crash(n), NEW n \in Node
  PROVE  ConfirmedNew(n)'
<1>1. committedHistory' = committedHistory /\ Base(n)' = Base(n)
  BY WithinConsensus DEF chain
<1>2. ASSUME NEW i \in confirmed'[n], i >= Base(n) + 2
      PROVE  i \in DOMAIN tlc[n] /\ NameIsNew(n, tlc[n][i].block)
  <2>1. CASE i \in confirmed[n]
    BY <1>2, <2>1 DEF OwnInv, ConfirmedNew, Types, SentIds
  <2>2. CASE i \notin confirmed[n]
    <3>1. ASSUME NEW x \in Node, NextRound(x) PROVE confirmed'[n] = confirmed[n]
      BY <3>1, RoundKeepsConfirmed, OtherNode DEF NextRound
    <3>2. ASSUME NEW x \in Node,
                 \/ Publish(x) \/ (\E j \in clientBlock[x] : TakeBlock(x, j)) \/ Wait(x) \/ Handles(x)
          PROVE  confirmed' = confirmed
      BY <3>2, HandlesUnchanged DEF Publish, TakeBlock, Wait
    <3>3. UNCHANGED vars => confirmed' = confirmed
      BY DEF vars
    <3>4. PICK x \in Node : Confirm(x)
      BY <2>2, <3>1, <3>2, <3>3, StepCases
    <3>5. x = n /\ i = qsc[n].id
      BY <2>2, <3>4, ConfirmChanges
    <3>6. NameIsNew(n, tlc[n][i].block)
      BY <1>2, <3>4, <3>5, ConfirmIsNew
    <3>7. qsc[n].pc = "wait"
      BY <3>4, <3>5 DEF Confirm
    <3> QED BY <3>5, <3>6, <3>7 DEF Types, SentIds
  <2> QED BY <2>1, <2>2
<1>3. \A i \in DOMAIN tlc[n] : tlc'[n][i] = tlc[n][i]
  BY SentStays
<1> QED BY <1>1, <1>2, <1>3 DEF ConfirmedNew, NameIsNew

LEMMA WithinPair ==
  ASSUME Types, TurnInv, RoundInv, OrderInv, MutualInv, AckedSent, HistoryIsChain, OwnInv, PairInv,
         [Next]_vars, \A n \in Node : ~Decide(n) /\ ~Crash(n), NEW n \in Node, NEW o \in Node \ {n}
  PROVE  AckedNew(n, o)' /\ AckedStart(n, o)' /\ KnownStart(n, o)' /\ OneAhead(n, o)'
<1>1. /\ committedHistory' = committedHistory /\ topBlockchainHash' = topBlockchainHash
      /\ previousBlockHash' = previousBlockHash
      /\ Base(n)' = Base(n) /\ (Live(n)' <=> Live(n)) /\ Base(o)' = Base(o) /\ (Live(o)' <=> Live(o))
  BY WithinConsensus DEF chain
<1>2. KnownStart(n, o)' /\ OneAhead(n, o)'
  BY <1>1 DEF PairInv, KnownStart, OneAhead, SameStart, Known
<1>3. ASSUME NEW i, Acked(n, o, i)'
      PROVE  /\ i \in DOMAIN tlc[o]
             /\ i <= Base(n) + 3 /\ (i > Base(n) => NameIsNew(n, tlc[o][i].block))
             /\ i = Base(n) + 1 /\ Base(o) = Base(n) => SameStart(n, o)
  <2>1. CASE Acked(n, o, i)
    BY <2>1 DEF PairInv, AckedNew, AckedStart, AckedSent
  <2>2. CASE ~Acked(n, o, i)
    <3>1. i \in DOMAIN tlc[o] /\ HandleUnconfirmed(n, o, i)
      BY <1>3, <2>2, AcksGrow
    <3> QED BY <3>1, AckIsNew
  <2> QED BY <2>1, <2>2
<1>4. \A i \in DOMAIN tlc[o] : tlc'[o][i] = tlc[o][i]
  BY SentStays
<1>5. AckedNew(n, o)'
  BY <1>1, <1>3, <1>4 DEF AckedNew, NameIsNew, Acked
<1>6. AckedStart(n, o)'
  <2>1. SameStart(n, o)' <=> SameStart(n, o)
    BY <1>1 DEF SameStart
  <2> QED BY <1>1, <1>3, <2>1 DEF AckedStart, Acked
<1> QED BY <1>2, <1>5, <1>6

-----------------------------------------------------------------------------
(* The end of a consensus. *)

LEMMA EndChanges ==
  ASSUME Types, TurnInv, RoundInv, NEW o \in Node, Decide(o) \/ Crash(o)
  PROVE  /\ RoundOver(o) /\ StepOf(qsc[o]) = 2
         /\ tlc' = tlc /\ UNCHANGED <<acks, acking>>
         /\ Base(o)' = Base(o) + 3 /\ (Live(o)' <=> Decide(o))
         /\ Crash(o) => UNCHANGED chain
         /\ \A n \in Node \ {o} :
              /\ Base(n)' = Base(n) /\ (Live(n)' <=> Live(n)) /\ confirmed'[n] = confirmed[n]
              /\ committedHistory'[n] = committedHistory[n]
              /\ topBlockchainHash'[n] = topBlockchainHash[n]
              /\ previousBlockHash'[n] = previousBlockHash[n]
<1>1. RoundOver(o) /\ StepOf(qsc[o]) = 2 /\ tlc' = tlc /\ UNCHANGED <<acks, acking>>
  <2>1. RoundOver(o) /\ qsc[o].step = 2 /\ tlc' = tlc /\ UNCHANGED <<acks, acking>>
    BY DEF Decide, Crash, kept
  <2>2. qsc[o].pc \in {"start", "wait"}
    BY <2>1 DEF RoundOver
  <2> QED BY <2>1, <2>2 DEF StepOf
<1>2. [Next]_vars
  BY DEF Next, QSCStep
<1>3. myTime[o] \in Nat /\ myTime'[o] = myTime[o] + 1
  BY <1>1, RoundOverChanges DEF Types, TypeOK
<1>4. Base(o)' = Base(o) + 3 /\ (Live(o)' <=> Decide(o))
  <2>1. Decide(o) \/ Crash(o)
    OBVIOUS
  <2>2. qsc' # qsc
    <3>1. qsc[o].pc \in {"start", "wait"}
      BY <1>1, RoundOverChanges
    <3>2. qsc'[o].pc \in {"idle", "crashed"}
      BY DEF Decide, Crash, Types, TypeOK
    <3> QED BY <3>1, <3>2
  <2>3. qsc'[o].pc \in {"idle", "crashed"} /\ StepOf(qsc'[o]) = 0
    BY DEF Decide, Crash, Types, TypeOK, StepOf
  <2>4. Base(o)' # Base(o)
    <3>1. Base(o) = myTime[o] - 2 /\ Base(o)' = myTime'[o] - 0
      BY <1>1, <2>3 DEF Base
    <3> QED BY <1>3, <3>1
  <2> QED BY <1>2, <2>4, BaseChanges
<1>5. Crash(o) => UNCHANGED chain
  BY DEF Crash
<1>6. ASSUME NEW n \in Node \ {o}
      PROVE  /\ Base(n)' = Base(n) /\ (Live(n)' <=> Live(n)) /\ confirmed'[n] = confirmed[n]
             /\ committedHistory'[n] = committedHistory[n]
             /\ topBlockchainHash'[n] = topBlockchainHash[n]
             /\ previousBlockHash'[n] = previousBlockHash[n]
  <2>1. qsc'[n] = qsc[n]
    BY DEF Decide, Crash, Types, TypeOK
  <2>2. myTime'[n] = myTime[n] /\ confirmed'[n] = confirmed[n]
    BY <1>1, RoundOverChanges
  <2>3. /\ committedHistory'[n] = committedHistory[n]
        /\ topBlockchainHash'[n] = topBlockchainHash[n]
        /\ previousBlockHash'[n] = previousBlockHash[n]
    BY <1>5 DEF Decide, Commit, chain, Types, TypeOK
  <2> QED BY <2>1, <2>2, <2>3 DEF Base, Live
<1> QED BY <1>1, <1>4, <1>5, <1>6

\* What is confirmed in the later rounds of a consensus has a name that is new
\* to the nodes which are in it.
LEMMA KeptIsNew ==
  ASSUME Types, LateInv, KeptConfirmed, MutualInv, OwnInv, PairInv,
         NEW o \in Node, Base(o) \in Nat, NEW m \in Messages(Of(confirmations[o], Base(o) + 1))
  PROVE  NameIsNew(o, m.block)
<1>1. PICK c \in confirmations[o] : c.round = Base(o) + 1 /\ m = tlc[c.origin][c.id]
  BY DEF Messages, Of
<1>2. c.origin \in Node /\ c.id \in Nat /\ c.round + 1 <= c.id /\ c.id \in confirmed[c.origin]
  BY DEF Types, TypeOK, Saved, ID, LateInv, KeptConfirmed
<1>3. c.id >= Base(o) + 2
  BY <1>1, <1>2
<1>4. CASE c.origin = o
  BY <1>1, <1>2, <1>3, <1>4 DEF OwnInv, ConfirmedNew
<1>5. CASE c.origin # o
  <2>1. Acked(o, c.origin, c.id)
    BY <1>2, <1>5 DEF MutualInv
  <2>2. c.id > Base(o)
    BY <1>2, <1>3
  <2> QED BY <1>1, <1>2, <1>5, <2>1, <2>2 DEF PairInv, AckedNew
<1> QED BY <1>4, <1>5

LEMMA DecideOutcome ==
  ASSUME AtMostTwo, Types, TurnInv, RoundInv, OrderInv, LateInv, KeptConfirmed, MutualInv,
         HistoryIsChain, OwnInv, PairInv, NEW o \in Node, Decide(o)
  PROVE  Outcome(topBlockchainHash[o], previousBlockHash'[o], topBlockchainHash'[o])
<1>1. RoundOver(o) /\ StepOf(qsc[o]) = 2
  BY EndChanges
<1>2. Base(o) \in Nat /\ myTime[o] = Base(o) + 2
  BY <1>1, BaseIs
<1>3. myTime[o] - 2 = Base(o)
  BY <1>2
<1>4. ASSUME NEW b \in Block, NameIsNew(o, b)
      PROVE  \A c \in Blocks(topBlockchainHash[o]) : c[Len(c)] # b[Len(b)]
  BY <1>4 DEF NameIsNew, HistoryIsChain, Blocks
<1>5. ASSUME NEW m \in checkIfConsensusReached(o, Base(o)), Commit(o, m)
      PROVE  Outcome(topBlockchainHash[o], previousBlockHash'[o], topBlockchainHash'[o])
  <2>1. m \in Message
    BY ConsensusOnMessage
  <2>2. NameIsNew(o, m.block)
    <3>1. PICK k \in Messages(Of(confirmations[o], Base(o) + 1)) : k.block = m.block
      BY DEF checkIfConsensusReached
    <3> QED BY <1>2, <3>1, KeptIsNew
  <2> DEFINE e == m.block[Len(m.block)]
             P == Append(topBlockchainHash[o], e)
  <2>3. m.block \in Block
    BY <2>1 DEF Message
  <2>4. e \in Name \cup {NoName} /\ topBlockchainHash[o] \in Hash
    BY <2>3, LastOfBlock DEF Types, TypeOK
  <2>5. previousBlockHash'[o] = P /\ topBlockchainHash'[o] = P
    BY <1>5 DEF Commit, Types, TypeOK
  <2>6. P \in Block /\ P[Len(P)] = e
    <3>1. P \in Block
      BY <2>4, BlockOfAppend
    <3>2. P[Len(P)] = e
      <4> HIDE DEF e
      <4> QED BY <2>4 DEF Hash
    <3> QED BY <3>1, <3>2
  <2>7. \A c \in Blocks(topBlockchainHash[o]) : c[Len(c)] # e
    BY <1>4, <2>2, <2>3
  <2> HIDE DEF e
  <2>8. \E x \in Name \cup {NoName} : P = Append(topBlockchainHash[o], x)
    BY <2>4
  <2> HIDE DEF P
  <2> QED BY <2>5, <2>6, <2>7, <2>8 DEF Outcome
<1>6. ASSUME previousBlockHash' = [previousBlockHash EXCEPT ![o] = tlc[o][qsc[o].id].block],
             topBlockchainHash' = topBlockchainHash
      PROVE  Outcome(topBlockchainHash[o], previousBlockHash'[o], topBlockchainHash'[o])
  <2> DEFINE P == tlc[o][qsc[o].id].block
  <2>1. previousBlockHash'[o] = P
    BY <1>6 DEF Types, TypeOK
  <2>2. qsc[o].id = Base(o) + 3 /\ qsc[o].id \in confirmed[o]
    <3>1. qsc[o].id = myTime[o] + 1
      BY <1>1, RoundOverOrder
    <3>2. qsc[o].id = Base(o) + 3
      BY <1>2, <3>1
    <3>3. 1 .. myTime[o] + 1 \subseteq confirmed[o] /\ myTime[o] + 1 \in 1 .. myTime[o] + 1
      BY <1>1, <1>2, BothConfirmed
    <3> QED BY <3>1, <3>2, <3>3
  <2>3. P \in Block
    <3>1. qsc[o].id \in DOMAIN tlc[o]
      BY <1>1, RoundOverTypes
    <3> QED BY <3>1, IdsOfMessages DEF Types, Message
  <2>4. NameIsNew(o, P)
    <3>1. qsc[o].id >= Base(o) + 2
      BY <1>2, <2>2
    <3> QED BY <2>2, <3>1 DEF OwnInv, ConfirmedNew
  <2> HIDE DEF P
  <2> QED BY <1>4, <1>6, <2>1, <2>3, <2>4 DEF Outcome
<1>7. \/ \E m \in checkIfConsensusReached(o, myTime[o] - 2) : Commit(o, m)
      \/ /\ previousBlockHash' = [previousBlockHash EXCEPT ![o] = tlc[o][qsc[o].id].block]
         /\ topBlockchainHash' = topBlockchainHash
  BY DEF Decide
<1> QED BY <1>3, <1>5, <1>6, <1>7

LEMMA EndOwn ==
  ASSUME AtMostTwo, Types, TurnInv, RoundInv, OrderInv, LateInv, KeptConfirmed, OwnInv,
         NEW o \in Node, Decide(o) \/ Crash(o)
  PROVE  OwnInv'
<1>1. /\ RoundOver(o) /\ StepOf(qsc[o]) = 2 /\ tlc' = tlc /\ Base(o)' = Base(o) + 3
      /\ \A n \in Node \ {o} :
           /\ Base(n)' = Base(n) /\ confirmed'[n] = confirmed[n]
           /\ committedHistory'[n] = committedHistory[n]
           /\ previousBlockHash'[n] = previousBlockHash[n]
  BY EndChanges
<1>2. ASSUME NEW n \in Node \ {o} PROVE OwnBlock(n)' /\ ConfirmedNew(n)'
  <2>1. OwnBlock(n) /\ ConfirmedNew(n)
    BY DEF OwnInv
  <2>2. OwnBlock(n)'
    BY <1>1, <2>1 DEF OwnBlock
  <2>3. \A b : NameIsNew(n, b)' <=> NameIsNew(n, b)
    BY <1>1 DEF NameIsNew
  <2>4. ConfirmedNew(n)'
    BY <1>1, <2>1, <2>3 DEF ConfirmedNew
  <2> QED BY <2>2, <2>4
<1>3. Base(o) \in Nat /\ myTime[o] = Base(o) + 2
  BY <1>1, BaseIs
<1>4. Len(tlc[o]) = Base(o) + 3 /\ confirmed'[o] = 1 .. Base(o) + 3
  <2>1. Len(tlc[o]) = myTime[o] + 1 /\ confirmed'[o] = 1 .. myTime[o] + 1
    BY <1>1, RoundOverOrder
  <2>2. myTime[o] + 1 = Base(o) + 3
    BY <1>3
  <2> QED BY <2>1, <2>2
<1>5. OwnBlock(o)'
  <2>1. ~(Len(tlc[o]) > Base(o) + 3)
    BY <1>3, <1>4
  <2> QED BY <1>1, <2>1 DEF OwnBlock
<1>6. ConfirmedNew(o)'
  <2>1. \A i \in 1 .. Base(o) + 3 : ~(i >= Base(o) + 3 + 2)
    BY <1>3
  <2> QED BY <1>1, <1>4, <2>1 DEF ConfirmedNew
<1> QED BY <1>2, <1>5, <1>6 DEF OwnInv

LEMMA OutcomeIsOneMore ==
  ASSUME NEW T, NEW P, NEW t, Outcome(T, P, t)
  PROVE  OneMore(T, t)
BY DEF Outcome, OneMore

\* What a node knows of is in its chain.
LEMMA KnownIsBlock ==
  ASSUME HistoryIsChain, NEW n \in Node, NEW P \in Block, Known(n, P)
  PROVE  P \in Blocks(topBlockchainHash[n])
<1>1. P \in committedHistory[n]
  BY LastIsBlock DEF Known
<1> QED BY <1>1 DEF HistoryIsChain, Blocks

LEMMA EndAcked ==
  ASSUME AtMostTwo, Types, TurnInv, RoundInv, OrderInv, LateInv, KeptConfirmed, MutualInv, AckedSent,
         PairInv, NEW o \in Node, Decide(o) \/ Crash(o), NEW n \in Node \ {o}
  PROVE  AckedNew(n, o)' /\ AckedNew(o, n)' /\ AckedStart(n, o)' /\ AckedStart(o, n)'
<1>1. /\ RoundOver(o) /\ StepOf(qsc[o]) = 2 /\ tlc' = tlc /\ UNCHANGED <<acks, acking>>
      /\ Base(o)' = Base(o) + 3 /\ Base(n)' = Base(n) /\ committedHistory'[n] = committedHistory[n]
  BY EndChanges
<1>2. Base(o) \in Nat /\ Base(n) \in Nat /\ myTime[o] = Base(o) + 2
  BY <1>1, BaseIs
<1>3. ASSUME NEW i, Acked(n, o, i) PROVE i \in Nat /\ i <= Base(o) + 3
  <2>1. Len(tlc[o]) = myTime[o] + 1
    BY <1>1, RoundOverOrder
  <2>2. i \in DOMAIN tlc[o] /\ tlc[o] \in Seq(Message)
    BY <1>3 DEF AckedSent, Types, TypeOK
  <2> QED BY <1>2, <2>1, <2>2
<1>4. ASSUME NEW i, Acked(o, n, i) PROVE i \in Nat /\ i <= Base(o) + 3
  <2>1. i \in DOMAIN tlc[n] /\ tlc[n] \in Seq(Message)
    BY <1>4 DEF AckedSent, Types, TypeOK
  <2>2. i <= Base(o) + 3
    BY <1>4 DEF PairInv, AckedNew
  <2> QED BY <2>1, <2>2
<1>5. AckedNew(n, o)'
  BY <1>1 DEF PairInv, AckedNew, Acked, NameIsNew
<1>6. AckedNew(o, n)'
  <2>1. \A i : Acked(o, n, i) => i <= Base(o) + 3 + 3 /\ ~(i > Base(o) + 3)
    BY <1>2, <1>4
  <2> QED BY <1>1, <2>1 DEF AckedNew, Acked
<1>7. ~Acked(n, o, Base(o) + 3 + 1) /\ ~Acked(o, n, Base(o) + 3 + 1)
  BY <1>2, <1>3, <1>4
<1>8. AckedStart(n, o)' /\ AckedStart(o, n)'
  BY <1>1, <1>7 DEF AckedStart, Acked
<1> QED BY <1>5, <1>6, <1>8

LEMMA EndPair ==
  ASSUME AtMostTwo, Types, TurnInv, RoundInv, OrderInv, LateInv, KeptConfirmed, MutualInv, AckedSent,
         HistoryIsChain, HistoryIsChain', OwnInv, PairInv, NEW o \in Node, Decide(o) \/ Crash(o),
         NEW n \in Node \ {o}
  PROVE  /\ KnownStart(n, o)' /\ KnownStart(o, n)' /\ OneAhead(n, o)' /\ OneAhead(o, n)'
         /\ OneMore(topBlockchainHash[o], topBlockchainHash'[o])
         /\ OneMore(topBlockchainHash[o], topBlockchainHash'[n])
<1> DEFINE T == topBlockchainHash[o]
           P == previousBlockHash'[o]
           t == topBlockchainHash'[o]
           Q == previousBlockHash[n]
           u == topBlockchainHash[n]
<1>1. /\ RoundOver(o) /\ StepOf(qsc[o]) = 2
      /\ Base(o)' = Base(o) + 3 /\ (Live(o)' <=> Decide(o))
      /\ Crash(o) => t = T
      /\ Base(n)' = Base(n) /\ (Live(n)' <=> Live(n)) /\ committedHistory'[n] = committedHistory[n]
      /\ topBlockchainHash'[n] = u /\ previousBlockHash'[n] = Q
  BY EndChanges DEF chain
<1>2. Decide(o) => Outcome(T, P, t)
  BY DecideOutcome
<1>3. T \in Hash
  BY DEF Types, TypeOK
<1> HIDE DEF T, P, t, Q, u
<1>4. Base(o) \in Nat /\ Base(n) \in Nat
  BY BaseIs
<1>5. /\ Base(n) = Base(o) \/ Base(n) = Base(o) + 3
      /\ Base(n) = Base(o) => u = T
  <2>1. /\ Base(n) = Base(o) \/ Base(n) = Base(o) + 3
        /\ Base(o) + 1 \in confirmed[n] /\ Base(o) + 1 \in confirmed[o]
    BY <1>1, EndTogether
  <2>2. ASSUME Base(n) = Base(o) PROVE u = T
    BY <2>1, <2>2, SameChain DEF u, T
  <2> QED BY <2>1, <2>2
<1>6. OneMore(T, t)
  <2>1. CASE Decide(o)
    BY <1>2, <2>1, OutcomeIsOneMore
  <2>2. CASE Crash(o)
    BY <1>1, <2>2 DEF OneMore
  <2> QED BY <2>1, <2>2
<1>7. Base(n) = Base(o) + 3 => OneMore(T, u) /\ (Live(n) => Outcome(T, Q, u))
  BY DEF PairInv, OneAhead, T, Q, u
<1>8. OneMore(T, u)
  BY <1>5, <1>7 DEF OneMore
<1>9. OneAhead(n, o)'
  <2>1. ASSUME Base(o) + 3 = Base(n) + 3
        PROVE  OneMore(u, t) /\ (Decide(o) => Outcome(u, P, t))
    <3>1. u = T
      BY <1>4, <1>5, <2>1
    <3> QED BY <1>2, <1>6, <3>1
  <2> QED BY <1>1, <2>1 DEF OneAhead, u, P, t
<1>10. OneAhead(o, n)'
  <2>1. Base(n) # Base(o) + 3 + 3
    BY <1>4, <1>5
  <2> QED BY <1>1, <2>1 DEF OneAhead
<1>11. ASSUME Base(o) + 3 = Base(n), Decide(o), Live(n) PROVE Outcome(T, P, t) /\ Outcome(T, Q, u)
  BY <1>2, <1>7, <1>11
<1>12. KnownStart(n, o)'
  <2>1. ASSUME Base(o) + 3 = Base(n), Decide(o), Live(n),
               \A k \in 1 .. Len(P) : SubSeq(P, 1, k) \in committedHistory'[n]
        PROVE  P = u /\ Q = u
    <3>1. Outcome(T, P, t) /\ Outcome(T, Q, u)
      BY <1>11, <2>1
    <3>2. Known(n, P)
      BY <1>1, <2>1 DEF Known
    <3>3. P \in Blocks(u)
      BY <3>1, <3>2, KnownIsBlock DEF Outcome, u
    <3> QED BY <1>3, <3>1, <3>3, TwoOutcomes
  <2> QED BY <1>1, <2>1 DEF KnownStart, SameStart, Known, P, Q, u
<1>13. KnownStart(o, n)'
  <2>1. ASSUME Base(o) + 3 = Base(n), Decide(o), Live(n),
               \A k \in 1 .. Len(Q) : SubSeq(Q, 1, k) \in committedHistory'[o]
        PROVE  Q = t /\ P = t
    <3>1. Outcome(T, P, t) /\ Outcome(T, Q, u)
      BY <1>11, <2>1
    <3>2. Q \in committedHistory'[o]
      BY <2>1, <3>1, LastIsBlock DEF Outcome
    <3>3. Q \in Blocks(t)
      BY <3>2 DEF HistoryIsChain, Blocks, t
    <3> QED BY <1>3, <3>1, <3>3, TwoOutcomes
  <2> QED BY <1>1, <2>1 DEF KnownStart, SameStart, Known, P, Q, t
<1> QED BY <1>1, <1>6, <1>8, <1>9, <1>10, <1>12, <1>13 DEF T, t, u

-----------------------------------------------------------------------------
(* Every step. *)

LEMMA NextNear ==
  ASSUME TwoNodes, Types, Types', TurnInv, RoundInv, OrderInv, LateInv, KeptConfirmed, MutualInv,
         AckedSent, HistoryIsChain, HistoryIsChain', OwnInv, PairInv, NearChains, [Next]_vars
  PROVE  NearChains'
<1>1. CASE \A n \in Node : ~Decide(n) /\ ~Crash(n)
  <2>1. topBlockchainHash' = topBlockchainHash
    BY <1>1, WithinConsensus DEF chain
  <2> QED BY <2>1 DEF NearChains
<1>2. ASSUME NEW o \in Node, Decide(o) \/ Crash(o) PROVE NearChains'
  <2>1. ASSUME NEW n \in Node \ {o}
        PROVE  /\ OneMore(topBlockchainHash[o], topBlockchainHash'[o])
               /\ OneMore(topBlockchainHash[o], topBlockchainHash'[n])
    BY <1>2, EndPair, OtherNode
  <2>2. \E n \in Node : n # o
    BY OtherNode
  <2>3. \A n \in Node : OneMore(topBlockchainHash[o], topBlockchainHash'[n])
    BY <2>1, <2>2
  <2>4. topBlockchainHash[o] \in Hash
    BY DEF Types, TypeOK
  <2> QED BY <2>3, <2>4 DEF NearChains
<1> QED BY <1>1, <1>2

LEMMA NextPair ==
  ASSUME TwoNodes, Types, TurnInv, RoundInv, OrderInv, LateInv, KeptConfirmed, MutualInv,
         AckedSent, HistoryIsChain, HistoryIsChain', OwnInv, PairInv, [Next]_vars
  PROVE  PairInv'
<1>1. CASE \A n \in Node : ~Decide(n) /\ ~Crash(n)
  BY <1>1, WithinPair DEF PairInv
<1>2. ASSUME NEW o \in Node, Decide(o) \/ Crash(o) PROVE PairInv'
  <2>1. ASSUME NEW n \in Node \ {o}
        PROVE  /\ AckedNew(n, o)' /\ AckedStart(n, o)' /\ KnownStart(n, o)' /\ OneAhead(n, o)'
               /\ AckedNew(o, n)' /\ AckedStart(o, n)' /\ KnownStart(o, n)' /\ OneAhead(o, n)'
    BY <1>2, EndAcked, EndPair, OtherNode
  <2>2. ASSUME NEW n \in Node, NEW x \in Node \ {n}, n # o PROVE x = o
    BY <2>2, TwoAreAll
  <2> QED BY <2>1, <2>2 DEF PairInv
<1> QED BY <1>1, <1>2

LEMMA NextOwn ==
  ASSUME TwoNodes, Types, TurnInv, RoundInv, OrderInv, LateInv, KeptConfirmed, MutualInv,
         HistoryIsChain, OwnInv, PairInv, [Next]_vars, PublishedInTurn
  PROVE  OwnInv'
<1>1. CASE \A n \in Node : ~Decide(n) /\ ~Crash(n)
  BY <1>1, WithinOwnBlock, WithinConfirmed DEF OwnInv
<1>2. ASSUME NEW o \in Node, Decide(o) \/ Crash(o) PROVE OwnInv'
  BY <1>2, EndOwn, OtherNode
<1> QED BY <1>1, <1>2

LEMMA NextNames ==
  ASSUME TwoNodes, Types, TurnInv, RoundInv, OrderInv, LateInv, KeptConfirmed, MutualInv,
         HistoryIsChain, OwnInv, PairInv, NamesOnce, [Next]_vars
  PROVE  NamesOnce'
<1>1. CASE \A n \in Node : ~Decide(n) /\ ~Crash(n)
  <2>1. topBlockchainHash' = topBlockchainHash
    BY <1>1, WithinConsensus DEF chain
  <2> QED BY <2>1 DEF NamesOnce
<1>2. ASSUME NEW o \in Node, Crash(o) PROVE NamesOnce'
  BY <1>2 DEF Crash, chain, NamesOnce
<1>3. ASSUME NEW o \in Node, Decide(o) PROVE NamesOnce'
  <2> DEFINE T == topBlockchainHash[o]
             P == previousBlockHash'[o]
             t == topBlockchainHash'[o]
  <2>1. Outcome(T, P, t)
    BY <1>3, DecideOutcome, OtherNode
  <2>2. T \in Seq(Name \cup {NoName})
    BY DEF Types, TypeOK, Hash
  <2>3. \A i, j \in DOMAIN T : T[i] = T[j] => i = j
    BY DEF NamesOnce
  <2>4. \A n \in Node \ {o} : topBlockchainHash'[n] = topBlockchainHash[n]
    BY <1>3, EndChanges
  <2> HIDE DEF T, P, t
  <2>5. \A i, j \in DOMAIN t : t[i] = t[j] => i = j
    BY <2>1, <2>2, <2>3, OutcomeNamesOnce DEF Hash
  <2> QED BY <2>4, <2>5 DEF NamesOnce, t
<1> QED BY <1>1, <1>2, <1>3

\* What holds of two nodes whose clients wait.
TwoInv ==
  /\ TurnInv /\ KeptConfirmed /\ OrderInv /\ LateInv
  /\ AckedSent /\ MutualInv /\ OwnInv /\ PairInv
  /\ NearChains /\ NamesOnce

LEMMA InitTwo == Init => TwoInv
<1> SUFFICES ASSUME Init PROVE TwoInv
  OBVIOUS
<1>1. TurnInv /\ KeptConfirmed /\ OrderInv /\ LateInv /\ Types
  BY InitFirst, InitOrder, InitTypes DEF FirstInv
<1>2. /\ acks = {} /\ acking = [n \in Node |-> {}]
      /\ \A n \in Node :
           /\ confirmed[n] = {} /\ tlc[n] = <<>> /\ myTime[n] = 0 /\ qsc[n].pc = "idle"
           /\ previousBlockHash[n] = <<>> /\ topBlockchainHash[n] = <<>>
  BY DEF Init
<1>3. \A n \in Node : Base(n) = 0
  BY <1>2 DEF Base, StepOf
<1>4. \A n \in Node : \A o, i : ~Acked(n, o, i)
  BY <1>2 DEF Acked
<1>5. AckedSent /\ MutualInv
  BY <1>2, <1>4 DEF AckedSent, MutualInv
<1>6. OwnInv
  BY <1>2, <1>3 DEF OwnInv, OwnBlock, ConfirmedNew
<1>7. PairInv
  BY <1>2, <1>3, <1>4 DEF PairInv, AckedNew, AckedStart, KnownStart, OneAhead, SameStart
<1>8. NearChains /\ NamesOnce
  <2>1. <<>> \in Hash
    BY DEF Hash
  <2> QED BY <1>2, <2>1 DEF NearChains, OneMore, NamesOnce
<1> QED BY <1>1, <1>5, <1>6, <1>7, <1>8 DEF TwoInv

LEMMA NextTwo ==
  ASSUME TwoNodes, RoundsInv, HistoryIsChain, TwoInv, [Next]_vars, PublishedInTurn
  PROVE  TwoInv'
<1>1. /\ Types /\ RoundInv /\ TurnInv /\ KeptConfirmed /\ OrderInv /\ LateInv
      /\ AckedSent /\ MutualInv /\ OwnInv /\ PairInv /\ NearChains /\ NamesOnce
  BY DEF TwoInv, RoundsInv
<1>2. AtMostTwo
  BY DEF TwoNodes, AtMostTwo
<1>3. Types' /\ HistoryIsChain'
  BY <1>1, StepTypes, StepChain
<1>4. TurnInv' /\ KeptConfirmed' /\ OrderInv' /\ LateInv'
  BY <1>1, NextTurn, NextKeptConfirmed, NextOrder, NextLate
<1>5. AckedSent' /\ MutualInv'
  BY <1>1, <1>2, NextAckedSent, NextMutual
<1>6. OwnInv' /\ PairInv' /\ NearChains' /\ NamesOnce'
  BY <1>1, <1>3, NextOwn, NextPair, NextNear, NextNames
<1> QED BY <1>4, <1>5, <1>6 DEF TwoInv

LEMMA TwoHold == TwoNodes => (Spec /\ [][PublishedInTurn]_vars => []TwoInv)
<1> SUFFICES ASSUME TwoNodes
             PROVE  Spec /\ [][PublishedInTurn]_vars => []TwoInv
  OBVIOUS
<1>1. RoundsInv /\ HistoryIsChain /\ TwoInv /\ [Next]_vars /\ [PublishedInTurn]_vars => TwoInv'
  <2> SUFFICES ASSUME RoundsInv, HistoryIsChain, TwoInv, [Next]_vars, [PublishedInTurn]_vars
               PROVE  TwoInv'
    OBVIOUS
  <2>1. PublishedInTurn
    BY DEF PublishedInTurn, vars
  <2> QED BY <2>1, NextTwo
<1> QED BY <1>1, InitTwo, RoundsHold, CommittedIsOneChain, PTL DEF Spec

\* Two nodes whose clients wait for the end of a consensus before they index
\* the next file ("valid, i.e. there's no other committed block with the same
\* name", qsc.go 122): no name is committed twice, whatever is lost or late and
\* however the fitness of the blocks compares.  Who acknowledges a message of a
\* later round of the consensus is in that consensus, with the same chain.
THEOREM NamesAreUnique ==
  TwoNodes => (Spec /\ [][PublishedInTurn]_vars => []NamesOnce)
<1>1. TwoInv => NamesOnce
  BY DEF TwoInv
<1> QED BY <1>1, TwoHold, PTL

\* As far as two such nodes can come apart, whatever the fitness: their chains
\* are the same but for the last block of either (checkIfConsensusReached may
\* see a consensus at one node that the other does not see).
THEOREM ChainsStayNear ==
  TwoNodes => (Spec /\ [][PublishedInTurn]_vars => []NearChains)
<1>1. TwoInv => NearChains
  BY DEF TwoInv
<1> QED BY <1>1, TwoHold, PTL

-----------------------------------------------------------------------------
(* Two nodes whose fitness is never the same: the best block wins.           *)

\* m is the best of the blocks of all clients in the consensus from round b.
Wins(m, b) ==
  /\ \A q \in Node : b + 1 \in DOMAIN tlc[q] /\ tlc[q][b + 1].fitness <= m.fitness
  /\ \E q \in Node : m = tlc[q][b + 1]

\* A message is kept under one of the two rounds before its id.
SoonInv == \A n \in Node : \A c \in confirmations[n] \cup saving[n] : c.id <= c.round + 2

\* The first message of a consensus is that of the client, and the best of all
\* is what is sent on.
StartInv ==
  \A n \in Node : \A b \in Nat :
    b % 3 = 0 /\ b + 1 \in DOMAIN tlc[n] => Drawn(n, tlc[n][b + 1])
WinInv ==
  \A n \in Node : \A b \in Nat : b % 3 = 0 =>
    \A i \in {b + 2, b + 3} : i \in DOMAIN tlc[n] => Wins(tlc[n][i], b)

\* Who is ahead has committed the best block, if any.
WonInv ==
  \A n \in Node : \A o \in Node \ {n} :
    Base(o) = Base(n) + 3 /\ topBlockchainHash[o] # topBlockchainHash[n] =>
      \E m : /\ Wins(m, Base(n))
             /\ topBlockchainHash[o] = Append(topBlockchainHash[n], m.block[Len(m.block)])

LEMMA WinsStays ==
  ASSUME Types, [Next]_vars, NEW m, NEW b, Wins(m, b)
  PROVE  Wins(m, b)'
<1>1. \A q \in Node : \A i \in DOMAIN tlc[q] : i \in DOMAIN tlc'[q] /\ tlc'[q][i] = tlc[q][i]
  BY SentStays
<1> QED BY <1>1 DEF Wins

LEMMA OneWinner ==
  ASSUME FitnessDistinct, Types, StartInv, NEW b \in Nat, b % 3 = 0,
         NEW m, NEW k, Wins(m, b), Wins(k, b)
  PROVE  m = k
<1>1. PICK q \in Node : m = tlc[q][b + 1]
  BY DEF Wins
<1>2. PICK p \in Node : k = tlc[p][b + 1]
  BY DEF Wins
<1>3. b + 1 \in DOMAIN tlc[q] /\ b + 1 \in DOMAIN tlc[p]
  BY DEF Wins
<1>4. m \in Message /\ k \in Message
  BY <1>1, <1>2, <1>3, IdsOfMessages DEF Types
<1>5. m.fitness = k.fitness
  <2>1. m.fitness <= k.fitness /\ k.fitness <= m.fitness
    BY <1>1, <1>2 DEF Wins
  <2> QED BY <1>4, <2>1 DEF Message
<1>6. Drawn(q, m) /\ Drawn(p, k)
  BY <1>1, <1>2, <1>3 DEF StartInv
<1>7. q = p
  BY <1>5, <1>6 DEF Drawn, FitnessDistinct
<1> QED BY <1>1, <1>2, <1>7

\* How a node gets a message of its own.
LEMMA NewMessage ==
  ASSUME Types, TurnInv, RoundInv, OrderInv, [Next]_vars, PublishedInTurn,
         NEW n \in Node, NEW i \in DOMAIN tlc'[n], i \notin DOMAIN tlc[n]
  PROVE  \/ i = Base(n) + 1 /\ Drawn(n, tlc'[n][i])
         \/ /\ RoundOver(n) /\ StepOf(qsc[n]) \in {0, 1} /\ i = Base(n) + StepOf(qsc[n]) + 2
            /\ tlc'[n][i] \in Highest(Messages(Of(confirmations[n], myTime[n])))
<1>1. Base(n) \in Nat /\ myTime[n] = Base(n) + StepOf(qsc[n]) /\ StepOf(qsc[n]) \in 0 .. 2
  BY BaseIs
<1>2. tlc[n] \in Seq(Message) /\ Len(tlc[n]) \in Nat
  BY DEF Types, TypeOK
<1>3. ASSUME NEW m, tlc'[n] = Append(tlc[n], m)
      PROVE  i = Len(tlc[n]) + 1 /\ tlc'[n][i] = m
  BY <1>2, <1>3
<1>4. CASE Publish(n)
  <2> DEFINE k == indexed[n] + 1
             b == Append(previousBlockHash[n], Files[n][k])
  <2>1. PICK f \in Fitness[n][k] : tlc' = [tlc EXCEPT ![n] = Append(@, [block |-> b, fitness |-> f])]
    BY <1>4 DEF Publish
  <2>2. k \in DOMAIN Fitness[n]
    <3>1. Files[n] \in Seq(Name) /\ Fitness[n] \in Seq(SUBSET Nat) /\ Len(Fitness[n]) = Len(Files[n])
      BY ConsensusAssumption
    <3>2. indexed[n] \in Nat /\ indexed[n] < Len(Files[n])
      BY <1>4 DEF Publish, Types, TypeOK
    <3> QED BY <3>1, <3>2
  <2> DEFINE m == [block |-> b, fitness |-> f]
  <2>3. Drawn(n, m)
    BY <2>1, <2>2 DEF Drawn
  <2>4. tlc' = [tlc EXCEPT ![n] = Append(@, m)]
    BY <2>1
  <2> HIDE DEF m
  <2>5. i = Len(tlc[n]) + 1 /\ tlc'[n][i] = m
    <3>1. tlc'[n] = Append(tlc[n], m)
      BY <2>4 DEF Types, TypeOK
    <3> QED BY <1>3, <3>1
  <2>6. Len(tlc[n]) = Base(n)
    <3>1. indexed'[n] # indexed[n]
      BY <1>4 DEF Publish, Types, TypeOK
    <3>2. qsc[n].pc = "idle" /\ clientBlock[n] = {}
      BY <3>1 DEF PublishedInTurn
    <3>3. Len(tlc[n]) = myTime[n] /\ StepOf(qsc[n]) = 0
      BY <3>2 DEF OrderInv, Ordered, StepOf
    <3> QED BY <1>1, <3>3
  <2> QED BY <2>3, <2>5, <2>6
<1>5. CASE NextRound(n)
  <2>1. RoundOver(n) /\ qsc[n].step < 2
    BY <1>5 DEF NextRound
  <2>2. PICK m \in Highest(Messages(Of(confirmations[n], myTime[n]))) : tlc' = [tlc EXCEPT ![n] = Append(@, m)]
    BY <1>5 DEF NextRound
  <2>3. i = Len(tlc[n]) + 1 /\ tlc'[n][i] = m
    <3>1. tlc'[n] = Append(tlc[n], m)
      BY <2>2 DEF Types, TypeOK
    <3> QED BY <1>3, <3>1
  <2>4. StepOf(qsc[n]) = qsc[n].step
    BY <2>1, RoundOverChanges DEF StepOf
  <2>5. Len(tlc[n]) = myTime[n] + 1
    BY <2>1, RoundOverOrder
  <2>6. StepOf(qsc[n]) \in {0, 1} /\ i = Base(n) + StepOf(qsc[n]) + 2
    BY <1>1, <2>1, <2>3, <2>4, <2>5
  <2> QED BY <2>1, <2>2, <2>3, <2>6
<1>6. ASSUME NEW x \in Node, x # n, Publish(x) \/ NextRound(x) PROVE tlc'[n] = tlc[n]
  <2>1. PICK m : tlc' = [tlc EXCEPT ![x] = Append(@, m)]
    BY <1>6 DEF Publish, NextRound
  <2> QED BY <1>6, <2>1 DEF Types, TypeOK
<1>7. ASSUME NEW x \in Node,
             \/ (\E j \in clientBlock[x] : TakeBlock(x, j)) \/ Wait(x) \/ Confirm(x)
             \/ Decide(x) \/ Crash(x) \/ Handles(x)
      PROVE  tlc' = tlc
  BY <1>7, HandlesUnchanged DEF TakeBlock, Wait, Confirm, Decide, Crash
<1>8. UNCHANGED vars => tlc' = tlc
  BY DEF vars
<1> QED BY <1>4, <1>5, <1>6, <1>7, <1>8, StepCases

\* Ids of one consensus and of the next.
LEMMA IdsApart ==
  ASSUME NEW b \in Nat, NEW d \in Nat, b % 3 = 0, d % 3 = 0, NEW s \in {0, 1}
  PROVE  /\ d + 1 # b + 2 /\ d + 1 # b + 3
         /\ b + 1 # d + s + 2
         /\ d + s + 2 \in {b + 2, b + 3} => b = d
OBVIOUS

LEMMA NextStart ==
  ASSUME Types, TurnInv, RoundInv, OrderInv, StartInv, [Next]_vars, PublishedInTurn
  PROVE  StartInv'
<1> SUFFICES ASSUME NEW n \in Node, NEW b \in Nat, b % 3 = 0, b + 1 \in DOMAIN tlc'[n]
             PROVE  Drawn(n, tlc'[n][b + 1])
  BY DEF StartInv, Drawn
<1>1. CASE b + 1 \in DOMAIN tlc[n]
  <2>1. tlc'[n][b + 1] = tlc[n][b + 1]
    BY <1>1, SentStays
  <2> QED BY <1>1, <2>1 DEF StartInv
<1>2. CASE b + 1 \notin DOMAIN tlc[n]
  <2>1. Base(n) \in Nat /\ Base(n) % 3 = 0
    BY BaseIs
  <2>2. ASSUME StepOf(qsc[n]) \in {0, 1} PROVE b + 1 # Base(n) + StepOf(qsc[n]) + 2
    BY <2>1, <2>2, IdsApart
  <2> QED BY <1>2, <2>2, NewMessage
<1> QED BY <1>1, <1>2

LEMMA NextSoon ==
  ASSUME AtMostTwo, Types, TurnInv, RoundInv, OrderInv, MutualInv, SoonInv, [Next]_vars
  PROVE  SoonInv'
<1>1. ASSUME UNCHANGED <<confirmations, saving>> PROVE SoonInv'
  BY <1>1 DEF SoonInv
<1>2. ASSUME NEW n \in Node, Confirm(n) PROVE SoonInv'
  <2> DEFINE c == [round |-> myTime[n], origin |-> n, id |-> qsc[n].id]
  <2>1. confirmations' = [confirmations EXCEPT ![n] = Put(@, c)] /\ saving' = saving
    BY <1>2 DEF Confirm
  <2>2. c.id <= c.round + 2
    <3>1. qsc[n].id = myTime[n] + 1 /\ myTime[n] \in Nat
      BY <1>2, ConfirmChanges DEF OrderInv, Ordered, Types, TypeOK
    <3> QED BY <3>1
  <2> HIDE DEF c
  <2>3. \A x \in Node : \A k \in confirmations'[x] : k \in confirmations[x] \/ k = c
    BY <2>1 DEF Put, Types, TypeOK
  <2> QED BY <2>1, <2>2, <2>3 DEF SoonInv
<1>3. ASSUME NEW n \in Node, NEW o \in Node, NEW i \in DOMAIN tlc[o], HandleConfirmed(n, o, i)
      PROVE  SoonInv'
  <2> DEFINE c == [round |-> RoundOf(n, o, i), origin |-> o, id |-> i]
             C == {x \in {c} : x.round >= myTime[n]}
  <2>1. saving' = [saving EXCEPT ![n] = C] /\ confirmations' = confirmations
    BY <1>3 DEF HandleConfirmed
  <2>2. C \subseteq {c} /\ \A x \in C : x.id <= x.round + 2
    <3>1. i \in ID /\ RoundOf(n, o, i) \in Nat /\ myTime[n] \in Nat /\ myTime[o] \in Nat
      BY IdsOfMessages, RoundIsNat DEF RoundOf, Types, TypeOK
    <3>2. i \in confirmed[o]
      BY <1>3 DEF HandleConfirmed
    <3>3. PICK k \in Nat : confirmed[o] = 1 .. k /\ k <= myTime[o] + 1
      BY ConfirmedUpTo
    <3>4. PICK j \in Nat : confirmed[n] = 1 .. j /\ j <= myTime[n] + 1
      BY ConfirmedUpTo
    <3>5. myTime[o] <= myTime[n] + 1
      <4>1. CASE o = n
        BY <3>1, <4>1
      <4>2. CASE o # n
        <5>1. 1 .. myTime[o] \subseteq 1 .. j
          BY <3>4, <4>2 DEF MutualInv
        <5> QED BY <3>1, <3>4, <5>1
      <4> QED BY <4>1, <4>2
    <3>6. i <= myTime[n] + 2
      BY <3>1, <3>2, <3>3, <3>5
    <3> QED BY <3>1, <3>6 DEF ID
  <2> HIDE DEF c, C
  <2>3. \A x \in Node : \A k \in saving'[x] : k \in saving[x] \/ k \in C
    BY <2>1, <2>2 DEF Types, TypeOK
  <2> QED BY <2>1, <2>2, <2>3 DEF SoonInv
<1>4. ASSUME NEW n \in Node, NEW c \in saving[n], SaveConfirmation(n, c) PROVE SoonInv'
  <2>1. /\ confirmations' = [confirmations EXCEPT ![n] = Put(@, c)]
        /\ saving' = [saving EXCEPT ![n] = {}]
    BY <1>4 DEF SaveConfirmation
  <2>2. \A x \in Node : confirmations'[x] \cup saving'[x] \subseteq confirmations[x] \cup saving[x]
    BY <2>1 DEF Put, Types, TypeOK
  <2> QED BY <2>2 DEF SoonInv
<1>5. ASSUME NEW n \in Node, Handles(n) PROVE SoonInv'
  <2>1. ASSUME NEW o \in Hears[n], NEW i \in DOMAIN tlc[o],
               HandleUnconfirmed(n, o, i) \/ HandleConfirmed(n, o, i)
        PROVE  SoonInv'
    <3>1. o \in Node
      BY ConsensusAssumption
    <3>2. CASE HandleUnconfirmed(n, o, i)
      BY <1>1, <3>2 DEF HandleUnconfirmed
    <3> QED BY <1>3, <2>1, <3>1, <3>2
  <2>2. ASSUME NEW c \in acking[n], Acknowledge(n, c) PROVE SoonInv'
    BY <1>1, <2>2 DEF Acknowledge
  <2> QED BY <1>4, <1>5, <2>1, <2>2 DEF Handles
<1>6. ASSUME NEW n \in Node,
             \/ Publish(n) \/ (\E i \in clientBlock[n] : TakeBlock(n, i)) \/ Wait(n)
             \/ NextRound(n) \/ Decide(n) \/ Crash(n)
      PROVE  UNCHANGED <<confirmations, saving>>
  BY <1>6 DEF Publish, TakeBlock, Wait, NextRound, Decide, Crash, kept
<1>7. CASE UNCHANGED vars
  BY <1>1, <1>7 DEF vars, kept
<1> QED BY <1>1, <1>2, <1>5, <1>6, <1>7, StepCases

\* A message that is kept is of one of the two rounds after the one that it is
\* kept under.
LEMMA KeptRecently ==
  ASSUME Types, LateInv, SoonInv, NEW n \in Node, NEW r \in Nat, NEW c \in Of(confirmations[n], r)
  PROVE  /\ c.origin \in Node /\ c.id \in DOMAIN tlc[c.origin]
         /\ c.id = r + 1 \/ c.id = r + 2
<1>1. c \in confirmations[n] /\ c.round = r
  BY DEF Of
<1>2. c.origin \in Node /\ c.id \in DOMAIN tlc[c.origin] /\ c.id \in Nat
  BY <1>1 DEF Types, TypeOK, KeptIds, Saved, ID
<1>3. c.round + 1 <= c.id /\ c.id <= c.round + 2
  BY <1>1 DEF LateInv, SoonInv
<1> QED BY <1>1, <1>2, <1>3

\* The best of the confirmed messages of the first or of the second round of a
\* consensus is the best of all.
LEMMA ChoiceWins ==
  ASSUME AtMostTwo, Types, ProperInv, TurnInv, LateInv, SoonInv, WinInv,
         NEW n \in Node, RoundOver(n), StepOf(qsc[n]) \in {0, 1},
         NEW m \in Highest(Messages(Of(confirmations[n], myTime[n])))
  PROVE  Wins(m, Base(n))
<1> DEFINE b == Base(n)
           C == Of(confirmations[n], myTime[n])
           M == Messages(C)
<1>1. b \in Nat /\ b % 3 = 0
  BY BaseIs
<1>2. myTime[n] \in Nat /\ (StepOf(qsc[n]) = 0 => myTime[n] = b) /\ (StepOf(qsc[n]) = 1 => myTime[n] = b + 1)
  BY BaseIs
<1>3. Majority(Origins(C)) /\ Origins(C) = Node
  BY KeptOrigins, MajorityIsAll DEF RoundOver
<1>4. m \in Message /\ m.fitness > 0
  BY <1>3, ChoiceIsProper DEF Proper
<1>5. m \in M /\ \A x \in M : x.fitness <= m.fitness
  <2>1. m \in Highest(M)
    OBVIOUS
  <2>2. m # EmptyMessage
    <3>1. EmptyMessage.fitness = 0
      BY DEF EmptyMessage
    <3> QED BY <1>4, <3>1
  <2> HIDE DEF M
  <2> QED BY <2>1, <2>2 DEF Highest
<1>6. \A c \in C : /\ c.origin \in Node /\ c.id \in DOMAIN tlc[c.origin]
                   /\ c.id = myTime[n] + 1 \/ c.id = myTime[n] + 2
  BY <1>2, KeptRecently
<1>7. \A c \in C : tlc[c.origin][c.id] \in M
  BY DEF Messages
<1>8. PICK k \in C : m = tlc[k.origin][k.id]
  BY <1>5 DEF Messages
<1>9. \A q \in Node : \E c \in C : c.origin = q
  BY <1>3 DEF Origins
<1>10. \A q \in Node : \A i \in DOMAIN tlc[q] : i = b + 2 \/ i = b + 3 => Wins(tlc[q][i], b)
  BY <1>1 DEF WinInv
<1> HIDE DEF b, C, M
<1>11. CASE StepOf(qsc[n]) = 1
  <2>1. k.id = b + 2 \/ k.id = b + 3
    BY <1>1, <1>2, <1>6, <1>11
  <2> QED BY <1>6, <1>8, <1>10, <2>1 DEF b
<1>12. CASE StepOf(qsc[n]) = 0
  <2>1. \A c \in C : c.id = b + 1 \/ c.id = b + 2
    BY <1>1, <1>2, <1>6, <1>12
  <2>2. ASSUME NEW c \in C, c.id = b + 2 PROVE Wins(m, b)
    <3> DEFINE w == tlc[c.origin][c.id]
    <3>1. Wins(w, b) /\ w.fitness <= m.fitness
      BY <1>5, <1>6, <1>7, <1>10, <2>2
    <3>2. CASE k.id = b + 2
      BY <1>6, <1>8, <1>10, <3>2
    <3>3. CASE k.id = b + 1
      <4>1. w \in Message
        BY <1>6, IdsOfMessages DEF Types
      <4>2. \A q \in Node : b + 1 \in DOMAIN tlc[q] /\ tlc[q][b + 1] \in Message
        BY <3>1, IdsOfMessages DEF Wins, Types
      <4>3. ASSUME NEW q \in Node PROVE tlc[q][b + 1].fitness <= m.fitness
        <5>1. tlc[q][b + 1].fitness <= w.fitness
          BY <3>1 DEF Wins
        <5>2. tlc[q][b + 1].fitness \in Nat /\ w.fitness \in Nat /\ m.fitness \in Nat
          BY <1>4, <4>1, <4>2 DEF Message
        <5> HIDE DEF w
        <5> QED BY <3>1, <5>1, <5>2
      <4> QED BY <1>6, <1>8, <3>3, <4>2, <4>3 DEF Wins
    <3> QED BY <2>1, <3>2, <3>3
  <2>3. CASE \A c \in C : c.id = b + 1
    <3>1. ASSUME NEW q \in Node
          PROVE  b + 1 \in DOMAIN tlc[q] /\ tlc[q][b + 1].fitness <= m.fitness
      <4>1. PICK c \in C : c.origin = q
        BY <1>9
      <4> QED BY <1>5, <1>6, <1>7, <2>3, <4>1
    <3>2. k.origin \in Node /\ m = tlc[k.origin][b + 1]
      BY <1>6, <1>8, <2>3
    <3> QED BY <3>1, <3>2 DEF Wins, b
  <2> QED BY <2>1, <2>2, <2>3 DEF b
<1> QED BY <1>11, <1>12

LEMMA NextWin ==
  ASSUME AtMostTwo, Types, ProperInv, TurnInv, RoundInv, OrderInv, LateInv, SoonInv, WinInv,
         [Next]_vars, PublishedInTurn
  PROVE  WinInv'
<1> SUFFICES ASSUME NEW n \in Node, NEW b \in Nat, b % 3 = 0, NEW i \in {b + 2, b + 3}, i \in DOMAIN tlc'[n]
             PROVE  Wins(tlc[n][i], b)'
  BY DEF WinInv
<1>1. ASSUME NEW k, Wins(k, b), k = tlc'[n][i] PROVE Wins(tlc[n][i], b)'
  <2>1. Wins(k, b)'
    BY <1>1, WinsStays
  <2> QED BY <1>1, <2>1 DEF Wins
<1>2. CASE i \in DOMAIN tlc[n]
  <2>1. tlc'[n][i] = tlc[n][i]
    BY <1>2, SentStays
  <2>2. Wins(tlc[n][i], b)
    BY <1>2 DEF WinInv
  <2> QED BY <1>1, <2>1, <2>2
<1>3. CASE i \notin DOMAIN tlc[n]
  <2>1. Base(n) \in Nat /\ Base(n) % 3 = 0
    BY BaseIs
  <2>2. i # Base(n) + 1
    BY <2>1, IdsApart
  <2>3. /\ RoundOver(n) /\ StepOf(qsc[n]) \in {0, 1} /\ i = Base(n) + StepOf(qsc[n]) + 2
        /\ tlc'[n][i] \in Highest(Messages(Of(confirmations[n], myTime[n])))
    BY <1>3, <2>2, NewMessage
  <2>4. b = Base(n)
    BY <2>1, <2>3, IdsApart
  <2>5. ASSUME NEW k \in Highest(Messages(Of(confirmations[n], myTime[n]))) PROVE Wins(k, b)
    BY <2>3, <2>4, ChoiceWins
  <2> QED BY <1>1, <2>3, <2>5
<1> QED BY <1>2, <1>3

\* What is committed is the best block.
LEMMA CommitWins ==
  ASSUME Types, TurnInv, RoundInv, LateInv, SoonInv, WinInv, NEW o \in Node, Decide(o),
         topBlockchainHash'[o] # topBlockchainHash[o]
  PROVE  \E m : /\ Wins(m, Base(o))
                /\ topBlockchainHash'[o] = Append(topBlockchainHash[o], m.block[Len(m.block)])
<1>1. RoundOver(o) /\ StepOf(qsc[o]) = 2
  BY EndChanges
<1>2. Base(o) \in Nat /\ Base(o) % 3 = 0
  BY BaseIs
<1>3. myTime[o] - 2 = Base(o)
  BY <1>1, <1>2, BaseIs
<1>4. PICK m \in checkIfConsensusReached(o, Base(o)) : Commit(o, m)
  <2>1. \/ \E m \in checkIfConsensusReached(o, myTime[o] - 2) : Commit(o, m)
        \/ topBlockchainHash' = topBlockchainHash
    BY DEF Decide
  <2> QED BY <1>3, <2>1
<1>5. topBlockchainHash'[o] = Append(topBlockchainHash[o], m.block[Len(m.block)])
  BY <1>4 DEF Commit, Types, TypeOK
<1>6. PICK k \in Messages(Of(confirmations[o], Base(o) + 1)) : k.block = m.block
  BY <1>4 DEF checkIfConsensusReached
<1>7. PICK c \in Of(confirmations[o], Base(o) + 1) : k = tlc[c.origin][c.id]
  BY <1>6 DEF Messages
<1>8. Base(o) + 1 \in Nat
  BY <1>2
<1>9. /\ c.origin \in Node /\ c.id \in DOMAIN tlc[c.origin]
      /\ c.id = Base(o) + 1 + 1 \/ c.id = Base(o) + 1 + 2
  BY <1>7, <1>8, KeptRecently
<1>10. c.id \in {Base(o) + 2, Base(o) + 3}
  BY <1>2, <1>9
<1>11. Wins(k, Base(o))
  BY <1>2, <1>7, <1>9, <1>10 DEF WinInv
<1> QED BY <1>5, <1>6, <1>11

LEMMA NextWon ==
  ASSUME TwoNodes, RoundsInv, HistoryIsChain, TwoInv, LateInv, SoonInv, WinInv, WonInv, [Next]_vars
  PROVE  WonInv'
<1>1. /\ Types /\ RoundInv /\ TurnInv /\ KeptConfirmed /\ OrderInv /\ LateInv
      /\ MutualInv /\ PairInv
  BY DEF TwoInv, RoundsInv
<1>2. AtMostTwo
  BY DEF TwoNodes, AtMostTwo
<1>3. CASE \A n \in Node : ~Decide(n) /\ ~Crash(n)
  <2>1. topBlockchainHash' = topBlockchainHash /\ \A n \in Node : Base(n)' = Base(n)
    BY <1>1, <1>3, WithinConsensus DEF chain
  <2>2. \A m, b : Wins(m, b) => Wins(m, b)'
    BY <1>1, WinsStays
  <2> SUFFICES ASSUME NEW n \in Node, NEW o \in Node \ {n}, (Base(o) = Base(n) + 3)',
                      topBlockchainHash'[o] # topBlockchainHash'[n]
               PROVE  \E m : /\ Wins(m, Base(n))'
                             /\ topBlockchainHash'[o] = Append(topBlockchainHash'[n], m.block[Len(m.block)])
    BY DEF WonInv
  <2>3. PICK m : /\ Wins(m, Base(n))
                 /\ topBlockchainHash[o] = Append(topBlockchainHash[n], m.block[Len(m.block)])
    BY <2>1 DEF WonInv
  <2>4. Wins(m, Base(n))'
    <3>1. \A b : b = Base(n) => Wins(m, b)'
      BY <2>2, <2>3
    <3> QED BY <2>1, <3>1 DEF Wins
  <2> QED BY <2>1, <2>3, <2>4
<1>4. ASSUME NEW o \in Node, Decide(o) \/ Crash(o) PROVE WonInv'
  <2>1. ASSUME NEW n \in Node, n # o
        PROVE  /\ Base(o)' = Base(n)' + 3 /\ topBlockchainHash'[o] # topBlockchainHash'[n] =>
                    \E m : /\ Wins(m, Base(n))'
                           /\ topBlockchainHash'[o] = Append(topBlockchainHash'[n], m.block[Len(m.block)])
               /\ Base(n)' # Base(o)' + 3
    <3>1. /\ RoundOver(o) /\ StepOf(qsc[o]) = 2 /\ tlc' = tlc
          /\ Base(o)' = Base(o) + 3 /\ (Crash(o) => topBlockchainHash' = topBlockchainHash)
          /\ Base(n)' = Base(n) /\ topBlockchainHash'[n] = topBlockchainHash[n]
      BY <1>1, <1>4, <2>1, EndChanges DEF chain
    <3>2. /\ Base(n) = Base(o) \/ Base(n) = Base(o) + 3
          /\ Base(o) + 1 \in confirmed[n] /\ Base(o) + 1 \in confirmed[o]
      BY <1>1, <1>2, <2>1, <3>1, EndTogether
    <3>3. Base(o) \in Nat /\ Base(n) \in Nat
      BY <1>1, BaseIs
    <3>4. Base(n)' # Base(o)' + 3
      BY <3>1, <3>2, <3>3
    <3>5. ASSUME Base(o)' = Base(n)' + 3, topBlockchainHash'[o] # topBlockchainHash'[n]
          PROVE  \E m : /\ Wins(m, Base(n))'
                        /\ topBlockchainHash'[o] = Append(topBlockchainHash'[n], m.block[Len(m.block)])
      <4>1. Base(n) = Base(o)
        BY <3>1, <3>3, <3>5
      <4>2. topBlockchainHash[n] = topBlockchainHash[o]
        BY <1>1, <2>1, <3>2, <4>1, SameChain
      <4>3. Decide(o) /\ topBlockchainHash'[o] # topBlockchainHash[o]
        BY <1>4, <3>1, <3>5, <4>2
      <4>4. PICK m : /\ Wins(m, Base(o))
                     /\ topBlockchainHash'[o] = Append(topBlockchainHash[o], m.block[Len(m.block)])
        BY <1>1, <4>3, CommitWins
      <4>5. Wins(m, Base(n))'
        BY <3>1, <4>1, <4>4 DEF Wins
      <4> QED BY <3>1, <4>2, <4>4, <4>5
    <3> QED BY <3>4, <3>5
  <2>2. ASSUME NEW n \in Node, NEW x \in Node \ {n}, n # o PROVE x = o
    BY <2>2, <1>4, TwoAreAll
  <2> QED BY <2>1, <2>2 DEF WonInv
<1> QED BY <1>3, <1>4

\* A chain, and the same with a last block, in terms of their prefixes.
LEMMA OneMoreContinues ==
  ASSUME NEW T \in Hash, NEW e \in Name \cup {NoName}
  PROVE  /\ T = SubSeq(T, 1, Len(T))
         /\ T = SubSeq(Append(T, e), 1, Len(T))
         /\ Len(Append(T, e)) = Len(T) + 1 /\ Len(T) \in Nat
<1>1. T \in Seq(Name \cup {NoName}) /\ Len(T) \in Nat
  BY DEF Hash
<1>2. T = SubSeq(T, 1, Len(T))
  BY <1>1, SubSeqFull
<1>3. Len(Append(T, e)) = Len(T) + 1 /\ \A k \in 1 .. Len(T) : Append(T, e)[k] = T[k]
  BY <1>1
<1>4. T = SubSeq(Append(T, e), 1, Len(T))
  <2> DEFINE S == Name \cup {NoName}
  <2>1. T \in Seq(S) /\ <<e>> \in Seq(S) /\ e \in S
    BY <1>1
  <2> HIDE DEF S
  <2>2. Append(T, e) = T \o <<e>>
    BY <2>1, AppendIsConcat
  <2>3. CASE Len(T) = 0
    BY <1>1, <2>3
  <2>4. CASE Len(T) # 0
    <3>1. 1 \in 1 .. Len(T) /\ Len(T) \in 1 .. Len(T)
      BY <1>1, <2>4
    <3> QED BY <1>2, <2>1, <2>2, <3>1, SubSeqOfConcat1
  <2> QED BY <2>3, <2>4
<1> QED BY <1>1, <1>2, <1>3, <1>4

\* One of two chains continues the other.
Continue(t, u) == Len(t) <= Len(u) => t = SubSeq(u, 1, Len(t))

LEMMA SameMoreContinues ==
  ASSUME NEW T \in Hash, NEW e \in Name \cup {NoName},
         NEW t \in {T, Append(T, e)}, NEW u \in {T, Append(T, e)}
  PROVE  Continue(t, u)
<1>1. /\ T = SubSeq(T, 1, Len(T))
      /\ T = SubSeq(Append(T, e), 1, Len(T))
      /\ Len(Append(T, e)) = Len(T) + 1 /\ Len(T) \in Nat
  BY OneMoreContinues
<1>2. Append(T, e) = SubSeq(Append(T, e), 1, Len(Append(T, e)))
  BY BlockOfAppend, OneMoreContinues
<1>3. ~(Len(Append(T, e)) <= Len(T))
  BY <1>1
<1> QED BY <1>1, <1>2, <1>3 DEF Continue

LEMMA NextAgree ==
  ASSUME FitnessDistinct, TwoNodes, RoundsInv, HistoryIsChain, TwoInv, ProperInv,
         SoonInv, StartInv, WinInv, WonInv, ChainsAgree, [Next]_vars
  PROVE  ChainsAgree'
<1>1. /\ Types /\ RoundInv /\ TurnInv /\ KeptConfirmed /\ OrderInv /\ LateInv
      /\ MutualInv /\ PairInv /\ OwnInv
  BY DEF TwoInv, RoundsInv
<1>2. AtMostTwo
  BY DEF TwoNodes, AtMostTwo
<1>3. CASE topBlockchainHash' = topBlockchainHash
  BY <1>3 DEF ChainsAgree
<1>4. CASE topBlockchainHash' # topBlockchainHash
  <2>1. PICK o \in Node : Decide(o)
    <3>1. ~\A n \in Node : ~Decide(n) /\ ~Crash(n)
      BY <1>1, <1>4, WithinConsensus DEF chain
    <3>2. \A n \in Node : ~Crash(n)
      BY <1>4 DEF Crash, chain
    <3> QED BY <3>1, <3>2
  <2> DEFINE T == topBlockchainHash[o]
  <2>2. T \in Hash
    BY <1>1 DEF Types, TypeOK
  <2>3. ASSUME NEW n \in Node, n # o
        PROVE  \E e \in Name \cup {NoName} : /\ topBlockchainHash'[n] \in {T, Append(T, e)}
                                             /\ topBlockchainHash'[o] \in {T, Append(T, e)}
    <3>1. /\ RoundOver(o) /\ StepOf(qsc[o]) = 2 /\ topBlockchainHash'[n] = topBlockchainHash[n]
      BY <1>1, <2>1, <2>3, EndChanges
    <3>2. /\ Base(n) = Base(o) \/ Base(n) = Base(o) + 3
          /\ Base(o) + 1 \in confirmed[n] /\ Base(o) + 1 \in confirmed[o]
      BY <1>1, <1>2, <2>3, <3>1, EndTogether
    <3>3. Base(n) = Base(o) => topBlockchainHash[n] = T
      BY <1>1, <2>3, <3>2, SameChain
    <3>4. topBlockchainHash[n] # T =>
            \E m : Wins(m, Base(o)) /\ topBlockchainHash[n] = Append(T, m.block[Len(m.block)])
      BY <2>3, <3>2, <3>3 DEF WonInv
    <3>5. topBlockchainHash'[o] # T =>
            \E m : Wins(m, Base(o)) /\ topBlockchainHash'[o] = Append(T, m.block[Len(m.block)])
      BY <1>1, <2>1, CommitWins
    <3>6. \A m, k : Wins(m, Base(o)) /\ Wins(k, Base(o)) => m = k
      <4>1. Base(o) \in Nat /\ Base(o) % 3 = 0
        BY <1>1, BaseIs
      <4> QED BY <1>1, <4>1, OneWinner
    <3>7. \A m : Wins(m, Base(o)) => m.block[Len(m.block)] \in Name \cup {NoName}
      <4>1. ASSUME NEW m, Wins(m, Base(o)) PROVE m \in Message
        BY <1>1, <4>1, IdsOfMessages DEF Wins, Types
      <4> QED BY <4>1, LastOfBlock DEF Message
    <3> HIDE DEF T
    <3>8. CASE topBlockchainHash[n] = T /\ topBlockchainHash'[o] = T
      BY <3>1, <3>8
    <3>9. CASE topBlockchainHash[n] # T
      <4>1. PICK m : Wins(m, Base(o)) /\ topBlockchainHash[n] = Append(T, m.block[Len(m.block)])
        BY <3>4, <3>9
      <4>2. topBlockchainHash'[o] \in {T, Append(T, m.block[Len(m.block)])}
        BY <3>5, <3>6, <4>1
      <4> QED BY <3>1, <3>7, <4>1, <4>2
    <3>10. CASE topBlockchainHash[n] = T /\ topBlockchainHash'[o] # T
      <4>1. PICK m : Wins(m, Base(o)) /\ topBlockchainHash'[o] = Append(T, m.block[Len(m.block)])
        BY <3>5, <3>10
      <4> QED BY <3>1, <3>7, <3>10, <4>1
    <3> QED BY <3>8, <3>9, <3>10
  <2> HIDE DEF T
  <2>4. ASSUME NEW n \in Node, n # o
        PROVE  /\ Continue(topBlockchainHash'[n], topBlockchainHash'[o])
               /\ Continue(topBlockchainHash'[o], topBlockchainHash'[n])
               /\ Continue(topBlockchainHash'[n], topBlockchainHash'[n])
               /\ Continue(topBlockchainHash'[o], topBlockchainHash'[o])
    <3>1. PICK e \in Name \cup {NoName} : /\ topBlockchainHash'[n] \in {T, Append(T, e)}
                                          /\ topBlockchainHash'[o] \in {T, Append(T, e)}
      BY <2>3, <2>4
    <3> QED BY <2>2, <3>1, SameMoreContinues
  <2>5. PICK n \in Node : n # o
    BY OtherNode
  <2>6. \A x \in Node : x = o \/ x = n
    BY <2>5, TwoAreAll
  <2>7. \A x, y \in Node : Continue(topBlockchainHash'[x], topBlockchainHash'[y])
    BY <2>4, <2>5, <2>6
  <2> QED BY <2>7 DEF ChainsAgree, Continue
<1> QED BY <1>3, <1>4

AgreeInv == ProperInv /\ SoonInv /\ StartInv /\ WinInv /\ WonInv /\ ChainsAgree

LEMMA InitAgree == Init => AgreeInv
<1> SUFFICES ASSUME Init PROVE AgreeInv
  OBVIOUS
<1>1. ProperInv
  <2>1. \A n \in Node : DOMAIN tlc[n] = {}
    BY DEF Init
  <2>2. 0 \in Nat
    OBVIOUS
  <2> QED BY <2>1, <2>2 DEF ProperInv, Bounded
<1>2. SoonInv /\ StartInv /\ WinInv
  BY DEF Init, SoonInv, StartInv, WinInv
<1>3. WonInv /\ ChainsAgree
  BY DEF Init, WonInv, ChainsAgree
<1> QED BY <1>1, <1>2, <1>3 DEF AgreeInv

\* Two nodes whose clients wait, with blocks whose fitness is positive and
\* never the same: they agree "on the files in the network" (README.md 7), of
\* their chains one always continues the other, whatever is lost or late.
\* Neither sends on another block than the best one, and what
\* checkIfConsensusReached returns was sent on.
THEOREM TwoAgree ==
  TwoNodes /\ FitnessPositive /\ FitnessDistinct =>
    (Spec /\ [][PublishedInTurn]_vars => []ChainsAgree)
<1> SUFFICES ASSUME TwoNodes, FitnessPositive, FitnessDistinct
             PROVE  Spec /\ [][PublishedInTurn]_vars => []ChainsAgree
  OBVIOUS
<1>1. /\ RoundsInv /\ HistoryIsChain /\ TwoInv /\ AgreeInv
      /\ [Next]_vars /\ [PublishedInTurn]_vars
      => AgreeInv'
  <2> SUFFICES ASSUME RoundsInv, HistoryIsChain, TwoInv, AgreeInv, [Next]_vars, [PublishedInTurn]_vars
               PROVE  AgreeInv'
    OBVIOUS
  <2>1. PublishedInTurn
    BY DEF PublishedInTurn, vars
  <2>2. AtMostTwo
    BY DEF TwoNodes, AtMostTwo
  <2>3. /\ Types /\ RoundInv /\ TurnInv /\ OrderInv /\ LateInv /\ MutualInv
        /\ ProperInv /\ SoonInv /\ StartInv /\ WinInv /\ WonInv /\ ChainsAgree
    BY DEF RoundsInv, TwoInv, AgreeInv
  <2>4. ProperInv' /\ SoonInv' /\ StartInv'
    BY <2>1, <2>2, <2>3, NextProper, NextSoon, NextStart
  <2>5. WinInv'
    BY <2>1, <2>2, <2>3, NextWin
  <2>6. WonInv' /\ ChainsAgree'
    BY <2>3, NextWon, NextAgree
  <2> QED BY <2>4, <2>5, <2>6 DEF AgreeInv
<1>2. AgreeInv => ChainsAgree
  BY DEF AgreeInv
<1>3. Spec /\ [][PublishedInTurn]_vars => []TwoInv
  BY TwoHold
<1> QED BY <1>1, <1>2, <1>3, InitAgree, RoundsHold, CommittedIsOneChain, PTL DEF Spec
=============================================================================
