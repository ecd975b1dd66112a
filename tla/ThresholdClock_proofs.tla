------------------------ MODULE ThresholdClock_proofs ------------------------
(***************************************************************************)
(* Theorems about ThresholdClock, for every finite set of nodes.           *)
(***************************************************************************)
EXTENDS ThresholdClock, FiniteSetTheorems, TLAPS

\* A set of nodes with a majority among its members is one.
LEMMA LargerMajority ==
  ASSUME IsFiniteSet(Node), NEW S \in SUBSET Node, NEW T \in SUBSET S, Majority(T)
  PROVE  Majority(S)
<1>1. IsFiniteSet(S)
  BY FS_Subset
<1>2. Cardinality(T) <= Cardinality(S)
  BY <1>1, FS_Subset
<1>3. /\ Cardinality(S) \in Nat /\ Cardinality(T) \in Nat /\ Cardinality(Node) \in Nat
      /\ Cardinality(Node) \div 2 \in Nat
  <2>1. IsFiniteSet(T)
    BY <1>1, FS_Subset
  <2>2. Cardinality(S) \in Nat /\ Cardinality(T) \in Nat /\ Cardinality(Node) \in Nat
    BY <1>1, <2>1, FS_CardinalityType
  <2> QED BY <2>2
<1> QED BY <1>2, <1>3 DEF Majority

\* A node has confirmed in every round that is over for it, and in no later one
\* than its own.
Current == \A n \in Node : sent[n] = clock[n] \/ sent[n] = clock[n] + 1

\* A majority has confirmed in every round before that of a node.
Entered == \A n \in Node : clock[n] > 0 => Majority({o \in Node : sent[o] >= clock[n]})

IInv == TypeOK /\ Current /\ Entered

LEMMA InitIInv == Init => IInv
BY DEF Init, IInv, TypeOK, Current, Entered

\* Nothing sent is taken back, so that a round that was entered stays so.
LEMMA StillEntered ==
  ASSUME IsFiniteSet(Node), IInv, NEW n \in Node, clock[n] > 0,
         sent' \in [Node -> Nat], \A o \in Node : sent'[o] >= sent[o],
         clock'[n] = clock[n]
  PROVE  Majority({o \in Node : sent'[o] >= clock'[n]})
<1> DEFINE S == {o \in Node : sent'[o] >= clock'[n]}
           T == {o \in Node : sent[o] >= clock[n]}
<1>1. clock \in [Node -> Nat] /\ sent \in [Node -> Nat]
  BY DEF IInv, TypeOK
<1>2. T \in SUBSET S /\ S \in SUBSET Node
  BY <1>1
<1>3. Majority(T)
  BY DEF IInv, Entered
<1> HIDE DEF S, T
<1>4. Majority(S)
  BY <1>2, <1>3, LargerMajority
<1> QED BY <1>4 DEF S

LEMMA NextIInv ==
  ASSUME IsFiniteSet(Node), IInv, [Next]_vars
  PROVE  IInv'
<1>1. clock \in [Node -> Nat] /\ sent \in [Node -> Nat]
  BY DEF IInv, TypeOK
<1>2. ASSUME NEW n \in Node, Confirm(n) PROVE IInv'
  <2>1. /\ TypeOK' /\ Current' /\ clock' = clock
        /\ \A o \in Node : sent'[o] >= sent[o]
    BY <1>1, <1>2 DEF Confirm, TypeOK, Current, IInv
  <2>2. Entered'
    BY <2>1, StillEntered DEF Entered, TypeOK
  <2> QED BY <2>1, <2>2 DEF IInv
<1>3. ASSUME NEW n \in Node, Tick(n) PROVE IInv'
  <2>1. /\ TypeOK' /\ Current'
        /\ \A o \in Node : sent'[o] >= sent[o]
        /\ \A o \in Node \ {n} : clock'[o] = clock[o]
        /\ clock'[n] = clock[n] + 1
    BY <1>1, <1>3 DEF Tick, TypeOK, Current, IInv
  <2>2. Majority({o \in Node : sent'[o] >= clock'[n]})
    <3> DEFINE S == {o \in Node : sent'[o] >= clock'[n]}
    <3>1. Ahead(n) \in SUBSET S /\ S \in SUBSET Node
      BY <1>1, <2>1 DEF Ahead, TypeOK
    <3>2. Majority(Ahead(n))
      BY <1>3 DEF Tick
    <3> HIDE DEF S
    <3>3. Majority(S)
      BY <3>1, <3>2, LargerMajority
    <3> QED BY <3>3 DEF S
  <2>3. ASSUME NEW x \in Node, clock'[x] > 0
        PROVE  Majority({o \in Node : sent'[o] >= clock'[x]})
    <3>1. CASE x = n
      BY <2>2, <3>1
    <3>2. CASE x # n
      BY <2>1, <2>3, <3>2, StillEntered DEF TypeOK
    <3> QED BY <3>1, <3>2
  <2>4. Entered'
    BY <2>3 DEF Entered
  <2> QED BY <2>1, <2>4 DEF IInv
<1>4. CASE UNCHANGED vars
  BY <1>4 DEF vars, IInv, TypeOK, Current, Entered
<1> QED BY <1>2, <1>3, <1>4 DEF Next

\* A node that has confirmed in a round is in it or in the next.
LEMMA PaceOfIInv == ASSUME IsFiniteSet(Node), IInv PROVE Pace
<1> SUFFICES ASSUME NEW n \in Node, clock[n] > 0
             PROVE  Majority({o \in Node : clock[o] + 1 >= clock[n]})
  BY DEF Pace
<1> DEFINE S == {o \in Node : clock[o] + 1 >= clock[n]}
           T == {o \in Node : sent[o] >= clock[n]}
<1>1. T \in SUBSET S /\ S \in SUBSET Node
  BY DEF IInv, TypeOK, Current
<1>2. Majority(T)
  BY DEF IInv, Entered
<1> HIDE DEF S, T
<1>3. Majority(S)
  BY <1>1, <1>2, LargerMajority
<1> QED BY <1>3 DEF S

\* In a threshold logical clock no node is more than one round ahead of a
\* majority: what a node has confirmed says which round it has reached.
THEOREM PaceKept == IsFiniteSet(Node) => (Spec => []Pace)
<1> SUFFICES ASSUME IsFiniteSet(Node) PROVE Spec => []Pace
  OBVIOUS
<1>1. Init => IInv
  BY InitIInv
<1>2. IInv /\ [Next]_vars => IInv'
  BY NextIInv
<1>3. IInv => Pace
  BY PaceOfIInv
<1> QED BY <1>1, <1>2, <1>3, PTL DEF Spec
=============================================================================
