------------------------ MODULE SearchBudget_proofs -------------------------
(***************************************************************************)
(* Theorems about SearchBudget, for every finite set of nodes, any peers   *)
(* that turn up and every budget.                                          *)
(***************************************************************************)
EXTENDS SearchBudget, FiniteSetTheorems, TLAPS

\* What a run of forwardSearchRequestWithBudget hands to one peer leaves room
\* for the hop to that peer.
RunBounded(l) ==
  IF l.stage = "start" THEN l.hops + l.budget < budget[l.search]
  ELSE l.hops + Share(l) < budget[l.search]

RunsBounded == \A l \in BagToSet(forwarding) : RunBounded(l)

\* A search has a budget exactly from its start on.
BudgetSet ==
  \A s \in Search : /\ phase[s] = "idle" => budget[s] = 0
                    /\ phase[s] = "active" => budget[s] >= 1

SearchInv == TypeOK /\ TravelBounded /\ RunsBounded /\ BudgetSet

-----------------------------------------------------------------------------
(* Bags and division *)

LEMMA Added ==
  ASSUME NEW B, NEW x
  PROVE  BagToSet(With(B, x)) = BagToSet(B) \cup {x}
BY DEF BagToSet, With, (+), SetToBag

LEMMA Removed ==
  ASSUME NEW B, NEW x
  PROVE  BagToSet(Without(B, x)) \subseteq BagToSet(B)
BY DEF BagToSet, Without, (-), SetToBag

LEMMA Quotient ==
  ASSUME NEW b \in Nat \ {0}, NEW k \in Nat \ {0}
  PROVE  /\ b \div k \in 0 .. b
         /\ b % k \in 0 .. b
         /\ b % k > 0 => b \div k + 1 <= b
         /\ ~(b \div k = 0 /\ b % k = 0)
<1> DEFINE q == b \div k
           r == b % k
<1>1. q \in Int /\ r \in 0 .. k - 1 /\ b = k * q + r
  OBVIOUS
<1>2. q >= 0
  <2>1. SUFFICES ASSUME q < 0 PROVE FALSE
    BY <1>1
  <2> HIDE DEF q, r
  <2>2. k * q <= k * (0 - 1)
    BY <1>1, <2>1
  <2> QED BY <1>1, <2>2
<1>3. k * q >= q
  <2> HIDE DEF q, r
  <2> QED BY <1>1, <1>2
<1>4. r > 0 => k * q >= q /\ k >= 2
  <2> HIDE DEF q, r
  <2> QED BY <1>1, <1>3
<1>5. q \in 0 .. b /\ r \in 0 .. b /\ (r > 0 => q + 1 <= b) /\ ~(q = 0 /\ r = 0)
  <2> HIDE DEF q, r
  <2>1. k * q \in Int
    BY <1>1
  <2>2. q = 0 => k * q = 0
    BY <1>1
  <2> QED BY <1>1, <1>2, <1>3, <2>1, <2>2
<1> QED BY <1>5

-----------------------------------------------------------------------------
(* The steps *)

LEMMA DecrementBelow ==
  ASSUME NEW b \in 1 .. MaxUint64
  PROVE  Decrement(b) \in 0 .. MaxUint64 /\ Decrement(b) = b - 1
BY SearchAssumption DEF Decrement

LEMMA CountType ==
  ASSUME NEW i \in Nat, NEW bound \in Nat
  PROVE  Count(i, bound) \in Nat /\ Count(i, bound) <= i + 1
BY DEF Count

LEMMA InitSearch == Init => SearchInv
<1> SUFFICES ASSUME Init PROVE SearchInv
  OBVIOUS
<1>1. BagToSet(forwarding) = {} /\ BagToSet(requests) = {}
  BY DEF Init, EmptyBag, SetToBag, BagToSet
<1> QED
  BY <1>1, SearchAssumption
     DEF Init, SearchInv, TypeOK, TravelBounded, RunsBounded, BudgetSet

\* A send of a search with a budget that is no smaller than its last one.
LEMMA GrantKeeps ==
  ASSUME SearchInv, NEW s \in Search, NEW b \in 1 .. MaxUint64, b >= budget[s], Grant(s, b),
         phase' = phase \/ phase' = [phase EXCEPT ![s] = "active"],
         phase'[s] = "active",
         UNCHANGED <<peers, recent, requests, spent>>
  PROVE  SearchInv'
<1> DEFINE n == OriginOf[s]
           l == Start(n, s, n, Decrement(b), 0)
<1>1. /\ n \in Node
      /\ l \in Starting
      /\ l.stage = "start" /\ l.search = s /\ l.hops = 0 /\ l.budget = b - 1
  BY SearchAssumption, DecrementBelow DEF Start, Starting
<1>2. BagToSet(forwarding') = BagToSet(forwarding) \cup {l}
  BY Added DEF Grant
<1>3. /\ budget' \in [Search -> 0 .. MaxUint64]
      /\ budget'[s] = b
      /\ \A t \in Search : budget'[t] >= budget[t]
  BY SearchAssumption DEF SearchInv, TypeOK, Grant
<1>4. granted' \in [Search -> Nat]
  BY DecrementBelow DEF SearchInv, TypeOK, Grant
<1>5. TypeOK'
  BY <1>1, <1>2, <1>3, <1>4 DEF SearchInv, TypeOK, Exhausted
<1>6. TravelBounded'
  <2> SUFFICES ASSUME NEW m \in BagToSet(requests)
               PROVE  m.hops + m.budget <= budget'[m.search]
    BY DEF TravelBounded
  <2>1. m \in Request /\ m.hops + m.budget <= budget[m.search]
    BY DEF SearchInv, TypeOK, TravelBounded
  <2> QED BY <2>1, <1>3, SearchAssumption DEF Request, SearchInv, TypeOK
<1>7. RunsBounded'
  <2> SUFFICES ASSUME NEW k \in BagToSet(forwarding') PROVE RunBounded(k)'
    BY DEF RunsBounded
  <2>1. CASE k = l
    BY <2>1, <1>1, <1>3 DEF RunBounded
  <2>2. CASE k \in BagToSet(forwarding)
    <3>1. k \in Starting \cup Sharing /\ RunBounded(k)
      BY <2>2 DEF SearchInv, TypeOK, RunsBounded
    <3>2. budget[k.search] \in Nat /\ budget'[k.search] \in Nat /\ budget'[k.search] >= budget[k.search]
      BY <3>1, <1>3, SearchAssumption DEF SearchInv, TypeOK, Starting, Sharing
    <3>3. CASE k \in Starting
      BY <3>1, <3>2, <3>3 DEF RunBounded, Starting
    <3>4. CASE k \in Sharing
      BY <3>1, <3>2, <3>4, SearchAssumption DEF RunBounded, Sharing, Share
    <3> QED BY <3>1, <3>3, <3>4
  <2> QED BY <1>2, <2>1, <2>2
<1>8. BudgetSet'
  <2> SUFFICES ASSUME NEW t \in Search
               PROVE  /\ phase'[t] = "idle" => budget'[t] = 0
                      /\ phase'[t] = "active" => budget'[t] >= 1
    BY DEF BudgetSet
  <2>1. CASE t = s
    BY <2>1, <1>3
  <2>2. CASE t # s
    BY <2>2 DEF SearchInv, TypeOK, BudgetSet, Grant
  <2> QED BY <2>1, <2>2
<1> QED BY <1>5, <1>6, <1>7, <1>8 DEF SearchInv

\* A step that leaves the budgets alone and adds or takes away runs and
\* requests that are bounded.
LEMMA BoundsKept ==
  ASSUME SearchInv, UNCHANGED budget,
         \A m \in BagToSet(requests') \ BagToSet(requests) :
           m \in Request /\ m.hops + m.budget <= budget[m.search],
         \A l \in BagToSet(forwarding') \ BagToSet(forwarding) :
           /\ l \in Starting \cup Sharing
           /\ l.stage = "share" => ~Exhausted(l)
           /\ RunBounded(l)
  PROVE  /\ BagToSet(requests') \subseteq Request
         /\ BagToSet(forwarding') \subseteq Starting \cup Sharing
         /\ \A l \in BagToSet(forwarding') : l.stage = "share" => ~Exhausted(l)
         /\ TravelBounded'
         /\ RunsBounded'
<1>1. BagToSet(requests') \subseteq Request /\ TravelBounded'
  BY DEF SearchInv, TypeOK, TravelBounded
<1>2. /\ BagToSet(forwarding') \subseteq Starting \cup Sharing
      /\ \A l \in BagToSet(forwarding') : l.stage = "share" => ~Exhausted(l)
  BY DEF SearchInv, TypeOK
<1>3. RunsBounded'
  BY DEF SearchInv, RunsBounded, RunBounded
<1> QED BY <1>1, <1>2, <1>3

LEMMA DivideKeeps ==
  ASSUME SearchInv, NEW l \in BagToSet(forwarding), Divide(l)
  PROVE  SearchInv'
<1> DEFINE available == peers[l.node] \ {l.from}
           k == Cardinality(available)
           next == [stage |-> "share", node |-> l.node, search |-> l.search,
                    hops |-> l.hops, chosen |-> {l.from}, available |-> available,
                    budgetForEach |-> l.budget \div k, budgetToShare |-> l.budget % k]
<1>1. l \in Starting /\ l.hops + l.budget < budget[l.search] /\ budget[l.search] \in Nat
  BY SearchAssumption
     DEF Divide, SearchInv, TypeOK, RunsBounded, RunBounded, Starting, Sharing
<1>2. available \subseteq Node /\ k \in Nat /\ (k # 0 => available # {})
  <2>1. available \subseteq Node
    BY <1>1 DEF SearchInv, TypeOK, Starting
  <2>2. IsFiniteSet(available)
    BY <2>1, SearchAssumption, FS_Subset
  <2> QED BY <2>1, <2>2, FS_CardinalityType, FS_EmptySet
<1>3. CASE l.budget = 0 \/ k = 0
  <2>1. forwarding' = Without(forwarding, l)
    BY <1>3 DEF Divide
  <2>2. BagToSet(forwarding') \subseteq BagToSet(forwarding)
    BY <2>1, Removed
  <2> QED BY <2>2, BoundsKept DEF Divide, SearchInv, TypeOK, BudgetSet
<1>4. CASE ~(l.budget = 0 \/ k = 0)
  <2> DEFINE q == l.budget \div k
             r == l.budget % k
  <2>1. forwarding' = With(Without(forwarding, l), next)
    BY <1>4 DEF Divide
  <2>2. BagToSet(forwarding') \subseteq BagToSet(forwarding) \cup {next}
    <3> HIDE DEF next
    <3>1. BagToSet(forwarding') = BagToSet(Without(forwarding, l)) \cup {next}
      BY <2>1, Added
    <3> QED BY <3>1, Removed
  <2>3. /\ q \in 0 .. l.budget /\ r \in 0 .. l.budget
        /\ r > 0 => q + 1 <= l.budget
        /\ ~(q = 0 /\ r = 0)
    BY <1>1, <1>2, <1>4, Quotient DEF Starting
  <2> HIDE DEF q, r
  <2>4. q \in 0 .. MaxUint64 /\ r \in 0 .. MaxUint64
    BY <1>1, <2>3, SearchAssumption DEF Starting
  <2>5. next = [stage |-> "share", node |-> l.node, search |-> l.search,
                hops |-> l.hops, chosen |-> {l.from}, available |-> available,
                budgetForEach |-> q, budgetToShare |-> r]
    BY DEF q, r
  <2> HIDE DEF next, k, available
  <2>6. next \in Sharing
    BY <1>1, <1>2, <2>4, <2>5 DEF Sharing, Starting
  <2>7. ~Exhausted(next)
    BY <1>2, <1>4, <2>3, <2>5 DEF Exhausted
  <2>8. RunBounded(next)
    BY <1>1, <2>3, <2>5 DEF RunBounded, Share, Starting
  <2> QED
    BY <2>2, <2>6, <2>7, <2>8, BoundsKept DEF Divide, SearchInv, TypeOK, BudgetSet
<1> QED BY <1>3, <1>4

LEMMA SendShareKeeps ==
  ASSUME SearchInv, NEW l \in BagToSet(forwarding), SendShare(l)
  PROVE  SearchInv'
<1>1. /\ l \in Sharing /\ ~Exhausted(l) /\ budget[l.search] \in 0 .. MaxUint64
      /\ l.hops + Share(l) < budget[l.search]
  BY SearchAssumption
     DEF SendShare, SearchInv, TypeOK, RunsBounded, RunBounded, Starting, Sharing
<1> PICK p \in l.available :
      LET chosen == l.chosen \cup {p}
          next == [l EXCEPT !.chosen = chosen,
                            !.available = peers[l.node] \ chosen,
                            !.budgetToShare = LeftToShare(l)]
      IN  /\ requests' = With(requests, [search |-> l.search, from |-> l.node, to |-> p,
                                           budget |-> Share(l), hops |-> Count(l.hops, MaxUint64)])
          /\ forwarding' = GoOn(Without(forwarding, l), next)
  BY DEF SendShare
<1> DEFINE chosen == l.chosen \cup {p}
           next == [l EXCEPT !.chosen = chosen,
                             !.available = peers[l.node] \ chosen,
                             !.budgetToShare = LeftToShare(l)]
           m == [search |-> l.search, from |-> l.node, to |-> p,
                 budget |-> Share(l), hops |-> Count(l.hops, MaxUint64)]
<1>2. Share(l) \in 1 .. MaxUint64
  BY <1>1, SearchAssumption DEF Share, Exhausted, Sharing
<1>3. m \in Request /\ m.hops + m.budget <= budget[m.search]
  BY <1>1, <1>2, CountType, SearchAssumption DEF Request, Sharing
<1>4. BagToSet(requests') = BagToSet(requests) \cup {m}
  BY Added
<1>5. BagToSet(forwarding') \subseteq
        BagToSet(forwarding) \cup (IF Exhausted(next) THEN {} ELSE {next})
  BY Removed, Added DEF GoOn
<1>6. LeftToShare(l) \in 0 .. MaxUint64 /\ LeftToShare(l) <= l.budgetToShare
  BY <1>1, SearchAssumption DEF LeftToShare, Sharing
<1>7. /\ next \in Sharing
      /\ next.stage = "share" /\ next.hops = l.hops /\ next.search = l.search
      /\ next.budgetForEach = l.budgetForEach /\ next.budgetToShare = LeftToShare(l)
  <2>1. chosen \subseteq Node /\ peers[l.node] \ chosen \subseteq Node
    BY <1>1 DEF Sharing, SearchInv, TypeOK
  <2> HIDE DEF chosen
  <2> QED BY <1>1, <1>6, <2>1 DEF Sharing
<1>8. RunBounded(next)
  <2> HIDE DEF next
  <2> QED BY <1>1, <1>6, <1>7 DEF RunBounded, Share, Sharing
<1> HIDE DEF next, m
<1> QED
  BY <1>3, <1>4, <1>5, <1>7, <1>8, BoundsKept DEF SendShare, SearchInv, TypeOK, BudgetSet

LEMMA ReceiveKeeps ==
  ASSUME SearchInv, NEW n \in Node, Receive(n)
  PROVE  SearchInv'
<1> PICK m \in BagToSet(requests) :
      /\ requests' = Without(requests, m)
      /\ peers' = [peers EXCEPT ![n] = @ \cup {m.from}]
      /\ IF IsRecent(n, m.search)
         THEN UNCHANGED <<recent, forwarding, spent>>
         ELSE /\ recent' = [recent EXCEPT ![n] = @ \cup {m.search}]
              /\ forwarding' = With(forwarding,
                   Start(n, m.search, m.from, Decrement(m.budget), m.hops))
              /\ spent' = [spent EXCEPT ![m.search] = Count(@, MaxGranted + 1)]
      /\ UNCHANGED <<phase, budget, granted>>
  BY DEF Receive
<1> DEFINE l == Start(n, m.search, m.from, Decrement(m.budget), m.hops)
<1>1. m \in Request /\ m.hops + m.budget <= budget[m.search] /\ budget[m.search] \in Nat
  BY SearchAssumption DEF SearchInv, TypeOK, TravelBounded, Request
<1>2. l \in Starting /\ l.stage = "start" /\ RunBounded(l)
  BY <1>1, DecrementBelow DEF Start, Starting, Request, RunBounded
<1>3. BagToSet(requests') \subseteq BagToSet(requests)
  BY Removed
<1>4. BagToSet(forwarding') \subseteq BagToSet(forwarding) \cup {l}
  BY Added
<1>5. /\ peers' \in [Node -> SUBSET Node]
      /\ recent' \in [Node -> SUBSET Search]
  BY <1>1 DEF SearchInv, TypeOK, Request
<1>6. spent' \in [Search -> Nat]
  <2>1. \A i \in Nat : Count(i, MaxGranted + 1) \in Nat
    BY CountType, SearchAssumption
  <2> QED BY <1>1, <2>1 DEF SearchInv, TypeOK, Request
<1> HIDE DEF l
<1> QED
  BY <1>2, <1>3, <1>4, <1>5, <1>6, BoundsKept DEF SearchInv, TypeOK, BudgetSet

LEMMA NextSearch == SearchInv /\ [Next]_vars => SearchInv'
<1> SUFFICES ASSUME SearchInv, [Next]_vars PROVE SearchInv'
  OBVIOUS
<1>1. ASSUME NEW s \in Search, StartSearch(s) PROVE SearchInv'
  <2>1. FirstBudget(s) \in 1 .. MaxUint64
    BY SearchAssumption DEF FirstBudget, needIncrement
  <2>2. budget[s] = 0
    BY <1>1 DEF StartSearch, SearchInv, BudgetSet
  <2>3. phase'[s] = "active"
    BY <1>1 DEF StartSearch, SearchInv, TypeOK
  <2>4. FirstBudget(s) >= budget[s]
    BY <2>1, <2>2, SearchAssumption
  <2>5. Grant(s, FirstBudget(s)) /\ phase' = [phase EXCEPT ![s] = "active"]
        /\ UNCHANGED <<peers, recent, requests, spent>>
    BY <1>1 DEF StartSearch
  <2> QED BY <2>1, <2>3, <2>4, <2>5, GrantKeeps
<1>2. ASSUME NEW s \in Search, SendAgain(s) PROVE SearchInv'
  <2>1. budget[s] \in Nat /\ budget[s] >= 1 /\ budget[s] <= maxBudget /\ phase[s] = "active"
    BY <1>2 DEF SendAgain, Waiting, SearchInv, TypeOK, BudgetSet
  <2>2. NextBudget(s) \in 1 .. MaxUint64 /\ NextBudget(s) >= budget[s]
    BY <2>1, SearchAssumption DEF NextBudget
  <2> QED BY <1>2, <2>1, <2>2, GrantKeeps DEF SendAgain
<1>3. ASSUME NEW s \in Search, TimeOut(s) \/ Found(s) PROVE SearchInv'
  BY <1>3, BoundsKept DEF TimeOut, Found, SearchInv, TypeOK, BudgetSet
<1>4. ASSUME NEW n \in Node, ForwardStep(n) PROVE SearchInv'
  BY <1>4, DivideKeeps, SendShareKeeps DEF ForwardStep
<1>5. ASSUME NEW n \in Node, Receive(n) PROVE SearchInv'
  BY <1>5, ReceiveKeeps
<1>6. ASSUME NEW n \in Node, NEW s \in Search, Expire(n, s) PROVE SearchInv'
  BY <1>6, BoundsKept DEF Expire, SearchInv, TypeOK, BudgetSet
<1>7. ASSUME Lose PROVE SearchInv'
  <2>1. BagToSet(requests') \subseteq BagToSet(requests)
    BY <1>7, Removed DEF Lose
  <2> QED BY <1>7, <2>1, BoundsKept DEF Lose, SearchInv, TypeOK, BudgetSet
<1>8. ASSUME NEW i \in Introductions, AddPeer(i[1], i[2]) PROVE SearchInv'
  BY <1>8, BoundsKept, SearchAssumption DEF AddPeer, SearchInv, TypeOK, BudgetSet
<1>9. CASE UNCHANGED vars
  BY <1>9, BoundsKept DEF vars, SearchInv, TypeOK, BudgetSet
<1> QED
  BY <1>1, <1>2, <1>3, <1>4, <1>5, <1>6, <1>7, <1>8, <1>9 DEF Next, Tick

LEMMA SearchInvariant == Spec => []SearchInv
BY InitSearch, NextSearch, PTL DEF Spec

-----------------------------------------------------------------------------
(* Results *)

\* Every request carries a budget of at least one, so that no gossiper
\* decrements an unsigned zero in processSearchRequest.
THEOREM TypeCorrect == Spec => []TypeOK
<1>1. SearchInv => TypeOK
  BY DEF SearchInv
<1> QED BY <1>1, SearchInvariant, PTL

\* No request of forwardSearchRequestWithBudget travels farther than the
\* budget of its search, whichever peers turn up while it is forwarded.
THEOREM TravelIsBounded == Spec => []TravelBounded
<1>1. SearchInv => TravelBounded
  BY DEF SearchInv
<1> QED BY <1>1, SearchInvariant, PTL

-----------------------------------------------------------------------------
(* Counting units in bags *)

IsBag(B) == B = [e \in DOMAIN B |-> B[e]] /\ \A e \in DOMAIN B : B[e] \in Nat \ {0}

\* w[e] units for every copy of e.
Units(B, w) == UNION {{e} \X ((1 .. B[e]) \X (1 .. w[e])) : e \in BagToSet(B)}

LEMMA BagAdded ==
  ASSUME NEW B, IsBag(B), NEW x
  PROVE  /\ IsBag(With(B, x))
         /\ DOMAIN With(B, x) = DOMAIN B \cup {x}
         /\ With(B, x)[x] = IF x \in DOMAIN B THEN B[x] + 1 ELSE 1
         /\ \A e \in DOMAIN B : e # x => With(B, x)[e] = B[e]
BY DEF IsBag, BagToSet, With, (+), SetToBag

LEMMA BagRemoved ==
  ASSUME NEW B, IsBag(B), NEW x \in DOMAIN B
  PROVE  /\ IsBag(Without(B, x))
         /\ DOMAIN Without(B, x) = IF B[x] = 1 THEN DOMAIN B \ {x} ELSE DOMAIN B
         /\ B[x] # 1 => Without(B, x)[x] = B[x] - 1
         /\ \A e \in DOMAIN B : e # x => Without(B, x)[e] = B[e]
<1> DEFINE C == [e \in DOMAIN B |-> IF e \in {x} THEN B[e] - 1 ELSE B[e]]
<1>1. Without(B, x) = [e \in {d \in DOMAIN C : C[d] > 0} |-> C[e]]
  BY DEF Without, (-), SetToBag
<1>2. {d \in DOMAIN C : C[d] > 0} = IF B[x] = 1 THEN DOMAIN B \ {x} ELSE DOMAIN B
  BY DEF IsBag
<1> QED BY <1>1, <1>2 DEF IsBag

LEMMA OneTimes ==
  ASSUME NEW x, NEW T, IsFiniteSet(T)
  PROVE  /\ IsFiniteSet({x} \X T)
         /\ Cardinality({x} \X T) = Cardinality(T)
<1>1. IsFiniteSet({x}) /\ Cardinality({x}) = 1 /\ Cardinality(T) \in Nat
  BY FS_Singleton, FS_CardinalityType
<1> DEFINE S == {x}
<1> HIDE DEF S
<1>2. /\ IsFiniteSet(S \X T)
      /\ Cardinality(S \X T) = Cardinality(S) * Cardinality(T)
  <2>1. IsFiniteSet(S)
    BY <1>1 DEF S
  <2> QED BY <2>1, FS_Product
<1> QED BY <1>1, <1>2 DEF S

\* The i-th copy of x, of k units.
Copy(x, i, k) == {x} \X ({i} \X (1 .. k))

LEMMA UnitsOfCopy ==
  ASSUME NEW x, NEW i, NEW k \in Nat
  PROVE  IsFiniteSet(Copy(x, i, k)) /\ Cardinality(Copy(x, i, k)) = k
<1>1. IsFiniteSet(1 .. k) /\ Cardinality(1 .. k) = k
  BY FS_Interval
<1>2. IsFiniteSet({i} \X (1 .. k)) /\ Cardinality({i} \X (1 .. k)) = k
  BY <1>1, OneTimes
<1> QED BY <1>2, OneTimes DEF Copy

LEMMA Disjoint ==
  ASSUME NEW S, NEW T, IsFiniteSet(S), IsFiniteSet(T), S \cap T = {}
  PROVE  /\ IsFiniteSet(S \cup T)
         /\ Cardinality(S \cup T) = Cardinality(S) + Cardinality(T)
<1>1. Cardinality(S) \in Nat /\ Cardinality(T) \in Nat
  BY FS_CardinalityType
<1> QED BY <1>1, FS_Union, FS_EmptySet

LEMMA UnitsAdded ==
  ASSUME NEW B, IsBag(B), NEW w, NEW x, w[x] \in Nat, IsFiniteSet(Units(B, w))
  PROVE  /\ IsFiniteSet(Units(With(B, x), w))
         /\ Cardinality(Units(With(B, x), w)) = Cardinality(Units(B, w)) + w[x]
<1> DEFINE C == With(B, x)
           New == Copy(x, C[x], w[x])
<1>1. /\ BagToSet(B) = DOMAIN B /\ BagToSet(C) = DOMAIN B \cup {x}
      /\ C[x] = IF x \in DOMAIN B THEN B[x] + 1 ELSE 1
      /\ \A e \in DOMAIN B : e # x => C[e] = B[e]
      /\ \A e \in DOMAIN B : B[e] \in Nat \ {0}
  BY BagAdded DEF BagToSet, IsBag
<1> HIDE DEF C
<1>2. Units(C, w) \subseteq Units(B, w) \cup New
  <2> SUFFICES ASSUME NEW p \in Units(C, w) PROVE p \in Units(B, w) \cup New
    OBVIOUS
  <2> PICK e \in BagToSet(C) : p \in {e} \X ((1 .. C[e]) \X (1 .. w[e]))
    BY DEF Units
  <2> PICK k \in 1 .. C[e], u \in 1 .. w[e] : p = <<e, <<k, u>>>>
    OBVIOUS
  <2>1. CASE e \in DOMAIN B /\ k \in 1 .. B[e]
    BY <1>1, <2>1 DEF Units
  <2>2. CASE ~(e \in DOMAIN B /\ k \in 1 .. B[e])
    <3>1. e = x /\ k = C[x]
      BY <1>1, <2>2
    <3> QED BY <3>1 DEF Copy
  <2> QED BY <2>1, <2>2
<1>3. Units(B, w) \cup New \subseteq Units(C, w)
  <2>1. ASSUME NEW p \in Units(B, w) PROVE p \in Units(C, w)
    <3> PICK e \in BagToSet(B) : p \in {e} \X ((1 .. B[e]) \X (1 .. w[e]))
      BY DEF Units
    <3> PICK k \in 1 .. B[e], u \in 1 .. w[e] : p = <<e, <<k, u>>>>
      OBVIOUS
    <3>1. e \in BagToSet(C) /\ k \in 1 .. C[e]
      BY <1>1
    <3> QED BY <3>1 DEF Units
  <2>2. ASSUME NEW p \in New PROVE p \in Units(C, w)
    <3>1. x \in BagToSet(C) /\ C[x] \in 1 .. C[x]
      BY <1>1
    <3> QED BY <3>1 DEF Units, Copy
  <2> QED BY <2>1, <2>2
<1>4. Units(B, w) \cap New = {}
  <2> SUFFICES ASSUME NEW p \in Units(B, w), p \in New PROVE FALSE
    OBVIOUS
  <2> PICK e \in BagToSet(B) : p \in {e} \X ((1 .. B[e]) \X (1 .. w[e]))
    BY DEF Units
  <2> PICK k \in 1 .. B[e], u \in 1 .. w[e] : p = <<e, <<k, u>>>>
    OBVIOUS
  <2>1. e = x /\ k = C[x]
    BY DEF Copy
  <2> QED BY <1>1, <2>1
<1>5. IsFiniteSet(New) /\ Cardinality(New) = w[x]
  BY UnitsOfCopy
<1> HIDE DEF New
<1>6. Units(C, w) = Units(B, w) \cup New
  BY <1>2, <1>3
<1>7. IsFiniteSet(Units(C, w)) /\ Cardinality(Units(C, w)) = Cardinality(Units(B, w)) + w[x]
  BY <1>4, <1>5, <1>6, Disjoint
<1> QED BY <1>7 DEF C

\* A bag without a copy of x is one to which that copy can be added back.
LEMMA UnitsRemoved ==
  ASSUME NEW B, IsBag(B), NEW w, NEW x \in DOMAIN B, w[x] \in Nat, IsFiniteSet(Units(B, w))
  PROVE  /\ IsFiniteSet(Units(Without(B, x), w))
         /\ Cardinality(Units(B, w)) = Cardinality(Units(Without(B, x), w)) + w[x]
<1> DEFINE A == Without(B, x)
<1>0. B[x] \in Nat \ {0}
  BY DEF IsBag
<1>1. /\ IsBag(A)
      /\ DOMAIN A = IF B[x] = 1 THEN DOMAIN B \ {x} ELSE DOMAIN B
      /\ B[x] # 1 => A[x] = B[x] - 1
      /\ \A e \in DOMAIN B : e # x => A[e] = B[e]
      /\ B[x] \in Nat \ {0}
  BY <1>0, BagRemoved
<1> HIDE DEF A
<1>2. With(A, x) = B
  <2> DEFINE C == With(A, x)
  <2>1. /\ IsBag(C)
        /\ DOMAIN C = DOMAIN A \cup {x}
        /\ C[x] = IF x \in DOMAIN A THEN A[x] + 1 ELSE 1
        /\ \A e \in DOMAIN A : e # x => C[e] = A[e]
    BY <1>1, BagAdded
  <2> HIDE DEF C
  <2>2. DOMAIN C = DOMAIN B
    BY <1>1, <2>1
  <2>3. \A e \in DOMAIN B : C[e] = B[e]
    BY <1>1, <2>1
  <2>4. C = [e \in DOMAIN C |-> C[e]] /\ B = [e \in DOMAIN B |-> B[e]]
    BY <2>1 DEF IsBag
  <2>5. C = B
    BY <2>2, <2>3, <2>4
  <2> QED BY <2>5 DEF C
<1>3. Units(A, w) \subseteq Units(B, w)
  <2> SUFFICES ASSUME NEW p \in Units(A, w) PROVE p \in Units(B, w)
    OBVIOUS
  <2> PICK e \in BagToSet(A) : p \in {e} \X ((1 .. A[e]) \X (1 .. w[e]))
    BY DEF Units
  <2> PICK k \in 1 .. A[e], u \in 1 .. w[e] : p = <<e, <<k, u>>>>
    OBVIOUS
  <2>1. e \in DOMAIN B /\ A[e] <= B[e] /\ A[e] \in Nat /\ B[e] \in Nat
    BY <1>1 DEF IsBag, BagToSet
  <2>2. e \in BagToSet(B) /\ k \in 1 .. B[e]
    BY <2>1 DEF BagToSet
  <2> QED BY <2>2 DEF Units
<1>4. IsFiniteSet(Units(A, w))
  BY <1>3, FS_Subset
<1>5. Cardinality(Units(With(A, x), w)) = Cardinality(Units(A, w)) + w[x]
  BY <1>1, <1>4, UnitsAdded
<1> QED BY <1>2, <1>4, <1>5 DEF A

-----------------------------------------------------------------------------
(* The budget is conserved *)

\* What an element counts for search s.
CarriedBy(s) == [m \in Request |-> IF m.search = s THEN m.budget ELSE 0]
RetainedBy(s) == [l \in Starting \cup Sharing |-> IF l.search = s THEN Unshared(l) ELSE 0]

InRequests(s) == Units(requests, CarriedBy(s))
InRuns(s) == Units(forwarding, RetainedBy(s))

\* The peers left to a run of the loop are those it has not chosen.
AvailableAreOthers ==
  \A l \in BagToSet(forwarding) : l.stage = "share" => l.available = peers[l.node] \ l.chosen

ConserveInv ==
  /\ IsBag(requests) /\ IsBag(forwarding)
  /\ AvailableAreOthers
  /\ \A s \in Search :
       /\ IsFiniteSet(InRequests(s)) /\ IsFiniteSet(InRuns(s))
       /\ spent[s] + Cardinality(InRequests(s)) + Cardinality(InRuns(s)) <= granted[s]

\* The set of peers of a node does not change while it hands out shares.
NobodyTurnsUp ==
  \A l \in BagToSet(forwarding) : l.stage = "share" => peers'[l.node] = peers[l.node]

LEMMA AvailableFinite ==
  ASSUME NEW S \in SUBSET Node
  PROVE  IsFiniteSet(S) /\ Cardinality(S) \in Nat
BY SearchAssumption, FS_Subset, FS_CardinalityType

LEMMA UnsharedType ==
  ASSUME NEW l \in Starting \cup Sharing
  PROVE  Unshared(l) \in Nat
<1>1. CASE l \in Starting
  BY <1>1, SearchAssumption DEF Starting, Unshared
<1>2. CASE l \in Sharing
  <2> DEFINE k == Cardinality(l.available)
             q == l.budgetForEach
             r == l.budgetToShare
  <2>1. k \in Nat
    BY <1>2, AvailableFinite DEF Sharing
  <2>2. q \in Nat /\ r \in Nat
    BY <1>2, SearchAssumption DEF Sharing
  <2> HIDE DEF k, q, r
  <2>3. k * q + r \in Nat
    BY <2>1, <2>2
  <2> QED BY <1>2, <2>3 DEF Unshared, Sharing, k, q, r
<1> QED BY <1>1, <1>2

LEMMA Weights ==
  ASSUME NEW s \in Search
  PROVE  /\ \A m \in Request :
              CarriedBy(s)[m] \in Nat /\ CarriedBy(s)[m] = IF m.search = s THEN m.budget ELSE 0
         /\ \A l \in Starting \cup Sharing :
              RetainedBy(s)[l] \in Nat /\ RetainedBy(s)[l] = IF l.search = s THEN Unshared(l) ELSE 0
<1>1. \A m \in Request : m.budget \in Nat
  BY SearchAssumption DEF Request
<1> QED BY <1>1, UnsharedType DEF CarriedBy, RetainedBy

\* The two ways of counting agree.
LEMMA SameUnits ==
  ASSUME TypeOK, NEW s \in Search
  PROVE  Carried(s) = InRequests(s) /\ Retained(s) = InRuns(s)
<1>1. Carried(s) = InRequests(s)
  <2>1. \A m \in BagToSet(requests) :
          m \in Request /\ CarriedBy(s)[m] = IF m.search = s THEN m.budget ELSE 0
    BY Weights DEF TypeOK
  <2>2. ASSUME NEW p \in Carried(s) PROVE p \in InRequests(s)
    <3> PICK m \in Of(requests, s) : p \in {m} \X ((1 .. requests[m]) \X (1 .. m.budget))
      BY DEF Carried
    <3>1. m \in BagToSet(requests) /\ CarriedBy(s)[m] = m.budget
      BY <2>1 DEF Of
    <3> QED BY <3>1 DEF InRequests, Units
  <2>3. ASSUME NEW p \in InRequests(s) PROVE p \in Carried(s)
    <3> PICK m \in BagToSet(requests) :
          p \in {m} \X ((1 .. requests[m]) \X (1 .. CarriedBy(s)[m]))
      BY DEF InRequests, Units
    <3>1. m.search = s /\ CarriedBy(s)[m] = m.budget
      BY <2>1
    <3> QED BY <3>1 DEF Carried, Of
  <2> QED BY <2>2, <2>3
<1>2. Retained(s) = InRuns(s)
  <2>1. \A l \in BagToSet(forwarding) :
          RetainedBy(s)[l] = IF l.search = s THEN Unshared(l) ELSE 0
    BY Weights DEF TypeOK
  <2>2. ASSUME NEW p \in Retained(s) PROVE p \in InRuns(s)
    <3> PICK l \in Of(forwarding, s) : p \in {l} \X ((1 .. forwarding[l]) \X (1 .. Unshared(l)))
      BY DEF Retained
    <3>1. l \in BagToSet(forwarding) /\ RetainedBy(s)[l] = Unshared(l)
      BY <2>1 DEF Of
    <3> QED BY <3>1 DEF InRuns, Units
  <2>3. ASSUME NEW p \in InRuns(s) PROVE p \in Retained(s)
    <3> PICK l \in BagToSet(forwarding) :
          p \in {l} \X ((1 .. forwarding[l]) \X (1 .. RetainedBy(s)[l]))
      BY DEF InRuns, Units
    <3>1. l.search = s /\ RetainedBy(s)[l] = Unshared(l)
      BY <2>1
    <3> QED BY <3>1 DEF Retained, Of
  <2> QED BY <2>2, <2>3
<1> QED BY <1>1, <1>2

LEMMA Conserved == TypeOK /\ ConserveInv => BudgetConserved
<1> SUFFICES ASSUME TypeOK, ConserveInv, NEW s \in Search
             PROVE  spent[s] + Outstanding(s) <= granted[s]
  BY DEF BudgetConserved
<1>1. Outstanding(s) = Cardinality(InRequests(s)) + Cardinality(InRuns(s))
  BY SameUnits DEF Outstanding
<1>2. /\ Cardinality(InRequests(s)) \in Nat /\ Cardinality(InRuns(s)) \in Nat
      /\ spent[s] \in Nat /\ granted[s] \in Nat
      /\ spent[s] + Cardinality(InRequests(s)) + Cardinality(InRuns(s)) <= granted[s]
  BY FS_CardinalityType DEF ConserveInv, TypeOK
<1> QED BY <1>1, <1>2

LEMMA InitConserved == Init => ConserveInv
<1> SUFFICES ASSUME Init PROVE ConserveInv
  OBVIOUS
<1>1. /\ DOMAIN requests = {} /\ DOMAIN forwarding = {}
      /\ requests = [e \in {} |-> 1] /\ forwarding = [e \in {} |-> 1]
  BY DEF Init, EmptyBag, SetToBag
<1>2. IsBag(requests) /\ IsBag(forwarding)
  BY <1>1 DEF IsBag
<1>3. \A s \in Search : InRequests(s) = {} /\ InRuns(s) = {}
  BY <1>1 DEF InRequests, InRuns, Units, BagToSet
<1>4. AvailableAreOthers
  BY <1>1 DEF AvailableAreOthers, BagToSet
<1> QED BY <1>2, <1>3, <1>4, FS_EmptySet DEF Init, ConserveInv

\* Requests and runs with one more or one less copy, as search s counts them.
LEMMA RequestAdded ==
  ASSUME ConserveInv, NEW m \in Request, requests' = With(requests, m)
  PROVE  /\ IsBag(requests')
         /\ \A s \in Search :
              /\ IsFiniteSet(InRequests(s)')
              /\ Cardinality(InRequests(s)') = Cardinality(InRequests(s)) + CarriedBy(s)[m]
<1>1. IsBag(requests')
  BY BagAdded DEF ConserveInv
<1>2. ASSUME NEW s \in Search
      PROVE  /\ IsFiniteSet(InRequests(s)')
             /\ Cardinality(InRequests(s)') = Cardinality(InRequests(s)) + CarriedBy(s)[m]
  <2>1. IsBag(requests) /\ IsFiniteSet(Units(requests, CarriedBy(s))) /\ CarriedBy(s)[m] \in Nat
    BY Weights DEF ConserveInv, InRequests
  <2>2. InRequests(s)' = Units(With(requests, m), CarriedBy(s))
    BY DEF InRequests, CarriedBy
  <2> QED BY <2>1, <2>2, UnitsAdded DEF InRequests
<1> QED BY <1>1, <1>2

LEMMA RequestRemoved ==
  ASSUME TypeOK, ConserveInv, NEW m \in BagToSet(requests), requests' = Without(requests, m)
  PROVE  /\ IsBag(requests')
         /\ \A s \in Search :
              /\ IsFiniteSet(InRequests(s)')
              /\ Cardinality(InRequests(s)) = Cardinality(InRequests(s)') + CarriedBy(s)[m]
<1>0. m \in Request /\ m \in DOMAIN requests
  BY DEF TypeOK, BagToSet
<1>1. IsBag(requests')
  BY <1>0, BagRemoved DEF ConserveInv
<1>2. ASSUME NEW s \in Search
      PROVE  /\ IsFiniteSet(InRequests(s)')
             /\ Cardinality(InRequests(s)) = Cardinality(InRequests(s)') + CarriedBy(s)[m]
  <2>1. IsBag(requests) /\ IsFiniteSet(Units(requests, CarriedBy(s))) /\ CarriedBy(s)[m] \in Nat
    BY <1>0, Weights DEF ConserveInv, InRequests
  <2>2. InRequests(s)' = Units(Without(requests, m), CarriedBy(s))
    BY DEF InRequests, CarriedBy
  <2> QED BY <1>0, <2>1, <2>2, UnitsRemoved DEF InRequests
<1> QED BY <1>1, <1>2

LEMMA RunAdded ==
  ASSUME ConserveInv, NEW l \in Starting \cup Sharing, forwarding' = With(forwarding, l)
  PROVE  /\ IsBag(forwarding')
         /\ \A s \in Search :
              /\ IsFiniteSet(InRuns(s)')
              /\ Cardinality(InRuns(s)') = Cardinality(InRuns(s)) + RetainedBy(s)[l]
<1>1. IsBag(forwarding')
  BY BagAdded DEF ConserveInv
<1>2. ASSUME NEW s \in Search
      PROVE  /\ IsFiniteSet(InRuns(s)')
             /\ Cardinality(InRuns(s)') = Cardinality(InRuns(s)) + RetainedBy(s)[l]
  <2>1. IsBag(forwarding) /\ IsFiniteSet(Units(forwarding, RetainedBy(s))) /\ RetainedBy(s)[l] \in Nat
    BY Weights DEF ConserveInv, InRuns
  <2>2. InRuns(s)' = Units(With(forwarding, l), RetainedBy(s))
    BY DEF InRuns, RetainedBy, Unshared
  <2> QED BY <2>1, <2>2, UnitsAdded DEF InRuns
<1> QED BY <1>1, <1>2

\* A run l ends, or goes on as one that retains no more with what r is given.
LEMMA RunReplaced ==
  ASSUME TypeOK, ConserveInv, NEW l \in BagToSet(forwarding), NEW next \in Starting \cup Sharing,
         \/ forwarding' = Without(forwarding, l)
         \/ forwarding' = With(Without(forwarding, l), next)
  PROVE  /\ IsBag(forwarding')
         /\ \A s \in Search :
              /\ IsFiniteSet(InRuns(s)')
              /\ Cardinality(InRuns(s)') + RetainedBy(s)[l] <= Cardinality(InRuns(s)) + RetainedBy(s)[next]
<1> DEFINE F == Without(forwarding, l)
<1>0. l \in Starting \cup Sharing /\ l \in DOMAIN forwarding
  BY DEF TypeOK, BagToSet
<1>1. IsBag(F)
  BY <1>0, BagRemoved DEF ConserveInv
<1>2. IsBag(forwarding')
  <2> HIDE DEF F
  <2>1. IsBag(With(F, next))
    BY <1>1, BagAdded
  <2> QED BY <1>1, <2>1 DEF F
<1>3. ASSUME NEW s \in Search
      PROVE  /\ IsFiniteSet(InRuns(s)')
             /\ Cardinality(InRuns(s)') + RetainedBy(s)[l] <= Cardinality(InRuns(s)) + RetainedBy(s)[next]
  <2> DEFINE w == RetainedBy(s)
  <2>1. /\ IsBag(forwarding) /\ IsFiniteSet(Units(forwarding, w))
        /\ w[l] \in Nat /\ w[next] \in Nat
    BY <1>0, Weights DEF ConserveInv, InRuns
  <2>2. InRuns(s)' = Units(forwarding', w)
    BY DEF InRuns, RetainedBy, Unshared
  <2> HIDE DEF w
  <2>3. /\ IsFiniteSet(Units(F, w))
        /\ Cardinality(Units(forwarding, w)) = Cardinality(Units(F, w)) + w[l]
    BY <1>0, <2>1, UnitsRemoved
  <2> HIDE DEF F
  <2>4. /\ IsFiniteSet(Units(With(F, next), w))
        /\ Cardinality(Units(With(F, next), w)) = Cardinality(Units(F, w)) + w[next]
    BY <1>1, <2>1, <2>3, UnitsAdded
  <2>5. Cardinality(Units(F, w)) \in Nat
    BY <2>3, FS_CardinalityType
  <2>6. Units(forwarding', w) = Units(F, w) \/ Units(forwarding', w) = Units(With(F, next), w)
    BY DEF F
  <2> QED BY <2>1, <2>2, <2>3, <2>4, <2>5, <2>6 DEF InRuns, w
<1> QED BY <1>2, <1>3

LEMMA GrantConserves ==
  ASSUME SearchInv, ConserveInv, NEW s \in Search, NEW b \in 1 .. MaxUint64, Grant(s, b),
         UNCHANGED <<peers, requests, spent>>
  PROVE  ConserveInv'
<1> DEFINE n == OriginOf[s]
           l == Start(n, s, n, Decrement(b), 0)
<1>1. l \in Starting /\ l.stage = "start" /\ l.search = s /\ l.budget = Decrement(b)
  BY SearchAssumption, DecrementBelow DEF Start, Starting
<1>2. forwarding' = With(forwarding, l)
  BY DEF Grant
<1> HIDE DEF l
<1>3. /\ IsBag(forwarding')
      /\ \A t \in Search :
           /\ IsFiniteSet(InRuns(t)')
           /\ Cardinality(InRuns(t)') = Cardinality(InRuns(t)) + RetainedBy(t)[l]
  BY <1>1, <1>2, RunAdded
<1>4. AvailableAreOthers'
  BY <1>1, <1>2, Added DEF ConserveInv, AvailableAreOthers
<1>5. \A t \in Search : InRequests(t)' = InRequests(t)
  BY DEF InRequests, CarriedBy
<1>6. ASSUME NEW t \in Search
      PROVE  spent'[t] + Cardinality(InRequests(t)') + Cardinality(InRuns(t)') <= granted'[t]
  <2>1. /\ spent[t] \in Nat /\ granted[t] \in Nat
        /\ Cardinality(InRequests(t)) \in Nat /\ Cardinality(InRuns(t)) \in Nat
        /\ spent[t] + Cardinality(InRequests(t)) + Cardinality(InRuns(t)) <= granted[t]
    BY FS_CardinalityType DEF SearchInv, TypeOK, ConserveInv
  <2>2. RetainedBy(t)[l] = IF t = s THEN Decrement(b) ELSE 0
    BY <1>1, Weights DEF Unshared
  <2>3. granted'[t] = IF t = s THEN granted[t] + Decrement(b) ELSE granted[t]
    BY DEF Grant, SearchInv, TypeOK
  <2>4. Decrement(b) \in Nat
    BY DecrementBelow
  <2> QED BY <1>3, <1>5, <2>1, <2>2, <2>3, <2>4
<1> QED BY <1>3, <1>4, <1>5, <1>6 DEF ConserveInv

\* Requests and runs are as before and the peers of no node that hands out
\* shares are others.
LEMMA StutterConserves ==
  ASSUME SearchInv, ConserveInv, UNCHANGED <<requests, forwarding, spent, granted>>, NobodyTurnsUp
  PROVE  ConserveInv'
<1>1. \A t \in Search : InRequests(t)' = InRequests(t) /\ InRuns(t)' = InRuns(t)
  BY DEF InRequests, CarriedBy, InRuns, RetainedBy, Unshared
<1>2. AvailableAreOthers'
  BY DEF ConserveInv, AvailableAreOthers, NobodyTurnsUp
<1> QED BY <1>1, <1>2 DEF ConserveInv

LEMMA DivideConserves ==
  ASSUME SearchInv, ConserveInv, NEW l \in BagToSet(forwarding), Divide(l)
  PROVE  ConserveInv'
<1> DEFINE available == peers[l.node] \ {l.from}
           k == Cardinality(available)
           next == [stage |-> "share", node |-> l.node, search |-> l.search,
                    hops |-> l.hops, chosen |-> {l.from}, available |-> available,
                    budgetForEach |-> l.budget \div k, budgetToShare |-> l.budget % k]
<1>1. l \in Starting /\ l.stage = "start" /\ l.budget \in Nat
  BY SearchAssumption DEF Divide, SearchInv, TypeOK, Starting, Sharing
<1>2. available \subseteq Node /\ k \in Nat
  BY <1>1, AvailableFinite DEF SearchInv, TypeOK, Starting
<1>3. \A t \in Search : InRequests(t)' = InRequests(t)
  BY DEF InRequests, CarriedBy, Divide
<1>4. ASSUME NEW e \in Starting \cup Sharing,
             forwarding' = Without(forwarding, l) \/ forwarding' = With(Without(forwarding, l), e),
             e.search = l.search, Unshared(e) = l.budget, AvailableAreOthers'
      PROVE  ConserveInv'
  <2>1. /\ IsBag(forwarding')
        /\ \A t \in Search :
             /\ IsFiniteSet(InRuns(t)')
             /\ Cardinality(InRuns(t)') + RetainedBy(t)[l] <= Cardinality(InRuns(t)) + RetainedBy(t)[e]
    BY <1>4, RunReplaced DEF SearchInv
  <2>2. ASSUME NEW t \in Search
        PROVE  spent'[t] + Cardinality(InRequests(t)') + Cardinality(InRuns(t)') <= granted'[t]
    <3>1. /\ spent[t] \in Nat /\ granted[t] \in Nat
          /\ Cardinality(InRequests(t)) \in Nat
          /\ Cardinality(InRuns(t)) \in Nat /\ Cardinality(InRuns(t)') \in Nat
          /\ spent[t] + Cardinality(InRequests(t)) + Cardinality(InRuns(t)) <= granted[t]
      BY <2>1, FS_CardinalityType DEF SearchInv, TypeOK, ConserveInv
    <3>2. RetainedBy(t)[l] = RetainedBy(t)[e] /\ RetainedBy(t)[l] \in Nat
      BY <1>1, <1>4, Weights DEF Unshared
    <3>3. UNCHANGED <<spent, granted>>
      BY DEF Divide
    <3> QED BY <1>3, <2>1, <3>1, <3>2, <3>3
  <2> QED BY <1>3, <1>4, <2>1, <2>2 DEF ConserveInv, Divide
<1>5. CASE l.budget = 0 \/ k = 0
  <2>1. forwarding' = Without(forwarding, l)
    BY <1>5 DEF Divide
  <2>2. AvailableAreOthers'
    BY <2>1, Removed DEF ConserveInv, AvailableAreOthers, Divide
  <2> QED BY <1>1, <1>4, <2>1, <2>2 DEF Unshared
<1>6. CASE ~(l.budget = 0 \/ k = 0)
  <2> DEFINE q == l.budget \div k
             r == l.budget % k
  <2>1. /\ q \in 0 .. l.budget /\ r \in 0 .. l.budget /\ k * q + r = l.budget
    <3>1. q \in 0 .. l.budget /\ r \in 0 .. l.budget
      BY <1>1, <1>2, <1>6, Quotient
    <3>2. k * q + r = l.budget
      BY <1>1, <1>2, <1>6
    <3> QED BY <3>1, <3>2
  <2> HIDE DEF q, r
  <2>2. next = [stage |-> "share", node |-> l.node, search |-> l.search,
                hops |-> l.hops, chosen |-> {l.from}, available |-> available,
                budgetForEach |-> q, budgetToShare |-> r]
    BY DEF q, r
  <2>3. forwarding' = With(Without(forwarding, l), next)
    BY <1>6 DEF Divide
  <2> HIDE DEF next, available
  <2>4. next \in Sharing
    BY <1>1, <1>2, <2>1, <2>2, SearchAssumption DEF Sharing, Starting
  <2>5. Unshared(next) = l.budget /\ next.search = l.search
    BY <2>1, <2>2 DEF Unshared
  <2>6. AvailableAreOthers'
    <3>1. BagToSet(forwarding') \subseteq BagToSet(forwarding) \cup {next}
      <4>1. BagToSet(forwarding') = BagToSet(Without(forwarding, l)) \cup {next}
        BY <2>3, Added
      <4> QED BY <4>1, Removed
    <3>2. next.available = peers[next.node] \ next.chosen
      BY <2>2 DEF available
    <3> QED BY <3>1, <3>2 DEF ConserveInv, AvailableAreOthers, Divide
  <2> QED BY <1>4, <2>3, <2>4, <2>5, <2>6
<1> QED BY <1>5, <1>6

LEMMA SendShareConserves ==
  ASSUME SearchInv, ConserveInv, NEW l \in BagToSet(forwarding), SendShare(l)
  PROVE  ConserveInv'
<1>1. l \in Sharing /\ l.stage = "share" /\ l.available = peers[l.node] \ l.chosen
  BY DEF SendShare, SearchInv, TypeOK, Starting, Sharing, ConserveInv, AvailableAreOthers
<1> PICK p \in l.available :
      LET chosen == l.chosen \cup {p}
          next == [l EXCEPT !.chosen = chosen,
                            !.available = peers[l.node] \ chosen,
                            !.budgetToShare = LeftToShare(l)]
      IN  /\ requests' = With(requests, [search |-> l.search, from |-> l.node, to |-> p,
                                           budget |-> Share(l), hops |-> Count(l.hops, MaxUint64)])
          /\ forwarding' = GoOn(Without(forwarding, l), next)
  BY DEF SendShare
<1> DEFINE chosen == l.chosen \cup {p}
           next == [l EXCEPT !.chosen = chosen,
                             !.available = peers[l.node] \ chosen,
                             !.budgetToShare = LeftToShare(l)]
           m == [search |-> l.search, from |-> l.node, to |-> p,
                 budget |-> Share(l), hops |-> Count(l.hops, MaxUint64)]
           k == Cardinality(l.available)
           q == l.budgetForEach
           r == l.budgetToShare
<1>2. k \in Nat \ {0} /\ Cardinality(l.available \ {p}) = k - 1
  <2>1. IsFiniteSet(l.available) /\ k \in Nat
    BY <1>1, AvailableFinite DEF Sharing
  <2> QED BY <2>1, FS_RemoveElement, FS_EmptySet
<1>3. q \in Nat /\ r \in Nat /\ q <= MaxUint64 /\ r <= MaxUint64
  BY <1>1, SearchAssumption DEF Sharing
<1>4. m \in Request /\ m.search = l.search /\ m.budget = Share(l)
  <2>1. l.hops + Share(l) < budget[l.search] /\ ~Exhausted(l) /\ budget[l.search] \in 0 .. MaxUint64
    BY <1>1 DEF SearchInv, TypeOK, RunsBounded, RunBounded, Sharing
  <2>2. Share(l) \in 1 .. MaxUint64
    BY <1>1, <2>1, SearchAssumption DEF Share, Exhausted, Sharing
  <2> QED BY <1>1, <2>2, CountType, SearchAssumption DEF Request, Sharing
<1>5. /\ next \in Sharing /\ next.stage = "share" /\ next.search = l.search
      /\ next.node = l.node /\ next.chosen = chosen
      /\ next.available = l.available \ {p}
      /\ next.budgetForEach = q /\ next.budgetToShare = LeftToShare(l)
  <2>1. chosen \subseteq Node /\ peers[l.node] \ chosen = l.available \ {p}
    BY <1>1 DEF Sharing
  <2>2. LeftToShare(l) \in 0 .. MaxUint64
    BY <1>1, SearchAssumption DEF LeftToShare, Sharing
  <2> HIDE DEF chosen
  <2> QED BY <1>1, <2>1, <2>2 DEF Sharing
<1>6. forwarding' = Without(forwarding, l) \/ forwarding' = With(Without(forwarding, l), next)
  BY DEF GoOn
<1>7. requests' = With(requests, m)
  OBVIOUS
<1> HIDE DEF next, m
<1>8. Unshared(l) = Unshared(next) + Share(l)
  <2>1. Unshared(l) = k * q + r /\ Unshared(next) = (k - 1) * q + LeftToShare(l)
    BY <1>1, <1>2, <1>5 DEF Unshared
  <2>2. Share(l) + LeftToShare(l) = q + r /\ Share(l) \in Nat /\ LeftToShare(l) \in Nat
    BY <1>3 DEF Share, LeftToShare
  <2> HIDE DEF k, q, r
  <2>3. (k - 1) * q = k * q - q /\ k * q \in Nat
    BY <1>2, <1>3
  <2> QED BY <1>2, <1>3, <2>1, <2>2, <2>3
<1>9. /\ IsBag(requests')
      /\ \A t \in Search :
           /\ IsFiniteSet(InRequests(t)')
           /\ Cardinality(InRequests(t)') = Cardinality(InRequests(t)) + CarriedBy(t)[m]
  BY <1>4, <1>7, RequestAdded
<1>10. /\ IsBag(forwarding')
       /\ \A t \in Search :
            /\ IsFiniteSet(InRuns(t)')
            /\ Cardinality(InRuns(t)') + RetainedBy(t)[l] <= Cardinality(InRuns(t)) + RetainedBy(t)[next]
  BY <1>5, <1>6, RunReplaced DEF SearchInv
<1>11. ASSUME NEW t \in Search
       PROVE  spent'[t] + Cardinality(InRequests(t)') + Cardinality(InRuns(t)') <= granted'[t]
  <2>1. /\ spent[t] \in Nat /\ granted[t] \in Nat
        /\ Cardinality(InRequests(t)) \in Nat
        /\ Cardinality(InRuns(t)) \in Nat /\ Cardinality(InRuns(t)') \in Nat
        /\ spent[t] + Cardinality(InRequests(t)) + Cardinality(InRuns(t)) <= granted[t]
    BY <1>10, FS_CardinalityType DEF SearchInv, TypeOK, ConserveInv
  <2>2. /\ RetainedBy(t)[l] = RetainedBy(t)[next] + CarriedBy(t)[m]
        /\ RetainedBy(t)[next] \in Nat /\ CarriedBy(t)[m] \in Nat
    BY <1>1, <1>4, <1>5, <1>8, Weights
  <2>3. UNCHANGED <<spent, granted>>
    BY DEF SendShare
  <2> QED BY <1>9, <1>10, <2>1, <2>2, <2>3
<1>12. AvailableAreOthers'
  <2>1. BagToSet(forwarding') \subseteq BagToSet(forwarding) \cup {next}
    <3>1. BagToSet(With(Without(forwarding, l), next)) = BagToSet(Without(forwarding, l)) \cup {next}
      BY Added
    <3> QED BY <1>6, <3>1, Removed
  <2>2. next.available = peers[next.node] \ next.chosen
    BY <1>1, <1>5
  <2> QED BY <2>1, <2>2 DEF ConserveInv, AvailableAreOthers, SendShare
<1> QED BY <1>9, <1>10, <1>11, <1>12 DEF ConserveInv

LEMMA ReceiveConserves ==
  ASSUME SearchInv, ConserveInv, NEW n \in Node, Receive(n), NobodyTurnsUp
  PROVE  ConserveInv'
<1> PICK m \in BagToSet(requests) :
      /\ requests' = Without(requests, m)
      /\ IF IsRecent(n, m.search)
         THEN UNCHANGED <<recent, forwarding, spent>>
         ELSE /\ forwarding' = With(forwarding,
                   Start(n, m.search, m.from, Decrement(m.budget), m.hops))
              /\ spent' = [spent EXCEPT ![m.search] = Count(@, MaxGranted + 1)]
      /\ UNCHANGED <<phase, budget, granted>>
  BY DEF Receive
<1> DEFINE l == Start(n, m.search, m.from, Decrement(m.budget), m.hops)
<1>1. m \in Request /\ m.budget \in Nat \ {0}
  BY SearchAssumption DEF SearchInv, TypeOK, Request
<1>2. /\ l \in Starting /\ l.stage = "start" /\ l.search = m.search
      /\ l.budget = m.budget - 1
  BY <1>1, DecrementBelow DEF Start, Starting, Request
<1>3. /\ IsBag(requests')
      /\ \A t \in Search :
           /\ IsFiniteSet(InRequests(t)')
           /\ Cardinality(InRequests(t)) = Cardinality(InRequests(t)') + CarriedBy(t)[m]
  BY RequestRemoved DEF SearchInv
<1>4. ASSUME NEW t \in Search
      PROVE  /\ spent[t] \in Nat /\ granted'[t] = granted[t] /\ granted[t] \in Nat
             /\ Cardinality(InRequests(t)') \in Nat /\ Cardinality(InRuns(t)) \in Nat
             /\ spent[t] + Cardinality(InRequests(t)) + Cardinality(InRuns(t)) <= granted[t]
             /\ CarriedBy(t)[m] = IF t = m.search THEN m.budget ELSE 0
  BY <1>1, <1>3, Weights, FS_CardinalityType DEF SearchInv, TypeOK, ConserveInv
<1>5. CASE IsRecent(n, m.search)
  <2>1. \A t \in Search : InRuns(t)' = InRuns(t)
    BY <1>5 DEF InRuns, RetainedBy, Unshared
  <2>2. AvailableAreOthers'
    BY <1>5 DEF ConserveInv, AvailableAreOthers, NobodyTurnsUp
  <2>3. ASSUME NEW t \in Search
        PROVE  spent'[t] + Cardinality(InRequests(t)') + Cardinality(InRuns(t)') <= granted'[t]
    BY <1>1, <1>3, <1>4, <1>5, <2>1
  <2> QED BY <1>3, <1>5, <2>1, <2>2, <2>3 DEF ConserveInv
<1>6. CASE ~IsRecent(n, m.search)
  <2>1. forwarding' = With(forwarding, l)
    BY <1>6
  <2> HIDE DEF l
  <2>2. /\ IsBag(forwarding')
        /\ \A t \in Search :
             /\ IsFiniteSet(InRuns(t)')
             /\ Cardinality(InRuns(t)') = Cardinality(InRuns(t)) + RetainedBy(t)[l]
    BY <1>2, <2>1, RunAdded
  <2>3. ASSUME NEW t \in Search
        PROVE  spent'[t] + Cardinality(InRequests(t)') + Cardinality(InRuns(t)') <= granted'[t]
    <3>1. RetainedBy(t)[l] = IF t = m.search THEN m.budget - 1 ELSE 0
      BY <1>2, Weights DEF Unshared
    <3>2. /\ spent'[t] \in Nat
          /\ spent'[t] <= IF t = m.search THEN spent[t] + 1 ELSE spent[t]
      <4>1. spent' = [spent EXCEPT ![m.search] = Count(spent[m.search], MaxGranted + 1)]
        BY <1>6
      <4>2. m.search \in Search /\ spent \in [Search -> Nat] /\ MaxGranted + 1 \in Nat
        BY <1>1, SearchAssumption DEF Request, SearchInv, TypeOK
      <4>3. /\ Count(spent[m.search], MaxGranted + 1) \in Nat
            /\ Count(spent[m.search], MaxGranted + 1) <= spent[m.search] + 1
        BY <4>2, CountType
      <4> QED BY <4>1, <4>2, <4>3
    <3> QED BY <1>1, <1>3, <1>4, <2>2, <3>1, <3>2
  <2>4. AvailableAreOthers'
    BY <1>2, <2>1, Added DEF ConserveInv, AvailableAreOthers, NobodyTurnsUp
  <2> QED BY <1>3, <2>2, <2>3, <2>4 DEF ConserveInv
<1> QED BY <1>5, <1>6

LEMMA LoseConserves ==
  ASSUME SearchInv, ConserveInv, Lose
  PROVE  ConserveInv'
<1> PICK m \in BagToSet(requests) : requests' = Without(requests, m)
  BY DEF Lose
<1>1. /\ IsBag(requests')
      /\ \A t \in Search :
           /\ IsFiniteSet(InRequests(t)')
           /\ Cardinality(InRequests(t)) = Cardinality(InRequests(t)') + CarriedBy(t)[m]
  BY RequestRemoved DEF SearchInv
<1>2. \A t \in Search : InRuns(t)' = InRuns(t)
  BY DEF InRuns, RetainedBy, Unshared, Lose
<1>3. ASSUME NEW t \in Search
      PROVE  spent'[t] + Cardinality(InRequests(t)') + Cardinality(InRuns(t)') <= granted'[t]
  <2>1. /\ spent[t] \in Nat /\ granted[t] \in Nat
        /\ Cardinality(InRequests(t)') \in Nat /\ Cardinality(InRuns(t)) \in Nat
        /\ spent[t] + Cardinality(InRequests(t)) + Cardinality(InRuns(t)) <= granted[t]
        /\ CarriedBy(t)[m] \in Nat
    BY <1>1, Weights, FS_CardinalityType DEF SearchInv, TypeOK, ConserveInv
  <2> QED BY <1>1, <1>2, <2>1 DEF Lose
<1> QED BY <1>1, <1>2, <1>3 DEF ConserveInv, AvailableAreOthers, Lose

LEMMA NextConserves ==
  SearchInv /\ ConserveInv /\ [Next]_vars /\ [NobodyTurnsUp]_vars => ConserveInv'
<1> SUFFICES ASSUME SearchInv, ConserveInv, [Next]_vars, [NobodyTurnsUp]_vars PROVE ConserveInv'
  OBVIOUS
<1>1. CASE UNCHANGED vars
  BY <1>1, StutterConserves DEF vars, NobodyTurnsUp
<1> SUFFICES ASSUME Next, NobodyTurnsUp PROVE ConserveInv'
  BY <1>1
<1>2. ASSUME NEW s \in Search, StartSearch(s) PROVE ConserveInv'
  <2>1. FirstBudget(s) \in 1 .. MaxUint64
    BY SearchAssumption DEF FirstBudget, needIncrement
  <2> QED BY <1>2, <2>1, GrantConserves DEF StartSearch
<1>3. ASSUME NEW s \in Search, SendAgain(s) PROVE ConserveInv'
  <2>1. budget[s] \in Nat /\ budget[s] >= 1 /\ budget[s] <= maxBudget
    BY <1>3 DEF SendAgain, Waiting, SearchInv, TypeOK, BudgetSet
  <2>2. NextBudget(s) \in 1 .. MaxUint64
    BY <2>1, SearchAssumption DEF NextBudget
  <2> QED BY <1>3, <2>2, GrantConserves DEF SendAgain
<1>4. ASSUME NEW s \in Search, TimeOut(s) \/ Found(s) PROVE ConserveInv'
  BY <1>4, StutterConserves DEF TimeOut, Found
<1>5. ASSUME NEW n \in Node, ForwardStep(n) PROVE ConserveInv'
  BY <1>5, DivideConserves, SendShareConserves DEF ForwardStep
<1>6. ASSUME NEW n \in Node, Receive(n) PROVE ConserveInv'
  BY <1>6, ReceiveConserves
<1>7. ASSUME NEW n \in Node, NEW s \in Search, Expire(n, s) PROVE ConserveInv'
  BY <1>7, StutterConserves DEF Expire
<1>8. ASSUME Lose PROVE ConserveInv'
  BY <1>8, LoseConserves
<1>9. ASSUME NEW i \in Introductions, AddPeer(i[1], i[2]) PROVE ConserveInv'
  BY <1>9, StutterConserves DEF AddPeer
<1> QED BY <1>2, <1>3, <1>4, <1>5, <1>6, <1>7, <1>8, <1>9 DEF Next, Tick

-----------------------------------------------------------------------------
(* The result *)

\* The shares that forwardSearchRequestWithBudget hands out, with what is
\* retained and spent on the way, never add up to more than the search has
\* granted, as long as no peer turns up at a gossiper amid its shares: the one
\* case in which a run has more peers to serve than it has divided among.
THEOREM BudgetIsConserved == Spec /\ [][NobodyTurnsUp]_vars => []BudgetConserved
<1>1. SearchInv /\ ConserveInv => BudgetConserved
  BY Conserved DEF SearchInv
<1> QED BY <1>1, SearchInvariant, InitConserved, NextConserves, PTL DEF Spec
=============================================================================
