---------------------------- MODULE SearchBudget ----------------------------
(***************************************************************************)
(* File search with a budget (gossiper/filesearching.go and                *)
(* processSearchRequest of gossiper/mainhandler.go): a search sends its    *)
(* budget out in shares, every gossiper that takes a request spends one of *)
(* it and shares the rest, and the search sends again with more budget     *)
(* until enough files are found or the budget is too high.                 *)
(*                                                                         *)
(* A search stands for its origin and keywords, the identity under which   *)
(* isRecentSearchRequest remembers it.  What a gossiper replies travels as *)
(* a point-to-point packet (module Routing), and whether the replies reach *)
(* matchThreshold is a choice of the timer's step.                         *)
(***************************************************************************)
EXTENDS Integers, FiniteSets, Bags

CONSTANTS
  Node,           \* gossipers; one value is both the name and the UDP address
  Search,         \* searches of the clients
  OriginOf,       \* OriginOf[s]: the gossiper whose client searches
  Requested,      \* Requested[s]: the budget the client asks for, 0 for none
  InitPeers,      \* InitPeers[n]: the peers n is started with
  Introductions,  \* <<n, p>>: p may send n a packet of another kind at any time
  defaultBudget,  \* budget of a search whose client asks for none
  maxBudget,      \* a search whose budget is above it times out
  MaxUint64,      \* largest uint64
  MaxGranted      \* bound: no search grants more than this in all

ASSUME SearchAssumption ==
  /\ IsFiniteSet(Node)
  /\ OriginOf \in [Search -> Node]
  /\ Requested \in [Search -> 0 .. MaxUint64]
  /\ InitPeers \in [Node -> SUBSET Node]
  /\ Introductions \subseteq Node \X Node
  /\ defaultBudget \in 1 .. MaxUint64
  /\ maxBudget \in Nat
  /\ 2 * maxBudget <= MaxUint64
  /\ MaxUint64 \in Nat
  /\ MaxGranted \in Nat

VARIABLES
  peers,       \* known peers of each node
  phase,       \* "idle", "active" or "done" for each search
  budget,      \* the variable budget of searchFilesWithTimeout
  recent,      \* searches each node took a request of less than a timeout ago
  forwarding,  \* runs of forwardSearchRequestWithBudget, a bag
  requests,    \* search requests sent and not yet received, a bag
  granted,     \* history: what a search has handed to forwardSearchRequest...
  spent        \* history: what the nodes that took requests have taken off it

vars == <<peers, phase, budget, recent, forwarding, requests, granted, spent>>

Request == [search : Search, from : Node, to : Node, budget : 1 .. MaxUint64, hops : Nat]

\* A run of forwardSearchRequestWithBudget before and after it divides the
\* budget.  It has hops 0 exactly if it is called by searchFilesWithTimeout.
Starting == [stage : {"start"}, node : Node, search : Search, from : Node,
             budget : 0 .. MaxUint64, hops : Nat]
Sharing == [stage : {"share"}, node : Node, search : Search, hops : Nat,
            chosen : SUBSET Node, available : SUBSET Node,
            budgetForEach : 0 .. MaxUint64, budgetToShare : 0 .. MaxUint64]

With(bag, e) == bag (+) SetToBag({e})
Without(bag, e) == bag (-) SetToBag({e})

Init ==
  /\ peers = InitPeers
  /\ phase = [s \in Search |-> "idle"]
  /\ budget = [s \in Search |-> 0]
  /\ recent = [n \in Node |-> {}]
  /\ forwarding = EmptyBag
  /\ requests = EmptyBag
  /\ granted = [s \in Search |-> 0]
  /\ spent = [s \in Search |-> 0]

\* History counters stop at a bound above all that BudgetConserved and
\* TravelBounded allow.
Count(i, bound) == IF i < bound THEN i + 1 ELSE i

needIncrement(s) == Requested[s] = 0

\* Variant: the budget is not decremented.
DecrementNever(b) == b

\* budget - 1 on a uint64.
Decrement(b) == IF b = 0 THEN MaxUint64 ELSE b - 1

Start(n, s, f, b, h) ==
  [stage |-> "start", node |-> n, search |-> s, from |-> f, budget |-> b, hops |-> h]

-----------------------------------------------------------------------------
(* The goroutine of a search. *)

\* A send of the search: the source spends one of the budget itself.
Grant(s, b) ==
  LET n == OriginOf[s]
  IN  /\ budget' = [budget EXCEPT ![s] = b]
      /\ forwarding' = With(forwarding, Start(n, s, n, Decrement(b), 0))
      /\ granted' = [granted EXCEPT ![s] = @ + Decrement(b)]

FirstBudget(s) == IF needIncrement(s) THEN defaultBudget ELSE Requested[s]

StartSearch(s) ==
  /\ phase[s] = "idle"
  /\ phase' = [phase EXCEPT ![s] = "active"]
  /\ Grant(s, FirstBudget(s))
  /\ UNCHANGED <<peers, recent, requests, spent>>

\* The search waits for its ticker: its own run of the loop is over.
Waiting(s) ==
  /\ phase[s] = "active"
  /\ \A l \in BagToSet(forwarding) : l.search = s => l.hops # 0

\* The ticker fires: above maxBudget the search times out.
TimeOut(s) ==
  /\ Waiting(s)
  /\ budget[s] > maxBudget
  /\ phase' = [phase EXCEPT ![s] = "done"]
  /\ UNCHANGED <<peers, budget, recent, forwarding, requests, granted, spent>>

\* The ticker fires and isFileMatchThresholdReached.
Found(s) ==
  /\ Waiting(s)
  /\ budget[s] <= maxBudget
  /\ phase' = [phase EXCEPT ![s] = "done"]
  /\ UNCHANGED <<peers, budget, recent, forwarding, requests, granted, spent>>

\* Variant: the budget of a search grows only if the client asked for one.
NextBudgetSwapped(s) == IF needIncrement(s) THEN budget[s] ELSE budget[s] * 2

NextBudget(s) == IF needIncrement(s) THEN budget[s] * 2 ELSE budget[s]

SendAgain(s) ==
  /\ Waiting(s)
  /\ budget[s] <= maxBudget
  /\ granted[s] + Decrement(NextBudget(s)) <= MaxGranted
  /\ Grant(s, NextBudget(s))
  /\ UNCHANGED <<peers, phase, recent, requests, spent>>

\* Whether Found is possible is not the search's to decide, so that fairness
\* is stated of the other two: a search goes on unless it is answered.
Tick(s) == TimeOut(s) \/ SendAgain(s)

-----------------------------------------------------------------------------
(* forwardSearchRequestWithBudget *)

\* Variant: the loop goes on as long as there are peers.
ExhaustedPeers(l) == l.available = {}

Exhausted(l) == l.available = {} \/ (l.budgetForEach = 0 /\ l.budgetToShare = 0)

\* A run goes on as l unless its loop ends.
GoOn(rest, l) == IF Exhausted(l) THEN rest ELSE With(rest, l)

\* The first part of a run: the budget is divided among the peers other than
\* the one the request came from.
Divide(l) ==
  LET available == peers[l.node] \ {l.from}
      k == Cardinality(available)
      rest == Without(forwarding, l)
  IN  /\ l.stage = "start"
      /\ forwarding' =
           IF l.budget = 0 \/ k = 0 THEN rest
           ELSE With(rest,
                  [stage |-> "share", node |-> l.node, search |-> l.search,
                   hops |-> l.hops, chosen |-> {l.from}, available |-> available,
                   budgetForEach |-> l.budget \div k, budgetToShare |-> l.budget % k])
      /\ UNCHANGED <<peers, phase, budget, recent, requests, granted, spent>>

\* Variant: every peer gets one more than its part.
ShareRoundedUp(l) == l.budgetForEach + 1

Share(l) == IF l.budgetToShare > 0 THEN l.budgetForEach + 1 ELSE l.budgetForEach

LeftToShare(l) == IF l.budgetToShare > 0 THEN l.budgetToShare - 1 ELSE 0

\* One turn of the loop: a random peer gets its share, then the peers are read
\* again, those that have turned up since the budget was divided included.
SendShare(l) ==
  /\ l.stage = "share"
  /\ \E p \in l.available :
       LET chosen == l.chosen \cup {p}
           next == [l EXCEPT !.chosen = chosen,
                             !.available = peers[l.node] \ chosen,
                             !.budgetToShare = LeftToShare(l)]
       IN  /\ requests' = With(requests, [search |-> l.search, from |-> l.node, to |-> p,
                                            budget |-> Share(l), hops |-> Count(l.hops, MaxUint64)])
           /\ forwarding' = GoOn(Without(forwarding, l), next)
  /\ UNCHANGED <<peers, phase, budget, recent, granted, spent>>

ForwardStep(n) ==
  \E l \in BagToSet(forwarding) : l.node = n /\ (Divide(l) \/ SendShare(l))

-----------------------------------------------------------------------------
(* Receiving *)

\* isRecentSearchRequest: a request like one taken a moment ago is dropped.
IsRecent(n, s) == s \in recent[n]

\* Variant: a request like one taken a moment ago goes back to the queue.
ReceiveRequeued(n) ==
  \E m \in BagToSet(requests) :
    /\ m.to = n
    /\ peers' = [peers EXCEPT ![n] = @ \cup {m.from}]
    /\ IF IsRecent(n, m.search)
       THEN UNCHANGED <<recent, forwarding, requests, spent>>
       ELSE /\ requests' = Without(requests, m)
            /\ recent' = [recent EXCEPT ![n] = @ \cup {m.search}]
            /\ forwarding' = With(forwarding,
                 Start(n, m.search, m.from, Decrement(m.budget), m.hops))
            /\ spent' = [spent EXCEPT ![m.search] = Count(@, MaxGranted + 1)]
    /\ UNCHANGED <<phase, budget, granted>>

\* receivePacketsFromPeers adds the sender, processSearchRequest spends one of
\* the budget and forwards the rest, also where the request has its origin.
Receive(n) ==
  \E m \in BagToSet(requests) :
    /\ m.to = n
    /\ requests' = Without(requests, m)
    /\ peers' = [peers EXCEPT ![n] = @ \cup {m.from}]
    /\ IF IsRecent(n, m.search)
       THEN UNCHANGED <<recent, forwarding, spent>>
       ELSE /\ recent' = [recent EXCEPT ![n] = @ \cup {m.search}]
            /\ forwarding' = With(forwarding,
                 Start(n, m.search, m.from, Decrement(m.budget), m.hops))
            /\ spent' = [spent EXCEPT ![m.search] = Count(@, MaxGranted + 1)]
    /\ UNCHANGED <<phase, budget, granted>>

\* searchRequestDuplicateTimeout has passed since n took a request of s.
Expire(n, s) ==
  /\ s \in recent[n]
  /\ recent' = [recent EXCEPT ![n] = @ \ {s}]
  /\ UNCHANGED <<peers, phase, budget, forwarding, requests, granted, spent>>

\* UDP loses a request.
Lose ==
  /\ \E m \in BagToSet(requests) : requests' = Without(requests, m)
  /\ UNCHANGED <<peers, phase, budget, recent, forwarding, granted, spent>>

\* A packet of another kind makes p known to n.
AddPeer(n, p) ==
  /\ p \notin peers[n]
  /\ peers' = [peers EXCEPT ![n] = @ \cup {p}]
  /\ UNCHANGED <<phase, budget, recent, forwarding, requests, granted, spent>>

Next ==
  \/ \E s \in Search : StartSearch(s) \/ Tick(s) \/ Found(s)
  \/ \E n \in Node : ForwardStep(n) \/ Receive(n)
  \/ \E n \in Node, s \in Search : Expire(n, s)
  \/ Lose
  \/ \E i \in Introductions : AddPeer(i[1], i[2])

Spec == Init /\ [][Next]_vars

\* Goroutines run, tickers fire and packets in the socket buffer are read.
Fairness ==
  /\ \A s \in Search : WF_vars(Tick(s))
  /\ \A n \in Node : WF_vars(ForwardStep(n)) /\ WF_vars(Receive(n))

FairSpec == Spec /\ Fairness

-----------------------------------------------------------------------------
(* Properties *)

\* Every request carries a budget of at least one (filesearching.go 196), so
\* that no gossiper decrements an unsigned zero (mainhandler.go 74), and no
\* run divides among nobody or is left with a loop that is over.
TypeOK ==
  /\ peers \in [Node -> SUBSET Node]
  /\ phase \in [Search -> {"idle", "active", "done"}]
  /\ budget \in [Search -> 0 .. MaxUint64]
  /\ recent \in [Node -> SUBSET Search]
  /\ BagToSet(forwarding) \subseteq Starting \cup Sharing
  /\ \A l \in BagToSet(forwarding) : l.stage = "share" => ~Exhausted(l)
  /\ BagToSet(requests) \subseteq Request
  /\ granted \in [Search -> Nat]
  /\ spent \in [Search -> Nat]

\* What a run of the loop has still to hand out.
Unshared(l) ==
  IF l.stage = "start" THEN l.budget
  ELSE Cardinality(l.available) * l.budgetForEach + l.budgetToShare

Of(bag, s) == {e \in BagToSet(bag) : e.search = s}

\* The units of budget of search s in requests and in runs of the loop: every
\* copy of one in the bag has as many as it carries or has to hand out.
Carried(s) ==
  UNION {{m} \X ((1 .. requests[m]) \X (1 .. m.budget)) : m \in Of(requests, s)}
Retained(s) ==
  UNION {{l} \X ((1 .. forwarding[l]) \X (1 .. Unshared(l))) : l \in Of(forwarding, s)}

Outstanding(s) == Cardinality(Carried(s)) + Cardinality(Retained(s))

\* "forward request with left budget" (mainhandler.go 73): what the gossipers
\* have spent of a search, what requests carry and what is still to be handed
\* out never add up to more than the search has granted, however the shares
\* are split, repeated by the timer, sent in circles, lost and dropped.
BudgetConserved == \A s \in Search : spent[s] + Outstanding(s) <= granted[s]

\* A request goes no farther than the budget of its search reaches: each hop
\* costs at least one (mainhandler.go 74), also while peers turn up.
TravelBounded ==
  \A m \in BagToSet(requests) : m.hops + m.budget <= budget[m.search]

\* A search for which the client set no budget ends: its budget doubles with
\* every tick until it is above maxBudget (filesearching.go 105 and 123).
IncrementalSearchEnds ==
  \A s \in Search : needIncrement(s) => (phase[s] = "active" ~> phase[s] = "done")

InFlight(s) ==
  \/ \E m \in BagToSet(requests) : m.search = s
  \/ \E l \in BagToSet(forwarding) : l.search = s

\* Once a search has ended its requests die out, even if the gossipers forget
\* that they have taken them before they come round again.
RequestsDieOut ==
  \A s \in Search : (phase[s] = "done" /\ InFlight(s)) ~> (phase[s] = "done" /\ ~InFlight(s))
=============================================================================
