--------------------------- MODULE ThresholdClock ---------------------------
(***************************************************************************)
(* What the rounds of gossiper/tlc.go promise, whichever packets, acks,    *)
(* queues and notifications carry them: a threshold logical clock.  A node *)
(* sends one confirmation in a round, and its clock ticks only after more  *)
(* than half of the nodes have sent theirs of the round that it is in.     *)
(* Modules TLCRounds and Consensus implement it.                           *)
(***************************************************************************)
EXTENDS Naturals, FiniteSets

CONSTANT Node

VARIABLES
  clock,  \* round of each node
  sent    \* how many confirmations each node has sent

vars == <<clock, sent>>

Majority(S) == Cardinality(S) > Cardinality(Node) \div 2

Init ==
  /\ clock = [n \in Node |-> 0]
  /\ sent = [n \in Node |-> 0]

\* The confirmation of the round that n is in.
Confirm(n) ==
  /\ sent[n] = clock[n]
  /\ sent' = [sent EXCEPT ![n] = @ + 1]
  /\ UNCHANGED clock

\* Those who have confirmed in the round of n.
Ahead(n) == {o \in Node : sent[o] > clock[n]}

\* The clock of n ticks; n confirms what it has not confirmed in the round.
Tick(n) ==
  /\ Majority(Ahead(n))
  /\ clock' = [clock EXCEPT ![n] = @ + 1]
  /\ sent' = [sent EXCEPT ![n] = clock[n] + 1]

Next == \E n \in Node : Confirm(n) \/ Tick(n)

Spec == Init /\ [][Next]_vars

TypeOK == clock \in [Node -> Nat] /\ sent \in [Node -> Nat]

\* No node is more than one round ahead of a majority.
Pace ==
  \A n \in Node : clock[n] > 0 => Majority({o \in Node : clock[o] + 1 >= clock[n]})
=============================================================================
