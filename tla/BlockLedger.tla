---------------------------- MODULE BlockLedger -----------------------------
(***************************************************************************)
(* What que sera consensus promises each node, whichever messages, acks    *)
(* and confirmations lead to a decision: a chain of the names of proposed  *)
(* files that is never rewritten, and that grows by one name at most when  *)
(* the third round of a consensus ends.  It does not say that the chains   *)
(* of two nodes are alike.                                                 *)
(***************************************************************************)
EXTENDS Naturals, Sequences

CONSTANTS Node, Name

VARIABLES
  proposed,  \* names of files proposed by anyone
  clock,     \* rounds that each node has ended
  chain      \* the names that each node has committed, in order

vars == <<proposed, clock, chain>>

Init ==
  /\ proposed = {}
  /\ clock = [n \in Node |-> 0]
  /\ chain = [n \in Node |-> <<>>]

Propose(e) ==
  /\ proposed' = proposed \cup {e}
  /\ UNCHANGED <<clock, chain>>

EndRound(n) ==
  /\ clock' = [clock EXCEPT ![n] = @ + 1]
  /\ UNCHANGED proposed

\* Nothing is decided.
Pass(n) == EndRound(n) /\ UNCHANGED chain

\* The consensus of n that ends chooses e.
Decide(n, e) ==
  /\ EndRound(n)
  /\ clock[n] % 3 = 2 /\ e \in proposed
  /\ chain' = [chain EXCEPT ![n] = Append(@, e)]

Next ==
  \/ \E e \in Name : Propose(e)
  \/ \E n \in Node : Pass(n) \/ \E e \in proposed : Decide(n, e)

Spec == Init /\ [][Next]_vars

\* A block takes a consensus of its own.
OneBlockPerConsensus == \A n \in Node : Len(chain[n]) <= clock[n] \div 3
=============================================================================
