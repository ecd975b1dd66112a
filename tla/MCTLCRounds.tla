---------------------------- MODULE MCTLCRounds -----------------------------
(***************************************************************************)
(* Instances of TLCRounds for model checking.                              *)
(***************************************************************************)
EXTENDS TLCRounds, TLC

CONSTANTS a, b

\* Both clients publish as many blocks, so the nodes are alike.
TwoBlocks == [n \in Node |-> 2]
Alike == Permutations({a, b})
=============================================================================
