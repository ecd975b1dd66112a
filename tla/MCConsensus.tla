----------------------------- MODULE MCConsensus -----------------------------
(***************************************************************************)
(* Instances of Consensus for model checking.                              *)
(***************************************************************************)
EXTENDS Consensus, TLC

CONSTANTS a, b, c, x, y, z

EachOther == [n \in Node |-> Node \ {n}]

\* Two files each, x with both: that of a is the best at first, and that of b
\* after it.
TwoEach == a :> <<x, z>> @@ b :> <<y, x>>
TurnAbout == a :> <<{3}, {4}>> @@ b :> <<{2}, {5}>>

\* One file each; that of a is better than that of b, and c has the least.
OneEach == a :> <<x>> @@ b :> <<y>> @@ c :> <<z>>
Falling == a :> <<{3}>> @@ b :> <<{2}>> @@ c :> <<{1}>>

\* What a and b send reaches c only, before their consensus is over.
ThroughC == a :> {c} @@ b :> {c} @@ c :> {a, b}

\* Bound: a node is in its round as far as the others are, a little ahead of b
\* and b of c, and one node at a time is at a message.
Stage(n) ==
  6 * myTime[n] + indexed[n] +
  CASE qsc[n].pc = "start" -> 1
    [] qsc[n].pc = "wait" -> IF qsc[n].delivered THEN 3 ELSE 2
    [] OTHER -> 0
InTurn ==
  /\ Stage(a) >= Stage(b) /\ Stage(b) >= Stage(c) /\ Stage(a) <= Stage(c) + 4
  /\ Cardinality({n \in Node : acking[n] \cup saving[n] # {}}) <= 1
=============================================================================
