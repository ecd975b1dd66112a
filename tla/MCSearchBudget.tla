--------------------------- MODULE MCSearchBudget ---------------------------
(***************************************************************************)
(* Instances of SearchBudget for model checking.                           *)
(***************************************************************************)
EXTENDS SearchBudget, TLC

CONSTANTS a, b, c, d, x

\* Every two of a, b and c are peers; d, if there, is a peer of c.
MeshPeers == [n \in Node |-> IF n = c THEN Node \ {c}
                             ELSE IF n = d THEN {c} ELSE {a, b, c} \ {n}]

\* a and b know each other and c knows a, which has to learn of c.
HalfPeers == (a :> {b}) @@ (b :> {a}) @@ (c :> {a})

FromA == [s \in Search |-> a]
NoBudget == [s \in Search |-> 0]

\* a may hear of c at any time, d of b.
ThirdTurnsUp == {<<a, c>>}
TailTurnsUp == {<<d, b>>}
=============================================================================
