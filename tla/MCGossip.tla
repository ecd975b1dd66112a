------------------------------ MODULE MCGossip ------------------------------
(***************************************************************************)
(* Instances of Gossip for model checking.                                 *)
(***************************************************************************)
EXTENDS Gossip, TLC

CONSTANTS a, b, c

\* The line a - b - c of the tests; a starts by knowing b, b by knowing c.
LinePeers == (a :> {b}) @@ (b :> {c}) @@ (c :> {})

\* Two gossipers that know each other.
PairPeers == (a :> {b}) @@ (b :> {a})

\* Node b joins by knowing a; a learns of b from b's first packet.
JoinPeers == (a :> {}) @@ (b :> {a})

\* Bodies are as good as each other.
Bodies == Permutations(Body)

=============================================================================
