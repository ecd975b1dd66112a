----------------------------- MODULE MCRouting ------------------------------
(***************************************************************************)
(* Instances of Routing for model checking.                                *)
(***************************************************************************)
EXTENDS Routing, TLC

CONSTANTS a, b, d

\* A triangle, so that either neighbour of d may be reached through the other.
RingLink == (a :> {b, d}) @@ (b :> {a, d}) @@ (d :> {a, b})
=============================================================================
