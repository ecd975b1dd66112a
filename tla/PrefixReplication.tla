------------------------- MODULE PrefixReplication --------------------------
(***************************************************************************)
(* What gossiping promises.  Every origin publishes a numbered sequence of *)
(* messages and every node knows a prefix of it, which only grows and is   *)
(* never longer than the prefix the origin itself has published.  Messages *)
(* arriving out of order, repeated or through several neighbours are not   *)
(* visible at this level: a prefix grows by one or more messages at a time.*)
(***************************************************************************)
EXTENDS Naturals

CONSTANT Node

VARIABLE known   \* known[n][o]: length of the prefix of o's messages at n

Init == known = [n \in Node |-> [o \in Node |-> 0]]

\* The prefix of o at n, and nothing else, grows.
Grow(n, o) ==
  /\ known'[n][o] \in Nat
  /\ known'[n][o] > known[n][o]
  /\ known' = [known EXCEPT ![n][o] = known'[n][o]]

\* An origin publishes its next messages.
Publish(o) == Grow(o, o)

\* Another node learns messages the origin has published.
Learn(n, o) ==
  /\ n # o
  /\ Grow(n, o)
  /\ known'[n][o] <= known[o][o]

Next == \E n, o \in Node : Publish(o) \/ Learn(n, o)

Spec == Init /\ [][Next]_known
=============================================================================
