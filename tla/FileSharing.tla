---------------------------- MODULE FileSharing ----------------------------
(***************************************************************************)
(* What file sharing promises, whichever requests, replies, results and    *)
(* timers bring it about: data comes from those who share it, and is only  *)
(* copied from a node that holds it; a file is whole only where all of it  *)
(* is held; who is said to hold a chunk does.  Nothing is ever taken back. *)
(***************************************************************************)
CONSTANTS
  Node, File, Chunk,
  Content,  \* Content[f]: the hashes of f, that of its metafile and its chunks
  Shared    \* Shared[n]: the files that n has of its own

VARIABLES
  held,   \* hashes of the data each node holds
  whole,  \* files each node has complete
  owners  \* per node and chunk, those that it knows to hold the chunk

vars == <<held, whole, owners>>

Init ==
  /\ held = [n \in Node |-> {}]
  /\ whole = [n \in Node |-> {}]
  /\ owners = [n \in Node |-> [h \in Chunk |-> {}]]

Get(n, H) == held' = [held EXCEPT ![n] = @ \cup H]

\* Of p, n comes to know that it holds H.
Note(n, p, H) ==
  owners' = [owners EXCEPT ![n] =
    [h \in Chunk |-> IF h \in H THEN @[h] \cup {p} ELSE @[h]]]

\* A file that n has begun to download before stays as it is.
Share(n, f) ==
  /\ f \in Shared[n]
  /\ Get(n, Content[f])
  /\ \/ UNCHANGED whole
     \/ whole' = [whole EXCEPT ![n] = @ \cup {f}]
  /\ UNCHANGED owners

Copy(n, p, h) ==
  /\ h \in held[p]
  /\ Get(n, {h})
  /\ UNCHANGED owners \/ Note(n, p, {h})
  /\ UNCHANGED whole

Hear(n, p, H) ==
  /\ H \subseteq held[p]
  /\ Note(n, p, H)
  /\ UNCHANGED <<held, whole>>

Finish(n, f) ==
  /\ Content[f] \subseteq held[n]
  /\ whole' = [whole EXCEPT ![n] = @ \cup {f}]
  /\ UNCHANGED <<held, owners>>

Next ==
  \E n \in Node :
    \/ \E f \in File : Share(n, f) \/ Finish(n, f)
    \/ \E p \in Node : (\E h \in held[p] : Copy(n, p, h)) \/ (\E H \in SUBSET held[p] : Hear(n, p, H))

Spec == Init /\ [][Next]_vars

\* All data is that of a file that someone shares.
Provenance ==
  \A n \in Node : \A h \in held[n] : \E o \in Node : \E f \in Shared[o] : h \in Content[f]
=============================================================================
