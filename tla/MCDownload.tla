----------------------------- MODULE MCDownload -----------------------------
(***************************************************************************)
(* Instances of Download for model checking.                               *)
(***************************************************************************)
EXTENDS Download, TLC

CONSTANTS a, b, f, x, y

TwoChunks == f :> <<x, y>>

\* Node b has the file and a asks for it.
FromB == (a :> {}) @@ (b :> {f})
ByA == (a :> {f}) @@ (b :> {})
EachOther == [n \in Node |-> Node \ {n}]
=============================================================================
