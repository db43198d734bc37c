------------------------ MODULE MCClipboardSharing ------------------------
(***************************************************************************)
(* Instances of ClipboardSharing: two clients and a few copies, the later  *)
(* of which may be as big as the limit or bigger.                          *)
(***************************************************************************)
EXTENDS ClipboardSharing, TLC

SmallOnly == [d \in Contents |-> "small"]

Limits == [d \in Contents |-> CASE d = 3 -> "limit" [] d = 4 -> "big" [] OTHER -> "small"]

\* The clients are interchangeable, and the run checks invariants only.
ClientSymmetry == Permutations(Clients)
===========================================================================
