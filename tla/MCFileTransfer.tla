--------------------------- MODULE MCFileTransfer ---------------------------
(***************************************************************************)
(* FileTransfer for TLC: a file of two chunks, so that a sender may be     *)
(* interrupted before, between and after them, and two clients, so that    *)
(* its chunks meet another active screen and another client's buffer.      *)
(***************************************************************************)
EXTENDS FileTransfer, TLC

Symmetry == Permutations(Clients)
TwoChunks == [f \in Files |-> 2]
=============================================================================
