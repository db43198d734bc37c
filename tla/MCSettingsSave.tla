--------------------------- MODULE MCSettingsSave ---------------------------
(***************************************************************************)
(* SettingsSave for TLC.                                                   *)
(***************************************************************************)
EXTENDS SettingsSave, TLC

Symmetry == Permutations(Procs) \cup Permutations(Portable)
=============================================================================
