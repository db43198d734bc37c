-------------------------- MODULE MCServerLifecycle --------------------------
(***************************************************************************)
(* ServerLifecycle for TLC.  Two clients, so that one may be closing while *)
(* another connects, and room in the queue for a report of each kind.      *)
(***************************************************************************)
EXTENDS ServerLifecycle

\* Kept is SelectSeq.
ASSUME KeptSelects ==
    \A n \in 0 .. 4 : \A s \in [1 .. n -> 1 .. 3] : \A S \in SUBSET (1 .. 3) :
        Kept(s, S) = SelectSeq(s, LAMBDA e : e \in S)

=============================================================================
