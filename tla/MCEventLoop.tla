---------------------------- MODULE MCEventLoop ----------------------------
(***************************************************************************)
(* Small instances of EventLoop: one socket thread, one address at which   *)
(* two objects live in turn, two timers that may be due together.          *)
(***************************************************************************)
EXTENDS EventLoop

CONSTANTS t1, main0, a1, a2

MCMaxPosts == [s \in {t1, main0} |-> IF s = t1 THEN 1 ELSE 2]
MCDuration == [t \in {a1, a2} |-> IF t = a1 THEN 1 ELSE 2]
=============================================================================
