-------------------------- MODULE MCSocketService --------------------------
(***************************************************************************)
(* One writer besides the main thread, which is enough for two threads to  *)
(* be at every pair of points of the two locks and the gate.               *)
(***************************************************************************)
EXTENDS SocketService
=============================================================================
