--------------------------- MODULE MCClientSession ---------------------------
(***************************************************************************)
(* ClientSession for TLC.  Two faults: a second attempt may fail in        *)
(* another way than the first; two messages on the wire, so that input     *)
(* comes in batches that cross the hello and the handshake.                *)
(***************************************************************************)
EXTENDS ClientSession

=============================================================================
