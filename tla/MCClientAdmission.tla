------------------------- MODULE MCClientAdmission -------------------------
(***************************************************************************)
(* Instances of ClientAdmission: what the clients answer to the hello.     *)
(***************************************************************************)
EXTENDS ClientAdmission

\* Clients of the supported version and others that talk nonsense.
SupportedReplies == {Supported, Malformed}

\* Clients of another version as well.
AllReplies == {Supported, Unsupported, Invalid, Malformed}
=============================================================================
