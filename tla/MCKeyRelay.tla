----------------------------- MODULE MCKeyRelay -----------------------------
(***************************************************************************)
(* KeyRelay for TLC.  The client's keyboard makes "A" with another key     *)
(* than the server's, so that a repeat under another modifier changes the  *)
(* button, and needs shift released for it and pressed again.  Options     *)
(* may swap the two modifiers; keys may be broadcast to both clients.      *)
(***************************************************************************)
EXTENDS KeyRelay, TLC

Symmetry == Permutations(Clients)
Entry(l, sensitive, required, generates) ==
  [button |-> l, sensitive |-> sensitive, required |-> required, generates |-> generates]
SmallLayout ==
  [id \in Mods \cup {"a", "A"} |->
     CASE id = "shift" -> <<Entry("Lshift", {}, {}, {"shift"})>>
       [] id = "ctrl"  -> <<Entry("Lctrl", {}, {}, {"ctrl"})>>
       [] id = "a"     -> <<Entry("La", {"shift"}, {}, {})>>
       [] id = "A"     -> <<Entry("LA", {"shift"}, {}, {})>>]
Swap == [m \in Mods |-> IF m = "shift" THEN "ctrl" ELSE "shift"]
IdentityOrSwap == {Identity, Swap}
\* A behaviour is followed until something outside the rules happens.
NoneExcused == excused = {}
ToAll == {Clients}
=============================================================================
