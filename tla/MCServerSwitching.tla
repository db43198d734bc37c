------------------------- MODULE MCServerSwitching -------------------------
(***************************************************************************)
(* Instances of ServerSwitching.  The screens are B - P - C in a row, C    *)
(* also above P, P being the server; "b" is an alias of B.                 *)
(***************************************************************************)
EXTENDS ServerSwitching

CONSTANTS c1, c2, c3

MCNames == {"P", "B", "C", "b"}

\* c3 is B connecting again, or a second machine that calls itself B.
NamesPlain == [p \in Proxies |-> IF p = Primary THEN "P" ELSE IF p = c2 THEN "C" ELSE "B"]

\* c1 is the machine of screen B, calling itself by the alias.
NamesAlias == [NamesPlain EXCEPT ![c1] = "b"]

Canon(S) == [n \in MCNames |-> IF n \in S THEN n ELSE IF n = "b" /\ "B" \in S THEN "B" ELSE Null]

\* Links between the screens of S; the top of P is only partly covered by C.
Row(S) ==
  [n \in MCNames |-> [d \in Dirs |->
     CASE n = "P" /\ d = "left" /\ "B" \in S -> {"B"}
       [] n = "P" /\ d = "right" /\ "C" \in S -> {"C"}
       [] n = "P" /\ d = "top" /\ "C" \in S -> {"C", Null}
       [] n = "B" /\ d = "right" /\ {"B", "P"} \subseteq S -> {"P"}
       [] n = "C" /\ d = "left" /\ {"C", "P"} \subseteq S -> {"P"}
       [] n = "C" /\ d = "bottom" /\ {"C", "P"} \subseteq S -> {"P"}
       [] OTHER -> {Null}]]

Plain(S) == [canon |-> Canon(S), link |-> Row(S), corners |-> FALSE, global |-> FALSE,
             delay |-> "absent", twoTap |-> "absent", relative |-> "absent",
             needsMods |-> FALSE]

All == {"P", "B", "C"}

Options(S, delay, twoTap, relative) ==
  [Plain(S) EXCEPT !.global = TRUE, !.delay = delay, !.twoTap = twoTap,
                   !.relative = relative, !.needsMods = twoTap = "on"]

\* No delay and no double tap: two layouts, one of them without C.
ImmediateConfigs == {[Plain(All) EXCEPT !.corners = TRUE], Options({"P", "B"}, "off", "off", "on")}

\* A layout that drops B, and one without the server's screen, which is refused.
RefusableConfigs == {Plain(All), Plain({"P", "C"}), Plain({"B", "C"})}

\* A delay, a double tap, or both, over the same screens.
DelayConfigs == {Options(All, "on", "off", "off"), Options(All, "absent", "on", "on")}

\* The alias of B disappears in the second one.
AliasConfigs ==
  {Plain(All), [Plain(All) EXCEPT !.canon["b"] = Null]}
=============================================================================
