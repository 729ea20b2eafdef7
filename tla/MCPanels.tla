------------------------------ MODULE MCPanels ------------------------------
(***************************************************************************)
(* A small instance of Panels: the server's own connection and a client    *)
(* that has yet to come, two streams with different groups and a name that *)
(* is none, two words of which the first has two completions.              *)
(***************************************************************************)
EXTENDS Panels

CONSTANTS c1, c2, s1, s2, g1, g2, w1, w2

MCSessions == [c \in ClientIds |-> IF c = c1 THEN "on" ELSE "new"]
MCGroups == [k \in {s1, s2} |-> IF k = s1 THEN <<g1, g2>> ELSE <<g2>>]
MCMatches == [w \in Words |-> IF w = w1 THEN <<w1, w2>> ELSE <<w2>>]
MCChips == {<<w1, "bare">>, <<w2, "args">>}
=============================================================================
