---------------------------- MODULE MCQueryGraph ----------------------------
(* QueryGraph for TLC: two cases in scope, one of an excluded year, and an *)
(* Act the user did not ask for.                                           *)
EXTENDS QueryGraph

CONSTANTS a, b, c, excluded, act

MCPassages     == {a, b, c, excluded, act}
MCCollections  == {"case_law", "legislation"}
MCCollectionOf == [p \in MCPassages |-> IF p = act THEN "legislation" ELSE "case_law"]
MCAdmitted     == MCPassages \ {excluded}
MCKeep         == [m \in Modes |-> IF m = "ask" THEN 1 ELSE 2]
=============================================================================
