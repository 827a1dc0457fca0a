---------------------------- MODULE MCPlanCanvas ----------------------------
(* Two items, two awaiting commands, a server and its successor.           *)
EXTENDS PlanCanvas, TLC

CONSTANTS i1, i2, c1, c2, s1, s2

Interchangeable ==
    Permutations({i1, i2}) \cup Permutations({c1, c2}) \cup Permutations({s1, s2})
=============================================================================
