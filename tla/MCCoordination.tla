--------------------------- MODULE MCCoordination ---------------------------
(* The second epic depends on the first, which has an open task; the last
   command is a sync. *)
EXTENDS Coordination, TLC

CONSTANTS e1, e2, c1, c2, c3

MCIssues == {e1, e2}
MCRefs == (e1 :> {}) @@ (e2 :> {e1})
MCRuns == (c1 :> Kinds) @@ (c2 :> Kinds) @@ (c3 :> {"sync"})
CommandSymmetry == Permutations({c1, c2})
=============================================================================
