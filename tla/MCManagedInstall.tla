-------------------------- MODULE MCManagedInstall --------------------------
(* Two releases: the second ships a plain file next to the skill that both *)
(* ship, and the skill has a nested predecessor.                           *)
EXTENDS ManagedInstall

CONSTANTS plain, skill, nested

TwoReleases == <<{skill}, {skill, plain}>>
Predecessor == [f \in {nested} |-> skill]
SameHooks == <<1, 1>>
NewHooks == <<1, 2>>
=============================================================================
