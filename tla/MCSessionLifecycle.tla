------------------------ MODULE MCSessionLifecycle ------------------------
(* Symmetry sets for the safety runs of SessionLifecycle.                  *)
EXTENDS SessionLifecycle, TLC

Symmetry == Permutations(Runners) \cup Permutations(Commands)

=============================================================================
