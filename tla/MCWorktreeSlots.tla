-------------------------- MODULE MCWorktreeSlots --------------------------
(* Symmetry set for the safety runs of WorktreeSlots.                      *)
EXTENDS WorktreeSlots, TLC

Symmetry == Permutations(Sessions) \cup Permutations(Daemons) \cup Permutations(Users)

=============================================================================
