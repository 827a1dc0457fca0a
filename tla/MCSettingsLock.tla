--------------------------- MODULE MCSettingsLock ---------------------------
(* Three processes, one edit by a program that does not lock.              *)
EXTENDS SettingsLock, TLC

CONSTANTS p1, p2, p3, e1

\* Nothing is claimed of a lock that was removed out of turn and misjudged, too.
OnceWrong == ~(meddled /\ misjudged)

Interchangeable == Permutations({p1, p2, p3})
=============================================================================
