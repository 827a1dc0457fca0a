--------------------------- MODULE SessionStates ---------------------------
(***************************************************************************)
(* The seven states of an ecc2 session row and the table of transitions    *)
(* that StateStore::update_state consults before it writes a new one.      *)
(***************************************************************************)

SessionState ==
    {"Pending", "Running", "Idle", "Stale", "Completed", "Failed", "Stopped"}

\* The targets a state may move to; keeping the same state is always allowed.
Successors ==
    [s \in SessionState |->
        {s} \cup
        CASE s = "Pending"   -> {"Running", "Failed", "Stopped"}
          [] s = "Running"   -> {"Idle", "Stale", "Completed", "Failed", "Stopped"}
          [] s = "Idle"      -> {"Running", "Stale", "Completed", "Failed", "Stopped"}
          [] s = "Stale"     -> {"Running", "Idle", "Completed", "Failed", "Stopped"}
          [] s = "Completed" -> {"Stopped"}
          [] s = "Failed"    -> {"Stopped"}
          [] s = "Stopped"   -> {}]

CanTransition(from, to) == to \in Successors[from]

=============================================================================
