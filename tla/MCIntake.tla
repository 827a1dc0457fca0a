----------------------------- MODULE MCIntake ------------------------------
(* Cron expressions for the runs of Intake: schedule s is due at every     *)
(* s-th moment.                                                            *)
EXTENDS Intake

EveryNth == [s \in Schedules |-> [t \in 0..Horizon |-> (t \div s + 1) * s]]

=============================================================================
