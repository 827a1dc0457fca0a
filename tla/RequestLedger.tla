--------------------------- MODULE RequestLedger ---------------------------
(***************************************************************************)
(* What ecc2 promises about remote dispatch requests, without the passes   *)
(* that keep the promise: a request that was accepted is answered once,    *)
(* the answer is final, "dispatched" means that work was started for it,   *)
(* and only a fault makes the same work start again or a request fail that *)
(* already has work.                                                       *)
(***************************************************************************)
EXTENDS Naturals

CONSTANT Requests

VARIABLES
    status,  \* status[r], as the row of the request says
    work,    \* work[r]: how often work was started for r
    faults   \* how many processes were lost so far

ledger == <<status, work, faults>>

Status == {"new", "pending", "dispatched", "failed"}

Init ==
    /\ status = [r \in Requests |-> "new"]
    /\ work = [r \in Requests |-> 0]
    /\ faults = 0

Answer(r, old, new) ==
    /\ status[r] = old
    /\ status' = [status EXCEPT ![r] = new]
    /\ UNCHANGED <<work, faults>>

Accept(r) == Answer(r, "new", "pending")

Start(r) ==
    /\ status[r] = "pending" /\ work[r] <= faults
    /\ work' = [work EXCEPT ![r] = @ + 1]
    /\ UNCHANGED <<status, faults>>

Dispatch(r) == work[r] > 0 /\ Answer(r, "pending", "dispatched")

Refuse(r) == (work[r] = 0 \/ faults > 0) /\ Answer(r, "pending", "failed")

Fault == faults' = faults + 1 /\ UNCHANGED <<status, work>>

Next ==
    \/ \E r \in Requests : Accept(r) \/ Start(r) \/ Dispatch(r) \/ Refuse(r)
    \/ Fault

Spec == Init /\ [][Next]_ledger

=============================================================================
