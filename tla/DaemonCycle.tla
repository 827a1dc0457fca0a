---------------------------- MODULE DaemonCycle ----------------------------
(***************************************************************************)
(* One coordination cycle of the ecc2 daemon (coordinate_backlog_cycle):   *)
(* which of the dispatch and rebalance passes of BacklogDispatch it runs,  *)
(* in which order, by what the daemon_activity row says of earlier ones.   *)
(* Other dispatchers of BacklogDispatch run beside it; they leave no trace *)
(* in that row.                                                            *)
(*                                                                         *)
(* Auto-dispatch is switched on.  Timestamps are kept as an order: whether *)
(* the last recovery is older or newer than the last dispatch.  What is    *)
(* written after a pass is written in one step.                            *)
(***************************************************************************)
EXTENDS BacklogDispatch

CONSTANTS
    Daemon

ASSUME DaemonAssumption == Daemon \in Dispatchers /\ Rebalancing

VARIABLES
    activity,   \* the daemon_activity row
    cycle       \* where the daemon is, the row it read, what its passes moved

cycleVars == <<vars, activity, cycle>>

\* Bounds: the cycle compares the deferred count with 1 and 2, the streak with
\* 3 (and reports with 5), the other counts with 0.
DeferredCap == 2
StreakCap == 5
AtMost(n, cap) == IF n < cap THEN n ELSE cap

Activity == [dispatched : BOOLEAN, deferred : 0..DeferredCap, streak : 0..StreakCap,
             recovery : {"none", "older", "newer"}, rerouted : 0..1]

CycleTypeOK ==
    /\ activity \in Activity
    /\ cycle \in [pc : {"sleep", "relieve", "retry", "dispatch", "rebalance", "recover"},
                  prior : Activity, routed : 0..1, deferred : 0..DeferredCap,
                  waiting : BOOLEAN]

----------------------------------------------------------------------------
(* The daemon_activity row.                                                *)

PrefersRebalanceFirst(a) == a.deferred > 0 /\ a.dispatched /\ a.recovery # "newer"

CooloffActive(a) == PrefersRebalanceFirst(a) /\ (a.deferred >= 2 \/ a.streak >= 3)

Stabilized(a) == a.deferred = 0 /\ a.dispatched /\ a.recovery = "older"

WithDispatch(a, deferred) ==
    [a EXCEPT !.dispatched = TRUE, !.deferred = deferred,
              !.recovery = IF @ = "newer" THEN "older" ELSE @,
              !.streak = IF deferred > 0 THEN AtMost(@ + 1, StreakCap) ELSE 0]

WithRecovery(a, routed) ==
    IF routed > 0 THEN [a EXCEPT !.recovery = "newer", !.streak = 0] ELSE a

\* Fault: a rebalance that moves nothing counts as one more saturated dispatch.
WithRebalance_AddsToStreak(a, rerouted) ==
    [a EXCEPT !.rerouted = rerouted, !.streak = IF rerouted = 0 THEN @ + 1 ELSE @]

WithRebalance(a, rerouted) == [a EXCEPT !.rerouted = rerouted]

----------------------------------------------------------------------------
(* The cycle.                                                              *)

NoActivity == [dispatched |-> FALSE, deferred |-> 0, streak |-> 0,
               recovery |-> "none", rerouted |-> 0]

Asleep == [pc |-> "sleep", prior |-> NoActivity, routed |-> 0, deferred |-> 0,
           waiting |-> FALSE]

CycleInit == Init /\ activity = NoActivity /\ cycle = Asleep

\* The next pass of the cycle; waiting: the first dispatch deferred something.
Enter(phase, waiting) ==
    cycle' = [cycle EXCEPT !.pc = phase, !.routed = 0, !.deferred = 0, !.waiting = waiting]

Sleep == cycle' = Asleep /\ UNCHANGED vars

CycleBegins ==
    /\ cycle.pc = "sleep"
    /\ LET first == PrefersRebalanceFirst(activity) IN
         /\ IF first THEN StartRebalance(Daemon) ELSE StartDispatch(Daemon)
         /\ cycle' = [Asleep EXCEPT !.pc = IF first THEN "relieve" ELSE "dispatch",
                                    !.prior = activity]
    /\ UNCHANGED activity

\* A step of the pass, counting what it routes and what it defers.
PassGoesOn ==
    /\ cycle.pc # "sleep"
    /\ PassStep(Daemon)
    /\ cycle' = [cycle EXCEPT
         !.routed = IF pass[Daemon].pc = "mark" THEN 1 ELSE @,
         !.deferred = IF /\ pass[Daemon].pc = "route" /\ pass[Daemon].kind = "dispatch"
                         /\ pass'[Daemon].pc # "failed"
                         /\ pass'[Daemon].todo # pass[Daemon].todo
                      THEN AtMost(@ + 1, DeferredCap) ELSE @]
    /\ UNCHANGED activity

\* The error of a pass ends the cycle, with nothing recorded.
PassFailed ==
    /\ cycle.pc # "sleep" /\ pass[Daemon].pc = "failed"
    /\ Sleep
    /\ UNCHANGED activity

PassDone(phase) == cycle.pc = phase /\ pass[Daemon].pc = "done"

\* Fault: no dispatch is tried unless the rebalance moved something.
AfterRelieve_AlwaysSkips ==
    /\ PassDone("relieve")
    /\ activity' = WithRebalance(activity, cycle.routed)
    /\ IF cycle.routed = 0
       THEN Sleep
       ELSE StartDispatch(Daemon) /\ Enter("retry", FALSE)

\* Saturated: the dispatch is tried again unless the cooloff is active and the
\* rebalance moved nothing.
AfterRelieve ==
    /\ PassDone("relieve")
    /\ activity' = WithRebalance(activity, cycle.routed)
    /\ IF CooloffActive(cycle.prior) /\ cycle.routed = 0
       THEN Sleep
       ELSE StartDispatch(Daemon) /\ Enter("retry", FALSE)

AfterRetry ==
    /\ PassDone("retry") \/ PassDone("recover")
    /\ activity' = WithRecovery(WithDispatch(activity, cycle.deferred), cycle.routed)
    /\ Sleep

AfterDispatch ==
    /\ PassDone("dispatch")
    /\ activity' = WithDispatch(activity, cycle.deferred)
    /\ IF Stabilized(cycle.prior) /\ cycle.deferred = 0
       THEN Sleep
       ELSE StartRebalance(Daemon) /\ Enter("rebalance", cycle.deferred > 0)

AfterRebalance ==
    /\ PassDone("rebalance")
    /\ activity' = WithRebalance(activity, cycle.routed)
    /\ IF cycle.waiting /\ cycle.routed > 0
       THEN StartDispatch(Daemon) /\ Enter("recover", TRUE)
       ELSE Sleep

DaemonStep ==
    CycleBegins \/ PassGoesOn \/ PassFailed
        \/ AfterRelieve \/ AfterRetry \/ AfterDispatch \/ AfterRebalance

DaemonCrashes ==
    /\ cycle.pc # "sleep"
    /\ Crash(Daemon)
    /\ cycle' = Asleep
    /\ UNCHANGED activity

Others ==
    /\ UserStep \/ \E p \in Dispatchers \ {Daemon} : DispatcherStep(p)
    /\ UNCHANGED <<activity, cycle>>

CycleNext == DaemonStep \/ DaemonCrashes \/ Others

CycleSpec == CycleInit /\ [][CycleNext]_cycleVars

\* The daemon loops as long as it runs.
CycleFairSpec == CycleSpec /\ WF_cycleVars(DaemonStep)

----------------------------------------------------------------------------
(* Properties.                                                             *)

\* The streak that daemons, dashboards and coordination status read as "chronic
\* saturation" is non-zero exactly while the daemon prefers to rebalance first,
\* whatever order its dispatches, recoveries and crashes come in.
StreakMeansSaturation ==
    activity.streak > 0 <=> PrefersRebalanceFirst(activity)

LeadWaits(s) ==
    Unread(s) # {} /\ Exists(s) /\ HasCapacity(s) /\ NewIds # {}

\* Outside a cooloff a lead with room for a delegate is not left waiting, in
\* whichever of its modes the daemon is.
ServedOutsideCooloff ==
    \A s \in Leads : []<>~(LeadWaits(s) /\ ~CooloffActive(activity))

=============================================================================
