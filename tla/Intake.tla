------------------------------- MODULE Intake -------------------------------
(***************************************************************************)
(* Work that reaches ecc2 from outside: scheduled tasks, which are due     *)
(* again and again, and remote dispatch requests, which are answered once. *)
(* WORKERS (daemons, `schedule run-due`, `remote run`) run passes over     *)
(* both tables: a pass lists what it will do, starts the work of one row   *)
(* after the other, and records each row after its work was started.       *)
(*                                                                         *)
(* A command is a worker that stops after its pass.  Starting work         *)
(* (queue_session, assign_session) is one step with an outcome; what is    *)
(* inside is the subject of WorktreeSlots and BacklogDispatch.             *)
(***************************************************************************)
EXTENDS Naturals, FiniteSets

CONSTANTS
    Schedules,    \* ids of scheduled tasks, in the order they are given
    Requests,     \* ids of remote requests, in the order they are given
    Urgent,       \* those of more than normal priority
    Targets,      \* the lead sessions requests may be addressed to
    Workers,
    Cron,         \* Cron[s][t]: the first run of s after t, 0 if there is none
    Limit,        \* cfg.max_parallel_sessions: rows a pass takes
    Horizon,      \* bound: the last moment of the clock
    MaxRows,      \* bound: how many rows are added in a behaviour
    MaxCrashes    \* bound: how many workers may crash in a behaviour

ASSUME IdsAssumption ==
    Schedules \subseteq Nat /\ Requests \subseteq Nat /\ Urgent \subseteq Requests

ASSUME BoundsAssumption ==
    /\ Limit \in Nat \ {0} /\ Horizon \in Nat /\ MaxRows \in Nat
    /\ MaxCrashes \in Nat

\* The cron crate: runs lie in the future, and later runs do not come earlier.
ASSUME CronAssumption ==
    /\ Cron \in [Schedules -> [0..Horizon -> Nat]]
    /\ \A s \in Schedules : \A t, u \in 0..Horizon :
          /\ Cron[s][t] # 0 => Cron[s][t] > t
          /\ t <= u /\ Cron[s][u] # 0 => Cron[s][t] # 0 /\ Cron[s][t] <= Cron[s][u]

NoTarget == "NoTarget"

VARIABLES
    clock,
    schedule,  \* schedule[s]: its row
    request,   \* request[r]: its row
    team,      \* team[g]: what assign_session finds when g is the lead
    broken,    \* the schedules whose work cannot be started at present
    worker,    \* worker[w]: its pass, the time it began, the rows left to do
    runs,      \* runs[s][d]: how often the run of s due at d was started
    started,   \* started[s]: when s was created or last started
    work,      \* work[r]: how often work was started for r
    crashes

\* The last four are history and bounds: the program keeps none of them.
rows == <<schedule, request>>
history == <<runs, started, work>>
vars == <<clock, rows, team, broken, worker, history, crashes>>

DuesOf(s) == {Cron[s][t] : t \in 0..Horizon}
Dues == UNION {DuesOf(s) : s \in Schedules}

\* A row as the pass listed it; the target may be stale when its turn comes.
Entry == [id : Schedules \cup Requests, key : Dues \cup {0, 1}, to : Targets \cup {NoTarget}]

TypeOK ==
    /\ clock \in 0..Horizon
    /\ schedule \in [Schedules -> [row : {"absent", "there", "removed"}, next : Dues \cup {0}]]
    /\ \A s \in Schedules : schedule[s].next \in DuesOf(s) \cup {0}
    /\ request \in [Requests -> [status : {"new", "pending", "dispatched", "failed"},
                                 target : Targets \cup {NoTarget}]]
    /\ team \in [Targets -> {"room", "saturated", "gone"}]
    /\ broken \subseteq Schedules
    /\ worker \in [Workers -> [pc   : {"schedules", "queue", "record_run", "requests", "serve",
                                      "record_success", "record_failure"},
                               now  : 0..Horizon,
                               todo : SUBSET Entry]]
    /\ runs \in [Schedules -> [Dues -> Nat]]
    /\ started \in [Schedules -> 0..Horizon]
    /\ work \in [Requests -> Nat]
    /\ crashes \in 0..MaxCrashes

\* A daemon begins with the schedules, `remote run` with the requests.
Init ==
    /\ clock = 0
    /\ schedule = [s \in Schedules |-> [row |-> "absent", next |-> 0]]
    /\ request = [r \in Requests |-> [status |-> "new", target |-> NoTarget]]
    /\ team = [g \in Targets |-> "room"]
    /\ broken = {}
    /\ worker \in [Workers -> [pc : {"schedules", "requests"}, now : {0}, todo : {{}}]]
    /\ runs = [s \in Schedules |-> [d \in Dues |-> 0]]
    /\ started = [s \in Schedules |-> 0]
    /\ work = [r \in Requests |-> 0]
    /\ crashes = 0

----------------------------------------------------------------------------
(* The lists of a pass: ORDER BY key, id LIMIT n.                          *)

Before(x, y) == x.key < y.key \/ (x.key = y.key /\ x.id < y.id)

FirstOf(entries, n) == {x \in entries : Cardinality({y \in entries : Before(y, x)}) < n}

Goto(w, label, todo) == worker' = [worker EXCEPT ![w].pc = label, ![w].todo = todo]

InHand(w, x) == x \in worker[w].todo /\ \A y \in worker[w].todo \ {x} : Before(x, y)

----------------------------------------------------------------------------
(* run_due_schedules.                                                      *)

\* Fault: a run is due only at its very moment.
Due_OnlyNow == {[id |-> s, key |-> schedule[s].next, to |-> NoTarget] :
           s \in {q \in Schedules : schedule[q].row = "there" /\ schedule[q].next = clock}}

Due == {[id |-> s, key |-> schedule[s].next, to |-> NoTarget] :
           s \in {q \in Schedules : schedule[q].row = "there" /\ schedule[q].next <= clock}}

BeginSchedules(w) ==
    /\ worker[w].pc = "schedules"
    /\ worker' = [worker EXCEPT ![w] = [pc |-> "queue", now |-> clock, todo |-> FirstOf(Due, Limit)]]
    /\ UNCHANGED <<clock, rows, team, broken, history, crashes>>

\* The error of one schedule ends the pass for all.
QueueSession(w, x) ==
    /\ worker[w].pc = "queue" /\ InHand(w, x)
    /\ IF x.id \in broken
       THEN Goto(w, "requests", {}) /\ UNCHANGED <<runs, started>>
       ELSE /\ runs' = [runs EXCEPT ![x.id][x.key] = @ + 1]
            /\ started' = [started EXCEPT ![x.id] = clock]
            /\ Goto(w, "record_run", worker[w].todo)
    /\ UNCHANGED <<clock, rows, team, broken, work, crashes>>

\* Faults: the next run is computed from the time of the record;
\* the row is not moved on.
RecordRun_FromNow(w, x) ==
    /\ worker[w].pc = "record_run" /\ InHand(w, x)
    /\ schedule' = [schedule EXCEPT ![x.id].next = IF schedule[x.id].row = "there"
                                                   THEN Cron[x.id][clock] ELSE @]
    /\ Goto(w, "queue", worker[w].todo \ {x})
    /\ UNCHANGED <<clock, request, team, broken, history, crashes>>

RecordRun_KeepsNext(w, x) ==
    /\ worker[w].pc = "record_run" /\ InHand(w, x)
    /\ Goto(w, "queue", worker[w].todo \ {x})
    /\ UNCHANGED <<clock, rows, team, broken, history, crashes>>

\* The next run is the first one after the pass began.  Without one the pass
\* ends in an error and nothing is recorded.
RecordRun(w, x) ==
    /\ worker[w].pc = "record_run" /\ InHand(w, x)
    /\ LET next == Cron[x.id][worker[w].now] IN
         IF next = 0
         THEN Goto(w, "requests", {}) /\ UNCHANGED schedule
         ELSE /\ schedule' = [schedule EXCEPT ![x.id].next =
                                 IF schedule[x.id].row = "there" THEN next ELSE @]
              /\ Goto(w, "queue", worker[w].todo \ {x})
    /\ UNCHANGED <<clock, request, team, broken, history, crashes>>

----------------------------------------------------------------------------
(* run_remote_dispatch_requests.                                           *)

\* Fault: requests that failed are taken up again.
Pending_FailedToo == {r \in Requests : request[r].status \in {"pending", "failed"}}

Pending == {r \in Requests : request[r].status = "pending"}

BeginRequests(w) ==
    /\ worker[w].pc = "requests"
    /\ Goto(w, "serve",
            FirstOf({[id |-> r, key |-> IF r \in Urgent THEN 0 ELSE 1, to |-> request[r].target] :
                        r \in Pending}, Limit))
    /\ UNCHANGED <<clock, rows, team, broken, history, crashes>>

HasTarget(x) == x.to # NoTarget

\* A request without a target becomes a top-level session of its own.
StartWork(w, x) ==
    /\ worker[w].pc = "serve" /\ InHand(w, x)
    /\ HasTarget(x) => team[x.to] = "room"
    /\ work' = [work EXCEPT ![x.id] = @ + 1]
    /\ Goto(w, "record_success", worker[w].todo)
    /\ UNCHANGED <<clock, rows, team, broken, runs, started, crashes>>

\* Fault: a request that is deferred ends the pass.
Defer_EndsPass(w, x) ==
    /\ worker[w].pc = "serve" /\ InHand(w, x)
    /\ HasTarget(x) /\ team[x.to] = "saturated"
    /\ Goto(w, "schedules", {})
    /\ UNCHANGED <<clock, rows, team, broken, history, crashes>>

\* Nothing is recorded: the request stays pending.
Defer(w, x) ==
    /\ worker[w].pc = "serve" /\ InHand(w, x)
    /\ HasTarget(x) /\ team[x.to] = "saturated"
    /\ Goto(w, "serve", worker[w].todo \ {x})
    /\ UNCHANGED <<clock, rows, team, broken, history, crashes>>

\* Any start may fail (git, the file system, the spawn); that of a request whose
\* target was deleted since it was listed can only fail.
StartFails(w, x) ==
    /\ worker[w].pc = "serve" /\ InHand(w, x)
    /\ Goto(w, "record_failure", worker[w].todo)
    /\ UNCHANGED <<clock, rows, team, broken, history, crashes>>

\* Whatever the row says by now is overwritten.
RecordAnswer(w, x) ==
    /\ worker[w].pc \in {"record_success", "record_failure"} /\ InHand(w, x)
    /\ request' = [request EXCEPT ![x.id].status =
                      IF worker[w].pc = "record_success" THEN "dispatched" ELSE "failed"]
    /\ Goto(w, "serve", worker[w].todo \ {x})
    /\ UNCHANGED <<clock, schedule, team, broken, history, crashes>>

EndPass(w) ==
    /\ worker[w].pc \in {"queue", "serve"} /\ worker[w].todo = {}
    /\ Goto(w, IF worker[w].pc = "queue" THEN "requests" ELSE "schedules", {})
    /\ UNCHANGED <<clock, rows, team, broken, history, crashes>>

WorkerStep(w) ==
    \/ BeginSchedules(w) \/ BeginRequests(w) \/ EndPass(w)
    \/ \E x \in worker[w].todo :
          \/ QueueSession(w, x) \/ RecordRun(w, x)
          \/ StartWork(w, x) \/ Defer(w, x) \/ StartFails(w, x) \/ RecordAnswer(w, x)

\* A worker that dies and is started again.
Crash(w) ==
    /\ crashes < MaxCrashes
    /\ worker[w].todo # {}
    /\ crashes' = crashes + 1
    /\ Goto(w, "schedules", {})
    /\ UNCHANGED <<clock, rows, team, broken, history>>

----------------------------------------------------------------------------
(* Users, the HTTP server, and time.                                       *)

RowsAdded == {s \in Schedules : schedule[s].row # "absent"}
Accepted == {r \in Requests : request[r].status # "new"}
RowsLeft == Cardinality(RowsAdded) + Cardinality(Accepted) < MaxRows

AddSchedule(s) ==
    /\ RowsLeft /\ schedule[s].row = "absent"
    /\ \A q \in Schedules : q < s => schedule[q].row # "absent"
    /\ Cron[s][clock] # 0
    /\ schedule' = [schedule EXCEPT ![s] = [row |-> "there", next |-> Cron[s][clock]]]
    /\ started' = [started EXCEPT ![s] = clock]
    /\ UNCHANGED <<clock, request, team, broken, worker, runs, work, crashes>>

RemoveSchedule(s) ==
    /\ schedule[s].row = "there"
    /\ schedule' = [schedule EXCEPT ![s].row = "removed"]
    /\ UNCHANGED <<clock, request, team, broken, worker, history, crashes>>

\* The target must exist when the request is accepted.
AddRequest(r) ==
    /\ RowsLeft /\ request[r].status = "new"
    /\ \A q \in Requests : q < r => request[q].status # "new"
    /\ \E g \in {NoTarget} \cup {q \in Targets : team[q] # "gone"} :
          request' = [request EXCEPT ![r] = [status |-> "pending", target |-> g]]
    /\ UNCHANGED <<clock, schedule, team, broken, worker, history, crashes>>

\* Delegates come and go.
TeamChanges(g) ==
    /\ team[g] # "gone"
    /\ \E new \in {"room", "saturated"} : team' = [team EXCEPT ![g] = new]
    /\ UNCHANGED <<clock, rows, broken, worker, history, crashes>>

\* The lead is deleted, and requests that were addressed to it no longer have a
\* target (ON DELETE SET NULL).
LeadDeleted(g) ==
    /\ team[g] # "gone"
    /\ team' = [team EXCEPT ![g] = "gone"]
    /\ request' = [r \in Requests |->
                      [request[r] EXCEPT !.target = IF @ = g THEN NoTarget ELSE @]]
    /\ UNCHANGED <<clock, schedule, broken, worker, history, crashes>>

\* What queue_session needs for a schedule (its directory, git, the agent's
\* program) breaks or is mended.
BreaksOrMends(s) ==
    /\ schedule[s].row = "there"
    /\ broken' = IF s \in broken THEN broken \ {s} ELSE broken \cup {s}
    /\ UNCHANGED <<clock, rows, team, worker, history, crashes>>

Tick ==
    /\ clock < Horizon
    /\ clock' = clock + 1
    /\ UNCHANGED <<rows, team, broken, worker, history, crashes>>

----------------------------------------------------------------------------

Next ==
    \/ \E w \in Workers : WorkerStep(w) \/ Crash(w)
    \/ \E s \in Schedules : AddSchedule(s) \/ RemoveSchedule(s) \/ BreaksOrMends(s)
    \/ \E r \in Requests : AddRequest(r)
    \/ \E g \in Targets : TeamChanges(g) \/ LeadDeleted(g)
    \/ Tick

Spec == Init /\ [][Next]_vars

\* Daemons loop as long as they run, and are started again when they crash.
FairSpec == Spec /\ \A w \in Workers : WF_vars(WorkerStep(w))

----------------------------------------------------------------------------
(* Properties.                                                             *)

\* A request is answered as RequestLedger promises, with work started once and
\* final answers, as long as one worker at a time serves requests.
Ledger == INSTANCE RequestLedger WITH
    status <- [r \in Requests |-> request[r].status], faults <- crashes

AnsweredOnce == Ledger!Spec

\* The run that is due at one time is started once, however long the pass took
\* and whoever added or removed schedules: a crash between the start and the
\* record costs at most one repetition.
StartedOncePerDue ==
    \A s \in Schedules : \A d \in Dues : runs[s][d] <= 1 + crashes

\* No run is skipped: what became due while a pass was under way is due still.
\* next_run_at is no later than the first run after the last start.
NoRunSkipped ==
    \A s \in Schedules :
        schedule[s].row = "there" /\ Cron[s][started[s]] # 0 =>
            schedule[s].next <= Cron[s][started[s]]

\* A schedule does not remain due, whatever crashes and is removed in the middle
\* of a pass, unless its work, or that of one ahead of it, cannot be started: the
\* error of the one ahead ends every pass before its turn comes.
IsDue(s) == schedule[s].row = "there" /\ schedule[s].next <= clock

Ahead(q, s) ==
    \/ schedule[q].next < schedule[s].next
    \/ schedule[q].next = schedule[s].next /\ q <= s

DueIsRun ==
    \A s \in Schedules :
        []<>(~IsDue(s) \/ \E q \in broken : IsDue(q) /\ Ahead(q, s))

\* A request without a target, from the start or because its lead was deleted,
\* waits behind requests whose targets are saturated, urgent as they may be, only
\* if these fill a whole pass.
Addressed(r) == request[r].target # NoTarget

Saturated(r) ==
    request[r].status = "pending" /\ Addressed(r) /\ team[request[r].target] = "saturated"

UntargetedIsAnswered ==
    \A r \in Requests :
        []<>\/ request[r].status # "pending" \/ Addressed(r)
             \/ Cardinality({q \in Requests : Saturated(q)}) >= Limit

=============================================================================
