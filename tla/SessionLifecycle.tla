------------------------- MODULE SessionLifecycle -------------------------
(***************************************************************************)
(* The life of one ecc2 session: its row in the SQLite store and the       *)
(* processes that write it without a transaction around what they read.    *)
(*                                                                         *)
(*  - a RUNNER is one `ecc run-session` process: it spawns the agent       *)
(*    (child), records pid and state, beats while the agent runs and       *)
(*    writes the final state when it exits (runtime.rs);                   *)
(*  - a COMMAND is one invocation of stop, resume or delete, from the CLI, *)
(*    the dashboard or a budget or conflict policy (manager.rs);           *)
(*  - a DAEMON fails crashed sessions when it starts and then enforces     *)
(*    heartbeats on every pass (daemon.rs).                                *)
(*                                                                         *)
(* Each step reads or writes the row once: the store runs every statement  *)
(* in a transaction of its own.  A runner's name stands for the pid of the *)
(* agent it spawned.                                                       *)
(***************************************************************************)
EXTENDS Naturals, SessionStates

CONSTANTS
    Runners,        \* runner processes that may be started for the session
    Commands,       \* invocations of stop, resume and delete
    Creator,        \* the invocation that queued the session
    Daemons,        \* processes that run the heartbeat pass
    NoPid,          \* a NULL pid column
    AutoTerminate,  \* cfg.auto_terminate_stale_sessions
    StoreFailures,  \* the statements of a runner the store may fail
    MaxCrashes      \* bound: how many processes may crash in a behaviour

ASSUME ConstantsAssumption ==
    /\ NoPid \notin Runners
    /\ Creator \notin Commands
    /\ AutoTerminate \in BOOLEAN
    /\ StoreFailures \subseteq {"launch", "end", "error"}
    /\ MaxCrashes \in Nat

\* The statements that launch the agent, that end its session, and that the
\* error path ends it with.
Statements == [launch |-> {"set_pid", "run_read", "run_write", "beat"},
               end    |-> {"clear_pid", "final_read", "final_write"},
               error  |-> {"err_clear", "err_read", "err_write"}]

NoRow == "NoRow"  \* the row was deleted
Actors == Commands \cup {Creator}

VARIABLES
    row,      \* the session's row: state, pid and whether its heartbeat is recent
    pc,       \* pc[r]: where runner r is
    child,    \* child[r]: the agent that runner r spawned
    op,       \* op[c]: where an invocation is, and the pid it read at the start
    daemon,   \* daemon[d]: where a daemon is, and the pid it read
    crashes,  \* crashes so far
    failed    \* history: the kinds of statements the store has failed

vars == <<row, pc, child, op, daemon, crashes, failed>>

Row == [state : SessionState \cup {NoRow},
        pid   : Runners \cup {NoPid},
        fresh : BOOLEAN]

RunnerPC == {"unused", "check", "spawn", "set_pid", "run_read", "run_write", "beat",
             "wait", "clear_pid", "final_read", "final_write",
             "err_clear", "err_read", "err_write", "done", "crashed"}

ChildState == {"none", "alive", "ok", "failed"}

OpPC == {"idle", "spawn", "spawn_failed", "fail_write",
         "stop_kill", "stop_clear", "stop_read", "stop_write",
         "reset", "delete", "done"}

DaemonPC == {"boot", "recover", "loop", "terminate", "fail_row",
             "stale_read", "stale_write", "down"}

TypeOK ==
    /\ row \in Row
    /\ pc \in [Runners -> RunnerPC]
    /\ child \in [Runners -> ChildState]
    /\ op \in [Actors -> [pc : OpPC, pid : Runners \cup {NoPid}]]
    /\ daemon \in [Daemons -> [pc : DaemonPC, pid : Runners \cup {NoPid}]]
    /\ crashes \in 0..MaxCrashes
    /\ failed \subseteq StoreFailures

\* queue_session has just inserted the row; its spawn of the runner is next.
Init ==
    /\ row = [state |-> "Pending", pid |-> NoPid, fresh |-> TRUE]
    /\ pc = [r \in Runners |-> "unused"]
    /\ child = [r \in Runners |-> "none"]
    /\ op = [c \in Actors |->
                [pc |-> IF c = Creator THEN "spawn" ELSE "idle", pid |-> NoPid]]
    /\ daemon = [d \in Daemons |-> [pc |-> "boot", pid |-> NoPid]]
    /\ crashes = 0
    /\ failed = {}

----------------------------------------------------------------------------
(* The store's statements on the row.  Each bails when the row is gone.    *)

RowExists == row.state # NoRow

\* The SELECT of update_state: the transition it is asked for is allowed.
Allows(s) == RowExists /\ CanTransition(row.state, s)

\* The UPDATE of update_state, which no longer looks at the current state.
WriteState(s) ==
    row' = IF RowExists THEN [row EXCEPT !.state = s, !.fresh = TRUE] ELSE row

UpdatePid(p) ==
    row' = IF RowExists THEN [row EXCEPT !.pid = p, !.fresh = TRUE] ELSE row

\* Fault: the two values are bound to each other's columns.
UpdateStateAndPid_Swapped(s, p) ==
    row' = IF RowExists THEN [state |-> p, pid |-> s, fresh |-> TRUE] ELSE row

UpdateStateAndPid(s, p) ==
    row' = IF RowExists THEN [state |-> s, pid |-> p, fresh |-> TRUE] ELSE row

TouchHeartbeat ==
    row' = IF RowExists THEN [row EXCEPT !.fresh = TRUE] ELSE row

\* Fault: the signals are sent to nobody.
KillProcess_Lost(p) == UNCHANGED child

\* SIGTERM then SIGKILL: the agent ends, with the exit status it chooses if it
\* handles the SIGTERM.  A pid that is gone is not an error.
KillProcess(p) ==
    IF p \in Runners /\ child[p] = "alive"
    THEN \E e \in {"ok", "failed"} : child' = [child EXCEPT ![p] = e]
    ELSE UNCHANGED child

\* Fault: a build without kill(2), where no pid ever looks alive.
PidIsAlive_Never(p) == FALSE

\* kill(pid, 0): an agent that exited is still there until its runner reaps it.
PidIsAlive(p) ==
    /\ p \in Runners
    /\ \/ child[p] = "alive"
       \/ child[p] # "none" /\ pc[p] \in {"set_pid", "run_read", "run_write", "beat", "wait"}

----------------------------------------------------------------------------
(* Runners: run_session and capture_command_output.                        *)

Goto(r, label) == pc' = [pc EXCEPT ![r] = label]

\* run_session goes on only from Pending; an agent type with no runner bails
\* before anything is written.
RunSession(r) ==
    /\ pc[r] = "check"
    /\ \/ row.state = "Pending" /\ Goto(r, "spawn")
       \/ Goto(r, "done")
    /\ UNCHANGED <<row, child, op, daemon, crashes, failed>>

SpawnAgent(r) ==
    /\ pc[r] = "spawn"
    /\ \/ Goto(r, "set_pid") /\ child' = [child EXCEPT ![r] = "alive"]
       \/ Goto(r, "err_clear") /\ UNCHANGED child
    /\ UNCHANGED <<row, op, daemon, crashes, failed>>

RecordPid(r) ==
    /\ pc[r] = "set_pid"
    /\ UpdatePid(r)
    /\ Goto(r, IF RowExists THEN "run_read" ELSE "err_clear")
    /\ UNCHANGED <<child, op, daemon, crashes, failed>>

RunningRead(r) ==
    /\ pc[r] = "run_read"
    /\ Goto(r, IF Allows("Running") THEN "run_write" ELSE "err_clear")
    /\ UNCHANGED <<row, child, op, daemon, crashes, failed>>

RunningWrite(r) ==
    /\ pc[r] = "run_write"
    /\ WriteState("Running")
    /\ Goto(r, IF RowExists THEN "beat" ELSE "err_clear")
    /\ UNCHANGED <<child, op, daemon, crashes, failed>>

FirstBeat(r) ==
    /\ pc[r] = "beat"
    /\ TouchHeartbeat
    /\ Goto(r, IF RowExists THEN "wait" ELSE "err_clear")
    /\ UNCHANGED <<child, op, daemon, crashes, failed>>

\* The heartbeat task, and every captured line of output, refresh the row.
Heartbeat(r) ==
    /\ pc[r] = "wait"
    /\ TouchHeartbeat
    /\ UNCHANGED <<pc, child, op, daemon, crashes, failed>>

\* The agent exited and its output is drained; draining fails when a line is
\* not UTF-8 or cannot be stored.
ReapAgent(r) ==
    /\ pc[r] = "wait"
    /\ child[r] \in {"ok", "failed"}
    /\ \E next \in {"clear_pid", "err_clear"} : Goto(r, next)
    /\ UNCHANGED <<row, child, op, daemon, crashes, failed>>

ClearPid(r) ==
    /\ pc[r] = "clear_pid"
    /\ UpdatePid(NoPid)
    /\ Goto(r, IF RowExists THEN "final_read" ELSE "err_clear")
    /\ UNCHANGED <<child, op, daemon, crashes, failed>>

\* Fault: every exit counts as success.
FinalState_IgnoresStatus(r) == "Completed"

FinalState(r) == IF child[r] = "ok" THEN "Completed" ELSE "Failed"

FinalRead(r) ==
    /\ pc[r] = "final_read"
    /\ Goto(r, IF Allows(FinalState(r)) THEN "final_write" ELSE "err_clear")
    /\ UNCHANGED <<row, child, op, daemon, crashes, failed>>

FinalWrite(r) ==
    /\ pc[r] = "final_write"
    /\ WriteState(FinalState(r))
    /\ Goto(r, IF RowExists THEN "done" ELSE "err_clear")
    /\ UNCHANGED <<child, op, daemon, crashes, failed>>

\* Faults: the error path leaves the pid; it gives up before the state.
ErrorClear_KeepsPid(r) ==
    /\ pc[r] = "err_clear"
    /\ Goto(r, "err_read")
    /\ UNCHANGED <<row, child, op, daemon, crashes, failed>>

ErrorRead_GivesUp(r) ==
    /\ pc[r] = "err_read"
    /\ Goto(r, "done")
    /\ UNCHANGED <<row, child, op, daemon, crashes, failed>>

\* The error path ignores what its writes return and never kills the agent.
ErrorClear(r) ==
    /\ pc[r] = "err_clear"
    /\ UpdatePid(NoPid)
    /\ Goto(r, "err_read")
    /\ UNCHANGED <<child, op, daemon, crashes, failed>>

ErrorRead(r) ==
    /\ pc[r] = "err_read"
    /\ Goto(r, IF Allows("Failed") THEN "err_write" ELSE "done")
    /\ UNCHANGED <<row, child, op, daemon, crashes, failed>>

ErrorWrite(r) ==
    /\ pc[r] = "err_write"
    /\ WriteState("Failed")
    /\ Goto(r, "done")
    /\ UNCHANGED <<child, op, daemon, crashes, failed>>

\* The store fails a statement (it stays busy past its timeout, an I/O error) and
\* leaves the row as it was.  At launch and at the end that takes the runner to
\* the error path, whose agent lives on; the error path ignores it.
StoreFails(r) ==
    /\ \E part \in StoreFailures :
          /\ pc[r] \in Statements[part]
          /\ failed' = failed \cup {part}
          /\ Goto(r, CASE part # "error" -> "err_clear"
                       [] pc[r] = "err_clear" -> "err_read"
                       [] OTHER -> "done")
    /\ UNCHANGED <<row, child, op, daemon, crashes>>

RunnerStep(r) ==
    \/ RunSession(r) \/ SpawnAgent(r) \/ RecordPid(r) \/ RunningRead(r)
    \/ RunningWrite(r) \/ FirstBeat(r) \/ ReapAgent(r) \/ ClearPid(r)
    \/ FinalRead(r) \/ FinalWrite(r) \/ ErrorClear(r) \/ ErrorRead(r) \/ ErrorWrite(r)
    \/ StoreFails(r)

----------------------------------------------------------------------------
(* Commands.  An invocation runs once.                                     *)

OpGoto(c, label) == op' = [op EXCEPT ![c].pc = label]

\* spawn_session_runner: a new runner process starts, or the spawn fails;
\* queue_session answers a failure with update_state(Failed), resume does not.
SpawnRunner(c) ==
    /\ op[c].pc = "spawn"
    /\ \/ \E r \in Runners :
             /\ pc[r] = "unused"
             /\ Goto(r, "check")
             /\ OpGoto(c, "done")
       \/ /\ OpGoto(c, IF c = Creator THEN "spawn_failed" ELSE "done")
          /\ UNCHANGED pc
    /\ UNCHANGED <<row, child, daemon, crashes, failed>>

QueueFailedRead(c) ==
    /\ op[c].pc = "spawn_failed"
    /\ OpGoto(c, IF Allows("Failed") THEN "fail_write" ELSE "done")
    /\ UNCHANGED <<row, pc, child, daemon, crashes, failed>>

QueueFailedWrite(c) ==
    /\ op[c].pc = "fail_write"
    /\ WriteState("Failed")
    /\ OpGoto(c, "done")
    /\ UNCHANGED <<pc, child, daemon, crashes, failed>>

\* stop_session, and the budget and conflict policies that call it: the pid is
\* the one of the snapshot.
StopBegin(c) ==
    /\ op[c].pc = "idle"
    /\ RowExists
    /\ op' = [op EXCEPT ![c] = [pc |-> "stop_kill", pid |-> row.pid]]
    /\ UNCHANGED <<row, pc, child, daemon, crashes, failed>>

StopKill(c) ==
    /\ op[c].pc = "stop_kill"
    /\ KillProcess(op[c].pid)
    /\ OpGoto(c, "stop_clear")
    /\ UNCHANGED <<row, pc, daemon, crashes, failed>>

StopClearPid(c) ==
    /\ op[c].pc = "stop_clear"
    /\ UpdatePid(NoPid)
    /\ OpGoto(c, IF RowExists THEN "stop_read" ELSE "done")
    /\ UNCHANGED <<pc, child, daemon, crashes, failed>>

StopRead(c) ==
    /\ op[c].pc = "stop_read"
    /\ OpGoto(c, IF Allows("Stopped") THEN "stop_write" ELSE "done")
    /\ UNCHANGED <<row, pc, child, daemon, crashes, failed>>

StopWrite(c) ==
    /\ op[c].pc = "stop_write"
    /\ WriteState("Stopped")
    /\ OpGoto(c, "done")
    /\ UNCHANGED <<pc, child, daemon, crashes, failed>>

ResumeBegin(c) ==
    /\ op[c].pc = "idle"
    /\ row.state \notin {NoRow, "Completed", "Running"}
    /\ OpGoto(c, "reset")
    /\ UNCHANGED <<row, pc, child, daemon, crashes, failed>>

ResumeReset(c) ==
    /\ op[c].pc = "reset"
    /\ UpdateStateAndPid("Pending", NoPid)
    /\ OpGoto(c, IF RowExists THEN "spawn" ELSE "done")
    /\ UNCHANGED <<pc, child, daemon, crashes, failed>>

DeleteBegin(c) ==
    /\ op[c].pc = "idle"
    /\ row.state \notin {NoRow, "Pending", "Running", "Idle"}
    /\ OpGoto(c, "delete")
    /\ UNCHANGED <<row, pc, child, daemon, crashes, failed>>

DeleteRow(c) ==
    /\ op[c].pc = "delete"
    /\ row' = [state |-> NoRow, pid |-> NoPid, fresh |-> FALSE]
    /\ OpGoto(c, "done")
    /\ UNCHANGED <<pc, child, daemon, crashes, failed>>

\* The invoking process is interrupted, or a call of it fails (a pid the user
\* may not signal), and the rest of the command does not happen.
CommandAborts(c) ==
    /\ op[c].pc \notin {"idle", "done"}
    /\ OpGoto(c, "done")
    /\ UNCHANGED <<row, pc, child, daemon, crashes, failed>>

CommandStep(c) ==
    \/ SpawnRunner(c) \/ QueueFailedRead(c) \/ QueueFailedWrite(c)
    \/ StopBegin(c) \/ StopKill(c) \/ StopClearPid(c) \/ StopRead(c) \/ StopWrite(c)
    \/ ResumeBegin(c) \/ ResumeReset(c) \/ DeleteBegin(c) \/ DeleteRow(c)
    \/ CommandAborts(c)

----------------------------------------------------------------------------
(* Daemons.                                                                *)

DaemonGoto(d, label) == daemon' = [daemon EXCEPT ![d].pc = label]
DaemonReads(d, label) == daemon' = [daemon EXCEPT ![d] = [pc |-> label, pid |-> row.pid]]

\* resume_crashed_sessions lists the sessions and looks at the Running ones.
RecoverScan(d) ==
    /\ daemon[d].pc = "boot"
    /\ IF row.state = "Running" THEN DaemonReads(d, "recover") ELSE DaemonGoto(d, "loop")
    /\ UNCHANGED <<row, pc, child, op, crashes, failed>>

\* A session whose listed pid is missing or dead is failed, whatever its row
\* says by now.
Recover(d) ==
    /\ daemon[d].pc = "recover"
    /\ IF PidIsAlive(daemon[d].pid)
       THEN UNCHANGED row
       ELSE UpdateStateAndPid("Failed", NoPid)
    /\ DaemonGoto(d, "loop")
    /\ UNCHANGED <<pc, child, op, crashes, failed>>

\* Fault: only rows that still name a pid are looked at.
PassScan_NeedsPid(d) ==
    /\ daemon[d].pc = "loop"
    /\ row.state \in {"Running", "Stale"} /\ ~row.fresh /\ row.pid # NoPid
    /\ DaemonReads(d, IF AutoTerminate THEN "terminate" ELSE "stale_read")
    /\ UNCHANGED <<row, pc, child, op, crashes, failed>>

\* enforce_session_heartbeats lists the sessions and finds this one expired.
PassScan(d) ==
    /\ daemon[d].pc = "loop"
    /\ row.state \in {"Running", "Stale"}
    /\ ~row.fresh
    /\ \/ AutoTerminate /\ DaemonReads(d, "terminate")
       \/ ~AutoTerminate /\ row.state # "Stale" /\ DaemonGoto(d, "stale_read")
    /\ UNCHANGED <<row, pc, child, op, crashes, failed>>

TerminateAgent(d) ==
    /\ daemon[d].pc = "terminate"
    /\ KillProcess(daemon[d].pid)
    /\ DaemonGoto(d, "fail_row")
    /\ UNCHANGED <<row, pc, op, crashes, failed>>

FailRow(d) ==
    /\ daemon[d].pc = "fail_row"
    /\ UpdateStateAndPid("Failed", NoPid)
    /\ DaemonGoto(d, "loop")
    /\ UNCHANGED <<pc, child, op, crashes, failed>>

StaleRead(d) ==
    /\ daemon[d].pc = "stale_read"
    /\ DaemonGoto(d, IF Allows("Stale") THEN "stale_write" ELSE "loop")
    /\ UNCHANGED <<row, pc, child, op, crashes, failed>>

StaleWrite(d) ==
    /\ daemon[d].pc = "stale_write"
    /\ WriteState("Stale")
    /\ DaemonGoto(d, "loop")
    /\ UNCHANGED <<pc, child, op, crashes, failed>>

DaemonRestarts(d) ==
    /\ daemon[d].pc = "down"
    /\ daemon' = [daemon EXCEPT ![d] = [pc |-> "boot", pid |-> NoPid]]
    /\ UNCHANGED <<row, pc, child, op, crashes, failed>>

DaemonStep(d) ==
    \/ RecoverScan(d) \/ Recover(d) \/ PassScan(d) \/ TerminateAgent(d)
    \/ FailRow(d) \/ StaleRead(d) \/ StaleWrite(d) \/ DaemonRestarts(d)

----------------------------------------------------------------------------
(* The environment: agents exit, time passes, processes crash.             *)

AgentExits(r) ==
    /\ child[r] = "alive"
    /\ \E e \in {"ok", "failed"} : child' = [child EXCEPT ![r] = e]
    /\ UNCHANGED <<row, pc, op, daemon, crashes, failed>>

\* session_timeout_secs have passed since the last write that refreshed the row.
HeartbeatExpires ==
    /\ RowExists
    /\ row.fresh
    /\ row' = [row EXCEPT !.fresh = FALSE]
    /\ UNCHANGED <<pc, child, op, daemon, crashes, failed>>

RunnerAlive(r) == pc[r] \notin {"unused", "done", "crashed"}

\* A runner that dies leaves its agent running.
RunnerCrashes(r) ==
    /\ RunnerAlive(r)
    /\ crashes < MaxCrashes
    /\ crashes' = crashes + 1
    /\ Goto(r, "crashed")
    /\ UNCHANGED <<row, child, op, daemon, failed>>

DaemonCrashes(d) ==
    /\ daemon[d].pc # "down"
    /\ crashes < MaxCrashes
    /\ crashes' = crashes + 1
    /\ daemon' = [daemon EXCEPT ![d] = [pc |-> "down", pid |-> NoPid]]
    /\ UNCHANGED <<row, pc, child, op, failed>>

Next ==
    \/ \E r \in Runners : RunnerStep(r) \/ Heartbeat(r) \/ AgentExits(r) \/ RunnerCrashes(r)
    \/ \E c \in Actors : CommandStep(c)
    \/ \E d \in Daemons : DaemonStep(d) \/ DaemonCrashes(d)
    \/ HeartbeatExpires

Spec == Init /\ [][Next]_vars

\* No runner refreshes the row any more, so time is bound to pass.
HeartbeatLapses == HeartbeatExpires /\ \A r \in Runners : pc[r] # "wait"

\* Runners are never blocked between two statements, the daemon loop sleeps a
\* fixed interval between passes, and a daemon that died is started again.
\* Nothing is assumed of agents and commands.
Fairness ==
    /\ \A r \in Runners : WF_vars(RunnerStep(r))
    /\ \A d \in Daemons : WF_vars(DaemonStep(d))
    /\ WF_vars(HeartbeatLapses)

FairSpec == Spec /\ Fairness

----------------------------------------------------------------------------
(* Properties.                                                             *)

OwesFinalWrite == {"beat", "wait", "clear_pid", "final_read", "final_write",
                   "err_clear", "err_read", "err_write", "crashed"}
HoldsPid == {"run_read", "run_write", "beat", "wait", "clear_pid", "err_clear", "crashed"}

\* A Running row is backed by a runner that still has to write a final state, or
\* by one that crashed: no path of capture_command_output ends and leaves the row
\* Running, whatever commands and daemons write in between and whichever of its
\* other statements fails, unless the store fails the error path itself.
RunningIsOwed ==
    "error" \notin failed /\ row.state = "Running" =>
        \E r \in Runners : pc[r] \in OwesFinalWrite

\* A recorded pid belongs to a runner that will still clear it, or that
\* crashed: a finished runner does not leave its pid behind to be signalled by a
\* later stop, when the number may be another process's, unless the store fails
\* the error path.
PidHasOwner ==
    "error" \notin failed /\ row.pid # NoPid => pc[row.pid] \in HoldsPid

\* Completed is only ever written for an agent that exited 0, also when a
\* second runner, a stop or the daemon wrote the row meanwhile.
CompletedByExitZero ==
    row.state = "Completed" => \E r \in Runners : child[r] = "ok"

Undisturbed == \A c \in Commands : op[c].pc = "idle"

\* As long as nobody stops, resumes or deletes the session, and stale sessions
\* are not killed, daemons that start, crash and pass at any moment never make
\* the store lose an agent: its pid is recorded and its row Running or Stale.
UndisturbedAgentIsTracked ==
    Undisturbed /\ ~AutoTerminate =>
        \A r \in Runners : pc[r] = "wait" =>
            row.pid = r /\ row.state \in {"Running", "Stale"}

\* As long as nobody stops, resumes or deletes the session and the store fails no
\* statement of the launch, a Failed row means that no agent is left running,
\* also when the daemon's kill raced the launch or when the daemon found the
\* runner dead.  A launch statement that fails leaves the agent running: the
\* error path writes Failed and kills nothing.
FailedAgentIsGone ==
    Undisturbed /\ "launch" \notin failed /\ row.state = "Failed" =>
        \A r \in Runners : child[r] # "alive"

\* A session whose runners are all gone, crashed or with an error path the store
\* failed, does not stay Running: the heartbeat pass or the next daemon start
\* moves it on.
LostRunnerIsNoticed ==
    (row.state = "Running" /\ \A r \in Runners : ~RunnerAlive(r)) ~> row.state # "Running"

=============================================================================
