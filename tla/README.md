# Verification of the agent harness

This directory holds TLA+ models of the two halves of `src/engine`: `ecc2`, the
Rust program that runs coding agents in parallel over one SQLite database, and
the JavaScript under `engine/scripts` that keeps state: the installers, Plan
Canvas, the coordination of epics through GitHub issues, and the hooks. TLC
checks the models on small instances, and TLAPS proves many of the results for
every instance.

## 1. The system

### 1.1 What the repository holds

| Part | Where | Modelled |
| --- | --- | --- |
| Session lifecycle | `ecc2/src/session/{mod,runtime,manager,store,daemon}.rs` | `SessionLifecycle`, `SessionStates` |
| Worktree slots, activation queue, pruning | `session/manager.rs`, `worktree/mod.rs`, `store.rs` | `WorktreeSlots` |
| Backlog dispatch, rebalancing, assignment | `session/manager.rs`, `store.rs`, `comms/mod.rs` | `BacklogDispatch` |
| The daemon's coordination cycle | `session/daemon.rs`, `store.rs` | `DaemonCycle` |
| Scheduled tasks, remote dispatch | `manager.rs`, `store.rs`, `daemon.rs`, `main.rs` | `Intake`, `RequestLedger` |
| Install, repair, uninstall | `scripts/lib/install-lifecycle.js`, `lib/install/` | `ManagedInstall` |
| Settings lock and settings updates | `lib/install/claude-settings{,-lock}.js`, `lib/atomic-write.js` | `SettingsLock` |
| Plan Canvas | `lib/plan-canvas/`, `plan-canvas.js`, `hooks/plan-canvas-pending.js` | `PlanCanvas` |
| GitHub coordination | `lib/github-coordination/`, `lib/state-store/` | `Coordination` |
| Health check of MCP servers | `hooks/mcp-health-check.js` | `McpHealth` |
| Dashboard, command line of ecc2 | `tui/`, `main.rs` | what they write is an action of the modules above |

Not modelled, and why:

- Merge queue (`manager.rs`): its outcome is decided by git merges, of which a
  model would have to assume what it should show.
- Conflict resolution and budgets (`manager.rs`): policies whose effect is a
  stop command of `SessionLifecycle`; the rest is arithmetic and a log.
- Output capture, notifications, context graph, configuration, harness
  evaluation: bounded buffers, I/O, insert-only tables, parsing.
- Choosing what to install (manifests, profiles, targets), merging JSON,
  rendering templates, setup scripts: they compute a plan and keep no state.
- Worktree scripts (`worktree-lifecycle/`, `tmux-worktree-orchestrator.js`):
  nothing is kept between two invocations.
- Command classification (`powershell-destructive-command.js` and the patterns
  of the gate): pure functions of a string, better served by their tests. Hooks
  that judge one tool call and forget it, and the log of edited files.
- The fact-forcing gate (`gateguard-fact-force.js`) keeps the keys a session was
  asked about in a file that parallel hooks merge and rename. It is the next
  component of the plan (5).
- Reports, audits, dashboards, video scripts: they read and format.
- Demo funds transfer service: one process with a store in memory, whose
  defects are seeded on purpose. Skills, agents, commands, rules: Markdown.

### 1.2 Components of ecc2: state, operations, interaction

**Store** (`store.rs`). One SQLite file. Every statement commits on its own:
there is no transaction around a read and the write that depends on it. All
components below meet here, and only here.

**Session lifecycle.** State: the row (`state`, `pid`, `last_heartbeat_at`,
`worktree`, `working_dir`). Operations: `queue_session`, `run_session` with
`capture_command_output`, `stop_session`, `resume_session`, `delete_session`,
`resume_crashed_sessions`, `enforce_session_heartbeats`. Writers: one runner
process per run, any number of command-line and dashboard invocations, daemons,
and the policies (budget, conflicts) that stop sessions. Correct when a row
says what is true of its agent: Running is owed a final write, a pid belongs to
a live runner, Completed was earned, a final state stays final.

**Worktree slots.** State: which rows have a worktree attached, the git
worktrees, the queue of sessions that wait. Operations: creating a session,
activating the queue, pruning, stop with cleanup, resume, delete. Interaction:
the daemon and every open dashboard run activation and pruning. Correct when a
running agent keeps its directory, a session is started once, slots come back
and the queue moves.

**Backlog dispatch.** State: messages of type `task_handoff`, read or unread,
and the delegation graph they imply. Operations: `send`, `inbox`, `assign`,
`auto_dispatch_backlog`, `rebalance_all_teams`. Interaction: the daemon, the
dashboard and the command line all run passes. Correct when no task is lost, a
handoff is passed on once, teams keep to their limit and a lead with room is
served.

**Daemon cycle.** State: one `daemon_activity` row. Operations:
`coordinate_backlog_cycle`, the three `record_daemon_*_pass` statements, and
the predicates that read the row. Correct when the recorded streak and the mode
agree, every mode leads back to dispatching, and saturation that lasts reaches
the operator.

**Scheduled tasks and remote dispatch.** State: the `scheduled_tasks` rows with
their next run, the `remote_dispatch_requests` rows with their status.
Operations: adding and removing schedules, accepting requests (HTTP server,
command line), `run_due_schedules`, `run_remote_dispatch_requests`. Interaction:
the daemon runs both passes; `schedule run-due` and `remote run` run one; both
start work through `queue_session`, requests with a target through
`assign_session`. Correct when a due run is started once and none is skipped,
a request is answered once and for good, and nothing waits for ever.

**Installer.** State: the files of a target, the hook entry of its settings, the
install-state that records which of them are ECC's and with which digest.
Operations: `applyInstallPlan`, repair, uninstall, the migration of nested
skills. Interaction: with the user, who edits and deletes in the same
directories, and with the release in the checkout. Correct when everything ECC
wrote is recorded, and nothing the user wrote is overwritten, adopted or
removed.

**Settings lock.** State: a lock file that names a pid, a directory that marks a
recovery, `settings.json`. Operations: acquire, release, recover, update.
Interaction: ECC processes with each other, and with the user's editor and
Claude, which do not take the lock. Correct when one process holds it and no
update or edit is lost.

**Plan Canvas.** State: a session (open or ended, a queue of feedback) in the
memory of the server and in a file, polls that are held, connected pages, the
presence they show. Operations: the handlers of the server, its start, idle
shutdown and hand-over, `await`, the stop hook. Interaction: HTTP between
browser, server and clients; the file between servers and the hook. Correct
when each item reaches the agent once, nobody sleeps on what is there, and the
page says what is true.

**Coordination.** State: a JSON section in the body of each issue, labels and a
row of the state store, both projections of it. Operations: claim, validate,
publish, review, decompose, unblock, sync. Interaction: commands of several
agents on GitHub, and on a database that each of them loads and exports whole.
Correct when a claim is not taken by somebody who saw it, and the three views
agree again after a sync.

**Hooks.** The health check keeps a verdict for each MCP server in one file. Each
tool call starts a process that reads the whole file, and writes the whole of it
later, when a probe of seconds has ended. Correct when verdicts are recent, and a
server that is back is used.

### 1.3 What is hard here

- a row is read in one statement and written in another, by several processes;
- passes work on lists that were read at their start and go stale;
- what is done first and recorded afterwards is done again after a crash;
- a process may die, and the store then says something that is no longer true;
- slots, teams and passes have limits that are counted before they are used;
- a daemon policy decides on counts that its own decisions stop updating;
- short-lived processes share small files: each reads all of one, computes or
  waits, and writes all of it, over what came meanwhile;
- a user edits the files that a command plans, writes, repairs or removes;
- an answer may be written to a connection whose client is gone.

`PROJECT.json` lists each hazard with its line and the properties that cover it.

## 2. Modules

| Module | Models | Lines of the code |
| --- | --- | --- |
| `SessionStates` | `SessionState::can_transition_to` | `mod.rs` 321-381 |
| `SessionLifecycle` | one session row and all its writers | `runtime.rs` 137-228, `manager.rs`, `daemon.rs`, `store.rs` |
| `SessionLifecycleProofs` | theorems | |
| `WorktreeSlots` | slots, queue, activation, pruning | `manager.rs` 2034-2066, 2385-2664, 3573-3598 |
| `WorktreeSlotsProofs` | theorems | |
| `BacklogDispatch` | messages and passes | `manager.rs` 903-1155, 1548-1694, `store.rs` 2751-2869 |
| `DaemonCycle` | EXTENDS `BacklogDispatch`; the cycle over its passes | `daemon.rs` 142-366, `store.rs` 100-180, 3806-3863 |
| `DaemonCycleProofs` | theorems about `BacklogDispatch` and `DaemonCycle` | |
| `Intake` | schedules, remote requests and the passes over them | `manager.rs` 116-157, 206-253, 375-576, `store.rs` 1552-1764, `daemon.rs` 100-125 |
| `RequestLedger` | the abstract specification of remote dispatch | |
| `IntakeProofs` | theorems | |
| `ManagedInstall` | commands of the installer, step by step, and the user | `install-lifecycle.js`, `install/apply.js`, `install/ownership-guard.js`, `install/claude-skill-migration.js` |
| `SettingsLock` | the lock, its recovery, updates under it | `claude-settings-lock.js` 13-165, `claude-settings.js` 330-444, `atomic-write.js` |
| `PlanCanvas` | servers, clients, page, stop hook, one session | `plan-canvas/server.js`, `sessions.js`, `plan-canvas-pending.js` |
| `Coordination` | commands over epics, GitHub, the state store | `github-coordination/actions.js`, `state.js`, `store.js`, `state-store/index.js` |
| `McpHealth` | hooks before and after MCP calls, their verdicts | `mcp-health-check.js` 85-105, 202-232, 599-710 |
| `InstallerProofs` | theorems about `ManagedInstall` and `SettingsLock` | |
| `PlanCanvasProofs`, `CoordinationProofs`, `McpHealthProofs` | theorems | |
| `MC...` | symmetry sets and cron functions for the runs | |

`WorktreeSlots` and `SessionLifecycle` share `SessionStates`. `DaemonCycle`
composes `BacklogDispatch` with the daemon's policy: its steps are the passes
of that module, run in the order the policy chooses, beside other dispatchers. It
is proved to implement it (`Implements`).
`Intake` implements `RequestLedger` under the refinement mapping of `Ledger`.
`ManagedInstall` and `SettingsLock` meet in the settings file: the lock is why
the former runs one command at a time. The stop hook is part of `PlanCanvas`.
The other modules share no state, as the parts they model share none.

A `Fault` operator after a definition is a plausible bug in the code it stands
for. No specification uses one; `PROJECT.json` names the property that each of
them breaks.

### 2.1 SessionLifecycle

One row, so that the interleavings can be fine: each action is one statement of
the store or one effect on a process. `update_state` is a pair of actions, the
SELECT that checks the transition (`Allows`) and the UPDATE (`WriteState`).
A statement of a runner may fail in the store (`StoreFails`: busy past its
timeout, an I/O error); `StoreFailures` says which may, those of the launch
(runtime.rs:173-175), of the regular end, or of the error path, which ignores its
failures (223-224). `failed` remembers which did, for the properties. A failing
statement of a daemon ends its pass or the daemon, which is what the model's
daemon does in a crash; one of a command ends the command before its next step.

- A runner walks through `RunSession`, `SpawnAgent`, `RecordPid`,
  `RunningRead`/`RunningWrite`, `FirstBeat`, `Heartbeat`, `ReapAgent`,
  `ClearPid`, `FinalRead`/`FinalWrite`; an error takes it to
  `ErrorClear`, `ErrorRead`, `ErrorWrite`. The name of a runner is the pid of
  its agent. Agents exit with either status, at any time.
- A command is a stop (`StopBegin` reads the row, then `StopKill`,
  `StopClearPid`, `StopRead`, `StopWrite`), a resume or a delete. The creator
  is the invocation that queued the session.
- A daemon scans for crashed sessions, then loops over the heartbeat pass.
- Timestamps are one bit: the heartbeat is fresh or late.

### 2.2 WorktreeSlots

Several rows, with only the columns that slots depend on. Each session has its
creator, which counts slots, creates the worktree, inserts the row, enqueues it
or starts the runner. A daemon goes through one pass: count, list, pick,
create, attach, launch, dequeue for each request, then scan and clean. A user
stops with cleanup, resumes or deletes; `UserActs` says which of these users do
at all. A session is in the queue once, as its id is the key of the table.

Simplifications: runners are reduced to start and end, one per session at a
time; the check and the write of `update_state` are one step (their race is the
subject of `SessionLifecycle`); `worktree_retention_secs` is 0, its default, so
nothing is retained; the prune pass visits sessions in any order; a git command
either works or fails as a whole. Deleting a session deletes its request in the
queue (`ON DELETE CASCADE`, store.rs:345).

### 2.3 BacklogDispatch

A session is unborn, active, over or gone. `mail` is the messages table, in
the order of ids; a deleted message keeps its place and is skipped, so that the
properties can speak of its history (`via` is the handoff that it passes on,
and is not in the table). A pass keeps what the code keeps in local variables:
the sessions to visit, the messages of the one in hand (`todo`,
of which the oldest is in hand), the delegate it chose.
One loop iteration of the code is `Route` (the reads of
`assign_session_in_dir_with_runner_program` and its choice), `QueueDelegate` or
nothing, `SendHandoff`, `MarkRead`.

Simplifications: nothing in the program writes the state Idle, so the branches
for idle delegates are left out; handoffs have one priority; all sessions have
one agent type; a lead has fewer than the 50 delegates `delegated_children`
returns; which active delegate the context graph prefers is a free choice; the
reads of one assignment are one step; unread messages of other kinds, which the
rebalance pass counts too, are left out. Handoffs come from sessions outside
the teams, and, with the act `send`, in the name of a lead.

### 2.4 DaemonCycle

`activity` is the `daemon_activity` row with its timestamps reduced to whether
the last recovery is older or newer than the last dispatch. `cycle` is the
local state of `coordinate_backlog_cycle_with`: the phase, the row it read at
the start, what the pass in hand routed and deferred. Auto-dispatch is on
(`auto_dispatch_unread_handoffs`; with it off the cycle does nothing). The
counts are capped where the code stops comparing: deferred at 2, streak at 5,
the others at 1. An error in a pass ends the cycle and records nothing for that
pass. The two records that follow one dispatch are one step.

### 2.5 Intake and RequestLedger

A worker runs a pass over the schedules, then one over the requests, and begins
again. A pass lists the rows it will take (`BeginSchedules`, `BeginRequests`:
in the order of the query, up to its limit) and works on that list while rows
are added, removed and answered. For a schedule it starts the session
(`QueueSession`), then records the run (`RecordRun`); for a request it starts
work (`StartWork`), defers it (`Defer`) or fails (`StartFails`), then records
the answer (`RecordAnswer`). `runs`, `started` and `work` count what was started
and exist only for the properties.

Deleting the lead a request is addressed to (`LeadDeleted`) takes the target out of
the pending row (`ON DELETE SET NULL`, store.rs:369). A pass that lists the request
afterwards starts it as a top-level session and answers "dispatched"; one that had
listed it before still has the target in its copy (`to` in the list), cannot route to
it, and answers "failed". Any other start may fail as well. `broken` holds the
schedules whose session cannot be started (a deleted working directory, a branch that
is in the way): the first of them ends the pass, and `BreaksOrMends` says that this
may last for ever.

Simplifications: starting work is one step with an outcome, as the modules above
say what is in it, and the team of a target is reduced to that outcome (`team`);
a request is of normal or higher priority; `Cron` is a constant function of
which the crate's documentation is assumed (`CronAssumption`); a statement of
the store does not fail after work was started. `schedule run-due` and `remote
run` are workers that stop after a pass.

`RequestLedger` has one row per request and no passes: accepted, work started,
answered, with a fault as the only reason for work to start again.

### 2.6 ManagedInstall

A command goes through the code's persistence points: the plan (`InstallPlan`,
`RepairPlan`, `UninstallPlan`), the bridge state that is written before the first
file (`InstallBridge`, `RepairBridge`), the files one by one, the hook entry, the
nested files of the old layout, the final state. Between any two of them the user
may write or delete a file or edit the hook entry, a step may throw
(`InstallThrows`, with the checkpoint the code writes) and the process may die
(`Stops`). The bytes of a file are known by who wrote them: a release, the user
while no command ran (`Quiet`), the user while one ran (`Busy`), or after an install
had looked for a file in its way and before it wrote its own (`Late`): `CheckFile`
(assertNoNewUserOwnedFile, apply.js:494) and `InstallFile` (536-588) are two steps, and
`checked` names the file between them. A digest is the bytes it was taken from;
installs of earlier releases recorded none. An install enables the hooks, declines
them, or keeps what is there (a plan without the hook runtime, apply.js:346). A repair
from the record (`Recorded`) keeps the claims it found, also those on nested files
that it removes.

Simplifications: one file per skill; of the operations only copying a file and
the hook entry, no JSON merging and no templates; the copies of the hook runtime
are files like others; commands do not overlap. `MigrationMayThrow` and
`RepairMayStop` say whether two faults may happen under which the code does not
keep its promise (3.1).

### 2.7 SettingsLock

Each step is one call to the file system or the test of a pid, and a process may
die before any of them. `Acquire` links the lock. The take-over of a lock whose owner
is dead is `StartRecovery`, then the inspection: `OpenLock` (open and fstat),
`CompareInode` (lstat: a file that is not the lock any more counts as an invalid
lock, stale once it is five minutes old) and `Judge` (kill(pid, 0)); then
`MoveStale`, `CheckMoved`, `Relink`, `PutBack`, `EndRecovery`. `Read`, `Compare`
(twice), `Rename` or `Throw` are the update; `ReleaseLock` and `CheckReleased` the way
out. `Edits` is a writer without the lock, `UserRemovesLock` the advice of the error
message. `replaced` holds the processes whose inspected file is no longer the lock;
the age of that file is a free choice. `entries` are the settings, a set. `applied`,
`meddled`, `misjudged` and `raced` are history.

Simplifications: a pid is not reused, so it stands for the identity of the lock file,
too; a lock is never empty or unreadable, as it is linked into place when it is
complete. The specification is `LockSpec` over `lockVars`: with these names one module
of proofs can extend it beside `ManagedInstall`.

### 2.8 PlanCanvas

A handler of the server runs to completion and is one step; the rest are the
steps of other processes. `StartServer` loads the file, `Listen` writes
`server.json`, `Shutdown` answers the polls, `ServerExits` follows. `Await` is
answered at once or held; `Wake` answers held polls, `Unhold` is a poll that
timed out or was found gone, `ClientDies` a client that died while the server
still holds its poll. `Broadcast` is what pages are told, `Sweep` the sweep of
expired activities. The stop hook (`HookReads`) drains through the server
(`HookAsks`) or from the file, which it reads again (`HookReadsFile`) and writes as a
whole (`HookDrainsFile`); it then tells the agent the first `MaxReported` items and the
number of the others (`HookReports`). It may die before each of these steps
(`HookDies`). `handed`, `sent`, `dropped` (given to a client or hook that was gone) and
`cut` (only counted) are history. Simplifications: one session, and one stop hook at a
time; chat, artifacts and rendering are left out. `HookAtStart` and `LatePosts` switch
on two races (3.1).

### 2.9 Coordination

A command is a process: `Start` loads the store, `Read` lists or reads the
issues, `CheckDependencies`, then for each epic `Deciding` (`Refused`,
`PassedOver` or on), `Edit` of the body, `SyncLabels` (or, in a sync, labels
first and `SyncBody`), `Record`, which exports the copy of the store, and at the
end `Close`, which exports it again. `Fail` is a call that fails: the process
exits where it is. `Toggle` closes or reopens an issue. Left out: comments,
branches, the project board, options that set a field by hand, an edit of which
GitHub applied half.

### 2.10 McpHealth

A caller makes one call after the other. `PassesUnprobed`, `BlocksUnprobed` and
`Preflight` are the three answers of the cache; a hook that probes keeps the
copy of the verdicts it read (`hook[c].state`), and `Saves` and `Fill` write that
copy, first cutting the file. `ProbeFails` may be followed by the reconnect
command and another probe. After a failed call: `Report`, `Reconnect`,
`ConfirmProbe`, `Restored`. Times are what is left of them and get less with
`Tick`, in the file and in the copies; the count of failures is kept as the
backoff it leads to. Every save may fail, and a hook that is killed is a save
that failed. Left out: fail-open, servers without a configuration.

## 3. What is checked

Bounds are the values in the `.cfg` files; crash bounds are the constant
`MaxCrashes`. `CHECK_DEADLOCK FALSE` is set for bounded instances that stop
because sessions, tasks, commands or calls are used up; `managed_install`,
`plan_canvas` and `mcp_health` do not stop, and deadlock is checked. `settings_lock`
has a constraint, `OnceWrong`: it ends where the lock was both removed out of turn and
misjudged, as nothing but types is claimed once either has happened.

| Run | Instance | Shows |
| --- | --- | --- |
| `session_lifecycle` | 2 runners, 2 commands, 1 daemon, 1 crash, failing statements at launch and end | a Running row is owed, pids have owners, Completed is earned, an undisturbed agent is tracked |
| `session_live` | 2 runners, 1 command, 1 daemon, auto-terminate, 1 crash, failing statements everywhere, fair | a failed session's agent is gone, a lost runner is noticed |
| `worktree_activators` | 2 sessions, 1 slot, 2 daemons, 2 users who stop and delete, late heartbeats | a Running agent has its worktree, no session is stranded, each runs once, a pass gives out no more slots than there are |
| `worktree_live` | 2 sessions, 1 slot, 1 daemon, 1 user, 1 crash, fair | slots come back, the queue moves |
| `backlog_dispatch` | 1 dispatcher, 3 sessions, 2 tasks, teams of 2, all passes, spawn failures, users who send, read, assign, resume and delete, 1 crash | no task is lost that a rebalance did not give up, a handoff is passed on once |
| `daemon_cycle` | 4 sessions, 3 tasks, teams of 2, handoffs sent to delegates, 1 crash, fair | streak and mode agree, the team limit holds, a lead with room is served outside the cooloff |
| `intake` | 1 worker, 2 schedules, 3 requests (2 urgent), 3 rows added in all, passes of 2, clock to 2, 1 target that fills up or is deleted, schedules and work that fail, 1 crash, fair | due runs are started once and none is skipped, requests are answered as `RequestLedger` says, schedules and requests get their turn |
| `managed_install` | 2 releases, 3 files (a plain one, a skill, its nested predecessor), 2 edits | what ECC wrote is recorded, what the user wrote is spared |
| `settings_lock` | 3 processes, 1 edit, 2 attempts | one holder, no lost update, of a lock that is left alone and judged right |
| `plan_canvas` | 2 items, 2 clients, 2 servers, a stop hook that reports 1 item | no lost wake-up, each item once, none lost unaccounted, the page is right |
| `coordination` | 2 epics, the second referring to the first, 2 commands of any kind and then a sync | claims are kept, what nothing overlaps repairs |
| `mcp_health` | 1 server, 2 callers, TTL 2, backoff 1 to 2, hooks of 1 tick, fair | verdicts are recent, a server that is back is used again |

Why these bounds are enough for what they are meant to show. Every race of the
lifecycle is between two writers of one row, and a second run needs a second
runner. One session occupies the slot and another waits for it, or both creators
find it free; two activators need two daemons, and two users overtake both in the
middle of a pass. A pass that skips, defers and passes on needs two tasks and a
delegate; those who overtake it between two steps are users and sessions, and for
dispatchers that overtake each other `TaskNotLost` is proved, and how far the team
limit is missed (4). A rebalance needs a delegate with two unread handoffs and
room for another, and the
dispatch that follows it in one cycle a deferred handoff: with four sessions and
three tasks the phase `recover` is reached, with fewer it is not. `TaskNotLost` and
`PassedOnOnce` are checked for a dispatcher that chooses its passes freely; the daemon
is one (`Implements`, 4). A pass that takes some of the
rows and leaves others needs one more row than its limit; schedules that are due
at different moments and again need a clock that ticks twice. A crash may fall
between any two steps; a second one adds nothing to the properties, which speak
of one row, session or handoff. An upgrade needs two releases, and an edit may
come before and during a command, so two. The take-over of a lock needs an owner
that died, one that takes over and one that comes in between. A server needs a
successor, a batch two items, a wake-up that goes to the wrong poll two clients; a
hook that reports one item of two cuts a batch as one that reports 20 does.
A claim is lost between two commands, and a sync after them finds whatever they
left.
Two hooks on one server overwrite each other's verdicts, as hooks on two do; backoff and TTL run
out within the two ticks that a probe and a save may take together. What is
proved (4) holds for every instance.

### 3.1 What the code does not guarantee

The runs state guarantees under the conditions in which they hold. The
conditions, and what happens outside them, are things a user should know.

Sessions and slots:

- `update_state` checks a transition in one statement (store.rs:1312) and writes
  in another: two writers both pass, and a Completed session may become Running
  again. A resume tests a row it read before and resets it unconditionally; a
  stop between the spawn of an agent and the record of its pid has nothing to
  kill.
- A statement of the launch that fails in the store (runtime.rs:173-175) takes the
  runner to its error path, which writes Failed and leaves the agent running
  (222-225): `FailedAgentIsGone` excepts it. The error path ignores its own failures
  (223-224): a store that fails them, too, leaves the row Running or the pid behind,
  until a heartbeat pass or the next daemon start. `RunningIsOwed` and `PidHasOwner`
  except that, and `LostRunnerIsNoticed` does not.
- Pruning takes Stale for inactive (manager.rs:2050) although the agent of a
  stale session runs: it may lose its worktree. So may an agent whose row was
  marked Failed by the slower of two activators.
- `RunningAgentHasItsTree` and `RunsAtMostOnce` are stated without resumes. A
  worktree is removed before its columns are cleared, and clearing keeps
  `working_dir`: a resume may run an agent in a directory that is gone. Whoever
  resumes a session wants it to run again.
- `NoStrandedSession` is stated without daemon crashes: the runner of an
  activated session is a task of the daemon, and one that dies before its first
  write leaves the session Pending. It is stated without resumes too: between the
  reset and the spawn a session is Pending with only the user to start it. Slots
  are counted before they are taken, so two creators exceed the limit.

Backlog and daemon:

- A rebalance marks a handoff read whose assignment was deferred
  (manager.rs:1143), when the team filled up meanwhile: the task is in no inbox and
  no session has it. `fate` calls it "dropped", and `TaskNotLost` excepts it and
  nothing else. `TeamLimit` is stated for one
  dispatcher, without resumes, and for handoffs sent to sessions that are
  delegates already; n dispatchers may exceed it by n - 1 (`TeamsOfMany`). A limit of 0
  is not kept: a lead without delegates is given one all the same.
- `PassedOnOnce` is stated for one dispatcher that does not crash.
- The task of a deferred assignment is stored nowhere, although main.rs:1673
  says that it "stayed in {} inbox": that is true only of handoffs.
- A pass visits the longest inboxes first and no more than `lead_limit` of them,
  so saturated leads may keep others out; a handoff addressed to a session that
  was deleted fails every pass that reaches it; the handoff that accompanies a
  new delegate is swept like any other, and its task is started once more.
- In the cooloff (deferred of 2 or a streak of 3) the daemon only rebalances.
  Once the delegates have ended there is nothing to move, and the cooloff does
  not end: `ServedOutsideCooloff` speaks of the rest of the time. The dispatches
  that lengthen the streak stop too, so `operator_escalation_required`, at a
  streak of 5, is not reached however long the saturation lasts.

Schedules and requests:

- Both are stated for one worker. Two of them list the same rows: work is
  started twice, and the answer of the slower one overwrites "dispatched" with
  "failed". A crash between start and record starts the work again, which the
  properties count as one repetition for each crash.
- A schedule without a further run (manager.rs:144) is started by every pass,
  and blocks those behind it.
- So does a schedule whose session can never be started: its error ends every pass
  (manager.rs:143), and with the oldest due time it is the first of the next one.
  `DueIsRun` excepts the schedules behind it, for as long as it is broken and due.
- A request whose lead is deleted is answered "failed" by a pass that had listed it
  before, and is started as a top-level session by one that lists it later
  (store.rs:369, manager.rs:540): what happens to it depends on the moment.
- `UntargetedIsAnswered` allows a request to wait while as many requests as a
  pass takes are deferred; urgent ones come first in every pass.

Installer (constants of `ManagedInstall` in brackets):

- [`MigrationMayThrow`] When removing a nested skill file throws, the state that
  is kept no longer claims files of ECC that are on disk.
- [`RepairMayStop`] A repair writes its bridge state with the digests of what is
  on disk (install-lifecycle.js:2135). If it stops there, bytes of the user are
  recorded as ECC's, and an uninstall deletes them.
- An upgrade that fails before the hook entry was written is refused when it is
  retried, as drifted, although the comment at apply.js:468 calls a later failure
  retryable.
- Repair driven by manifests claims files of the user that are not skills and
  lie where a file should be (ownership-guard.js:29). Repair from the record may
  raise the recorded version with old files in place.
- A file that appears after an install looked for it (apply.js:494) and before it is
  written (573-586, without `COPYFILE_EXCL`) is overwritten: `InstallSparesUnclaimed`
  excepts it.
- A repair from the record takes migrated nested files out of the recorded operations
  and puts them back (claude-skill-migration.js:335-342, install-lifecycle.js:740-751):
  it removes the file and keeps the claim, writes and removes it again in each later
  repair, and takes what the user puts there for ECC's. `RepairAdoptsNothing` excepts
  the claim on the absent file.
- doctor reports a file without digest as good, uninstall retains it. A failed
  install leaves claims on destinations it never wrote. Removing a nested skill
  deletes an edited file whose record has no digest.

Settings lock:

- A process that dies inside a recovery leaves `.recover` behind, and nobody
  recovers that: the lock of a dead process then stays until it is removed by
  hand. Removed while an ECC process is active, there may be two holders
  (putting a lock back overwrites): `meddled`.
- A process may inspect a lock that is replaced meanwhile, and judge it stale all the
  same: an opened file that is no longer the lock has no owner, and is stale once it
  is five minutes old (claude-settings-lock.js:55-62, 105-107); and the owner it read
  may release the lock and exit before its pid is tested (108). It then moves the lock
  of a live process away, and until that is put back a third may take it: two holders,
  and an update lost: `misjudged`. `MutualExclusion` and `NothingIsLost` suppose
  neither.
- An edit between the last comparison and the rename is lost: `raced`.

Plan Canvas:

- [`HookAtStart`] The stop hook reads the file of a server that is down and
  renames an emptied one over it. A server that starts in between has the items in
  memory and gives them out again, or they are lost with the next write, although
  plan-canvas-pending.js:119 takes the file for its own.
- [`LatePosts`] A request that a closing server still takes is written to a file
  its successor has read already.
- A batch is lost with a client that dies before its answer arrives, and with a
  hook whose second is over, although plan-canvas.js:284 says that queued feedback
  is never lost: `dropped`. So is one with a hook that dies after it renamed the file
  (plan-canvas-pending.js:139) or got its answer, and before its output.
- Of a batch the stop hook tells the agent the first 20 items and the number of the
  others (35, 168-170), which are out of the queue all the same: `cut`. `Accounted`
  and `HandedOnce` say that no item is lost in any other way.
- Two stop hooks at once are not modelled: both may read the file before either
  renames it, and report the same items twice.
- Feedback of ended sessions is not reported by the stop
  hook.
- An end by the user is meant to be sticky (sessions.js:122), but an `end` of the
  agent overwrites who ended it, and a plain open then reopens the session.
- Stopping the server removes a `server.json` that may be its successor's.

Coordination:

- Two claims may both succeed, as actions.js:38 says. `ClaimIsKept` confines the
  loss of a claim to commands that decided on an older state; among them is every
  sync, which writes each body from the listing it began with.
- The store is exported whole on every write and on close, also by commands that
  change nothing: rows of others are reverted, until a sync that nothing overlaps.
  A command that fails does not close the store.
- Validating turns a claimed epic into a validated one, which a second claim takes
  over. A failed validation of a published epic leaves it published.

Hooks:

- A failure that was reported may be overwritten by a healthy verdict read before
  it. `VerdictsAreRecent` says what remains true: each verdict that counts is
  within the time it was given for.
- A server that answers probes while its calls fail (429) may keep a caller
  blocked: `ServedAgain` has the premise that calls no longer fail.

### 3.2 Fairness

Weak fairness, of whole processes: a runner, daemon, creator or dispatcher that
can take its next step takes it, as a process that the scheduler runs does. The
daemon's loop restarts each pass after a sleep, so starting a pass is fair too
(`StartDispatch`, `CycleBegins`, `BeginSchedules`). `HeartbeatLapses` is time passing. Nothing obliges an
agent to exit, a user to act, or a crash to happen. A daemon that crashed comes
back (`DaemonRestarts` is a step of the daemon), which is the service manager's
part and is needed by `LostRunnerIsNoticed` and the two slot properties only.

In `McpHealth` hooks run, callers call again,
and time passes; servers owe nothing. The other modules state safety only:
nothing obliges a user to run a command, to answer or to come back.

## 4. What is proved

With `tlapm`, for any sets of runners, commands, daemons, tasks and dispatchers, any
finite set of sessions, any limits and any crash bound.

`SessionLifecycleProofs`, about `SessionLifecycle!Spec`:

- `Typing`: `[]TypeOK`.
- `RunningOwed`, `PidOwned`, `CompletedEarned`: three of the invariants of
  `session_lifecycle`.
- `AgentTracked`: `[]UndisturbedAgentIsTracked`. `FailedAgentGone`:
  `[]FailedAgentIsGone`, while the store fails no statement of the launch; `failed`
  is part of the state, so this is in the property and not a hypothesis.

The inductive invariant `IInv` adds two facts to them. `NoAgentBeforeSpawn`: a
runner that has not reached the spawn has no agent, without which a step to
Completed could not be traced to an agent that exited. `DeletedRowHasNoPid`: the
pid of a deleted row is cleared, without which the writes of a runner that
finds no row could leave its pid behind. Most steps are by processes that
neither move a runner nor make a row Running or Completed nor put a pid into
it; `Bystander` says so once, and `BystanderKeepsIInv` disposes of them
together. What remains are the steps of runners, one lemma per conjunct.
Assumption: `ConstantsAssumption` (the null pid is no runner, the creator is no
command).

The last two theorems are about a session that no command has touched
(`Undisturbed`), and their invariant is `CalmInv`: while that lasts, `Calm` holds.
Only one runner is ever launched, by the creator, and no daemon looks at the
session before. A living agent is that runner's, and once its pid is recorded the
row names it (`LivingAgentIsKnown`); without the killing of stale sessions the row
is Running or Stale besides, for as long as the runner waits
(`AwaitedAgentIsKnown`). A daemon acts on a row it read before, so the same is said
of the copies in its hands (`LivingAgentIsInSnapshots`, `AwaitedAgentIsInSnapshots`).

`WorktreeSlotsProofs`, about `WorktreeSlots!Spec`, for any number of sessions, slots,
daemons and users:

- `SlotTyping`: `[]TypeOK`; the queue holds a session once, and a pass gives out no
  more slots than it counted. `InPlace` adds that a pass has a session in hand where
  its step needs one.
- `RunningKeepsTree`: `[]RunningAgentHasItsTree`. `RunsOnce`: `RunsAtMostOnce`.
  `NothingStranded`: `[](crashes = 0 => NoStrandedSession)`. All three suppose
  `NoResume`, that no user resumes sessions.

What carries them is that without resumes a session which stopped being active
never becomes active again (`Goes`). A pass that read it as inactive, or as Pending,
acts on what it read much later, and `PassSound` and `UserSound` say what is then
still true of it: what a pass prunes stays inactive, whoever else got there first.
`SessionSound` relates a row to its creator, its runner and its tree. For
`NothingStranded`, `Awaited` says who will start a Pending session: an activator at
`launch`, or the queue, and then it has no worktree yet, so that the next pass lists
it. A pass may dequeue the session since a runner was started before.

`DaemonCycleProofs`, about `BacklogDispatch!Spec`, for any sessions, tasks, limits,
crashes and number of dispatchers:

- `BacklogTyping`: `[]TypeOK`. `Orderly` adds what a pass needs to be where it is: an
  assignment has its task, any other pass in the middle of a handoff one in hand that
  is in the table, a handoff that is sent a recipient.
- `NothingLost`: `[]TaskNotLost`. `KeptInv` adds `Covered`: a pass that is about to
  mark a handoff has placed its task, in a session or in an unread handoff with a
  *higher id*. Were it any other handoff, two passes could each mark the one that the
  other relies on; as ids grow with each send, the last one is relied on by nobody
  who marks it. `Fresh` says that a task that was not submitted is nowhere.
- `TeamsOfMany`: n dispatchers exceed `MaxParallel` by n - 1 delegates at most, and
  `TeamsOfOne`: `[]TeamLimit` for one (`OneDispatcher`). `TeamBound` counts with the
  delegates the dispatchers that have found room and not spawned yet: they were
  fewer than the limit when the last of them looked. Hypotheses: no user resumes
  sessions, which brings a delegate back without asking for room, and `MaxParallel`
  is not 0.
- `PassedOnce`: `[]PassedOnOnce` for one dispatcher. `OnceInv`: a handoff that was
  passed on is unread, or still to be done, only as long as its pass is about to mark
  it; one that is sent back to where it came from is read already.

The same module, about `DaemonCycle!CycleSpec`:

- `CycleTyping`: `[]CycleTypeOK`.
- `StreakTheorem`: `[]StreakMeansSaturation`.
- `Implements`: `CycleSpec => BacklogDispatch!Spec`. What the daemon does to
  sessions, messages and its pass is what a dispatcher without a policy may do.
- `NothingLostInCycle`: `[]TaskNotLost`, from `NothingLost` and `Implements`, and
  `TeamsOfDaemon`: `[]TeamLimit`, from `TeamsOfOne` and `Implements`.

`CycleTyping` and `StreakTheorem` are inductive together (`CycleInv`). The argument needs nothing of the
passes but the range of the counts the cycle takes from them: a lemma for each
of the three records shows that it leaves the row `Sound`, and a step of the
cycle is a record, a change of phase, or neither.

`IntakeProofs`, about `Intake!Spec`:

- `IntakeTyping`: `[]TypeOK`, together with `ListsItsRows` (the list of a pass
  holds rows of its own table).
- `NoRunSkippedTheorem`: `[]NoRunSkipped`, for any number of workers. Besides
  the types it needs `TimesAgree`: passes and starts lie in the past, and the
  run that is being recorded was started after the pass began. The record is
  then the first run after a moment before the start, and by `CronAssumption` no
  later than the first run after the start.
- `AnsweredOnceTheorem`: `Spec => AnsweredOnce`, the refinement, for one worker, also
  when leads are deleted between the listing and the answer.
  `ListIsPending` says that the requests of a pass are pending, and each listed
  once, until the pass answers them; `WorkIsBounded` that work goes beyond the
  crashes only for the request that is about to be recorded. Every step is then
  a step of `RequestLedger` or leaves its variables unchanged.
- `StartedOnceTheorem`: `[]StartedOncePerDue`, for one worker and schedules that
  all have further runs (`AlwaysAgain`). `ListIsDue` says that a pass lists a
  schedule with its next run, which has come; `RunsAreBounded` that from the
  next run on nothing was started more often than there were crashes, but for
  the run in hand. Recording moves the next run past that one.

`OneWorker` and `AlwaysAgain` are hypotheses of the theorems, not assumptions of
the module: with two workers, or a last run, the conclusions are false.

`InstallerProofs`, about `ManagedInstall!Spec`, for any files, releases,
hook entries, nested layouts and number of edits:

- `Typing`: `[]TypeOK`.
- `FilesAreClaimed`: `[]EccFilesAreClaimed`, if removing a nested file does not
  throw (`~MigrationMayThrow`).
- `HooksRecorded`: `[]HooksAreRecorded`.
- `UserWorkIsSpared`: `UninstallSparesUserWork`, if repairs are not interrupted
  (`~RepairMayStop`).
- `UnclaimedIsSpared`: `InstallSparesUnclaimed`, with the window between look and write
  as its exception: what is at a checked, unclaimed destination is absent or `Late`.
- `NothingIsAdopted`: `RepairAdoptsNothing`, in both modes of repair.

`RunShape` says what a command under way has planned and what the install-state
holds meanwhile; without it a step in the middle of a command knows nothing of
the record it leaves behind. On top of it `HookInv` follows the hook entry,
`ClaimInv` the files with bytes of ECC, `QuietInv` the digests and what the user
wrote between commands, `SinceInv` what a repair has left to do. The two faults
are hypotheses: with them the conclusions are false.

The same module, about `SettingsLock!LockSpec`, for any processes and edits:

- `LockTyping`: `[]LockTypeOK`, which bounds the attempts (`AttemptLeft`).
- `OneHolder`: `[]MutualExclusion`. `HeldInv`: while nobody removed the lock out
  of turn and none was misjudged, recoverers exclude each other by `.recover`, the lock one of them
  judged stale stays until it moves it, the lock names its holder, and nothing is
  ever put back.
- `UpdatesAreAtomic`: `[]NothingIsLost`. `SettingsInv`: what is about to be
  replaced is what was read.

`PlanCanvasProofs`, about `PlanCanvas!Spec`, for any items, clients and servers:

- `Typing`: `[]TypeOK`, races included.
- `HeldPollsWait`, `GivenOnce`, `NothingVanishes`, `PageIsRight`: the four
  invariants of the run, under `NoRaces` (neither `HookAtStart` nor `LatePosts`).
  `ServingInv`: at most one server has loaded the file and its memory is what the
  file says, so an item is queued in one place; `PollInv`: held polls have nothing
  to wait for; `InOnePlace`; `ShownIsTrue` is inductive with these.

`CoordinationProofs`, about `Coordination!Spec`, for any epics and commands:

- `Typing`: `[]TypeOK`. `ClaimsAreKept`: `ClaimIsKept`.
- `SyncRepairs`: `AloneRepairs`. `AloneInv` says what a command that nothing
  overlaps relies on: its copy of the store is the disk, what it read is what is
  there, and the epics it is done with agree.

`McpHealthProofs`, about `McpHealth!Spec`, for any servers, callers and durations:

- `Typing`: `[]TypeOK`.
- `Recency`: `VerdictsAreRecent`. The invariant is about single verdicts
  (`Holds`): what one has left and the time since the last observation of its kind
  stay within the time it was given for. An observation only shortens that time,
  and a tick takes from the one what it adds to the other; so it holds of the file
  and of every copy a hook has read, and it does not matter which is written last.
  `DatedInv`: a hook that is about to write what it observed did so after it
  started, from when it dates the verdict.

The assumptions are those of each module on its constants: that null values are no
members of the sets they stand beside, that limits are numbers, that there are
finitely many sessions, what a cron expression yields. Conditions under which a
property holds, and without which it is false of the code, are hypotheses of the
theorems.

Every invariant and every action property of a run is proved. Not proved, and out
of the prover's reach: liveness under fairness, ENABLED, and what recursive or
folded definitions compute for every input. Checked only by TLC, therefore:
`LostRunnerIsNoticed`, `SlotsReclaimed`, `QueueServed`, `ServedOutsideCooloff`,
`DueIsRun`, `UntargetedIsAnswered` and `ServedAgain`.

## 5. Plan

Done: the modules above, their runs, and eight modules of proofs. What is left,
in this order:

1. `GateGuard` over the state file of `gateguard-fact-force.js` (826-1008,
   1219-1345): no call passes before the agent was asked about all of it, each
   passes in the end if its keys fit into the list, parallel hooks merge their keys.
2. What is left of `NoStrandedSession` after a crash of a daemon, and of the session
   properties after a resume, as theorems; an abstract settings file whose updates
   are atomic, which `SettingsLock` implements while nobody removes the lock.
3. An abstract session, of which `SessionLifecycle` with an atomic
   `update_state` is an implementation.
4. `MergeQueue` over an abstract git (a branch is a set of commits): no unfinished
   work is merged, the loop ends, an entry blocked by another is merged after it.
   `ConflictResolution`, composed with the sessions it stops.
