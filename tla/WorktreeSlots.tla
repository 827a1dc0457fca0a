--------------------------- MODULE WorktreeSlots ---------------------------
(***************************************************************************)
(* The worktrees of ecc2's sessions: a bounded number of slots, a queue of *)
(* sessions that wait for one, and the processes that give slots out and   *)
(* take them back.                                                         *)
(*                                                                         *)
(*  - each session is queued by one process of its own (the CREATOR);      *)
(*  - a DAEMON, or a dashboard, activates queued sessions and prunes the   *)
(*    worktrees of inactive ones on every pass;                            *)
(*  - a USER stops (with cleanup), resumes or deletes sessions.            *)
(*                                                                         *)
(* The session row is the part of SessionLifecycle's row that slots depend *)
(* on; runners are reduced to start and end, and update_state's check and  *)
(* write, whose race SessionLifecycle studies, are one step here.          *)
(***************************************************************************)
EXTENDS Naturals, FiniteSets, SequencesExt, SessionStates

CONSTANTS
    Sessions,
    Daemons,         \* processes that run activation and prune passes
    Users,           \* stop, resume and delete invocations, one each
    MaxWorktrees,    \* cfg.max_parallel_worktrees
    UserActs,        \* the things users do, of {"stop", "resume", "delete"}
    HeartbeatsLate,  \* whether a live agent's heartbeat may expire
    MaxCrashes       \* bound: how many daemons may crash in a behaviour

ASSUME ConstantsAssumption ==
    /\ IsFiniteSet(Sessions)
    /\ MaxWorktrees \in Nat \ {0}
    /\ UserActs \subseteq {"stop", "resume", "delete"}
    /\ HeartbeatsLate \in BOOLEAN
    /\ MaxCrashes \in Nat

Absent == "Absent"       \* no row: not inserted yet, or deleted
NoSession == "NoSession"
Nobody == "Nobody"       \* the runner is a process of its own

VARIABLES
    row,      \* row[s]: state, whether worktree columns are set, working_dir
    tree,     \* tree[s]: the git worktree and its branch exist
    queue,    \* pending_worktree_queue, oldest request first
    creator,  \* creator[s]: where the process that queues s is
    agent,    \* agent[s]: the runner of s, its directory, the daemon it is a task
              \* of, and whether the session ever ran
    daemon,   \* daemon[d]: a pass: slots left, sessions to do, the one in hand
    user,     \* user[u]: an invocation and the session it is about
    crashes

vars == <<row, tree, queue, creator, agent, daemon, user, crashes>>

Dir == {"repo", "tree"}

DaemonPC == {"count", "list", "pick", "create", "create_failed", "attach", "launch",
             "dequeue", "scan", "clean", "remove", "clear", "down"}

TypeOK ==
    /\ row \in [Sessions -> [state : SessionState \cup {Absent}, wt : BOOLEAN, dir : Dir]]
    /\ tree \in [Sessions -> BOOLEAN]
    /\ queue \in Seq(Sessions) /\ IsInjective(queue)
    /\ creator \in [Sessions -> {"new", "free", "full", "insert", "enqueue", "spawn", "done"}]
    /\ agent \in [Sessions -> [pc  : {"none", "starting", "live", "orphan", "over"},
                              cwd : Dir, by : Daemons \cup {Nobody}, ran : BOOLEAN]]
    /\ daemon \in [Daemons -> [pc   : DaemonPC,
                               left : 0..MaxWorktrees,
                               todo : Seq(Sessions),
                               s    : Sessions \cup {NoSession}]]
    /\ user \in [Users -> [pc : {"idle", "remove", "clear", "reset", "spawn", "delete", "done"},
                           s  : Sessions \cup {NoSession}]]
    /\ crashes \in 0..MaxCrashes

IdlePass(label) == [pc |-> label, left |-> 0, todo |-> <<>>, s |-> NoSession]

Init ==
    /\ row = [s \in Sessions |-> [state |-> Absent, wt |-> FALSE, dir |-> "repo"]]
    /\ tree = [s \in Sessions |-> FALSE]
    /\ queue = <<>>
    /\ creator = [s \in Sessions |-> "new"]
    /\ agent = [s \in Sessions |-> [pc |-> "none", cwd |-> "repo", by |-> Nobody, ran |-> FALSE]]
    /\ daemon = [d \in Daemons |-> IdlePass("scan")]
    /\ user = [u \in Users |-> [pc |-> "idle", s |-> NoSession]]
    /\ crashes = 0

----------------------------------------------------------------------------
(* The store.                                                              *)

Exists(s) == row[s].state # Absent

Attached == {s \in Sessions : Exists(s) /\ row[s].wt}

\* update_state: refused, and an error, when the table does not allow it.
Allowed(s, new) == Exists(s) /\ CanTransition(row[s].state, new)
StateTo(s, new) ==
    IF Allowed(s, new) THEN [row EXCEPT ![s].state = new] ELSE row

\* attach_worktree and clear_worktree: clearing keeps the working directory.
WithWorktree(s) == [row EXCEPT ![s].wt = TRUE, ![s].dir = "tree"]
WithoutWorktree(s) == [row EXCEPT ![s].wt = FALSE]

\* A session is in the queue once: session_id is the key of the table.
Dequeued(s) == RemoveFirst(queue, s)

\* A pending request, and the row it names, still call for a worktree.
WantsWorktree(s) == row[s].state = "Pending" /\ ~row[s].wt

\* A runner is started for s unless one is there: two runners of one session
\* are SessionLifecycle's subject.
Started(s, dir, d) ==
    IF agent[s].pc \in {"none", "over"}
    THEN [agent EXCEPT ![s] = [@ EXCEPT !.pc = "starting", !.cwd = dir, !.by = d]]
    ELSE agent

Killed(s) ==
    [agent EXCEPT ![s].pc = IF @ \in {"live", "orphan"} THEN "over" ELSE @]

----------------------------------------------------------------------------
(* queue_session with a worktree.                                          *)

Creating(s, label) == creator' = [creator EXCEPT ![s] = label]

\* build_session_record counts the attached worktrees.
CountForNew(s) ==
    /\ creator[s] = "new"
    /\ Creating(s, IF Cardinality(Attached) < MaxWorktrees THEN "free" ELSE "full")
    /\ UNCHANGED <<row, tree, queue, agent, daemon, user, crashes>>

\* With a slot it creates the worktree; if git fails nothing is inserted.
CreateForNew(s) ==
    /\ creator[s] = "free"
    /\ \/ tree' = [tree EXCEPT ![s] = TRUE] /\ Creating(s, "insert")
       \/ Creating(s, "done") /\ UNCHANGED tree
    /\ UNCHANGED <<row, queue, agent, daemon, user, crashes>>

InsertSession(s) ==
    /\ creator[s] \in {"insert", "full"}
    /\ LET attached == creator[s] = "insert" IN
         /\ row' = [row EXCEPT ![s] = [state |-> "Pending", wt |-> attached,
                                       dir |-> IF attached THEN "tree" ELSE "repo"]]
         /\ Creating(s, IF attached THEN "spawn" ELSE "enqueue")
    /\ UNCHANGED <<tree, queue, agent, daemon, user, crashes>>

Enqueue(s) ==
    /\ creator[s] = "enqueue"
    /\ queue' = Append(queue, s)
    /\ Creating(s, "done")
    /\ UNCHANGED <<row, tree, agent, daemon, user, crashes>>

\* A runner that cannot be spawned fails the session and removes the worktree,
\* but not the columns that name it.
SpawnRunner(s) ==
    /\ creator[s] = "spawn"
    /\ \/ /\ agent' = Started(s, "tree", Nobody)
          /\ UNCHANGED <<row, tree>>
       \/ /\ row' = StateTo(s, "Failed")
          /\ tree' = [tree EXCEPT ![s] = IF Allowed(s, "Failed") THEN FALSE ELSE @]
          /\ UNCHANGED agent
    /\ Creating(s, "done")
    /\ UNCHANGED <<queue, daemon, user, crashes>>

CreatorStep(s) ==
    CountForNew(s) \/ CreateForNew(s) \/ InsertSession(s) \/ Enqueue(s) \/ SpawnRunner(s)

----------------------------------------------------------------------------
(* Runners, reduced to their first and last writes.                        *)

\* Fault: the state of the session is not looked at again.
AgentStarts_Unchecked(s) ==
    /\ agent[s].pc = "starting"
    /\ row' = StateTo(s, "Running")
    /\ agent' = [agent EXCEPT ![s].pc = "live", ![s].ran = TRUE]
    /\ UNCHANGED <<tree, queue, creator, daemon, user, crashes>>

\* run_session skips a session that is not Pending.
AgentStarts(s) ==
    /\ agent[s].pc = "starting"
    /\ IF row[s].state = "Pending"
       THEN /\ row' = [row EXCEPT ![s].state = "Running"]
            /\ agent' = [agent EXCEPT ![s].pc = "live", ![s].ran = TRUE]
       ELSE /\ agent' = [agent EXCEPT ![s].pc = "over"]
            /\ UNCHANGED row
    /\ UNCHANGED <<tree, queue, creator, daemon, user, crashes>>

\* Nobody records the end of an agent whose runner died.
AgentEnds(s) ==
    /\ agent[s].pc \in {"live", "orphan"}
    /\ agent' = [agent EXCEPT ![s].pc = "over"]
    /\ IF agent[s].pc = "live"
       THEN \E final \in {"Completed", "Failed"} : row' = StateTo(s, final)
       ELSE UNCHANGED row
    /\ UNCHANGED <<tree, queue, creator, daemon, user, crashes>>

\* The heartbeat pass of a daemon finds the session expired.
HeartbeatExpires(s) ==
    /\ HeartbeatsLate \/ agent[s].pc # "live"
    /\ row[s].state = "Running"
    /\ row' = [row EXCEPT ![s].state = "Stale"]
    /\ UNCHANGED <<tree, queue, creator, agent, daemon, user, crashes>>

----------------------------------------------------------------------------
(* activate_pending_worktree_sessions.                                     *)

Pass(d, pass) == daemon' = [daemon EXCEPT ![d] = pass]
PassGoto(d, label) == daemon' = [daemon EXCEPT ![d].pc = label]

\* Fault: the pass ends when the limit is met, and goes on when it is exceeded.
CountSlots_Unsaturated(d) ==
    /\ daemon[d].pc = "count"
    /\ LET used == Cardinality(Attached) IN
         IF used = MaxWorktrees
         THEN Pass(d, IdlePass("scan"))
         ELSE Pass(d, [IdlePass("list") EXCEPT !.left = MaxWorktrees - used])
    /\ UNCHANGED <<row, tree, queue, creator, agent, user, crashes>>

\* Fault: one slot is always kept free.
CountSlots_KeepsOneFree(d) ==
    /\ daemon[d].pc = "count"
    /\ LET used == Cardinality(Attached) IN
         IF used + 1 >= MaxWorktrees
         THEN Pass(d, IdlePass("scan"))
         ELSE Pass(d, [IdlePass("list") EXCEPT !.left = MaxWorktrees - used])
    /\ UNCHANGED <<row, tree, queue, creator, agent, user, crashes>>

CountSlots(d) ==
    /\ daemon[d].pc = "count"
    /\ LET used == Cardinality(Attached) IN
         IF used >= MaxWorktrees
         THEN Pass(d, IdlePass("scan"))
         ELSE Pass(d, [IdlePass("list") EXCEPT !.left = MaxWorktrees - used])
    /\ UNCHANGED <<row, tree, queue, creator, agent, user, crashes>>

ListRequests(d) ==
    /\ daemon[d].pc = "list"
    /\ Pass(d, [daemon[d] EXCEPT !.pc = "pick",
                    !.todo = SubSeq(queue, 1, IF daemon[d].left < Len(queue)
                                              THEN daemon[d].left ELSE Len(queue))])
    /\ UNCHANGED <<row, tree, queue, creator, agent, user, crashes>>

\* The next listed request; one that no longer wants a worktree is dropped.
PickRequest(d) ==
    /\ daemon[d].pc = "pick"
    /\ IF daemon[d].todo = <<>>
       THEN Pass(d, IdlePass("scan")) /\ UNCHANGED queue
       ELSE LET s == Head(daemon[d].todo)
                rest == [daemon[d] EXCEPT !.todo = Tail(@)]
            IN IF WantsWorktree(s)
               THEN Pass(d, [rest EXCEPT !.pc = "create", !.s = s]) /\ UNCHANGED queue
               ELSE Pass(d, rest) /\ queue' = Dequeued(s)
    /\ UNCHANGED <<row, tree, creator, agent, user, crashes>>

\* git worktree add -b refuses a branch or a directory that exists, and may
\* fail for reasons of its own.
CreateWorktree(d) ==
    /\ daemon[d].pc = "create"
    /\ \/ /\ ~tree[daemon[d].s]
          /\ tree' = [tree EXCEPT ![daemon[d].s] = TRUE]
          /\ PassGoto(d, "attach")
       \/ PassGoto(d, "create_failed") /\ UNCHANGED tree
    /\ UNCHANGED <<row, queue, creator, agent, user, crashes>>

\* An update_state that is refused ends the pass.
CreateFailed(d) ==
    /\ daemon[d].pc = "create_failed"
    /\ LET s == daemon[d].s IN
         /\ queue' = Dequeued(s)
         /\ row' = StateTo(s, "Failed")
         /\ IF Allowed(s, "Failed") THEN PassGoto(d, "pick") ELSE Pass(d, IdlePass("scan"))
    /\ UNCHANGED <<tree, creator, agent, user, crashes>>

\* Attaching to a deleted row undoes the worktree and ends the pass.
AttachWorktree(d) ==
    /\ daemon[d].pc = "attach"
    /\ LET s == daemon[d].s IN
         IF Exists(s)
         THEN row' = WithWorktree(s) /\ PassGoto(d, "launch") /\ UNCHANGED <<tree, queue>>
         ELSE /\ tree' = [tree EXCEPT ![s] = FALSE]
              /\ queue' = Dequeued(s)
              /\ Pass(d, IdlePass("scan"))
              /\ UNCHANGED row
    /\ UNCHANGED <<creator, agent, user, crashes>>

\* Fault: the runner is left to somebody else once the worktree is attached.
LaunchRunner_Forgotten(d) ==
    /\ daemon[d].pc = "launch"
    /\ PassGoto(d, "dequeue")
    /\ UNCHANGED <<row, tree, queue, creator, agent, user, crashes>>

\* run_session is started as a task of the daemon.
LaunchRunner(d) ==
    /\ daemon[d].pc = "launch"
    /\ agent' = Started(daemon[d].s, "tree", d)
    /\ PassGoto(d, "dequeue")
    /\ UNCHANGED <<row, tree, queue, creator, user, crashes>>

DequeueStarted(d) ==
    /\ daemon[d].pc = "dequeue"
    /\ queue' = Dequeued(daemon[d].s)
    /\ IF daemon[d].left = 1
       THEN Pass(d, IdlePass("scan"))
       ELSE Pass(d, [daemon[d] EXCEPT !.pc = "pick", !.left = @ - 1, !.s = NoSession])
    /\ UNCHANGED <<row, tree, creator, agent, user, crashes>>

----------------------------------------------------------------------------
(* prune_inactive_worktrees, without retention.                            *)

\* Faults: every session is inactive; Failed sessions are taken for active ones.
Prunable_Everything(s) == s \in Attached

Prunable_KeepsFailed(s) ==
    s \in Attached /\ row[s].state \in {"Stale", "Completed", "Stopped"}

Prunable(s) == s \in Attached /\ row[s].state \notin {"Pending", "Running", "Idle"}

\* Any order: list_sessions sorts by recency, which the model does not keep.
ScanWorktrees(d) ==
    /\ daemon[d].pc = "scan"
    /\ \E todo \in SetToSeqs({s \in Sessions : Prunable(s)}) :
          Pass(d, [IdlePass("clean") EXCEPT !.todo = todo])
    /\ UNCHANGED <<row, tree, queue, creator, agent, user, crashes>>

\* cleanup_session_worktree reads the session again: a Running one is stopped.
CleanNext(d) ==
    /\ daemon[d].pc = "clean"
    /\ IF daemon[d].todo = <<>>
       THEN Pass(d, IdlePass("count")) /\ UNCHANGED <<row, agent>>
       ELSE LET s == Head(daemon[d].todo)
                rest == [daemon[d] EXCEPT !.todo = Tail(@)]
            IN IF ~Exists(s)
               THEN Pass(d, IdlePass("count")) /\ UNCHANGED <<row, agent>>
               ELSE /\ Pass(d, IF row[s].wt
                               THEN [rest EXCEPT !.pc = "remove", !.s = s] ELSE rest)
                    /\ IF row[s].state = "Running"
                       THEN /\ row' = [row EXCEPT ![s].state = "Stopped"]
                            /\ agent' = Killed(s)
                       ELSE UNCHANGED <<row, agent>>
    /\ UNCHANGED <<tree, queue, creator, user, crashes>>

RemoveTree(d) ==
    /\ daemon[d].pc = "remove"
    /\ tree' = [tree EXCEPT ![daemon[d].s] = FALSE]
    /\ PassGoto(d, "clear")
    /\ UNCHANGED <<row, queue, creator, agent, user, crashes>>

ClearWorktree(d) ==
    /\ daemon[d].pc = "clear"
    /\ IF Exists(daemon[d].s)
       THEN /\ row' = WithoutWorktree(daemon[d].s)
            /\ Pass(d, [daemon[d] EXCEPT !.pc = "clean", !.s = NoSession])
       ELSE UNCHANGED row /\ Pass(d, IdlePass("count"))
    /\ UNCHANGED <<tree, queue, creator, agent, user, crashes>>

DaemonRestarts(d) ==
    /\ daemon[d].pc = "down"
    /\ Pass(d, IdlePass("scan"))
    /\ UNCHANGED <<row, tree, queue, creator, agent, user, crashes>>

DaemonStep(d) ==
    \/ CountSlots(d) \/ ListRequests(d) \/ PickRequest(d) \/ CreateWorktree(d)
    \/ CreateFailed(d) \/ AttachWorktree(d) \/ LaunchRunner(d) \/ DequeueStarted(d)
    \/ ScanWorktrees(d) \/ CleanNext(d) \/ RemoveTree(d) \/ ClearWorktree(d)
    \/ DaemonRestarts(d)

\* The runners it started are tasks of the daemon and die with it; agents that
\* run already live on.
DaemonCrashes(d) ==
    /\ daemon[d].pc # "down"
    /\ crashes < MaxCrashes
    /\ crashes' = crashes + 1
    /\ Pass(d, IdlePass("down"))
    /\ agent' = [s \in Sessions |->
                    IF agent[s].by # d THEN agent[s]
                    ELSE [agent[s] EXCEPT !.pc = CASE @ = "starting" -> "over"
                                                   [] @ = "live"     -> "orphan"
                                                   [] OTHER          -> @]]
    /\ UNCHANGED <<row, tree, queue, creator, user>>

----------------------------------------------------------------------------
(* Users.                                                                  *)

UserGoto(u, label, s) == user' = [user EXCEPT ![u] = [pc |-> label, s |-> s]]

\* stop_session ends the agent and records it; its cleanup follows.
UserStops(u, s) ==
    /\ "stop" \in UserActs /\ user[u].pc = "idle"
    /\ Allowed(s, "Stopped")
    /\ row' = StateTo(s, "Stopped")
    /\ agent' = Killed(s)
    /\ UserGoto(u, IF row[s].wt THEN "remove" ELSE "done", s)
    /\ UNCHANGED <<tree, queue, creator, daemon, crashes>>

UserRemovesTree(u) ==
    /\ user[u].pc = "remove"
    /\ tree' = [tree EXCEPT ![user[u].s] = FALSE]
    /\ UserGoto(u, "clear", user[u].s)
    /\ UNCHANGED <<row, queue, creator, agent, daemon, crashes>>

UserClearsWorktree(u) ==
    /\ user[u].pc = "clear"
    /\ row' = IF Exists(user[u].s) THEN WithoutWorktree(user[u].s) ELSE row
    /\ UserGoto(u, "done", user[u].s)
    /\ UNCHANGED <<tree, queue, creator, agent, daemon, crashes>>

UserResumes(u, s) ==
    /\ "resume" \in UserActs /\ user[u].pc = "idle"
    /\ Exists(s) /\ row[s].state \notin {"Completed", "Running"}
    /\ UserGoto(u, "reset", s)
    /\ UNCHANGED <<row, tree, queue, creator, agent, daemon, crashes>>

ResumeResets(u) ==
    /\ user[u].pc = "reset"
    /\ LET s == user[u].s IN
         IF Exists(s)
         THEN row' = [row EXCEPT ![s].state = "Pending"] /\ UserGoto(u, "spawn", s)
         ELSE UNCHANGED row /\ UserGoto(u, "done", s)
    /\ UNCHANGED <<tree, queue, creator, agent, daemon, crashes>>

\* The runner is started in the working directory the row named.
ResumeSpawns(u) ==
    /\ user[u].pc = "spawn"
    /\ LET s == user[u].s IN
         /\ agent' = Started(s, row[s].dir, Nobody)
         /\ UserGoto(u, "done", s)
    /\ UNCHANGED <<row, tree, queue, creator, daemon, crashes>>

\* delete_session removes the worktree, then the row, and with the row goes its
\* queued request (ON DELETE CASCADE).
UserDeletes(u, s) ==
    /\ "delete" \in UserActs /\ user[u].pc = "idle"
    /\ Exists(s) /\ row[s].state \notin {"Pending", "Running", "Idle"}
    /\ tree' = [tree EXCEPT ![s] = IF row[s].wt THEN FALSE ELSE @]
    /\ UserGoto(u, "delete", s)
    /\ UNCHANGED <<row, queue, creator, agent, daemon, crashes>>

UserDeletesRow(u) ==
    /\ user[u].pc = "delete"
    /\ row' = [row EXCEPT ![user[u].s] = [state |-> Absent, wt |-> FALSE, dir |-> "repo"]]
    /\ queue' = Dequeued(user[u].s)
    /\ UserGoto(u, "done", user[u].s)
    /\ UNCHANGED <<tree, creator, agent, daemon, crashes>>

UserStep(u) ==
    \/ \E s \in Sessions : UserStops(u, s) \/ UserResumes(u, s) \/ UserDeletes(u, s)
    \/ UserRemovesTree(u) \/ UserClearsWorktree(u)
    \/ ResumeResets(u) \/ ResumeSpawns(u) \/ UserDeletesRow(u)

----------------------------------------------------------------------------

Next ==
    \/ \E s \in Sessions : CreatorStep(s) \/ AgentStarts(s) \/ AgentEnds(s) \/ HeartbeatExpires(s)
    \/ \E d \in Daemons : DaemonStep(d) \/ DaemonCrashes(d)
    \/ \E u \in Users : UserStep(u)

Spec == Init /\ [][Next]_vars

\* Processes that queue a session go on, daemons loop and are restarted, and
\* a runner that was started reaches its first write.  Agents may run for ever.
Fairness ==
    /\ \A s \in Sessions : WF_vars(CreatorStep(s)) /\ WF_vars(AgentStarts(s))
    /\ \A d \in Daemons : WF_vars(DaemonStep(d))

FairSpec == Spec /\ Fairness

----------------------------------------------------------------------------
(* Properties.                                                             *)

\* prune_inactive_worktrees leaves active sessions alone: as long as nobody
\* resumes sessions, an agent whose session is recorded as Running keeps its
\* worktree, whatever several pruning passes and activators do meanwhile.
RunningAgentHasItsTree ==
    \A s \in Sessions :
        agent[s].pc = "live" /\ agent[s].cwd = "tree" /\ row[s].state = "Running" => tree[s]

\* However many daemons and dashboards activate the queue, a session nobody
\* resumes runs at most once, even when one of them acts on a request that
\* another one served, ran and pruned in the meantime.
RunsAtMostOnce ==
    [][\A s \in Sessions :
          agent[s].ran => ~(agent[s].pc = "starting" /\ agent'[s].pc = "live")]_vars

HeldBySomebody(s) ==
    \/ creator[s] # "done"
    \/ \E d \in Daemons : daemon[d].s = s /\ daemon[d].pc \in {"create", "attach", "launch"}

\* No session is left Pending with nobody to start it: it waits in the queue,
\* or a process that will start or fail it has it in hand.
NoStrandedSession ==
    \A s \in Sessions :
        row[s].state = "Pending" /\ agent[s].pc = "none" =>
            HeldBySomebody(s) \/ Contains(queue, s)

\* A slot does not stay with a session that ended, whichever of its steps the
\* process that ended it completed.
SlotsReclaimed ==
    \A s \in Sessions :
        (s \in Attached /\ row[s].state \in {"Completed", "Failed", "Stopped"})
            ~> (s \notin Attached \/ row[s].state \notin {"Completed", "Failed", "Stopped"})

\* While a slot is free, a queued session is not passed over for ever.
QueueServed ==
    \A s \in Sessions :
        (Contains(queue, s) /\ Cardinality(Attached) < MaxWorktrees)
            ~> (~Contains(queue, s) \/ Cardinality(Attached) >= MaxWorktrees)

=============================================================================
