---------------------- MODULE SessionLifecycleProofs ----------------------
(***************************************************************************)
(* Theorems about SessionLifecycle for any number of runners, commands and *)
(* daemons, any crash bound and both settings of AutoTerminate.            *)
(***************************************************************************)
EXTENDS SessionLifecycle, TLAPS

USE DEF NoRow, SessionState, RunnerPC, ChildState, OpPC, DaemonPC, Statements

\* A statement of the store leaves a well-formed row.
LEMMA StatementsKeepRow ==
    ASSUME row \in Row,
           NEW s \in SessionState, NEW p \in Runners \cup {NoPid},
           \/ WriteState(s) \/ UpdatePid(p) \/ UpdateStateAndPid(s, p) \/ TouchHeartbeat
    PROVE  row' \in Row
  <1> USE DEF Row
  <1>1. CASE WriteState(s) BY <1>1 DEF WriteState
  <1>2. CASE UpdatePid(p) BY <1>2 DEF UpdatePid
  <1>3. CASE UpdateStateAndPid(s, p) BY <1>3 DEF UpdateStateAndPid
  <1>4. CASE TouchHeartbeat BY <1>4 DEF TouchHeartbeat
  <1>5. QED BY <1>1, <1>2, <1>3, <1>4

LEMMA RunnerTyping ==
    ASSUME TypeOK, NEW r \in Runners, RunnerStep(r) \/ Heartbeat(r)
    PROVE  TypeOK'
  <1> USE DEF TypeOK, Goto
  <1>1. CASE RunSession(r) BY <1>1 DEF RunSession
  <1>2. CASE SpawnAgent(r) BY <1>2 DEF SpawnAgent
  <1>3. CASE RecordPid(r) BY <1>3, StatementsKeepRow DEF RecordPid
  <1>4. CASE RunningRead(r) BY <1>4 DEF RunningRead
  <1>5. CASE RunningWrite(r) BY <1>5, StatementsKeepRow DEF RunningWrite
  <1>6. CASE FirstBeat(r) BY <1>6, StatementsKeepRow DEF FirstBeat
  <1>7. CASE Heartbeat(r) BY <1>7, StatementsKeepRow DEF Heartbeat
  <1>8. CASE ReapAgent(r) BY <1>8 DEF ReapAgent
  <1>9. CASE ClearPid(r) BY <1>9, StatementsKeepRow DEF ClearPid
  <1>10. CASE FinalRead(r) BY <1>10 DEF FinalRead
  <1>11. CASE FinalWrite(r)
    <2>1. FinalState(r) \in SessionState BY DEF FinalState
    <2>2. QED BY <1>11, <2>1, StatementsKeepRow DEF FinalWrite
  <1>12. CASE ErrorClear(r) BY <1>12, StatementsKeepRow DEF ErrorClear
  <1>13. CASE ErrorRead(r) BY <1>13 DEF ErrorRead
  <1>14. CASE ErrorWrite(r) BY <1>14, StatementsKeepRow DEF ErrorWrite
  <1>15. CASE StoreFails(r) BY <1>15, ConstantsAssumption DEF StoreFails, ConstantsAssumption
  <1>16. QED BY <1>1, <1>2, <1>3, <1>4, <1>5, <1>6, <1>7, <1>8, <1>9, <1>10, <1>11,
                <1>12, <1>13, <1>14, <1>15 DEF RunnerStep

LEMMA KillTyping ==
    ASSUME child \in [Runners -> ChildState], NEW p, KillProcess(p)
    PROVE  child' \in [Runners -> ChildState]
  BY DEF KillProcess

LEMMA CommandTyping ==
    ASSUME TypeOK, NEW c \in Actors, CommandStep(c)
    PROVE  TypeOK'
  <1> USE DEF TypeOK, Goto, OpGoto
  <1>1. CASE SpawnRunner(c) BY <1>1 DEF SpawnRunner
  <1>2. CASE QueueFailedRead(c) BY <1>2 DEF QueueFailedRead
  <1>3. CASE QueueFailedWrite(c) BY <1>3, StatementsKeepRow DEF QueueFailedWrite
  <1>4. CASE StopBegin(c) BY <1>4 DEF StopBegin, Row
  <1>5. CASE StopKill(c) BY <1>5, KillTyping DEF StopKill
  <1>6. CASE StopClearPid(c) BY <1>6, StatementsKeepRow DEF StopClearPid
  <1>7. CASE StopRead(c) BY <1>7 DEF StopRead
  <1>8. CASE StopWrite(c) BY <1>8, StatementsKeepRow DEF StopWrite
  <1>9. CASE ResumeBegin(c) BY <1>9 DEF ResumeBegin
  <1>10. CASE ResumeReset(c) BY <1>10, StatementsKeepRow DEF ResumeReset
  <1>11. CASE DeleteBegin(c) BY <1>11 DEF DeleteBegin
  <1>12. CASE DeleteRow(c) BY <1>12 DEF DeleteRow, Row
  <1>13. CASE CommandAborts(c) BY <1>13 DEF CommandAborts
  <1>14. QED BY <1>1, <1>2, <1>3, <1>4, <1>5, <1>6, <1>7, <1>8, <1>9, <1>10, <1>11,
                <1>12, <1>13 DEF CommandStep

LEMMA DaemonTyping ==
    ASSUME TypeOK, NEW d \in Daemons, DaemonStep(d)
    PROVE  TypeOK'
  <1> USE DEF TypeOK, DaemonGoto, DaemonReads
  <1>1. CASE RecoverScan(d) BY <1>1 DEF RecoverScan, Row
  <1>2. CASE Recover(d) BY <1>2, StatementsKeepRow DEF Recover
  <1>3. CASE PassScan(d) BY <1>3 DEF PassScan, Row
  <1>4. CASE TerminateAgent(d) BY <1>4, KillTyping DEF TerminateAgent
  <1>5. CASE FailRow(d) BY <1>5, StatementsKeepRow DEF FailRow
  <1>6. CASE StaleRead(d) BY <1>6 DEF StaleRead
  <1>7. CASE StaleWrite(d) BY <1>7, StatementsKeepRow DEF StaleWrite
  <1>8. CASE DaemonRestarts(d) BY <1>8 DEF DaemonRestarts
  <1>9. QED BY <1>1, <1>2, <1>3, <1>4, <1>5, <1>6, <1>7, <1>8 DEF DaemonStep

LEMMA EnvironmentTyping ==
    ASSUME TypeOK,
           \/ HeartbeatExpires
           \/ \E r \in Runners : AgentExits(r) \/ RunnerCrashes(r)
           \/ \E d \in Daemons : DaemonCrashes(d)
    PROVE  TypeOK'
  <1> USE DEF TypeOK, Goto
  <1>1. CASE HeartbeatExpires BY <1>1 DEF HeartbeatExpires, Row
  <1>2. ASSUME NEW r \in Runners, AgentExits(r) PROVE TypeOK' BY <1>2 DEF AgentExits
  <1>3. ASSUME NEW r \in Runners, RunnerCrashes(r) PROVE TypeOK'
    BY <1>3, ConstantsAssumption DEF RunnerCrashes, ConstantsAssumption
  <1>4. ASSUME NEW d \in Daemons, DaemonCrashes(d) PROVE TypeOK'
    BY <1>4, ConstantsAssumption DEF DaemonCrashes, ConstantsAssumption
  <1>5. QED BY <1>1, <1>2, <1>3, <1>4

\* Every state of the lifecycle is well formed: the row holds a state of the
\* table and a pid of one of the session's agents, or is gone.
THEOREM Typing == Spec => []TypeOK
  <1>1. Init => TypeOK
    BY ConstantsAssumption DEF Init, TypeOK, Row, ConstantsAssumption
  <1>2. TypeOK /\ [Next]_vars => TypeOK'
    <2> SUFFICES ASSUME TypeOK, [Next]_vars PROVE TypeOK' OBVIOUS
    <2>1. CASE UNCHANGED vars BY <2>1 DEF vars, TypeOK
    <2>2. CASE Next
      BY <2>2, RunnerTyping, CommandTyping, DaemonTyping, EnvironmentTyping DEF Next
    <2>3. QED BY <2>1, <2>2
  <1>3. QED BY <1>1, <1>2, PTL DEF Spec

----------------------------------------------------------------------------
(* Commands, daemons and the environment never make the row Running, never  *)
(* record a pid, never write Completed and never move a runner on; a crash   *)
(* is the one exception, and only ever leads to "crashed".                    *)

Bystander ==
    /\ row'.state \in {"Running", "Completed"} => row'.state = row.state
    /\ row'.pid # NoPid => row'.pid = row.pid
    /\ \A r \in Runners : pc'[r] = pc[r] \/ pc[r] = "unused" \/ pc'[r] = "crashed"
    /\ \A r \in Runners : child[r] \in {"none", "ok"} => child'[r] = child[r]
    /\ row' = row \/ (row'.state = NoRow => row'.pid = NoPid)
    /\ failed' = failed

LEMMA CommandIsBystander ==
    ASSUME TypeOK, NEW c \in Actors, CommandStep(c)
    PROVE  Bystander
  <1> USE DEF TypeOK, Row, Bystander
  <1>1. CASE SpawnRunner(c) BY <1>1 DEF SpawnRunner, Goto
  <1>2. CASE QueueFailedRead(c) BY <1>2 DEF QueueFailedRead
  <1>3. CASE QueueFailedWrite(c) BY <1>3 DEF QueueFailedWrite, WriteState
  <1>4. CASE StopBegin(c) BY <1>4 DEF StopBegin
  <1>5. CASE StopKill(c) BY <1>5 DEF StopKill, KillProcess
  <1>6. CASE StopClearPid(c) BY <1>6 DEF StopClearPid, UpdatePid
  <1>7. CASE StopRead(c) BY <1>7 DEF StopRead
  <1>8. CASE StopWrite(c) BY <1>8 DEF StopWrite, WriteState
  <1>9. CASE ResumeBegin(c) BY <1>9 DEF ResumeBegin
  <1>10. CASE ResumeReset(c) BY <1>10 DEF ResumeReset, UpdateStateAndPid
  <1>11. CASE DeleteBegin(c) BY <1>11 DEF DeleteBegin
  <1>12. CASE DeleteRow(c) BY <1>12 DEF DeleteRow
  <1>13. CASE CommandAborts(c) BY <1>13 DEF CommandAborts
  <1>14. QED BY <1>1, <1>2, <1>3, <1>4, <1>5, <1>6, <1>7, <1>8, <1>9, <1>10, <1>11,
                <1>12, <1>13 DEF CommandStep

LEMMA DaemonIsBystander ==
    ASSUME TypeOK, NEW d \in Daemons, DaemonStep(d)
    PROVE  Bystander
  <1> USE DEF TypeOK, Row, Bystander
  <1>1. CASE RecoverScan(d) BY <1>1 DEF RecoverScan
  <1>2. CASE Recover(d) BY <1>2 DEF Recover, UpdateStateAndPid
  <1>3. CASE PassScan(d) BY <1>3 DEF PassScan
  <1>4. CASE TerminateAgent(d) BY <1>4 DEF TerminateAgent, KillProcess
  <1>5. CASE FailRow(d) BY <1>5 DEF FailRow, UpdateStateAndPid
  <1>6. CASE StaleRead(d) BY <1>6 DEF StaleRead
  <1>7. CASE StaleWrite(d) BY <1>7 DEF StaleWrite, WriteState
  <1>8. CASE DaemonRestarts(d) BY <1>8 DEF DaemonRestarts
  <1>9. QED BY <1>1, <1>2, <1>3, <1>4, <1>5, <1>6, <1>7, <1>8 DEF DaemonStep

LEMMA EnvironmentIsBystander ==
    ASSUME TypeOK,
           \/ UNCHANGED vars
           \/ HeartbeatExpires
           \/ \E r \in Runners : AgentExits(r) \/ RunnerCrashes(r)
           \/ \E d \in Daemons : DaemonCrashes(d)
    PROVE  Bystander
  <1> USE DEF TypeOK, Row, Bystander
  <1>1. CASE HeartbeatExpires BY <1>1 DEF HeartbeatExpires, RowExists
  <1>2. ASSUME NEW r \in Runners, AgentExits(r) PROVE Bystander BY <1>2 DEF AgentExits
  <1>3. ASSUME NEW r \in Runners, RunnerCrashes(r) PROVE Bystander
    BY <1>3 DEF RunnerCrashes, Goto
  <1>4. ASSUME NEW d \in Daemons, DaemonCrashes(d) PROVE Bystander
    BY <1>4 DEF DaemonCrashes
  <1>5. CASE UNCHANGED vars BY <1>5 DEF vars
  <1>6. QED BY <1>1, <1>2, <1>3, <1>4, <1>5

----------------------------------------------------------------------------
(* The inductive invariant: the three properties and what they need, that   *)
(* a runner has no agent before it spawns one and a deleted row no pid.     *)

NoAgentBeforeSpawn ==
    \A r \in Runners : pc[r] \in {"unused", "check", "spawn"} => child[r] = "none"

DeletedRowHasNoPid == row.state = NoRow => row.pid = NoPid

IInv == /\ TypeOK /\ NoAgentBeforeSpawn /\ DeletedRowHasNoPid
        /\ RunningIsOwed /\ PidHasOwner /\ CompletedByExitZero

LEMMA BystanderKeepsIInv ==
    ASSUME IInv, Bystander, TypeOK'
    PROVE  IInv'
  <1> USE DEF IInv, TypeOK, Row, Bystander
  <1>1. RunningIsOwed' BY DEF RunningIsOwed, OwesFinalWrite
  <1>2. PidHasOwner' BY ConstantsAssumption DEF PidHasOwner, HoldsPid, ConstantsAssumption
  <1>3. CompletedByExitZero' BY DEF CompletedByExitZero
  <1>4. NoAgentBeforeSpawn' BY DEF NoAgentBeforeSpawn
  <1>5. DeletedRowHasNoPid' BY DEF DeletedRowHasNoPid
  <1>6. QED BY <1>1, <1>2, <1>3, <1>4, <1>5

\* A runner that finds Failed forbidden is looking at a row that is not Running.
LEMMA RunningMayFail == CanTransition("Running", "Failed")
  BY DEF CanTransition, Successors

LEMMA RunnerKeepsRunningIsOwed ==
    ASSUME IInv, NEW r \in Runners, RunnerStep(r) \/ Heartbeat(r)
    PROVE  RunningIsOwed'
  <1> USE DEF IInv, TypeOK, Row, Goto, RunningIsOwed, OwesFinalWrite
  <1>1. CASE RunSession(r) BY <1>1 DEF RunSession
  <1>2. CASE SpawnAgent(r) BY <1>2 DEF SpawnAgent
  <1>3. CASE RecordPid(r) BY <1>3 DEF RecordPid, UpdatePid
  <1>4. CASE RunningRead(r) BY <1>4 DEF RunningRead
  <1>5. CASE RunningWrite(r) BY <1>5 DEF RunningWrite, WriteState, RowExists
  <1>6. CASE FirstBeat(r) BY <1>6 DEF FirstBeat, TouchHeartbeat
  <1>7. CASE Heartbeat(r) BY <1>7 DEF Heartbeat, TouchHeartbeat
  <1>8. CASE ReapAgent(r) BY <1>8 DEF ReapAgent
  <1>9. CASE ClearPid(r) BY <1>9 DEF ClearPid, UpdatePid
  <1>10. CASE FinalRead(r) BY <1>10 DEF FinalRead
  <1>11. CASE FinalWrite(r) BY <1>11 DEF FinalWrite, WriteState, FinalState, RowExists
  <1>12. CASE ErrorClear(r) BY <1>12 DEF ErrorClear, UpdatePid
  <1>13. CASE ErrorRead(r) BY <1>13, RunningMayFail DEF ErrorRead, Allows, RowExists
  <1>14. CASE ErrorWrite(r) BY <1>14 DEF ErrorWrite, WriteState, RowExists
  <1>15. CASE StoreFails(r) BY <1>15, ConstantsAssumption DEF StoreFails, ConstantsAssumption
  <1>16. QED BY <1>1, <1>2, <1>3, <1>4, <1>5, <1>6, <1>7, <1>8, <1>9, <1>10, <1>11,
                <1>12, <1>13, <1>14, <1>15 DEF RunnerStep

LEMMA RunnerKeepsPidHasOwner ==
    ASSUME IInv, NEW r \in Runners, RunnerStep(r) \/ Heartbeat(r)
    PROVE  PidHasOwner'
  <1> USE ConstantsAssumption
      DEF IInv, TypeOK, Row, Goto, PidHasOwner, HoldsPid, ConstantsAssumption
  <1>1. CASE RunSession(r) BY <1>1 DEF RunSession
  <1>2. CASE SpawnAgent(r) BY <1>2 DEF SpawnAgent
  <1>3. CASE RecordPid(r) BY <1>3 DEF RecordPid, UpdatePid
  <1>4. CASE RunningRead(r) BY <1>4 DEF RunningRead
  <1>5. CASE RunningWrite(r) BY <1>5 DEF RunningWrite, WriteState
  <1>6. CASE FirstBeat(r) BY <1>6 DEF FirstBeat, TouchHeartbeat
  <1>7. CASE Heartbeat(r) BY <1>7 DEF Heartbeat, TouchHeartbeat
  <1>8. CASE ReapAgent(r) BY <1>8 DEF ReapAgent
  <1>9. CASE ClearPid(r) BY <1>9 DEF ClearPid, UpdatePid
  <1>10. CASE FinalRead(r) BY <1>10 DEF FinalRead
  <1>11. CASE FinalWrite(r) BY <1>11 DEF FinalWrite, WriteState
  <1>12. CASE ErrorClear(r) BY <1>12 DEF ErrorClear, UpdatePid, RowExists, DeletedRowHasNoPid
  <1>13. CASE ErrorRead(r) BY <1>13 DEF ErrorRead
  <1>14. CASE ErrorWrite(r) BY <1>14 DEF ErrorWrite, WriteState
  <1>15. CASE StoreFails(r) BY <1>15, ConstantsAssumption DEF StoreFails, ConstantsAssumption
  <1>16. QED BY <1>1, <1>2, <1>3, <1>4, <1>5, <1>6, <1>7, <1>8, <1>9, <1>10, <1>11,
                <1>12, <1>13, <1>14, <1>15 DEF RunnerStep

LEMMA RunnerKeepsCompletedByExitZero ==
    ASSUME IInv, NEW r \in Runners, RunnerStep(r) \/ Heartbeat(r)
    PROVE  CompletedByExitZero'
  <1> USE DEF IInv, TypeOK, Row, CompletedByExitZero, NoAgentBeforeSpawn
  <1>1. CASE RunSession(r) BY <1>1 DEF RunSession
  <1>2. CASE SpawnAgent(r) BY <1>2 DEF SpawnAgent
  <1>3. CASE RecordPid(r) BY <1>3 DEF RecordPid, UpdatePid
  <1>4. CASE RunningRead(r) BY <1>4 DEF RunningRead
  <1>5. CASE RunningWrite(r) BY <1>5 DEF RunningWrite, WriteState
  <1>6. CASE FirstBeat(r) BY <1>6 DEF FirstBeat, TouchHeartbeat
  <1>7. CASE Heartbeat(r) BY <1>7 DEF Heartbeat, TouchHeartbeat
  <1>8. CASE ReapAgent(r) BY <1>8 DEF ReapAgent
  <1>9. CASE ClearPid(r) BY <1>9 DEF ClearPid, UpdatePid
  <1>10. CASE FinalRead(r) BY <1>10 DEF FinalRead
  <1>11. CASE FinalWrite(r) BY <1>11 DEF FinalWrite, WriteState, FinalState
  <1>12. CASE ErrorClear(r) BY <1>12 DEF ErrorClear, UpdatePid
  <1>13. CASE ErrorRead(r) BY <1>13 DEF ErrorRead
  <1>14. CASE ErrorWrite(r) BY <1>14 DEF ErrorWrite, WriteState
  <1>15. CASE StoreFails(r) BY <1>15, ConstantsAssumption DEF StoreFails, ConstantsAssumption
  <1>16. QED BY <1>1, <1>2, <1>3, <1>4, <1>5, <1>6, <1>7, <1>8, <1>9, <1>10, <1>11,
                <1>12, <1>13, <1>14, <1>15 DEF RunnerStep

LEMMA RunnerKeepsAuxiliary ==
    ASSUME IInv, NEW r \in Runners, RunnerStep(r) \/ Heartbeat(r)
    PROVE  NoAgentBeforeSpawn' /\ DeletedRowHasNoPid'
  <1> USE DEF IInv, TypeOK, Row, Goto, NoAgentBeforeSpawn, DeletedRowHasNoPid, RowExists
  <1>1. CASE RunSession(r) BY <1>1 DEF RunSession
  <1>2. CASE SpawnAgent(r) BY <1>2 DEF SpawnAgent
  <1>3. CASE RecordPid(r) BY <1>3 DEF RecordPid, UpdatePid
  <1>4. CASE RunningRead(r) BY <1>4 DEF RunningRead
  <1>5. CASE RunningWrite(r) BY <1>5 DEF RunningWrite, WriteState
  <1>6. CASE FirstBeat(r) BY <1>6 DEF FirstBeat, TouchHeartbeat
  <1>7. CASE Heartbeat(r) BY <1>7 DEF Heartbeat, TouchHeartbeat
  <1>8. CASE ReapAgent(r) BY <1>8 DEF ReapAgent
  <1>9. CASE ClearPid(r) BY <1>9 DEF ClearPid, UpdatePid
  <1>10. CASE FinalRead(r) BY <1>10 DEF FinalRead
  <1>11. CASE FinalWrite(r) BY <1>11 DEF FinalWrite, WriteState, FinalState
  <1>12. CASE ErrorClear(r) BY <1>12 DEF ErrorClear, UpdatePid
  <1>13. CASE ErrorRead(r) BY <1>13 DEF ErrorRead
  <1>14. CASE ErrorWrite(r) BY <1>14 DEF ErrorWrite, WriteState
  <1>15. CASE StoreFails(r) BY <1>15, ConstantsAssumption DEF StoreFails, ConstantsAssumption
  <1>16. QED BY <1>1, <1>2, <1>3, <1>4, <1>5, <1>6, <1>7, <1>8, <1>9, <1>10, <1>11,
                <1>12, <1>13, <1>14, <1>15 DEF RunnerStep

LEMMA IInvInductive == Spec => []IInv
  <1>1. Init => IInv
    BY ConstantsAssumption
    DEF Init, IInv, TypeOK, Row, RunningIsOwed, PidHasOwner, CompletedByExitZero,
        NoAgentBeforeSpawn, DeletedRowHasNoPid, ConstantsAssumption
  <1>2. IInv /\ [Next]_vars /\ TypeOK' => IInv'
    <2> SUFFICES ASSUME IInv, [Next]_vars, TypeOK' PROVE IInv' OBVIOUS
    <2>1. ASSUME NEW r \in Runners, RunnerStep(r) \/ Heartbeat(r) PROVE IInv'
      BY <2>1, RunnerKeepsRunningIsOwed, RunnerKeepsPidHasOwner,
         RunnerKeepsCompletedByExitZero, RunnerKeepsAuxiliary DEF IInv
    <2>2. ASSUME NEW c \in Actors, CommandStep(c) PROVE IInv'
      BY <2>2, CommandIsBystander, BystanderKeepsIInv DEF IInv
    <2>3. ASSUME NEW d \in Daemons, DaemonStep(d) PROVE IInv'
      BY <2>3, DaemonIsBystander, BystanderKeepsIInv DEF IInv
    <2>4. ASSUME \/ UNCHANGED vars
                 \/ HeartbeatExpires
                 \/ \E r \in Runners : AgentExits(r) \/ RunnerCrashes(r)
                 \/ \E d \in Daemons : DaemonCrashes(d)
          PROVE IInv'
      BY <2>4, EnvironmentIsBystander, BystanderKeepsIInv DEF IInv
    <2>5. QED BY <2>1, <2>2, <2>3, <2>4 DEF Next
  <1>3. QED BY <1>1, <1>2, Typing, PTL DEF Spec

\* Unless the store fails the error path, a Running row is backed by a runner that
\* still owes it a final write, or by a crashed one, for any number of runners,
\* commands and daemons.
THEOREM RunningOwed == Spec => []RunningIsOwed
  BY IInvInductive, PTL DEF IInv

\* Unless the store fails the error path, the pid column never names the agent of
\* a runner that has finished.
THEOREM PidOwned == Spec => []PidHasOwner
  BY IInvInductive, PTL DEF IInv

\* A session is Completed only if an agent of it exited with status 0.
THEOREM CompletedEarned == Spec => []CompletedByExitZero
  BY IInvInductive, PTL DEF IInv

----------------------------------------------------------------------------
(* While nobody stops, resumes or deletes the session.  At most one runner  *)
(* is ever started; it launches its agent while the row is Pending, and no   *)
(* daemon looks at a Pending row; so every later decision of a daemon is     *)
(* about the one agent there is, and a snapshot it still acts on names that   *)
(* agent as long as the agent lives.                                          *)

Launching == {"check", "spawn", "set_pid", "run_read", "run_write"}
ActsOnRow == {"recover", "terminate", "fail_row", "stale_read", "stale_write"}

OneRunner ==
    \A r, s \in Runners : pc[r] # "unused" /\ pc[s] # "unused" => r = s

CreatorFirst ==
    /\ op[Creator].pc \in {"spawn", "spawn_failed", "fail_write", "done"}
    /\ op[Creator].pc # "done" =>
          row.state = "Pending" /\ \A r \in Runners : pc[r] = "unused"

LaunchedOnce ==
    row.state # "Pending" =>
        /\ row.state \in {"Running", "Stale", "Completed", "Failed"}
        /\ \A r \in Runners : pc[r] \notin Launching

DaemonsAfterLaunch ==
    \A d \in Daemons : daemon[d].pc \in ActsOnRow => row.state # "Pending"

\* Unless the store failed the launch, a living agent is one whose runner waits for it or crashed, the row is not
\* final, and from the launch on it names the agent.
LivingAgentIsKnown ==
    \A r \in Runners : "launch" \notin failed /\ child[r] = "alive" =>
        /\ pc[r] \in {"set_pid", "run_read", "run_write", "beat", "wait", "crashed"}
        /\ row.state \in {"Pending", "Running", "Stale"}
        /\ pc[r] \in {"run_read", "run_write"} \/ row.state # "Pending" => row.pid = r

LivingAgentIsInSnapshots ==
    \A r \in Runners, d \in Daemons : "launch" \notin failed /\ child[r] = "alive" =>
        /\ daemon[d].pc # "fail_row"
        /\ daemon[d].pc \in {"recover", "terminate"} => daemon[d].pid = r

\* Where stale sessions are only marked, the row keeps naming the agent, living
\* or not, until its runner reaps it.
AwaitedAgentIsKnown ==
    ~AutoTerminate => \A r \in Runners :
        /\ pc[r] \in {"set_pid", "run_read", "run_write", "beat", "wait"} => child[r] # "none"
        /\ pc[r] \in {"run_read", "run_write", "beat", "wait"} => row.pid = r
        /\ pc[r] \in {"beat", "wait"} => row.state \in {"Running", "Stale"}

AwaitedAgentIsInSnapshots ==
    ~AutoTerminate => \A d \in Daemons :
        /\ daemon[d].pc \notin {"terminate", "fail_row"}
        /\ \A r \in Runners :
              daemon[d].pc = "recover" /\ pc[r] \in {"beat", "wait"} => daemon[d].pid = r

Calm == /\ OneRunner /\ CreatorFirst /\ LaunchedOnce /\ DaemonsAfterLaunch
        /\ LivingAgentIsKnown /\ LivingAgentIsInSnapshots
        /\ AwaitedAgentIsKnown /\ AwaitedAgentIsInSnapshots

CalmInv == Undisturbed => Calm

\* A command that has left "idle" never comes back to it.
LEMMA CommandsDisturbForGood ==
    ASSUME TypeOK, [Next]_vars, Undisturbed'
    PROVE  /\ Undisturbed
           /\ \A c \in Commands : ~CommandStep(c)
  <1> USE DEF TypeOK, Undisturbed, Actors, OpGoto
  <1>1. ASSUME NEW c \in Actors, CommandStep(c)
        PROVE  /\ op[c].pc = "idle" => op'[c].pc # "idle"
               /\ op'[c].pc # "idle"
               /\ \A a \in Actors : a # c => op'[a] = op[a]
    <2>1. CASE SpawnRunner(c) BY <2>1 DEF SpawnRunner
    <2>2. CASE QueueFailedRead(c) \/ QueueFailedWrite(c)
      BY <2>2 DEF QueueFailedRead, QueueFailedWrite
    <2>3. CASE StopBegin(c) \/ StopKill(c) \/ StopClearPid(c) \/ StopRead(c) \/ StopWrite(c)
      BY <2>3 DEF StopBegin, StopKill, StopClearPid, StopRead, StopWrite
    <2>4. CASE ResumeBegin(c) \/ ResumeReset(c) BY <2>4 DEF ResumeBegin, ResumeReset
    <2>5. CASE DeleteBegin(c) \/ DeleteRow(c) BY <2>5 DEF DeleteBegin, DeleteRow
    <2>6. CASE CommandAborts(c) BY <2>6 DEF CommandAborts
    <2>7. QED BY <1>1, <2>1, <2>2, <2>3, <2>4, <2>5, <2>6 DEF CommandStep
  <1>2. ASSUME NEW r \in Runners, RunnerStep(r) \/ Heartbeat(r) \/ AgentExits(r) \/ RunnerCrashes(r)
        PROVE  UNCHANGED op
    BY <1>2 DEF RunnerStep, RunSession, SpawnAgent, RecordPid, RunningRead, RunningWrite,
       FirstBeat, Heartbeat, ReapAgent, ClearPid, FinalRead, FinalWrite, ErrorClear,
       ErrorRead, ErrorWrite, StoreFails, AgentExits, RunnerCrashes
  <1>3. ASSUME NEW d \in Daemons, DaemonStep(d) \/ DaemonCrashes(d) PROVE UNCHANGED op
    BY <1>3 DEF DaemonStep, RecoverScan, Recover, PassScan, TerminateAgent, FailRow,
       StaleRead, StaleWrite, DaemonRestarts, DaemonCrashes
  <1>4. CASE UNCHANGED vars \/ HeartbeatExpires
    <2>1. UNCHANGED op BY <1>4 DEF vars, HeartbeatExpires
    <2>2. QED BY <2>1, <1>1
  <1>5. QED BY <1>1, <1>2, <1>3, <1>4 DEF Next

LEMMA RunnerKeepsCalm ==
    ASSUME IInv, Calm, NEW r \in Runners, RunnerStep(r) \/ Heartbeat(r)
    PROVE  Calm'
  <1> USE DEF IInv, TypeOK, Row, Goto, Launching, ActsOnRow, Calm,
          OneRunner, CreatorFirst, LaunchedOnce, DaemonsAfterLaunch, LivingAgentIsKnown,
          LivingAgentIsInSnapshots, AwaitedAgentIsKnown, AwaitedAgentIsInSnapshots
  <1>1. CASE RunSession(r) BY <1>1 DEF RunSession
  <1>2. CASE SpawnAgent(r) BY <1>2 DEF SpawnAgent
  <1>3. CASE RecordPid(r) BY <1>3 DEF RecordPid, UpdatePid, RowExists
  <1>4. CASE RunningRead(r) 
    <2>1. CanTransition("Pending", "Running") BY DEF CanTransition, Successors
    <2>2. QED BY <1>4, <2>1 DEF RunningRead, Allows, RowExists
  <1>5. CASE RunningWrite(r) BY <1>5 DEF RunningWrite, WriteState, RowExists
  <1>6. CASE FirstBeat(r) BY <1>6 DEF FirstBeat, TouchHeartbeat, RowExists
  <1>7. CASE Heartbeat(r) BY <1>7 DEF Heartbeat, TouchHeartbeat
  <1>8. CASE ReapAgent(r) BY <1>8 DEF ReapAgent
  <1>9. CASE ClearPid(r) BY <1>9 DEF ClearPid, UpdatePid
  <1>10. CASE FinalRead(r) BY <1>10 DEF FinalRead
  <1>11. CASE FinalWrite(r) BY <1>11 DEF FinalWrite, WriteState, FinalState, RowExists
  <1>12. CASE ErrorClear(r) BY <1>12 DEF ErrorClear, UpdatePid
  <1>13. CASE ErrorRead(r) BY <1>13 DEF ErrorRead
  <1>14. CASE ErrorWrite(r) BY <1>14 DEF ErrorWrite, WriteState, RowExists
  <1>15. CASE StoreFails(r)
    <2>1. /\ pc[r] \notin {"unused", "check", "spawn", "wait", "crashed"}
          /\ pc' = [pc EXCEPT ![r] = pc'[r]]
          /\ pc'[r] \in {"err_clear", "err_read", "done"}
          /\ "launch" \notin failed' =>
                "launch" \notin failed /\ pc[r] \notin Statements["launch"]
          /\ UNCHANGED <<row, child, op, daemon>>
      BY <1>15, ConstantsAssumption DEF StoreFails, ConstantsAssumption
    <2> HIDE DEF Statements
    <2>2. OneRunner' /\ CreatorFirst' /\ LaunchedOnce' /\ DaemonsAfterLaunch' BY <2>1
    <2>3. LivingAgentIsKnown' BY <2>1 DEF Statements
    <2>4. LivingAgentIsInSnapshots' BY <2>1
    <2>5. AwaitedAgentIsKnown' /\ AwaitedAgentIsInSnapshots' BY <2>1
    <2>6. QED BY <2>2, <2>3, <2>4, <2>5
  <1>16. QED BY <1>1, <1>2, <1>3, <1>4, <1>5, <1>6, <1>7, <1>8, <1>9, <1>10, <1>11,
                <1>12, <1>13, <1>14, <1>15 DEF RunnerStep

LEMMA CreatorKeepsCalm ==
    ASSUME IInv, Calm, CommandStep(Creator)
    PROVE  Calm'
  <1> USE DEF IInv, TypeOK, Row, Goto, OpGoto, Actors, Launching, ActsOnRow, Calm,
          OneRunner, CreatorFirst, LaunchedOnce, DaemonsAfterLaunch, LivingAgentIsKnown,
          LivingAgentIsInSnapshots, AwaitedAgentIsKnown, AwaitedAgentIsInSnapshots,
          NoAgentBeforeSpawn
  <1>1. CASE SpawnRunner(Creator) BY <1>1 DEF SpawnRunner
  <1>2. CASE QueueFailedRead(Creator) BY <1>2 DEF QueueFailedRead
  <1>3. CASE QueueFailedWrite(Creator) BY <1>3 DEF QueueFailedWrite, WriteState, RowExists
  <1>4. CASE CommandAborts(Creator) BY <1>4 DEF CommandAborts
  <1>5. QED
    BY <1>1, <1>2, <1>3, <1>4
    DEF CommandStep, StopBegin, StopKill, StopClearPid, StopRead, StopWrite, ResumeBegin,
        ResumeReset, DeleteBegin, DeleteRow

LEMMA DaemonKeepsCalm ==
    ASSUME IInv, Calm, NEW d \in Daemons, DaemonStep(d) \/ DaemonCrashes(d)
    PROVE  Calm'
  <1> USE DEF IInv, TypeOK, Row, DaemonGoto, DaemonReads, Launching, ActsOnRow, Calm,
          OneRunner, CreatorFirst, LaunchedOnce, DaemonsAfterLaunch, LivingAgentIsKnown,
          LivingAgentIsInSnapshots, AwaitedAgentIsKnown, AwaitedAgentIsInSnapshots
  <1>1. CASE RecoverScan(d)
    <2>1. UNCHANGED <<row, pc, child, op, crashes, failed>> BY <1>1 DEF RecoverScan
    <2>2. CASE row.state = "Running"
      <3>1. daemon' = [daemon EXCEPT ![d] = [pc |-> "recover", pid |-> row.pid]]
        BY <1>1, <2>2 DEF RecoverScan
      <3>2. OneRunner' /\ CreatorFirst' /\ LaunchedOnce' /\ DaemonsAfterLaunch'
        BY <2>1, <2>2, <3>1
      <3>3. LivingAgentIsKnown' /\ AwaitedAgentIsKnown' BY <2>1
      <3>4. LivingAgentIsInSnapshots' BY <2>1, <2>2, <3>1
      <3>5. AwaitedAgentIsInSnapshots' BY <2>1, <2>2, <3>1
      <3>6. QED BY <3>2, <3>3, <3>4, <3>5
    <2>3. CASE row.state # "Running"
      <3>1. daemon' = [daemon EXCEPT ![d].pc = "loop"] BY <1>1, <2>3 DEF RecoverScan
      <3>2. QED BY <2>1, <3>1
    <2>4. QED BY <2>2, <2>3
  <1>2. CASE Recover(d)
    <2>1. /\ daemon[d].pc = "recover"
          /\ row.state # "Pending"
          /\ \A r \in Runners : pc[r] \notin Launching
          /\ daemon' = [daemon EXCEPT ![d].pc = "loop"]
          /\ UNCHANGED <<pc, child, op, crashes, failed>>
      BY <1>2 DEF Recover
    <2>2. CASE PidIsAlive(daemon[d].pid)
      <3>1. UNCHANGED row BY <1>2, <2>2 DEF Recover
      <3>2. QED BY <2>1, <3>1
    <2>3. CASE ~PidIsAlive(daemon[d].pid)
      <3>1. row' = [state |-> "Failed", pid |-> NoPid, fresh |-> TRUE]
        BY <1>2, <2>1, <2>3 DEF Recover, UpdateStateAndPid, RowExists
      <3>2. \A r \in Runners : "launch" \notin failed => child[r] # "alive"
        BY <2>1, <2>3 DEF PidIsAlive
      <3>3. ~AutoTerminate => \A r \in Runners : pc[r] \notin {"beat", "wait"}
        BY <2>1, <2>3 DEF PidIsAlive
      <3>4. OneRunner' /\ CreatorFirst' /\ LaunchedOnce' /\ DaemonsAfterLaunch'
        BY <2>1, <3>1
      <3>5. LivingAgentIsKnown' /\ LivingAgentIsInSnapshots' BY <2>1, <3>2
      <3>6. AwaitedAgentIsKnown' BY <2>1, <3>1, <3>3
      <3>7. AwaitedAgentIsInSnapshots' BY <2>1
      <3>8. QED BY <3>4, <3>5, <3>6, <3>7
    <2>4. QED BY <2>2, <2>3
  <1>3. CASE PassScan(d) BY <1>3 DEF PassScan
  <1>4. CASE TerminateAgent(d) BY <1>4 DEF TerminateAgent, KillProcess
  <1>5. CASE FailRow(d) BY <1>5 DEF FailRow, UpdateStateAndPid, RowExists
  <1>6. CASE StaleRead(d) BY <1>6 DEF StaleRead
  <1>7. CASE StaleWrite(d) BY <1>7 DEF StaleWrite, WriteState, RowExists
  <1>8. CASE DaemonRestarts(d) BY <1>8 DEF DaemonRestarts
  <1>9. CASE DaemonCrashes(d) BY <1>9 DEF DaemonCrashes
  <1>10. QED BY <1>1, <1>2, <1>3, <1>4, <1>5, <1>6, <1>7, <1>8, <1>9 DEF DaemonStep

LEMMA EnvironmentKeepsCalm ==
    ASSUME IInv, Calm,
           \/ UNCHANGED vars
           \/ HeartbeatExpires
           \/ \E r \in Runners : AgentExits(r) \/ RunnerCrashes(r)
    PROVE  Calm'
  <1> USE DEF IInv, TypeOK, Row, Goto, Launching, ActsOnRow, Calm,
          OneRunner, CreatorFirst, LaunchedOnce, DaemonsAfterLaunch, LivingAgentIsKnown,
          LivingAgentIsInSnapshots, AwaitedAgentIsKnown, AwaitedAgentIsInSnapshots
  <1>1. CASE UNCHANGED vars BY <1>1 DEF vars
  <1>2. CASE HeartbeatExpires BY <1>2 DEF HeartbeatExpires
  <1>3. ASSUME NEW r \in Runners, AgentExits(r) PROVE Calm' BY <1>3 DEF AgentExits
  <1>4. ASSUME NEW r \in Runners, RunnerCrashes(r) PROVE Calm'
    BY <1>4 DEF RunnerCrashes, RunnerAlive
  <1>5. QED BY <1>1, <1>2, <1>3, <1>4

LEMMA CalmInductive == Spec => []CalmInv
  <1>1. Init => CalmInv
    BY DEF Init, CalmInv, Calm, Actors, ActsOnRow, OneRunner, CreatorFirst, LaunchedOnce,
       DaemonsAfterLaunch, LivingAgentIsKnown, LivingAgentIsInSnapshots,
       AwaitedAgentIsKnown, AwaitedAgentIsInSnapshots
  <1>2. IInv /\ CalmInv /\ [Next]_vars => CalmInv'
    <2> SUFFICES ASSUME IInv, Calm, [Next]_vars, \A c \in Commands : ~CommandStep(c)
                 PROVE  Calm'
      BY CommandsDisturbForGood DEF CalmInv, IInv
    <2>1. ASSUME NEW r \in Runners, RunnerStep(r) \/ Heartbeat(r) PROVE Calm'
      BY <2>1, RunnerKeepsCalm
    <2>2. ASSUME NEW c \in Actors, CommandStep(c) PROVE Calm'
      BY <2>2, CreatorKeepsCalm DEF Actors
    <2>3. ASSUME NEW d \in Daemons, DaemonStep(d) \/ DaemonCrashes(d) PROVE Calm'
      BY <2>3, DaemonKeepsCalm
    <2>4. ASSUME \/ UNCHANGED vars
                 \/ HeartbeatExpires
                 \/ \E r \in Runners : AgentExits(r) \/ RunnerCrashes(r)
          PROVE Calm'
      BY <2>4, EnvironmentKeepsCalm
    <2>5. QED BY <2>1, <2>2, <2>3, <2>4 DEF Next
  <1>3. QED BY <1>1, <1>2, IInvInductive, PTL DEF Spec

\* While nobody stops, resumes or deletes the session and stale sessions are not
\* killed, the row of an agent a runner waits for names it and stays Running or
\* Stale, whatever any number of daemons do.
THEOREM AgentTracked == Spec => []UndisturbedAgentIsTracked
  <1>1. CalmInv => UndisturbedAgentIsTracked
    BY DEF CalmInv, Calm, AwaitedAgentIsKnown, UndisturbedAgentIsTracked
  <1>2. QED BY <1>1, CalmInductive, PTL

\* While nobody stops, resumes or deletes the session and the store fails no
\* statement of the launch, no agent is alive behind a Failed row, with and without
\* the killing of stale sessions.
THEOREM FailedAgentGone == Spec => []FailedAgentIsGone
  <1>1. CalmInv => FailedAgentIsGone
    BY DEF CalmInv, Calm, LivingAgentIsKnown, FailedAgentIsGone
  <1>2. QED BY <1>1, CalmInductive, PTL

=============================================================================
