-------------------------- MODULE InstallerProofs --------------------------
(***************************************************************************)
(* The installer and the lock of the settings it rewrites.                 *)
(*                                                                         *)
(* ManagedInstall, for any set of files, releases, hook entries, nested    *)
(* layouts and edits:                                                      *)
(* RunShape says what a command that is under way has planned and what the *)
(* install-state holds meanwhile.  On top of it: HookInv follows the hook  *)
(* entry, ClaimInv the files with bytes of ECC, QuietInv the files the     *)
(* user wrote between commands, SinceInv what a repair has left to do.     *)
(* ClaimInv needs that removing a nested file does not throw, QuietInv     *)
(* that a repair is not interrupted.                                       *)
(*                                                                         *)
(* SettingsLock, for every number of processes and edits: while nobody     *)
(* removed the lock out of turn, a process that recovers owns the          *)
(* directory .recover alone, the lock it judged stale stays where it is    *)
(* until it moves it, and the lock names whoever holds it; so at most one  *)
(* process holds it, and only that process writes the settings.            *)
(***************************************************************************)
EXTENDS ManagedInstall, SettingsLock, TLAPS

Repairing == run.kind = "repair"

\* The claims that the plan of a repair keeps or adds.
Kept(f) == run.prev.files[f] # Unclaimed \/ f \in run.targets

InstallShape ==
    /\ run.todo \subseteq run.targets /\ run.written \subseteq run.targets
    /\ run.todo \cap run.written = {} /\ run.checked \subseteq run.todo
    /\ \A f \in run.checked : run.prev.files[f] # Unclaimed \/ disk[f] \in {Absent, Late}
    /\ run.targets \cap Nested = {}
    /\ run.stale \subseteq run.gone
    /\ \A n \in run.gone : run.prev.files[n] # Unclaimed
    /\ run.pc = "bridge" =>
         /\ run.bridged /\ run.checked = {} /\ run.written = {}
         /\ run.hooks \in {"none", "merge", "remove"}
    /\ record = IF run.bridged /\ run.pc = "write" THEN BridgeState(run) ELSE run.prev
    /\ ~run.bridged => run.targets = {} /\ run.gone = {} /\ run.hooks = "none"
    /\ run.kind = "install" => run.hooks \in {"merge", "merged"}
    /\ run.kind = "decline" => run.hooks \in {"none", "remove", "removed"}
    /\ run.kind = "keep" => run.hooks = "none"
    /\ run.hooks = "removed" => run.todo = {}
    /\ run.kind = "decline" /\ run.hooks = "none" => run.prev.hooks = Absent

UninstallShape ==
    /\ run.pc = "write"
    /\ record = run.prev
    /\ run.hooks \in {"none", "remove", "removed"}
    /\ run.hooks = "none" => run.prev.hooks = Absent

RepairShape ==
    /\ run.hooks \in {"none", "repair", "repaired"}
    /\ run.stale \subseteq run.gone
    /\ run.todo \cap run.gone \subseteq run.stale
    /\ \A f \in run.todo : Kept(f)
    /\ run.prev.hooks # Absent => \A f \in run.targets : run.prev.files[f] # Unclaimed
    /\ run.pc = "bridge" => record = run.prev
    /\ run.pc = "write" =>
         \/ record = run.prev /\ run.todo = {} /\ run.gone = {}
         \/ \A f \in File : Kept(f) => record.files[f] # Unclaimed
    /\ record.hooks = Absent <=> run.prev.hooks = Absent
    /\ run.hooks = "repair" => run.prev.hooks # Absent
    /\ run.since <= edits

\* A command that is under way keeps to its plan.
RunShape ==
    /\ run.kind = "none" <=> Idle
    /\ Idle => run = NoRun
    /\ Installing => InstallShape
    /\ Uninstalling => UninstallShape
    /\ Repairing => RepairShape

\* The hook entry is one of ECC only where the install-state, also the one that
\* the command will leave, lists it.
HookInv ==
    /\ HooksAreRecorded
    /\ run.kind = "decline" /\ run.hooks = "removed" => settings \notin Release
    /\ Uninstalling /\ run.hooks = "removed" /\ ~run.retained => settings \notin Release

\* The same for the files.
ClaimInv ==
    MigrationMayThrow \/
    /\ EccFilesAreClaimed
    /\ Installing =>
         \A f \in File : disk[f] \in Release => run.prev.files[f] # Unclaimed \/ f \in run.written
    /\ Installing \/ Repairing => \A n \in run.gone \ run.stale : disk[n] \notin Release
    /\ Uninstalling /\ ~run.retained =>
         \A f \in File \ run.todo : run.prev.files[f] # Unclaimed => disk[f] \notin Release
    /\ Repairing => \A f \in File : disk[f] \in Release => Kept(f)

\* The install-state never holds the digest of what the user wrote while no
\* command ran, but for the middle of a repair, which replaces such files.
QuietInv ==
    RepairMayStop \/
    /\ \A f \in File : run.prev.files[f] # Quiet
    /\ ~Repairing => \A f \in File : record.files[f] # Quiet
    /\ Installing => \A f \in run.targets : disk[f] = Quiet => f \in run.todo
    /\ Repairing => \A f \in File : disk[f] = Quiet => f \in run.todo \/ f \in run.stale \/ ~Kept(f)

\* A repair that nobody disturbed has still to do what is not in order.
SinceInv ==
    Repairing /\ run.since = edits =>
        /\ \A f \in File : Kept(f) /\ f \notin run.gone =>
              f \in run.todo \/ disk[f] \in {run.release, run.prev.files[f]}
        /\ \A f \in run.gone \ run.stale : disk[f] = Absent
        /\ run.prev.hooks # Absent => run.hooks = "repair" \/ settings = HookText[run.release]

Inv == TypeOK /\ RunShape /\ HookInv /\ ClaimInv /\ QuietInv /\ SinceInv

----------------------------------------------------------------------------
(* What the three commands plan.                                           *)

\* The run an install starts with, as one record.
LEMMA InstallPlanned ==
    ASSUME NEW consent, InstallPlan(consent)
    PROVE  LET targets == Ships[package] \ UserOwned(record.files, Ships[package])
               gone == Migrated(record.files, targets)
               bridge == targets # {} \/ consent = "install" \/ RemovesHooks(consent)
           IN run' = [kind |-> consent, pc |-> IF bridge THEN "bridge" ELSE "write",
                      prev |-> record, targets |-> targets, todo |-> targets,
                      checked |-> {}, written |-> {},
                      hooks |-> IF consent = "install" THEN "merge"
                                ELSE IF RemovesHooks(consent) THEN "remove" ELSE "none",
                      gone |-> gone, stale |-> gone, release |-> package,
                      retained |-> FALSE, bridged |-> bridge, since |-> 0]
  BY DEF InstallPlan, NoRun

\* The run an uninstall starts with, as one record.
LEMMA UninstallPlanned ==
    ASSUME UninstallPlan
    PROVE  run' = [kind |-> "uninstall", pc |-> "write", prev |-> record, targets |-> {},
                   todo |-> Claimed(record.files), checked |-> {}, written |-> {},
                   hooks |-> IF record.hooks = Absent THEN "none" ELSE "remove",
                   gone |-> {}, stale |-> {}, release |-> 1,
                   retained |-> FALSE, bridged |-> FALSE, since |-> 0]
  BY DEF UninstallPlan, NoRun

\* The run a repair starts with, as one record.
LEMMA RepairPlanned ==
    ASSUME RepairPlan
    PROVE  LET todo == {f \in Claimed(DesiredFiles) : Broken(f)}
               hooks == IF Recorded /\ {settings, record.hooks} # {HookText[package]}
                        THEN "repair" ELSE "none"
               bridge == todo # {} \/ hooks = "repair" \/ RepairGone # {}
           IN run' = [kind |-> "repair", pc |-> IF bridge THEN "bridge" ELSE "write",
                      prev |-> record, targets |-> RepairTargets, todo |-> todo,
                      checked |-> {}, written |-> {}, hooks |-> hooks, gone |-> RepairGone,
                      stale |-> RepairGone, release |-> package,
                      retained |-> FALSE, bridged |-> FALSE, since |-> edits]
  BY DEF RepairPlan, NoRun

\* The same as RunPlan and RepairRun, field by field.
RunPlan(consent) ==
    /\ run'.kind = consent /\ run'.pc \in {"bridge", "write"} /\ run'.prev = record
    /\ run'.todo = run'.targets /\ run'.checked = {} /\ run'.written = {}
    /\ run'.stale = run'.gone /\ run'.gone = Migrated(record.files, run'.targets)
    /\ run'.targets = Ships[package] \ UserOwned(record.files, Ships[package])
    /\ run'.bridged <=> run'.pc = "bridge"
    /\ ~run'.bridged => run'.targets = {} /\ consent # "install" /\ ~RemovesHooks(consent)
    /\ run'.hooks = IF consent = "install" THEN "merge"
                    ELSE IF RemovesHooks(consent) THEN "remove" ELSE "none"

\* An install plans what RunPlan says.
LEMMA InstallFacts ==
    ASSUME NEW consent \in Consent, InstallPlan(consent) PROVE RunPlan(consent)
<1> DEFINE targets == Ships[package] \ UserOwned(record.files, Ships[package])
           gone == Migrated(record.files, targets)
           removes == RemovesHooks(consent)
           bridge == targets # {} \/ consent = "install" \/ removes
           plan == [kind |-> consent, pc |-> IF bridge THEN "bridge" ELSE "write",
                    prev |-> record, targets |-> targets, todo |-> targets,
                    checked |-> {}, written |-> {},
                    hooks |-> IF consent = "install" THEN "merge"
                              ELSE IF removes THEN "remove" ELSE "none",
                    gone |-> gone, stale |-> gone, release |-> package,
                    retained |-> FALSE, bridged |-> bridge, since |-> 0]
<1>1. run' = plan
  BY InstallPlanned
<1>2. /\ gone = Migrated(record.files, targets)
      /\ targets = Ships[package] \ UserOwned(record.files, Ships[package])
      /\ removes = RemovesHooks(consent)
      /\ bridge <=> targets # {} \/ consent = "install" \/ removes
  OBVIOUS
<1> HIDE DEF targets, gone, removes, bridge
<1> QED
  BY <1>1, <1>2 DEF RunPlan

RepairRun ==
    /\ run'.kind = "repair" /\ run'.pc \in {"bridge", "write"} /\ run'.prev = record
    /\ run'.todo = {f \in Claimed(DesiredFiles) : Broken(f)} /\ run'.targets = RepairTargets
    /\ run'.gone = RepairGone /\ run'.stale = RepairGone /\ run'.since = edits
    /\ run'.release = package
    /\ run'.hooks \in {"none", "repair"} /\ (run'.hooks = "repair" => Recorded)
    /\ Recorded => run'.hooks = "repair" \/ settings = HookText[package]
    /\ run'.pc = "write" => run'.todo = {} /\ run'.gone = {}

\* A repair plans what RepairRun says.
LEMMA RepairFacts == ASSUME RepairPlan PROVE RepairRun
<1> DEFINE todo == {f \in Claimed(DesiredFiles) : Broken(f)}
           hooks == IF Recorded /\ {settings, record.hooks} # {HookText[package]}
                    THEN "repair" ELSE "none"
           bridge == todo # {} \/ hooks = "repair" \/ RepairGone # {}
           plan == [kind |-> "repair", pc |-> IF bridge THEN "bridge" ELSE "write",
                    prev |-> record, targets |-> RepairTargets, todo |-> todo,
                    checked |-> {}, written |-> {}, hooks |-> hooks, gone |-> RepairGone,
                    stale |-> RepairGone, release |-> package,
                    retained |-> FALSE, bridged |-> FALSE, since |-> edits]
<1>1. run' = plan
  BY RepairPlanned
<1>2. /\ hooks \in {"none", "repair"} /\ (hooks = "repair" => Recorded)
      /\ Recorded => hooks = "repair" \/ settings = HookText[package]
  OBVIOUS
<1>3. /\ todo = {f \in Claimed(DesiredFiles) : Broken(f)}
      /\ bridge <=> todo # {} \/ hooks = "repair" \/ RepairGone # {}
  OBVIOUS
<1> HIDE DEF todo, hooks, bridge
<1> QED
  BY <1>1, <1>2, <1>3 DEF RepairRun

\* Plans name files, and nested files only of the old layout.
LEMMA PlansAreTyped ==
    ASSUME TypeOK
    PROVE  /\ Ships[package] \subseteq File
           /\ \A files, targets : Migrated(files, targets) \subseteq Nested
           /\ RepairTargets \subseteq File
           /\ DOMAIN DesiredFiles = File
           /\ Claimed(record.files) \subseteq File /\ Claimed(DesiredFiles) \subseteq File
  BY ConstantsAssumption
     DEF TypeOK, ClaimMap, Migrated, RepairTargets, Claimed, DesiredFiles, Without, Release, Nested

RecordType == [exists : BOOLEAN, files : ClaimMap, hooks : Release \cup {Absent}]

RunType == [kind : {"none", "uninstall", "repair"} \cup Consent,
            pc : {"idle", "bridge", "write"},
            prev : RecordType,
            targets : SUBSET File, todo : SUBSET File, checked : SUBSET File,
            written : SUBSET File,
            hooks : {"none", "merge", "merged", "remove", "removed", "repair", "repaired"},
            gone : SUBSET Nested, stale : SUBSET Nested, release : Release,
            retained : BOOLEAN, bridged : BOOLEAN, since : Nat]

Surroundings ==
    /\ disk \in [File -> Bytes \cup {Absent}]
    /\ settings \in Release \cup {Quiet, Absent}
    /\ package \in Release
    /\ edits \in 0..MaxEdits

\* The type invariant by its three parts.
LEMMA TypesSplit == TypeOK <=> Surroundings /\ record \in RecordType /\ run \in RunType
  BY DEF TypeOK, Surroundings, RecordType, RunType

\* The plan of an install is type correct.
LEMMA InstallPlanTyped ==
    ASSUME TypeOK, NEW consent \in Consent, InstallPlan(consent)
    PROVE  run' \in RunType
<1> DEFINE targets == Ships[package] \ UserOwned(record.files, Ships[package])
           gone == Migrated(record.files, targets)
           removes == RemovesHooks(consent)
           bridge == targets # {} \/ consent = "install" \/ removes
           plan == [kind |-> consent, pc |-> IF bridge THEN "bridge" ELSE "write",
                    prev |-> record, targets |-> targets, todo |-> targets,
                    checked |-> {}, written |-> {},
                    hooks |-> IF consent = "install" THEN "merge"
                              ELSE IF removes THEN "remove" ELSE "none",
                    gone |-> gone, stale |-> gone, release |-> package,
                    retained |-> FALSE, bridged |-> bridge, since |-> 0]
<1>1. run' = plan
  BY InstallPlanned
<1>2. targets \subseteq File /\ gone \subseteq Nested
  BY PlansAreTyped
<1>3. record \in RecordType /\ package \in Release
  BY DEF TypeOK, RecordType
<1> HIDE DEF targets, gone, removes
<1>4. bridge \in BOOLEAN
  OBVIOUS
<1> HIDE DEF bridge
<1>5. plan \in RunType
  BY <1>2, <1>3, <1>4 DEF RunType
<1> HIDE DEF plan
<1> QED
  BY <1>1, <1>5

\* The plan of an uninstall is type correct.
LEMMA UninstallPlanTyped == ASSUME TypeOK, UninstallPlan PROVE run' \in RunType
<1> DEFINE todo == Claimed(record.files)
           hooks == record.hooks
           plan == [kind |-> "uninstall", pc |-> "write", prev |-> record, targets |-> {},
                    todo |-> todo, checked |-> {}, written |-> {},
                    hooks |-> IF hooks = Absent THEN "none" ELSE "remove",
                    gone |-> {}, stale |-> {}, release |-> 1,
                    retained |-> FALSE, bridged |-> FALSE, since |-> 0]
<1>1. run' = plan
  BY UninstallPlanned
<1>2. todo \subseteq File
  BY PlansAreTyped
<1>3. record \in RecordType /\ 1 \in Release
  BY ConstantsAssumption DEF TypeOK, RecordType, Release
<1> HIDE DEF todo, hooks
<1>4. plan \in RunType
  BY <1>2, <1>3 DEF RunType
<1> HIDE DEF plan
<1> QED
  BY <1>1, <1>4

\* The plan of a repair is type correct.
LEMMA RepairPlanTyped == ASSUME TypeOK, RepairPlan PROVE run' \in RunType
<1> DEFINE todo == {f \in Claimed(DesiredFiles) : Broken(f)}
           hooks == IF Recorded /\ {settings, record.hooks} # {HookText[package]}
                    THEN "repair" ELSE "none"
           bridge == todo # {} \/ hooks = "repair" \/ RepairGone # {}
           plan == [kind |-> "repair", pc |-> IF bridge THEN "bridge" ELSE "write",
                    prev |-> record, targets |-> RepairTargets, todo |-> todo,
                    checked |-> {}, written |-> {}, hooks |-> hooks, gone |-> RepairGone,
                    stale |-> RepairGone, release |-> package,
                    retained |-> FALSE, bridged |-> FALSE, since |-> edits]
<1>1. run' = plan
  BY RepairPlanned
<1>2. todo \subseteq File /\ RepairTargets \subseteq File /\ RepairGone \subseteq Nested
  BY PlansAreTyped DEF RepairGone
<1>3. record \in RecordType /\ package \in Release /\ edits \in Nat
  BY ConstantsAssumption DEF TypeOK, RecordType
<1>4. hooks \in {"none", "repair"}
  OBVIOUS
<1> HIDE DEF todo, hooks, bridge
<1>5. plan \in RunType
  BY <1>2, <1>3, <1>4 DEF RunType
<1> HIDE DEF plan
<1> QED
  BY <1>1, <1>5

\* The install-states that commands write.
LEMMA StatesAreTyped ==
    ASSUME TypeOK
    PROVE  /\ NoRecord \in RecordType /\ NoRun \in RunType
           /\ FinalState(run) \in RecordType /\ BridgeState(run) \in RecordType
           /\ Checkpoint(run) \in RecordType
           /\ \A files \in ClaimMap : Refreshed(files) \in ClaimMap
           /\ \A files \in ClaimMap : \A ops : /\ WithOperations(files, ops) \in ClaimMap
                                             /\ Without(files, ops) \in ClaimMap
           /\ run.prev.files \in ClaimMap
           /\ RepairHooks(run) \in Release \cup {Absent}
<1> USE ConstantsAssumption
<1>1. \A f \in File : Digest(f) \in Claim
  BY DEF TypeOK, Digest, Claim, Bytes, UserBytes
<1>2. {Unclaimed, Undigested} \subseteq Claim
  BY DEF Claim
<1>3. /\ run.prev \in RecordType /\ run.release \in Release
      /\ run.prev.files \in ClaimMap /\ run.prev.hooks \in Release \cup {Absent}
  BY DEF TypeOK, RecordType
<1>4. NoRecord \in RecordType
  BY <1>2 DEF NoRecord, RecordType, ClaimMap
<1>5. NoRun \in RunType
  <2>1. 1 \in Release
    BY DEF Release
  <2> QED
    BY <1>4, <2>1 DEF NoRun, RunType
<1>6. BridgeHooks(run) \in Release \cup {Absent} /\ FinalHooks(run) \in Release \cup {Absent}
  BY <1>3 DEF BridgeHooks, FinalHooks
<1>7. \A files \in ClaimMap : \A ops : /\ WithOperations(files, ops) \in ClaimMap
                                        /\ Without(files, ops) \in ClaimMap
  <2> SUFFICES ASSUME NEW files \in ClaimMap, NEW ops
               PROVE  WithOperations(files, ops) \in ClaimMap /\ Without(files, ops) \in ClaimMap
    OBVIOUS
  <2> QED
    BY <1>2 DEF ClaimMap, WithOperations, Without
<1>8. BridgeState(run) \in RecordType
  BY <1>3, <1>6, <1>7 DEF BridgeState, RecordType
<1>9. FinalState(run) \in RecordType
  BY <1>3, <1>6, <1>7 DEF FinalState, RecordType
<1>10. \A files \in ClaimMap : Refreshed(files) \in ClaimMap
  BY <1>1, <1>2 DEF Refreshed, ClaimMap
<1>11. Checkpoint(run) \in RecordType
  <2> DEFINE base == IF run.hooks = "removed" THEN FinalState(run) ELSE BridgeState(run)
             claim(f) == IF base.files[f] = Unclaimed THEN Unclaimed
                         ELSE IF f \in run.written THEN Digest(f)
                         ELSE IF run.prev.files[f] # Unclaimed THEN run.prev.files[f]
                         ELSE IF disk[f] = Absent THEN Undigested ELSE Unclaimed
             files == [f \in File |-> claim(f)]
  <2>1. Checkpoint(run) = [base EXCEPT !.files = files]
    BY DEF Checkpoint
  <2>2. base \in RecordType
    BY <1>8, <1>9
  <2>3. files \in ClaimMap
    BY <1>1, <1>2, <1>3 DEF ClaimMap
  <2> HIDE DEF base, files
  <2> QED
    BY <2>1, <2>2, <2>3 DEF RecordType
<1>12. RepairHooks(run) \in Release \cup {Absent}
  BY <1>3 DEF RepairHooks
<1> QED
  BY <1>3, <1>4, <1>5, <1>7, <1>8, <1>9, <1>10, <1>11, <1>12

\* Bytes are no marks, and a digest is a claim.
LEMMA Marks ==
    /\ \A r \in Release : r \notin {Absent, Quiet, Busy, Late, Unclaimed, Undigested}
    /\ Unclaimed \notin {Absent, Quiet, Busy, Late, Undigested}
    /\ Absent \notin {Quiet, Busy, Late, Undigested}
    /\ Quiet \notin {Busy, Late, Undigested}
  BY ConstantsAssumption DEF Release, Absent, Quiet, Busy, Late, Unclaimed, Undigested

\* Taking a digest claims the file, for the user only what the user wrote.
LEMMA DigestClaims ==
    ASSUME TypeOK, NEW f \in File
    PROVE  Digest(f) # Unclaimed /\ (Digest(f) = Quiet => disk[f] = Quiet)
  BY Marks DEF Digest, TypeOK, Bytes, UserBytes

\* Types are preserved by every step.
LEMMA TypeStep ==
    ASSUME TypeOK, [Next]_vars PROVE TypeOK'
<1> USE ConstantsAssumption
<1>0. Surroundings /\ record \in RecordType /\ run \in RunType
  BY TypesSplit
<1> USE <1>0
<1>1. ASSUME NEW consent \in Consent, InstallPlan(consent) PROVE TypeOK'
  <2>1. run' \in RunType
    BY <1>1, InstallPlanTyped
  <2>2. record' \in RecordType
    BY <1>1 DEF InstallPlan
  <2>3. Surroundings'
    BY <1>1 DEF InstallPlan, Surroundings, Bytes, UserBytes
  <2> QED
    BY <2>1, <2>2, <2>3 DEF TypeOK, Surroundings, RecordType, RunType
<1>2. ASSUME InstallBridge PROVE TypeOK'
  <2>1. run' \in RunType
    BY <1>2 DEF InstallBridge, RunType
  <2>2. record' \in RecordType
    BY <1>2, StatesAreTyped DEF InstallBridge
  <2>3. Surroundings'
    BY <1>2 DEF InstallBridge, Surroundings, Bytes, UserBytes
  <2> QED
    BY <2>1, <2>2, <2>3 DEF TypeOK, Surroundings, RecordType, RunType
<1>3. ASSUME InstallHooks PROVE TypeOK'
  <2>1. run' \in RunType
    BY <1>3 DEF InstallHooks, RunType
  <2>2. record' \in RecordType
    BY <1>3 DEF InstallHooks
  <2>3. Surroundings'
    BY <1>3 DEF InstallHooks, Surroundings, Bytes, UserBytes, RunType, RecordType, RepairHooks
  <2> QED
    BY <2>1, <2>2, <2>3 DEF TypeOK, Surroundings, RecordType, RunType
<1>4. ASSUME RemoveHooks PROVE TypeOK'
  <2>1. run' \in RunType
    BY <1>4 DEF RemoveHooks, RunType
  <2>2. record' \in RecordType
    BY <1>4 DEF RemoveHooks
  <2>3. Surroundings'
    BY <1>4 DEF RemoveHooks, Surroundings, Bytes, UserBytes, RunType, RecordType, RepairHooks
  <2> QED
    BY <2>1, <2>2, <2>3 DEF TypeOK, Surroundings, RecordType, RunType
<1>5. ASSUME InstallFinish PROVE TypeOK'
  <2>1. run' \in RunType
    BY <1>5, StatesAreTyped DEF InstallFinish
  <2>2. record' \in RecordType
    <3>1. FinalState(run) \in RecordType /\ FinalState(run).files \in ClaimMap
      BY StatesAreTyped DEF RecordType
    <3>2. \A f \in File : Digest(f) \in Claim
      BY DEF Surroundings, Digest, Claim, Bytes, UserBytes
    <3>3. [f \in File |-> IF f \in run.targets THEN Digest(f) ELSE FinalState(run).files[f]]
             \in ClaimMap
      BY <3>1, <3>2 DEF ClaimMap
    <3> QED
      BY <1>5, <3>1, <3>3 DEF InstallFinish, RecordType
  <2>3. Surroundings'
    BY <1>5 DEF InstallFinish, Surroundings, Bytes, UserBytes
  <2> QED
    BY <2>1, <2>2, <2>3 DEF TypeOK, Surroundings, RecordType, RunType
<1>6. ASSUME InstallThrows PROVE TypeOK'
  <2>1. run' \in RunType
    BY <1>6, StatesAreTyped DEF InstallThrows
  <2>2. record' \in RecordType
    BY <1>6, StatesAreTyped DEF InstallThrows
  <2>3. Surroundings'
    BY <1>6 DEF InstallThrows, Surroundings, Bytes, UserBytes
  <2> QED
    BY <2>1, <2>2, <2>3 DEF TypeOK, Surroundings, RecordType, RunType
<1>7. ASSUME UninstallPlan PROVE TypeOK'
  <2>1. run' \in RunType
    BY <1>7, UninstallPlanTyped
  <2>2. record' \in RecordType
    BY <1>7 DEF UninstallPlan
  <2>3. Surroundings'
    BY <1>7 DEF UninstallPlan, Surroundings, Bytes, UserBytes
  <2> QED
    BY <2>1, <2>2, <2>3 DEF TypeOK, Surroundings, RecordType, RunType
<1>8. ASSUME UninstallHooks PROVE TypeOK'
  <2>1. run' \in RunType
    BY <1>8 DEF UninstallHooks, RunType
  <2>2. record' \in RecordType
    BY <1>8 DEF UninstallHooks
  <2>3. Surroundings'
    BY <1>8 DEF UninstallHooks, Surroundings, Bytes, UserBytes, RunType, RecordType, RepairHooks
  <2> QED
    BY <2>1, <2>2, <2>3 DEF TypeOK, Surroundings, RecordType, RunType
<1>9. ASSUME UninstallFinish PROVE TypeOK'
  <2>1. run' \in RunType
    BY <1>9, StatesAreTyped DEF UninstallFinish
  <2>2. record' \in RecordType
    BY <1>9, StatesAreTyped DEF UninstallFinish
  <2>3. Surroundings'
    BY <1>9 DEF UninstallFinish, Surroundings, Bytes, UserBytes
  <2> QED
    BY <2>1, <2>2, <2>3 DEF TypeOK, Surroundings, RecordType, RunType
<1>10. ASSUME RepairPlan PROVE TypeOK'
  <2>1. run' \in RunType
    BY <1>10, RepairPlanTyped
  <2>2. record' \in RecordType
    BY <1>10 DEF RepairPlan
  <2>3. Surroundings'
    BY <1>10 DEF RepairPlan, Surroundings, Bytes, UserBytes
  <2> QED
    BY <2>1, <2>2, <2>3 DEF TypeOK, Surroundings, RecordType, RunType
<1>11. ASSUME RepairBridge PROVE TypeOK'
  <2>1. run' \in RunType
    BY <1>11 DEF RepairBridge, RunType
  <2>2. record' \in RecordType
    <3>1. PICK files \in ClaimMap :
             record' = [exists |-> TRUE, files |-> files, hooks |-> RepairHooks(run)]
      BY <1>11, StatesAreTyped DEF RepairBridge
    <3> QED
      BY <3>1, StatesAreTyped DEF RecordType
  <2>3. Surroundings'
    BY <1>11 DEF RepairBridge, Surroundings, Bytes, UserBytes
  <2> QED
    BY <2>1, <2>2, <2>3 DEF TypeOK, Surroundings, RecordType, RunType
<1>12. ASSUME RepairSettings PROVE TypeOK'
  <2>1. run' \in RunType
    BY <1>12 DEF RepairSettings, RunType
  <2>2. record' \in RecordType
    BY <1>12 DEF RepairSettings
  <2>3. Surroundings'
    BY <1>12 DEF RepairSettings, Surroundings, Bytes, UserBytes, RunType, RecordType, RepairHooks
  <2> QED
    BY <2>1, <2>2, <2>3 DEF TypeOK, Surroundings, RecordType, RunType
<1>13. ASSUME RepairFinish PROVE TypeOK'
  <2>1. run' \in RunType
    BY <1>13, StatesAreTyped DEF RepairFinish
  <2>2. record' \in RecordType
    <3>1. PICK files \in ClaimMap :
             record' = [exists |-> TRUE, files |-> files, hooks |-> RepairHooks(run)]
      BY <1>13, StatesAreTyped DEF RepairFinish
    <3> QED
      BY <3>1, StatesAreTyped DEF RecordType
  <2>3. Surroundings'
    BY <1>13 DEF RepairFinish, Surroundings, Bytes, UserBytes
  <2> QED
    BY <2>1, <2>2, <2>3 DEF TypeOK, Surroundings, RecordType, RunType
<1>14. ASSUME NEW f \in File, InstallFile(f) PROVE TypeOK'
  <2>1. run' \in RunType
    BY <1>14 DEF InstallFile, RunType
  <2>2. record' \in RecordType
    BY <1>14 DEF InstallFile
  <2>3. Surroundings'
    BY <1>14 DEF InstallFile, Surroundings, Bytes, UserBytes, RunType, RecordType, RepairHooks
  <2> QED
    BY <2>1, <2>2, <2>3 DEF TypeOK, Surroundings, RecordType, RunType
<1>15. ASSUME NEW f \in File, UninstallFile(f) PROVE TypeOK'
  <2>1. run' \in RunType
    BY <1>15 DEF UninstallFile, RunType
  <2>2. record' \in RecordType
    BY <1>15 DEF UninstallFile
  <2>3. Surroundings'
    BY <1>15 DEF UninstallFile, Surroundings, Bytes, UserBytes, RunType, RecordType, RepairHooks
  <2> QED
    BY <2>1, <2>2, <2>3 DEF TypeOK, Surroundings, RecordType, RunType
<1>16. ASSUME NEW f \in File, RepairFile(f) PROVE TypeOK'
  <2>1. run' \in RunType
    BY <1>16 DEF RepairFile, RunType
  <2>2. record' \in RecordType
    BY <1>16 DEF RepairFile
  <2>3. Surroundings'
    BY <1>16 DEF RepairFile, Surroundings, Bytes, UserBytes, RunType, RecordType, RepairHooks
  <2> QED
    BY <2>1, <2>2, <2>3 DEF TypeOK, Surroundings, RecordType, RunType
<1>17. ASSUME NEW f \in File, RemoveNested(f) PROVE TypeOK'
  <2>1. run' \in RunType
    BY <1>17 DEF RemoveNested, RunType
  <2>2. record' \in RecordType
    BY <1>17 DEF RemoveNested
  <2>3. Surroundings'
    BY <1>17 DEF RemoveNested, Surroundings, Bytes, UserBytes, RunType, RecordType, RepairHooks
  <2> QED
    BY <2>1, <2>2, <2>3 DEF TypeOK, Surroundings, RecordType, RunType
<1>18. ASSUME Stops PROVE TypeOK'
  <2>1. run' \in RunType
    BY <1>18, StatesAreTyped DEF Stops
  <2>2. record' \in RecordType
    BY <1>18 DEF Stops
  <2>3. Surroundings'
    BY <1>18 DEF Stops, Surroundings, Bytes, UserBytes
  <2> QED
    BY <2>1, <2>2, <2>3 DEF TypeOK, Surroundings, RecordType, RunType
<1>19. ASSUME NEW f \in File, UserWrites(f) PROVE TypeOK'
  <2>1. run' \in RunType
    BY <1>19 DEF UserWrites
  <2>2. record' \in RecordType
    BY <1>19 DEF UserWrites
  <2>3. Surroundings'
    BY <1>19 DEF UserWrites, Surroundings, Bytes, UserBytes, RunType, RecordType, RepairHooks
  <2> QED
    BY <2>1, <2>2, <2>3 DEF TypeOK, Surroundings, RecordType, RunType
<1>20. ASSUME NEW f \in File, UserDeletes(f) PROVE TypeOK'
  <2>1. run' \in RunType
    BY <1>20 DEF UserDeletes
  <2>2. record' \in RecordType
    BY <1>20 DEF UserDeletes
  <2>3. Surroundings'
    BY <1>20 DEF UserDeletes, Surroundings, Bytes, UserBytes, RunType, RecordType, RepairHooks
  <2> QED
    BY <2>1, <2>2, <2>3 DEF TypeOK, Surroundings, RecordType, RunType
<1>21. ASSUME UserEditsHooks PROVE TypeOK'
  <2>1. run' \in RunType
    BY <1>21 DEF UserEditsHooks
  <2>2. record' \in RecordType
    BY <1>21 DEF UserEditsHooks
  <2>3. Surroundings'
    BY <1>21 DEF UserEditsHooks, Surroundings, Bytes, UserBytes, RunType, RecordType, RepairHooks
  <2> QED
    BY <2>1, <2>2, <2>3 DEF TypeOK, Surroundings, RecordType, RunType
<1>22. ASSUME Upgrade PROVE TypeOK'
  <2>1. run' \in RunType
    BY <1>22 DEF Upgrade
  <2>2. record' \in RecordType
    BY <1>22 DEF Upgrade
  <2>3. Surroundings'
    BY <1>22 DEF Upgrade, Surroundings, Release
  <2> QED
    BY <2>1, <2>2, <2>3 DEF TypeOK, Surroundings, RecordType, RunType
<1>23. ASSUME UNCHANGED vars PROVE TypeOK'
  BY <1>23 DEF vars, TypeOK
<1>24. ASSUME NEW f \in File, CheckFile(f) PROVE TypeOK'
  <2>1. run' \in RunType
    BY <1>24 DEF CheckFile, RunType
  <2>2. record' \in RecordType
    BY <1>24 DEF CheckFile
  <2>3. Surroundings'
    BY <1>24 DEF CheckFile, Surroundings, Bytes, UserBytes
  <2> QED
    BY <2>1, <2>2, <2>3 DEF TypeOK, Surroundings, RecordType, RunType
<1> QED
  BY <1>1, <1>2, <1>3, <1>4, <1>5, <1>6, <1>7, <1>8, <1>9, <1>10, <1>11, <1>12, <1>13,
     <1>14, <1>15, <1>16, <1>17, <1>18, <1>19, <1>20, <1>21, <1>22, <1>23,
     <1>24 DEF Next,
     Commands, User

\* A command keeps to its plan.
LEMMA ShapeStep ==
    ASSUME TypeOK, TypeOK', RunShape, [Next]_vars PROVE RunShape'
<1> USE ConstantsAssumption
<1>1. ASSUME NEW consent \in Consent, InstallPlan(consent) PROVE RunShape'
  <2>1. RunPlan(consent)
    BY <1>1, InstallFacts
  <2>2. record' = record
    BY <1>1 DEF InstallPlan
  <2>3. run'.targets \cap Nested = {}
    BY <2>1 DEF RunPlan, TypeOK
  <2>4. consent = "decline" /\ run'.hooks = "none" => record.hooks = Absent
    BY <2>1 DEF RunPlan, RemovesHooks
  <2>5. ~run'.bridged => run'.gone = {}
    BY <2>1 DEF RunPlan, Migrated, Nested
  <2>6. \A n \in run'.gone : record.files[n] # Unclaimed
    BY <2>1 DEF RunPlan, Migrated
  <2>7. InstallShape'
    BY <2>1, <2>2, <2>3, <2>4, <2>5, <2>6 DEF RunPlan, InstallShape, RemovesHooks
  <2> QED
    BY <2>1, <2>7 DEF RunPlan, RunShape, Idle, Installing, Consent, Uninstalling, Repairing
<1>2. ASSUME InstallBridge PROVE RunShape'
  BY <1>2 DEF InstallBridge, Installing, Consent, BridgeState, BridgeHooks, WithOperations, RunShape,
     Uninstalling, Repairing, InstallShape, UninstallShape, RepairShape, Kept, Idle, TypeOK
<1>3. ASSUME InstallHooks PROVE RunShape'
  BY <1>3 DEF InstallHooks, Installing, Consent, RunShape, Uninstalling, Repairing, InstallShape,
     UninstallShape, RepairShape, Kept, Idle, TypeOK, BridgeState, BridgeHooks,
     WithOperations
<1>4. ASSUME RemoveHooks PROVE RunShape'
  BY <1>4 DEF RemoveHooks, Installing, Consent, RunShape, Uninstalling, Repairing, InstallShape,
     UninstallShape, RepairShape, Kept, Idle, TypeOK, BridgeState, BridgeHooks,
     WithOperations
<1>5. ASSUME InstallFinish PROVE RunShape'
  BY <1>5 DEF InstallFinish, Installing, Consent, WritesDone, FinalState, FinalHooks, WithOperations,
     Without, Digest, NoRun, NoRecord, RunShape, Uninstalling, Repairing, InstallShape,
     UninstallShape, RepairShape, Kept, Idle, TypeOK, BridgeState, BridgeHooks
<1>6. ASSUME InstallThrows PROVE RunShape'
  BY <1>6 DEF InstallThrows, Installing, Consent, WritesDone, Checkpoint, FinalState, FinalHooks,
     BridgeState, BridgeHooks, WithOperations, Without, Digest, NoRun, NoRecord, RunShape,
     Uninstalling, Repairing, InstallShape, UninstallShape, RepairShape, Kept, Idle, TypeOK
<1>7. ASSUME UninstallPlan PROVE RunShape'
  <2>1. /\ run'.kind = "uninstall" /\ run'.pc = "write" /\ run'.prev = record
        /\ run'.hooks = IF record.hooks = Absent THEN "none" ELSE "remove"
    BY <1>7, UninstallPlanned
  <2>2. record' = record
    BY <1>7 DEF UninstallPlan
  <2> QED
    BY <2>1, <2>2 DEF RunShape, UninstallShape, Idle, Installing, Consent, Uninstalling, Repairing
<1>8. ASSUME UninstallHooks PROVE RunShape'
  BY <1>8 DEF UninstallHooks, Uninstalling, RunShape, Installing, Consent, Repairing, InstallShape,
     UninstallShape, RepairShape, Kept, Idle, TypeOK, BridgeState, BridgeHooks,
     WithOperations
<1>9. ASSUME UninstallFinish PROVE RunShape'
  BY <1>9 DEF UninstallFinish, Uninstalling, WritesDone, NoRun, NoRecord, RunShape,
     Installing, Consent, Repairing, InstallShape, UninstallShape, RepairShape, Kept, Idle, TypeOK,
     BridgeState, BridgeHooks, WithOperations
<1>10. ASSUME RepairPlan PROVE RunShape'
  <2>1. RepairRun
    BY <1>10, RepairFacts
  <2>2. record' = record /\ edits' = edits
    BY <1>10 DEF RepairPlan
  <2>3. \A f \in run'.todo : record.files[f] # Unclaimed \/ f \in RepairTargets
    BY <2>1, PlansAreTyped
       DEF RepairRun, Claimed, DesiredFiles, Without, WithOperations, TypeOK, ClaimMap
  <2>4. edits \in Nat
    BY DEF TypeOK
  <2>5. Recorded => \A f \in RepairTargets : record.files[f] # Unclaimed
    BY DEF RepairTargets, Claimed
  <2>6. RepairShape'
    BY <2>1, <2>2, <2>3, <2>4, <2>5 DEF RepairRun, RepairShape, Kept, Recorded
  <2> QED
    BY <2>1, <2>6 DEF RepairRun, RunShape, Idle, Installing, Consent, Uninstalling, Repairing
<1>11. ASSUME RepairBridge PROVE RunShape'
  <2>1. /\ run.kind = "repair" /\ RepairShape
        /\ run' = [run EXCEPT !.pc = "write"] /\ edits' = edits
        /\ record'.files = Refreshed(WithOperations(run.prev.files, run.targets))
        /\ record'.hooks = RepairHooks(run)
    BY <1>11 DEF RepairBridge, RunShape, Repairing
  <2>2. \A f \in File : Kept(f) => record'.files[f] # Unclaimed
    BY <2>1, Marks, DigestClaims DEF Kept, Refreshed, WithOperations
  <2>3. record'.hooks = Absent <=> run.prev.hooks = Absent
    BY <2>1 DEF RepairHooks, TypeOK, Release, Absent
  <2>4. /\ run'.kind = "repair" /\ run'.pc = "write" /\ run'.prev = run.prev
        /\ run'.targets = run.targets /\ run'.todo = run.todo /\ run'.hooks = run.hooks
        /\ run'.gone = run.gone /\ run'.stale = run.stale /\ run'.since = run.since
    BY <2>1 DEF TypeOK
  <2>5. RepairShape'
    BY <2>1, <2>2, <2>3, <2>4 DEF RepairShape, Kept
  <2> QED
    BY <2>4, <2>5 DEF RunShape, Idle, Installing, Consent, Uninstalling, Repairing
<1>12. ASSUME RepairSettings PROVE RunShape'
  BY <1>12 DEF RepairSettings, RunShape, Installing, Consent, Uninstalling, Repairing, InstallShape,
     UninstallShape, RepairShape, Kept, Idle, TypeOK, BridgeState, BridgeHooks,
     WithOperations
<1>13. ASSUME RepairFinish PROVE RunShape'
  BY <1>13 DEF RepairFinish, WritesDone, Refreshed, Without, WithOperations, Digest,
     RepairHooks, NoRun, NoRecord, RunShape, Installing, Consent, Uninstalling, Repairing,
     InstallShape, UninstallShape, RepairShape, Kept, Idle, TypeOK, BridgeState, BridgeHooks
<1>14. ASSUME NEW f \in File, InstallFile(f) PROVE RunShape'
  BY <1>14 DEF InstallFile, Installing, Consent, InTheWay, RunShape, Uninstalling, Repairing,
     InstallShape, UninstallShape, RepairShape, Kept, Idle, TypeOK, BridgeState,
     BridgeHooks, WithOperations
<1>15. ASSUME NEW f \in File, UninstallFile(f) PROVE RunShape'
  BY <1>15 DEF UninstallFile, Uninstalling, Retains, RunShape, Installing, Consent, Repairing,
     InstallShape, UninstallShape, RepairShape, Kept, Idle, TypeOK, BridgeState,
     BridgeHooks, WithOperations
<1>16. ASSUME NEW f \in File, RepairFile(f) PROVE RunShape'
  BY <1>16 DEF RepairFile, RunShape, Installing, Consent, Uninstalling, Repairing, InstallShape,
     UninstallShape, RepairShape, Kept, Idle, TypeOK, BridgeState, BridgeHooks,
     WithOperations
<1>17. ASSUME NEW f \in File, RemoveNested(f) PROVE RunShape'
  BY <1>17 DEF RemoveNested, Installing, Consent, WritesDone, RunShape, Uninstalling, Repairing,
     InstallShape, UninstallShape, RepairShape, Kept, Idle, TypeOK, BridgeState,
     BridgeHooks, WithOperations
<1>18. ASSUME Stops PROVE RunShape'
  BY <1>18 DEF Stops, Idle, NoRun, NoRecord, RunShape, Installing, Consent, Uninstalling, Repairing,
     InstallShape, UninstallShape, RepairShape, Kept, TypeOK, BridgeState, BridgeHooks,
     WithOperations
<1>19. ASSUME NEW f \in File, UserWrites(f) PROVE RunShape'
  BY <1>19 DEF UserWrites, Idle, RunShape, Installing, Consent, Uninstalling, Repairing,
     InstallShape, UninstallShape, RepairShape, Kept, TypeOK, BridgeState, BridgeHooks,
     WithOperations
<1>20. ASSUME NEW f \in File, UserDeletes(f) PROVE RunShape'
  BY <1>20 DEF UserDeletes, RunShape, Installing, Consent, Uninstalling, Repairing, InstallShape,
     UninstallShape, RepairShape, Kept, Idle, TypeOK, BridgeState, BridgeHooks,
     WithOperations
<1>21. ASSUME UserEditsHooks PROVE RunShape'
  BY <1>21 DEF UserEditsHooks, RunShape, Installing, Consent, Uninstalling, Repairing, InstallShape,
     UninstallShape, RepairShape, Kept, Idle, TypeOK, BridgeState, BridgeHooks,
     WithOperations
<1>22. ASSUME Upgrade PROVE RunShape'
  BY <1>22 DEF Upgrade, Idle, RunShape, Installing, Consent, Uninstalling, Repairing, InstallShape,
     UninstallShape, RepairShape, Kept, TypeOK, BridgeState, BridgeHooks, WithOperations
<1>23. ASSUME UNCHANGED vars PROVE RunShape'
  BY <1>23 DEF vars, BridgeState, BridgeHooks, WithOperations, RunShape, Installing, Consent,
     Uninstalling, Repairing, InstallShape, UninstallShape, RepairShape, Kept, Idle
<1>24. ASSUME NEW f \in File, CheckFile(f) PROVE RunShape'
  BY <1>24 DEF CheckFile, Installing, Consent, InTheWay, RunShape, Uninstalling, Repairing,
     InstallShape, UninstallShape, RepairShape, Kept, Idle, TypeOK, BridgeState,
     BridgeHooks, WithOperations
<1> QED
  BY <1>1, <1>2, <1>3, <1>4, <1>5, <1>6, <1>7, <1>8, <1>9, <1>10, <1>11, <1>12, <1>13,
     <1>14, <1>15, <1>16, <1>17, <1>18, <1>19, <1>20, <1>21, <1>22, <1>23,
     <1>24 DEF Next,
     Commands, User

\* The values of the hook entry.
LEMMA HookTypes ==
    ASSUME TypeOK
    PROVE  /\ settings \in Release \cup {Quiet, Absent}
           /\ record.hooks \in Release \cup {Absent} /\ run.prev.hooks \in Release \cup {Absent}
           /\ HookText[run.release] \in Release
  BY ConstantsAssumption DEF TypeOK

\* The hook entry of ECC stays recorded.
LEMMA HookStep ==
    ASSUME TypeOK, RunShape, HookInv, [Next]_vars PROVE HookInv'
<1> USE Marks, HookTypes, StatesAreTyped
<1>1. ASSUME NEW consent \in Consent, InstallPlan(consent) PROVE HookInv'
  <2>1. RunPlan(consent)
    BY <1>1, InstallFacts
  <2> QED
    BY <1>1, <2>1 DEF InstallPlan, RunPlan, HookInv, HooksAreRecorded, Uninstalling
<1>2. ASSUME InstallBridge PROVE HookInv'
  BY <1>2 DEF InstallBridge, Installing, Consent, BridgeState, BridgeHooks, WithOperations, RunShape,
     InstallShape, UninstallShape, RepairShape, HookInv, HooksAreRecorded, Uninstalling,
     Repairing, Idle, FinalState, FinalHooks, RepairHooks
<1>3. ASSUME InstallHooks PROVE HookInv'
  BY <1>3 DEF InstallHooks, Installing, Consent, RunShape, InstallShape, UninstallShape, RepairShape,
     HookInv, HooksAreRecorded, Uninstalling, Repairing, Idle, BridgeState, BridgeHooks,
     FinalState, FinalHooks, RepairHooks
<1>4. ASSUME RemoveHooks PROVE HookInv'
  BY <1>4 DEF RemoveHooks, Installing, Consent, RunShape, InstallShape, UninstallShape, RepairShape,
     HookInv, HooksAreRecorded, Uninstalling, Repairing, Idle, BridgeState, BridgeHooks,
     FinalState, FinalHooks, RepairHooks
<1>5. ASSUME InstallFinish PROVE HookInv'
  BY <1>5 DEF InstallFinish, Installing, Consent, WritesDone, FinalState, FinalHooks, WithOperations,
     Without, Digest, NoRun, NoRecord, RunShape, InstallShape, UninstallShape, RepairShape,
     HookInv, HooksAreRecorded, Uninstalling, Repairing, Idle, BridgeState, BridgeHooks,
     RepairHooks
<1>6. ASSUME InstallThrows PROVE HookInv'
  BY <1>6 DEF InstallThrows, Installing, Consent, WritesDone, Checkpoint, FinalState, FinalHooks,
     BridgeState, BridgeHooks, WithOperations, Without, Digest, NoRun, NoRecord, RunShape,
     InstallShape, UninstallShape, RepairShape, HookInv, HooksAreRecorded, Uninstalling,
     Repairing, Idle, RepairHooks
<1>7. ASSUME UninstallPlan PROVE HookInv'
  <2>1. run'.kind = "uninstall" /\ run'.hooks \in {"none", "remove"}
    BY <1>7, UninstallPlanned
  <2> QED
    BY <1>7, <2>1 DEF UninstallPlan, HookInv, HooksAreRecorded
<1>8. ASSUME UninstallHooks PROVE HookInv'
  <2>1. /\ Uninstalling /\ run'.kind = run.kind /\ record' = record
        /\ settings' = IF settings = run.prev.hooks THEN Absent ELSE settings
        /\ run'.retained <=> run.retained \/ settings \notin {Absent, run.prev.hooks}
    BY <1>8 DEF UninstallHooks, TypeOK
  <2> QED
    BY <1>8, <2>1 DEF UninstallHooks, HookInv, HooksAreRecorded, Uninstalling
<1>9. ASSUME UninstallFinish PROVE HookInv'
  BY <1>9 DEF UninstallFinish, Uninstalling, WritesDone, NoRun, NoRecord, RunShape,
     InstallShape, UninstallShape, RepairShape, HookInv, HooksAreRecorded, Installing, Consent,
     Repairing, Idle, BridgeState, BridgeHooks, FinalState, FinalHooks, RepairHooks
<1>10. ASSUME RepairPlan PROVE HookInv'
  <2>1. RepairRun
    BY <1>10, RepairFacts
  <2> QED
    BY <1>10, <2>1 DEF RepairPlan, RepairRun, HookInv, HooksAreRecorded, Uninstalling
<1>11. ASSUME RepairBridge PROVE HookInv'
  BY <1>11 DEF RepairBridge, Refreshed, WithOperations, Digest, RepairHooks, RunShape,
     InstallShape, UninstallShape, RepairShape, HookInv, HooksAreRecorded, Installing, Consent,
     Uninstalling, Repairing, Idle, BridgeState, BridgeHooks, FinalState, FinalHooks
<1>12. ASSUME RepairSettings PROVE HookInv'
  BY <1>12 DEF RepairSettings, RunShape, InstallShape, UninstallShape, RepairShape, HookInv,
     HooksAreRecorded, Installing, Consent, Uninstalling, Repairing, Idle, BridgeState, BridgeHooks,
     FinalState, FinalHooks, RepairHooks
<1>13. ASSUME RepairFinish PROVE HookInv'
  BY <1>13 DEF RepairFinish, WritesDone, Refreshed, Without, WithOperations, Digest,
     RepairHooks, NoRun, NoRecord, RunShape, InstallShape, UninstallShape, RepairShape,
     HookInv, HooksAreRecorded, Installing, Consent, Uninstalling, Repairing, Idle, BridgeState,
     BridgeHooks, FinalState, FinalHooks
<1>14. ASSUME NEW f \in File, InstallFile(f) PROVE HookInv'
  BY <1>14 DEF InstallFile, Installing, Consent, InTheWay, RunShape, InstallShape, UninstallShape,
     RepairShape, HookInv, HooksAreRecorded, Uninstalling, Repairing, Idle, BridgeState,
     BridgeHooks, FinalState, FinalHooks, RepairHooks
<1>15. ASSUME NEW f \in File, UninstallFile(f) PROVE HookInv'
  <2>1. /\ Uninstalling /\ run'.kind = run.kind /\ run'.hooks = run.hooks
        /\ record' = record /\ settings' = settings
        /\ run'.retained <=> run.retained \/ Retains(f)
    BY <1>15 DEF UninstallFile, TypeOK
  <2> QED
    BY <2>1 DEF HookInv, HooksAreRecorded, Uninstalling
<1>16. ASSUME NEW f \in File, RepairFile(f) PROVE HookInv'
  BY <1>16 DEF RepairFile, RunShape, InstallShape, UninstallShape, RepairShape, HookInv,
     HooksAreRecorded, Installing, Consent, Uninstalling, Repairing, Idle, BridgeState, BridgeHooks,
     FinalState, FinalHooks, RepairHooks
<1>17. ASSUME NEW f \in File, RemoveNested(f) PROVE HookInv'
  BY <1>17 DEF RemoveNested, Installing, Consent, WritesDone, RunShape, InstallShape, UninstallShape,
     RepairShape, HookInv, HooksAreRecorded, Uninstalling, Repairing, Idle, BridgeState,
     BridgeHooks, FinalState, FinalHooks, RepairHooks
<1>18. ASSUME Stops PROVE HookInv'
  BY <1>18 DEF Stops, Idle, NoRun, NoRecord, RunShape, InstallShape, UninstallShape,
     RepairShape, HookInv, HooksAreRecorded, Installing, Consent, Uninstalling, Repairing,
     BridgeState, BridgeHooks, FinalState, FinalHooks, RepairHooks
<1>19. ASSUME NEW f \in File, UserWrites(f) PROVE HookInv'
  BY <1>19 DEF UserWrites, Idle, RunShape, InstallShape, UninstallShape, RepairShape,
     HookInv, HooksAreRecorded, Installing, Consent, Uninstalling, Repairing, BridgeState,
     BridgeHooks, FinalState, FinalHooks, RepairHooks
<1>20. ASSUME NEW f \in File, UserDeletes(f) PROVE HookInv'
  BY <1>20 DEF UserDeletes, RunShape, InstallShape, UninstallShape, RepairShape, HookInv,
     HooksAreRecorded, Installing, Consent, Uninstalling, Repairing, Idle, BridgeState, BridgeHooks,
     FinalState, FinalHooks, RepairHooks
<1>21. ASSUME UserEditsHooks PROVE HookInv'
  BY <1>21 DEF UserEditsHooks, RunShape, InstallShape, UninstallShape, RepairShape, HookInv,
     HooksAreRecorded, Installing, Consent, Uninstalling, Repairing, Idle, BridgeState, BridgeHooks,
     FinalState, FinalHooks, RepairHooks
<1>22. ASSUME Upgrade PROVE HookInv'
  BY <1>22 DEF Upgrade, Idle, RunShape, InstallShape, UninstallShape, RepairShape, HookInv,
     HooksAreRecorded, Installing, Consent, Uninstalling, Repairing, BridgeState, BridgeHooks,
     FinalState, FinalHooks, RepairHooks
<1>23. ASSUME UNCHANGED vars PROVE HookInv'
  BY <1>23 DEF vars, RunShape, InstallShape, UninstallShape, RepairShape, HookInv,
     HooksAreRecorded, Installing, Consent, Uninstalling, Repairing, Idle
<1>24. ASSUME NEW f \in File, CheckFile(f) PROVE HookInv'
  BY <1>24 DEF CheckFile, Installing, Consent, HookInv, HooksAreRecorded, Uninstalling
<1> QED
  BY <1>1, <1>2, <1>3, <1>4, <1>5, <1>6, <1>7, <1>8, <1>9, <1>10, <1>11, <1>12, <1>13,
     <1>14, <1>15, <1>16, <1>17, <1>18, <1>19, <1>20, <1>21, <1>22, <1>23,
     <1>24 DEF Next,
     Commands, User

\* What is on the disk.
LEMMA DiskTypes ==
    ASSUME TypeOK
    PROVE  /\ \A f \in File : disk[f] \in Bytes \cup {Absent}
           /\ DOMAIN disk = File /\ run.release \in Release
           /\ run.targets \subseteq File /\ run.gone \subseteq File
  BY ConstantsAssumption DEF TypeOK

\* Files with bytes of ECC stay claimed.
LEMMA ClaimStep ==
    ASSUME TypeOK, RunShape, ClaimInv, [Next]_vars PROVE ClaimInv'
<1> USE Marks, DigestClaims, DiskTypes
<1>1. ASSUME NEW consent \in Consent, InstallPlan(consent) PROVE ClaimInv'
  <2>1. RunPlan(consent)
    BY <1>1, InstallFacts
  <2>2. disk' = disk /\ record' = record
    BY <1>1 DEF InstallPlan
  <2> QED
    BY <2>1, <2>2 DEF RunPlan, ClaimInv, EccFilesAreClaimed, Installing, Consent, Uninstalling, Repairing
<1>2. ASSUME InstallBridge PROVE ClaimInv'
  BY <1>2 DEF InstallBridge, Installing, Consent, BridgeState, BridgeHooks, WithOperations, RunShape,
     InstallShape, UninstallShape, RepairShape, ClaimInv, EccFilesAreClaimed, Uninstalling,
     Repairing, Kept, Idle, FinalState, Refreshed, Without, Digest
<1>3. ASSUME InstallHooks PROVE ClaimInv'
  BY <1>3 DEF InstallHooks, Installing, Consent, RunShape, InstallShape, UninstallShape, RepairShape,
     ClaimInv, EccFilesAreClaimed, Uninstalling, Repairing, Kept, Idle, BridgeState,
     FinalState, Refreshed, WithOperations, Without, Digest
<1>4. ASSUME RemoveHooks PROVE ClaimInv'
  BY <1>4 DEF RemoveHooks, Installing, Consent, RunShape, InstallShape, UninstallShape, RepairShape,
     ClaimInv, EccFilesAreClaimed, Uninstalling, Repairing, Kept, Idle, BridgeState,
     FinalState, Refreshed, WithOperations, Without, Digest
<1>5. ASSUME InstallFinish PROVE ClaimInv'
  BY <1>5 DEF InstallFinish, Installing, Consent, WritesDone, FinalState, FinalHooks, WithOperations,
     Without, Digest, NoRun, NoRecord, RunShape, InstallShape, UninstallShape, RepairShape,
     ClaimInv, EccFilesAreClaimed, Uninstalling, Repairing, Kept, Idle, BridgeState,
     Refreshed
<1>6. ASSUME InstallThrows PROVE ClaimInv'
  <2>1. /\ Installing /\ InstallShape /\ run.pc = "write" /\ disk' = disk /\ run'.kind = "none"
        /\ run.bridged => record' = Checkpoint(run)
        /\ ~run.bridged => record' = record
        /\ (WritesDone /\ run.stale # {}) => MigrationMayThrow
    BY <1>6 DEF InstallThrows, RunShape, NoRun
  <2>2. SUFFICES ASSUME ~MigrationMayThrow, NEW f \in File, disk[f] \in Release
                 PROVE  record'.files[f] # Unclaimed
    BY <2>1 DEF ClaimInv, EccFilesAreClaimed, Installing, Consent, Uninstalling, Repairing
  <2>3. CASE ~run.bridged
    BY <2>1, <2>2, <2>3 DEF ClaimInv, EccFilesAreClaimed
  <2>4. CASE run.bridged
    <3> DEFINE base == IF run.hooks = "removed" THEN FinalState(run) ELSE BridgeState(run)
    <3>1. record'.files[f] =
            IF base.files[f] = Unclaimed THEN Unclaimed
            ELSE IF f \in run.written THEN Digest(f)
            ELSE IF run.prev.files[f] # Unclaimed THEN run.prev.files[f]
            ELSE IF disk[f] = Absent THEN Undigested ELSE Unclaimed
      <4>1. base \in RecordType
        BY StatesAreTyped
      <4>2. record' = [base EXCEPT !.files = [g \in File |->
                IF base.files[g] = Unclaimed THEN Unclaimed
                ELSE IF g \in run.written THEN Digest(g)
                ELSE IF run.prev.files[g] # Unclaimed THEN run.prev.files[g]
                ELSE IF disk[g] = Absent THEN Undigested ELSE Unclaimed]]
        BY <2>1, <2>4 DEF Checkpoint
      <4> HIDE DEF base
      <4> QED
        BY <4>1, <4>2 DEF RecordType
    <3>2. run.prev.files[f] # Unclaimed \/ f \in run.written
      BY <2>1, <2>2 DEF ClaimInv
    <3>3. run.hooks = "removed" => f \notin run.gone
      BY <2>1, <2>2 DEF ClaimInv, InstallShape, WritesDone
    <3>4. base.files[f] # Unclaimed
      BY <2>1, <3>2, <3>3 DEF InstallShape, FinalState, BridgeState, Without, WithOperations
    <3> HIDE DEF base
    <3> QED
      BY <3>1, <3>2, <3>4
  <2> QED
    BY <2>3, <2>4
<1>7. ASSUME UninstallPlan PROVE ClaimInv'
  <2>1. run'.kind = "uninstall" /\ run'.prev = record /\ run'.todo = Claimed(record.files)
    BY <1>7, UninstallPlanned
  <2>2. disk' = disk /\ record' = record
    BY <1>7 DEF UninstallPlan
  <2>3. \A f \in File : record.files[f] # Unclaimed => f \in Claimed(record.files)
    BY DEF Claimed, TypeOK, ClaimMap
  <2> QED
    BY <2>1, <2>2, <2>3 DEF ClaimInv, EccFilesAreClaimed, Installing, Consent, Uninstalling, Repairing
<1>8. ASSUME UninstallHooks PROVE ClaimInv'
  <2>1. /\ Uninstalling /\ run'.kind = run.kind /\ run'.prev = run.prev /\ run'.todo = run.todo
        /\ record' = record /\ disk' = disk
        /\ run'.retained <=> run.retained \/ settings \notin {Absent, run.prev.hooks}
    BY <1>8 DEF UninstallHooks, TypeOK
  <2> QED
    BY <2>1 DEF ClaimInv, EccFilesAreClaimed, Installing, Consent, Uninstalling, Repairing
<1>9. ASSUME UninstallFinish PROVE ClaimInv'
  BY <1>9 DEF UninstallFinish, Uninstalling, WritesDone, NoRun, NoRecord, RunShape,
     InstallShape, UninstallShape, RepairShape, ClaimInv, EccFilesAreClaimed, Installing, Consent,
     Repairing, Kept, Idle, BridgeState, FinalState, Refreshed, WithOperations, Without,
     Digest
<1>10. ASSUME RepairPlan PROVE ClaimInv'
  <2>1. RepairRun
    BY <1>10, RepairFacts
  <2>2. disk' = disk /\ record' = record
    BY <1>10 DEF RepairPlan
  <2> QED
    BY <2>1, <2>2
       DEF RepairRun, ClaimInv, EccFilesAreClaimed, Installing, Consent, Uninstalling, Repairing, Kept
<1>11. ASSUME RepairBridge PROVE ClaimInv'
  BY <1>11 DEF RepairBridge, Refreshed, WithOperations, Digest, RepairHooks, RunShape,
     InstallShape, UninstallShape, RepairShape, ClaimInv, EccFilesAreClaimed, Installing, Consent,
     Uninstalling, Repairing, Kept, Idle, BridgeState, FinalState, Without
<1>12. ASSUME RepairSettings PROVE ClaimInv'
  BY <1>12 DEF RepairSettings, RunShape, InstallShape, UninstallShape, RepairShape,
     ClaimInv, EccFilesAreClaimed, Installing, Consent, Uninstalling, Repairing, Kept, Idle,
     BridgeState, FinalState, Refreshed, WithOperations, Without, Digest
<1>13. ASSUME RepairFinish PROVE ClaimInv'
  BY <1>13 DEF RepairFinish, WritesDone, Refreshed, Without, WithOperations, Digest,
     RepairHooks, NoRun, NoRecord, RunShape, InstallShape, UninstallShape, RepairShape,
     ClaimInv, EccFilesAreClaimed, Installing, Consent, Uninstalling, Repairing, Kept, Idle,
     BridgeState, FinalState
<1>14. ASSUME NEW f \in File, InstallFile(f) PROVE ClaimInv'
  <2>1. /\ Installing /\ f \in run.checked
        /\ run'.kind = run.kind /\ run'.prev = run.prev /\ run'.gone = run.gone
        /\ run'.stale = run.stale /\ run'.written = run.written \cup {f} /\ record' = record
        /\ disk' = [disk EXCEPT ![f] = run.release]
    BY <1>14 DEF InstallFile, TypeOK
  <2>2. /\ InstallShape /\ f \in run.todo
        /\ run.pc = "write"
    BY <2>1 DEF RunShape, InstallShape, Installing, Consent, Idle, TypeOK
  <2>3. record.files[f] # Unclaimed /\ f \notin Nested
    BY <2>1, <2>2 DEF InstallShape, BridgeState, WithOperations
  <2>4. run.gone \subseteq Nested
    BY DEF TypeOK
  <2> QED
    BY <2>1, <2>2, <2>3, <2>4 DEF ClaimInv, EccFilesAreClaimed, Installing, Consent, Uninstalling, Repairing
<1>15. ASSUME NEW f \in File, UninstallFile(f) PROVE ClaimInv'
  <2>1. /\ Uninstalling /\ f \in run.todo
        /\ run'.kind = run.kind /\ run'.prev = run.prev /\ run'.todo = run.todo \ {f}
        /\ record' = record /\ disk' = [disk EXCEPT ![f] = IF Retains(f) THEN @ ELSE Absent]
        /\ run'.retained <=> run.retained \/ Retains(f)
    BY <1>15 DEF UninstallFile, TypeOK
  <2>2. run.kind = "uninstall"
    BY <2>1 DEF Uninstalling
  <2> QED
    BY <2>1, <2>2 DEF ClaimInv, EccFilesAreClaimed, Installing, Consent, Uninstalling, Repairing
<1>16. ASSUME NEW f \in File, RepairFile(f) PROVE ClaimInv'
  BY <1>16 DEF RepairFile, RunShape, InstallShape, UninstallShape, RepairShape, ClaimInv,
     EccFilesAreClaimed, Installing, Consent, Uninstalling, Repairing, Kept, Idle, BridgeState,
     FinalState, Refreshed, WithOperations, Without, Digest
<1>17. ASSUME NEW f \in File, RemoveNested(f) PROVE ClaimInv'
  BY <1>17 DEF RemoveNested, Installing, Consent, WritesDone, RunShape, InstallShape, UninstallShape,
     RepairShape, ClaimInv, EccFilesAreClaimed, Uninstalling, Repairing, Kept, Idle,
     BridgeState, FinalState, Refreshed, WithOperations, Without, Digest
<1>18. ASSUME Stops PROVE ClaimInv'
  BY <1>18 DEF Stops, Idle, NoRun, NoRecord, RunShape, InstallShape, UninstallShape,
     RepairShape, ClaimInv, EccFilesAreClaimed, Installing, Consent, Uninstalling, Repairing, Kept,
     BridgeState, FinalState, Refreshed, WithOperations, Without, Digest
<1>19. ASSUME NEW f \in File, UserWrites(f) PROVE ClaimInv'
  BY <1>19 DEF UserWrites, Idle, RunShape, InstallShape, UninstallShape, RepairShape,
     ClaimInv, EccFilesAreClaimed, Installing, Consent, Uninstalling, Repairing, Kept, BridgeState,
     FinalState, Refreshed, WithOperations, Without, Digest
<1>20. ASSUME NEW f \in File, UserDeletes(f) PROVE ClaimInv'
  BY <1>20 DEF UserDeletes, RunShape, InstallShape, UninstallShape, RepairShape, ClaimInv,
     EccFilesAreClaimed, Installing, Consent, Uninstalling, Repairing, Kept, Idle, BridgeState,
     FinalState, Refreshed, WithOperations, Without, Digest
<1>21. ASSUME UserEditsHooks PROVE ClaimInv'
  BY <1>21 DEF UserEditsHooks, RunShape, InstallShape, UninstallShape, RepairShape,
     ClaimInv, EccFilesAreClaimed, Installing, Consent, Uninstalling, Repairing, Kept, Idle,
     BridgeState, FinalState, Refreshed, WithOperations, Without, Digest
<1>22. ASSUME Upgrade PROVE ClaimInv'
  BY <1>22 DEF Upgrade, Idle, RunShape, InstallShape, UninstallShape, RepairShape, ClaimInv,
     EccFilesAreClaimed, Installing, Consent, Uninstalling, Repairing, Kept, BridgeState, FinalState,
     Refreshed, WithOperations, Without, Digest
<1>23. ASSUME UNCHANGED vars PROVE ClaimInv'
  BY <1>23 DEF vars, RunShape, InstallShape, UninstallShape, RepairShape, ClaimInv,
     EccFilesAreClaimed, Installing, Consent, Uninstalling, Repairing, Kept, Idle
<1>24. ASSUME NEW f \in File, CheckFile(f) PROVE ClaimInv'
  BY <1>24 DEF CheckFile, Installing, Consent, ClaimInv, EccFilesAreClaimed, Uninstalling,
     Repairing
<1> QED
  BY <1>1, <1>2, <1>3, <1>4, <1>5, <1>6, <1>7, <1>8, <1>9, <1>10, <1>11, <1>12, <1>13,
     <1>14, <1>15, <1>16, <1>17, <1>18, <1>19, <1>20, <1>21, <1>22, <1>23,
     <1>24 DEF Next,
     Commands, User

\* What the user wrote between commands is never taken for ECC's.
LEMMA QuietStep ==
    ASSUME TypeOK, RunShape, QuietInv, [Next]_vars PROVE QuietInv'
<1> USE Marks, DigestClaims, DiskTypes
<1>1. ASSUME NEW consent \in Consent, InstallPlan(consent) PROVE QuietInv'
  <2>1. RunPlan(consent)
    BY <1>1, InstallFacts
  <2>2. disk' = disk /\ record' = record /\ ~Repairing
    BY <1>1 DEF InstallPlan, RunShape, Repairing, Idle
  <2> QED
    BY <2>1, <2>2 DEF RunPlan, QuietInv, Installing, Consent, Uninstalling, Repairing
<1>2. ASSUME InstallBridge PROVE QuietInv'
  BY <1>2 DEF InstallBridge, Installing, Consent, BridgeState, BridgeHooks, WithOperations, RunShape,
     InstallShape, UninstallShape, RepairShape, QuietInv, Uninstalling, Repairing, Kept,
     Idle, FinalState, Refreshed, Without
<1>3. ASSUME InstallHooks PROVE QuietInv'
  BY <1>3 DEF InstallHooks, Installing, Consent, RunShape, InstallShape, UninstallShape, RepairShape,
     QuietInv, Uninstalling, Repairing, Kept, Idle, BridgeState, FinalState, Refreshed,
     WithOperations, Without
<1>4. ASSUME RemoveHooks PROVE QuietInv'
  BY <1>4 DEF RemoveHooks, Installing, Consent, RunShape, InstallShape, UninstallShape, RepairShape,
     QuietInv, Uninstalling, Repairing, Kept, Idle, BridgeState, FinalState, Refreshed,
     WithOperations, Without
<1>5. ASSUME InstallFinish PROVE QuietInv'
  BY <1>5 DEF InstallFinish, Installing, Consent, WritesDone, FinalState, FinalHooks, WithOperations,
     Without, Digest, NoRun, NoRecord, RunShape, InstallShape, UninstallShape, RepairShape,
     QuietInv, Uninstalling, Repairing, Kept, Idle, BridgeState, Refreshed
<1>6. ASSUME InstallThrows PROVE QuietInv'
  BY <1>6 DEF InstallThrows, Installing, Consent, WritesDone, Checkpoint, FinalState, FinalHooks,
     BridgeState, BridgeHooks, WithOperations, Without, Digest, NoRun, NoRecord, RunShape,
     InstallShape, UninstallShape, RepairShape, QuietInv, Uninstalling, Repairing, Kept,
     Idle, Refreshed
<1>7. ASSUME UninstallPlan PROVE QuietInv'
  <2>1. run'.kind = "uninstall" /\ run'.prev = record
    BY <1>7, UninstallPlanned
  <2>2. disk' = disk /\ record' = record /\ ~Repairing
    BY <1>7 DEF UninstallPlan, RunShape, Repairing, Idle
  <2> QED
    BY <2>1, <2>2 DEF QuietInv, Installing, Consent, Uninstalling, Repairing
<1>8. ASSUME UninstallHooks PROVE QuietInv'
  BY <1>8 DEF UninstallHooks, Uninstalling, RunShape, InstallShape, UninstallShape,
     RepairShape, QuietInv, Installing, Consent, Repairing, Kept, Idle, BridgeState, FinalState,
     Refreshed, WithOperations, Without
<1>9. ASSUME UninstallFinish PROVE QuietInv'
  BY <1>9 DEF UninstallFinish, Uninstalling, WritesDone, NoRun, NoRecord, RunShape,
     InstallShape, UninstallShape, RepairShape, QuietInv, Installing, Consent, Repairing, Kept, Idle,
     BridgeState, FinalState, Refreshed, WithOperations, Without
<1>10. ASSUME RepairPlan PROVE QuietInv'
  <2>1. RepairRun
    BY <1>10, RepairFacts
  <2>2. disk' = disk /\ record' = record /\ ~Repairing
    BY <1>10 DEF RepairPlan, RunShape, Repairing, Idle
  <2>3. SUFFICES ASSUME ~RepairMayStop, NEW f \in File, disk[f] = Quiet,
                        record.files[f] # Unclaimed \/ f \in RepairTargets, f \notin RepairGone
                 PROVE  f \in Claimed(DesiredFiles) /\ Broken(f)
    BY <2>1, <2>2 DEF RepairRun, QuietInv, Installing, Consent, Uninstalling, Repairing, Kept
  <2>4. record.files[f] # Quiet
    BY <2>2, <2>3 DEF QuietInv
  <2>5. Recorded => f \in RepairTargets /\ record.files[f] # Unclaimed
    BY <2>3 DEF RepairTargets, Claimed, TypeOK, ClaimMap
  <2>6. DesiredFiles[f] = IF ~Recorded /\ f \in RepairTargets THEN Undigested ELSE record.files[f]
    BY <2>3 DEF DesiredFiles, Without, WithOperations
  <2>7. DesiredFiles[f] \notin {Unclaimed, Quiet}
    BY <2>3, <2>4, <2>5, <2>6
  <2>8. package \in Release
    BY DEF TypeOK
  <2>9. Broken(f)
    BY <2>3, <2>7, <2>8 DEF Broken
  <2> QED
    BY <2>7, <2>9, PlansAreTyped DEF Claimed
<1>11. ASSUME RepairBridge PROVE QuietInv'
  BY <1>11 DEF RepairBridge, Refreshed, WithOperations, Digest, RepairHooks, RunShape,
     InstallShape, UninstallShape, RepairShape, QuietInv, Installing, Consent, Uninstalling,
     Repairing, Kept, Idle, BridgeState, FinalState, Without
<1>12. ASSUME RepairSettings PROVE QuietInv'
  BY <1>12 DEF RepairSettings, RunShape, InstallShape, UninstallShape, RepairShape,
     QuietInv, Installing, Consent, Uninstalling, Repairing, Kept, Idle, BridgeState, FinalState,
     Refreshed, WithOperations, Without
<1>13. ASSUME RepairFinish PROVE QuietInv'
  BY <1>13 DEF RepairFinish, WritesDone, Refreshed, Without, WithOperations, Digest,
     RepairHooks, NoRun, NoRecord, RunShape, InstallShape, UninstallShape, RepairShape,
     QuietInv, Installing, Consent, Uninstalling, Repairing, Kept, Idle, BridgeState, FinalState
<1>14. ASSUME NEW f \in File, InstallFile(f) PROVE QuietInv'
  BY <1>14 DEF InstallFile, Installing, Consent, InTheWay, RunShape, InstallShape, UninstallShape,
     RepairShape, QuietInv, Uninstalling, Repairing, Kept, Idle, BridgeState, FinalState,
     Refreshed, WithOperations, Without
<1>15. ASSUME NEW f \in File, UninstallFile(f) PROVE QuietInv'
  BY <1>15 DEF UninstallFile, Uninstalling, Retains, RunShape, InstallShape, UninstallShape,
     RepairShape, QuietInv, Installing, Consent, Repairing, Kept, Idle, BridgeState, FinalState,
     Refreshed, WithOperations, Without
<1>16. ASSUME NEW f \in File, RepairFile(f) PROVE QuietInv'
  BY <1>16 DEF RepairFile, RunShape, InstallShape, UninstallShape, RepairShape, QuietInv,
     Installing, Consent, Uninstalling, Repairing, Kept, Idle, BridgeState, FinalState, Refreshed,
     WithOperations, Without
<1>17. ASSUME NEW f \in File, RemoveNested(f) PROVE QuietInv'
  BY <1>17 DEF RemoveNested, Installing, Consent, WritesDone, RunShape, InstallShape, UninstallShape,
     RepairShape, QuietInv, Uninstalling, Repairing, Kept, Idle, BridgeState, FinalState,
     Refreshed, WithOperations, Without
<1>18. ASSUME Stops PROVE QuietInv'
  BY <1>18 DEF Stops, Idle, NoRun, NoRecord, RunShape, InstallShape, UninstallShape,
     RepairShape, QuietInv, Installing, Consent, Uninstalling, Repairing, Kept, BridgeState,
     FinalState, Refreshed, WithOperations, Without
<1>19. ASSUME NEW f \in File, UserWrites(f) PROVE QuietInv'
  BY <1>19 DEF UserWrites, Idle, RunShape, InstallShape, UninstallShape, RepairShape,
     QuietInv, Installing, Consent, Uninstalling, Repairing, Kept, BridgeState, FinalState,
     Refreshed, WithOperations, Without
<1>20. ASSUME NEW f \in File, UserDeletes(f) PROVE QuietInv'
  BY <1>20 DEF UserDeletes, RunShape, InstallShape, UninstallShape, RepairShape, QuietInv,
     Installing, Consent, Uninstalling, Repairing, Kept, Idle, BridgeState, FinalState, Refreshed,
     WithOperations, Without
<1>21. ASSUME UserEditsHooks PROVE QuietInv'
  BY <1>21 DEF UserEditsHooks, RunShape, InstallShape, UninstallShape, RepairShape,
     QuietInv, Installing, Consent, Uninstalling, Repairing, Kept, Idle, BridgeState, FinalState,
     Refreshed, WithOperations, Without
<1>22. ASSUME Upgrade PROVE QuietInv'
  BY <1>22 DEF Upgrade, Idle, RunShape, InstallShape, UninstallShape, RepairShape, QuietInv,
     Installing, Consent, Uninstalling, Repairing, Kept, BridgeState, FinalState, Refreshed,
     WithOperations, Without
<1>23. ASSUME UNCHANGED vars PROVE QuietInv'
  BY <1>23 DEF vars, RunShape, InstallShape, UninstallShape, RepairShape, QuietInv,
     Installing, Consent, Uninstalling, Repairing, Kept, Idle
<1>24. ASSUME NEW f \in File, CheckFile(f) PROVE QuietInv'
  BY <1>24 DEF CheckFile, Installing, Consent, QuietInv, Uninstalling, Repairing
<1> QED
  BY <1>1, <1>2, <1>3, <1>4, <1>5, <1>6, <1>7, <1>8, <1>9, <1>10, <1>11, <1>12, <1>13,
     <1>14, <1>15, <1>16, <1>17, <1>18, <1>19, <1>20, <1>21, <1>22, <1>23,
     <1>24 DEF Next,
     Commands, User

\* A repair that nobody disturbed keeps to what it found.
LEMMA SinceStep ==
    ASSUME TypeOK, RunShape, SinceInv, [Next]_vars PROVE SinceInv'
<1> USE Marks, DiskTypes
<1>1. ASSUME NEW consent \in Consent, InstallPlan(consent) PROVE SinceInv'
  <2>1. run'.kind = consent
    BY <1>1, InstallFacts DEF RunPlan
  <2> QED
    BY <1>1, <2>1 DEF SinceInv, Repairing, Consent
<1>2. ASSUME InstallBridge PROVE SinceInv'
  BY <1>2 DEF InstallBridge, Installing, Consent, BridgeState, BridgeHooks, WithOperations, SinceInv,
     RunShape, RepairShape, Repairing, Kept, Idle
<1>3. ASSUME InstallHooks PROVE SinceInv'
  BY <1>3 DEF InstallHooks, Installing, Consent, SinceInv, RunShape, RepairShape, Repairing, Kept,
     Idle
<1>4. ASSUME RemoveHooks PROVE SinceInv'
  BY <1>4 DEF RemoveHooks, Installing, Consent, SinceInv, RunShape, RepairShape, Repairing, Kept,
     Idle
<1>5. ASSUME InstallFinish PROVE SinceInv'
  BY <1>5 DEF InstallFinish, Installing, Consent, WritesDone, FinalState, FinalHooks, WithOperations,
     Without, Digest, NoRun, NoRecord, SinceInv, RunShape, RepairShape, Repairing, Kept,
     Idle
<1>6. ASSUME InstallThrows PROVE SinceInv'
  BY <1>6 DEF InstallThrows, Installing, Consent, WritesDone, Checkpoint, FinalState, FinalHooks,
     BridgeState, BridgeHooks, WithOperations, Without, Digest, NoRun, NoRecord, SinceInv,
     RunShape, RepairShape, Repairing, Kept, Idle
<1>7. ASSUME UninstallPlan PROVE SinceInv'
  <2>1. run'.kind = "uninstall"
    BY <1>7, UninstallPlanned
  <2> QED
    BY <2>1 DEF SinceInv, Repairing
<1>8. ASSUME UninstallHooks PROVE SinceInv'
  BY <1>8 DEF UninstallHooks, Uninstalling, SinceInv, RunShape, RepairShape, Repairing,
     Kept, Idle
<1>9. ASSUME UninstallFinish PROVE SinceInv'
  BY <1>9 DEF UninstallFinish, Uninstalling, WritesDone, NoRun, NoRecord, SinceInv,
     RunShape, RepairShape, Repairing, Kept, Idle
<1>10. ASSUME RepairPlan PROVE SinceInv'
  <2>1. RepairRun
    BY <1>10, RepairFacts
  <2>2. disk' = disk /\ record' = record /\ settings' = settings
    BY <1>10 DEF RepairPlan
  <2>3. SUFFICES ASSUME NEW f \in File, record.files[f] # Unclaimed \/ f \in RepairTargets,
                        f \notin RepairGone, f \notin Claimed(DesiredFiles) \/ ~Broken(f)
                 PROVE  disk[f] \in {package, record.files[f]}
    BY <2>1, <2>2 DEF RepairRun, SinceInv, Repairing, Kept, Recorded
  <2>4. Recorded => record.files[f] # Unclaimed
    BY <2>3 DEF RepairTargets, Claimed, TypeOK, ClaimMap
  <2>5. DesiredFiles[f] = IF ~Recorded /\ f \in RepairTargets THEN Undigested ELSE record.files[f]
    BY <2>3 DEF DesiredFiles, Without, WithOperations
  <2>6. f \in Claimed(DesiredFiles)
    BY <2>3, <2>4, <2>5, PlansAreTyped DEF Claimed
  <2> QED
    BY <2>3, <2>5, <2>6 DEF Broken
<1>11. ASSUME RepairBridge PROVE SinceInv'
  BY <1>11 DEF RepairBridge, Refreshed, WithOperations, Digest, RepairHooks, SinceInv,
     RunShape, RepairShape, Repairing, Kept, Idle
<1>12. ASSUME RepairSettings PROVE SinceInv'
  BY <1>12 DEF RepairSettings, SinceInv, RunShape, RepairShape, Repairing, Kept, Idle
<1>13. ASSUME RepairFinish PROVE SinceInv'
  BY <1>13 DEF RepairFinish, WritesDone, Refreshed, Without, WithOperations, Digest,
     RepairHooks, NoRun, NoRecord, SinceInv, RunShape, RepairShape, Repairing, Kept, Idle
<1>14. ASSUME NEW f \in File, InstallFile(f) PROVE SinceInv'
  BY <1>14 DEF InstallFile, Installing, Consent, InTheWay, SinceInv, RunShape, RepairShape,
     Repairing, Kept, Idle
<1>15. ASSUME NEW f \in File, UninstallFile(f) PROVE SinceInv'
  BY <1>15 DEF UninstallFile, Uninstalling, Retains, SinceInv, RunShape, RepairShape,
     Repairing, Kept, Idle
<1>16. ASSUME NEW f \in File, RepairFile(f) PROVE SinceInv'
  BY <1>16 DEF RepairFile, SinceInv, RunShape, RepairShape, Repairing, Kept, Idle
<1>17. ASSUME NEW f \in File, RemoveNested(f) PROVE SinceInv'
  BY <1>17 DEF RemoveNested, Installing, Consent, WritesDone, SinceInv, RunShape, RepairShape,
     Repairing, Kept, Idle
<1>18. ASSUME Stops PROVE SinceInv'
  BY <1>18 DEF Stops, Idle, NoRun, NoRecord, SinceInv, RunShape, RepairShape, Repairing,
     Kept
<1>19. ASSUME NEW f \in File, UserWrites(f) PROVE SinceInv'
  <2>1. run' = run /\ edits' = edits + 1 /\ edits \in Nat
    BY <1>19 DEF UserWrites, TypeOK
  <2> QED
    BY <2>1 DEF SinceInv, Repairing, RunShape, RepairShape, TypeOK
<1>20. ASSUME NEW f \in File, UserDeletes(f) PROVE SinceInv'
  <2>1. run' = run /\ edits' = edits + 1 /\ edits \in Nat
    BY <1>20 DEF UserDeletes, TypeOK
  <2> QED
    BY <2>1 DEF SinceInv, Repairing, RunShape, RepairShape, TypeOK
<1>21. ASSUME UserEditsHooks PROVE SinceInv'
  <2>1. run' = run /\ edits' = edits + 1 /\ edits \in Nat
    BY <1>21 DEF UserEditsHooks, TypeOK
  <2> QED
    BY <2>1 DEF SinceInv, Repairing, RunShape, RepairShape, TypeOK
<1>22. ASSUME Upgrade PROVE SinceInv'
  BY <1>22 DEF Upgrade, Idle, SinceInv, RunShape, RepairShape, Repairing, Kept
<1>23. ASSUME UNCHANGED vars PROVE SinceInv'
  BY <1>23 DEF vars, SinceInv, RunShape, RepairShape, Repairing, Kept, Idle
<1>24. ASSUME NEW f \in File, CheckFile(f) PROVE SinceInv'
  BY <1>24 DEF CheckFile, Installing, Consent, SinceInv, Repairing
<1> QED
  BY <1>1, <1>2, <1>3, <1>4, <1>5, <1>6, <1>7, <1>8, <1>9, <1>10, <1>11, <1>12, <1>13,
     <1>14, <1>15, <1>16, <1>17, <1>18, <1>19, <1>20, <1>21, <1>22, <1>23,
     <1>24 DEF Next,
     Commands, User

----------------------------------------------------------------------------
\* A new machine, or one with the nested layout, satisfies the invariant.
LEMMA InvInit == Init => Inv
<1> SUFFICES ASSUME Init PROVE Inv
  OBVIOUS
<1> USE ConstantsAssumption
<1>1. PICK old \in SUBSET Nested, claim \in {1, Undigested} :
        /\ disk = [f \in File |-> IF f \in old THEN 1 ELSE Absent]
        /\ record = [exists |-> old # {},
                     files  |-> [f \in File |-> IF f \in old THEN claim ELSE Unclaimed],
                     hooks  |-> Absent]
  BY DEF Init
<1>2. 1 \in Release /\ 1 # Quiet
  BY DEF Release, Quiet
<1>3. settings = Absent /\ run = NoRun /\ edits = 0 /\ package = 1
  BY DEF Init
<1>4. NoRecord \in RecordType
  BY DEF NoRecord, RecordType, ClaimMap, Claim
<1>5. run \in RunType
  BY <1>2, <1>3, <1>4 DEF NoRun, RunType
<1>6. record \in RecordType
  <2> DEFINE exists == old # {}
             files == [f \in File |-> IF f \in old THEN claim ELSE Unclaimed]
  <2>1. exists \in BOOLEAN /\ record = [exists |-> exists, files |-> files, hooks |-> Absent]
    BY <1>1
  <2>2. files \in ClaimMap
    BY <1>2 DEF ClaimMap, Claim, Bytes, UserBytes
  <2> HIDE DEF exists, files
  <2> QED
    BY <2>1, <2>2 DEF RecordType
<1>7. Surroundings
  BY <1>1, <1>2, <1>3 DEF Surroundings, Bytes, UserBytes
<1>8. TypeOK
  BY <1>5, <1>6, <1>7, TypesSplit
<1>9. /\ run.kind = "none" /\ run.pc = "idle" /\ run.prev = NoRecord
      /\ \A f \in File : NoRecord.files[f] = Unclaimed
  BY <1>3 DEF NoRun, NoRecord
<1>10. RunShape
  BY <1>3, <1>9 DEF RunShape, Installing, Consent, Uninstalling, Repairing, Idle
<1>11. HookInv
  BY <1>3, <1>9, Marks DEF HookInv, HooksAreRecorded, Uninstalling
<1>12. ClaimInv
  BY <1>1, <1>2, <1>9, Marks DEF ClaimInv, EccFilesAreClaimed, Installing, Consent, Uninstalling, Repairing
<1>13. QuietInv
  BY <1>1, <1>2, <1>9, Marks DEF QuietInv, Installing, Consent, Uninstalling, Repairing
<1>14. SinceInv
  BY <1>9 DEF SinceInv, Repairing
<1> QED
  BY <1>8, <1>10, <1>11, <1>12, <1>13, <1>14 DEF Inv

\* Every step preserves the invariant.
LEMMA InvStep == Inv /\ [Next]_vars => Inv'
  BY TypeStep, ShapeStep, HookStep, ClaimStep, QuietStep, SinceStep DEF Inv

\* The invariant holds at every moment of every behaviour.
THEOREM Invariance == Spec => []Inv
  BY InvInit, InvStep, PTL DEF Spec

\* Files, settings, install-state and the command under way are type correct, for
\* any files, releases, hook entries and bounds.
THEOREM Typing == Spec => []TypeOK
<1>1. Inv => TypeOK
  BY DEF Inv
<1> QED
  BY <1>1, Invariance, PTL

\* At every moment, whatever fails or dies half way, a file with bytes of ECC is
\* one the install-state claims, if removing a nested file does not throw.
THEOREM FilesAreClaimed == ~MigrationMayThrow /\ Spec => []EccFilesAreClaimed
<1> SUFFICES ASSUME ~MigrationMayThrow PROVE Spec => []EccFilesAreClaimed
  OBVIOUS
<1>1. Inv => EccFilesAreClaimed
  BY DEF Inv, ClaimInv
<1> QED
  BY <1>1, Invariance, PTL

\* At every moment a hook entry of ECC is one the install-state lists.
THEOREM HooksRecorded == Spec => []HooksAreRecorded
<1>1. Inv => HooksAreRecorded
  BY DEF Inv, HookInv
<1> QED
  BY <1>1, Invariance, PTL

\* Only these steps change a file without an edit of the user.
LEMMA DiskSteps ==
    ASSUME Next, edits \in Nat, edits' = edits
    PROVE  \/ disk' = disk
           \/ \E g \in File :
                InstallFile(g) \/ UninstallFile(g) \/ RepairFile(g) \/ RemoveNested(g)
<1>1. CASE Stops
  BY <1>1 DEF Stops
<1>2. CASE User
  BY <1>2 DEF User, UserEditsHooks, Upgrade, UserWrites, UserDeletes
<1>3. CASE \/ \E consent \in Consent : InstallPlan(consent)
           \/ (\E f \in File : CheckFile(f)) \/ InstallBridge \/ InstallHooks \/ RemoveHooks \/ InstallFinish \/ InstallThrows
  BY <1>3 DEF InstallPlan, CheckFile, InstallBridge, InstallHooks, RemoveHooks,
              InstallFinish, InstallThrows
<1>4. CASE \/ UninstallPlan \/ UninstallHooks \/ UninstallFinish
           \/ RepairPlan \/ RepairBridge \/ RepairSettings \/ RepairFinish
  BY <1>4 DEF UninstallPlan, UninstallHooks, UninstallFinish, RepairPlan, RepairBridge,
              RepairSettings, RepairFinish
<1> QED
  BY <1>1, <1>2, <1>3, <1>4 DEF Next, Commands

\* An uninstall never deletes what the user wrote while no command ran, whatever
\* came before, if no repair was interrupted.
THEOREM UserWorkIsSpared == ~RepairMayStop /\ Spec => UninstallSparesUserWork
<1> SUFFICES ASSUME ~RepairMayStop PROVE Spec => UninstallSparesUserWork
  OBVIOUS
<1>1. ASSUME Inv, [Next]_vars
      PROVE  [Uninstalling /\ edits' = edits =>
                \A f \in File : disk[f] = Quiet => disk'[f] = Quiet]_vars
  <2> SUFFICES ASSUME Uninstalling, edits' = edits, Next, NEW f \in File, disk[f] = Quiet
               PROVE  disk'[f] = Quiet
    BY <1>1
  <2>1. run.prev.files[f] # Quiet /\ DOMAIN disk = File /\ edits \in Nat
    BY <1>1, ConstantsAssumption DEF Inv, QuietInv, TypeOK
  <2>2. ASSUME NEW g \in File, UninstallFile(g) PROVE disk'[f] = Quiet
    BY <2>1, <2>2, Marks DEF UninstallFile, Retains
  <2>3. disk' = disk \/ \E g \in File :
            InstallFile(g) \/ UninstallFile(g) \/ RepairFile(g) \/ RemoveNested(g)
    BY <2>1, DiskSteps
  <2>4. ASSUME NEW g \in File
        PROVE  ~InstallFile(g) /\ ~RepairFile(g) /\ ~RemoveNested(g)
    BY DEF InstallFile, RepairFile, RemoveNested, Installing, Consent, Uninstalling
  <2> QED
    BY <2>2, <2>3, <2>4
<1> QED
  BY <1>1, Invariance, PTL DEF Spec, UninstallSparesUserWork

\* An install overwrites or removes what the user wrote only where the file was
\* claimed before, even if the file appears while the install goes on; but for the
\* file it is about to write, when that appears after the install looked for it.
THEOREM UnclaimedIsSpared == Spec => InstallSparesUnclaimed
<1>1. ASSUME Inv, [Next]_vars
      PROVE  [Installing /\ edits' = edits =>
                \A f \in File : disk[f] \in UserBytes /\ disk'[f] # disk[f] =>
                   \/ run.prev.files[f] # Unclaimed
                   \/ disk[f] = Late /\ f \in run.checked]_vars
  <2> SUFFICES ASSUME Installing, edits' = edits, Next, NEW f \in File,
                      disk[f] \in UserBytes, disk'[f] # disk[f]
               PROVE  run.prev.files[f] # Unclaimed \/ (disk[f] = Late /\ f \in run.checked)
    BY <1>1
  <2>1. TypeOK /\ RunShape /\ DOMAIN disk = File /\ edits \in Nat
    BY <1>1, ConstantsAssumption DEF Inv, TypeOK
  <2>2. ASSUME NEW g \in File, InstallFile(g)
        PROVE  run.prev.files[f] # Unclaimed \/ (disk[f] = Late /\ f \in run.checked)
    BY <2>1, <2>2, Marks DEF InstallFile, RunShape, InstallShape, UserBytes
  <2>3. ASSUME NEW g \in File, RemoveNested(g) PROVE run.prev.files[f] # Unclaimed
    BY <2>1, <2>3 DEF RemoveNested, RunShape, InstallShape
  <2>4. disk' = disk \/ \E g \in File :
            InstallFile(g) \/ UninstallFile(g) \/ RepairFile(g) \/ RemoveNested(g)
    BY <2>1, DiskSteps
  <2>5. ASSUME NEW g \in File PROVE ~UninstallFile(g) /\ ~RepairFile(g)
    <3>1. run.kind \notin {"uninstall", "repair"}
      BY DEF Installing, Consent
    <3> QED
      BY <3>1 DEF UninstallFile, RepairFile, Uninstalling
  <2> QED
    BY <2>2, <2>3, <2>4, <2>5
<1> QED
  BY <1>1, Invariance, PTL DEF Spec, InstallSparesUnclaimed

\* A repair that nobody disturbed claims only files in the state of the release or
\* of the install-state it began with, or nested files that it removed, and leaves
\* the hook entry it records.
THEOREM NothingIsAdopted == Spec => RepairAdoptsNothing
<1> DEFINE InOrder(f) == \/ disk'[f] \in {run.release, run.prev.files[f]}
                         \/ f \in run.gone /\ disk'[f] = Absent
<1>1. ASSUME Inv, [Next]_vars
      PROVE  [RepairFinish /\ run.since = edits =>
               /\ \A f \in Claimed(record'.files) : InOrder(f)
               /\ record'.hooks # Absent => settings' = record'.hooks]_vars
  <2> SUFFICES ASSUME RepairFinish, run.since = edits
               PROVE  /\ \A f \in Claimed(record'.files) : InOrder(f)
                      /\ record'.hooks # Absent => settings' = record'.hooks
    BY <1>1
  <2>1. TypeOK /\ SinceInv /\ Repairing
    BY <1>1 DEF Inv, RepairFinish, Repairing
  <2> DEFINE operations == IF run.prev.hooks # Absent THEN run.prev.files
                           ELSE Without(WithOperations(run.prev.files, run.targets), run.gone)
  <2>2. /\ disk' = disk /\ settings' = settings /\ run.todo = {} /\ run.hooks # "repair"
        /\ run.stale = {} /\ record'.files = Refreshed(operations)
        /\ record'.hooks = RepairHooks(run)
    BY DEF RepairFinish, WritesDone
  <2>3. ASSUME NEW f \in Claimed(record'.files) PROVE f \in File /\ Kept(f)
    <3>1. f \in File /\ operations[f] # Unclaimed
      BY <2>2, <2>3 DEF Claimed, Refreshed
    <3> QED
      BY <3>1 DEF Without, WithOperations, Kept
  <2>4. record'.hooks # Absent => run.prev.hooks # Absent /\ record'.hooks = HookText[run.release]
    BY <2>2 DEF RepairHooks
  <2> QED
    BY <2>1, <2>2, <2>3, <2>4 DEF SinceInv
<1> QED
  BY <1>1, Invariance, PTL DEF Spec, RepairAdoptsNothing

----------------------------------------------------------------------------
(* The settings lock.                                                      *)

\* Processes that made .recover and have not removed it.
RecoversAlone ==
    \A p, q \in Proc : pc[p] \in Recovering /\ pc[q] \in Recovering => p = q

RecoveryIsMarked == \A p \in Proc : pc[p] \in Recovering => recovery

\* The file a process opened is the lock, unless it was replaced.
OpenedIsThere ==
    \A p \in Proc : pc[p] \in Inspecting /\ p \notin replaced => lock = stale[p] /\ lock # None

\* The lock a process judged stale is still there, and its owner is dead.
StaleIsDead ==
    \A p \in Proc : pc[p] = "stale" => lock = stale[p] /\ lock # None /\ pc[lock] = "dead"

MovedIsStale == \A p \in Proc : pc[p] = "moved" => aside[p] = stale[p]

HolderIsNamed == \A p \in Proc : pc[p] \in Holding => lock = p

\* Nothing is ever put back.
NothingReturns ==
    \A p \in Proc : /\ pc[p] \notin {"restore", "return"}
                    /\ pc[p] = "released" => aside[p] = p

LockInv ==
    ~meddled /\ ~misjudged =>
        /\ RecoversAlone
        /\ RecoveryIsMarked
        /\ OpenedIsThere
        /\ StaleIsDead
        /\ MovedIsStale
        /\ HolderIsNamed
        /\ NothingReturns

\* What the holder is about to replace is what it has read.
SettingsInv ==
    ~meddled /\ ~misjudged /\ ~raced =>
        /\ entries = applied
        /\ \A p \in Proc : pc[p] = "rename" => snapshot[p] = entries

\* An attempt is left whenever none is being made.
AttemptLeft ==
    \A p \in Proc : pc[p] \in {"commit", "staged", "rename", "release"} \/ attempt[p] < MaxAttempts

HeldInv == LockTypeOK /\ AttemptLeft /\ LockInv /\ SettingsInv

----------------------------------------------------------------------------
\* Types, and the bound on the attempts, are preserved by every step.
LEMMA LockTypeStep == LockTypeOK /\ AttemptLeft /\ [LockNext]_lockVars => LockTypeOK' /\ AttemptLeft'
<1> SUFFICES ASSUME LockTypeOK, AttemptLeft, [LockNext]_lockVars PROVE LockTypeOK' /\ AttemptLeft'
  OBVIOUS
<1> USE LockAssumption DEF LockTypeOK, AttemptLeft, Goto, fileVars, Stages, Inspecting, Recovering, Holding, Resting, judgeVars, Replaces
<1>1. ASSUME NEW p \in Proc, Acquire(p) PROVE LockTypeOK' /\ AttemptLeft'
  BY <1>1 DEF Acquire
<1>2. ASSUME NEW p \in Proc, StartRecovery(p) PROVE LockTypeOK' /\ AttemptLeft'
  BY <1>2 DEF StartRecovery
<1>3. ASSUME NEW p \in Proc, OpenLock(p) PROVE LockTypeOK' /\ AttemptLeft'
  BY <1>3 DEF OpenLock
<1>3a. ASSUME NEW p \in Proc, CompareInode(p) PROVE LockTypeOK' /\ AttemptLeft'
  BY <1>3a DEF CompareInode
<1>3b. ASSUME NEW p \in Proc, Judge(p) PROVE LockTypeOK' /\ AttemptLeft'
  <2>1. /\ stale' \in [Proc -> Proc \cup {None}]
        /\ misjudged' \in BOOLEAN
        /\ \E stage \in {"leave", "stale"} : Goto(p, stage)
    BY <1>3b DEF Judge
  <2>2. /\ pc' \in [Proc -> Stages]
        /\ \A q \in Proc \ {p} : pc'[q] = pc[q]
    BY <2>1
  <2>3. replaced' = replaced \ {p} /\ UNCHANGED <<lock, recovery, aside, meddled, fileVars>>
    BY <1>3b DEF Judge
  <2>4. replaced' \subseteq {q \in Proc : pc'[q] \in Inspecting}
    BY <2>2, <2>3
  <2>5. pc[p] = "matched"
    BY <1>3b DEF Judge
  <2>6. AttemptLeft'
    BY <2>2, <2>3, <2>5
  <2>7. {recovery', meddled', misjudged', raced'} \subseteq BOOLEAN
    BY <2>1, <2>3
  <2> QED
    BY <2>1, <2>2, <2>3, <2>4, <2>6, <2>7
<1>4. ASSUME NEW p \in Proc, MoveStale(p) PROVE LockTypeOK' /\ AttemptLeft'
  BY <1>4 DEF MoveStale
<1>5. ASSUME NEW p \in Proc, CheckMoved(p) PROVE LockTypeOK' /\ AttemptLeft'
  BY <1>5 DEF CheckMoved
<1>6. ASSUME NEW p \in Proc, Relink(p) PROVE LockTypeOK' /\ AttemptLeft'
  BY <1>6 DEF Relink
<1>7. ASSUME NEW p \in Proc, PutBack(p) PROVE LockTypeOK' /\ AttemptLeft'
  BY <1>7 DEF PutBack
<1>8. ASSUME NEW p \in Proc, EndRecovery(p) PROVE LockTypeOK' /\ AttemptLeft'
  BY <1>8 DEF EndRecovery
<1>9. ASSUME NEW p \in Proc, Read(p) PROVE LockTypeOK' /\ AttemptLeft'
  <2>1. attempt[p] < MaxAttempts
    BY <1>9 DEF Read
  <2> QED
    BY <1>9, <2>1 DEF Read
<1>10. ASSUME NEW p \in Proc, Compare(p) PROVE LockTypeOK' /\ AttemptLeft'
  BY <1>10 DEF Compare
<1>11. ASSUME NEW p \in Proc, Rename(p) PROVE LockTypeOK' /\ AttemptLeft'
  BY <1>11 DEF Rename
<1>12. ASSUME NEW p \in Proc, Throw(p) PROVE LockTypeOK' /\ AttemptLeft'
  BY <1>12 DEF Throw
<1>13. ASSUME NEW p \in Proc, ReleaseLock(p) PROVE LockTypeOK' /\ AttemptLeft'
  BY <1>13 DEF ReleaseLock
<1>14. ASSUME NEW p \in Proc, CheckReleased(p) PROVE LockTypeOK' /\ AttemptLeft'
  BY <1>14 DEF CheckReleased
<1>15. ASSUME NEW p \in Proc, Die(p) PROVE LockTypeOK' /\ AttemptLeft'
  BY <1>15 DEF Die
<1>16. ASSUME UserRemovesLock PROVE LockTypeOK' /\ AttemptLeft'
  BY <1>16 DEF UserRemovesLock
<1>17. ASSUME NEW e \in Edit, Edits(e) PROVE LockTypeOK' /\ AttemptLeft'
  BY <1>17 DEF Edits
<1>18. CASE UNCHANGED lockVars
  BY <1>18 DEF lockVars
<1> QED
  BY <1>1, <1>2, <1>3, <1>3a, <1>3b, <1>4, <1>5, <1>6, <1>7, <1>8, <1>9, <1>10, <1>11, <1>12, <1>13, <1>14, <1>15, <1>16, <1>17, <1>18 DEF LockNext, Recover, Update

----------------------------------------------------------------------------
\* While the lock is left alone, what the processes know of it stays true.
LEMMA LockStep == HeldInv /\ [LockNext]_lockVars => LockInv'
<1> SUFFICES ASSUME LockTypeOK, LockInv, [LockNext]_lockVars, ~meddled', ~misjudged'
             PROVE /\ RecoversAlone'  /\ RecoveryIsMarked' /\ OpenedIsThere' /\ StaleIsDead'
                   /\ MovedIsStale' /\ HolderIsNamed' /\ NothingReturns'
  BY DEF HeldInv, LockInv
<1> DEFINE Safe == /\ RecoversAlone'  /\ RecoveryIsMarked' /\ OpenedIsThere' /\ StaleIsDead'
                   /\ MovedIsStale' /\ HolderIsNamed' /\ NothingReturns'
<1> USE LockAssumption
    DEF LockTypeOK, RecoversAlone, RecoveryIsMarked, OpenedIsThere, StaleIsDead, MovedIsStale, HolderIsNamed,
        NothingReturns, Goto, fileVars, Stages, Inspecting, Recovering, Holding, Resting, judgeVars, Replaces
<1>0. ASSUME ~meddled, ~misjudged
      PROVE /\ RecoversAlone /\ RecoveryIsMarked /\ OpenedIsThere /\ StaleIsDead
            /\ MovedIsStale /\ HolderIsNamed /\ NothingReturns
  BY <1>0 DEF LockInv
<1>1. ASSUME NEW p \in Proc, Acquire(p) PROVE Safe
  BY <1>0, <1>1 DEF Acquire
<1>2. ASSUME NEW p \in Proc, StartRecovery(p) PROVE Safe
  BY <1>0, <1>2 DEF StartRecovery
<1>3. ASSUME NEW p \in Proc, OpenLock(p) PROVE Safe
  BY <1>0, <1>3 DEF OpenLock
<1>3a. ASSUME NEW p \in Proc, CompareInode(p) PROVE Safe
  BY <1>0, <1>3a DEF CompareInode
<1>3b. ASSUME NEW p \in Proc, Judge(p) PROVE Safe
  BY <1>0, <1>3b DEF Judge, Alive
<1>4. ASSUME NEW p \in Proc, MoveStale(p) PROVE Safe
  BY <1>0, <1>4 DEF MoveStale
<1>5. ASSUME NEW p \in Proc, CheckMoved(p) PROVE Safe
  BY <1>0, <1>5 DEF CheckMoved
<1>6. ASSUME NEW p \in Proc, Relink(p) PROVE Safe
  BY <1>0, <1>6 DEF Relink
<1>7. ASSUME NEW p \in Proc, PutBack(p) PROVE Safe
  BY <1>0, <1>7 DEF PutBack
<1>8. ASSUME NEW p \in Proc, EndRecovery(p) PROVE Safe
  BY <1>0, <1>8 DEF EndRecovery
<1>9. ASSUME NEW p \in Proc, Read(p) PROVE Safe
  BY <1>0, <1>9 DEF Read
<1>10. ASSUME NEW p \in Proc, Compare(p) PROVE Safe
  BY <1>0, <1>10 DEF Compare
<1>11. ASSUME NEW p \in Proc, Rename(p) PROVE Safe
  BY <1>0, <1>11 DEF Rename
<1>12. ASSUME NEW p \in Proc, Throw(p) PROVE Safe
  BY <1>0, <1>12 DEF Throw
<1>13. ASSUME NEW p \in Proc, ReleaseLock(p) PROVE Safe
  BY <1>0, <1>13 DEF ReleaseLock
<1>14. ASSUME NEW p \in Proc, CheckReleased(p) PROVE Safe
  BY <1>0, <1>14 DEF CheckReleased
<1>15. ASSUME NEW p \in Proc, Die(p) PROVE Safe
  BY <1>0, <1>15 DEF Die
<1>16. ASSUME UserRemovesLock PROVE Safe
  BY <1>0, <1>16 DEF UserRemovesLock
<1>17. ASSUME NEW e \in Edit, Edits(e) PROVE Safe
  BY <1>0, <1>17 DEF Edits
<1>18. CASE UNCHANGED lockVars
  BY <1>0, <1>18 DEF lockVars
<1> QED
  BY <1>1, <1>2, <1>3, <1>3a, <1>3b, <1>4, <1>5, <1>6, <1>7, <1>8, <1>9, <1>10, <1>11, <1>12, <1>13, <1>14, <1>15, <1>16, <1>17, <1>18 DEF LockNext, Recover, Update

----------------------------------------------------------------------------
\* Only the holder writes the settings, and an edit in between is noticed.
LEMMA SettingsStep == HeldInv /\ [LockNext]_lockVars => SettingsInv'
<1> SUFFICES ASSUME LockTypeOK, LockInv, SettingsInv, [LockNext]_lockVars, ~meddled', ~misjudged', ~raced'
             PROVE /\ entries' = applied'
                   /\ \A p \in Proc : pc'[p] = "rename" => snapshot'[p] = entries'
  BY DEF HeldInv, SettingsInv
<1> DEFINE Current == /\ entries' = applied'
                      /\ \A q \in Proc : pc'[q] = "rename" => snapshot'[q] = entries'
<1> USE DEF LockTypeOK, SettingsInv, Goto, fileVars, Stages, Inspecting, Recovering, Holding, Resting, judgeVars, Replaces
<1>1. ASSUME NEW p \in Proc, Acquire(p) PROVE Current
  BY <1>1 DEF Acquire
<1>2. ASSUME NEW p \in Proc, StartRecovery(p) PROVE Current
  BY <1>2 DEF StartRecovery
<1>3. ASSUME NEW p \in Proc, OpenLock(p) PROVE Current
  BY <1>3 DEF OpenLock
<1>3a. ASSUME NEW p \in Proc, CompareInode(p) PROVE Current
  BY <1>3a DEF CompareInode
<1>3b. ASSUME NEW p \in Proc, Judge(p) PROVE Current
  BY <1>3b DEF Judge, Alive
<1>4. ASSUME NEW p \in Proc, MoveStale(p) PROVE Current
  BY <1>4 DEF MoveStale
<1>5. ASSUME NEW p \in Proc, CheckMoved(p) PROVE Current
  BY <1>5 DEF CheckMoved
<1>6. ASSUME NEW p \in Proc, Relink(p) PROVE Current
  BY <1>6 DEF Relink
<1>7. ASSUME NEW p \in Proc, PutBack(p) PROVE Current
  BY <1>7 DEF PutBack
<1>8. ASSUME NEW p \in Proc, EndRecovery(p) PROVE Current
  BY <1>8 DEF EndRecovery
<1>9. ASSUME NEW p \in Proc, Read(p) PROVE Current
  BY <1>9 DEF Read
<1>10. ASSUME NEW p \in Proc, Compare(p) PROVE Current
  BY <1>10 DEF Compare
<1>11. ASSUME NEW p \in Proc, Rename(p) PROVE Current
  <2>1. entries' = snapshot[p] \cup {p} /\ snapshot[p] = applied
    BY <1>11 DEF Rename
  <2>2. \A q \in Proc : pc[q] = "rename" => q = p
    BY <1>11 DEF Rename, LockInv, HolderIsNamed
  <2> QED
    BY <1>11, <2>1, <2>2 DEF Rename
<1>12. ASSUME NEW p \in Proc, Throw(p) PROVE Current
  BY <1>12 DEF Throw
<1>13. ASSUME NEW p \in Proc, ReleaseLock(p) PROVE Current
  BY <1>13 DEF ReleaseLock
<1>14. ASSUME NEW p \in Proc, CheckReleased(p) PROVE Current
  BY <1>14 DEF CheckReleased
<1>15. ASSUME NEW p \in Proc, Die(p) PROVE Current
  BY <1>15 DEF Die
<1>16. ASSUME UserRemovesLock PROVE Current
  BY <1>16 DEF UserRemovesLock
<1>17. ASSUME NEW e \in Edit, Edits(e) PROVE Current
  BY <1>17 DEF Edits
<1>18. CASE UNCHANGED lockVars
  BY <1>18 DEF lockVars
<1> QED
  BY <1>1, <1>2, <1>3, <1>3a, <1>3b, <1>4, <1>5, <1>6, <1>7, <1>8, <1>9, <1>10, <1>11, <1>12, <1>13, <1>14, <1>15, <1>16, <1>17, <1>18 DEF LockNext, Recover, Update

----------------------------------------------------------------------------
LEMMA LockInitially == LockInit => HeldInv
<1> SUFFICES ASSUME LockInit PROVE HeldInv
  OBVIOUS
<1>1. \A p \in Proc : pc[p] = "idle"
  BY DEF LockInit
<1>a. 0 < MaxAttempts /\ 0 \in 0 .. MaxAttempts
  BY LockAssumption
<1>2. LockTypeOK
  <2>1. attempt \in [Proc -> 0 .. MaxAttempts]
    BY <1>a DEF LockInit
  <2>2. snapshot \in [Proc -> SUBSET (Proc \cup Edit)]
    BY DEF LockInit
  <2>3. pc \in [Proc -> Stages]
    BY DEF LockInit, Stages, Resting
  <2> QED
    BY <2>1, <2>2, <2>3 DEF LockInit, LockTypeOK
<1>3. AttemptLeft
  BY <1>a DEF LockInit, AttemptLeft
<1>4. LockInv
  BY <1>1 DEF LockInv, RecoversAlone, RecoveryIsMarked, OpenedIsThere, StaleIsDead, MovedIsStale,
              HolderIsNamed, NothingReturns, Inspecting, Recovering, Holding
<1>5. SettingsInv
  BY <1>1 DEF LockInit, SettingsInv
<1> QED
  BY <1>2, <1>3, <1>4, <1>5 DEF HeldInv

LEMMA LockHeld == LockSpec => []HeldInv
<1>1. HeldInv /\ [LockNext]_lockVars => HeldInv'
  BY LockTypeStep, LockStep, SettingsStep DEF HeldInv
<1> QED
  BY LockInitially, <1>1, PTL DEF LockSpec

\* The lock, the settings and what every process knows have their types, for any
\* number of processes; an update makes at most MaxAttempts attempts.
THEOREM LockTyping == LockSpec => []LockTypeOK
<1>1. HeldInv => LockTypeOK
  BY DEF HeldInv
<1> QED
  BY LockHeld, <1>1, PTL

\* acquireSettingsLock: while nobody removes the lock out of turn and no inspection
\* misjudges a lock replaced under it, at most one of any number of processes holds
\* it, whoever dies and whoever takes over.
THEOREM OneHolder == LockSpec => []MutualExclusion
<1>1. HeldInv => MutualExclusion
  BY LockAssumption DEF HeldInv, LockInv, HolderIsNamed, MutualExclusion
<1> QED
  BY LockHeld, <1>1, PTL

\* updateSettingsAtomic: every update and every edit acts on the settings as one
\* step would, unless the lock is removed out of turn or misjudged, or an edit falls
\* between the last comparison and the rename.
THEOREM UpdatesAreAtomic == LockSpec => []NothingIsLost
<1>1. HeldInv => NothingIsLost
  BY DEF HeldInv, SettingsInv, NothingIsLost
<1> QED
  BY LockHeld, <1>1, PTL
=============================================================================
