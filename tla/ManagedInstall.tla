--------------------------- MODULE ManagedInstall ---------------------------
(***************************************************************************)
(* The installer of scripts/: what install, repair and uninstall do to the *)
(* files of one target, to the hook entry of its settings.json and to the  *)
(* install-state that records which of them are ECC's.                     *)
(*                                                                         *)
(* A run of one command goes through the code's own persistence points:    *)
(* the plan, the BRIDGE state written before the first file, the files one *)
(* by one, the hook entry, the nested skill files of the old layout, the   *)
(* final state.  The user edits and deletes files between any two of them; *)
(* a step may throw and the process may die.                               *)
(*                                                                         *)
(* A file's bytes are known by who wrote them: a release of ECC, or the    *)
(* user while no command ran (Quiet), while one ran (Busy), or after an     *)
(* install had looked for a file in its way and before it wrote its own    *)
(* (Late).  A digest in the install-state is the bytes it was taken from.  *)
(***************************************************************************)
EXTENDS Integers, FiniteSets

CONSTANTS
    File,        \* destinations a copy-file operation may have
    Skill,       \* those that are flat skill directories
    FlatOf,      \* nested destination of the old layout -> its flat one
    MaxRelease,
    Ships,       \* Ships[r]: the destinations release r copies to
    HookText,    \* HookText[r]: the hook entry release r puts in the settings
    MigrationMayThrow, \* whether removing a nested file may throw
    RepairMayStop,     \* whether a repair may throw or die half way
    MaxEdits     \* bound: what the user edits and deletes in a behaviour

Release == 1..MaxRelease
Nested == DOMAIN FlatOf

ASSUME ConstantsAssumption ==
    /\ MaxRelease \in Nat \ {0}
    /\ Ships \in [Release -> SUBSET File]
    /\ HookText \in [Release -> Release]
    /\ Skill \subseteq File /\ Nested \subseteq File /\ FlatOf \in [Nested -> Skill]
    /\ \A r \in Release : Ships[r] \cap Nested = {}
    /\ MigrationMayThrow \in BOOLEAN /\ RepairMayStop \in BOOLEAN
    /\ MaxEdits \in Nat

Absent == 0         \* no such file, or no hook entry
Quiet == -1         \* bytes the user wrote while no command ran
Busy == -2          \* bytes the user wrote while a command ran
Unclaimed == -3     \* the install-state has no operation for the file
Undigested == -4    \* it has one, without contentSha256
Late == -5          \* bytes the user wrote between an install's look and its write

UserBytes == {Quiet, Busy, Late}
Bytes == Release \cup UserBytes
Claim == Bytes \cup {Unclaimed, Undigested}

VARIABLES
    disk,      \* disk[f]: the bytes at destination f
    settings,  \* the managed hook entry in settings.json
    record,    \* the install-state file
    package,   \* the release in the source checkout
    run,       \* the command that runs
    edits

vars == <<disk, settings, record, package, run, edits>>

NoRecord == [exists |-> FALSE, files |-> [f \in File |-> Unclaimed], hooks |-> Absent]

NoRun == [kind |-> "none", pc |-> "idle", prev |-> NoRecord, targets |-> {}, todo |-> {},
          checked |-> {}, written |-> {}, hooks |-> "none", gone |-> {}, stale |-> {}, release |-> 1,
          retained |-> FALSE, bridged |-> FALSE, since |-> 0]

Claimed(files) == {f \in DOMAIN files : files[f] # Unclaimed}

Idle == run.pc = "idle"

----------------------------------------------------------------------------
(* A new machine, or one with the nested layout of an earlier release.     *)

Init ==
    /\ package = 1
    /\ settings = Absent
    /\ run = NoRun
    /\ edits = 0
    /\ \E old \in SUBSET Nested, claim \in {1, Undigested} :
        /\ disk = [f \in File |-> IF f \in old THEN 1 ELSE Absent]
        /\ record = [exists |-> old # {},
                     files  |-> [f \in File |-> IF f \in old THEN claim ELSE Unclaimed],
                     hooks  |-> Absent]

\* stateWithContentDigests: a file that is not there keeps its operation as it is.
Digest(f) == IF disk[f] = Absent THEN Undigested ELSE disk[f]

WithOperations(files, ops) == [f \in File |-> IF f \in ops THEN Undigested ELSE files[f]]

Without(files, gone) == [f \in File |-> IF f \in gone THEN Unclaimed ELSE files[f]]

\* Destinations that exist and that the install-state does not know.
UserOwned(files, targets) == {f \in targets : disk[f] # Absent /\ files[f] = Unclaimed}

\* Nested files whose flat successor is part of what gets installed.
Migrated(files, targets) == {n \in Nested : files[n] # Unclaimed /\ FlatOf[n] \in targets}

----------------------------------------------------------------------------
(* Install.  Consent "install" enables the hooks, "decline" removes the    *)
(* hooks of an earlier install once everything else is in place, "keep" is *)
(* a plan without the hook runtime, which nobody was asked about.          *)

RemovesHooks(consent) == consent = "decline" /\ record.hooks # Absent

\* preflightClaudeSettingsOperations: the entry must be one the plan may replace or remove.
HooksReady(consent) ==
    CASE consent = "install" -> settings \in {Absent, HookText[package], record.hooks}
      [] RemovesHooks(consent) -> settings \in {Absent, record.hooks}
      [] OTHER -> TRUE

InstallPlan(consent) ==
    LET targets == Ships[package] \ UserOwned(record.files, Ships[package])
        gone == Migrated(record.files, targets)
        bridge == targets # {} \/ consent = "install" \/ RemovesHooks(consent)
    IN /\ Idle
       /\ HooksReady(consent)
       /\ run' = [NoRun EXCEPT
                    !.kind = consent, !.prev = record, !.targets = targets, !.todo = targets,
                    !.gone = gone, !.stale = gone, !.release = package,
                    !.pc = IF bridge THEN "bridge" ELSE "write",
                    !.bridged = bridge,
                    !.hooks = IF consent = "install" THEN "merge"
                              ELSE IF RemovesHooks(consent) THEN "remove" ELSE "none"]
       /\ UNCHANGED <<disk, settings, record, package, edits>>

\* Fault: the hook entry is recorded only when the install is complete.
BridgeHooks_Late(r) == r.prev.hooks

BridgeHooks(r) == IF r.kind = "install" THEN HookText[r.release] ELSE r.prev.hooks
FinalHooks(r) == IF r.kind = "decline" THEN Absent ELSE BridgeHooks(r)

\* Fault: the bridge forgets the operations of the earlier install.
BridgeState_PlanOnly(r) == [exists |-> TRUE,
                            files |-> WithOperations(NoRecord.files, r.targets),
                            hooks |-> BridgeHooks(r)]

BridgeState(r) == [exists |-> TRUE, files |-> WithOperations(r.prev.files, r.targets),
                   hooks |-> BridgeHooks(r)]

FinalState(r) == [exists |-> TRUE,
                  files |-> Without(WithOperations(r.prev.files, r.targets), r.gone),
                  hooks |-> FinalHooks(r)]

Consent == {"install", "decline", "keep"}
Installing == run.kind \in Consent

InstallBridge ==
    /\ Installing /\ run.pc = "bridge"
    /\ record' = BridgeState(run)
    /\ run' = [run EXCEPT !.pc = "write"]
    /\ UNCHANGED <<disk, settings, package, edits>>

\* Fault: only the plan looks for files of the user.
InTheWay_PlanOnly(f) == FALSE

\* assertNoNewUserOwnedFile: a file that appeared after planning stops the install.
InTheWay(f) == run.prev.files[f] = Unclaimed /\ disk[f] # Absent

CheckFile(f) ==
    /\ Installing /\ run.pc = "write" /\ f \in run.todo /\ run.checked = {}
    /\ ~InTheWay(f)
    /\ run' = [run EXCEPT !.checked = {f}]
    /\ UNCHANGED <<disk, settings, record, package, edits>>

\* The source is read and transformed, then written over whatever is there.
InstallFile(f) ==
    /\ Installing /\ f \in run.checked
    /\ disk' = [disk EXCEPT ![f] = run.release]
    /\ run' = [run EXCEPT !.todo = @ \ {f}, !.checked = {}, !.written = @ \cup {f}]
    /\ UNCHANGED <<settings, record, package, edits>>

InstallHooks ==
    /\ Installing /\ run.pc = "write" /\ run.hooks = "merge" /\ run.checked = {}
    /\ settings \in {Absent, HookText[run.release], run.prev.hooks}
    /\ settings' = HookText[run.release]
    /\ run' = [run EXCEPT !.hooks = "merged"]
    /\ UNCHANGED <<disk, record, package, edits>>

\* Disable hooks only after every ordinary install operation succeeded.
RemoveHooks ==
    /\ Installing /\ run.pc = "write" /\ run.hooks = "remove" /\ run.todo = {}
    /\ settings \in {Absent, run.prev.hooks}
    /\ settings' = Absent
    /\ run' = [run EXCEPT !.hooks = "removed"]
    /\ UNCHANGED <<disk, record, package, edits>>

WritesDone == run.pc = "write" /\ run.todo = {} /\ run.hooks \notin {"merge", "remove", "repair"}

RemoveNested(n) ==
    /\ (Installing \/ run.kind = "repair") /\ WritesDone /\ n \in run.stale
    /\ disk' = [disk EXCEPT ![n] = Absent]
    /\ run' = [run EXCEPT !.stale = @ \ {n}]
    /\ UNCHANGED <<settings, record, package, edits>>

InstallFinish ==
    /\ Installing /\ WritesDone /\ run.stale = {}
    /\ record' = [FinalState(run) EXCEPT
                    !.files = [f \in File |-> IF f \in run.targets THEN Digest(f) ELSE @[f]]]
    /\ run' = NoRun
    /\ UNCHANGED <<disk, settings, package, edits>>

\* preserveUnwrittenFiles: what this attempt did not write keeps its earlier claim,
\* and is not claimed at all when the user has a file there.
Checkpoint(r) ==
    LET base == IF r.hooks = "removed" THEN FinalState(r) ELSE BridgeState(r)
        claim(f) ==
            IF base.files[f] = Unclaimed THEN Unclaimed
            ELSE IF f \in r.written THEN Digest(f)
            ELSE IF r.prev.files[f] # Unclaimed THEN r.prev.files[f]
            ELSE IF disk[f] = Absent THEN Undigested ELSE Unclaimed
    IN [base EXCEPT !.files = [f \in File |-> claim(f)]]

InstallThrows ==
    /\ Installing /\ run.pc = "write"
    /\ (WritesDone /\ run.stale # {}) => MigrationMayThrow
    /\ record' = IF run.bridged THEN Checkpoint(run) ELSE record
    /\ run' = NoRun
    /\ UNCHANGED <<disk, settings, package, edits>>

----------------------------------------------------------------------------
(* Uninstall: remove what still has the recorded digest, keep the rest     *)
(* together with the install-state.                                        *)

UninstallPlan ==
    /\ Idle /\ record.exists
    /\ run' = [NoRun EXCEPT !.kind = "uninstall", !.pc = "write", !.prev = record,
                            !.todo = Claimed(record.files),
                            !.hooks = IF record.hooks = Absent THEN "none" ELSE "remove"]
    /\ UNCHANGED <<disk, settings, record, package, edits>>

Uninstalling == run.kind = "uninstall"

\* Fault: a copy without a digest counts as unchanged.
Retains_OnlyDigested(f) ==
    disk[f] # Absent /\ run.prev.files[f] # Undigested /\ disk[f] # run.prev.files[f]

Retains(f) == disk[f] # Absent /\ disk[f] # run.prev.files[f]

UninstallFile(f) ==
    /\ Uninstalling /\ f \in run.todo
    /\ disk' = [disk EXCEPT ![f] = IF Retains(f) THEN @ ELSE Absent]
    /\ run' = [run EXCEPT !.todo = @ \ {f}, !.retained = @ \/ Retains(f)]
    /\ UNCHANGED <<settings, record, package, edits>>

UninstallHooks ==
    /\ Uninstalling /\ run.hooks = "remove"
    /\ settings' = IF settings = run.prev.hooks THEN Absent ELSE settings
    /\ run' = [run EXCEPT !.hooks = "removed",
                          !.retained = @ \/ settings \notin {Absent, run.prev.hooks}]
    /\ UNCHANGED <<disk, record, package, edits>>

UninstallFinish ==
    /\ Uninstalling /\ WritesDone
    /\ record' = IF run.retained THEN record ELSE NoRecord
    /\ run' = NoRun
    /\ UNCHANGED <<disk, settings, package, edits>>

----------------------------------------------------------------------------
(* Repair.  With a hook entry (or any other operation that is not a copy)  *)
(* in the install-state the recorded operations are the plan; otherwise    *)
(* the plan is resolved from the manifest again.                           *)

Recorded == record.hooks # Absent

RepairTargets ==
    IF Recorded THEN Claimed(record.files)
    ELSE Ships[package] \ UserOwned(record.files, Ships[package] \cap Skill)

RepairGone == Migrated(record.files, RepairTargets)

\* The claims of the desired state, before its digests are taken again.  Recorded
\* operations are put back after the migrated ones were taken out.
DesiredFiles ==
    IF Recorded THEN record.files
    ELSE Without(WithOperations(record.files, RepairTargets), RepairGone)

HasSource(f, r) == f \in Ships[r] \/ (f \in Nested /\ FlatOf[f] \in Ships[r])

\* Fault: only missing files are repaired.
Broken_OnlyMissing(f) == disk[f] = Absent

\* inspectManagedOperation: a recorded digest counts before the source does.
Broken(f) ==
    \/ disk[f] = Absent
    \/ disk[f] # (IF DesiredFiles[f] = Undigested THEN package ELSE DesiredFiles[f])

RepairPlan ==
    LET todo == {f \in Claimed(DesiredFiles) : Broken(f)}
        hooks == IF Recorded /\ {settings, record.hooks} # {HookText[package]}
                 THEN "repair" ELSE "none"
    IN /\ Idle /\ record.exists
       /\ \A f \in Claimed(DesiredFiles) : HasSource(f, package) \/ disk[f] = Absent
       /\ run' = [NoRun EXCEPT
                    !.kind = "repair", !.prev = record, !.release = package, !.since = edits,
                    !.targets = RepairTargets, !.todo = todo, !.hooks = hooks,
                    !.gone = RepairGone, !.stale = RepairGone,
                    !.pc = IF todo # {} \/ hooks = "repair" \/ RepairGone # {}
                           THEN "bridge" ELSE "write"]
       /\ UNCHANGED <<disk, settings, record, package, edits>>

\* writeRefreshedInstallState: every claim gets the digest of what is on the disk.
Refreshed(files) == [f \in File |-> IF files[f] = Unclaimed THEN Unclaimed ELSE Digest(f)]

RepairHooks(r) == IF r.prev.hooks = Absent THEN Absent ELSE HookText[r.release]

RepairBridge ==
    /\ run.kind = "repair" /\ run.pc = "bridge"
    /\ record' = [exists |-> TRUE,
                  files  |-> Refreshed(WithOperations(run.prev.files, run.targets)),
                  hooks  |-> RepairHooks(run)]
    /\ run' = [run EXCEPT !.pc = "write"]
    /\ UNCHANGED <<disk, settings, package, edits>>

RepairFile(f) ==
    /\ run.kind = "repair" /\ run.pc = "write" /\ f \in run.todo
    /\ HasSource(f, run.release)
    /\ disk' = [disk EXCEPT ![f] = run.release]
    /\ run' = [run EXCEPT !.todo = @ \ {f}]
    /\ UNCHANGED <<settings, record, package, edits>>

RepairSettings ==
    /\ run.kind = "repair" /\ run.pc = "write" /\ run.hooks = "repair"
    /\ settings' = HookText[run.release]
    /\ run' = [run EXCEPT !.hooks = "repaired"]
    /\ UNCHANGED <<disk, record, package, edits>>

RepairFinish ==
    /\ run.kind = "repair" /\ WritesDone /\ run.stale = {}
    /\ record' = [exists |-> TRUE,
                  files  |-> Refreshed(IF run.prev.hooks # Absent THEN run.prev.files
                                       ELSE Without(WithOperations(run.prev.files, run.targets),
                                                    run.gone)),
                  hooks  |-> RepairHooks(run)]
    /\ run' = NoRun
    /\ UNCHANGED <<disk, settings, package, edits>>

----------------------------------------------------------------------------
(* The process dies, or a command without a checkpoint throws.             *)

Stops ==
    /\ ~Idle
    /\ run.kind = "repair" => RepairMayStop
    /\ run' = NoRun
    /\ UNCHANGED <<disk, settings, record, package, edits>>

(* The user and the source checkout.                                       *)

UserWrites(f) ==
    /\ edits < MaxEdits
    /\ disk' = [disk EXCEPT ![f] = IF Idle THEN Quiet ELSE IF f \in run.checked THEN Late ELSE Busy]
    /\ edits' = edits + 1
    /\ UNCHANGED <<settings, record, package, run>>

UserDeletes(f) ==
    /\ edits < MaxEdits /\ disk[f] # Absent
    /\ disk' = [disk EXCEPT ![f] = Absent]
    /\ edits' = edits + 1
    /\ UNCHANGED <<settings, record, package, run>>

UserEditsHooks ==
    /\ edits < MaxEdits /\ settings # Absent
    /\ settings' \in {Quiet, Absent}
    /\ edits' = edits + 1
    /\ UNCHANGED <<disk, record, package, run>>

Upgrade ==
    /\ Idle /\ package < MaxRelease
    /\ package' = package + 1
    /\ UNCHANGED <<disk, settings, record, run, edits>>

Commands ==
    \/ \E consent \in Consent : InstallPlan(consent)
    \/ InstallBridge \/ InstallHooks \/ RemoveHooks \/ InstallFinish \/ InstallThrows
    \/ UninstallPlan \/ UninstallHooks \/ UninstallFinish
    \/ RepairPlan \/ RepairBridge \/ RepairSettings \/ RepairFinish
    \/ \E f \in File :
        CheckFile(f) \/ InstallFile(f) \/ UninstallFile(f) \/ RepairFile(f) \/ RemoveNested(f)

User == UserEditsHooks \/ Upgrade \/ \E f \in File : UserWrites(f) \/ UserDeletes(f)

Next == Commands \/ Stops \/ User

Spec == Init /\ [][Next]_vars

----------------------------------------------------------------------------
(* Properties.                                                             *)

ClaimMap == [File -> Claim]

TypeOK ==
    /\ disk \in [File -> Bytes \cup {Absent}]
    /\ settings \in Release \cup {Quiet, Absent}
    /\ record \in [exists : BOOLEAN, files : ClaimMap, hooks : Release \cup {Absent}]
    /\ package \in Release
    /\ run \in [kind : {"none", "uninstall", "repair"} \cup Consent,
                pc : {"idle", "bridge", "write"},
                prev : [exists : BOOLEAN, files : ClaimMap, hooks : Release \cup {Absent}],
                targets : SUBSET File, todo : SUBSET File, checked : SUBSET File, written : SUBSET File,
                hooks : {"none", "merge", "merged", "remove", "removed", "repair", "repaired"},
                gone : SUBSET Nested, stale : SUBSET Nested, release : Release,
                retained : BOOLEAN, bridged : BOOLEAN, since : Nat]
    /\ edits \in 0..MaxEdits

(* "A later failure is retryable and uninstall can clean the entire        *)
(* partial install": at every moment, also when a command died half way,   *)
(* each file that carries bytes of ECC is one the install-state claims, so *)
(* an uninstall will visit it.  Of installs whose migration of a nested    *)
(* file does not throw.                                                    *)
EccFilesAreClaimed == \A f \in File : disk[f] \in Release => record.files[f] # Unclaimed

(* The same for the hook entry: no hook of ECC runs on every prompt that   *)
(* no install-state lists.                                                 *)
HooksAreRecorded == settings \in Release => record.hooks # Absent

(* An uninstall never deletes a file that holds what the user wrote while  *)
(* no command ran, whatever installs, failed installs, repairs and other   *)
(* uninstalls came before it, when no repair was interrupted.              *)
UninstallSparesUserWork ==
    [][Uninstalling /\ edits' = edits => \A f \in File : disk[f] = Quiet => disk'[f] = Quiet]_vars

(* An install overwrites or removes what the user wrote only where the     *)
(* install-state claimed the file before the run started, even if the file *)
(* appears while the run goes on; but for the file it is about to write,   *)
(* when that appears after the install looked for it.                      *)
InstallSparesUnclaimed ==
    [][Installing /\ edits' = edits =>
         \A f \in File : disk[f] \in UserBytes /\ disk'[f] # disk[f] =>
            \/ run.prev.files[f] # Unclaimed
            \/ disk[f] = Late /\ f \in run.checked]_vars

(* A repair that nobody disturbed adopts no edit: what is claimed          *)
(* afterwards has the bytes of the release or those it was recorded with,  *)
(* or is a nested file the repair removed and keeps the claim on; and the  *)
(* hook entry is the recorded one.                                         *)
RepairAdoptsNothing ==
    [][RepairFinish /\ run.since = edits =>
         /\ \A f \in Claimed(record'.files) :
               \/ disk'[f] \in {run.release, run.prev.files[f]}
               \/ f \in run.gone /\ disk'[f] = Absent
         /\ record'.hooks # Absent => settings' = record'.hooks]_vars

=============================================================================
