---------------------------- MODULE SettingsLock ----------------------------
(***************************************************************************)
(* The lock file beside Claude's settings.json, and the update under it.   *)
(*                                                                         *)
(* An ECC process creates the lock by linking a file that names its pid.   *)
(* A process that finds the lock of a dead process takes it over: only one *)
(* process at a time may try, the one that makes the directory .recover.   *)
(* The holder rewrites settings.json from a snapshot it compares with the  *)
(* file twice before it renames the new text over it, since the user's     *)
(* editor and Claude itself write the file without the lock.               *)
(*                                                                         *)
(* Each step is one file-system call, or the test of a pid; a process may  *)
(* die before any of them.  A process that died never comes back, so its   *)
(* pid in a lock also identifies the file (its device and inode); that the *)
(* lock of a live owner was replaced is noted in "replaced".  The settings *)
(* are a set of entries: an update adds the entry of its process, an edit  *)
(* one of its own.                                                         *)
(***************************************************************************)
EXTENDS Naturals

CONSTANTS
    Proc,          \* ECC processes
    Edit,          \* entries written by programs that do not take the lock
    None,
    MaxAttempts    \* updateSettingsAtomic: attempts of one update

ASSUME LockAssumption ==
    /\ None \notin Proc
    /\ Proc \cap Edit = {}
    /\ MaxAttempts \in Nat \ {0}

VARIABLES
    lock,       \* the owner the lock file names, or None: there is no lock file
    recovery,   \* the directory .recover exists
    pc,         \* where each process is
    stale,      \* stale[p]: the owner of the lock file p opened; None: of no file that is there
    replaced,   \* processes inspecting a lock file that is no longer the lock
    aside,      \* aside[p]: the lock file p has moved out of the way, or None
    entries,    \* the entries of settings.json
    snapshot,   \* snapshot[p]: the entries p read
    attempt,    \* attempt[p]
    \* History:
    applied,    \* what the file would hold had every write acted on it at once
    meddled,    \* the lock was removed by hand while an ECC process was active
    misjudged,  \* a process judged a lock stale that was replaced while it looked
    raced       \* an edit came between the last comparison and the rename

fileVars == <<entries, snapshot, attempt, applied, raced>>
judgeVars == <<replaced, misjudged>>
lockVars == <<lock, recovery, pc, stale, aside, meddled, judgeVars, fileVars>>

Inspecting == {"opened", "matched"}
Recovering ==
    Inspecting \cup {"recovering", "stale", "moved", "restore", "relink", "leave", "take"}
Holding == {"take", "read", "commit", "staged", "rename", "release"}
Resting == {"idle", "dead"}
Stages == Recovering \cup Holding \cup Resting \cup {"blocked", "released", "return"}

LockInit ==
    /\ lock = None
    /\ recovery = FALSE
    /\ pc = [p \in Proc |-> "idle"]
    /\ stale = [p \in Proc |-> None]
    /\ replaced = {}
    /\ aside = [p \in Proc |-> None]
    /\ entries = {}
    /\ snapshot = [p \in Proc |-> {}]
    /\ attempt = [p \in Proc |-> 0]
    /\ applied = {}
    /\ meddled = FALSE
    /\ misjudged = FALSE
    /\ raced = FALSE

Goto(p, stage) == pc' = [pc EXCEPT ![p] = stage]
Alive(p) == pc[p] # "dead"

\* The lock file gives way: whoever is inspecting it looks at another file.
Replaces == replaced' = replaced \cup {p \in Proc : pc[p] \in Inspecting}

----------------------------------------------------------------------------
(* Acquiring.                                                              *)

\* createSettingsLock: the link fails when the lock exists.
Acquire(p) ==
    /\ pc[p] = "idle"
    /\ IF lock = None
       THEN lock' = p /\ Goto(p, "read")
       ELSE lock' = lock /\ Goto(p, "blocked")
    /\ UNCHANGED <<recovery, stale, aside, meddled, judgeVars, fileVars>>

\* Making the directory fails when somebody else is recovering, or died of it.
StartRecovery(p) ==
    /\ pc[p] = "blocked"
    /\ recovery' = TRUE
    /\ Goto(p, IF recovery THEN "idle" ELSE "recovering")
    /\ UNCHANGED <<lock, stale, aside, meddled, judgeVars, fileVars>>

OpenLock(p) ==
    /\ pc[p] = "recovering"
    /\ stale' = [stale EXCEPT ![p] = lock]
    /\ Goto(p, IF lock = None THEN "relink" ELSE "opened")
    /\ UNCHANGED <<lock, recovery, aside, meddled, judgeVars, fileVars>>

\* An opened file that is not the lock any more counts as an invalid lock: it is
\* stale once it is five minutes old, whatever the lock is by now.
CompareInode(p) ==
    /\ pc[p] = "opened"
    /\ replaced' = replaced \ {p}
    /\ \/ /\ lock = None
          /\ Goto(p, "relink")
          /\ UNCHANGED <<stale, misjudged>>
       \/ /\ lock # None /\ p \notin replaced
          /\ Goto(p, "matched")
          /\ UNCHANGED <<stale, misjudged>>
       \/ /\ lock # None /\ p \in replaced
          /\ Goto(p, "leave")
          /\ UNCHANGED <<stale, misjudged>>
       \/ /\ lock # None /\ p \in replaced
          /\ Goto(p, "stale")
          /\ stale' = [stale EXCEPT ![p] = None]
          /\ misjudged' = TRUE
    /\ UNCHANGED <<lock, recovery, aside, meddled, fileVars>>

\* processIsAlive: the owner may have released the lock and exited since.
Judge(p) ==
    /\ pc[p] = "matched"
    /\ replaced' = replaced \ {p}
    /\ IF Alive(stale[p])
       THEN Goto(p, "leave") /\ UNCHANGED <<stale, misjudged>>
       ELSE /\ Goto(p, "stale")
            /\ stale' = IF p \in replaced THEN [stale EXCEPT ![p] = None] ELSE stale
            /\ misjudged' = (misjudged \/ p \in replaced)
    /\ UNCHANGED <<lock, recovery, aside, meddled, fileVars>>

\* The lock that is moved away need not be the one that was inspected.
MoveStale(p) ==
    /\ pc[p] = "stale"
    /\ aside' = [aside EXCEPT ![p] = lock]
    /\ lock' = None
    /\ Goto(p, IF lock = None THEN "leave" ELSE "moved")
    /\ Replaces
    /\ UNCHANGED <<recovery, stale, meddled, misjudged, fileVars>>

CheckMoved(p) ==
    /\ pc[p] = "moved"
    /\ IF aside[p] = stale[p]
       THEN aside' = [aside EXCEPT ![p] = None] /\ Goto(p, "relink")
       ELSE aside' = aside /\ Goto(p, IF lock = None THEN "restore" ELSE "leave")
    /\ UNCHANGED <<lock, recovery, stale, meddled, judgeVars, fileVars>>

\* Fault: the new lock is renamed into place, over one that is already there.
Relink_Overwrites(p) ==
    /\ pc[p] = "relink"
    /\ lock' = p
    /\ Goto(p, "take")
    /\ UNCHANGED <<recovery, stale, aside, meddled, judgeVars, fileVars>>

Relink(p) ==
    /\ pc[p] = "relink"
    /\ IF lock = None
       THEN lock' = p /\ Goto(p, "take")
       ELSE lock' = lock /\ Goto(p, "leave")
    /\ UNCHANGED <<recovery, stale, aside, meddled, judgeVars, fileVars>>

\* Moving the file back replaces a lock that was created in the meantime.
PutBack(p) ==
    /\ pc[p] \in {"restore", "return"}
    /\ lock' = aside[p]
    /\ aside' = [aside EXCEPT ![p] = None]
    /\ Goto(p, IF pc[p] = "restore" THEN "leave" ELSE "idle")
    /\ Replaces
    /\ UNCHANGED <<recovery, stale, meddled, misjudged, fileVars>>

EndRecovery(p) ==
    /\ pc[p] \in {"leave", "take"}
    /\ recovery' = FALSE
    /\ aside' = [aside EXCEPT ![p] = None]
    /\ stale' = [stale EXCEPT ![p] = None]
    /\ Goto(p, IF pc[p] = "take" THEN "read" ELSE "idle")
    /\ UNCHANGED <<lock, meddled, judgeVars, fileVars>>

----------------------------------------------------------------------------
(* Updating: updateSettingsAtomic.                                         *)

Read(p) ==
    /\ pc[p] = "read"
    /\ snapshot' = [snapshot EXCEPT ![p] = entries]
    /\ attempt' = [attempt EXCEPT ![p] = @ + 1]
    /\ Goto(p, "commit")
    /\ UNCHANGED <<lock, recovery, stale, aside, entries, applied, meddled, judgeVars, raced>>

\* Fault: the file is compared once, before the new text is staged.
Compare_Once(p) ==
    /\ pc[p] \in {"commit", "staged"}
    /\ Goto(p, IF pc[p] = "staged" THEN "rename"
               ELSE IF entries = snapshot[p] THEN "staged"
               ELSE IF attempt[p] < MaxAttempts THEN "read" ELSE "release")
    /\ UNCHANGED <<lock, recovery, stale, aside, meddled, judgeVars, fileVars>>

\* Fault: an update that meets a changed file always tries again.
Compare_Forever(p) ==
    /\ pc[p] \in {"commit", "staged"}
    /\ Goto(p, IF entries # snapshot[p] THEN "read"
               ELSE IF pc[p] = "commit" THEN "staged" ELSE "rename")
    /\ UNCHANGED <<lock, recovery, stale, aside, meddled, judgeVars, fileVars>>

\* assertSettingsSnapshotUnchanged, before and after the new text is staged.
Compare(p) ==
    /\ pc[p] \in {"commit", "staged"}
    /\ Goto(p, IF entries = snapshot[p]
               THEN IF pc[p] = "commit" THEN "staged" ELSE "rename"
               ELSE IF attempt[p] < MaxAttempts THEN "read" ELSE "release")
    /\ UNCHANGED <<lock, recovery, stale, aside, meddled, judgeVars, fileVars>>

\* The transformation adds the entry of the process.
Rename(p) ==
    /\ pc[p] = "rename"
    /\ entries' = snapshot[p] \cup {p}
    /\ applied' = applied \cup {p}
    /\ Goto(p, "release")
    /\ UNCHANGED <<lock, recovery, stale, aside, snapshot, attempt, meddled, judgeVars, raced>>

\* The transformation or a later step of the callback throws.
Throw(p) ==
    /\ pc[p] \in {"read", "commit", "staged", "rename"}
    /\ Goto(p, "release")
    /\ UNCHANGED <<lock, recovery, stale, aside, meddled, judgeVars, fileVars>>

----------------------------------------------------------------------------
(* Releasing.                                                              *)

ReleaseLock(p) ==
    /\ pc[p] = "release"
    /\ aside' = [aside EXCEPT ![p] = lock]
    /\ lock' = None
    /\ Goto(p, IF lock = None THEN "idle" ELSE "released")
    /\ snapshot' = [snapshot EXCEPT ![p] = {}]
    /\ attempt' = [attempt EXCEPT ![p] = 0]
    /\ Replaces
    /\ UNCHANGED <<recovery, stale, entries, applied, meddled, misjudged, raced>>

\* A changed lock is moved back, or left aside when there is a new one.
CheckReleased(p) ==
    /\ pc[p] = "released"
    /\ IF aside[p] # p /\ lock = None
       THEN aside' = aside /\ Goto(p, "return")
       ELSE aside' = [aside EXCEPT ![p] = None] /\ Goto(p, "idle")
    /\ UNCHANGED <<lock, recovery, stale, meddled, judgeVars, fileVars>>

----------------------------------------------------------------------------
(* The rest of the world.                                                  *)

\* A process is killed, or exits when it is done.  What it knows dies with it; a
\* file it moved aside stays, unused.
Die(p) ==
    /\ Alive(p)
    /\ Goto(p, "dead")
    /\ stale' = [stale EXCEPT ![p] = None]
    /\ aside' = [aside EXCEPT ![p] = None]
    /\ snapshot' = [snapshot EXCEPT ![p] = {}]
    /\ attempt' = [attempt EXCEPT ![p] = 0]
    /\ replaced' = replaced \ {p}
    /\ UNCHANGED <<lock, recovery, entries, applied, meddled, misjudged, raced>>

\* "If no ECC process is active, inspect and remove" the lock.  A user who removed
\* it out of turn does not touch it again (bound).
UserRemovesLock ==
    /\ lock # None /\ ~meddled
    /\ lock' = None
    /\ meddled' = \E p \in Proc : pc[p] \notin Resting
    /\ Replaces
    /\ UNCHANGED <<recovery, pc, stale, aside, misjudged, fileVars>>

Edits(e) ==
    /\ e \notin applied
    /\ entries' = entries \cup {e}
    /\ applied' = applied \cup {e}
    /\ raced' = (raced \/ \E p \in Proc : pc[p] = "rename")
    /\ UNCHANGED <<lock, recovery, pc, stale, aside, snapshot, attempt, meddled, judgeVars>>

----------------------------------------------------------------------------
Recover(p) ==
    \/ StartRecovery(p) \/ OpenLock(p) \/ CompareInode(p) \/ Judge(p)
    \/ MoveStale(p) \/ CheckMoved(p) \/ Relink(p) \/ PutBack(p) \/ EndRecovery(p)

Update(p) == Read(p) \/ Compare(p) \/ Rename(p) \/ Throw(p)

LockNext ==
    \/ \E p \in Proc : Acquire(p) \/ Recover(p) \/ Update(p)
                       \/ ReleaseLock(p) \/ CheckReleased(p) \/ Die(p)
    \/ UserRemovesLock
    \/ \E e \in Edit : Edits(e)

LockSpec == LockInit /\ [][LockNext]_lockVars

----------------------------------------------------------------------------
(* Properties.                                                             *)

LockTypeOK ==
    /\ lock \in Proc \cup {None}
    /\ {recovery, meddled, misjudged, raced} \subseteq BOOLEAN
    /\ pc \in [Proc -> Stages]
    /\ replaced \subseteq {p \in Proc : pc[p] \in Inspecting}
    /\ stale \in [Proc -> Proc \cup {None}]
    /\ aside \in [Proc -> Proc \cup {None}]
    /\ entries \subseteq Proc \cup Edit /\ applied \subseteq Proc \cup Edit
    /\ snapshot \in [Proc -> SUBSET (Proc \cup Edit)]
    /\ attempt \in [Proc -> 0 .. MaxAttempts]

\* Two processes never hold the lock at once, whoever dies, takes over or is in
\* the middle of taking over, as long as nobody removes the lock by hand while
\* an ECC process is active, and no process that recovers inspects a lock that is
\* replaced meanwhile and judges it stale all the same.
MutualExclusion ==
    ~meddled /\ ~misjudged =>
        \A p, q \in Proc : pc[p] \in Holding /\ pc[q] \in Holding => p = q

\* Every write acts on the settings as if reading and writing were one step: no
\* update of a process and no edit is lost, but for an edit in the last window,
\* while the lock is left alone and judged right.
NothingIsLost == ~meddled /\ ~misjudged /\ ~raced => entries = applied
=============================================================================
