---------------------------- MODULE Coordination ----------------------------
(***************************************************************************)
(* Epics coordinated through GitHub issues.                                *)
(*                                                                         *)
(* An epic's state is a JSON section in the body of its issue; labels and  *)
(* a row of the local state store are projections of it.  Every command is *)
(* a process: it opens the store (sql.js: a copy of the whole database in  *)
(* memory), reads the issue, decides, edits body and labels, records the   *)
(* row, which writes the whole copy back, and writes it once more when it  *)
(* closes.  Nothing is locked: the sequence read, check, write "is NOT     *)
(* atomic" (comment of applyClaim).  A command that fails exits at once,   *)
(* wherever it is, and does not close the store.                           *)
(*                                                                         *)
(* Comments, branches and the project board are left out, and the options  *)
(* that set a field by hand.  Limits on listings are not reached.          *)
(***************************************************************************)
CONSTANTS
    Issues,       \* issues of the repository
    Refs,         \* Refs[i]: the issues that the body of i refers to
    OpenTasks,    \* issues whose body lists a task that is not done
    Commands,     \* processes; each runs one command, in its own name
    Runs,         \* bound: Runs[c], the kinds of command that c may be
    Closable,     \* bound: issues that somebody closes and reopens
    Last          \* bound: commands that start when all others have ended

ASSUME ConstantsAssumption == Issues # {} /\ Closable \subseteq Issues

VARIABLES
    issue,        \* GitHub: whether it is open, its section, its coordination labels
    disk,         \* the state store: one row per issue, or none
    proc,         \* proc[c]: the command, how far it is, what it read
    alone         \* the running command, if no other has overlapped it

vars == <<issue, disk, proc, alone>>

Status == {"available", "claimed", "ready", "blocked", "validated", "published"}
Verdicts == {"requested", "approved", "changes-requested"}
Kinds == {"claim", "validate", "publish", "review", "decompose", "unblock", "sync", "preview"}
ListKinds == {"unblock", "sync", "preview"}

State == [status : Status, owner : Commands \cup {"author"},
          validation : {"pending", "passed", "failed"}, review : Verdicts \cup {"not-requested"}]

\* An issue without a section reads as this one.
defaultCoordinationState ==
    [status |-> "available", owner |-> "author",
     validation |-> "pending", review |-> "not-requested"]

Unmarked == [open |-> TRUE, state |-> defaultCoordinationState, labels |-> {}]

\* The coordination labels a state asks for; a validated epic has only the label
\* of its validation.
desiredLabels(state) ==
    {"epic", "synced"}
        \cup ({state.status} \ {"validated"})
        \cup (IF state.validation = "passed" THEN {"validated"} ELSE {})
        \cup ({state.review} \ {"not-requested"})

Labels == {"epic", "synced"} \cup Status \cup Verdicts

\* The work item: mapStateToWorkItemStatus and the owner.
Row(state) ==
    [status |-> CASE state.status = "blocked" -> "blocked"
                  [] state.status = "published" -> "done"
                  [] state.status = "available" -> "open"
                  [] OTHER -> "in-progress",
     owner |-> state.owner]

NoRow == [status |-> "none", owner |-> "author"]
Rows == [status : {"none", "blocked", "done", "open", "in-progress"},
         owner : Commands \cup {"author"}]

Idle == [pc |-> "idle", kind |-> "preview", verdict |-> "approved", met |-> FALSE,
         todo |-> {}, at |-> CHOOSE i \in Issues : TRUE,
         snap |-> [i \in Issues |-> Unmarked], copy |-> [i \in Issues |-> NoRow]]

Init ==
    /\ issue = [i \in Issues |-> Unmarked]
    /\ disk = [i \in Issues |-> NoRow]
    /\ proc = [c \in Commands |-> Idle]
    /\ alone = {}

Active(c) == proc[c].pc \notin {"idle", "failed", "closed"}

----------------------------------------------------------------------------
(* What a command makes of the state it read.                              *)

DependenciesMet(i, issues) == \A d \in Refs[i] : ~issues[d].open

\* Fault: a claim that is taken is not looked at.
Claimable_Taken(seen) == seen.open

\* assertIssueClaimable
Claimable(seen) == seen.open /\ seen.state.status # "claimed"

\* applyPublish, under the policy that requires a review.
Publishable(c, seen) == proc[c].met /\ seen.state.review = "approved"

\* What each action sets; everything else stays.
applyClaim(c, state) == [state EXCEPT !.status = "claimed", !.owner = c]

applyValidate(met, state) ==
    IF met THEN [state EXCEPT !.status = "validated", !.validation = "passed"]
    ELSE [state EXCEPT !.validation = "failed"]

applyPublish(state) == [state EXCEPT !.status = "published", !.validation = "passed"]

applyReview(verdict, state) ==
    [state EXCEPT !.review = verdict,
                  !.status = CASE verdict = "approved"  -> "ready"
                               [] verdict = "requested" -> "claimed"
                               [] OTHER                 -> "blocked"]

applyDecompose(i, state) ==
    IF i \in OpenTasks THEN [state EXCEPT !.status = "claimed"] ELSE state

applyUnblock(state) ==
    [state EXCEPT !.status = "ready",
                  !.validation = IF @ = "failed" THEN "pending" ELSE @]

\* buildIssueStateFromAction; a sync renders what it read.
Decided(c, i) ==
    LET p == proc[c]
        state == p.snap[i].state
    IN CASE p.kind = "claim"     -> applyClaim(c, state)
         [] p.kind = "validate"  -> applyValidate(p.met, state)
         [] p.kind = "publish"   -> applyPublish(state)
         [] p.kind = "review"    -> applyReview(p.verdict, state)
         [] p.kind = "decompose" -> applyDecompose(i, state)
         [] p.kind = "unblock"   -> applyUnblock(state)
         [] OTHER                -> state

\* Fault: labels are only added.
Relabelled_AddsOnly(i, seen, state, added) == issue[i].labels \cup added

\* Labels are edited relative to what was read: `added` go on, stale ones off.
Relabelled(i, seen, state, added) ==
    (issue[i].labels \cup added) \ (seen.labels \ desiredLabels(state))

----------------------------------------------------------------------------
(* One command.                                                            *)

Targets(kind) == IF kind \in ListKinds THEN {Issues} ELSE {{i} : i \in Issues}

Become(c, next) == proc' = [proc EXCEPT ![c] = next]

\* main: openStore copies the database.
Start(c, kind, todo, verdict) ==
    /\ proc[c].pc = "idle"
    /\ c \in Last => \A d \in Commands : d = c \/ proc[d].pc \in {"failed", "closed"}
    /\ kind \in Runs[c] /\ todo \in Targets(kind)
    /\ verdict = "approved" \/ kind = "review"
    /\ Become(c, [Idle EXCEPT !.pc = "opened", !.kind = kind, !.verdict = verdict,
                              !.copy = disk, !.todo = todo])
    /\ alone' = IF \E d \in Commands : Active(d) THEN {} ELSE {c}
    /\ UNCHANGED <<issue, disk>>

\* getIssue or listIssues.
Read(c) ==
    /\ proc[c].pc = "opened"
    /\ Become(c, [proc[c] EXCEPT
         !.pc = IF proc[c].kind \in {"validate", "publish"} THEN "check" ELSE "decide",
         !.snap = [i \in Issues |-> IF i \in proc[c].todo THEN issue[i] ELSE Unmarked]])
    /\ UNCHANGED <<issue, disk, alone>>

\* verifyDependenciesClosed lists the issues again.
CheckDependencies(c) ==
    /\ proc[c].pc = "check"
    /\ Become(c, [proc[c] EXCEPT !.pc = "decide",
                                 !.met = \A i \in proc[c].todo : DependenciesMet(i, issue)])
    /\ UNCHANGED <<issue, disk, alone>>

Refused(c, i) ==
    \/ proc[c].kind = "claim" /\ ~Claimable(proc[c].snap[i])
    \/ proc[c].kind = "publish" /\ ~Publishable(c, proc[c].snap[i])

\* A dry run passes over everything, applyUnblock over what is not blocked or
\* still depends on something open.
PassedOver(c, i) ==
    \/ proc[c].kind = "preview"
    \/ /\ proc[c].kind = "unblock"
       /\ \/ proc[c].snap[i].state.status # "blocked"
          \/ ~DependenciesMet(i, proc[c].snap)

\* The next issue to act on.
Deciding(c, i) ==
    /\ proc[c].pc = "decide" /\ i \in proc[c].todo
    /\ ~Refused(c, i) /\ ~PassedOver(c, i)

\* One edit of body and labels, and a comment.
Edit(c, i) ==
    /\ Deciding(c, i) /\ proc[c].kind # "sync"
    /\ LET state == Decided(c, i) IN
       issue' = [issue EXCEPT
           ![i].state = state,
           ![i].labels = Relabelled(i, proc[c].snap[i], state, desiredLabels(state))]
    /\ Become(c, [proc[c] EXCEPT !.pc = "edited", !.at = i])
    /\ UNCHANGED <<disk, alone>>

\* A sync edits the labels first, and adds only those that it did not see ...
SyncLabels(c, i) ==
    /\ Deciding(c, i) /\ proc[c].kind = "sync"
    /\ LET seen == proc[c].snap[i]
           state == Decided(c, i)
       IN issue' = [issue EXCEPT
              ![i].labels = Relabelled(i, seen, state, desiredLabels(state) \ seen.labels)]
    /\ Become(c, [proc[c] EXCEPT !.pc = "labelled", !.at = i])
    /\ UNCHANGED <<disk, alone>>

\* ... and then the body, which is never the one it read: lastActionAt is new.
SyncBody(c) ==
    LET i == proc[c].at IN
    /\ proc[c].pc = "labelled"
    /\ issue' = [issue EXCEPT ![i].state = Decided(c, i)]
    /\ Become(c, [proc[c] EXCEPT !.pc = "edited"])
    /\ UNCHANGED <<disk, alone>>

\* upsertCoordinationWorkItem: the row goes into the copy, the copy to the disk.
Record(c) ==
    LET i == proc[c].at
        copy == [proc[c].copy EXCEPT ![i] = Row(Decided(c, i))]
    IN /\ proc[c].pc = "edited"
       /\ disk' = copy
       /\ Become(c, [proc[c] EXCEPT !.copy = copy, !.pc = "decide", !.todo = @ \ {i}])
       /\ UNCHANGED <<issue, alone>>

\* The store writes its copy when it closes, whether or not anything was recorded.
Close(c) ==
    /\ proc[c].pc = "decide" /\ \A i \in proc[c].todo : PassedOver(c, i)
    /\ disk' = proc[c].copy
    /\ Become(c, [Idle EXCEPT !.pc = "closed"])
    /\ alone' = alone \ {c}
    /\ UNCHANGED issue

\* A check refuses, gh fails, or the process is killed.
Fail(c) ==
    /\ Active(c)
    /\ Become(c, [Idle EXCEPT !.pc = "failed"])
    /\ alone' = alone \ {c}
    /\ UNCHANGED <<issue, disk>>

\* Somebody closes or reopens an issue on GitHub.
Toggle(i) ==
    /\ issue' = [issue EXCEPT ![i].open = ~@]
    /\ UNCHANGED <<disk, proc, alone>>

Step(c) ==
    \/ \E kind \in Kinds, todo \in SUBSET Issues, verdict \in Verdicts :
          Start(c, kind, todo, verdict)
    \/ \E i \in Issues : Edit(c, i) \/ SyncLabels(c, i)
    \/ Read(c) \/ CheckDependencies(c) \/ SyncBody(c) \/ Record(c) \/ Close(c) \/ Fail(c)

Next == (\E c \in Commands : Step(c)) \/ (\E i \in Closable : Toggle(i))

Spec == Init /\ [][Next]_vars

----------------------------------------------------------------------------
(* Properties.                                                             *)

Views == [open : BOOLEAN, state : State, labels : SUBSET Labels]

TypeOK ==
    /\ issue \in [Issues -> Views]
    /\ disk \in [Issues -> Rows]
    /\ proc \in [Commands ->
         [pc : {"idle", "opened", "check", "decide", "labelled", "edited", "closed", "failed"},
          kind : Kinds, verdict : Verdicts, met : BOOLEAN, todo : SUBSET Issues, at : Issues,
          snap : [Issues -> Views], copy : [Issues -> Rows]]]
    /\ alone \subseteq Commands

\* Whoever owns a claimed epic keeps it, but for a command that decided on what
\* it had read before: the one loss that the comment of applyClaim admits.
ClaimIsKept ==
    [][\A i \in Issues :
         issue[i].state.status = "claimed" /\ issue'[i].state.owner # issue[i].state.owner =>
             \E c \in Commands : /\ proc[c].pc \in {"decide", "labelled"}
                                 /\ proc'[c].pc = "edited" /\ proc'[c].at = i
                                 /\ proc[c].snap[i].state # issue[i].state]_vars

\* Body, labels and row of issue i agree.
Agree(i) ==
    /\ issue[i].labels = desiredLabels(issue[i].state)
    /\ disk[i] = Row(issue[i].state)

\* A command that nothing overlapped leaves the epics it wrote in agreement, and
\* a sync leaves them all so, whatever races and failures came before it.
AloneRepairs ==
    [][\A c \in Commands :
         Active(c) /\ c \in alone /\ proc'[c].pc = "closed" =>
             \A i \in Issues :
                 proc[c].kind = "sync" \/ (proc[c].kind \notin ListKinds /\ i = proc[c].at)
                     => Agree(i)']_vars
=============================================================================
