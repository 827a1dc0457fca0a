------------------------- MODULE CoordinationProofs -------------------------
(***************************************************************************)
(* Coordination for any number of epics and commands: types, what a claim  *)
(* is safe from, and that a command nothing overlaps repairs what it       *)
(* writes.  The last needs to know what such a command relies on while it  *)
(* runs: its copy is the disk, and what it read is what is there.          *)
(***************************************************************************)
EXTENDS Coordination, TLAPS

Pcs == {"idle", "opened", "check", "decide", "labelled", "edited", "closed", "failed"}

Procs == [pc : Pcs, kind : Kinds, verdict : Verdicts, met : BOOLEAN,
          todo : SUBSET Issues, at : Issues, snap : [Issues -> Views], copy : [Issues -> Rows]]

----------------------------------------------------------------------------
(* Types.                                                                  *)

LEMMA UnmarkedType == Unmarked \in Views
BY DEF Unmarked, Views, defaultCoordinationState, State, Status, Labels

LEMMA IdleType == Idle \in Procs
<1>1. (CHOOSE i \in Issues : TRUE) \in Issues
  BY ConstantsAssumption
<1> QED
  BY <1>1, UnmarkedType DEF Idle, Procs, Pcs, Kinds, Verdicts, NoRow, Rows

LEMMA FieldTypes ==
    ASSUME NEW p \in Procs
    PROVE  /\ \A pc \in Pcs : [p EXCEPT !.pc = pc] \in Procs
           /\ \A kind \in Kinds : [p EXCEPT !.kind = kind] \in Procs
           /\ \A verdict \in Verdicts : [p EXCEPT !.verdict = verdict] \in Procs
           /\ \A met \in BOOLEAN : [p EXCEPT !.met = met] \in Procs
           /\ \A todo \in SUBSET Issues : [p EXCEPT !.todo = todo] \in Procs
           /\ \A i \in Issues : [p EXCEPT !.at = i] \in Procs
           /\ \A snap \in [Issues -> Views] : [p EXCEPT !.snap = snap] \in Procs
           /\ \A copy \in [Issues -> Rows] : [p EXCEPT !.copy = copy] \in Procs
BY DEF Procs

LEMMA BecomeType ==
    ASSUME TypeOK, NEW c \in Commands, NEW next \in Procs, Become(c, next)
    PROVE  proc' \in [Commands -> Procs]
BY DEF TypeOK, Become, Procs, Pcs

LEMMA StateFields ==
    ASSUME NEW state \in State
    PROVE  /\ \A status \in Status : [state EXCEPT !.status = status] \in State
           /\ \A owner \in Commands : [state EXCEPT !.owner = owner] \in State
           /\ \A validation \in {"pending", "passed", "failed"} :
                [state EXCEPT !.validation = validation] \in State
           /\ \A review \in Verdicts : [state EXCEPT !.review = review] \in State
BY DEF State

LEMMA ClaimType ==
    ASSUME NEW c \in Commands, NEW state \in State PROVE applyClaim(c, state) \in State
<1> DEFINE first == [state EXCEPT !.status = "claimed"]
<1>1. first \in State
  BY StateFields DEF Status
<1>2. [first EXCEPT !.owner = c] \in State
  BY <1>1, StateFields
<1> QED
  BY <1>2 DEF applyClaim

LEMMA ValidateType ==
    ASSUME NEW met \in BOOLEAN, NEW state \in State PROVE applyValidate(met, state) \in State
<1> DEFINE first == [state EXCEPT !.status = "validated"]
<1>1. first \in State
  BY StateFields DEF Status
<1>2. [first EXCEPT !.validation = "passed"] \in State
  BY <1>1, StateFields
<1>3. [state EXCEPT !.validation = "failed"] \in State
  BY StateFields
<1> QED
  BY <1>2, <1>3 DEF applyValidate

LEMMA PublishType == ASSUME NEW state \in State PROVE applyPublish(state) \in State
<1> DEFINE first == [state EXCEPT !.status = "published"]
<1>1. first \in State
  BY StateFields DEF Status
<1>2. [first EXCEPT !.validation = "passed"] \in State
  BY <1>1, StateFields
<1> QED
  BY <1>2 DEF applyPublish

LEMMA ReviewType ==
    ASSUME NEW verdict \in Verdicts, NEW state \in State PROVE applyReview(verdict, state) \in State
<1> DEFINE first == [state EXCEPT !.review = verdict]
           status == CASE verdict = "approved"  -> "ready"
                       [] verdict = "requested" -> "claimed"
                       [] OTHER                 -> "blocked"
<1>1. first \in State
  BY StateFields
<1>2. status \in Status
  BY DEF Status
<1> HIDE DEF status
<1>3. [first EXCEPT !.status = status] \in State
  BY <1>1, <1>2, StateFields
<1> QED
  BY <1>3 DEF applyReview, status

LEMMA UnblockType == ASSUME NEW state \in State PROVE applyUnblock(state) \in State
<1> DEFINE first == [state EXCEPT !.status = "ready"]
           validation == IF state.validation = "failed" THEN "pending" ELSE state.validation
<1>1. first \in State
  BY StateFields DEF Status
<1>2. validation \in {"pending", "passed", "failed"}
  BY DEF State
<1> HIDE DEF validation
<1>3. [first EXCEPT !.validation = validation] \in State
  BY <1>1, <1>2, StateFields
<1> QED
  BY <1>3 DEF applyUnblock, validation

LEMMA DecomposeType ==
    ASSUME NEW i, NEW state \in State PROVE applyDecompose(i, state) \in State
BY StateFields DEF applyDecompose, Status

LEMMA DecidedType ==
    ASSUME TypeOK, NEW c \in Commands, NEW i \in Issues
    PROVE  Decided(c, i) \in State
<1>1. /\ proc[c].snap[i].state \in State /\ proc[c].met \in BOOLEAN
      /\ proc[c].verdict \in Verdicts
  BY DEF TypeOK, Views
<1> QED
  BY <1>1, ClaimType, ValidateType, PublishType, ReviewType, DecomposeType, UnblockType DEF Decided

LEMMA LabelType == ASSUME NEW state \in State PROVE desiredLabels(state) \subseteq Labels
BY DEF State, desiredLabels, Labels, Status, Verdicts

LEMMA RowType == ASSUME NEW state \in State PROVE Row(state) \in Rows
BY DEF Row, Rows, State

\* A row that is edited.
LEMMA ViewType ==
    ASSUME TypeOK, NEW i \in Issues, NEW state \in State, NEW labels \in SUBSET Labels
    PROVE  /\ [issue EXCEPT ![i].state = state] \in [Issues -> Views]
           /\ [issue EXCEPT ![i].labels = labels] \in [Issues -> Views]
           /\ [issue EXCEPT ![i].state = state, ![i].labels = labels] \in [Issues -> Views]
<1>1. [issue EXCEPT ![i].state = state] \in [Issues -> Views]
  BY DEF TypeOK, Views
<1>2. [issue EXCEPT ![i].labels = labels] \in [Issues -> Views]
  BY DEF TypeOK, Views
<1> DEFINE first == [issue EXCEPT ![i].state = state]
<1>3. [first EXCEPT ![i].labels = labels] \in [Issues -> Views]
  BY <1>1 DEF Views
<1> QED
  BY <1>1, <1>2, <1>3

LEMMA RelabelledType ==
    ASSUME TypeOK, NEW i \in Issues, NEW seen, NEW state, NEW added \in SUBSET Labels
    PROVE  Relabelled(i, seen, state, added) \in SUBSET Labels
BY DEF TypeOK, Views, Relabelled

LEMMA BecomeAt ==
    ASSUME TypeOK, NEW c \in Commands, NEW next, Become(c, next)
    PROVE  proc'[c] = next /\ \A d \in Commands : d # c => proc'[d] = proc[d]
BY DEF TypeOK, Become

\* What an update of one field leaves.
LEMMA PcUpdate ==
    ASSUME NEW p \in Procs, NEW x
    PROVE  /\ [p EXCEPT !.pc = x].pc = x
           /\ [p EXCEPT !.pc = x].kind = p.kind /\ [p EXCEPT !.pc = x].verdict = p.verdict
           /\ [p EXCEPT !.pc = x].met = p.met /\ [p EXCEPT !.pc = x].todo = p.todo
           /\ [p EXCEPT !.pc = x].at = p.at /\ [p EXCEPT !.pc = x].snap = p.snap
           /\ [p EXCEPT !.pc = x].copy = p.copy
BY DEF Procs

LEMMA KindUpdate ==
    ASSUME NEW p \in Procs, NEW x
    PROVE  /\ [p EXCEPT !.kind = x].kind = x
           /\ [p EXCEPT !.kind = x].pc = p.pc /\ [p EXCEPT !.kind = x].verdict = p.verdict
           /\ [p EXCEPT !.kind = x].met = p.met /\ [p EXCEPT !.kind = x].todo = p.todo
           /\ [p EXCEPT !.kind = x].at = p.at /\ [p EXCEPT !.kind = x].snap = p.snap
           /\ [p EXCEPT !.kind = x].copy = p.copy
BY DEF Procs

LEMMA VerdictUpdate ==
    ASSUME NEW p \in Procs, NEW x
    PROVE  /\ [p EXCEPT !.verdict = x].verdict = x
           /\ [p EXCEPT !.verdict = x].pc = p.pc /\ [p EXCEPT !.verdict = x].kind = p.kind
           /\ [p EXCEPT !.verdict = x].met = p.met /\ [p EXCEPT !.verdict = x].todo = p.todo
           /\ [p EXCEPT !.verdict = x].at = p.at /\ [p EXCEPT !.verdict = x].snap = p.snap
           /\ [p EXCEPT !.verdict = x].copy = p.copy
BY DEF Procs

LEMMA MetUpdate ==
    ASSUME NEW p \in Procs, NEW x
    PROVE  /\ [p EXCEPT !.met = x].met = x
           /\ [p EXCEPT !.met = x].pc = p.pc /\ [p EXCEPT !.met = x].kind = p.kind
           /\ [p EXCEPT !.met = x].verdict = p.verdict /\ [p EXCEPT !.met = x].todo = p.todo
           /\ [p EXCEPT !.met = x].at = p.at /\ [p EXCEPT !.met = x].snap = p.snap
           /\ [p EXCEPT !.met = x].copy = p.copy
BY DEF Procs

LEMMA TodoUpdate ==
    ASSUME NEW p \in Procs, NEW x
    PROVE  /\ [p EXCEPT !.todo = x].todo = x
           /\ [p EXCEPT !.todo = x].pc = p.pc /\ [p EXCEPT !.todo = x].kind = p.kind
           /\ [p EXCEPT !.todo = x].verdict = p.verdict /\ [p EXCEPT !.todo = x].met = p.met
           /\ [p EXCEPT !.todo = x].at = p.at /\ [p EXCEPT !.todo = x].snap = p.snap
           /\ [p EXCEPT !.todo = x].copy = p.copy
BY DEF Procs

LEMMA AtUpdate ==
    ASSUME NEW p \in Procs, NEW x
    PROVE  /\ [p EXCEPT !.at = x].at = x
           /\ [p EXCEPT !.at = x].pc = p.pc /\ [p EXCEPT !.at = x].kind = p.kind
           /\ [p EXCEPT !.at = x].verdict = p.verdict /\ [p EXCEPT !.at = x].met = p.met
           /\ [p EXCEPT !.at = x].todo = p.todo /\ [p EXCEPT !.at = x].snap = p.snap
           /\ [p EXCEPT !.at = x].copy = p.copy
BY DEF Procs

LEMMA SnapUpdate ==
    ASSUME NEW p \in Procs, NEW x
    PROVE  /\ [p EXCEPT !.snap = x].snap = x
           /\ [p EXCEPT !.snap = x].pc = p.pc /\ [p EXCEPT !.snap = x].kind = p.kind
           /\ [p EXCEPT !.snap = x].verdict = p.verdict /\ [p EXCEPT !.snap = x].met = p.met
           /\ [p EXCEPT !.snap = x].todo = p.todo /\ [p EXCEPT !.snap = x].at = p.at
           /\ [p EXCEPT !.snap = x].copy = p.copy
BY DEF Procs

LEMMA CopyUpdate ==
    ASSUME NEW p \in Procs, NEW x
    PROVE  /\ [p EXCEPT !.copy = x].copy = x
           /\ [p EXCEPT !.copy = x].pc = p.pc /\ [p EXCEPT !.copy = x].kind = p.kind
           /\ [p EXCEPT !.copy = x].verdict = p.verdict /\ [p EXCEPT !.copy = x].met = p.met
           /\ [p EXCEPT !.copy = x].todo = p.todo /\ [p EXCEPT !.copy = x].at = p.at
           /\ [p EXCEPT !.copy = x].snap = p.snap
BY DEF Procs

----------------------------------------------------------------------------
(* What each step makes of the command that takes it.                      *)

LEMMA StartEffect ==
    ASSUME TypeOK, NEW c \in Commands, NEW kind \in Kinds,
           NEW todo \in SUBSET Issues, NEW verdict \in Verdicts, Start(c, kind, todo, verdict)
    PROVE  /\ proc' \in [Commands -> Procs]
           /\ \A d \in Commands : d # c => proc'[d] = proc[d]
           /\ proc'[c].pc = "opened"
           /\ proc'[c].kind = kind
           /\ proc'[c].verdict = verdict
           /\ proc'[c].todo = todo
           /\ proc'[c].copy = disk
<1> DEFINE p0 == Idle
           p1 == [p0 EXCEPT !.pc = "opened"]
           p2 == [p1 EXCEPT !.kind = kind]
           p3 == [p2 EXCEPT !.verdict = verdict]
           p4 == [p3 EXCEPT !.copy = disk]
           p5 == [p4 EXCEPT !.todo = todo]
<1>1. p0 \in Procs
  BY IdleType
<1>2. disk \in [Issues -> Rows]
  BY DEF TypeOK
<1>3. Become(c, p5)
  BY DEF Start
<1>4. p1 \in Procs
  BY <1>1, <1>2, FieldTypes DEF Pcs
<1>5. p2 \in Procs
  BY <1>4, <1>2, FieldTypes DEF Pcs
<1>6. p3 \in Procs
  BY <1>5, <1>2, FieldTypes DEF Pcs
<1>7. p4 \in Procs
  BY <1>6, <1>2, FieldTypes DEF Pcs
<1>8. p5 \in Procs
  BY <1>7, <1>2, FieldTypes DEF Pcs
<1>9. /\ p5.pc = "opened"
      /\ p5.kind = kind
      /\ p5.verdict = verdict
      /\ p5.met = p0.met
      /\ p5.todo = todo
      /\ p5.at = p0.at
      /\ p5.snap = p0.snap
      /\ p5.copy = disk
  BY <1>1, <1>4, <1>5, <1>6, <1>7, <1>8, PcUpdate, KindUpdate, VerdictUpdate, CopyUpdate, TodoUpdate
<1> HIDE DEF p5
<1>10. proc' \in [Commands -> Procs]
  BY <1>3, <1>8, BecomeType
<1>11. proc'[c] = p5 /\ \A d \in Commands : d # c => proc'[d] = proc[d]
  BY <1>3, BecomeAt
<1> QED
  BY <1>9, <1>10, <1>11

LEMMA ReadEffect ==
    ASSUME TypeOK, NEW c \in Commands, Read(c)
    PROVE  /\ proc' \in [Commands -> Procs]
           /\ \A d \in Commands : d # c => proc'[d] = proc[d]
           /\ proc'[c].pc = (IF proc[c].kind \in {"validate", "publish"} THEN "check" ELSE "decide")
           /\ proc'[c].kind = proc[c].kind
           /\ proc'[c].verdict = proc[c].verdict
           /\ proc'[c].met = proc[c].met
           /\ proc'[c].todo = proc[c].todo
           /\ proc'[c].at = proc[c].at
           /\ proc'[c].snap = ([i \in Issues |-> IF i \in proc[c].todo THEN issue[i] ELSE Unmarked])
           /\ proc'[c].copy = proc[c].copy
<1> DEFINE pc == IF proc[c].kind \in {"validate", "publish"} THEN "check" ELSE "decide"
           snap == [i \in Issues |-> IF i \in proc[c].todo THEN issue[i] ELSE Unmarked]
<1> DEFINE p0 == proc[c]
           p1 == [p0 EXCEPT !.pc = pc]
           p2 == [p1 EXCEPT !.snap = snap]
<1>1. p0 \in Procs
  BY DEF TypeOK, Procs, Pcs
<1>2. pc \in Pcs /\ snap \in [Issues -> Views]
  BY UnmarkedType DEF TypeOK, Pcs
<1>3. Become(c, p2)
  BY DEF Read
<1> HIDE DEF pc, snap
<1>4. p1 \in Procs
  BY <1>1, <1>2, FieldTypes DEF Pcs
<1>5. p2 \in Procs
  BY <1>4, <1>2, FieldTypes DEF Pcs
<1>6. /\ p2.pc = pc
      /\ p2.kind = p0.kind
      /\ p2.verdict = p0.verdict
      /\ p2.met = p0.met
      /\ p2.todo = p0.todo
      /\ p2.at = p0.at
      /\ p2.snap = snap
      /\ p2.copy = p0.copy
  BY <1>1, <1>4, <1>5, PcUpdate, SnapUpdate
<1> HIDE DEF p2
<1>7. proc' \in [Commands -> Procs]
  BY <1>3, <1>5, BecomeType
<1>8. proc'[c] = p2 /\ \A d \in Commands : d # c => proc'[d] = proc[d]
  BY <1>3, BecomeAt
<1> QED
  BY <1>6, <1>7, <1>8 DEF pc, snap

LEMMA CheckEffect ==
    ASSUME TypeOK, NEW c \in Commands, CheckDependencies(c)
    PROVE  /\ proc' \in [Commands -> Procs]
           /\ \A d \in Commands : d # c => proc'[d] = proc[d]
           /\ proc'[c].pc = "decide"
           /\ proc'[c].kind = proc[c].kind
           /\ proc'[c].verdict = proc[c].verdict
           /\ proc'[c].met = (\A i \in proc[c].todo : DependenciesMet(i, issue))
           /\ proc'[c].todo = proc[c].todo
           /\ proc'[c].at = proc[c].at
           /\ proc'[c].snap = proc[c].snap
           /\ proc'[c].copy = proc[c].copy
<1> DEFINE met == \A i \in proc[c].todo : DependenciesMet(i, issue)
<1> DEFINE p0 == proc[c]
           p1 == [p0 EXCEPT !.pc = "decide"]
           p2 == [p1 EXCEPT !.met = met]
<1>1. p0 \in Procs
  BY DEF TypeOK, Procs, Pcs
<1>2. met \in BOOLEAN
  OBVIOUS
<1>3. Become(c, p2)
  BY DEF CheckDependencies
<1> HIDE DEF met
<1>4. p1 \in Procs
  BY <1>1, <1>2, FieldTypes DEF Pcs
<1>5. p2 \in Procs
  BY <1>4, <1>2, FieldTypes DEF Pcs
<1>6. /\ p2.pc = "decide"
      /\ p2.kind = p0.kind
      /\ p2.verdict = p0.verdict
      /\ p2.met = met
      /\ p2.todo = p0.todo
      /\ p2.at = p0.at
      /\ p2.snap = p0.snap
      /\ p2.copy = p0.copy
  BY <1>1, <1>4, <1>5, PcUpdate, MetUpdate
<1> HIDE DEF p2
<1>7. proc' \in [Commands -> Procs]
  BY <1>3, <1>5, BecomeType
<1>8. proc'[c] = p2 /\ \A d \in Commands : d # c => proc'[d] = proc[d]
  BY <1>3, BecomeAt
<1> QED
  BY <1>6, <1>7, <1>8 DEF met

LEMMA EditEffect ==
    ASSUME TypeOK, NEW c \in Commands, NEW i \in Issues, Edit(c, i)
    PROVE  /\ proc' \in [Commands -> Procs]
           /\ \A d \in Commands : d # c => proc'[d] = proc[d]
           /\ proc'[c].pc = "edited"
           /\ proc'[c].kind = proc[c].kind
           /\ proc'[c].verdict = proc[c].verdict
           /\ proc'[c].met = proc[c].met
           /\ proc'[c].todo = proc[c].todo
           /\ proc'[c].at = i
           /\ proc'[c].snap = proc[c].snap
           /\ proc'[c].copy = proc[c].copy
<1> DEFINE p0 == proc[c]
           p1 == [p0 EXCEPT !.pc = "edited"]
           p2 == [p1 EXCEPT !.at = i]
<1>1. p0 \in Procs
  BY DEF TypeOK, Procs, Pcs
<1>2. i \in Issues
  OBVIOUS
<1>3. Become(c, p2)
  BY DEF Edit
<1>4. p1 \in Procs
  BY <1>1, <1>2, FieldTypes DEF Pcs
<1>5. p2 \in Procs
  BY <1>4, <1>2, FieldTypes DEF Pcs
<1>6. /\ p2.pc = "edited"
      /\ p2.kind = p0.kind
      /\ p2.verdict = p0.verdict
      /\ p2.met = p0.met
      /\ p2.todo = p0.todo
      /\ p2.at = i
      /\ p2.snap = p0.snap
      /\ p2.copy = p0.copy
  BY <1>1, <1>4, <1>5, PcUpdate, AtUpdate
<1> HIDE DEF p2
<1>7. proc' \in [Commands -> Procs]
  BY <1>3, <1>5, BecomeType
<1>8. proc'[c] = p2 /\ \A d \in Commands : d # c => proc'[d] = proc[d]
  BY <1>3, BecomeAt
<1> QED
  BY <1>6, <1>7, <1>8

LEMMA SyncLabelsEffect ==
    ASSUME TypeOK, NEW c \in Commands, NEW i \in Issues, SyncLabels(c, i)
    PROVE  /\ proc' \in [Commands -> Procs]
           /\ \A d \in Commands : d # c => proc'[d] = proc[d]
           /\ proc'[c].pc = "labelled"
           /\ proc'[c].kind = proc[c].kind
           /\ proc'[c].verdict = proc[c].verdict
           /\ proc'[c].met = proc[c].met
           /\ proc'[c].todo = proc[c].todo
           /\ proc'[c].at = i
           /\ proc'[c].snap = proc[c].snap
           /\ proc'[c].copy = proc[c].copy
<1> DEFINE p0 == proc[c]
           p1 == [p0 EXCEPT !.pc = "labelled"]
           p2 == [p1 EXCEPT !.at = i]
<1>1. p0 \in Procs
  BY DEF TypeOK, Procs, Pcs
<1>2. i \in Issues
  OBVIOUS
<1>3. Become(c, p2)
  BY DEF SyncLabels
<1>4. p1 \in Procs
  BY <1>1, <1>2, FieldTypes DEF Pcs
<1>5. p2 \in Procs
  BY <1>4, <1>2, FieldTypes DEF Pcs
<1>6. /\ p2.pc = "labelled"
      /\ p2.kind = p0.kind
      /\ p2.verdict = p0.verdict
      /\ p2.met = p0.met
      /\ p2.todo = p0.todo
      /\ p2.at = i
      /\ p2.snap = p0.snap
      /\ p2.copy = p0.copy
  BY <1>1, <1>4, <1>5, PcUpdate, AtUpdate
<1> HIDE DEF p2
<1>7. proc' \in [Commands -> Procs]
  BY <1>3, <1>5, BecomeType
<1>8. proc'[c] = p2 /\ \A d \in Commands : d # c => proc'[d] = proc[d]
  BY <1>3, BecomeAt
<1> QED
  BY <1>6, <1>7, <1>8

LEMMA RecordEffect ==
    ASSUME TypeOK, NEW c \in Commands, Record(c)
    PROVE  /\ proc' \in [Commands -> Procs]
           /\ \A d \in Commands : d # c => proc'[d] = proc[d]
           /\ proc'[c].pc = "decide"
           /\ proc'[c].kind = proc[c].kind
           /\ proc'[c].verdict = proc[c].verdict
           /\ proc'[c].met = proc[c].met
           /\ proc'[c].todo = (proc[c].todo \ {proc[c].at})
           /\ proc'[c].at = proc[c].at
           /\ proc'[c].snap = proc[c].snap
           /\ proc'[c].copy = ([proc[c].copy EXCEPT ![proc[c].at] = Row(Decided(c, proc[c].at))])
<1> DEFINE copy == [proc[c].copy EXCEPT ![proc[c].at] = Row(Decided(c, proc[c].at))]
           todo == proc[c].todo \ {proc[c].at}
<1> DEFINE p0 == proc[c]
           p1 == [p0 EXCEPT !.copy = copy]
           p2 == [p1 EXCEPT !.pc = "decide"]
           p3 == [p2 EXCEPT !.todo = todo]
<1>1. p0 \in Procs
  BY DEF TypeOK, Procs, Pcs
<1>2. copy \in [Issues -> Rows] /\ todo \in SUBSET Issues
  BY DecidedType, RowType DEF TypeOK
<1>3. Become(c, p3)
  BY DEF Record
<1> HIDE DEF copy, todo
<1>4. p1 \in Procs
  BY <1>1, <1>2, FieldTypes DEF Pcs
<1>5. p2 \in Procs
  BY <1>4, <1>2, FieldTypes DEF Pcs
<1>6. p3 \in Procs
  BY <1>5, <1>2, FieldTypes DEF Pcs
<1>7. /\ p3.pc = "decide"
      /\ p3.kind = p0.kind
      /\ p3.verdict = p0.verdict
      /\ p3.met = p0.met
      /\ p3.todo = todo
      /\ p3.at = p0.at
      /\ p3.snap = p0.snap
      /\ p3.copy = copy
  BY <1>1, <1>4, <1>5, <1>6, CopyUpdate, PcUpdate, TodoUpdate
<1> HIDE DEF p3
<1>8. proc' \in [Commands -> Procs]
  BY <1>3, <1>6, BecomeType
<1>9. proc'[c] = p3 /\ \A d \in Commands : d # c => proc'[d] = proc[d]
  BY <1>3, BecomeAt
<1> QED
  BY <1>7, <1>8, <1>9 DEF copy, todo

\* Types are preserved by every step.
LEMMA TypeStep == TypeOK /\ [Next]_vars => TypeOK'
<1> SUFFICES ASSUME TypeOK, [Next]_vars PROVE TypeOK'
  OBVIOUS
<1>1. ASSUME NEW c \in Commands, NEW kind \in Kinds, NEW todo \in SUBSET Issues, NEW verdict \in Verdicts, Start(c, kind, todo, verdict) PROVE TypeOK'
  BY <1>1, StartEffect DEF Start, TypeOK, Procs, Pcs
<1>2. ASSUME NEW c \in Commands, Read(c) PROVE TypeOK'
  BY <1>2, ReadEffect DEF Read, TypeOK, Procs, Pcs
<1>3. ASSUME NEW c \in Commands, CheckDependencies(c) PROVE TypeOK'
  BY <1>3, CheckEffect DEF CheckDependencies, TypeOK, Procs, Pcs
<1>4. ASSUME NEW c \in Commands, NEW i \in Issues, Edit(c, i) PROVE TypeOK'
  <2> DEFINE state == Decided(c, i)
  <2>1. state \in State /\ desiredLabels(state) \in SUBSET Labels
    BY DecidedType, LabelType
  <2> HIDE DEF state
  <2>2. issue' \in [Issues -> Views]
    BY <1>4, <2>1, RelabelledType, ViewType DEF Edit, state
  <2> QED
    BY <1>4, <2>2, EditEffect DEF Edit, TypeOK, Procs, Pcs
<1>5. ASSUME NEW c \in Commands, NEW i \in Issues, SyncLabels(c, i) PROVE TypeOK'
  <2> DEFINE state == Decided(c, i)
  <2>1. state \in State /\ desiredLabels(state) \in SUBSET Labels
    BY DecidedType, LabelType
  <2> HIDE DEF state
  <2>2. issue' \in [Issues -> Views]
    BY <1>5, <2>1, RelabelledType, ViewType DEF SyncLabels, state
  <2> QED
    BY <1>5, <2>2, SyncLabelsEffect DEF SyncLabels, TypeOK, Procs, Pcs
<1>6. ASSUME NEW c \in Commands, SyncBody(c) PROVE TypeOK'
  <2>1. proc[c] \in Procs /\ proc[c].at \in Issues
    BY DEF TypeOK, Procs, Pcs
  <2>2. proc' \in [Commands -> Procs]
    BY <1>6, <2>1, FieldTypes, BecomeType DEF SyncBody, Pcs
  <2>3. Decided(c, proc[c].at) \in State
    BY <2>1, DecidedType
  <2>4. issue' \in [Issues -> Views]
    BY <1>6, <2>1, <2>3, ViewType DEF SyncBody
  <2> QED
    BY <1>6, <2>2, <2>4 DEF SyncBody, TypeOK, Procs, Pcs
<1>7. ASSUME NEW c \in Commands, Record(c) PROVE TypeOK'
  <2>1. disk' = proc'[c].copy
    BY <1>7, RecordEffect DEF Record
  <2>2. proc' \in [Commands -> Procs]
    BY <1>7, RecordEffect
  <2>3. disk' \in [Issues -> Rows]
    BY <2>1, <2>2 DEF Procs
  <2> QED
    BY <1>7, <2>2, <2>3 DEF Record, TypeOK, Procs, Pcs
<1>8. ASSUME NEW c \in Commands, Close(c) PROVE TypeOK'
  <2>1. [Idle EXCEPT !.pc = "closed"] \in Procs
    BY IdleType, FieldTypes DEF Pcs
  <2>2. proc' \in [Commands -> Procs]
    BY <1>8, <2>1, BecomeType DEF Close
  <2> QED
    BY <1>8, <2>2 DEF Close, TypeOK, Procs, Pcs
<1>9. ASSUME NEW c \in Commands, Fail(c) PROVE TypeOK'
  <2>1. [Idle EXCEPT !.pc = "failed"] \in Procs
    BY IdleType, FieldTypes DEF Pcs
  <2>2. proc' \in [Commands -> Procs]
    BY <1>9, <2>1, BecomeType DEF Fail
  <2> QED
    BY <1>9, <2>2 DEF Fail, TypeOK, Procs, Pcs
<1>10. ASSUME NEW i \in Closable, Toggle(i) PROVE TypeOK'
  <2> DEFINE open == ~issue[i].open
  <2>0. i \in Issues /\ open \in BOOLEAN
    BY ConstantsAssumption
  <2> HIDE DEF open
  <2>2. issue' = [issue EXCEPT ![i].open = open] /\ issue \in [Issues -> Views]
    BY <1>10 DEF Toggle, TypeOK, open
  <2>1. issue' \in [Issues -> Views]
    BY <2>0, <2>2 DEF Views
  <2> QED
    BY <1>10, <2>1 DEF Toggle, TypeOK
<1>11. CASE UNCHANGED vars
  BY <1>11 DEF vars, TypeOK
<1> QED
  BY <1>1, <1>2, <1>3, <1>4, <1>5, <1>6, <1>7, <1>8, <1>9, <1>10, <1>11 DEF Next, Step

----------------------------------------------------------------------------
(* A claim is lost only to a stale reading.                                *)

\* Only a sync edits the labels on their own.
LabelledIsSync == \A c \in Commands : proc[c].pc = "labelled" => proc[c].kind = "sync"

\* What a sync, or any command but a claim, makes of the owner.
LEMMA OwnerKept ==
    ASSUME TypeOK, NEW c \in Commands, NEW i \in Issues, proc[c].kind # "claim"
    PROVE  Decided(c, i).owner = proc[c].snap[i].state.owner
<1>1. proc[c].snap[i].state \in State
  BY DEF TypeOK, Views
<1> QED
  BY <1>1 DEF Decided, applyValidate, applyPublish, applyReview, applyDecompose, applyUnblock, State

\* Preserved by every step.
LEMMA LabelledStep == TypeOK /\ LabelledIsSync /\ [Next]_vars => LabelledIsSync'
<1> SUFFICES ASSUME TypeOK, LabelledIsSync, [Next]_vars PROVE LabelledIsSync'
  OBVIOUS
<1>1. ASSUME NEW c \in Commands, NEW kind \in Kinds, NEW todo \in SUBSET Issues, NEW verdict \in Verdicts, Start(c, kind, todo, verdict) PROVE LabelledIsSync'
  <2>1. proc'[c].pc = "opened" /\ \A d \in Commands : d # c => proc'[d] = proc[d]
    BY <1>1, StartEffect
  <2> QED
    BY <2>1 DEF LabelledIsSync
<1>2. ASSUME NEW c \in Commands, Read(c) PROVE LabelledIsSync'
  <2>1. proc'[c].pc \in {"check", "decide"} /\ \A d \in Commands : d # c => proc'[d] = proc[d]
    BY <1>2, ReadEffect
  <2> QED
    BY <2>1 DEF LabelledIsSync
<1>3. ASSUME NEW c \in Commands, CheckDependencies(c) PROVE LabelledIsSync'
  <2>1. proc'[c].pc = "decide" /\ \A d \in Commands : d # c => proc'[d] = proc[d]
    BY <1>3, CheckEffect
  <2> QED
    BY <2>1 DEF LabelledIsSync
<1>4. ASSUME NEW c \in Commands, NEW i \in Issues, Edit(c, i) PROVE LabelledIsSync'
  <2>1. proc'[c].pc = "edited" /\ \A d \in Commands : d # c => proc'[d] = proc[d]
    BY <1>4, EditEffect
  <2> QED
    BY <2>1 DEF LabelledIsSync
<1>5. ASSUME NEW c \in Commands, NEW i \in Issues, SyncLabels(c, i) PROVE LabelledIsSync'
  <2>1. proc'[c].kind = "sync" /\ \A d \in Commands : d # c => proc'[d] = proc[d]
    BY <1>5, SyncLabelsEffect DEF SyncLabels, Deciding
  <2> QED
    BY <2>1 DEF LabelledIsSync
<1>6. ASSUME NEW c \in Commands, SyncBody(c) PROVE LabelledIsSync'
  <2>1. proc'[c].pc = "edited" /\ \A d \in Commands : d # c => proc'[d] = proc[d]
    BY <1>6, BecomeAt DEF SyncBody, TypeOK, Idle
  <2> QED
    BY <2>1 DEF LabelledIsSync
<1>7. ASSUME NEW c \in Commands, Record(c) PROVE LabelledIsSync'
  <2>1. proc'[c].pc = "decide" /\ \A d \in Commands : d # c => proc'[d] = proc[d]
    BY <1>7, RecordEffect
  <2> QED
    BY <2>1 DEF LabelledIsSync
<1>8. ASSUME NEW c \in Commands, Close(c) PROVE LabelledIsSync'
  <2>1. proc'[c].pc = "closed" /\ \A d \in Commands : d # c => proc'[d] = proc[d]
    BY <1>8, BecomeAt DEF Close, TypeOK, Idle
  <2> QED
    BY <2>1 DEF LabelledIsSync
<1>9. ASSUME NEW c \in Commands, Fail(c) PROVE LabelledIsSync'
  <2>1. proc'[c].pc = "failed" /\ \A d \in Commands : d # c => proc'[d] = proc[d]
    BY <1>9, BecomeAt DEF Fail, TypeOK, Idle
  <2> QED
    BY <2>1 DEF LabelledIsSync
<1>10. ASSUME NEW i \in Closable, Toggle(i) PROVE LabelledIsSync'
  BY <1>10 DEF Toggle, LabelledIsSync
<1>11. CASE UNCHANGED vars
  BY <1>11 DEF vars, LabelledIsSync
<1> QED
  BY <1>1, <1>2, <1>3, <1>4, <1>5, <1>6, <1>7, <1>8, <1>9, <1>10, <1>11 DEF Next, Step

KeptInThisStep ==
    \A i \in Issues :
        issue[i].state.status = "claimed" /\ issue'[i].state.owner # issue[i].state.owner =>
            \E c \in Commands : /\ proc[c].pc \in {"decide", "labelled"}
                                /\ proc'[c].pc = "edited" /\ proc'[c].at = i
                                /\ proc[c].snap[i].state # issue[i].state

\* An owner that changes was overwritten by somebody who had read another state.
LEMMA ClaimStep == TypeOK /\ LabelledIsSync /\ [Next]_vars => KeptInThisStep
<1> SUFFICES ASSUME TypeOK, LabelledIsSync, [Next]_vars PROVE KeptInThisStep
  OBVIOUS
<1>1. ASSUME NEW c \in Commands, NEW kind \in Kinds, NEW todo \in SUBSET Issues, NEW verdict \in Verdicts, Start(c, kind, todo, verdict) PROVE KeptInThisStep
  BY <1>1 DEF Start, KeptInThisStep
<1>2. ASSUME NEW c \in Commands, Read(c) PROVE KeptInThisStep
  BY <1>2 DEF Read, KeptInThisStep
<1>3. ASSUME NEW c \in Commands, CheckDependencies(c) PROVE KeptInThisStep
  BY <1>3 DEF CheckDependencies, KeptInThisStep
<1>4. ASSUME NEW c \in Commands, NEW i \in Issues, Edit(c, i) PROVE KeptInThisStep
  <2> DEFINE state == Decided(c, i)
             labels == Relabelled(i, proc[c].snap[i], state, desiredLabels(state))
  <2>1. /\ proc'[c].pc = "edited" /\ proc'[c].at = i /\ proc[c].pc = "decide"
    BY <1>4, EditEffect DEF Edit, Deciding
  <2>2. issue' = [issue EXCEPT ![i].state = state, ![i].labels = labels]
    BY <1>4 DEF Edit
  <2>3. proc[c].kind = "claim" => proc[c].snap[i].state.status # "claimed"
    BY <1>4 DEF Edit, Deciding, Refused, Claimable
  <2>4. proc[c].kind # "claim" => state.owner = proc[c].snap[i].state.owner
    BY OwnerKept
  <2> HIDE DEF state, labels
  <2>5. \A j \in Issues : j # i => issue'[j] = issue[j]
    BY <2>2 DEF TypeOK
  <2>6. issue'[i].state = state
    BY <2>2 DEF TypeOK, Views
  <2> QED
    BY <2>1, <2>3, <2>4, <2>5, <2>6 DEF KeptInThisStep
<1>5. ASSUME NEW c \in Commands, NEW i \in Issues, SyncLabels(c, i) PROVE KeptInThisStep
  <2>1. \A j \in Issues : issue'[j].state = issue[j].state
    BY <1>5 DEF SyncLabels, TypeOK, Views
  <2> QED
    BY <2>1 DEF KeptInThisStep
<1>6. ASSUME NEW c \in Commands, SyncBody(c) PROVE KeptInThisStep
  <2> DEFINE i == proc[c].at
             state == Decided(c, i)
  <2>1. /\ proc'[c].pc = "edited" /\ proc'[c].at = i /\ proc[c].pc = "labelled"
    BY <1>6, BecomeAt DEF SyncBody, TypeOK
  <2>2. issue' = [issue EXCEPT ![i].state = state] /\ i \in Issues
    BY <1>6 DEF SyncBody, TypeOK
  <2>3. state.owner = proc[c].snap[i].state.owner
    BY <1>6, <2>2, OwnerKept DEF SyncBody, LabelledIsSync
  <2> HIDE DEF state
  <2>4. \A j \in Issues : j # i => issue'[j] = issue[j]
    BY <2>2 DEF TypeOK
  <2>5. issue'[i].state = state
    BY <2>2 DEF TypeOK, Views
  <2> QED
    BY <2>1, <2>2, <2>3, <2>4, <2>5 DEF KeptInThisStep
<1>7. ASSUME NEW c \in Commands, Record(c) PROVE KeptInThisStep
  BY <1>7 DEF Record, KeptInThisStep
<1>8. ASSUME NEW c \in Commands, Close(c) PROVE KeptInThisStep
  BY <1>8 DEF Close, KeptInThisStep
<1>9. ASSUME NEW c \in Commands, Fail(c) PROVE KeptInThisStep
  BY <1>9 DEF Fail, KeptInThisStep
<1>10. ASSUME NEW i \in Closable, Toggle(i) PROVE KeptInThisStep
  <2>1. \A j \in Issues : issue'[j].state = issue[j].state
    BY <1>10, ConstantsAssumption DEF Toggle, TypeOK, Views
  <2> QED
    BY <2>1 DEF KeptInThisStep
<1>11. CASE UNCHANGED vars
  BY <1>11 DEF vars, KeptInThisStep
<1> QED
  BY <1>1, <1>2, <1>3, <1>4, <1>5, <1>6, <1>7, <1>8, <1>9, <1>10, <1>11 DEF Next, Step

----------------------------------------------------------------------------
(* A command that nothing overlaps.                                        *)

\* It has read what is there.
Fresh(c, i) == /\ proc[c].snap[i].state = issue[i].state
               /\ proc[c].snap[i].labels = issue[i].labels

InHand(c, i) == proc[c].pc \in {"labelled", "edited"} /\ proc[c].at = i

\* What the epic in hand looks like.
HandIsRight(c) ==
    LET i == proc[c].at
        state == Decided(c, i)
    IN /\ proc[c].pc \in {"labelled", "edited"} => issue[i].labels = desiredLabels(state)
       /\ proc[c].pc = "edited" => issue[i].state = state

\* It is one of those still to do.
HandInTodo(c) == proc[c].pc \in {"labelled", "edited"} => proc[c].at \in proc[c].todo

\* What it has done with: all but `todo` for a sync, the one epic otherwise.
DoneIsRight(c) ==
    /\ proc[c].kind = "sync" => \A i \in Issues \ proc[c].todo : Agree(i)
    /\ proc[c].kind \notin ListKinds /\ proc[c].todo = {} => Agree(proc[c].at)

Alone(c) ==
    /\ Active(c) /\ \A d \in Commands : d # c => ~Active(d)
    /\ proc[c].copy = disk
    /\ proc[c].pc # "opened" => \A i \in proc[c].todo : InHand(c, i) \/ Fresh(c, i)
    /\ HandIsRight(c) /\ HandInTodo(c) /\ DoneIsRight(c)

AloneInv == \A c \in alone : Alone(c)

\* The labels of an epic that was read afresh become the ones its state asks for.
LEMMA FreshLabels ==
    ASSUME NEW i, NEW seen, NEW state, NEW added,
           seen.labels = issue[i].labels,
           added \in {desiredLabels(state), desiredLabels(state) \ seen.labels}
    PROVE  Relabelled(i, seen, state, added) = desiredLabels(state)
BY DEF Relabelled

\* Whoever acts is the one that is alone, if anybody is.
LEMMA OnlyActor ==
    ASSUME AloneInv, TypeOK, NEW c \in Commands, Active(c)
    PROVE  \A d \in alone : d = c
BY DEF AloneInv, Alone, TypeOK

\* Preserved by every step.
LEMMA AloneStep == TypeOK /\ LabelledIsSync /\ AloneInv /\ [Next]_vars => AloneInv'
<1> SUFFICES ASSUME TypeOK, LabelledIsSync, AloneInv, [Next]_vars PROVE AloneInv'
  OBVIOUS
<1>1. ASSUME NEW c \in Commands, NEW kind \in Kinds, NEW todo \in SUBSET Issues, NEW verdict \in Verdicts, Start(c, kind, todo, verdict) PROVE AloneInv'
  <2>1. CASE \E d \in Commands : Active(d)
    BY <1>1, <2>1 DEF Start, AloneInv
  <2>2. CASE \A d \in Commands : ~Active(d)
    <3>1. alone' = {c} /\ disk' = disk /\ issue' = issue
      BY <1>1, <2>2 DEF Start
    <3>2. \A d \in Commands : d # c => proc'[d] = proc[d]
      BY <1>1, StartEffect
    <3>3. /\ proc'[c].pc = "opened" /\ proc'[c].copy = disk
          /\ proc'[c].kind = kind /\ proc'[c].todo = todo
      BY <1>1, StartEffect
    <3>4. todo # {} /\ (kind = "sync" => todo = Issues)
      BY <1>1, ConstantsAssumption DEF Start, Targets, ListKinds
    <3>5. Active(c)' /\ \A d \in Commands : d # c => ~Active(d)'
      BY <2>2, <3>2, <3>3 DEF Active
    <3>6. HandIsRight(c)' /\ HandInTodo(c)' /\ DoneIsRight(c)'
      BY <3>3, <3>4 DEF HandIsRight, HandInTodo, DoneIsRight
    <3> QED
      BY <3>1, <3>3, <3>5, <3>6 DEF AloneInv, Alone
  <2> QED
    BY <2>1, <2>2
<1>2. ASSUME NEW c \in Commands, Read(c) PROVE AloneInv'
  <2> SUFFICES ASSUME c \in alone PROVE Alone(c)'
    <3>1. Active(c)
      BY <1>2 DEF Read, Active
    <3>2. alone' = alone
      BY <1>2 DEF Read
    <3> QED
      BY <3>1, <3>2, OnlyActor DEF AloneInv
  <2>1. Alone(c)
    BY DEF AloneInv
  <2>2. \A d \in Commands : d # c => proc'[d] = proc[d]
    BY <1>2, ReadEffect
  <2>3. /\ proc'[c].pc \in {"check", "decide"}
        /\ proc'[c].kind = proc[c].kind /\ proc'[c].todo = proc[c].todo
        /\ proc'[c].at = proc[c].at /\ proc'[c].copy = proc[c].copy
        /\ proc'[c].snap = [i \in Issues |-> IF i \in proc[c].todo THEN issue[i] ELSE Unmarked]
    BY <1>2, ReadEffect
  <2>4. Active(c)' /\ \A d \in Commands : d # c => ~Active(d)'
    BY <2>1, <2>2, <2>3 DEF Active, Alone
  <2>5. issue' = issue /\ disk' = disk
    BY <1>2 DEF Read
  <2>6. \A i \in proc'[c].todo : Fresh(c, i)'
    BY <2>3, <2>5 DEF Fresh, TypeOK
  <2>7. HandIsRight(c)' /\ HandInTodo(c)' /\ DoneIsRight(c)'
    BY <2>1, <2>3, <2>5 DEF HandIsRight, HandInTodo, DoneIsRight, Alone, Agree
  <2> QED
    BY <2>1, <2>3, <2>4, <2>5, <2>6, <2>7 DEF Alone
<1>3. ASSUME NEW c \in Commands, CheckDependencies(c) PROVE AloneInv'
  <2> SUFFICES ASSUME c \in alone PROVE Alone(c)'
    <3>1. Active(c)
      BY <1>3 DEF CheckDependencies, Active
    <3>2. alone' = alone
      BY <1>3 DEF CheckDependencies
    <3> QED
      BY <3>1, <3>2, OnlyActor DEF AloneInv
  <2>1. Alone(c)
    BY DEF AloneInv
  <2>2. \A d \in Commands : d # c => proc'[d] = proc[d]
    BY <1>3, CheckEffect
  <2>3. /\ proc'[c].pc = "decide"
        /\ proc'[c].kind = proc[c].kind /\ proc'[c].todo = proc[c].todo
        /\ proc'[c].at = proc[c].at /\ proc'[c].copy = proc[c].copy
        /\ proc'[c].snap = proc[c].snap
    BY <1>3, CheckEffect
  <2>4. Active(c)' /\ \A d \in Commands : d # c => ~Active(d)'
    BY <2>1, <2>2, <2>3 DEF Active, Alone
  <2>5. issue' = issue /\ disk' = disk /\ proc[c].pc = "check"
    BY <1>3 DEF CheckDependencies
  <2>6. \A i \in proc'[c].todo : Fresh(c, i)'
    BY <2>1, <2>3, <2>5 DEF Fresh, Alone, InHand
  <2>7. HandIsRight(c)' /\ HandInTodo(c)' /\ DoneIsRight(c)'
    BY <2>1, <2>3, <2>5 DEF HandIsRight, HandInTodo, DoneIsRight, Alone, Agree
  <2> QED
    BY <2>1, <2>3, <2>4, <2>5, <2>6, <2>7 DEF Alone
<1>4. ASSUME NEW c \in Commands, NEW i \in Issues, Edit(c, i) PROVE AloneInv'
  <2> SUFFICES ASSUME c \in alone PROVE Alone(c)'
    <3>1. Active(c)
      BY <1>4 DEF Edit, Active, Deciding
    <3>2. alone' = alone
      BY <1>4 DEF Edit
    <3> QED
      BY <3>1, <3>2, OnlyActor DEF AloneInv
  <2>1. Alone(c)
    BY DEF AloneInv
  <2>2. \A d \in Commands : d # c => proc'[d] = proc[d]
    BY <1>4, EditEffect
  <2>3. /\ proc'[c].pc = "edited" /\ proc'[c].at = i
        /\ proc'[c].kind = proc[c].kind /\ proc'[c].todo = proc[c].todo
        /\ proc'[c].copy = proc[c].copy /\ proc'[c].snap = proc[c].snap
        /\ proc'[c].met = proc[c].met /\ proc'[c].verdict = proc[c].verdict
    BY <1>4, EditEffect
  <2>4. Active(c)' /\ \A d \in Commands : d # c => ~Active(d)'
    BY <2>1, <2>2, <2>3 DEF Active, Alone
  <2> DEFINE state == Decided(c, i)
  <2>5. disk' = disk /\ i \in proc[c].todo /\ proc[c].pc = "decide" /\ proc[c].kind # "sync"
    BY <1>4 DEF Edit, Deciding
  <2>6. Fresh(c, i)
    BY <2>1, <2>5 DEF Alone, InHand
  <2>7. Relabelled(i, proc[c].snap[i], state, desiredLabels(state)) = desiredLabels(state)
    BY <2>6, FreshLabels DEF Fresh
  <2>8. issue' = [issue EXCEPT ![i].state = state, ![i].labels = desiredLabels(state)]
    BY <1>4, <2>7 DEF Edit
  <2>9. Decided(c, i)' = state
    BY <2>3 DEF Decided
  <2> HIDE DEF state
  <2>10. \A j \in Issues : j # i => issue'[j] = issue[j]
    BY <2>8 DEF TypeOK
  <2>11. issue'[i].state = state /\ issue'[i].labels = desiredLabels(state)
    BY <2>8 DEF TypeOK, Views
  <2>12. \A j \in proc'[c].todo : InHand(c, j)' \/ Fresh(c, j)'
    BY <2>1, <2>3, <2>5, <2>10 DEF Alone, InHand, Fresh, TypeOK
  <2>13. HandIsRight(c)' /\ HandInTodo(c)'
    BY <2>3, <2>5, <2>9, <2>11 DEF HandIsRight, HandInTodo
  <2>14. DoneIsRight(c)'
    BY <2>3, <2>5 DEF DoneIsRight
  <2> QED
    BY <2>1, <2>3, <2>4, <2>5, <2>12, <2>13, <2>14 DEF Alone
<1>5. ASSUME NEW c \in Commands, NEW i \in Issues, SyncLabels(c, i) PROVE AloneInv'
  <2> SUFFICES ASSUME c \in alone PROVE Alone(c)'
    <3>1. Active(c)
      BY <1>5 DEF SyncLabels, Active, Deciding
    <3>2. alone' = alone
      BY <1>5 DEF SyncLabels
    <3> QED
      BY <3>1, <3>2, OnlyActor DEF AloneInv
  <2>1. Alone(c)
    BY DEF AloneInv
  <2>2. \A d \in Commands : d # c => proc'[d] = proc[d]
    BY <1>5, SyncLabelsEffect
  <2>3. /\ proc'[c].pc = "labelled" /\ proc'[c].at = i
        /\ proc'[c].kind = proc[c].kind /\ proc'[c].todo = proc[c].todo
        /\ proc'[c].copy = proc[c].copy /\ proc'[c].snap = proc[c].snap
        /\ proc'[c].met = proc[c].met /\ proc'[c].verdict = proc[c].verdict
    BY <1>5, SyncLabelsEffect
  <2>4. Active(c)' /\ \A d \in Commands : d # c => ~Active(d)'
    BY <2>1, <2>2, <2>3 DEF Active, Alone
  <2> DEFINE state == Decided(c, i)
  <2>5. disk' = disk /\ i \in proc[c].todo /\ proc[c].pc = "decide" /\ proc[c].kind = "sync"
    BY <1>5 DEF SyncLabels, Deciding
  <2>6. Fresh(c, i)
    BY <2>1, <2>5 DEF Alone, InHand
  <2>7. Relabelled(i, proc[c].snap[i], state, desiredLabels(state) \ proc[c].snap[i].labels)
          = desiredLabels(state)
    BY <2>6, FreshLabels DEF Fresh
  <2>8. issue' = [issue EXCEPT ![i].labels = desiredLabels(state)]
    BY <1>5, <2>7 DEF SyncLabels
  <2>9. Decided(c, i)' = state
    BY <2>3 DEF Decided
  <2> HIDE DEF state
  <2>10. \A j \in Issues : j # i => issue'[j] = issue[j]
    BY <2>8 DEF TypeOK
  <2>11. issue'[i].labels = desiredLabels(state)
    BY <2>8 DEF TypeOK, Views
  <2>12. \A j \in proc'[c].todo : InHand(c, j)' \/ Fresh(c, j)'
    BY <2>1, <2>3, <2>5, <2>10 DEF Alone, InHand, Fresh, TypeOK
  <2>13. HandIsRight(c)' /\ HandInTodo(c)'
    BY <2>3, <2>5, <2>9, <2>11 DEF HandIsRight, HandInTodo
  <2>14. \A j \in Issues \ proc'[c].todo : Agree(j)'
    BY <2>1, <2>3, <2>5, <2>10 DEF Alone, DoneIsRight, Agree
  <2>15. DoneIsRight(c)'
    BY <2>3, <2>5, <2>14 DEF DoneIsRight, ListKinds
  <2> QED
    BY <2>1, <2>3, <2>4, <2>5, <2>12, <2>13, <2>15 DEF Alone
<1>6. ASSUME NEW c \in Commands, SyncBody(c) PROVE AloneInv'
  <2> SUFFICES ASSUME c \in alone PROVE Alone(c)'
    <3>1. Active(c)
      BY <1>6 DEF SyncBody, Active
    <3>2. alone' = alone
      BY <1>6 DEF SyncBody
    <3> QED
      BY <3>1, <3>2, OnlyActor DEF AloneInv
  <2>1. Alone(c)
    BY DEF AloneInv
  <2>2. \A d \in Commands : d # c => proc'[d] = proc[d]
    BY <1>6, BecomeAt DEF SyncBody, TypeOK, Idle
  <2>3. /\ proc'[c].pc = "edited" /\ proc'[c].at = proc[c].at
        /\ proc'[c].kind = proc[c].kind /\ proc'[c].todo = proc[c].todo
        /\ proc'[c].copy = proc[c].copy /\ proc'[c].snap = proc[c].snap
        /\ proc'[c].met = proc[c].met /\ proc'[c].verdict = proc[c].verdict
    BY <1>6, BecomeAt DEF SyncBody, TypeOK, Idle
  <2>4. Active(c)' /\ \A d \in Commands : d # c => ~Active(d)'
    BY <2>1, <2>2, <2>3 DEF Active, Alone
  <2> DEFINE i == proc[c].at
             state == Decided(c, i)
  <2>5. disk' = disk /\ proc[c].pc = "labelled" /\ proc[c].kind = "sync" /\ i \in Issues
    BY <1>6 DEF SyncBody, LabelledIsSync, TypeOK
  <2>6. issue' = [issue EXCEPT ![i].state = state]
    BY <1>6 DEF SyncBody
  <2>7. Decided(c, i)' = state
    BY <2>3 DEF Decided
  <2>8. issue[i].labels = desiredLabels(state)
    BY <2>1, <2>5 DEF Alone, HandIsRight
  <2> HIDE DEF state
  <2>9. \A j \in Issues : j # i => issue'[j] = issue[j]
    BY <2>6 DEF TypeOK
  <2>10. issue'[i].state = state /\ issue'[i].labels = desiredLabels(state)
    BY <2>5, <2>6, <2>8 DEF TypeOK, Views
  <2>11. \A j \in proc'[c].todo : InHand(c, j)' \/ Fresh(c, j)'
    BY <2>1, <2>3, <2>5, <2>9 DEF Alone, InHand, Fresh, TypeOK
  <2>12. HandIsRight(c)'
    BY <2>3, <2>7, <2>10 DEF HandIsRight
  <2>13. i \in proc[c].todo
    BY <2>1, <2>5 DEF Alone, HandInTodo
  <2>14. \A j \in Issues \ proc'[c].todo : Agree(j)'
    BY <2>1, <2>3, <2>5, <2>9, <2>13 DEF Alone, DoneIsRight, Agree
  <2>15. DoneIsRight(c)'
    BY <2>3, <2>5, <2>14 DEF DoneIsRight, ListKinds
  <2>16. HandInTodo(c)'
    BY <2>3, <2>13 DEF HandInTodo
  <2> QED
    BY <2>1, <2>3, <2>4, <2>5, <2>11, <2>12, <2>15, <2>16 DEF Alone
<1>7. ASSUME NEW c \in Commands, Record(c) PROVE AloneInv'
  <2> SUFFICES ASSUME c \in alone PROVE Alone(c)'
    <3>1. Active(c)
      BY <1>7 DEF Record, Active
    <3>2. alone' = alone
      BY <1>7 DEF Record
    <3> QED
      BY <3>1, <3>2, OnlyActor DEF AloneInv
  <2>1. Alone(c)
    BY DEF AloneInv
  <2>2. \A d \in Commands : d # c => proc'[d] = proc[d]
    BY <1>7, RecordEffect
  <2>3. /\ proc'[c].pc = "decide" /\ proc'[c].at = proc[c].at
        /\ proc'[c].kind = proc[c].kind /\ proc'[c].todo = proc[c].todo \ {proc[c].at}
        /\ proc'[c].copy = [proc[c].copy EXCEPT ![proc[c].at] = Row(Decided(c, proc[c].at))]
        /\ proc'[c].snap = proc[c].snap
    BY <1>7, RecordEffect
  <2>4. Active(c)' /\ \A d \in Commands : d # c => ~Active(d)'
    BY <2>1, <2>2, <2>3 DEF Active, Alone
  <2> DEFINE i == proc[c].at
             state == Decided(c, i)
  <2>5. issue' = issue /\ proc[c].pc = "edited" /\ i \in Issues
    BY <1>7 DEF Record, TypeOK
  <2>6. issue[i].labels = desiredLabels(state) /\ issue[i].state = state
    BY <2>1, <2>5 DEF Alone, HandIsRight
  <2>7. disk' = [disk EXCEPT ![i] = Row(state)] /\ proc'[c].copy = disk'
    BY <1>7, <2>1, <2>3 DEF Record, Alone
  <2> HIDE DEF state
  <2>8. disk'[i] = Row(state) /\ \A j \in Issues : j # i => disk'[j] = disk[j]
    BY <2>5, <2>7 DEF TypeOK
  <2>9. \A j \in Issues : j = i => Agree(j)'
    BY <2>5, <2>6, <2>8 DEF Agree
  <2>10. \A j \in Issues : j # i /\ Agree(j) => Agree(j)'
    BY <2>5, <2>8 DEF Agree
  <2>11. \A j \in proc'[c].todo : Fresh(c, j)'
    BY <2>1, <2>3, <2>5 DEF Alone, InHand, Fresh
  <2>12. DoneIsRight(c)'
    BY <2>1, <2>3, <2>5, <2>9, <2>10 DEF Alone, DoneIsRight
  <2>13. HandIsRight(c)' /\ HandInTodo(c)'
    BY <2>3 DEF HandIsRight, HandInTodo
  <2> QED
    BY <2>3, <2>4, <2>7, <2>11, <2>12, <2>13 DEF Alone
<1>8. ASSUME NEW c \in Commands, Close(c) PROVE AloneInv'
  <2>1. Active(c)
    BY <1>8 DEF Close, Active
  <2>2. alone' = {}
    BY <1>8, <2>1, OnlyActor DEF Close
  <2> QED
    BY <2>2 DEF AloneInv
<1>9. ASSUME NEW c \in Commands, Fail(c) PROVE AloneInv'
  <2>1. Active(c)
    BY <1>9 DEF Fail, Active
  <2>2. alone' = {}
    BY <1>9, <2>1, OnlyActor DEF Fail
  <2> QED
    BY <2>2 DEF AloneInv
<1>10. ASSUME NEW i \in Closable, Toggle(i) PROVE AloneInv'
  <2>1. \A j \in Issues : issue'[j].state = issue[j].state /\ issue'[j].labels = issue[j].labels
    BY <1>10, ConstantsAssumption DEF Toggle, TypeOK, Views
  <2>2. disk' = disk /\ proc' = proc /\ alone' = alone
    BY <1>10 DEF Toggle
  <2> SUFFICES ASSUME NEW c \in alone PROVE Alone(c)'
    BY <2>2 DEF AloneInv
  <2>3. Alone(c) /\ c \in Commands
    BY DEF AloneInv, TypeOK
  <2>4. proc[c].at \in Issues /\ proc[c].todo \subseteq Issues
    BY <2>3 DEF TypeOK
  <2>5. HandIsRight(c)' /\ HandInTodo(c)'
    BY <2>1, <2>2, <2>3, <2>4 DEF Alone, HandIsRight, HandInTodo, Decided
  <2>6. DoneIsRight(c)'
    BY <2>1, <2>2, <2>3, <2>4 DEF Alone, DoneIsRight, Agree
  <2>7. \A j \in proc'[c].todo : Fresh(c, j) => Fresh(c, j)'
    BY <2>1, <2>2, <2>4 DEF Fresh
  <2> QED
    BY <2>2, <2>3, <2>5, <2>6, <2>7 DEF Alone, InHand, Active
<1>11. CASE UNCHANGED vars
  BY <1>11 DEF vars, AloneInv, Alone, Active, InHand, Fresh, HandIsRight, HandInTodo, DoneIsRight, Agree, Decided
<1> QED
  BY <1>1, <1>2, <1>3, <1>4, <1>5, <1>6, <1>7, <1>8, <1>9, <1>10, <1>11 DEF Next, Step

RepairedInThisStep ==
    \A c \in Commands :
        Active(c) /\ c \in alone /\ proc'[c].pc = "closed" =>
            \A i \in Issues :
                proc[c].kind = "sync" \/ (proc[c].kind \notin ListKinds /\ i = proc[c].at)
                    => Agree(i)'

\* Closing leaves the epics it wrote in agreement.
LEMMA RepairStep == TypeOK /\ AloneInv /\ [Next]_vars => RepairedInThisStep
<1> SUFFICES ASSUME TypeOK, AloneInv, [Next]_vars PROVE RepairedInThisStep
  OBVIOUS
<1>1. ASSUME NEW c \in Commands, NEW kind \in Kinds, NEW todo \in SUBSET Issues, NEW verdict \in Verdicts, Start(c, kind, todo, verdict) PROVE RepairedInThisStep
  <2>1. proc'[c].pc # "closed" /\ \A d \in Commands : d # c => proc'[d] = proc[d]
    BY <1>1, StartEffect
  <2> QED
    BY <2>1 DEF RepairedInThisStep, Active
<1>2. ASSUME NEW c \in Commands, Read(c) PROVE RepairedInThisStep
  <2>1. proc'[c].pc # "closed" /\ \A d \in Commands : d # c => proc'[d] = proc[d]
    BY <1>2, ReadEffect
  <2> QED
    BY <2>1 DEF RepairedInThisStep, Active
<1>3. ASSUME NEW c \in Commands, CheckDependencies(c) PROVE RepairedInThisStep
  <2>1. proc'[c].pc # "closed" /\ \A d \in Commands : d # c => proc'[d] = proc[d]
    BY <1>3, CheckEffect
  <2> QED
    BY <2>1 DEF RepairedInThisStep, Active
<1>4. ASSUME NEW c \in Commands, NEW i \in Issues, Edit(c, i) PROVE RepairedInThisStep
  <2>1. proc'[c].pc # "closed" /\ \A d \in Commands : d # c => proc'[d] = proc[d]
    BY <1>4, EditEffect
  <2> QED
    BY <2>1 DEF RepairedInThisStep, Active
<1>5. ASSUME NEW c \in Commands, NEW i \in Issues, SyncLabels(c, i) PROVE RepairedInThisStep
  <2>1. proc'[c].pc # "closed" /\ \A d \in Commands : d # c => proc'[d] = proc[d]
    BY <1>5, SyncLabelsEffect
  <2> QED
    BY <2>1 DEF RepairedInThisStep, Active
<1>6. ASSUME NEW c \in Commands, SyncBody(c) PROVE RepairedInThisStep
  <2>1. proc'[c].pc # "closed" /\ \A d \in Commands : d # c => proc'[d] = proc[d]
    BY <1>6, BecomeAt DEF SyncBody, TypeOK, Idle
  <2> QED
    BY <2>1 DEF RepairedInThisStep, Active
<1>7. ASSUME NEW c \in Commands, Record(c) PROVE RepairedInThisStep
  <2>1. proc'[c].pc # "closed" /\ \A d \in Commands : d # c => proc'[d] = proc[d]
    BY <1>7, RecordEffect
  <2> QED
    BY <2>1 DEF RepairedInThisStep, Active
<1>8. ASSUME NEW c \in Commands, Close(c) PROVE RepairedInThisStep
  <2>1. Active(c) /\ \A d \in Commands : d # c => proc'[d] = proc[d]
    BY <1>8, BecomeAt DEF Close, Active
  <2> SUFFICES ASSUME c \in alone, NEW i \in Issues,
                      proc[c].kind = "sync" \/ (proc[c].kind \notin ListKinds /\ i = proc[c].at)
               PROVE  Agree(i)'
    BY <2>1 DEF RepairedInThisStep, Active
  <2>2. Alone(c)
    BY DEF AloneInv
  <2>3. proc[c].todo = {}
    BY <1>8 DEF Close, PassedOver, ListKinds
  <2>4. Agree(i)
    BY <2>2, <2>3 DEF Alone, DoneIsRight
  <2>5. issue' = issue /\ disk' = disk
    BY <1>8, <2>2 DEF Close, Alone
  <2> QED
    BY <2>4, <2>5 DEF Agree
<1>9. ASSUME NEW c \in Commands, Fail(c) PROVE RepairedInThisStep
  <2>1. proc'[c].pc # "closed" /\ \A d \in Commands : d # c => proc'[d] = proc[d]
    BY <1>9, BecomeAt DEF Fail, TypeOK, Idle
  <2> QED
    BY <2>1 DEF RepairedInThisStep, Active
<1>10. ASSUME NEW i \in Closable, Toggle(i) PROVE RepairedInThisStep
  BY <1>10 DEF Toggle, RepairedInThisStep, Active
<1>11. CASE UNCHANGED vars
  BY <1>11 DEF vars, RepairedInThisStep, Active
<1> QED
  BY <1>1, <1>2, <1>3, <1>4, <1>5, <1>6, <1>7, <1>8, <1>9, <1>10, <1>11 DEF Next, Step

----------------------------------------------------------------------------
(* The theorems.                                                           *)

Inv == TypeOK /\ LabelledIsSync /\ AloneInv

LEMMA InitialTypes == ASSUME Init PROVE TypeOK
<1>1. proc \in [Commands -> Procs]
  BY IdleType DEF Init
<1> QED
  BY <1>1, UnmarkedType DEF Init, TypeOK, NoRow, Rows, Procs, Pcs

LEMMA Initially == Init => Inv
<1> SUFFICES ASSUME Init PROVE Inv
  OBVIOUS
<1>1. TypeOK
  BY InitialTypes
<1>2. LabelledIsSync
  BY DEF Init, LabelledIsSync, Idle
<1>3. AloneInv
  BY DEF Init, AloneInv
<1> QED
  BY <1>1, <1>2, <1>3 DEF Inv

LEMMA Invariance == Spec => []Inv
<1>1. Init => Inv
  BY Initially
<1>2. Inv /\ [Next]_vars => Inv'
  BY TypeStep, LabelledStep, AloneStep DEF Inv
<1> QED
  BY <1>1, <1>2, PTL DEF Spec

\* Types: issues, store rows and commands keep their ranges.
THEOREM Typing == Spec => []TypeOK
<1>1. Inv => TypeOK
  BY DEF Inv
<1> QED
  BY <1>1, Invariance, PTL

\* applyClaim admits a double claim: it is the only way to lose one.
THEOREM ClaimsAreKept == Spec => ClaimIsKept
<1>1. Inv /\ [Next]_vars => [KeptInThisStep]_vars
  BY ClaimStep DEF Inv
<1> QED
  BY <1>1, Invariance, PTL DEF Spec, ClaimIsKept, KeptInThisStep

\* A sync that runs alone makes labels and rows follow the bodies, and any other
\* command those of its epic, for any number of epics and any past.
THEOREM SyncRepairs == Spec => AloneRepairs
<1>1. Inv /\ [Next]_vars => [RepairedInThisStep]_vars
  BY RepairStep DEF Inv
<1> QED
  BY <1>1, Invariance, PTL DEF Spec, AloneRepairs, RepairedInThisStep
=============================================================================
