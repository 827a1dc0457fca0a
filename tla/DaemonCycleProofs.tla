------------------------- MODULE DaemonCycleProofs -------------------------
(***************************************************************************)
(* Theorems about the dispatchers of BacklogDispatch and the daemon that   *)
(* is one of them, for any teams, tasks, limits, crashes and dispatchers:  *)
(*                                                                         *)
(*  - the passes: their type correctness, that no task is lost, how far    *)
(*    dispatchers beside each other overrun the size of a team, and that   *)
(*    one alone passes a handoff on once;                                  *)
(*  - the daemon: its row, which the passes reach only through the counts  *)
(*    the cycle takes from them, and that it implements a dispatcher, so   *)
(*    that what holds of the passes holds of its cycle.                    *)
(***************************************************************************)
EXTENDS DaemonCycle, WellFoundedInduction, SequenceTheorems, FiniteSetTheorems, TLAPS

----------------------------------------------------------------------------
(* The passes of BacklogDispatch.                                          *)

LEMMA MinIsIn ==
    ASSUME NEW S \in SUBSET Nat, S # {}
    PROVE  Min(S) \in S /\ \A x \in S : Min(S) <= x
  <1> DEFINE R == {ss \in Nat \X Nat : ss[1] < ss[2]}
  <1>1. IsWellFoundedOn(OpToRel(<, Nat), Nat)
    BY NatLessThanWellFounded
  <1>2. IsWellFoundedOn(R, Nat)
    BY <1>1 DEF OpToRel
  <1>3. \A x, y \in Nat : y < x => <<y, x>> \in R
    BY Zenon
  <1> HIDE DEF R
  <1>4. PICK x \in S : \A y \in S : <<y, x>> \notin R
    BY <1>2, WFMin
  <1>5. \A y \in S : x <= y
    <2> TAKE y \in S
    <2>1. x \in Nat /\ y \in Nat OBVIOUS
    <2>2. ~(y < x) BY <1>3, <1>4, <2>1, Zenon
    <2>3. QED BY <2>1, <2>2
  <1>6. QED BY <1>5 DEF Min

\* What a pass needs to be where it is: an assignment has its task, the other
\* passes a handoff in hand.
InOrder(q) ==
    /\ q.kind = "assign" => q.pc \in {"route", "queue", "send"} /\ q.task \in Tasks
    /\ q.kind = "none" <=> q.pc \in {"done", "failed"}
    /\ q.pc \in {"route", "queue", "send", "mark"} /\ q.kind # "assign" => q.todo # {}
    /\ q.pc = "send" => q.to \in Sessions
    /\ q.pc \notin {"done", "failed", "next"} => q.lead \in Sessions
    /\ q.pc \in {"relieve", "check"} => q.kind = "rebalance"

Orderly ==
    /\ TypeOK
    /\ \A p \in Dispatchers : InOrder(pass[p])

LEMMA OrdersAreSeqs ==
    ASSUME NEW S \in SUBSET Sessions, NEW order \in SetToSeqs(S), NEW n \in Nat
    PROVE  order \in Seq(Sessions) /\ First(order, n) \in Seq(Sessions)
  <1>1. Cardinality(S) \in Nat
    BY ConstantsAssumption, FS_Subset, FS_CardinalityType
  <1>2. order \in Seq(Sessions)
    BY <1>1 DEF SetToSeqs
  <1>3. QED
    <2>1. Len(order) \in Nat /\ \A i \in 1..Len(order) : order[i] \in Sessions
      BY <1>2, LenProperties, ElementOfSeq
    <2>2. QED BY <1>2, <2>1, SubSeqProperties DEF First

LEMMA IdleIsState ==
    ASSUME NEW ids, NEW label \in {"done", "failed", "next", "route"}
    PROVE  Idle(label) \in PassState(ids)
  BY EmptySeq DEF Idle, PassState

LEMMA InHandIsTodo ==
    ASSUME NEW ids \in SUBSET Nat, NEW q \in PassState(ids), q.todo # {}
    PROVE  InHand(q) \in q.todo /\ InHand(q) \in ids
  BY MinIsIn DEF InHand, PassState

LEMMA MessageIds ==
    ASSUME TypeOK
    PROVE  DOMAIN mail = 1..Len(mail) /\ Len(mail) \in Nat /\ DOMAIN mail \in SUBSET Nat
           /\ \A i \in DOMAIN mail : mail[i] \in Message
  BY LenProperties, ElementOfSeq DEF TypeOK

LEMMA InHandIsMail ==
    ASSUME TypeOK, NEW p \in Dispatchers, InOrder(pass[p]),
           pass[p].pc \in {"route", "queue", "send", "mark"}, pass[p].kind # "assign"
    PROVE  InHand(pass[p]) \in pass[p].todo /\ InHand(pass[p]) \in DOMAIN mail
  BY MessageIds, InHandIsTodo DEF TypeOK, InOrder

LEMMA OnwardIsState ==
    ASSUME NEW ids \in SUBSET Nat, NEW q \in PassState(ids), InOrder(q),
           q.pc \in {"route", "send", "mark"}
    PROVE  Onward(q) \in PassState(ids) /\ InOrder(Onward(q)) /\ Onward(q).pc # "mark"
           /\ Onward(q).kind # "assign"
  <1> DEFINE rest == [q EXCEPT !.todo = @ \ {InHand(q)}, !.to = NoSession]
  <1>1. CASE q.kind = "assign"
    BY <1>1, IdleIsState DEF Onward, Idle, InOrder
  <1>2. CASE q.kind # "assign"
    <2>1. rest \in PassState(ids) /\ rest.kind = q.kind /\ rest.lead = q.lead
      BY DEF PassState
    <2>2. q.kind \in {"dispatch", "rebalance"} /\ q.lead \in Sessions
      BY <1>2 DEF InOrder, PassState
    <2> HIDE DEF rest
    <2>3. Onward(q) = IF q.kind = "rebalance" THEN [rest EXCEPT !.pc = "check"]
                      ELSE IF rest.todo = {} THEN [rest EXCEPT !.pc = "next", !.lead = NoSession]
                      ELSE [rest EXCEPT !.pc = "route"]
      BY <1>2 DEF Onward, rest
    <2>4. CASE q.kind = "rebalance"
      <3>1. Onward(q) = [rest EXCEPT !.pc = "check"] BY <2>3, <2>4
      <3>2. QED BY <2>1, <2>4, <3>1 DEF PassState, InOrder
    <2>5. CASE q.kind = "dispatch" /\ rest.todo = {}
      <3>1. Onward(q) = [rest EXCEPT !.pc = "next", !.lead = NoSession] BY <2>3, <2>5
      <3>2. QED BY <2>1, <2>5, <3>1 DEF PassState, InOrder
    <2>6. CASE q.kind = "dispatch" /\ rest.todo # {}
      <3>1. Onward(q) = [rest EXCEPT !.pc = "route"] BY <2>3, <2>6
      <3>2. QED BY <2>1, <2>2, <2>6, <3>1 DEF PassState, InOrder
    <2>7. QED BY <2>2, <2>4, <2>5, <2>6
  <1>3. QED BY <1>1, <1>2

LEMMA IdleIsOrderly ==
    ASSUME NEW label \in {"done", "failed"}
    PROVE  InOrder(Idle(label)) /\ Idle(label).pc = label /\ Idle(label).kind = "none"
  BY DEF InOrder, Idle

\* A step of p that only moves the pass.
LEMMA PassMoves ==
    ASSUME Orderly, NEW p \in Dispatchers, NEW q \in PassState(DOMAIN mail), InOrder(q),
           Pass(p, q), UNCHANGED <<session, mail, crashes>>,
           fate' \in [Tasks -> {"new", "open", "closed", "dropped"}]
    PROVE  Orderly'
  BY DEF Orderly, TypeOK, Pass

LEMMA RefusedIsFate ==
    ASSUME Orderly, NEW p \in Dispatchers
    PROVE  Refused(p) \in [Tasks -> {"new", "open", "closed", "dropped"}]
  BY DEF Orderly, TypeOK, Refused, Closed

LEMMA FailKeepsOrder ==
    ASSUME Orderly, NEW p \in Dispatchers, Fail(p), UNCHANGED <<session, mail, crashes>>
    PROVE  Orderly'
  <1>1. fate' \in [Tasks -> {"new", "open", "closed", "dropped"}]
    BY RefusedIsFate DEF Fail
  <1>2. QED BY <1>1, IdleIsState, IdleIsOrderly, PassMoves DEF Fail

LEMMA PassesStay ==
    ASSUME Orderly, NEW p \in Dispatchers, NEW q \in PassState(DOMAIN mail), InOrder(q), Pass(p, q)
    PROVE  /\ pass' \in [Dispatchers -> PassState(DOMAIN mail)] /\ pass'[p] = q
           /\ \A r \in Dispatchers : InOrder(pass'[r])
  BY DEF Orderly, TypeOK, Pass

LEMMA AppendKeepsOrder ==
    ASSUME Orderly, NEW m \in Message, mail' = Append(mail, m), UNCHANGED <<session, crashes>>,
           fate' \in [Tasks -> {"new", "open", "closed", "dropped"}],
           pass' \in [Dispatchers -> PassState(DOMAIN mail)],
           \A p \in Dispatchers : InOrder(pass'[p])
    PROVE  Orderly'
  <1>1. mail' \in Seq(Message) /\ Len(mail') = Len(mail) + 1
    BY AppendProperties DEF Orderly, TypeOK
  <1>2. DOMAIN mail' = 1..Len(mail) + 1 /\ DOMAIN mail \subseteq DOMAIN mail'
    BY <1>1, LenProperties, MessageIds DEF Orderly
  <1>3. PassState(DOMAIN mail) \subseteq PassState(DOMAIN mail')
    BY <1>2 DEF PassState
  <1>4. pass' \in [Dispatchers -> PassState(DOMAIN mail')]
    BY <1>3
  <1>5. QED BY <1>1, <1>4 DEF Orderly, TypeOK

LEMMA MarkedIsMail ==
    ASSUME TypeOK, NEW ids, NEW label \in {"read", "deleted"}
    PROVE  /\ Marked(ids, label) \in Seq(Message)
           /\ DOMAIN Marked(ids, label) = DOMAIN mail
           /\ \A i \in DOMAIN mail :
                 /\ Marked(ids, label)[i].task = mail[i].task
                 /\ i \notin ids => Marked(ids, label)[i] = mail[i]
                 /\ Marked(ids, label)[i].status = "unread"
                        => mail[i].status = "unread" /\ i \notin ids
  <1> DEFINE e(i) == IF i \in ids /\ mail[i].status # "deleted"
                     THEN [mail[i] EXCEPT !.status = label] ELSE mail[i]
  <1>1. \A i \in DOMAIN mail : e(i) \in Message /\ e(i).task = mail[i].task
                               /\ (i \notin ids => e(i) = mail[i])
                               /\ (e(i).status = "unread" => mail[i].status = "unread" /\ i \notin ids)
    BY MessageIds DEF Message
  <1>2. Marked(ids, label) = [i \in 1..Len(mail) |-> e(i)]
    BY MessageIds DEF Marked
  <1> HIDE DEF e
  <1>3. Marked(ids, label) \in Seq(Message)
    BY <1>1, <1>2, MessageIds, IsASeq
  <1>4. QED BY <1>1, <1>2, <1>3, MessageIds

LEMMA MarkingKeepsOrder ==
    ASSUME Orderly, NEW ids, NEW label \in {"read", "deleted"}, mail' = Marked(ids, label),
           session' \in [Sessions -> [state : {"unborn", "active", "over", "gone"},
                                      task  : Tasks \cup {NoTask}]],
           fate' \in [Tasks -> {"new", "open", "closed", "dropped"}], UNCHANGED crashes,
           pass' \in [Dispatchers -> PassState(DOMAIN mail)],
           \A p \in Dispatchers : InOrder(pass'[p])
    PROVE  Orderly'
  <1>1. mail' \in Seq(Message) /\ DOMAIN mail' = DOMAIN mail
    BY MarkedIsMail DEF Orderly
  <1>2. QED BY <1>1 DEF Orderly, TypeOK

LEMMA StartsKeepOrder ==
    ASSUME Orderly, NEW p \in Dispatchers,
           StartDispatch(p) \/ StartRebalance(p) \/ StartAssign(p)
    PROVE  Orderly'
  <1> USE DEF Orderly
  <1>1. CASE StartDispatch(p) \/ StartRebalance(p)
    <2>0. PICK kind \in {"dispatch", "rebalance"}, S \in SUBSET Sessions :
             \E order \in SetToSeqs(S) :
                Pass(p, [Idle("next") EXCEPT !.kind = kind, !.targets = First(order, LeadLimit)])
      <3>1. CASE StartDispatch(p)
        BY <3>1 DEF StartDispatch, Sweeps, Orders
      <3>2. CASE StartRebalance(p)
        BY <3>2 DEF StartRebalance
      <3>3. QED BY <1>1, <3>1, <3>2
    <2>1. PICK order \in SetToSeqs(S) :
             Pass(p, [Idle("next") EXCEPT !.kind = kind, !.targets = First(order, LeadLimit)])
      BY <2>0
    <2> DEFINE q == [Idle("next") EXCEPT !.kind = kind, !.targets = First(order, LeadLimit)]
    <2>2. First(order, LeadLimit) \in Seq(Sessions)
      BY OrdersAreSeqs, ConstantsAssumption
    <2>3. q \in PassState(DOMAIN mail) /\ InOrder(q)
      BY <2>2, EmptySeq DEF PassState, InOrder, Idle
    <2>4. fate' \in [Tasks -> {"new", "open", "closed", "dropped"}]
          /\ UNCHANGED <<session, mail, crashes>>
      BY <1>1 DEF StartDispatch, StartRebalance, TypeOK
    <2> HIDE DEF q
    <2>5. Pass(p, q) BY <2>1 DEF q
    <2>6. QED BY <2>3, <2>4, <2>5, PassMoves
  <1>2. CASE StartAssign(p)
    <2>1. NewTask \in Tasks /\ NewTask \in NewTasks
      BY <1>2 DEF StartAssign, NewTask, NewTasks
    <2>2. PICK lead \in Sessions :
             Pass(p, [Idle("route") EXCEPT !.kind = "assign", !.lead = lead, !.task = NewTask])
      BY <1>2 DEF StartAssign
    <2> DEFINE q == [Idle("route") EXCEPT !.kind = "assign", !.lead = lead, !.task = NewTask]
    <2>3. q \in PassState(DOMAIN mail) /\ InOrder(q)
      BY <2>1, EmptySeq DEF PassState, InOrder, Idle
    <2>4. fate' \in [Tasks -> {"new", "open", "closed", "dropped"}]
          /\ UNCHANGED <<session, mail, crashes>>
      BY <1>2 DEF StartAssign, TypeOK
    <2> HIDE DEF q
    <2>5. Pass(p, q) BY <2>2 DEF q
    <2>6. QED BY <2>3, <2>4, <2>5, PassMoves
  <1>3. QED BY <1>1, <1>2

LEMMA NextTargetKeepsOrder ==
    ASSUME Orderly, NEW p \in Dispatchers, NextTarget(p)
    PROVE  Orderly'
  <1> DEFINE targets == pass[p].targets
             s == Head(targets)
             visit == [pass[p] EXCEPT !.targets = Tail(@), !.lead = s, !.moved = 0]
  <1>0. /\ pass[p] \in PassState(DOMAIN mail) /\ InOrder(pass[p]) /\ pass[p].pc = "next"
        /\ UNCHANGED <<session, mail, crashes>>
        /\ fate' \in [Tasks -> {"new", "open", "closed", "dropped"}]
    BY DEF NextTarget, Orderly, TypeOK
  <1>1. CASE Pass(p, Idle("done")) \/ Pass(p, Idle("failed"))
    BY <1>0, <1>1, IdleIsState, IdleIsOrderly, PassMoves
  <1>2. CASE targets # <<>> /\ ~(Pass(p, Idle("done")) \/ Pass(p, Idle("failed")))
    <2>1. s \in Sessions /\ Tail(targets) \in Seq(Sessions)
      BY <1>0, <1>2, HeadTailProperties DEF PassState
    <2>2. visit \in PassState(DOMAIN mail) /\ visit.pc = "next" /\ visit.kind = pass[p].kind
          /\ visit.lead = s
      BY <1>0, <2>1 DEF PassState
    <2>3. Inbox(s, Limit) \subseteq DOMAIN mail
      BY DEF Inbox, Unread
    <2>4. CASE pass[p].kind = "dispatch" /\ Inbox(s, Limit) = {}
      <3>1. Pass(p, [visit EXCEPT !.lead = NoSession]) BY <1>2, <2>4 DEF NextTarget
      <3> DEFINE q == [visit EXCEPT !.lead = NoSession]
      <3> HIDE DEF visit
      <3>2. q \in PassState(DOMAIN mail) /\ InOrder(q)
        BY <2>2, <2>4 DEF PassState, InOrder
      <3> HIDE DEF q
      <3>3. Pass(p, q) BY <3>1 DEF q
      <3>4. QED BY <1>0, <3>2, <3>3, PassMoves
    <2>5. CASE pass[p].kind = "dispatch" /\ Inbox(s, Limit) # {}
      <3>1. Pass(p, [visit EXCEPT !.pc = "route", !.todo = Inbox(s, Limit)])
        BY <1>2, <2>5 DEF NextTarget
      <3> DEFINE inbox == Inbox(s, Limit)
                 q == [visit EXCEPT !.pc = "route", !.todo = inbox]
      <3>0. inbox \subseteq DOMAIN mail /\ inbox # {} BY <2>3, <2>5
      <3> HIDE DEF visit, inbox, s
      <3>2. q \in PassState(DOMAIN mail) /\ InOrder(q)
        BY <2>1, <2>2, <2>5, <3>0 DEF PassState, InOrder
      <3> HIDE DEF q
      <3>3. Pass(p, q) BY <3>1 DEF q, inbox
      <3>4. QED BY <1>0, <3>2, <3>3, PassMoves
    <2>6. CASE pass[p].kind = "rebalance"
      <3>1. PICK order \in Burdened(s) \cup {<<>>} :
               Pass(p, [visit EXCEPT !.pc = "relieve", !.relieved = order])
        BY <1>2, <2>6 DEF NextTarget
      <3> DEFINE q == [visit EXCEPT !.pc = "relieve", !.relieved = order]
      <3>2. order \in Seq(Sessions)
        <4>1. CASE order = <<>> BY <4>1, EmptySeq
        <4>2. CASE order \in Burdened(s)
          <5>1. PICK S \in SUBSET Sessions : order \in SetToSeqs(S)
            BY <4>2 DEF Burdened, Orders, Delegates, Children
          <5>2. QED BY <5>1, OrdersAreSeqs
        <4>3. QED BY <4>1, <4>2
      <3> HIDE DEF visit
      <3>3. q \in PassState(DOMAIN mail) /\ InOrder(q)
        BY <2>1, <2>2, <2>6, <3>2 DEF PassState, InOrder
      <3> HIDE DEF q
      <3>4. Pass(p, q) BY <3>1 DEF q
      <3>5. QED BY <1>0, <3>3, <3>4, PassMoves
    <2>7. QED BY <1>2, <2>4, <2>5, <2>6 DEF NextTarget
  <1>3. QED BY <1>1, <1>2 DEF NextTarget

LEMMA RelievingKeepsOrder ==
    ASSUME Orderly, NEW p \in Dispatchers, NextRelieved(p) \/ CheckRelieved(p)
    PROVE  Orderly'
  <1> DEFINE q == pass[p]
  <1>0. /\ q \in PassState(DOMAIN mail) /\ InOrder(q) /\ q.kind = "rebalance"
        /\ q.pc \in {"relieve", "check"}
        /\ UNCHANGED <<session, mail, crashes>>
        /\ fate' \in [Tasks -> {"new", "open", "closed", "dropped"}]
    BY DEF NextRelieved, CheckRelieved, Orderly, TypeOK, InOrder
  <1>1. \A r : Pass(p, r) /\ r \in PassState(DOMAIN mail) /\ InOrder(r) => Orderly'
    BY <1>0, PassMoves
  <1>2. CASE NextRelieved(p)
    <2>1. CASE q.relieved = <<>> \/ q.moved >= Limit
      <3> DEFINE r == [q EXCEPT !.pc = "next", !.lead = NoSession, !.relieved = <<>>]
      <3>1. r \in PassState(DOMAIN mail) /\ InOrder(r)
        BY <1>0, EmptySeq DEF PassState, InOrder
      <3>2. QED BY <1>1, <1>2, <2>1, <3>1 DEF NextRelieved
    <2>2. CASE ~(q.relieved = <<>> \/ q.moved >= Limit)
      <3> DEFINE r == [q EXCEPT !.pc = "check", !.relieved = Tail(@),
                                !.todo = Inbox(Head(q.relieved), Limit - q.moved)]
      <3>1. Tail(q.relieved) \in Seq(Sessions)
        BY <1>0, <2>2, HeadTailProperties DEF PassState
      <3>2. Inbox(Head(q.relieved), Limit - q.moved) \subseteq DOMAIN mail
        BY DEF Inbox, Unread
      <3>3. r \in PassState(DOMAIN mail) /\ InOrder(r)
        BY <1>0, <3>1, <3>2 DEF PassState, InOrder
      <3>4. QED BY <1>1, <1>2, <2>2, <3>3 DEF NextRelieved
    <2>3. QED BY <2>1, <2>2
  <1>3. CASE CheckRelieved(p)
    <2>1. CASE q.todo = {} \/ q.moved >= Limit \/ ~HasCapacity(q.lead)
      <3> DEFINE r == [q EXCEPT !.pc = "relieve", !.todo = {}]
      <3>1. r \in PassState(DOMAIN mail) /\ InOrder(r)
        BY <1>0 DEF PassState, InOrder
      <3>2. QED BY <1>1, <1>3, <2>1, <3>1 DEF CheckRelieved
    <2>2. CASE q.todo # {} /\ ~(q.todo = {} \/ q.moved >= Limit \/ ~HasCapacity(q.lead))
               /\ mail[InHand(q)].from # q.lead
      <3> DEFINE r == [q EXCEPT !.todo = @ \ {InHand(q)}]
      <3>1. r \in PassState(DOMAIN mail) /\ InOrder(r)
        BY <1>0, <1>3 DEF PassState, InOrder, CheckRelieved
      <3>2. QED BY <1>1, <1>3, <2>2, <3>1 DEF CheckRelieved
    <2>3. CASE q.todo # {} /\ ~(q.todo = {} \/ q.moved >= Limit \/ ~HasCapacity(q.lead))
               /\ mail[InHand(q)].from = q.lead
      <3> DEFINE r == [q EXCEPT !.pc = "route"]
      <3>1. r \in PassState(DOMAIN mail) /\ InOrder(r)
        BY <1>0, <2>3 DEF PassState, InOrder
      <3>2. QED BY <1>1, <1>3, <2>3, <3>1 DEF CheckRelieved
    <2>4. QED BY <2>1, <2>2, <2>3
  <1>4. QED BY <1>2, <1>3

LEMMA TaskIsTask ==
    ASSUME Orderly, NEW p \in Dispatchers, pass[p].pc \in {"route", "queue", "send", "mark"}
    PROVE  TaskInHand(p) \in Tasks /\ ViaInHand(p) \in Nat
  <1>1. CASE pass[p].kind = "assign"
    BY <1>1 DEF Orderly, InOrder, TaskInHand, ViaInHand
  <1>2. CASE pass[p].kind # "assign"
    <2>1. InHand(pass[p]) \in DOMAIN mail
      BY <1>2, InHandIsMail DEF Orderly
    <2>2. QED BY <1>2, <2>1, MessageIds DEF Orderly, TaskInHand, ViaInHand, Message
  <1>3. QED BY <1>1, <1>2

LEMMA RouteKeepsOrder ==
    ASSUME Orderly, NEW p \in Dispatchers, Route(p)
    PROVE  Orderly'
  <1> DEFINE q == pass[p]
             States == [Tasks -> {"new", "open", "closed", "dropped"}]
  <1>0. /\ q \in PassState(DOMAIN mail) /\ InOrder(q) /\ q.pc = "route"
        /\ UNCHANGED <<session, mail, crashes>> /\ fate \in States
    BY DEF Route, Orderly, TypeOK
  <1>1. CASE Fail(p)
    BY <1>0, <1>1, FailKeepsOrder
  <1>2. CASE Pass(p, [q EXCEPT !.pc = "queue"]) /\ UNCHANGED fate
    <2> DEFINE r == [q EXCEPT !.pc = "queue"]
    <2>1. r \in PassState(DOMAIN mail) /\ InOrder(r)
      BY <1>0 DEF PassState, InOrder
    <2>2. QED BY <1>0, <1>2, <2>1, PassMoves
  <1>3. CASE \E d \in Delegates(q.lead) : Pass(p, [q EXCEPT !.pc = "send", !.to = d]) /\ UNCHANGED fate
    <2>1. PICK d \in Sessions : Pass(p, [q EXCEPT !.pc = "send", !.to = d]) /\ UNCHANGED fate
      BY <1>3 DEF Delegates, Children
    <2> DEFINE r == [q EXCEPT !.pc = "send", !.to = d]
    <2>2. r \in PassState(DOMAIN mail) /\ InOrder(r)
      BY <1>0 DEF PassState, InOrder
    <2>3. QED BY <1>0, <2>1, <2>2, PassMoves
  <1>4. CASE /\ Pass(p, Deferred(q))
             /\ fate' = IF q.kind = "rebalance" THEN Dropped(TaskInHand(p)) ELSE Refused(p)
    <2>1. fate' \in States
      BY <1>0, <1>4, RefusedIsFate, TaskIsTask DEF Dropped
    <2>2. Deferred(q) \in PassState(DOMAIN mail) /\ InOrder(Deferred(q))
      <3>1. CASE q.kind = "rebalance"
        <4> DEFINE r == [q EXCEPT !.pc = "mark"]
        <4>1. r \in PassState(DOMAIN mail) /\ InOrder(r)
          BY <1>0, <3>1 DEF PassState, InOrder
        <4>2. QED BY <3>1, <4>1 DEF Deferred
      <3>2. CASE q.kind # "rebalance"
        BY <1>0, <3>2, OnwardIsState, MessageIds DEF Deferred, Orderly
      <3>3. QED BY <3>1, <3>2
    <2>3. QED BY <1>0, <1>4, <2>1, <2>2, PassMoves
  <1>5. QED BY <1>1, <1>2, <1>3, <1>4 DEF Route

LEMMA QueueKeepsOrder ==
    ASSUME Orderly, NEW p \in Dispatchers, QueueDelegate(p)
    PROVE  Orderly'
  <1> DEFINE q == pass[p]
  <1>0. /\ q \in PassState(DOMAIN mail) /\ InOrder(q) /\ q.pc = "queue"
        /\ UNCHANGED <<mail, crashes>> /\ TaskInHand(p) \in Tasks
    BY TaskIsTask DEF QueueDelegate, Orderly, TypeOK
  <1>1. \A state \in {"active", "over"} :
           NewIds # {} /\ session' = [session EXCEPT ![NewId] = [state |-> state, task |-> TaskInHand(p)]]
           => NewId \in Sessions
              /\ session' \in [Sessions -> [state : {"unborn", "active", "over", "gone"},
                                            task  : Tasks \cup {NoTask}]]
    <2>1. NewIds # {} => NewId \in Sessions BY DEF NewId, NewIds
    <2>2. QED BY <1>0, <2>1 DEF Orderly, TypeOK
  <1>2. CASE Fail(p)
    <2>1. session' \in [Sessions -> [state : {"unborn", "active", "over", "gone"},
                                     task  : Tasks \cup {NoTask}]]
      BY <1>1, <1>2 DEF QueueDelegate, Orderly, TypeOK
    <2>2. fate' \in [Tasks -> {"new", "open", "closed", "dropped"}]
      BY <1>2, RefusedIsFate DEF Fail
    <2>3. Idle("failed") \in PassState(DOMAIN mail) /\ InOrder(Idle("failed"))
      BY IdleIsState, IdleIsOrderly
    <2>4. QED BY <1>0, <1>2, <2>1, <2>2, <2>3 DEF Orderly, TypeOK, Fail, Pass
  <1>3. CASE ~Fail(p)
    <2> DEFINE r == [q EXCEPT !.pc = "send", !.to = NewId]
    <2>1. NewId \in Sessions /\ Pass(p, r) /\ UNCHANGED fate
          /\ session' \in [Sessions -> [state : {"unborn", "active", "over", "gone"},
                                        task  : Tasks \cup {NoTask}]]
      BY <1>1, <1>3 DEF QueueDelegate
    <2>2. r \in PassState(DOMAIN mail) /\ InOrder(r)
      BY <1>0, <2>1 DEF PassState, InOrder
    <2> HIDE DEF r
    <2>3. QED BY <1>0, <2>1, <2>2 DEF Orderly, TypeOK, Pass
  <1>4. QED BY <1>2, <1>3

LEMMA SendKeepsOrder ==
    ASSUME Orderly, NEW p \in Dispatchers, SendHandoff(p)
    PROVE  Orderly'
  <1> DEFINE q == pass[p]
             m == Handoff(q.lead, q.to, TaskInHand(p), ViaInHand(p))
  <1>0. /\ q \in PassState(DOMAIN mail) /\ InOrder(q) /\ q.pc = "send"
        /\ UNCHANGED <<session, fate, crashes>> /\ mail' = Append(mail, m)
        /\ fate' \in [Tasks -> {"new", "open", "closed", "dropped"}]
    BY DEF SendHandoff, Orderly, TypeOK
  <1>1. m \in Message
    BY <1>0, TaskIsTask DEF Handoff, Message, InOrder, PassState
  <1> HIDE DEF m
  <1>2. CASE Pass(p, Onward(q))
    <2>1. Onward(q) \in PassState(DOMAIN mail) /\ InOrder(Onward(q))
      BY <1>0, OnwardIsState, MessageIds DEF Orderly
    <2>2. QED BY <1>0, <1>1, <1>2, <2>1, PassesStay, AppendKeepsOrder
  <1>3. CASE q.kind # "assign" /\ Pass(p, [q EXCEPT !.pc = "mark"])
    <2> DEFINE r == [q EXCEPT !.pc = "mark"]
    <2>1. r \in PassState(DOMAIN mail) /\ InOrder(r)
      BY <1>0, <1>3 DEF PassState, InOrder
    <2>2. QED BY <1>0, <1>1, <1>3, <2>1, PassesStay, AppendKeepsOrder
  <1>4. QED BY <1>2, <1>3 DEF SendHandoff

LEMMA MarkKeepsOrder ==
    ASSUME Orderly, NEW p \in Dispatchers, MarkRead(p)
    PROVE  Orderly' /\ pass'[p].pc # "mark" /\ pass'[p].kind # "assign"
  <1> DEFINE q == pass[p]
             r == [Onward(q) EXCEPT !.moved = IF q.kind = "rebalance" THEN @ + 1 ELSE @]
  <1>0. /\ q \in PassState(DOMAIN mail) /\ InOrder(q) /\ q.pc = "mark"
        /\ UNCHANGED <<session, fate, crashes>> /\ mail' = Marked({InHand(q)}, "read")
        /\ session \in [Sessions -> [state : {"unborn", "active", "over", "gone"},
                                     task  : Tasks \cup {NoTask}]]
        /\ fate \in [Tasks -> {"new", "open", "closed", "dropped"}] /\ Pass(p, r)
    BY DEF MarkRead, Orderly, TypeOK
  <1>1. Onward(q) \in PassState(DOMAIN mail) /\ InOrder(Onward(q)) /\ Onward(q).pc # "mark"
        /\ Onward(q).kind # "assign"
    BY <1>0, OnwardIsState, MessageIds DEF Orderly
  <1>2. r \in PassState(DOMAIN mail) /\ InOrder(r) /\ r.pc # "mark" /\ r.kind # "assign"
    BY <1>1 DEF PassState, InOrder
  <1> HIDE DEF r
  <1>3. pass'[p] = r /\ pass' \in [Dispatchers -> PassState(DOMAIN mail)]
        /\ \A s \in Dispatchers : InOrder(pass'[s])
    BY <1>0, <1>2, PassesStay
  <1>4. QED BY <1>0, <1>2, <1>3, MarkingKeepsOrder

LEMMA NewTaskIsNew ==
    ASSUME NewTasks # {}
    PROVE  NewTask \in Tasks /\ fate[NewTask] = "new"
  BY DEF NewTask, NewTasks

LEMMA UsersKeepOrder ==
    ASSUME Orderly, UserStep
    PROVE  Orderly'
  <1> DEFINE Rows == [Sessions -> [state : {"unborn", "active", "over", "gone"},
                                   task  : Tasks \cup {NoTask}]]
             Fates == [Tasks -> {"new", "open", "closed", "dropped"}]
  <1>0. /\ session \in Rows /\ fate \in Fates /\ pass \in [Dispatchers -> PassState(DOMAIN mail)]
        /\ \A p \in Dispatchers : InOrder(pass[p])
    BY DEF Orderly, TypeOK
  <1>1. ASSUME NEW from \in Leads \cup {Outside}, NEW to \in Sessions, Submit(from, to)
        PROVE  Orderly'
    <2>1. from \in Sessions \cup {Outside} BY ConstantsAssumption
    <2>2. NewTask \in Tasks BY <1>1, NewTaskIsNew DEF Submit
    <2>3. Handoff(from, to, NewTask, 0) \in Message
      BY <2>1, <2>2 DEF Handoff, Message
    <2>4. fate' \in Fates /\ UNCHANGED <<session, pass, crashes>>
      BY <1>0, <1>1 DEF Submit
    <2>5. QED BY <1>0, <1>1, <2>3, <2>4, AppendKeepsOrder DEF Submit
  <1>2. ASSUME NEW s \in Sessions, SessionEnds(s) \/ UserResumes(s)
        PROVE  Orderly'
    <2>1. session' \in Rows /\ UNCHANGED <<fate, pass, crashes, mail>>
      BY <1>0, <1>2 DEF SessionEnds, UserResumes, SessionState
    <2>2. QED BY <2>1 DEF Orderly, TypeOK
  <1>3. ASSUME NEW s \in Sessions, UserReads(s) \/ UserDeletes(s)
        PROVE  Orderly'
    <2>1. PICK label \in {"read", "deleted"} : \E ids : mail' = Marked(ids, label)
      <3>1. CASE UserReads(s)
        <4>1. mail' = Marked(Unread(s), "read") BY <3>1 DEF UserReads
        <4>2. QED BY <4>1
      <3>2. CASE UserDeletes(s)
        <4>1. mail' = Marked({i \in DOMAIN mail : s \in {mail[i].from, mail[i].to}}, "deleted")
          BY <3>2 DEF UserDeletes
        <4>2. QED BY <4>1
      <3>3. QED BY <1>3, <3>1, <3>2
    <2>2. session' \in Rows /\ fate' \in Fates /\ UNCHANGED <<pass, crashes>>
      BY <1>0, <1>3 DEF UserReads, UserDeletes, Closed
    <2>3. QED BY <1>0, <2>1, <2>2, MarkingKeepsOrder
  <1>4. QED BY <1>1, <1>2, <1>3 DEF UserStep

LEMMA StepKeepsOrder ==
    ASSUME Orderly, [Next]_vars
    PROVE  Orderly'
  <1>1. ASSUME NEW p \in Dispatchers, DispatcherStep(p)
        PROVE  Orderly'
    <2>1. CASE StartDispatch(p) \/ StartRebalance(p) \/ StartAssign(p)
      BY <2>1, StartsKeepOrder
    <2>2. CASE NextTarget(p) BY <2>2, NextTargetKeepsOrder
    <2>3. CASE NextRelieved(p) \/ CheckRelieved(p) BY <2>3, RelievingKeepsOrder
    <2>4. CASE Route(p) BY <2>4, RouteKeepsOrder
    <2>5. CASE QueueDelegate(p) BY <2>5, QueueKeepsOrder
    <2>6. CASE SendHandoff(p) BY <2>6, SendKeepsOrder
    <2>7. CASE MarkRead(p) BY <2>7, MarkKeepsOrder
    <2>8. CASE Crash(p)
      <3>1. fate' \in [Tasks -> {"new", "open", "closed", "dropped"}]
        BY <2>8, RefusedIsFate DEF Crash, Fail
      <3>2. Pass(p, Idle("failed")) /\ UNCHANGED <<session, mail>> /\ crashes' \in 0..MaxCrashes
        BY <2>8, ConstantsAssumption DEF Crash, Fail, Orderly, TypeOK
      <3>3. Idle("failed") \in PassState(DOMAIN mail) /\ InOrder(Idle("failed"))
        BY IdleIsState, IdleIsOrderly
      <3>4. QED BY <3>1, <3>2, <3>3, PassesStay DEF Orderly, TypeOK
    <2>9. QED BY <1>1, <2>1, <2>2, <2>3, <2>4, <2>5, <2>6, <2>7, <2>8 DEF DispatcherStep, PassStep
  <1>2. CASE UserStep BY <1>2, UsersKeepOrder
  <1>3. CASE UNCHANGED vars
    BY <1>3 DEF vars, Orderly, TypeOK
  <1>4. QED BY <1>1, <1>2, <1>3 DEF Next

LEMMA InitIsOrderly ==
    ASSUME Init
    PROVE  Orderly
  <1>1. mail \in Seq(Message) BY EmptySeq DEF Init
  <1>2. \A p \in Dispatchers : pass[p] \in PassState(DOMAIN mail) /\ InOrder(pass[p])
    BY IdleIsState, IdleIsOrderly DEF Init
  <1>3. QED BY <1>1, <1>2, ConstantsAssumption DEF Init, Orderly, TypeOK

----------------------------------------------------------------------------
(* No task is lost.                                                        *)

Started(t) == \E s \in Sessions : session[s].task = t

UnreadAfter(n, t) ==
    \E i \in DOMAIN mail : i > n /\ mail[i].task = t /\ mail[i].status = "unread"

Carried(t) == \E p \in Dispatchers : pass[p].kind = "assign" /\ pass[p].task = t

\* A task that was not submitted is nowhere, and neither is a session not born.
Fresh ==
    /\ \A s \in Sessions : session[s].state = "unborn" => session[s].task = NoTask
    /\ \A i \in DOMAIN mail : fate[mail[i].task] # "new"
    /\ \A p \in Dispatchers : pass[p].kind = "assign" => fate[pass[p].task] # "new"

\* A pass about to mark a handoff has placed its task, in a session or in a later
\* handoff.  Later: two passes that each mark what the other relies on would lose it.
Covered(p) ==
    pass[p].pc = "mark" =>
        LET i == InHand(pass[p]) t == mail[i].task IN
        fate[t] = "open" => Started(t) \/ UnreadAfter(i, t)

Kept(t) == fate[t] = "open" => UnreadAfter(0, t) \/ Started(t) \/ Carried(t)

KeptInv ==
    /\ Orderly /\ Fresh
    /\ \A p \in Dispatchers : Covered(p)
    /\ \A t \in Tasks : Kept(t)

\* What a pass that is about to mark relies on, and what it marks.
LEMMA MarkOf ==
    ASSUME Orderly, NEW p \in Dispatchers, pass[p].pc = "mark"
    PROVE  /\ InHand(pass[p]) \in DOMAIN mail /\ InHand(pass[p]) \in Nat
           /\ mail[InHand(pass[p])].task \in Tasks
  <1>1. InHand(pass[p]) \in DOMAIN mail
    BY InHandIsMail DEF Orderly, InOrder
  <1>2. QED BY <1>1, MessageIds DEF Orderly, Message

LEMMA FreshStays ==
    ASSUME Orderly, Fresh,
           \A t \in Tasks : fate[t] # "new" => fate'[t] # "new",
           \A s \in Sessions : session'[s].state = "unborn" => session'[s] = session[s],
           \A i \in DOMAIN mail' :
              \/ i \in DOMAIN mail /\ mail'[i].task = mail[i].task
              \/ fate'[mail'[i].task] # "new",
           \A p \in Dispatchers : pass'[p].kind = "assign" =>
              \/ pass[p].kind = "assign" /\ pass'[p].task = pass[p].task
              \/ fate'[pass'[p].task] # "new"
    PROVE  Fresh'
  <1>1. \A i \in DOMAIN mail : mail[i].task \in Tasks
    BY MessageIds DEF Orderly, Message
  <1>2. \A p \in Dispatchers : pass[p].kind = "assign" => pass[p].task \in Tasks
    BY DEF Orderly, InOrder
  <1>3. (\A i \in DOMAIN mail : fate[mail[i].task] # "new")'
    BY <1>1 DEF Fresh
  <1>4. (\A p \in Dispatchers : pass[p].kind = "assign" => fate[pass[p].task] # "new")'
    BY <1>2 DEF Fresh
  <1>5. (\A s \in Sessions : session[s].state = "unborn" => session[s].task = NoTask)'
    BY DEF Fresh
  <1>6. QED BY <1>3, <1>4, <1>5 DEF Fresh

\* A step of p that sends and marks nothing, and ends an assignment only by closing
\* its task.
LEMMA MovingKeeps ==
    ASSUME KeptInv, Orderly', mail' = mail, NEW p \in Dispatchers, NEW q, Pass(p, q),
           \A t \in Tasks : fate'[t] = "open" => fate[t] = "open",
           \A t \in Tasks : Started(t) => Started(t)',
           q.pc = "mark" => fate'[mail[InHand(q)].task] # "open",
           pass[p].kind = "assign" =>
              (q.kind = "assign" /\ q.task = pass[p].task) \/ fate'[pass[p].task] # "open"
    PROVE  (\A r \in Dispatchers : Covered(r))' /\ (\A t \in Tasks : Kept(t))'
  <1>0. /\ pass'[p] = q /\ \A r \in Dispatchers \ {p} : pass'[r] = pass[r]
        /\ \A n, t : UnreadAfter(n, t)' <=> UnreadAfter(n, t)
    BY DEF Pass, KeptInv, Orderly, TypeOK, UnreadAfter
  <1>1. ASSUME NEW t \in Tasks, fate'[t] = "open"
        PROVE  (UnreadAfter(0, t) \/ Started(t) \/ Carried(t))'
    <2>1. UnreadAfter(0, t) \/ Started(t) \/ Carried(t)
      BY <1>1 DEF KeptInv, Kept
    <2>2. Carried(t) => Carried(t)'
      BY <1>0, <1>1 DEF Carried
    <2>3. QED BY <1>0, <2>1, <2>2
  <1>2. ASSUME NEW r \in Dispatchers \ {p}, pass[r].pc = "mark",
               fate'[mail[InHand(pass[r])].task] = "open"
        PROVE  Started(mail[InHand(pass[r])].task)'
               \/ UnreadAfter(InHand(pass[r]), mail[InHand(pass[r])].task)
    <2>1. mail[InHand(pass[r])].task \in Tasks
      BY <1>2, MarkOf DEF KeptInv
    <2>2. fate[mail[InHand(pass[r])].task] = "open"
      BY <1>2, <2>1
    <2>3. Covered(r) BY DEF KeptInv
    <2>4. Started(mail[InHand(pass[r])].task)
          \/ UnreadAfter(InHand(pass[r]), mail[InHand(pass[r])].task)
      BY <1>2, <2>2, <2>3 DEF Covered
    <2>5. QED BY <1>0, <2>1, <2>4
  <1>3. Covered(p)'
    BY <1>0 DEF Covered
  <1>4. ASSUME NEW r \in Dispatchers \ {p}
        PROVE  Covered(r)'
    BY <1>0, <1>2 DEF Covered
  <1>5. QED BY <1>1, <1>3, <1>4 DEF Kept

LEMMA StartedStays ==
    ASSUME KeptInv, NEW t \in Tasks, Started(t),
           \A s \in Sessions : session[s].state # "unborn" => session'[s].task = session[s].task
    PROVE  Started(t)'
  BY ConstantsAssumption DEF KeptInv, Fresh, Started

LEMMA StartsKeep ==
    ASSUME KeptInv, Orderly', NEW p \in Dispatchers,
           StartDispatch(p) \/ StartRebalance(p) \/ StartAssign(p)
    PROVE  KeptInv'
  <1>0. Orderly /\ Fresh /\ pass[p].kind = "none"
    BY DEF KeptInv, StartDispatch, StartRebalance, StartAssign, Resting, Orderly, InOrder
  <1>1. CASE StartDispatch(p) \/ StartRebalance(p)
    <2>1. PICK kind, targets :
             /\ kind \in {"dispatch", "rebalance"}
             /\ Pass(p, [Idle("next") EXCEPT !.kind = kind, !.targets = targets])
      <3> DEFINE Began(kind, targets) ==
                   Pass(p, [Idle("next") EXCEPT !.kind = kind, !.targets = targets])
      <3>1. \E targets : Began("dispatch", targets) \/ Began("rebalance", targets)
        BY <1>1, Zenon DEF StartDispatch, StartRebalance
      <3> HIDE DEF Began
      <3>2. \E kind, targets : kind \in {"dispatch", "rebalance"} /\ Began(kind, targets)
        BY <3>1
      <3>3. QED BY <3>2 DEF Began
    <2> DEFINE q == [Idle("next") EXCEPT !.kind = kind, !.targets = targets]
    <2>2. q.pc = "next" /\ q.kind # "assign"
      BY <2>1 DEF Idle
    <2> HIDE DEF q
    <2>3. Pass(p, q) /\ UNCHANGED <<session, mail, fate>>
      BY <1>1, <2>1 DEF q, StartDispatch, StartRebalance
    <2>4. (\A r \in Dispatchers : Covered(r))' /\ (\A t \in Tasks : Kept(t))'
      BY <1>0, <2>2, <2>3, MovingKeeps DEF Started
    <2>5. Fresh'
      BY <1>0, <2>2, <2>3, FreshStays DEF Pass, Orderly, TypeOK
    <2>6. QED BY <2>4, <2>5 DEF KeptInv
  <1>2. CASE StartAssign(p)
    <2>1. PICK lead \in Sessions :
             Pass(p, [Idle("route") EXCEPT !.kind = "assign", !.lead = lead, !.task = NewTask])
      BY <1>2 DEF StartAssign
    <2>2. NewTask \in Tasks /\ fate[NewTask] = "new" /\ fate' = [fate EXCEPT ![NewTask] = "open"]
      BY <1>2, NewTaskIsNew DEF StartAssign
    <2>3. pass'[p].kind = "assign" /\ pass'[p].task = NewTask /\ pass'[p].pc = "route"
          /\ \A r \in Dispatchers \ {p} : pass'[r] = pass[r]
      BY <1>0, <2>1 DEF Pass, Idle, Orderly, TypeOK
    <2>4. UNCHANGED <<session, mail>> /\ \A t \in Tasks \ {NewTask} : fate'[t] = fate[t]
      BY <1>0, <1>2, <2>2 DEF StartAssign, Orderly, TypeOK
    <2>5. fate'[NewTask] = "open"
      BY <1>0, <2>2 DEF Orderly, TypeOK
    <2>6. Fresh'
      BY <1>0, <2>3, <2>4, <2>5, FreshStays
    <2>7. ASSUME NEW r \in Dispatchers
          PROVE  Covered(r)'
      <3>1. CASE pass'[r].pc # "mark" BY <3>1 DEF Covered
      <3>2. CASE pass'[r].pc = "mark"
        <4>1. pass'[r] = pass[r] BY <2>3, <3>2
        <4>2. mail[InHand(pass[r])].task # NewTask /\ mail[InHand(pass[r])].task \in Tasks
          BY <1>0, <2>2, <3>2, <4>1, MarkOf DEF Fresh
        <4>3. Covered(r) BY DEF KeptInv
        <4>4. QED BY <2>4, <3>2, <4>1, <4>2, <4>3 DEF Covered, Started, UnreadAfter
      <3>3. QED BY <3>1, <3>2
    <2>8. ASSUME NEW t \in Tasks
          PROVE  Kept(t)'
      <3>1. CASE t = NewTask BY <2>3, <3>1 DEF Kept, Carried
      <3>2. CASE t # NewTask
        <4>1. Kept(t) BY DEF KeptInv
        <4>2. Carried(t) => Carried(t)' BY <1>0, <2>3 DEF Carried
        <4>3. QED BY <2>4, <3>2, <4>1, <4>2 DEF Kept, Started, UnreadAfter
      <3>3. QED BY <3>1, <3>2
    <2>9. QED BY <2>6, <2>7, <2>8 DEF KeptInv
  <1>3. QED BY <1>1, <1>2

\* A step of p that moves a pass in the middle, ends it, or fails it.
LEMMA PassingKeeps ==
    ASSUME KeptInv, Orderly', NEW p \in Dispatchers, NEW q, Pass(p, q), UNCHANGED mail,
           q.kind \in {pass[p].kind, "none"},
           q.kind = "assign" => q.task = pass[p].task,
           pass[p].kind = "assign" => q.kind = "assign" \/ fate'[pass[p].task] # "open",
           q.pc = "mark" => fate'[mail[InHand(q)].task] # "open",
           \A t \in Tasks : fate'[t] = "open" => fate[t] = "open",
           \A t \in Tasks : fate[t] # "new" => fate'[t] # "new",
           \A s \in Sessions : session'[s].state = "unborn" => session'[s] = session[s],
           \A s \in Sessions : session[s].state # "unborn" => session'[s].task = session[s].task
    PROVE  KeptInv'
  <1>1. \A t \in Tasks : Started(t) => Started(t)'
    BY StartedStays
  <1>2. (\A r \in Dispatchers : Covered(r))' /\ (\A t \in Tasks : Kept(t))'
    BY <1>1, MovingKeeps
  <1>3. Fresh'
    <2>1. pass'[p] = q /\ \A r \in Dispatchers \ {p} : pass'[r] = pass[r]
      BY DEF Pass, KeptInv, Orderly, TypeOK
    <2>2. \A r \in Dispatchers : pass'[r].kind = "assign" =>
              pass[r].kind = "assign" /\ pass'[r].task = pass[r].task
      BY <2>1
    <2>3. QED BY <2>2, FreshStays DEF KeptInv
  <1>4. QED BY <1>2, <1>3 DEF KeptInv

LEMMA RefusedCloses ==
    ASSUME Orderly, NEW p \in Dispatchers, fate' = Refused(p)
    PROVE  /\ \A t \in Tasks : fate'[t] = "open" => fate[t] = "open"
           /\ \A t \in Tasks : fate[t] # "new" => fate'[t] # "new"
           /\ pass[p].kind = "assign" => fate'[pass[p].task] # "open"
  BY DEF Refused, Closed, Orderly, InOrder

LEMMA FailKeeps ==
    ASSUME KeptInv, Orderly', NEW p \in Dispatchers, Fail(p), UNCHANGED mail,
           \A s \in Sessions : session'[s].state = "unborn" => session'[s] = session[s],
           \A s \in Sessions : session[s].state # "unborn" => session'[s].task = session[s].task
    PROVE  KeptInv'
  <1>1. Idle("failed").kind = "none" /\ Idle("failed").pc = "failed"
    BY DEF Idle
  <1>2. Pass(p, Idle("failed")) /\ fate' = Refused(p) /\ Orderly
    BY DEF Fail, KeptInv
  <1>3. QED BY <1>1, <1>2, RefusedCloses, PassingKeeps

LEMMA NextTargetKeeps ==
    ASSUME KeptInv, Orderly', NEW p \in Dispatchers, NextTarget(p)
    PROVE  KeptInv'
  <1>1. pass[p].kind # "assign" /\ UNCHANGED <<session, mail, fate>> /\ pass[p] \in PassState(DOMAIN mail)
    BY DEF NextTarget, KeptInv, Orderly, InOrder, TypeOK
  <1>2. PICK q : Pass(p, q) /\ q.kind \in {pass[p].kind, "none"} /\ q.pc # "mark"
    <2> DEFINE s == Head(pass[p].targets)
               visit == [pass[p] EXCEPT !.targets = Tail(@), !.lead = s, !.moved = 0]
               inbox == Inbox(s, Limit)
    <2>1. \/ Pass(p, Idle("done")) \/ Pass(p, Idle("failed"))
          \/ Pass(p, [visit EXCEPT !.lead = NoSession])
          \/ Pass(p, [visit EXCEPT !.pc = "route", !.todo = inbox])
          \/ \E order : Pass(p, [visit EXCEPT !.pc = "relieve", !.relieved = order])
      BY Zenon DEF NextTarget
    <2>2. ASSUME NEW order
          PROVE  /\ [visit EXCEPT !.lead = NoSession].kind = pass[p].kind
                 /\ [visit EXCEPT !.lead = NoSession].pc = "next"
                 /\ [visit EXCEPT !.pc = "route", !.todo = inbox].kind = pass[p].kind
                 /\ [visit EXCEPT !.pc = "route", !.todo = inbox].pc = "route"
                 /\ [visit EXCEPT !.pc = "relieve", !.relieved = order].kind = pass[p].kind
                 /\ [visit EXCEPT !.pc = "relieve", !.relieved = order].pc = "relieve"
      <3> HIDE DEF inbox, s
      <3>1. visit.kind = pass[p].kind /\ visit.pc = "next" /\ {"pc", "kind"} \subseteq DOMAIN visit
        BY <1>1 DEF PassState, NextTarget
      <3> HIDE DEF visit
      <3>2. QED BY <3>1
    <2>3. Idle("done").kind = "none" /\ Idle("failed").kind = "none"
          /\ Idle("done").pc # "mark" /\ Idle("failed").pc # "mark"
      BY DEF Idle
    <2> HIDE DEF visit, inbox, s
    <2>4. QED BY <2>1, <2>2, <2>3
  <1>3. q.kind # "assign" BY <1>1, <1>2
  <1>4. QED BY <1>1, <1>2, <1>3, PassingKeeps

LEMMA RelievingKeeps ==
    ASSUME KeptInv, Orderly', NEW p \in Dispatchers, NextRelieved(p) \/ CheckRelieved(p)
    PROVE  KeptInv'
  <1> DEFINE q == pass[p]
  <1>1. q.kind = "rebalance" /\ UNCHANGED <<session, mail, fate>> /\ q \in PassState(DOMAIN mail)
        /\ q.pc \in {"relieve", "check"}
    BY DEF NextRelieved, CheckRelieved, KeptInv, Orderly, InOrder, TypeOK
  <1>2. PICK r : Pass(p, r) /\ r.kind = "rebalance" /\ r.pc # "mark"
    <2>1. CASE NextRelieved(p)
      <3> DEFINE a == [q EXCEPT !.pc = "next", !.lead = NoSession, !.relieved = <<>>]
                 b == [q EXCEPT !.pc = "check", !.relieved = Tail(@),
                                !.todo = Inbox(Head(q.relieved), Limit - q.moved)]
      <3>1. Pass(p, a) \/ Pass(p, b) BY <2>1 DEF NextRelieved
      <3>2. a.kind = "rebalance" /\ a.pc = "next" /\ b.kind = "rebalance" /\ b.pc = "check"
        BY <1>1 DEF PassState
      <3> HIDE DEF a, b
      <3>3. QED BY <3>1, <3>2
    <2>2. CASE CheckRelieved(p)
      <3> DEFINE a == [q EXCEPT !.pc = "relieve", !.todo = {}]
                 b == [q EXCEPT !.todo = @ \ {InHand(q)}]
                 c == [q EXCEPT !.pc = "route"]
      <3>1. Pass(p, a) \/ Pass(p, b) \/ Pass(p, c) BY <2>2 DEF CheckRelieved
      <3>2. a.kind = "rebalance" /\ a.pc = "relieve" /\ b.kind = "rebalance" /\ b.pc = q.pc
            /\ c.kind = "rebalance" /\ c.pc = "route"
        BY <1>1 DEF PassState
      <3> HIDE DEF a, b, c
      <3>3. QED BY <1>1, <3>1, <3>2
    <2>3. QED BY <2>1, <2>2
  <1>3. QED BY <1>1, <1>2, PassingKeeps

LEMMA RouteKeeps ==
    ASSUME KeptInv, Orderly', NEW p \in Dispatchers, Route(p)
    PROVE  KeptInv'
  <1> DEFINE q == pass[p]
  <1>0. /\ q \in PassState(DOMAIN mail) /\ InOrder(q) /\ q.pc = "route" /\ Orderly
        /\ UNCHANGED <<session, mail>> /\ DOMAIN mail \in SUBSET Nat
    BY MessageIds DEF Route, KeptInv, Orderly, TypeOK
  <1>1. CASE Fail(p)
    BY <1>0, <1>1, FailKeeps
  <1>2. CASE UNCHANGED fate /\ \E d : Pass(p, [q EXCEPT !.pc = "queue"])
                                     \/ Pass(p, [q EXCEPT !.pc = "send", !.to = d])
    <2>0. PICK d : Pass(p, [q EXCEPT !.pc = "queue"]) \/ Pass(p, [q EXCEPT !.pc = "send", !.to = d])
      BY <1>2
    <2> DEFINE a == [q EXCEPT !.pc = "queue"]
               b == [q EXCEPT !.pc = "send", !.to = d]
    <2>3. /\ a.kind = q.kind /\ a.task = q.task /\ a.pc = "queue"
          /\ b.kind = q.kind /\ b.task = q.task /\ b.pc = "send"
      BY <1>0 DEF PassState
    <2>4. Pass(p, a) \/ Pass(p, b) BY <2>0
    <2> HIDE DEF a, b
    <2>1. PICK r : Pass(p, r) /\ r.kind = q.kind /\ r.task = q.task /\ r.pc # "mark"
      BY <2>3, <2>4
    <2>2. QED BY <1>0, <1>2, <2>1, PassingKeeps
  <1>3. CASE q.kind = "rebalance" /\ Pass(p, Deferred(q)) /\ fate' = Dropped(TaskInHand(p))
    <2> DEFINE r == [q EXCEPT !.pc = "mark"]
    <2>1. Pass(p, r) /\ r.kind = "rebalance" /\ InHand(r) = InHand(q)
      BY <1>0, <1>3 DEF Deferred, InHand, PassState
    <2>2. TaskInHand(p) = mail[InHand(q)].task /\ TaskInHand(p) \in Tasks
      BY <1>0, <1>3, TaskIsTask DEF TaskInHand
    <2>3. /\ fate'[TaskInHand(p)] # "open"
          /\ \A t \in Tasks : fate'[t] = "open" => fate[t] = "open"
          /\ \A t \in Tasks : fate[t] # "new" => fate'[t] # "new"
      BY <1>0, <1>3, <2>2 DEF Dropped, Orderly, TypeOK
    <2> HIDE DEF r
    <2>4. QED BY <1>0, <1>3, <2>1, <2>2, <2>3, PassingKeeps
  <1>4. CASE q.kind # "rebalance" /\ Pass(p, Deferred(q)) /\ fate' = Refused(p)
    <2>1. Deferred(q).pc # "mark" /\ Deferred(q).kind # "assign" /\ Deferred(q).kind \in {q.kind, "none"}
      <3>1. Onward(q).pc # "mark" /\ Onward(q).kind # "assign"
        BY <1>0, OnwardIsState
      <3>2. Onward(q).kind \in {q.kind, "none"}
        <4>1. CASE q.kind = "assign" BY <4>1 DEF Onward, Idle
        <4>2. CASE q.kind # "assign"
          <5> DEFINE todo == q.todo \ {InHand(q)}
                     rest == [q EXCEPT !.todo = todo, !.to = NoSession]
                     a == [rest EXCEPT !.pc = "next", !.lead = NoSession]
                     b == [rest EXCEPT !.pc = "route"]
          <5>1. Onward(q) \in {a, b} BY <1>4, <4>2 DEF Onward
          <5>2. a.kind = q.kind /\ b.kind = q.kind
            BY <1>0 DEF PassState
          <5> HIDE DEF a, b
          <5>3. QED BY <5>1, <5>2
        <4>3. QED BY <4>1, <4>2
      <3>3. QED BY <1>4, <3>1, <3>2 DEF Deferred
    <2>2. QED BY <1>0, <1>4, <2>1, RefusedCloses, PassingKeeps
  <1>5. QED
    <2>1. \/ Fail(p)
          \/ Pass(p, [q EXCEPT !.pc = "queue"]) /\ UNCHANGED fate
          \/ \E d : Pass(p, [q EXCEPT !.pc = "send", !.to = d]) /\ UNCHANGED fate
          \/ Pass(p, Deferred(q)) /\ fate' = IF q.kind = "rebalance" THEN Dropped(TaskInHand(p))
                                             ELSE Refused(p)
      BY Zenon DEF Route
    <2>2. QED BY <1>1, <1>2, <1>3, <1>4, <2>1, Zenon

LEMMA QueueKeeps ==
    ASSUME KeptInv, Orderly', NEW p \in Dispatchers, QueueDelegate(p)
    PROVE  KeptInv'
  <1> DEFINE q == pass[p]
  <1>0. /\ q \in PassState(DOMAIN mail) /\ q.pc = "queue" /\ UNCHANGED mail
    BY DEF QueueDelegate, KeptInv, Orderly, TypeOK
  <1>1. /\ \A s \in Sessions : session'[s].state = "unborn" => session'[s] = session[s]
        /\ \A s \in Sessions : session[s].state # "unborn" => session'[s].task = session[s].task
    <2>1. NewIds # {} => NewId \in Sessions /\ session[NewId].state = "unborn"
      BY DEF NewId, NewIds
    <2>2. \/ UNCHANGED session
          \/ NewIds # {} /\ \E state \in {"active", "over"} :
                session' = [session EXCEPT ![NewId] = [state |-> state, task |-> TaskInHand(p)]]
      BY DEF QueueDelegate
    <2>3. QED BY <2>1, <2>2 DEF KeptInv, Orderly, TypeOK
  <1>2. CASE Fail(p)
    BY <1>0, <1>1, <1>2, FailKeeps
  <1>3. CASE Pass(p, [q EXCEPT !.pc = "send", !.to = NewId]) /\ UNCHANGED fate
    <2> DEFINE r == [q EXCEPT !.pc = "send", !.to = NewId]
    <2>1. r.kind = q.kind /\ r.task = q.task /\ r.pc = "send"
      BY <1>0 DEF PassState
    <2> HIDE DEF r
    <2>2. Pass(p, r) BY <1>3 DEF r
    <2>3. QED BY <1>0, <1>1, <1>3, <2>1, <2>2, PassingKeeps
  <1>4. QED BY <1>2, <1>3 DEF QueueDelegate

\* What stays unread stays where it is.
LEMMA UnreadStays ==
    ASSUME NEW t, NEW n, UnreadAfter(n, t),
           \A i \in DOMAIN mail : mail[i].task = t /\ mail[i].status = "unread"
                => i \in DOMAIN mail' /\ mail'[i].task = t /\ mail'[i].status = "unread"
    PROVE  \E i \in DOMAIN mail' : i > n /\ mail'[i].task = t /\ mail'[i].status = "unread"
  BY DEF UnreadAfter

LEMMA Appended ==
    ASSUME Orderly, NEW m \in Message, mail' = Append(mail, m)
    PROVE  /\ DOMAIN mail' = DOMAIN mail \cup {Len(mail) + 1}
           /\ \A i \in DOMAIN mail : mail'[i] = mail[i] /\ i < Len(mail) + 1
           /\ mail'[Len(mail) + 1] = m /\ Len(mail) + 1 > 0
  <1>1. mail' \in Seq(Message) /\ Len(mail') = Len(mail) + 1 /\ mail'[Len(mail) + 1] = m
        /\ \A i \in 1..Len(mail) : mail'[i] = mail[i]
    BY AppendProperties DEF Orderly, TypeOK
  <1>2. DOMAIN mail = 1..Len(mail) /\ Len(mail) \in Nat /\ DOMAIN mail' = 1..Len(mail) + 1
    BY <1>1, LenProperties, MessageIds DEF Orderly
  <1>3. QED BY <1>1, <1>2

LEMMA SendKeeps ==
    ASSUME KeptInv, Orderly', NEW p \in Dispatchers, SendHandoff(p)
    PROVE  KeptInv'
  <1> DEFINE q == pass[p]
             m == Handoff(q.lead, q.to, TaskInHand(p), ViaInHand(p))
             new == Len(mail) + 1
  <1>0. /\ q \in PassState(DOMAIN mail) /\ InOrder(q) /\ q.pc = "send" /\ Orderly /\ Fresh
        /\ UNCHANGED <<session, fate>> /\ mail' = Append(mail, m)
    BY DEF SendHandoff, KeptInv, Orderly, TypeOK
  <1>1. m \in Message /\ m.task = TaskInHand(p) /\ m.status = "unread" /\ m.task \in Tasks
    BY <1>0, TaskIsTask DEF Handoff, Message, InOrder, PassState
  <1> HIDE DEF m
  <1>2. /\ DOMAIN mail' = DOMAIN mail \cup {new}
        /\ \A i \in DOMAIN mail : mail'[i] = mail[i] /\ i < new
        /\ mail'[new] = m /\ new > 0
    BY <1>0, <1>1, Appended
  <1> HIDE DEF new
  <1>3. \A n, t : UnreadAfter(n, t) => UnreadAfter(n, t)'
    BY <1>2 DEF UnreadAfter
  <1>4. fate[m.task] # "new"
    <2>1. CASE q.kind = "assign" BY <1>0, <1>1, <2>1 DEF TaskInHand, Fresh
    <2>2. CASE q.kind # "assign"
      BY <1>0, <1>1, <2>2, InHandIsMail DEF TaskInHand, Fresh, Orderly
    <2>3. QED BY <2>1, <2>2
  <1>5. \A r \in Dispatchers \ {p} : pass'[r] = pass[r]
    BY <1>0 DEF SendHandoff, Pass, Orderly, TypeOK
  <1>6. /\ pass'[p].kind # "assign"
        /\ pass'[p].pc = "mark" => q.kind # "assign" /\ InHand(pass'[p]) = InHand(q)
    <2>1. CASE Pass(p, Onward(q))
      <3>1. Onward(q).pc # "mark" /\ Onward(q).kind # "assign"
        BY <1>0, OnwardIsState, MessageIds
      <3>2. pass'[p] = Onward(q) BY <1>0, <2>1 DEF Pass, Orderly, TypeOK
      <3>3. QED BY <3>1, <3>2
    <2>2. CASE q.kind # "assign" /\ Pass(p, [q EXCEPT !.pc = "mark"])
      <3>1. pass'[p] = [q EXCEPT !.pc = "mark"] BY <1>0, <2>2 DEF Pass, Orderly, TypeOK
      <3>2. QED BY <1>0, <2>2, <3>1 DEF InHand, PassState
    <2>3. QED BY <2>1, <2>2 DEF SendHandoff
  <1>7. Fresh'
    <2>1. \A i \in DOMAIN mail' : \/ i \in DOMAIN mail /\ mail'[i].task = mail[i].task
                                  \/ fate'[mail'[i].task] # "new"
      BY <1>0, <1>2, <1>4
    <2>2. QED BY <1>0, <1>5, <1>6, <2>1, FreshStays
  <1>8. ASSUME NEW r \in Dispatchers
        PROVE  Covered(r)'
    <2>1. CASE pass'[r].pc # "mark" BY <2>1 DEF Covered
    <2>2. CASE pass'[r].pc = "mark" /\ r = p
      <3>1. InHand(q) \in DOMAIN mail /\ m.task = mail[InHand(q)].task
        BY <1>0, <1>1, <1>6, <2>2, InHandIsMail DEF Orderly, TaskInHand
      <3>2. \E i \in DOMAIN mail' : /\ i > InHand(q) /\ mail'[i].status = "unread"
                                    /\ mail'[i].task = mail'[InHand(q)].task
        <4>1. new > InHand(q) BY <1>2, <3>1, MessageIds, <1>0 DEF new
        <4>2. QED BY <1>1, <1>2, <3>1, <4>1
      <3>3. QED BY <1>6, <2>2, <3>2 DEF Covered, UnreadAfter
    <2>3. CASE pass'[r].pc = "mark" /\ r # p
      <3>1. pass'[r] = pass[r] /\ Covered(r) BY <1>5, <2>3 DEF KeptInv
      <3>2. InHand(pass[r]) \in DOMAIN mail BY <1>0, <2>3, <3>1, MarkOf
      <3>3. ASSUME NEW i, i = InHand(pass[r]), NEW t, t = mail[i].task, fate[t] = "open"
            PROVE  Started(t)' \/ UnreadAfter(i, t)'
        <4>1. Started(t) \/ UnreadAfter(i, t) BY <2>3, <3>1, <3>3 DEF Covered
        <4>2. QED BY <1>0, <1>3, <4>1 DEF Started
      <3>4. QED BY <1>0, <1>2, <3>1, <3>2, <3>3 DEF Covered
    <2>4. QED BY <2>1, <2>2, <2>3
  <1>9. ASSUME NEW t \in Tasks, fate'[t] = "open"
        PROVE  (UnreadAfter(0, t) \/ Started(t) \/ Carried(t))'
    <2>1. CASE t = m.task
      <3>1. new \in DOMAIN mail' /\ new > 0 /\ mail'[new].task = t /\ mail'[new].status = "unread"
        BY <1>1, <1>2, <2>1
      <3>2. QED BY <3>1 DEF UnreadAfter
    <2>2. CASE t # m.task
      <3>1. UnreadAfter(0, t) \/ Started(t) \/ Carried(t)
        BY <1>0, <1>9 DEF KeptInv, Kept
      <3>2. Carried(t) => Carried(t)'
        BY <1>1, <1>5, <2>2 DEF Carried, TaskInHand
      <3>3. QED BY <1>0, <1>3, <3>1, <3>2 DEF Started
    <2>3. QED BY <2>1, <2>2
  <1>10. QED BY <1>7, <1>8, <1>9 DEF KeptInv, Kept

LEMMA MarkKeeps ==
    ASSUME KeptInv, NEW p \in Dispatchers, MarkRead(p)
    PROVE  KeptInv'
  <1> DEFINE q == pass[p]
  <1>0. /\ q \in PassState(DOMAIN mail) /\ InOrder(q) /\ q.pc = "mark" /\ Orderly /\ Fresh /\ TypeOK
        /\ UNCHANGED <<session, fate>> /\ mail' = Marked({InHand(q)}, "read")
        /\ q.kind # "assign"
    BY DEF MarkRead, KeptInv, Orderly, TypeOK, InOrder
  <1>1. Orderly' /\ pass'[p].pc # "mark" /\ pass'[p].kind # "assign"
    BY MarkKeepsOrder DEF KeptInv
  <1>2. \A r \in Dispatchers \ {p} : pass'[r] = pass[r]
    BY <1>0 DEF MarkRead, Pass, Orderly, TypeOK
  <1>3. /\ DOMAIN mail' = DOMAIN mail
        /\ \A i \in DOMAIN mail : mail'[i].task = mail[i].task /\ (i # InHand(q) => mail'[i] = mail[i])
    BY <1>0, MarkedIsMail
  <1>4. InHand(q) \in DOMAIN mail /\ InHand(q) \in Nat /\ DOMAIN mail \in SUBSET Nat
    BY <1>0, MarkOf, MessageIds
  <1>5. ASSUME NEW t, NEW n \in Nat, fate[t] = "open", UnreadAfter(n, t)
        PROVE  Started(t) \/ UnreadAfter(n, t)'
    <2>1. PICK i \in DOMAIN mail : i > n /\ mail[i].task = t /\ mail[i].status = "unread"
      BY <1>5 DEF UnreadAfter
    <2>2. CASE i # InHand(q)
      BY <1>3, <2>1, <2>2 DEF UnreadAfter
    <2>3. CASE i = InHand(q)
      <3>1. Covered(p) BY DEF KeptInv
      <3>2. Started(t) \/ UnreadAfter(i, t)
        BY <1>0, <1>5, <2>1, <2>3, <3>1 DEF Covered
      <3>3. CASE UnreadAfter(i, t)
        <4>1. PICK k \in DOMAIN mail : k > i /\ mail[k].task = t /\ mail[k].status = "unread"
          BY <3>3 DEF UnreadAfter
        <4>2. k > n /\ k # InHand(q)
          BY <1>4, <2>1, <2>3, <4>1
        <4>3. QED BY <1>3, <4>1, <4>2 DEF UnreadAfter
      <3>4. QED BY <3>2, <3>3
    <2>4. QED BY <2>2, <2>3
  <1>6. \A t : Started(t) <=> Started(t)'
    BY <1>0 DEF Started
  <1>7. Fresh'
    BY <1>0, <1>1, <1>2, <1>3, FreshStays
  <1>8. ASSUME NEW r \in Dispatchers
        PROVE  Covered(r)'
    <2>1. CASE pass'[r].pc # "mark" BY <2>1 DEF Covered
    <2>2. CASE pass'[r].pc = "mark"
      <3>1. pass'[r] = pass[r] /\ Covered(r) BY <1>1, <1>2, <2>2 DEF KeptInv
      <3>2. InHand(pass[r]) \in DOMAIN mail /\ InHand(pass[r]) \in Nat BY <1>0, <2>2, <3>1, MarkOf
      <3>3. ASSUME NEW i \in Nat, i = InHand(pass[r]), NEW t, t = mail[i].task, fate[t] = "open"
            PROVE  Started(t)' \/ UnreadAfter(i, t)'
        <4>1. Started(t) \/ UnreadAfter(i, t) BY <2>2, <3>1, <3>3 DEF Covered
        <4>2. QED BY <1>5, <1>6, <3>3, <4>1
      <3>4. QED BY <1>0, <1>3, <3>1, <3>2, <3>3 DEF Covered
    <2>3. QED BY <2>1, <2>2
  <1>9. ASSUME NEW t \in Tasks, fate'[t] = "open"
        PROVE  (UnreadAfter(0, t) \/ Started(t) \/ Carried(t))'
    <2>1. UnreadAfter(0, t) \/ Started(t) \/ Carried(t)
      BY <1>0, <1>9 DEF KeptInv, Kept
    <2>2. Carried(t) => Carried(t)'
      BY <1>0, <1>2 DEF Carried
    <2>3. UnreadAfter(0, t) => Started(t) \/ UnreadAfter(0, t)'
      BY <1>0, <1>5, <1>9
    <2>4. QED BY <1>6, <2>1, <2>2, <2>3
  <1>10. QED BY <1>1, <1>7, <1>8, <1>9 DEF KeptInv, Kept

LEMMA SubmitKeeps ==
    ASSUME KeptInv, Orderly', NEW from \in Leads \cup {Outside}, NEW to \in Sessions,
           Submit(from, to)
    PROVE  KeptInv'
  <1> DEFINE m == Handoff(from, to, NewTask, 0)
             new == Len(mail) + 1
  <1>0. /\ NewTask \in Tasks /\ fate[NewTask] = "new" /\ fate' = [fate EXCEPT ![NewTask] = "open"]
        /\ UNCHANGED <<session, pass>> /\ mail' = Append(mail, m) /\ Orderly /\ Fresh
    BY NewTaskIsNew DEF Submit, KeptInv
  <1>1. m \in Message /\ m.task = NewTask /\ m.status = "unread"
    BY <1>0, ConstantsAssumption DEF Handoff, Message
  <1> HIDE DEF m
  <1>2. /\ DOMAIN mail' = DOMAIN mail \cup {new}
        /\ \A i \in DOMAIN mail : mail'[i] = mail[i] /\ i < new
        /\ mail'[new] = m /\ new > 0
    BY <1>0, <1>1, Appended
  <1> HIDE DEF new
  <1>3. \A n, t : UnreadAfter(n, t) => UnreadAfter(n, t)'
    BY <1>2 DEF UnreadAfter
  <1>4. fate'[NewTask] = "open" /\ \A t \in Tasks \ {NewTask} : fate'[t] = fate[t]
    BY <1>0 DEF Orderly, TypeOK
  <1>5. Fresh'
    <2>1. \A i \in DOMAIN mail' : \/ i \in DOMAIN mail /\ mail'[i].task = mail[i].task
                                  \/ fate'[mail'[i].task] # "new"
      BY <1>1, <1>2, <1>4
    <2>2. QED BY <1>0, <1>4, <2>1, FreshStays
  <1>6. ASSUME NEW r \in Dispatchers, pass[r].pc = "mark"
        PROVE  Covered(r)'
    <2>1. InHand(pass[r]) \in DOMAIN mail /\ mail[InHand(pass[r])].task \in Tasks /\ Covered(r)
      BY <1>0, <1>6, MarkOf DEF KeptInv
    <2>2. ASSUME NEW i, i = InHand(pass[r]), NEW t \in Tasks, t = mail[i].task, fate'[t] = "open"
          PROVE  Started(t)' \/ UnreadAfter(i, t)'
      <3>1. fate[t] = "open"
        BY <1>0, <1>4, <2>1, <2>2 DEF Fresh
      <3>2. Started(t) \/ UnreadAfter(i, t) BY <1>6, <2>1, <2>2, <3>1 DEF Covered
      <3>3. QED BY <1>0, <1>3, <3>2 DEF Started
    <2>3. QED BY <1>0, <1>2, <2>1, <2>2 DEF Covered
  <1>7. ASSUME NEW t \in Tasks, fate'[t] = "open"
        PROVE  (UnreadAfter(0, t) \/ Started(t) \/ Carried(t))'
    <2>1. CASE t = NewTask
      BY <1>1, <1>2, <2>1 DEF UnreadAfter
    <2>2. CASE t # NewTask
      <3>1. UnreadAfter(0, t) \/ Started(t) \/ Carried(t)
        BY <1>4, <1>7, <2>2 DEF KeptInv, Kept
      <3>2. QED BY <1>0, <1>3, <3>1 DEF Started, Carried
    <2>3. QED BY <2>1, <2>2
  <1>8. \A r \in Dispatchers : Covered(r)'
    BY <1>0, <1>6 DEF Covered
  <1>9. QED BY <1>5, <1>7, <1>8 DEF KeptInv, Kept

\* A step of a user or a session that closes what it marks.
LEMMA ClosingKeeps ==
    ASSUME KeptInv, Orderly', UNCHANGED pass,
           \A t \in Tasks : fate'[t] = fate[t] \/ fate'[t] = "closed",
           DOMAIN mail' = DOMAIN mail,
           \A i \in DOMAIN mail :
              /\ mail'[i].task = mail[i].task
              /\ mail[i].status = "unread"
                    => mail'[i].status = "unread" \/ fate'[mail[i].task] = "closed",
           \A s \in Sessions : session'[s].state = "unborn" => session'[s] = session[s],
           \A s \in Sessions : session'[s].task = session[s].task
    PROVE  KeptInv'
  <1>0. Orderly /\ Fresh BY DEF KeptInv
  <1>1. \A t : Started(t) <=> Started(t)' BY DEF Started
  <1>2. ASSUME NEW t, NEW n, fate'[t] = "open", UnreadAfter(n, t)
        PROVE  UnreadAfter(n, t)'
    BY <1>2 DEF UnreadAfter
  <1>3. Fresh' BY <1>0, FreshStays
  <1>4. ASSUME NEW r \in Dispatchers, pass[r].pc = "mark"
        PROVE  Covered(r)'
    <2>1. InHand(pass[r]) \in DOMAIN mail /\ mail[InHand(pass[r])].task \in Tasks /\ Covered(r)
      BY <1>0, <1>4, MarkOf DEF KeptInv
    <2>2. ASSUME NEW i, i = InHand(pass[r]), NEW t \in Tasks, t = mail[i].task, fate'[t] = "open"
          PROVE  Started(t)' \/ UnreadAfter(i, t)'
      <3>1. fate[t] = "open" BY <2>2
      <3>2. Started(t) \/ UnreadAfter(i, t) BY <1>4, <2>1, <2>2, <3>1 DEF Covered
      <3>3. QED BY <1>1, <1>2, <2>2, <3>2
    <2>3. QED BY <2>1, <2>2 DEF Covered
  <1>5. ASSUME NEW t \in Tasks, fate'[t] = "open"
        PROVE  (UnreadAfter(0, t) \/ Started(t) \/ Carried(t))'
    <2>1. UnreadAfter(0, t) \/ Started(t) \/ Carried(t)
      BY <1>5 DEF KeptInv, Kept
    <2>2. QED BY <1>1, <1>2, <1>5, <2>1 DEF Carried
  <1>6. \A r \in Dispatchers : Covered(r)'
    BY <1>4 DEF Covered
  <1>7. QED BY <1>3, <1>5, <1>6 DEF KeptInv, Kept

LEMMA UsersKeep ==
    ASSUME KeptInv, Orderly', UserStep
    PROVE  KeptInv'
  <1>0. Orderly /\ TypeOK /\ session \in [Sessions -> [state : {"unborn", "active", "over", "gone"},
                                                       task  : Tasks \cup {NoTask}]]
    BY DEF KeptInv, Orderly, TypeOK
  <1>1. ASSUME NEW from \in Leads \cup {Outside}, NEW to \in Sessions, Submit(from, to)
        PROVE  KeptInv'
    BY <1>1, SubmitKeeps
  <1>2. ASSUME NEW s \in Sessions, SessionEnds(s) \/ UserResumes(s)
        PROVE  KeptInv'
    <2>1. UNCHANGED <<mail, fate, pass>>
      BY <1>2 DEF SessionEnds, UserResumes, SessionState
    <2>2. \A r \in Sessions : /\ session'[r].state = "unborn" => session'[r] = session[r]
                              /\ session'[r].task = session[r].task
      BY <1>0, <1>2 DEF SessionEnds, UserResumes, SessionState
    <2>3. QED BY <2>1, <2>2, ClosingKeeps
  <1>3. ASSUME NEW s \in Sessions, NEW ids, NEW label \in {"read", "deleted"}, NEW ts,
               mail' = Marked(ids, label), fate' = Closed(ts), UNCHANGED pass,
               \A i \in DOMAIN mail : i \in ids /\ mail[i].status = "unread" => mail[i].task \in ts,
               session' = session \/ session' = [session EXCEPT ![s].state = "gone"]
        PROVE  KeptInv'
    <2>1. /\ DOMAIN mail' = DOMAIN mail
          /\ \A i \in DOMAIN mail : mail'[i].task = mail[i].task /\ mail[i].task \in Tasks
                                    /\ (i \notin ids => mail'[i] = mail[i])
      BY <1>0, <1>3, MarkedIsMail, MessageIds DEF Message
    <2>2. \A t \in Tasks : fate'[t] = (IF t \in ts THEN "closed" ELSE fate[t])
      BY <1>3 DEF Closed
    <2>3. \A r \in Sessions : /\ session'[r].state = "unborn" => session'[r] = session[r]
                              /\ session'[r].task = session[r].task
      BY <1>0, <1>3
    <2>4. \A i \in DOMAIN mail : mail[i].status = "unread"
             => mail'[i].status = "unread" \/ fate'[mail[i].task] = "closed"
      BY <1>3, <2>1, <2>2
    <2>5. QED BY <1>3, <2>1, <2>2, <2>3, <2>4, ClosingKeeps
  <1>4. ASSUME NEW s \in Sessions, UserReads(s)
        PROVE  KeptInv'
    <2>1. \A i \in DOMAIN mail : i \in Unread(s) => mail[i].task \in TasksOf(Unread(s))
      BY DEF TasksOf
    <2>2. QED BY <1>3, <1>4, <2>1 DEF UserReads
  <1>5. ASSUME NEW s \in Sessions, UserDeletes(s)
        PROVE  KeptInv'
    <2> DEFINE ids == {i \in DOMAIN mail : s \in {mail[i].from, mail[i].to}}
               ts == TasksOf({i \in ids : mail[i].status = "unread"})
    <2>1. \A i \in DOMAIN mail : i \in ids /\ mail[i].status = "unread" => mail[i].task \in ts
      BY DEF TasksOf
    <2>2. /\ mail' = Marked(ids, "deleted") /\ fate' = Closed(ts) /\ UNCHANGED pass
          /\ session' = [session EXCEPT ![s].state = "gone"]
      BY <1>5 DEF UserDeletes
    <2> HIDE DEF ids, ts
    <2>3. QED BY <1>3, <2>1, <2>2
  <1>6. QED BY <1>1, <1>2, <1>4, <1>5 DEF UserStep

LEMMA StepKeeps ==
    ASSUME KeptInv, [Next]_vars
    PROVE  KeptInv'
  <1>0. Orderly /\ Orderly'
    BY StepKeepsOrder DEF KeptInv
  <1>1. ASSUME NEW p \in Dispatchers, DispatcherStep(p)
        PROVE  KeptInv'
    <2>1. CASE StartDispatch(p) \/ StartRebalance(p) \/ StartAssign(p)
      BY <1>0, <2>1, StartsKeep
    <2>2. CASE NextTarget(p) BY <1>0, <2>2, NextTargetKeeps
    <2>3. CASE NextRelieved(p) \/ CheckRelieved(p) BY <1>0, <2>3, RelievingKeeps
    <2>4. CASE Route(p) BY <1>0, <2>4, RouteKeeps
    <2>5. CASE QueueDelegate(p) BY <1>0, <2>5, QueueKeeps
    <2>6. CASE SendHandoff(p) BY <1>0, <2>6, SendKeeps
    <2>7. CASE MarkRead(p) BY <2>7, MarkKeeps
    <2>8. CASE Crash(p)
      BY <1>0, <2>8, FailKeeps DEF Crash
    <2>9. QED BY <1>1, <2>1, <2>2, <2>3, <2>4, <2>5, <2>6, <2>7, <2>8 DEF DispatcherStep, PassStep
  <1>2. CASE UserStep BY <1>0, <1>2, UsersKeep
  <1>3. CASE UNCHANGED vars
    <2>1. UNCHANGED <<session, mail, fate, pass>> BY <1>3 DEF vars
    <2>2. QED BY <1>0, <2>1, ClosingKeeps
  <1>4. QED BY <1>1, <1>2, <1>3 DEF Next

LEMMA InitIsKept ==
    ASSUME Init
    PROVE  KeptInv
  <1>1. Orderly BY InitIsOrderly
  <1>2. DOMAIN mail = {}
    BY <1>1, MessageIds DEF Init, Orderly
  <1>3. \A p \in Dispatchers : pass[p].pc = "done" /\ pass[p].kind = "none"
    BY DEF Init, Idle
  <1>4. Fresh BY <1>2, <1>3 DEF Init, Fresh
  <1>5. QED BY <1>1, <1>3, <1>4 DEF KeptInv, Covered, Kept, Init

\* Every row, message and pass keeps its shape: a pass in the middle of a handoff has
\* one in hand that is in the table, an assignment its task, a handoff that is sent a
\* recipient.
THEOREM BacklogTyping == Spec => []TypeOK
  <1>1. Init => Orderly BY InitIsOrderly
  <1>2. Orderly /\ [Next]_vars => Orderly' BY StepKeepsOrder
  <1>3. Orderly => TypeOK BY DEF Orderly
  <1>4. QED BY <1>1, <1>2, <1>3, PTL DEF Spec

\* Whatever dispatchers, crashes, ends and deletions do, a task that nobody closed is
\* in an unread handoff, some session was started with it, or its assignment is under
\* way; unless a rebalance gave it up.
THEOREM NothingLost == Spec => []TaskNotLost
  <1>1. Init => KeptInv BY InitIsKept
  <1>2. KeptInv /\ [Next]_vars => KeptInv' BY StepKeeps
  <1>3. KeptInv => TaskNotLost
    BY DEF KeptInv, Kept, TaskNotLost, UnreadAfter, Started, Carried
  <1>4. QED BY <1>1, <1>2, <1>3, PTL DEF Spec

----------------------------------------------------------------------------
(* The daemon's row.                                                       *)

USE DEF DeferredCap, StreakCap

LEMMA CapBounds ==
    ASSUME NEW n \in Nat, NEW cap \in Nat \ {0}
    PROVE  AtMost(n + 1, cap) \in 1..cap
  BY DEF AtMost

\* A row that is well formed and whose streak agrees with its mode.
Sound(a) == a \in Activity /\ (a.streak > 0 <=> PrefersRebalanceFirst(a))

\* Recording a dispatch pass makes the streak agree with the mode.
LEMMA DispatchIsSound ==
    ASSUME NEW a \in Activity, NEW deferred \in 0..DeferredCap
    PROVE  Sound(WithDispatch(a, deferred))
  <1> DEFINE n == IF deferred > 0 THEN AtMost(a.streak + 1, StreakCap) ELSE 0
             r == IF a.recovery = "newer" THEN "older" ELSE a.recovery
             b == WithDispatch(a, deferred)
  <1>1. a.streak \in Nat
    BY DEF Activity
  <1>2. n \in 0..StreakCap /\ (n > 0 <=> deferred > 0)
    <2>1. AtMost(a.streak + 1, StreakCap) \in 1..StreakCap
      BY <1>1, CapBounds
    <2>2. QED BY <2>1
  <1>3. r \in {"none", "older"}
    BY DEF Activity
  <1>4. b = [a EXCEPT !.dispatched = TRUE, !.deferred = deferred, !.recovery = r, !.streak = n]
    BY DEF WithDispatch
  <1> HIDE DEF n, r, b
  <1>5. b \in Activity /\ b.streak = n /\ b.deferred = deferred /\ b.dispatched /\ b.recovery = r
    BY <1>2, <1>3, <1>4 DEF Activity
  <1>6. Sound(b)
    BY <1>2, <1>3, <1>5 DEF Sound, PrefersRebalanceFirst
  <1>7. QED BY <1>6 DEF b

LEMMA RecoveryIsSound ==
    ASSUME NEW a \in Activity, Sound(a), NEW routed \in 0..1
    PROVE  Sound(WithRecovery(a, routed))
  <1>1. CASE routed = 0
    BY <1>1 DEF WithRecovery
  <1>2. CASE routed = 1
    <2> DEFINE b == WithRecovery(a, routed)
    <2>1. b = [dispatched |-> a.dispatched, deferred |-> a.deferred, streak |-> 0,
               recovery |-> "newer", rerouted |-> a.rerouted]
      <3>1. b = [[a EXCEPT !.recovery = "newer"] EXCEPT !.streak = 0]
        BY <1>2 DEF WithRecovery
      <3>2. [a EXCEPT !.recovery = "newer"] =
              [dispatched |-> a.dispatched, deferred |-> a.deferred, streak |-> a.streak,
               recovery |-> "newer", rerouted |-> a.rerouted]
        BY DEF Activity
      <3> HIDE DEF b
      <3>3. QED BY <3>1, <3>2
    <2> HIDE DEF b
    <2>2. b \in Activity /\ b.streak = 0 /\ b.recovery = "newer"
      BY <2>1 DEF Activity
    <2>3. Sound(b)
      BY <2>2 DEF Sound, PrefersRebalanceFirst
    <2>4. QED BY <2>3 DEF b
  <1>3. QED BY <1>1, <1>2

LEMMA RebalanceIsSound ==
    ASSUME NEW a \in Activity, Sound(a), NEW rerouted \in 0..1
    PROVE  Sound(WithRebalance(a, rerouted))
  BY DEF Sound, WithRebalance, Activity, PrefersRebalanceFirst

CycleInv == CycleTypeOK /\ StreakMeansSaturation

LEMMA CycleInvIsSound == CycleInv <=> CycleTypeOK /\ Sound(activity)
  BY DEF CycleInv, CycleTypeOK, Sound, StreakMeansSaturation

LEMMA SoundInit == CycleInit => CycleInv
  BY DEF CycleInit, CycleInv, CycleTypeOK, StreakMeansSaturation, NoActivity, Asleep,
         Activity, PrefersRebalanceFirst

Place == [pc : {"sleep", "relieve", "retry", "dispatch", "rebalance", "recover"},
          prior : Activity, routed : 0..1, deferred : 0..DeferredCap, waiting : BOOLEAN]

LEMMA AsleepIsPlace == Asleep \in Place
  BY DEF Asleep, Place, NoActivity, Activity

\* Going to sleep, and entering a phase, leave the daemon's place well formed.
LEMMA PlaceIsTyped ==
    ASSUME CycleTypeOK, activity' \in Activity,
           \/ cycle' = Asleep
           \/ \E phase \in {"retry", "rebalance", "recover"}, waiting \in BOOLEAN :
                 Enter(phase, waiting)
    PROVE  CycleTypeOK'
  <1>1. CASE cycle' = Asleep
    BY <1>1, AsleepIsPlace DEF CycleTypeOK, Place
  <1>2. CASE \E phase \in {"retry", "rebalance", "recover"}, waiting \in BOOLEAN :
                Enter(phase, waiting)
    <2>1. cycle \in Place BY DEF CycleTypeOK, Place
    <2>2. PICK phase \in {"retry", "rebalance", "recover"}, waiting \in BOOLEAN :
             cycle' = [pc |-> phase, prior |-> cycle.prior, routed |-> 0, deferred |-> 0,
                       waiting |-> waiting]
      BY <1>2, <2>1 DEF Enter, Place
    <2>3. cycle' \in Place BY <2>1, <2>2 DEF Place
    <2>4. QED BY <2>3 DEF CycleTypeOK, Place
  <1>3. QED BY <1>1, <1>2

\* Every step keeps the row sound, and the counts it will be given in range.
LEMMA SoundStep ==
    ASSUME CycleInv, [CycleNext]_cycleVars
    PROVE  CycleInv'
  <1> USE CycleInvIsSound
  <1>0. CycleTypeOK /\ Sound(activity) /\ activity \in Activity
        /\ cycle.routed \in 0..1 /\ cycle.deferred \in 0..DeferredCap /\ cycle.waiting \in BOOLEAN
    BY DEF CycleTypeOK, Sound
  <1>1. CASE CycleBegins
    <2>1. UNCHANGED activity /\ StreakMeansSaturation'
      BY <1>1 DEF CycleBegins, CycleInv, StreakMeansSaturation, PrefersRebalanceFirst
    <2>2. PICK phase \in {"relieve", "dispatch"} :
             cycle' = [Asleep EXCEPT !.pc = phase, !.prior = activity]
      BY <1>1 DEF CycleBegins
    <2>3. CycleTypeOK'
      <3>1. cycle' \in Place BY <1>0, <2>2, AsleepIsPlace DEF Place
      <3>2. QED BY <1>0, <2>1, <3>1 DEF CycleTypeOK, Place
    <2>4. QED BY <2>1, <2>3 DEF CycleInv
  <1>2. CASE PassGoesOn
    <2>1. UNCHANGED activity /\ StreakMeansSaturation'
      BY <1>2 DEF PassGoesOn, CycleInv, StreakMeansSaturation, PrefersRebalanceFirst
    <2>2. AtMost(cycle.deferred + 1, DeferredCap) \in 0..DeferredCap
      <3>1. cycle.deferred \in Nat BY <1>0
      <3>2. AtMost(cycle.deferred + 1, DeferredCap) \in 1..DeferredCap BY <3>1, CapBounds
      <3>3. QED BY <3>2
    <2>3. PICK n \in 0..1, d \in 0..DeferredCap :
             cycle' = [cycle EXCEPT !.routed = n, !.deferred = d]
      <3> DEFINE n == IF pass[Daemon].pc = "mark" THEN 1 ELSE cycle.routed
                 D(d) == cycle' = [cycle EXCEPT !.routed = n, !.deferred = d]
      <3>1. D(AtMost(cycle.deferred + 1, DeferredCap)) \/ D(cycle.deferred)
        BY <1>2 DEF PassGoesOn
      <3>2. n \in 0..1 BY <1>0
      <3>3. QED BY <1>0, <2>2, <3>1, <3>2
    <2>4. CycleTypeOK'
      <3>1. cycle \in Place BY <1>0 DEF CycleTypeOK, Place
      <3>2. cycle' \in Place BY <2>3, <3>1 DEF Place
      <3>3. QED BY <1>0, <2>1, <3>2 DEF CycleTypeOK, Place
    <2>5. QED BY <2>1, <2>4 DEF CycleInv
  <1>3. CASE PassFailed \/ DaemonCrashes
    <2>1. UNCHANGED activity /\ StreakMeansSaturation' /\ cycle' = Asleep
      BY <1>3 DEF PassFailed, DaemonCrashes, Sleep, CycleInv, StreakMeansSaturation,
                  PrefersRebalanceFirst
    <2>2. QED BY <1>0, <2>1, PlaceIsTyped DEF CycleInv
  <1>4. CASE AfterRelieve
    <2>1. Sound(activity')
      BY <1>0, <1>4, RebalanceIsSound DEF AfterRelieve
    <2>2. CycleTypeOK'
      BY <1>0, <1>4, <2>1, PlaceIsTyped DEF AfterRelieve, Sleep, Sound
    <2>3. QED BY <2>1, <2>2 DEF CycleInv, Sound, StreakMeansSaturation, PrefersRebalanceFirst
  <1>5. CASE AfterRetry
    <2>1. Sound(activity')
      <3>1. Sound(WithDispatch(activity, cycle.deferred))
        BY <1>0, DispatchIsSound
      <3>2. WithDispatch(activity, cycle.deferred) \in Activity
        BY <3>1 DEF Sound
      <3>3. QED BY <1>0, <1>5, <3>1, <3>2, RecoveryIsSound DEF AfterRetry
    <2>2. CycleTypeOK'
      BY <1>0, <1>5, <2>1, PlaceIsTyped DEF AfterRetry, Sleep, Sound
    <2>3. QED BY <2>1, <2>2 DEF CycleInv, Sound, StreakMeansSaturation, PrefersRebalanceFirst
  <1>6. CASE AfterDispatch
    <2>1. Sound(activity')
      BY <1>0, <1>6, DispatchIsSound DEF AfterDispatch
    <2>2. CycleTypeOK'
      <3>1. (cycle.deferred > 0) \in BOOLEAN OBVIOUS
      <3>2. cycle' = Asleep \/ \E waiting \in BOOLEAN : Enter("rebalance", waiting)
        BY <1>6, <3>1 DEF AfterDispatch, Sleep
      <3>3. QED BY <1>0, <2>1, <3>2, PlaceIsTyped DEF Sound
    <2>3. QED BY <2>1, <2>2 DEF CycleInv, Sound, StreakMeansSaturation, PrefersRebalanceFirst
  <1>7. CASE AfterRebalance
    <2>1. Sound(activity')
      BY <1>0, <1>7, RebalanceIsSound DEF AfterRebalance
    <2>2. CycleTypeOK'
      BY <1>0, <1>7, <2>1, PlaceIsTyped DEF AfterRebalance, Sleep, Sound
    <2>3. QED BY <2>1, <2>2 DEF CycleInv, Sound, StreakMeansSaturation, PrefersRebalanceFirst
  <1>8. CASE Others \/ UNCHANGED cycleVars
    BY <1>8 DEF Others, cycleVars, CycleInv, CycleTypeOK, StreakMeansSaturation,
                PrefersRebalanceFirst
  <1>9. QED
    BY <1>1, <1>2, <1>3, <1>4, <1>5, <1>6, <1>7, <1>8 DEF CycleNext, DaemonStep

\* The daemon's row and its place in the cycle stay well formed, in whatever
\* order its passes end, fail and crash.
THEOREM CycleTyping == CycleSpec => []CycleTypeOK
  <1>1. CycleInv => CycleTypeOK BY DEF CycleInv
  <1>2. QED BY SoundInit, SoundStep, <1>1, PTL DEF CycleSpec

\* The streak of saturated dispatches is non-zero exactly while the daemon is in
\* the mode that rebalances first: what record_daemon_dispatch_pass and
\* record_daemon_recovery_dispatch_pass write agrees with what the policy reads.
THEOREM StreakTheorem == CycleSpec => []StreakMeansSaturation
  <1>1. CycleInv => StreakMeansSaturation BY DEF CycleInv
  <1>2. QED BY SoundInit, SoundStep, <1>1, PTL DEF CycleSpec

\* Every step of the daemon is a step some dispatcher of BacklogDispatch may take,
\* or changes only its own row and place.
LEMMA ImplementsStep ==
    ASSUME [CycleNext]_cycleVars
    PROVE  [Next]_vars
  <1>0. Daemon \in Dispatchers BY DaemonAssumption
  <1>1. CASE DaemonStep
    <2>1. StartDispatch(Daemon) \/ StartRebalance(Daemon) \/ PassStep(Daemon)
          \/ UNCHANGED vars
      BY <1>1 DEF DaemonStep, CycleBegins, PassGoesOn, PassFailed, AfterRelieve,
                  AfterRetry, AfterDispatch, AfterRebalance, Sleep
    <2>2. QED BY <1>0, <2>1 DEF Next, DispatcherStep
  <1>2. CASE DaemonCrashes
    BY <1>0, <1>2 DEF DaemonCrashes, Next, DispatcherStep
  <1>3. CASE Others
    BY <1>3 DEF Others, Next
  <1>4. CASE UNCHANGED cycleVars
    BY <1>4 DEF cycleVars
  <1>5. QED BY <1>1, <1>2, <1>3, <1>4 DEF CycleNext

\* The daemon with its row implements the unordered dispatchers of
\* BacklogDispatch: what holds of those, a task is not lost between them, holds
\* of coordinate_backlog_cycle beside other dispatchers too.
THEOREM Implements == CycleSpec => Spec
  <1>1. CycleInit => Init BY DEF CycleInit
  <1>2. QED BY <1>1, ImplementsStep, PTL DEF CycleSpec, Spec

\* No task is lost beside the daemon's cycle either.
THEOREM NothingLostInCycle == CycleSpec => []TaskNotLost
  BY Implements, NothingLost

----------------------------------------------------------------------------
(* How a pass may move.                                                    *)

AllUnread == {i \in DOMAIN mail : mail[i].status = "unread"}

\* A step of p that writes no row and no message, and neither starts a delegate nor
\* sends: what the pass still has to do it had to, or finds unread.
Looks(p) ==
    /\ UNCHANGED <<session, mail, crashes>>
    /\ pass[p].pc # "mark"
    /\ pass'[p].pc \notin {"queue", "send", "mark"}
    /\ pass'[p].todo \subseteq pass[p].todo \cup AllUnread

LEMMA OthersStay ==
    ASSUME Orderly, NEW p \in Dispatchers, NEW q, Pass(p, q)
    PROVE  pass'[p] = q /\ \A r \in Dispatchers \ {p} : pass'[r] = pass[r]
  BY DEF Pass, Orderly, TypeOK

LEMMA IdleLooks ==
    ASSUME NEW label \in {"done", "failed", "next", "route"}
    PROVE  Idle(label).pc = label /\ Idle(label).todo = {}
  BY DEF Idle

LEMMA OnwardGoesOn ==
    ASSUME NEW ids \in SUBSET Nat, NEW q \in PassState(ids), InOrder(q),
           q.pc \in {"route", "send", "mark"}
    PROVE  /\ Onward(q).pc \notin {"queue", "send", "mark"}
           /\ Onward(q).todo \subseteq q.todo
           /\ q.kind # "assign" => InHand(q) \notin Onward(q).todo
  <1>1. CASE q.kind = "assign"
    BY <1>1, IdleLooks DEF Onward
  <1>2. CASE q.kind # "assign"
    <2> DEFINE todo == q.todo \ {InHand(q)}
               rest == [q EXCEPT !.todo = todo, !.to = NoSession]
               a == [rest EXCEPT !.pc = "check"]
               b == [rest EXCEPT !.pc = "next", !.lead = NoSession]
               c == [rest EXCEPT !.pc = "route"]
    <2>1. Onward(q) \in {a, b, c} BY <1>2 DEF Onward
    <2>2. todo \subseteq q.todo /\ InHand(q) \notin todo OBVIOUS
    <2> HIDE DEF todo
    <2>3. /\ a.pc = "check" /\ b.pc = "next" /\ c.pc = "route"
          /\ a.todo = todo /\ b.todo = todo /\ c.todo = todo
      BY DEF PassState
    <2> HIDE DEF a, b, c
    <2>4. QED BY <2>1, <2>2, <2>3
  <1>3. QED BY <1>1, <1>2

LEMMA MarkedKeepsEnds ==
    ASSUME TypeOK, NEW ids, NEW label \in {"read", "deleted"}
    PROVE  \A i \in DOMAIN mail :
              /\ Marked(ids, label)[i].from = mail[i].from
              /\ Marked(ids, label)[i].to = mail[i].to
              /\ Marked(ids, label)[i].via = mail[i].via
              /\ Marked(ids, label)[i].status # "deleted" => mail[i].status # "deleted"
  <1> SUFFICES ASSUME NEW i \in DOMAIN mail
               PROVE  /\ Marked(ids, label)[i].from = mail[i].from
                      /\ Marked(ids, label)[i].to = mail[i].to
                      /\ Marked(ids, label)[i].via = mail[i].via
                      /\ Marked(ids, label)[i].status # "deleted" => mail[i].status # "deleted"
    OBVIOUS
  <1>1. mail[i] \in Message BY MessageIds
  <1>2. \/ Marked(ids, label)[i] = mail[i]
        \/ Marked(ids, label)[i] = [mail[i] EXCEPT !.status = label] /\ mail[i].status # "deleted"
    BY DEF Marked
  <1>3. QED BY <1>1, <1>2 DEF Message

LEMMA MarkGoesOn ==
    ASSUME Orderly, NEW p \in Dispatchers, MarkRead(p)
    PROVE  /\ pass'[p].pc \notin {"queue", "send", "mark"}
           /\ \A r \in Dispatchers \ {p} : pass'[r] = pass[r]
           /\ pass'[p].todo \subseteq pass[p].todo
           /\ InHand(pass[p]) \notin pass'[p].todo
  <1> DEFINE q == pass[p]
             n == [Onward(q) EXCEPT !.moved = IF q.kind = "rebalance" THEN @ + 1 ELSE @]
  <1>1. /\ q \in PassState(DOMAIN mail) /\ InOrder(q) /\ q.pc = "mark" /\ q.kind # "assign"
        /\ DOMAIN mail \in SUBSET Nat /\ Pass(p, n)
    BY MessageIds DEF MarkRead, Orderly, TypeOK, InOrder
  <1>2. Onward(q) \in PassState(DOMAIN mail)
    BY <1>1, OnwardIsState
  <1>3. n.pc = Onward(q).pc /\ n.todo = Onward(q).todo
    BY <1>2 DEF PassState
  <1> HIDE DEF n
  <1>4. QED BY <1>1, <1>3, OnwardGoesOn, OthersStay

LEMMA StartsLook ==
    ASSUME Orderly, NEW p \in Dispatchers,
           StartDispatch(p) \/ StartRebalance(p) \/ StartAssign(p)
    PROVE  Looks(p) /\ \A r \in Dispatchers \ {p} : pass'[r] = pass[r]
  <1>0. UNCHANGED <<session, mail, crashes>> /\ pass[p].pc # "mark"
    BY DEF StartDispatch, StartRebalance, StartAssign, Resting
  <1>1. PICK q : Pass(p, q) /\ q.pc \in {"next", "route"} /\ q.todo = {}
    <2> DEFINE a(kind, targets) == [Idle("next") EXCEPT !.kind = kind, !.targets = targets]
               b(lead) == [Idle("route") EXCEPT !.kind = "assign", !.lead = lead, !.task = NewTask]
    <2>1. \A kind, targets, lead : /\ a(kind, targets).pc = "next" /\ a(kind, targets).todo = {}
                                   /\ b(lead).pc = "route" /\ b(lead).todo = {}
      BY DEF Idle
    <2>2. \E kind, targets, lead : Pass(p, a(kind, targets)) \/ Pass(p, b(lead))
      BY Zenon DEF StartDispatch, StartRebalance, StartAssign
    <2> HIDE DEF a, b
    <2>3. QED BY <2>1, <2>2
  <1>2. QED BY <1>0, <1>1, OthersStay DEF Looks

LEMMA SearchesLook ==
    ASSUME Orderly, NEW p \in Dispatchers,
           NextTarget(p) \/ NextRelieved(p) \/ CheckRelieved(p)
    PROVE  Looks(p) /\ \A r \in Dispatchers \ {p} : pass'[r] = pass[r]
  <1> DEFINE q == pass[p]
  <1>0. /\ UNCHANGED <<session, mail, crashes>> /\ q \in PassState(DOMAIN mail)
        /\ q.pc \in {"next", "relieve", "check"}
    BY DEF NextTarget, NextRelieved, CheckRelieved, Orderly, TypeOK
  <1>1. \A s, n : Inbox(s, n) \subseteq AllUnread
    BY DEF Inbox, Unread, AllUnread
  <1>2. PICK r : /\ Pass(p, r) /\ r.pc \notin {"queue", "send", "mark"}
                 /\ r.todo \subseteq q.todo \cup AllUnread
    <2>1. CASE NextTarget(p)
      <3> DEFINE s == Head(q.targets)
                 visit == [q EXCEPT !.targets = Tail(@), !.lead = s, !.moved = 0]
                 inbox == Inbox(s, Limit)
                 a == [visit EXCEPT !.lead = NoSession]
                 b == [visit EXCEPT !.pc = "route", !.todo = inbox]
                 c(order) == [visit EXCEPT !.pc = "relieve", !.relieved = order]
      <3>1. \/ Pass(p, Idle("done")) \/ Pass(p, Idle("failed")) \/ Pass(p, a) \/ Pass(p, b)
            \/ \E order : Pass(p, c(order))
        BY <2>1, Zenon DEF NextTarget
      <3>2. inbox \subseteq AllUnread BY <1>1
      <3>3. q.pc = "next" BY <2>1 DEF NextTarget
      <3> HIDE DEF inbox, s
      <3>4. visit.pc = "next" /\ visit.todo = q.todo /\ {"pc", "todo"} \subseteq DOMAIN visit
        BY <1>0, <3>3 DEF PassState
      <3> HIDE DEF visit
      <3>5. /\ a.pc = "next" /\ a.todo = q.todo /\ b.pc = "route" /\ b.todo = inbox
            /\ \A order : c(order).pc = "relieve" /\ c(order).todo = q.todo
        BY <3>4
      <3> HIDE DEF a, b, c
      <3>6. QED BY <3>1, <3>2, <3>5, IdleLooks
    <2>2. CASE NextRelieved(p)
      <3> DEFINE inbox == Inbox(Head(q.relieved), Limit - q.moved)
                 a == [q EXCEPT !.pc = "next", !.lead = NoSession, !.relieved = <<>>]
                 b == [q EXCEPT !.pc = "check", !.relieved = Tail(@), !.todo = inbox]
      <3>1. Pass(p, a) \/ Pass(p, b) BY <2>2 DEF NextRelieved
      <3>2. inbox \subseteq AllUnread BY <1>1
      <3> HIDE DEF inbox
      <3>3. a.pc = "next" /\ a.todo = q.todo /\ b.pc = "check" /\ b.todo = inbox
        BY <1>0 DEF PassState
      <3> HIDE DEF a, b
      <3>4. QED BY <3>1, <3>2, <3>3
    <2>3. CASE CheckRelieved(p)
      <3> DEFINE a == [q EXCEPT !.pc = "relieve", !.todo = {}]
                 b == [q EXCEPT !.todo = @ \ {InHand(q)}]
                 c == [q EXCEPT !.pc = "route"]
      <3>1. Pass(p, a) \/ Pass(p, b) \/ Pass(p, c) BY <2>3 DEF CheckRelieved
      <3>2. /\ a.pc = "relieve" /\ a.todo = {} /\ b.pc = q.pc /\ b.todo \subseteq q.todo
            /\ c.pc = "route" /\ c.todo = q.todo
        BY <1>0 DEF PassState
      <3> HIDE DEF a, b, c
      <3>3. QED BY <1>0, <3>1, <3>2
    <2>4. QED BY <2>1, <2>2, <2>3
  <1>3. QED BY <1>0, <1>2, OthersStay DEF Looks

\* Where a routed handoff goes.
LEMMA RouteGoes ==
    ASSUME Orderly, NEW p \in Dispatchers, Route(p)
    PROVE  /\ UNCHANGED <<session, mail, crashes>> /\ pass[p].pc = "route"
           /\ \A r \in Dispatchers \ {p} : pass'[r] = pass[r]
           /\ \/ Looks(p)
              \/ /\ pass'[p] = [pass[p] EXCEPT !.pc = "queue"]
                 /\ HasCapacity(pass[p].lead) \/ Delegates(pass[p].lead) = {}
              \/ \E d \in Delegates(pass[p].lead) :
                    Unread(d) = {} /\ pass'[p] = [pass[p] EXCEPT !.pc = "send", !.to = d]
              \/ pass'[p] = [pass[p] EXCEPT !.pc = "mark"]
  <1> DEFINE q == pass[p]
  <1>0. /\ q \in PassState(DOMAIN mail) /\ InOrder(q) /\ q.pc = "route"
        /\ UNCHANGED <<session, mail, crashes>> /\ DOMAIN mail \in SUBSET Nat
    BY MessageIds DEF Route, Orderly, TypeOK
  <1>1. PICK r : /\ Pass(p, r)
                 /\ \/ r = Idle("failed") \/ r = Deferred(q)
                    \/ /\ r = [q EXCEPT !.pc = "queue"]
                       /\ HasCapacity(q.lead) \/ Delegates(q.lead) = {}
                    \/ \E d \in Delegates(q.lead) :
                          Unread(d) = {} /\ r = [q EXCEPT !.pc = "send", !.to = d]
    BY Zenon DEF Route, Fail
  <1>2. pass'[p] = r /\ \A s \in Dispatchers \ {p} : pass'[s] = pass[s]
    BY <1>1, OthersStay
  <1>3. CASE r = Idle("failed")
    BY <1>0, <1>2, <1>3, IdleLooks DEF Looks
  <1>4. CASE r = Deferred(q)
    <2>1. CASE q.kind = "rebalance" BY <1>0, <1>2, <1>4, <2>1 DEF Deferred
    <2>2. CASE q.kind # "rebalance"
      <3>1. r = Onward(q) BY <1>4, <2>2 DEF Deferred
      <3>2. QED BY <1>0, <1>2, <3>1, OnwardGoesOn DEF Looks
    <2>3. QED BY <2>1, <2>2
  <1>5. QED BY <1>0, <1>1, <1>2, <1>3, <1>4

----------------------------------------------------------------------------
(* Nobody writes to a session that is not there yet, so that a new delegate *)
(* starts with no lead and an empty inbox.                                  *)

Addressed ==
    /\ \A i \in DOMAIN mail : session[mail[i].to].state # "unborn"
    /\ \A p \in Dispatchers : pass[p].pc = "send" => session[pass[p].to].state # "unborn"

LEMMA AddressedStays ==
    ASSUME Orderly, Addressed,
           \A s \in Sessions : session[s].state # "unborn" => session'[s].state # "unborn",
           \A i \in DOMAIN mail' : \/ i \in DOMAIN mail /\ mail'[i].to = mail[i].to
                                   \/ session'[mail'[i].to].state # "unborn",
           \A p \in Dispatchers : pass'[p].pc = "send" =>
              pass'[p] = pass[p] \/ session'[pass'[p].to].state # "unborn"
    PROVE  Addressed'
  <1>1. \A i \in DOMAIN mail : mail[i].to \in Sessions
    BY MessageIds DEF Orderly, Message
  <1>2. \A p \in Dispatchers : pass[p].pc = "send" => pass[p].to \in Sessions
    BY DEF Orderly, InOrder
  <1>3. \A i \in DOMAIN mail' : session'[mail'[i].to].state # "unborn"
    BY <1>1 DEF Addressed
  <1>4. \A p \in Dispatchers : pass'[p].pc = "send" => session'[pass'[p].to].state # "unborn"
    BY <1>2 DEF Addressed
  <1>5. QED BY <1>3, <1>4 DEF Addressed

\* What queueing a delegate does to the sessions.
LEMMA QueueBears ==
    ASSUME Orderly, NEW p \in Dispatchers, QueueDelegate(p)
    PROVE  /\ UNCHANGED <<mail, crashes>> /\ pass[p].pc = "queue"
           /\ \A s \in Sessions : \/ session'[s] = session[s]
                                  \/ session[s].state = "unborn" /\ session'[s].state # "unborn"
           /\ \A r \in Dispatchers \ {p} : pass'[r] = pass[r]
           /\ \/ pass'[p] = Idle("failed")
              \/ /\ pass'[p] = [pass[p] EXCEPT !.pc = "send", !.to = NewId]
                 /\ NewId \in Sessions /\ session[NewId].state = "unborn"
                 /\ session'[NewId].state = "active"
  <1>0. /\ UNCHANGED <<mail, crashes>> /\ pass[p].pc = "queue"
        /\ session \in [Sessions -> [state : {"unborn", "active", "over", "gone"},
                                     task  : Tasks \cup {NoTask}]]
    BY DEF QueueDelegate, Orderly, TypeOK
  <1>1. NewIds # {} => NewId \in Sessions /\ session[NewId].state = "unborn"
    BY DEF NewId, NewIds
  <1>2. CASE Pass(p, Idle("failed"))
    <2>1. \/ UNCHANGED session
          \/ /\ NewIds # {}
             /\ \E state \in {"active", "over"} :
                   session' = [session EXCEPT ![NewId] = [state |-> state, task |-> TaskInHand(p)]]
      BY DEF QueueDelegate
    <2>2. \A s \in Sessions : \/ session'[s] = session[s]
                              \/ session[s].state = "unborn" /\ session'[s].state # "unborn"
      BY <1>0, <1>1, <2>1
    <2>3. QED BY <1>0, <1>2, <2>2, OthersStay
  <1>3. CASE /\ NewIds # {} /\ Pass(p, [pass[p] EXCEPT !.pc = "send", !.to = NewId])
             /\ session' = [session EXCEPT ![NewId] = [state |-> "active", task |-> TaskInHand(p)]]
    <2>1. \A s \in Sessions : \/ session'[s] = session[s]
                              \/ session[s].state = "unborn" /\ session'[s].state # "unborn"
      BY <1>0, <1>1, <1>3
    <2>2. session'[NewId].state = "active" BY <1>0, <1>1, <1>3
    <2>3. QED BY <1>0, <1>1, <1>3, <2>1, <2>2, OthersStay
  <1>4. QED BY <1>2, <1>3 DEF QueueDelegate, Fail

\* What sending a handoff does to the messages and the pass.
LEMMA SendSends ==
    ASSUME Orderly, NEW p \in Dispatchers, SendHandoff(p)
    PROVE  LET m == Handoff(pass[p].lead, pass[p].to, TaskInHand(p), ViaInHand(p)) IN
           /\ UNCHANGED <<session, crashes>> /\ pass[p].pc = "send"
           /\ m \in Message /\ mail' = Append(mail, m)
           /\ m.from = pass[p].lead /\ m.to = pass[p].to /\ m.via = ViaInHand(p)
           /\ \A r \in Dispatchers \ {p} : pass'[r] = pass[r]
           /\ pass'[p].pc \notin {"queue", "send"} /\ pass'[p].todo \subseteq pass[p].todo
           /\ pass[p].kind # "assign" =>
                 \/ pass'[p].pc = "mark" /\ InHand(pass'[p]) = InHand(pass[p])
                 \/ /\ InHand(pass[p]) \notin pass'[p].todo
                    /\ pass[p].kind = "rebalance" /\ pass[p].to = mail[InHand(pass[p])].to
  <1> DEFINE q == pass[p]
             m == Handoff(q.lead, q.to, TaskInHand(p), ViaInHand(p))
  <1>0. /\ q \in PassState(DOMAIN mail) /\ InOrder(q) /\ q.pc = "send"
        /\ UNCHANGED <<session, crashes>> /\ mail' = Append(mail, m) /\ DOMAIN mail \in SUBSET Nat
    BY MessageIds DEF SendHandoff, Orderly, TypeOK
  <1>1. m \in Message /\ m.from = q.lead /\ m.to = q.to /\ m.via = ViaInHand(p)
    BY <1>0, TaskIsTask DEF Handoff, Message, InOrder, PassState
  <1> HIDE DEF m
  <1>2. CASE /\ Pass(p, Onward(q))
             /\ \/ q.kind = "assign"
                \/ q.kind = "rebalance" /\ q.to = mail[InHand(q)].to
    BY <1>0, <1>1, <1>2, OnwardGoesOn, OthersStay DEF m
  <1>3. CASE Pass(p, [q EXCEPT !.pc = "mark"])
    <2> DEFINE n == [q EXCEPT !.pc = "mark"]
    <2>1. n.pc = "mark" /\ n.todo = q.todo /\ InHand(n) = InHand(q)
      BY <1>0 DEF PassState, InHand
    <2>2. Pass(p, n) BY <1>3
    <2> HIDE DEF n
    <2>3. QED BY <1>0, <1>1, <2>1, <2>2, OthersStay DEF m
  <1>4. QED BY <1>2, <1>3 DEF SendHandoff

LEMMA StepKeepsAddressed ==
    ASSUME Orderly, Addressed, [Next]_vars
    PROVE  Addressed'
  <1>1. ASSUME NEW p \in Dispatchers, DispatcherStep(p)
        PROVE  Addressed'
    <2>1. ASSUME Looks(p) \/ (UNCHANGED <<session, mail>> /\ pass'[p].pc # "send"),
                 \A r \in Dispatchers \ {p} : pass'[r] = pass[r]
          PROVE  Addressed'
      BY <2>1 DEF Looks, Addressed
    <2>2. CASE StartDispatch(p) \/ StartRebalance(p) \/ StartAssign(p)
      BY <2>1, <2>2, StartsLook
    <2>3. CASE NextTarget(p) \/ NextRelieved(p) \/ CheckRelieved(p)
      BY <2>1, <2>3, SearchesLook
    <2>4. CASE Route(p)
      <3>1. pass[p] \in PassState(DOMAIN mail) BY DEF Orderly, TypeOK
      <3>2. ASSUME NEW d \in Delegates(pass[p].lead),
                   pass'[p] = [pass[p] EXCEPT !.pc = "send", !.to = d]
            PROVE  Addressed'
        <4>1. session[d].state = "active" /\ pass'[p].to = d
          BY <3>1, <3>2 DEF Delegates, PassState
        <4>2. QED BY <2>4, <4>1, RouteGoes DEF Addressed
      <3>3. ASSUME NEW label \in {"queue", "mark"}, pass'[p] = [pass[p] EXCEPT !.pc = label]
            PROVE  Addressed'
        <4>1. pass'[p].pc = label BY <3>1, <3>3 DEF PassState
        <4>2. QED BY <2>1, <2>4, <4>1, RouteGoes
      <3>4. QED BY <2>1, <2>4, <3>2, <3>3, RouteGoes
    <2>5. CASE QueueDelegate(p)
      <3>0. pass[p] \in PassState(DOMAIN mail) BY DEF Orderly, TypeOK
      <3>1. \/ pass'[p].pc = "failed"
            \/ pass'[p].to = NewId /\ session'[NewId].state # "unborn"
        <4>1. CASE pass'[p] = Idle("failed") BY <4>1, IdleLooks
        <4>2. CASE /\ pass'[p] = [pass[p] EXCEPT !.pc = "send", !.to = NewId]
                   /\ session'[NewId].state = "active"
          BY <3>0, <4>2 DEF PassState
        <4>3. QED BY <2>5, <4>1, <4>2, QueueBears
      <3>2. QED BY <2>5, <3>1, QueueBears, AddressedStays
    <2>6. CASE SendHandoff(p)
      <3> DEFINE m == Handoff(pass[p].lead, pass[p].to, TaskInHand(p), ViaInHand(p))
                 new == Len(mail) + 1
      <3>1. m \in Message /\ mail' = Append(mail, m) /\ m.to = pass[p].to /\ pass[p].pc = "send"
            /\ UNCHANGED session
        BY <2>6, SendSends
      <3> HIDE DEF m
      <3>2. /\ DOMAIN mail' = DOMAIN mail \cup {new}
            /\ \A i \in DOMAIN mail : mail'[i] = mail[i]
            /\ mail'[new] = m
        BY <3>1, Appended
      <3>3. session[m.to].state # "unborn" BY <3>1 DEF Addressed
      <3>4. QED BY <2>6, <3>1, <3>2, <3>3, SendSends, AddressedStays
    <2>7. CASE MarkRead(p)
      <3>1. mail' = Marked({InHand(pass[p])}, "read") /\ UNCHANGED session
        BY <2>7 DEF MarkRead
      <3>2. DOMAIN mail' = DOMAIN mail /\ \A i \in DOMAIN mail : mail'[i].to = mail[i].to
        BY <3>1, MarkedKeepsEnds, MarkedIsMail DEF Orderly
      <3>3. QED BY <2>7, <3>1, <3>2, MarkGoesOn, AddressedStays
    <2>8. CASE Crash(p)
      <3>1. Pass(p, Idle("failed")) /\ UNCHANGED <<session, mail>>
        BY <2>8 DEF Crash, Fail
      <3>2. QED BY <2>1, <3>1, OthersStay, IdleLooks
    <2>9. QED BY <1>1, <2>2, <2>3, <2>4, <2>5, <2>6, <2>7, <2>8 DEF DispatcherStep, PassStep
  <1>2. ASSUME NEW from \in Leads \cup {Outside}, NEW to \in Sessions, Submit(from, to)
        PROVE  Addressed'
    <2> DEFINE m == Handoff(from, to, NewTask, 0)
               new == Len(mail) + 1
    <2>0. mail' = Append(mail, m) /\ UNCHANGED <<session, pass>> /\ Exists(to)
      BY <1>2 DEF Submit
    <2>1. m \in Message /\ m.to = to
      BY <1>2, NewTaskIsNew, ConstantsAssumption DEF Handoff, Message, Submit, ConstantsAssumption
    <2> HIDE DEF m
    <2>2. /\ DOMAIN mail' = DOMAIN mail \cup {new}
          /\ \A i \in DOMAIN mail : mail'[i] = mail[i]
          /\ mail'[new] = m
      BY <2>0, <2>1, Appended
    <2>3. session[m.to].state # "unborn" BY <2>0, <2>1 DEF Exists
    <2>4. QED BY <2>0, <2>2, <2>3, AddressedStays
  <1>3. ASSUME NEW s \in Sessions, SessionEnds(s) \/ UserResumes(s)
        PROVE  Addressed'
    <2>1. UNCHANGED <<mail, pass>>
          /\ \A r \in Sessions : session[r].state # "unborn" => session'[r].state # "unborn"
      BY <1>3 DEF SessionEnds, UserResumes, SessionState, Orderly, TypeOK
    <2>2. QED BY <2>1, AddressedStays
  <1>4. ASSUME NEW s \in Sessions, UserReads(s) \/ UserDeletes(s)
        PROVE  Addressed'
    <2>1. PICK label \in {"read", "deleted"} : \E ids : mail' = Marked(ids, label)
      BY <1>4 DEF UserReads, UserDeletes
    <2>2. DOMAIN mail' = DOMAIN mail /\ \A i \in DOMAIN mail : mail'[i].to = mail[i].to
      BY <2>1, MarkedKeepsEnds, MarkedIsMail DEF Orderly
    <2>3. UNCHANGED pass
          /\ \A r \in Sessions : session[r].state # "unborn" => session'[r].state # "unborn"
      BY <1>4 DEF UserReads, UserDeletes, Orderly, TypeOK
    <2>4. QED BY <2>2, <2>3, AddressedStays
  <1>5. CASE UNCHANGED vars
    BY <1>5 DEF vars, Addressed
  <1>6. QED BY <1>1, <1>2, <1>3, <1>4, <1>5 DEF Next, UserStep

----------------------------------------------------------------------------
(* How large teams get.                                                    *)

Sending(lead) == {p \in Dispatchers : pass[p].pc = "send" /\ pass[p].lead = lead}
Queueing(lead) == {p \in Dispatchers : pass[p].pc = "queue" /\ pass[p].lead = lead}
Recipients(lead) == {pass[p].to : p \in Sending(lead)}

\* The delegates of a lead, and those that a dispatcher is about to make its delegates.
Team(lead) == Delegates(lead) \cup Recipients(lead)

\* A dispatcher that found room has not spawned its delegate yet: each dispatcher but
\* one may have looked before the others' delegates were there.
TeamBound ==
    \A lead \in Sessions :
        Cardinality(Team(lead)) + Cardinality(Queueing(lead))
            <= MaxParallel + Cardinality(Dispatchers) - 1

FewDispatchers == IsFiniteSet(Dispatchers) /\ Dispatchers # {}
NoResume == "resume" \notin UserActs

TeamInv == Orderly /\ Addressed /\ TeamBound

LEMMA TeamSizes ==
    ASSUME Orderly, FewDispatchers, NEW lead \in Sessions
    PROVE  /\ IsFiniteSet(Team(lead)) /\ Cardinality(Team(lead)) \in Nat
           /\ IsFiniteSet(Delegates(lead)) /\ Cardinality(Delegates(lead)) \in Nat
           /\ IsFiniteSet(Queueing(lead)) /\ Cardinality(Queueing(lead)) \in Nat
           /\ Cardinality(Dispatchers) \in Nat
           /\ Cardinality(Delegates(lead)) <= Cardinality(Team(lead))
           /\ Cardinality(Team(lead)) <= Cardinality(Delegates(lead)) + Cardinality(Sending(lead))
           /\ IsFiniteSet(Sending(lead)) /\ Cardinality(Sending(lead)) \in Nat
  <1>1. Delegates(lead) \subseteq Sessions /\ Recipients(lead) \subseteq Sessions
    BY DEF Delegates, Children, Recipients, Sending, Orderly, InOrder
  <1>2. IsFiniteSet(Delegates(lead)) /\ IsFiniteSet(Team(lead)) /\ IsFiniteSet(Recipients(lead))
    BY <1>1, ConstantsAssumption, FS_Subset DEF Team, ConstantsAssumption
  <1>3. IsFiniteSet(Sending(lead)) /\ IsFiniteSet(Queueing(lead))
    <2>1. Sending(lead) \in SUBSET Dispatchers /\ Queueing(lead) \in SUBSET Dispatchers
      BY DEF Sending, Queueing
    <2>2. QED BY <2>1, FS_Subset DEF FewDispatchers
  <1>4. /\ Cardinality(Sending(lead)) \in Nat /\ Cardinality(Queueing(lead)) \in Nat
        /\ Cardinality(Team(lead)) \in Nat /\ Cardinality(Delegates(lead)) \in Nat
        /\ Cardinality(Recipients(lead)) \in Nat /\ Cardinality(Dispatchers) \in Nat
    BY <1>2, <1>3, FS_CardinalityType DEF FewDispatchers
  <1>5. Cardinality(Recipients(lead)) <= Cardinality(Sending(lead))
    <2> DEFINE f == [p \in Sending(lead) |-> pass[p].to]
    <2>1. f \in Surjection(Sending(lead), Recipients(lead))
      BY DEF Surjection, Recipients
    <2> HIDE DEF f
    <2>2. QED BY <1>3, <2>1, FS_Surjection
  <1>6. Cardinality(Delegates(lead)) <= Cardinality(Team(lead))
    BY <1>2, FS_Subset DEF Team
  <1>7. Cardinality(Team(lead)) <= Cardinality(Delegates(lead)) + Cardinality(Recipients(lead))
    <2>1. Cardinality(Team(lead)) = Cardinality(Delegates(lead)) + Cardinality(Recipients(lead))
                                     - Cardinality(Delegates(lead) \cap Recipients(lead))
      BY <1>2, FS_Union DEF Team
    <2>2. Cardinality(Delegates(lead) \cap Recipients(lead)) \in Nat
      BY <1>2, FS_Intersection, FS_CardinalityType
    <2>3. QED BY <1>4, <2>1, <2>2
  <1>8. QED BY <1>2, <1>3, <1>4, <1>5, <1>6, <1>7

\* A dispatcher that does neither leaves one less that is about to spawn or send.
LEMMA OneIsFree ==
    ASSUME Orderly, FewDispatchers, NEW lead \in Sessions, NEW p \in Dispatchers,
           pass[p].pc \notin {"queue", "send"}
    PROVE  Cardinality(Sending(lead)) + Cardinality(Queueing(lead)) <= Cardinality(Dispatchers) - 1
  <1> DEFINE S == Sending(lead) Q == Queueing(lead)
  <1>1. S \cup Q \subseteq Dispatchers \ {p} /\ S \cap Q = {}
    BY DEF Sending, Queueing
  <1>2. IsFiniteSet(S) /\ IsFiniteSet(Q)
        /\ Cardinality(S) \in Nat /\ Cardinality(Q) \in Nat
    BY TeamSizes
  <1> HIDE DEF S, Q
  <1>3. Cardinality(S \cup Q) = Cardinality(S) + Cardinality(Q)
    BY <1>1, <1>2, FS_Union, FS_EmptySet
  <1>4. IsFiniteSet(Dispatchers \ {p}) /\ Cardinality(Dispatchers \ {p}) = Cardinality(Dispatchers) - 1
    BY FS_RemoveElement DEF FewDispatchers
  <1>5. Cardinality(S \cup Q) <= Cardinality(Dispatchers \ {p})
    BY <1>1, <1>4, FS_Subset
  <1>6. QED BY <1>3, <1>4, <1>5 DEF S, Q

\* A step that gives no lead a delegate it was not about to have, and after which no
\* other dispatcher is about to spawn or send.
LEMMA TeamsShrink ==
    ASSUME TeamInv, FewDispatchers, Orderly',
           \A lead \in Sessions : Delegates(lead)' \subseteq Team(lead),
           \A r \in Dispatchers : pass'[r].pc \in {"queue", "send"} => pass'[r] = pass[r]
    PROVE  TeamBound'
  <1> SUFFICES ASSUME NEW lead \in Sessions
               PROVE  (Cardinality(Team(lead)) + Cardinality(Queueing(lead))
                         <= MaxParallel + Cardinality(Dispatchers) - 1)'
    BY DEF TeamBound
  <1>0. Orderly /\ Cardinality(Team(lead)) + Cardinality(Queueing(lead))
                     <= MaxParallel + Cardinality(Dispatchers) - 1
    BY DEF TeamInv, TeamBound
  <1>1. Queueing(lead)' \subseteq Queueing(lead) /\ Recipients(lead)' \subseteq Recipients(lead)
    BY DEF Queueing, Recipients, Sending
  <1>2. Team(lead)' \subseteq Team(lead)
    BY <1>1 DEF Team
  <1>3. /\ Cardinality(Team(lead)') <= Cardinality(Team(lead))
        /\ Cardinality(Queueing(lead)') <= Cardinality(Queueing(lead))
        /\ Cardinality(Team(lead)') \in Nat /\ Cardinality(Queueing(lead)') \in Nat
    BY <1>0, <1>1, <1>2, TeamSizes, FS_Subset, FS_CardinalityType
  <1>4. QED
    BY <1>0, <1>3, TeamSizes, ConstantsAssumption DEF ConstantsAssumption

LEMMA DelegatesFollow ==
    ASSUME Orderly, NEW lead \in Sessions,
           \A s \in Sessions : session'[s].state = "active" => session[s].state = "active",
           Children(lead)' \subseteq Children(lead)
    PROVE  Delegates(lead)' \subseteq Delegates(lead)
  BY DEF Delegates, Children

\* Below the limit there is room for a delegate of every dispatcher.
LEMMA RouteKeepsTeams ==
    ASSUME TeamInv, FewDispatchers, MaxParallel > 0, Orderly', NEW p \in Dispatchers, Route(p)
    PROVE  TeamBound'
  <1> DEFINE q == pass[p]
  <1>0. /\ Orderly /\ q \in PassState(DOMAIN mail) /\ InOrder(q) /\ q.pc = "route" /\ q.lead \in Sessions
        /\ UNCHANGED <<session, mail, crashes>>
        /\ \A r \in Dispatchers \ {p} : pass'[r] = pass[r]
    BY RouteGoes DEF TeamInv, Orderly, TypeOK, InOrder
  <1>1. \A lead : Delegates(lead)' = Delegates(lead)
    BY <1>0 DEF Delegates, Children
  <1>2. CASE pass'[p].pc \notin {"queue", "send"}
    BY <1>0, <1>1, <1>2, TeamsShrink DEF Team
  <1>3. CASE /\ pass'[p] = [q EXCEPT !.pc = "queue"]
             /\ HasCapacity(q.lead) \/ Delegates(q.lead) = {}
    <2>1. pass'[p].pc = "queue" /\ pass'[p].lead = q.lead
      BY <1>0, <1>3 DEF PassState
    <2>2. ASSUME NEW lead \in Sessions
          PROVE  (Cardinality(Team(lead)) + Cardinality(Queueing(lead))
                    <= MaxParallel + Cardinality(Dispatchers) - 1)'
      <3>1. Sending(lead)' = Sending(lead) /\ Recipients(lead)' = Recipients(lead)
            /\ Team(lead)' = Team(lead)
        BY <1>0, <1>1, <2>1 DEF Sending, Recipients, Team
      <3>2. CASE lead # q.lead
        <4>1. Queueing(lead)' = Queueing(lead)
          BY <1>0, <2>1, <3>2 DEF Queueing
        <4>2. QED BY <3>1, <4>1 DEF TeamInv, TeamBound
      <3>3. CASE lead = q.lead
        <4>1. Cardinality(Delegates(lead)) < MaxParallel
          BY <1>3, <3>3, FS_EmptySet DEF HasCapacity
        <4>2. Cardinality(Sending(lead)) + Cardinality(Queueing(lead)) <= Cardinality(Dispatchers) - 1
          BY <1>0, OneIsFree
        <4>3. Queueing(lead)' = Queueing(lead) \cup {p}
          BY <1>0, <2>1, <3>3 DEF Queueing
        <4>4. Cardinality(Queueing(lead)') <= Cardinality(Queueing(lead)) + 1
              /\ Cardinality(Queueing(lead)') \in Nat
          <5>1. IsFiniteSet(Queueing(lead)) /\ Cardinality(Queueing(lead)) \in Nat
            BY <1>0, TeamSizes
          <5>2. Cardinality(Queueing(lead) \cup {p}) \in {Cardinality(Queueing(lead)),
                                                          Cardinality(Queueing(lead)) + 1}
            BY <5>1, FS_AddElement
          <5>3. QED BY <4>3, <5>1, <5>2
        <4>5. QED
          BY <1>0, <3>1, <4>1, <4>2, <4>4, TeamSizes, ConstantsAssumption DEF ConstantsAssumption
      <3>4. QED BY <3>2, <3>3
    <2>3. QED BY <2>2 DEF TeamBound
  <1>4. ASSUME NEW d \in Delegates(q.lead), pass'[p] = [q EXCEPT !.pc = "send", !.to = d]
        PROVE  TeamBound'
    <2>1. pass'[p].pc = "send" /\ pass'[p].lead = q.lead /\ pass'[p].to = d
      BY <1>0, <1>4 DEF PassState
    <2>2. ASSUME NEW lead \in Sessions
          PROVE  Team(lead)' \subseteq Team(lead) /\ Queueing(lead)' = Queueing(lead)
      <3>1. Queueing(lead)' = Queueing(lead)
        BY <1>0, <2>1 DEF Queueing
      <3>2. ASSUME NEW r \in Dispatchers, pass'[r].pc = "send", pass'[r].lead = lead
            PROVE  pass'[r].to \in Team(lead)
        <4>1. CASE r = p
          <5>1. lead = q.lead /\ pass'[r].to = d BY <2>1, <3>2, <4>1
          <5>2. QED BY <1>4, <5>1 DEF Team
        <4>2. CASE r # p BY <1>0, <3>2, <4>2 DEF Team, Recipients, Sending
        <4>3. QED BY <4>1, <4>2
      <3>3. Recipients(lead)' \subseteq Team(lead)
        BY <3>2 DEF Recipients, Sending
      <3>4. QED BY <1>1, <3>1, <3>3 DEF Team
    <2>3. ASSUME NEW lead \in Sessions
          PROVE  (Cardinality(Team(lead)) + Cardinality(Queueing(lead))
                    <= MaxParallel + Cardinality(Dispatchers) - 1)'
      <3>1. /\ Cardinality(Team(lead)') <= Cardinality(Team(lead))
            /\ Cardinality(Team(lead)') \in Nat
        BY <1>0, <2>2, TeamSizes, FS_Subset, FS_CardinalityType
      <3>2. QED
        BY <1>0, <2>2, <3>1, TeamSizes, ConstantsAssumption
        DEF TeamInv, TeamBound, ConstantsAssumption
    <2>4. QED BY <2>3 DEF TeamBound
  <1>5. QED
    <2>1. pass'[p] = [q EXCEPT !.pc = "mark"] => pass'[p].pc = "mark"
      BY <1>0 DEF PassState
    <2>2. QED BY <1>0, <1>2, <1>3, <1>4, <2>1, RouteGoes DEF Looks

LEMMA QueueKeepsTeams ==
    ASSUME TeamInv, FewDispatchers, Orderly', NEW p \in Dispatchers, QueueDelegate(p)
    PROVE  TeamBound'
  <1> DEFINE q == pass[p]
  <1>0. /\ Orderly /\ q \in PassState(DOMAIN mail) /\ q.pc = "queue" /\ UNCHANGED mail
        /\ session \in [Sessions -> [state : {"unborn", "active", "over", "gone"},
                                     task  : Tasks \cup {NoTask}]]
    BY DEF QueueDelegate, TeamInv, Orderly, TypeOK
  <1>1. NewIds # {} => NewId \in Sessions /\ session[NewId].state = "unborn"
    BY DEF NewId, NewIds
  <1>2. \/ UNCHANGED session
        \/ /\ NewIds # {}
           /\ \E state \in {"active", "over"} :
                 session' = [session EXCEPT ![NewId] = [state |-> state, task |-> TaskInHand(p)]]
    BY DEF QueueDelegate
  <1>3. /\ \A s \in Sessions :
              \/ session'[s].state = session[s].state
              \/ session[s].state = "unborn" /\ session'[s].state # "unborn"
        /\ \A i \in DOMAIN mail : mail[i].to \in Sessions /\ session[mail[i].to].state # "unborn"
    <2>1. \A i \in DOMAIN mail : mail[i].to \in Sessions
      BY <1>0, MessageIds DEF Orderly, Message
    <2>2. \A i \in DOMAIN mail : session[mail[i].to].state # "unborn"
      BY DEF TeamInv, Addressed
    <2>3. \A s \in Sessions :
              \/ session'[s].state = session[s].state
              \/ session[s].state = "unborn" /\ session'[s].state # "unborn"
      BY <1>0, <1>1, <1>2
    <2>4. QED BY <2>1, <2>2, <2>3
  <1>4. \A lead : Delegates(lead)' = Delegates(lead)
    BY <1>0, <1>3 DEF Delegates, Children
  <1>5. CASE Pass(p, Idle("failed"))
    <2>1. pass'[p].pc = "failed" /\ \A r \in Dispatchers \ {p} : pass'[r] = pass[r]
      BY <1>0, <1>5, OthersStay, IdleLooks
    <2>2. TeamBound' BY <1>4, <2>1, TeamsShrink DEF Team
    <2>3. QED BY <2>2
  <1>6. CASE /\ NewIds # {} /\ Pass(p, [q EXCEPT !.pc = "send", !.to = NewId])
             /\ session' = [session EXCEPT ![NewId] = [state |-> "active", task |-> TaskInHand(p)]]
    <2>1. /\ pass'[p].pc = "send" /\ pass'[p].lead = q.lead /\ pass'[p].to = NewId
          /\ \A r \in Dispatchers \ {p} : pass'[r] = pass[r]
      <3> DEFINE n == [q EXCEPT !.pc = "send", !.to = NewId]
      <3>1. n.pc = "send" /\ n.lead = q.lead /\ n.to = NewId
        BY <1>0 DEF PassState
      <3> HIDE DEF n
      <3>2. Pass(p, n) BY <1>6 DEF n
      <3>3. QED BY <1>0, <3>1, <3>2, OthersStay
    <2>2. ASSUME NEW lead \in Sessions
          PROVE  (Cardinality(Team(lead)) + Cardinality(Queueing(lead))
                    <= MaxParallel + Cardinality(Dispatchers) - 1)'
      <3>0. /\ IsFiniteSet(Team(lead)) /\ Cardinality(Team(lead)) \in Nat
            /\ IsFiniteSet(Queueing(lead)) /\ Cardinality(Queueing(lead)) \in Nat
            /\ Cardinality(Dispatchers) \in Nat /\ MaxParallel \in Nat
            /\ Cardinality(Team(lead)) + Cardinality(Queueing(lead))
                 <= MaxParallel + Cardinality(Dispatchers) - 1
        BY <1>0, TeamSizes, ConstantsAssumption DEF TeamInv, TeamBound, ConstantsAssumption
      <3>1. CASE lead # q.lead
        <4>1. Queueing(lead)' = Queueing(lead) /\ Sending(lead)' = Sending(lead)
          BY <1>0, <2>1, <3>1 DEF Queueing, Sending
        <4>2. Recipients(lead)' = Recipients(lead)
          BY <1>0, <2>1, <3>1, <4>1 DEF Recipients, Sending
        <4>3. Team(lead)' = Team(lead) BY <1>4, <4>2 DEF Team
        <4>4. QED BY <3>0, <4>1, <4>3
      <3>2. CASE lead = q.lead
        <4>1. Queueing(lead)' = Queueing(lead) \ {p} /\ p \in Queueing(lead)
          BY <1>0, <2>1, <3>2 DEF Queueing
        <4>2. Cardinality(Queueing(lead)') = Cardinality(Queueing(lead)) - 1
          BY <3>0, <4>1, FS_RemoveElement
        <4>3. Recipients(lead)' \subseteq Recipients(lead) \cup {NewId}
          BY <1>0, <2>1 DEF Recipients, Sending
        <4>4. Team(lead)' \subseteq Team(lead) \cup {NewId}
          BY <1>4, <4>3 DEF Team
        <4>5. IsFiniteSet(Team(lead) \cup {NewId})
              /\ Cardinality(Team(lead) \cup {NewId}) \in {Cardinality(Team(lead)),
                                                          Cardinality(Team(lead)) + 1}
          BY <3>0, FS_AddElement
        <4>6. IsFiniteSet(Team(lead)') /\ Cardinality(Team(lead)') <= Cardinality(Team(lead) \cup {NewId})
          BY <4>4, <4>5, FS_Subset
        <4>7. Cardinality(Team(lead)') \in Nat
          BY <4>6, FS_CardinalityType
        <4>8. QED BY <3>0, <4>2, <4>5, <4>6, <4>7
      <3>3. QED BY <3>1, <3>2
    <2>3. QED BY <2>2 DEF TeamBound
  <1>7. QED BY <1>5, <1>6 DEF QueueDelegate, Fail

\* What an append, a mark and a session's end do to the children of a lead.
LEMMA SendKeepsTeams ==
    ASSUME TeamInv, FewDispatchers, Orderly', NEW p \in Dispatchers, SendHandoff(p)
    PROVE  TeamBound'
  <1> DEFINE q == pass[p]
             m == Handoff(q.lead, q.to, TaskInHand(p), ViaInHand(p))
             new == Len(mail) + 1
  <1>0. /\ q \in PassState(DOMAIN mail) /\ InOrder(q) /\ q.pc = "send" /\ Orderly
        /\ UNCHANGED session /\ mail' = Append(mail, m) /\ DOMAIN mail \in SUBSET Nat
    BY MessageIds DEF SendHandoff, TeamInv, Orderly, TypeOK
  <1>1. m \in Message /\ m.from = q.lead /\ m.to = q.to
    BY <1>0, TaskIsTask DEF Handoff, Message, InOrder, PassState
  <1> HIDE DEF m
  <1>2. /\ DOMAIN mail' = DOMAIN mail \cup {new}
        /\ \A i \in DOMAIN mail : mail'[i] = mail[i]
        /\ mail'[new] = m
    BY <1>0, <1>1, Appended
  <1> HIDE DEF new
  <1>3. pass'[p].pc \notin {"queue", "send"} /\ \A r \in Dispatchers \ {p} : pass'[r] = pass[r]
    <2>1. CASE Pass(p, Onward(q))
      BY <1>0, <2>1, OnwardGoesOn, OthersStay
    <2>2. CASE Pass(p, [q EXCEPT !.pc = "mark"])
      <3> DEFINE n == [q EXCEPT !.pc = "mark"]
      <3>1. n.pc = "mark" BY <1>0 DEF PassState
      <3>2. Pass(p, n) BY <2>2
      <3> HIDE DEF n
      <3>3. QED BY <1>0, <3>1, <3>2, OthersStay
    <2>3. QED BY <2>1, <2>2 DEF SendHandoff
  <1>4. ASSUME NEW lead \in Sessions
        PROVE  Delegates(lead)' \subseteq Team(lead)
    <2> SUFFICES ASSUME NEW s \in Sessions, session[s].state = "active",
                        NEW i \in DOMAIN mail', mail'[i].from = lead, mail'[i].to = s,
                        mail'[i].status # "deleted"
                 PROVE  s \in Team(lead)
      BY <1>0 DEF Delegates, Children
    <2>1. CASE i \in DOMAIN mail
      BY <1>2, <2>1 DEF Team, Delegates, Children
    <2>2. CASE i = new
      <3>1. lead = q.lead /\ s = q.to BY <1>1, <1>2, <2>2
      <3>2. QED BY <1>0, <3>1 DEF Team, Recipients, Sending
    <2>3. QED BY <1>2, <2>1, <2>2
  <1>5. QED BY <1>3, <1>4, TeamsShrink

LEMMA UsersKeepTeams ==
    ASSUME TeamInv, FewDispatchers, NoResume, Orderly', UserStep
    PROVE  TeamBound'
  <1>0. /\ Orderly /\ UNCHANGED pass
        /\ \A i \in DOMAIN mail : mail[i] \in Message
    BY MessageIds DEF TeamInv, UserStep, Submit, SessionEnds, UserResumes, SessionState, UserReads,
       UserDeletes, Orderly
  <1>1. ASSUME NEW from \in Leads \cup {Outside}, NEW to \in Sessions, Submit(from, to)
        PROVE  TeamBound'
    <2> DEFINE m == Handoff(from, to, NewTask, 0)
               new == Len(mail) + 1
    <2>0. /\ mail' = Append(mail, m) /\ UNCHANGED session /\ Exists(to)
          /\ from # Outside => to \in Children(from)
      BY <1>1 DEF Submit
    <2>1. m \in Message /\ m.from = from /\ m.to = to
      BY <1>1, NewTaskIsNew, ConstantsAssumption DEF Handoff, Message, Submit, ConstantsAssumption
    <2> HIDE DEF m
    <2>2. /\ DOMAIN mail' = DOMAIN mail \cup {new}
          /\ \A i \in DOMAIN mail : mail'[i] = mail[i]
          /\ mail'[new] = m
      BY <1>0, <2>0, <2>1, Appended
    <2> HIDE DEF new
    <2>3. ASSUME NEW lead \in Sessions
          PROVE  Children(lead)' \subseteq Children(lead)
      <3> SUFFICES ASSUME NEW s \in Sessions, NEW i \in DOMAIN mail', mail'[i].from = lead,
                          mail'[i].to = s, mail'[i].status # "deleted"
                   PROVE  s \in Children(lead)
        BY DEF Children
      <3>1. CASE i \in DOMAIN mail BY <2>2, <3>1 DEF Children
      <3>2. CASE i = new
        <4>1. lead = from /\ s = to BY <2>1, <2>2, <3>2
        <4>2. lead # Outside BY ConstantsAssumption DEF ConstantsAssumption
        <4>3. QED BY <2>0, <4>1, <4>2
      <3>3. QED BY <2>2, <3>1, <3>2
    <2>4. \A lead \in Sessions : Delegates(lead)' \subseteq Team(lead)
      BY <1>0, <2>0, <2>3, DelegatesFollow DEF Team
    <2>5. QED BY <1>0, <2>4, TeamsShrink
  <1>2. ASSUME DOMAIN mail' = DOMAIN mail,
               \A i \in DOMAIN mail : /\ mail'[i].from = mail[i].from /\ mail'[i].to = mail[i].to
                                      /\ mail'[i].status # "deleted" => mail[i].status # "deleted",
               \A s \in Sessions : session'[s].state = "active" => session[s].state = "active"
        PROVE  TeamBound'
    <2>1. \A lead \in Sessions : Children(lead)' \subseteq Children(lead)
      BY <1>2 DEF Children
    <2>2. \A lead \in Sessions : Delegates(lead)' \subseteq Team(lead)
      BY <1>0, <1>2, <2>1, DelegatesFollow DEF Team
    <2>3. QED BY <1>0, <2>2, TeamsShrink
  <1>3. ASSUME NEW ids, NEW label \in {"read", "deleted"}, mail' = Marked(ids, label)
        PROVE  /\ DOMAIN mail' = DOMAIN mail
               /\ \A i \in DOMAIN mail : /\ mail'[i].from = mail[i].from /\ mail'[i].to = mail[i].to
                                         /\ mail'[i].status # "deleted" => mail[i].status # "deleted"
    BY <1>0, <1>3, MarkedKeepsEnds, MarkedIsMail DEF Orderly
  <1>4. ASSUME NEW s \in Sessions, SessionEnds(s)
        PROVE  TeamBound'
    BY <1>2, <1>4 DEF SessionEnds, SessionState, TeamInv, Orderly, TypeOK
  <1>5. ASSUME NEW s \in Sessions, UserReads(s)
        PROVE  TeamBound'
    BY <1>2, <1>3, <1>5 DEF UserReads
  <1>6. ASSUME NEW s \in Sessions, UserDeletes(s)
        PROVE  TeamBound'
    <2>1. \A r \in Sessions : session'[r].state = "active" => session[r].state = "active"
      BY <1>6 DEF UserDeletes, TeamInv, Orderly, TypeOK
    <2>2. PICK ids : mail' = Marked(ids, "deleted") BY <1>6 DEF UserDeletes
    <2>3. QED BY <1>2, <1>3, <2>1, <2>2
  <1>7. QED BY <1>1, <1>4, <1>5, <1>6 DEF UserStep, UserResumes, NoResume

LEMMA StepKeepsTeams ==
    ASSUME TeamInv, FewDispatchers, NoResume, MaxParallel > 0, [Next]_vars
    PROVE  TeamInv'
  <1>0. Orderly /\ Orderly' /\ Addressed'
    BY StepKeepsOrder, StepKeepsAddressed DEF TeamInv
  <1> SUFFICES TeamBound'
    BY <1>0 DEF TeamInv
  \* A step of p after which it is not about to spawn or send, and that sends nothing.
  <1>1. ASSUME NEW p \in Dispatchers, UNCHANGED session,
               pass'[p].pc \notin {"queue", "send"},
               \A r \in Dispatchers \ {p} : pass'[r] = pass[r],
               DOMAIN mail' = DOMAIN mail,
               \A i \in DOMAIN mail : /\ mail'[i].from = mail[i].from /\ mail'[i].to = mail[i].to
                                      /\ mail'[i].status # "deleted" => mail[i].status # "deleted"
        PROVE  TeamBound'
    <2>1. \A lead \in Sessions : Children(lead)' \subseteq Children(lead)
      BY <1>1 DEF Children
    <2>2. \A lead \in Sessions : Delegates(lead)' \subseteq Team(lead)
      BY <1>0, <1>1, <2>1, DelegatesFollow DEF Team
    <2>3. QED BY <1>0, <1>1, <2>2, TeamsShrink
  <1>2. ASSUME NEW p \in Dispatchers, DispatcherStep(p)
        PROVE  TeamBound'
    <2>1. CASE StartDispatch(p) \/ StartRebalance(p) \/ StartAssign(p)
      BY <1>0, <1>1, <2>1, StartsLook DEF Looks
    <2>2. CASE NextTarget(p) \/ NextRelieved(p) \/ CheckRelieved(p)
      BY <1>0, <1>1, <2>2, SearchesLook DEF Looks
    <2>3. CASE Route(p) BY <1>0, <2>3, RouteKeepsTeams
    <2>4. CASE QueueDelegate(p) BY <1>0, <2>4, QueueKeepsTeams
    <2>5. CASE SendHandoff(p) BY <1>0, <2>5, SendKeepsTeams
    <2>6. CASE MarkRead(p)
      <3>1. mail' = Marked({InHand(pass[p])}, "read") /\ UNCHANGED session
        BY <2>6 DEF MarkRead
      <3>2. /\ DOMAIN mail' = DOMAIN mail
            /\ \A i \in DOMAIN mail : /\ mail'[i].from = mail[i].from /\ mail'[i].to = mail[i].to
                                      /\ mail'[i].status # "deleted" => mail[i].status # "deleted"
        BY <1>0, <3>1, MarkedKeepsEnds, MarkedIsMail DEF Orderly
      <3>3. /\ pass'[p].pc \notin {"queue", "send"}
            /\ \A r \in Dispatchers \ {p} : pass'[r] = pass[r]
        BY <1>0, <2>6, MarkGoesOn
      <3>4. QED BY <1>1, <3>1, <3>2, <3>3
    <2>7. CASE Crash(p)
      <3>1. Pass(p, Idle("failed")) /\ UNCHANGED <<session, mail>>
        BY <2>7 DEF Crash, Fail
      <3>2. pass'[p].pc = "failed" /\ \A r \in Dispatchers \ {p} : pass'[r] = pass[r]
        BY <1>0, <3>1, OthersStay, IdleLooks
      <3>3. QED BY <1>1, <3>1, <3>2
    <2>8. QED BY <1>2, <2>1, <2>2, <2>3, <2>4, <2>5, <2>6, <2>7 DEF DispatcherStep, PassStep
  <1>3. CASE UserStep BY <1>0, <1>3, UsersKeepTeams
  <1>4. CASE UNCHANGED vars
    <2>1. UNCHANGED <<session, mail, pass>> BY <1>4 DEF vars
    <2>2. \A lead \in Sessions : Delegates(lead)' \subseteq Team(lead)
      BY <2>1 DEF Team, Delegates, Children
    <2>3. QED BY <1>0, <2>1, <2>2, TeamsShrink
  <1>5. QED BY <1>2, <1>3, <1>4 DEF Next

LEMMA InitHasRoom ==
    ASSUME Init, FewDispatchers, MaxParallel > 0
    PROVE  TeamInv
  <1>1. Orderly BY InitIsOrderly
  <1>2. DOMAIN mail = {}
    BY <1>1, MessageIds DEF Init, Orderly
  <1>3. \A p \in Dispatchers : pass[p].pc = "done"
    BY DEF Init, Idle
  <1>4. Addressed BY <1>2, <1>3 DEF Addressed
  <1>5. ASSUME NEW lead \in Sessions
        PROVE  Cardinality(Team(lead)) + Cardinality(Queueing(lead))
                 <= MaxParallel + Cardinality(Dispatchers) - 1
    <2>1. Team(lead) = {} /\ Queueing(lead) = {}
      BY <1>2, <1>3 DEF Team, Delegates, Children, Recipients, Sending, Queueing
    <2>2. Cardinality(Dispatchers) \in Nat /\ Cardinality(Dispatchers) # 0
      BY FS_CardinalityType, FS_EmptySet DEF FewDispatchers
    <2>3. QED BY <2>1, <2>2, FS_EmptySet, ConstantsAssumption DEF ConstantsAssumption
  <1>6. QED BY <1>1, <1>4, <1>5 DEF TeamInv, TeamBound

\* Each dispatcher but one may make a team larger by one delegate than the limit.
Overrun ==
    \A lead \in Sessions :
        Cardinality(Delegates(lead)) <= MaxParallel + Cardinality(Dispatchers) - 1

\* HasCapacity is asked before the delegate is there, so n dispatchers beside each
\* other may exceed the limit, but never by more than n - 1 delegates: as long as
\* users resume no delegate, and the limit is not 0, where a lead without delegates
\* is given one all the same.
THEOREM TeamsOfMany ==
    ASSUME FewDispatchers, NoResume, MaxParallel > 0
    PROVE  Spec => []Overrun
  <1>1. Init => TeamInv BY InitHasRoom
  <1>2. TeamInv /\ [Next]_vars => TeamInv' BY StepKeepsTeams
  <1>3. TeamInv => Overrun
    <2> SUFFICES ASSUME TeamInv, NEW lead \in Sessions
                 PROVE  Cardinality(Delegates(lead)) <= MaxParallel + Cardinality(Dispatchers) - 1
      BY DEF Overrun
    <2>1. Cardinality(Team(lead)) + Cardinality(Queueing(lead))
            <= MaxParallel + Cardinality(Dispatchers) - 1
      BY DEF TeamInv, TeamBound
    <2>2. QED BY <2>1, TeamSizes, ConstantsAssumption DEF TeamInv, ConstantsAssumption
  <1>4. QED BY <1>1, <1>2, <1>3, PTL DEF Spec

OneDispatcher == \A p, q \in Dispatchers : p = q

\* One dispatcher keeps the limit, in whatever order dispatches, rebalances and
\* assignments follow each other and wherever it crashes.
THEOREM TeamsOfOne ==
    ASSUME OneDispatcher, Dispatchers # {}, NoResume, MaxParallel > 0
    PROVE  Spec => []TeamLimit
  <1>1. FewDispatchers /\ Cardinality(Dispatchers) = 1
    <2>1. PICK p : Dispatchers = {p} BY DEF OneDispatcher
    <2>2. QED BY <2>1, FS_Singleton DEF FewDispatchers
  <1>2. Overrun => TeamLimit
    BY <1>1, ConstantsAssumption DEF Overrun, TeamLimit, ConstantsAssumption
  <1>3. QED BY <1>1, <1>2, TeamsOfMany, PTL

\* The daemon alone keeps the limit too.
THEOREM TeamsOfDaemon ==
    ASSUME OneDispatcher, NoResume, MaxParallel > 0
    PROVE  CycleSpec => []TeamLimit
  <1>1. Dispatchers # {} BY DaemonAssumption
  <1>2. QED BY <1>1, Implements, TeamsOfOne, PTL

----------------------------------------------------------------------------
(* Handoffs are passed on once.                                            *)

PassedOn(i) == \E j \in DOMAIN mail : mail[j].via = i

Marking(i) == \E p \in Dispatchers : pass[p].pc = "mark" /\ InHand(pass[p]) = i

\* The delegate a rebalance takes a handoff from may get it back, and then it stays
\* as it is: it was read, or that delegate would not have been free.
SentBackIsRead(p) ==
    pass[p].pc = "send" /\ pass[p].kind = "rebalance" /\ pass[p].to = mail[InHand(pass[p])].to
        => mail[InHand(pass[p])].status # "unread"

\* A handoff that was passed on is not unread and not still to be done, but for the
\* moment before the pass that sent it marks it.
OnceInv ==
    /\ Orderly /\ Addressed
    /\ \A j \in DOMAIN mail : mail[j].via < j
    /\ PassedOnOnce
    /\ crashes = 0 =>
          /\ \A i \in AllUnread : PassedOn(i) => Marking(i)
          /\ \A p \in Dispatchers : \A i \in pass[p].todo : PassedOn(i) => Marking(i)
          /\ \A p \in Dispatchers : SentBackIsRead(p)

\* A step that sends nothing.
LEMMA OnceStays ==
    ASSUME OnceInv, Orderly', Addressed',
           crashes' = 0 => crashes = 0,
           DOMAIN mail' = DOMAIN mail,
           \A i \in DOMAIN mail : mail'[i].via = mail[i].via,
           crashes' = 0 =>
              /\ \A i \in AllUnread' : i \in AllUnread /\ (Marking(i) => Marking(i)')
              /\ \A p \in Dispatchers : \A i \in pass'[p].todo :
                    \/ \E r \in Dispatchers : i \in pass[r].todo /\ (Marking(i) => Marking(i)')
                    \/ i \in AllUnread /\ (Marking(i) => Marking(i)')
              /\ \A p \in Dispatchers : SentBackIsRead(p)'
    PROVE  OnceInv'
  <1>1. \A i : PassedOn(i)' => PassedOn(i)
    BY DEF PassedOn
  <1>2. PassedOnOnce'
    BY DEF PassedOnOnce, OnceInv
  <1>3. (\A j \in DOMAIN mail : mail[j].via < j)'
    BY DEF OnceInv
  <1>4. ASSUME crashes' = 0
        PROVE  /\ (\A i \in AllUnread : PassedOn(i) => Marking(i))'
               /\ (\A p \in Dispatchers : \A i \in pass[p].todo : PassedOn(i) => Marking(i))'
               /\ (\A p \in Dispatchers : SentBackIsRead(p))'
    BY <1>1, <1>4 DEF OnceInv
  <1>5. QED BY <1>2, <1>3, <1>4 DEF OnceInv

\* A step that sends a handoff.
LEMMA OnceSent ==
    ASSUME OnceInv, Orderly', Addressed', UNCHANGED crashes,
           NEW m \in Message, mail' = Append(mail, m), m.via <= Len(mail),
           crashes = 0 /\ m.via # 0 => ~PassedOn(m.via),
           crashes = 0 =>
              /\ \A i \in AllUnread : (i = m.via => Marking(i)') /\ (Marking(i) => Marking(i)')
              /\ \A p \in Dispatchers : pass'[p].todo \subseteq DOMAIN mail
              /\ \A p \in Dispatchers : \A i \in pass'[p].todo :
                    /\ i = m.via => Marking(i)'
                    /\ \E r \in Dispatchers : i \in pass[r].todo
                    /\ Marking(i) => Marking(i)'
              /\ \A p \in Dispatchers : SentBackIsRead(p)'
    PROVE  OnceInv'
  <1> DEFINE new == Len(mail) + 1
  <1>0. Orderly /\ DOMAIN mail = 1..Len(mail) /\ Len(mail) \in Nat /\ m.via \in Nat
        /\ \A i \in DOMAIN mail : mail[i].via \in Nat
    BY MessageIds DEF OnceInv, Orderly, Message
  <1>1. /\ DOMAIN mail' = DOMAIN mail \cup {new}
        /\ \A i \in DOMAIN mail : mail'[i] = mail[i] /\ i < new
        /\ mail'[new] = m
    BY <1>0, Appended
  <1>2. new \notin DOMAIN mail /\ new \in Nat /\ m.via < new
    BY <1>0
  <1> HIDE DEF new
  <1>3. (\A j \in DOMAIN mail : mail[j].via < j)'
    BY <1>1, <1>2 DEF OnceInv
  <1>4. PassedOnOnce'
    <2> SUFFICES ASSUME NEW i \in DOMAIN mail', NEW j \in DOMAIN mail', crashes = 0, i # j,
                        mail'[i].via # 0
                 PROVE  mail'[i].via # mail'[j].via
      BY DEF PassedOnOnce
    <2>1. CASE i \in DOMAIN mail /\ j \in DOMAIN mail
      BY <1>1, <2>1 DEF OnceInv, PassedOnOnce
    <2>2. CASE i = new /\ j \in DOMAIN mail
      BY <1>1, <2>2 DEF PassedOn
    <2>3. CASE j = new /\ i \in DOMAIN mail
      BY <1>1, <2>3 DEF PassedOn
    <2>4. QED BY <1>1, <2>1, <2>2, <2>3
  <1>5. \A i : PassedOn(i)' => PassedOn(i) \/ i = m.via
    BY <1>1 DEF PassedOn
  <1>6. ~PassedOn(new) /\ new # m.via
    <2>1. \A j \in DOMAIN mail : mail[j].via < new
      BY <1>0, <1>1, <1>2 DEF OnceInv
    <2>2. QED BY <1>0, <1>2, <2>1 DEF PassedOn
  <1>7. ASSUME crashes = 0
        PROVE  /\ (\A i \in AllUnread : PassedOn(i) => Marking(i))'
               /\ (\A p \in Dispatchers : \A i \in pass[p].todo : PassedOn(i) => Marking(i))'
    <2>1. ASSUME NEW i \in AllUnread', PassedOn(i)'
          PROVE  Marking(i)'
      <3>1. i # new BY <1>5, <1>6, <2>1
      <3>2. i \in AllUnread BY <1>1, <2>1, <3>1 DEF AllUnread
      <3>3. QED BY <1>5, <1>7, <2>1, <3>2 DEF OnceInv
    <2>2. ASSUME NEW p \in Dispatchers, NEW i \in pass'[p].todo, PassedOn(i)'
          PROVE  Marking(i)'
      <3>1. CASE i = m.via BY <1>7, <2>2, <3>1
      <3>2. CASE i # m.via
        <4>1. PassedOn(i) BY <1>5, <2>2, <3>2
        <4>2. PICK r \in Dispatchers : i \in pass[r].todo BY <1>7, <2>2
        <4>3. Marking(i) BY <1>7, <4>1, <4>2 DEF OnceInv
        <4>4. QED BY <1>7, <2>2, <4>3
      <3>3. QED BY <3>1, <3>2
    <2>3. QED BY <2>1, <2>2
  <1>8. QED BY <1>3, <1>4, <1>7 DEF OnceInv

LEMMA OneMarks ==
    ASSUME OneDispatcher, NEW p \in Dispatchers
    PROVE  \A i : Marking(i) <=> pass[p].pc = "mark" /\ InHand(pass[p]) = i
  BY DEF Marking, OneDispatcher

LEMMA SentBackIsMail ==
    ASSUME Orderly, NEW p \in Dispatchers, pass[p].pc = "send", pass[p].kind = "rebalance"
    PROVE  InHand(pass[p]) \in DOMAIN mail
  BY InHandIsMail DEF Orderly

\* A step of p that neither marks nor writes a message.
LEMMA OnceMoves ==
    ASSUME OneDispatcher, OnceInv, Orderly', Addressed', NEW p \in Dispatchers,
           pass[p].pc # "mark", UNCHANGED <<mail, crashes>>,
           pass'[p].todo \subseteq pass[p].todo \cup AllUnread, SentBackIsRead(p)'
    PROVE  OnceInv'
  <1>1. \A i : ~Marking(i)
    BY OneMarks
  <1>2. AllUnread' = AllUnread
    BY DEF AllUnread
  <1>3. \A r \in Dispatchers : r = p
    BY DEF OneDispatcher
  <1>4. QED BY <1>1, <1>2, <1>3, OnceStays

LEMMA RouteKeepsOnce ==
    ASSUME OneDispatcher, OnceInv, Orderly', Addressed', NEW p \in Dispatchers, Route(p)
    PROVE  OnceInv'
  <1> DEFINE q == pass[p]
  <1>0. /\ Orderly /\ q \in PassState(DOMAIN mail) /\ InOrder(q) /\ q.pc = "route"
        /\ UNCHANGED <<session, mail, crashes>>
    BY RouteGoes DEF OnceInv, Orderly, TypeOK
  <1>1. CASE Looks(p)
    BY <1>0, <1>1, OnceMoves DEF Looks, SentBackIsRead
  <1>2. ASSUME NEW label \in {"queue", "mark"}, pass'[p] = [q EXCEPT !.pc = label]
        PROVE  OnceInv'
    <2>1. pass'[p].pc = label /\ pass'[p].todo = q.todo
      BY <1>0, <1>2 DEF PassState
    <2>2. QED BY <1>0, <2>1, OnceMoves DEF SentBackIsRead
  <1>3. ASSUME NEW d \in Delegates(q.lead), Unread(d) = {},
               pass'[p] = [q EXCEPT !.pc = "send", !.to = d]
        PROVE  OnceInv'
    <2>1. pass'[p].to = d /\ pass'[p].todo = q.todo /\ pass'[p].kind = q.kind
      BY <1>0, <1>3 DEF PassState
    <2>2. InHand(pass'[p]) = InHand(q)
      BY <2>1 DEF InHand
    <2>3. SentBackIsRead(p)'
      <3> SUFFICES ASSUME q.kind = "rebalance", d = mail[InHand(q)].to
                   PROVE  mail[InHand(q)].status # "unread"
        BY <1>0, <2>1, <2>2 DEF SentBackIsRead
      <3>1. InHand(q) \in DOMAIN mail BY <1>0, InHandIsMail DEF Orderly
      <3>2. QED BY <1>3, <3>1 DEF Unread
    <2>4. QED BY <1>0, <2>1, <2>3, OnceMoves
  <1>4. QED BY <1>0, <1>1, <1>2, <1>3, RouteGoes

LEMMA QueueKeepsOnce ==
    ASSUME OneDispatcher, OnceInv, Orderly', Addressed', NEW p \in Dispatchers, QueueDelegate(p)
    PROVE  OnceInv'
  <1> DEFINE q == pass[p]
  <1>0. /\ Orderly /\ Addressed /\ q \in PassState(DOMAIN mail) /\ q.pc = "queue"
        /\ UNCHANGED <<mail, crashes>>
    BY QueueBears DEF OnceInv, Orderly, TypeOK
  <1>1. CASE pass'[p] = Idle("failed")
    BY <1>0, <1>1, IdleLooks, OnceMoves DEF SentBackIsRead
  <1>2. CASE /\ pass'[p] = [q EXCEPT !.pc = "send", !.to = NewId]
             /\ NewId \in Sessions /\ session[NewId].state = "unborn"
    <2>1. pass'[p].to = NewId /\ pass'[p].todo = q.todo /\ pass'[p].kind = q.kind
      BY <1>0, <1>2 DEF PassState
    <2>2. InHand(pass'[p]) = InHand(q)
      BY <2>1 DEF InHand
    <2>3. SentBackIsRead(p)'
      <3> SUFFICES ASSUME q.kind = "rebalance", NewId = mail[InHand(q)].to
                   PROVE  FALSE
        BY <1>0, <2>1, <2>2 DEF SentBackIsRead
      <3>1. InHand(q) \in DOMAIN mail BY <1>0, InHandIsMail DEF Orderly
      <3>2. QED BY <1>0, <1>2, <3>1 DEF Addressed
    <2>4. QED BY <1>0, <2>1, <2>3, OnceMoves
  <1>3. QED BY <1>0, <1>1, <1>2, QueueBears

LEMMA SendKeepsOnce ==
    ASSUME OneDispatcher, OnceInv, Orderly', Addressed', NEW p \in Dispatchers, SendHandoff(p)
    PROVE  OnceInv'
  <1> DEFINE q == pass[p]
             i == InHand(q)
             m == Handoff(q.lead, q.to, TaskInHand(p), ViaInHand(p))
  <1>0. /\ Orderly /\ q \in PassState(DOMAIN mail) /\ InOrder(q) /\ q.pc = "send"
        /\ DOMAIN mail = 1..Len(mail) /\ Len(mail) \in Nat
    BY SendSends, MessageIds DEF OnceInv, Orderly, TypeOK
  <1>1. /\ UNCHANGED <<session, crashes>> /\ m \in Message /\ mail' = Append(mail, m)
        /\ m.via = ViaInHand(p)
        /\ pass'[p].pc # "send" /\ pass'[p].todo \subseteq q.todo
        /\ q.kind # "assign" =>
              \/ pass'[p].pc = "mark" /\ InHand(pass'[p]) = i
              \/ i \notin pass'[p].todo /\ q.kind = "rebalance" /\ q.to = mail[i].to
    BY <1>0, SendSends
  <1> HIDE DEF m
  <1>2. /\ q.kind = "assign" => m.via = 0
        /\ q.kind # "assign" => m.via = i /\ i \in q.todo /\ i \in DOMAIN mail
    BY <1>0, <1>1, InHandIsMail DEF ViaInHand, Orderly
  <1>3. m.via \in Nat /\ m.via <= Len(mail)
    BY <1>0, <1>2
  <1>4. \A j : ~Marking(j)
    BY <1>0, OneMarks
  <1>5. crashes = 0 /\ m.via # 0 => ~PassedOn(m.via)
    BY <1>2, <1>4 DEF OnceInv
  <1>6. ASSUME NEW j \in AllUnread, crashes = 0, j = m.via
        PROVE  Marking(j)'
    <2>1. q.kind # "assign" /\ j = i
      BY <1>0, <1>2, <1>6 DEF AllUnread
    <2>2. ~(q.kind = "rebalance" /\ q.to = mail[i].to)
      BY <1>0, <1>6, <2>1 DEF OnceInv, SentBackIsRead, AllUnread
    <2>3. QED BY <1>1, <2>1, <2>2 DEF Marking
  <1>7. ASSUME NEW j \in pass'[p].todo, j = m.via
        PROVE  Marking(j)'
    <2>1. q.kind # "assign" /\ j = i
      BY <1>0, <1>1, <1>2, <1>7 DEF PassState
    <2>2. QED BY <1>1, <1>7, <2>1 DEF Marking
  <1>8. q.todo \subseteq DOMAIN mail
    BY <1>0 DEF PassState
  <1>9. SentBackIsRead(p)'
    BY <1>1 DEF SentBackIsRead
  <1>10. \A r \in Dispatchers : r = p
    BY DEF OneDispatcher
  <1>11. QED
    BY <1>1, <1>3, <1>4, <1>5, <1>6, <1>7, <1>8, <1>9, <1>10, OnceSent

LEMMA MarkKeepsOnce ==
    ASSUME OneDispatcher, OnceInv, Orderly', Addressed', NEW p \in Dispatchers, MarkRead(p)
    PROVE  OnceInv'
  <1> DEFINE i == InHand(pass[p])
  <1>1. mail' = Marked({i}, "read") /\ UNCHANGED crashes
    BY DEF MarkRead
  <1>2. /\ DOMAIN mail' = DOMAIN mail
        /\ \A j \in DOMAIN mail :
              /\ mail'[j].via = mail[j].via
              /\ mail'[j].status = "unread" => mail[j].status = "unread" /\ j # i
    BY <1>1, MarkedKeepsEnds, MarkedIsMail DEF OnceInv, Orderly
  <1>3. \A j \in AllUnread' : j \in AllUnread /\ j # i
    BY <1>2 DEF AllUnread
  <1>4. /\ pass'[p].pc # "send" /\ pass'[p].todo \subseteq pass[p].todo /\ i \notin pass'[p].todo
    BY MarkGoesOn DEF OnceInv
  <1>5. \A j : Marking(j) => j = i
    BY OneMarks
  <1>6. \A r \in Dispatchers : r = p
    BY DEF OneDispatcher
  <1>7. SentBackIsRead(p)'
    BY <1>4 DEF SentBackIsRead
  <1>8. QED BY <1>1, <1>2, <1>3, <1>4, <1>5, <1>6, <1>7, OnceStays

\* Users write no message that passes a handoff on.
LEMMA UsersKeepOnce ==
    ASSUME OneDispatcher, OnceInv, Orderly', Addressed', UserStep
    PROVE  OnceInv'
  <1>0. /\ Orderly /\ UNCHANGED <<pass, crashes>> /\ \A i : Marking(i)' <=> Marking(i)
        /\ DOMAIN mail = 1..Len(mail) /\ Len(mail) \in Nat
    BY MessageIds DEF OnceInv, UserStep, Submit, SessionEnds, UserResumes, SessionState, UserReads,
       UserDeletes, Orderly, Marking
  <1>1. ASSUME DOMAIN mail' = DOMAIN mail,
               \A i \in DOMAIN mail : /\ mail'[i].via = mail[i].via /\ mail'[i].to = mail[i].to
                                      /\ mail'[i].status = "unread" => mail[i].status = "unread"
        PROVE  OnceInv'
    <2>1. \A i \in AllUnread' : i \in AllUnread
      BY <1>1 DEF AllUnread
    <2>2. ASSUME NEW p \in Dispatchers, SentBackIsRead(p)
          PROVE  SentBackIsRead(p)'
      BY <1>0, <1>1, <2>2, SentBackIsMail DEF SentBackIsRead
    <2>3. crashes = 0 => \A p \in Dispatchers : SentBackIsRead(p)'
      BY <2>2 DEF OnceInv
    <2>4. QED BY <1>0, <1>1, <2>1, <2>3, OnceStays
  <1>2. ASSUME NEW from \in Leads \cup {Outside}, NEW to \in Sessions, Submit(from, to)
        PROVE  OnceInv'
    <2> DEFINE m == Handoff(from, to, NewTask, 0)
               new == Len(mail) + 1
    <2>0. mail' = Append(mail, m) BY <1>2 DEF Submit
    <2>1. m \in Message /\ m.via = 0
      BY <1>2, NewTaskIsNew, ConstantsAssumption DEF Handoff, Message, Submit, ConstantsAssumption
    <2> HIDE DEF m
    <2>2. \A i \in DOMAIN mail : mail'[i] = mail[i]
      BY <1>0, <2>0, <2>1, Appended
    <2>3. ASSUME NEW p \in Dispatchers, SentBackIsRead(p)
          PROVE  SentBackIsRead(p)'
      BY <1>0, <2>2, <2>3, SentBackIsMail DEF SentBackIsRead
    <2>4. crashes = 0 => \A p \in Dispatchers : SentBackIsRead(p)'
      BY <2>3 DEF OnceInv
    <2>5. \A p \in Dispatchers : pass[p].todo \subseteq DOMAIN mail
      BY <1>0 DEF Orderly, TypeOK, PassState
    <2>6. 0 \notin AllUnread /\ 0 \notin DOMAIN mail
      BY <1>0 DEF AllUnread
    <2>7. QED BY <1>0, <2>0, <2>1, <2>4, <2>5, <2>6, OnceSent
  <1>3. ASSUME NEW s \in Sessions, SessionEnds(s) \/ UserResumes(s)
        PROVE  OnceInv'
    BY <1>1, <1>3 DEF SessionEnds, UserResumes
  <1>4. ASSUME NEW s \in Sessions, UserReads(s) \/ UserDeletes(s)
        PROVE  OnceInv'
    <2>1. PICK label \in {"read", "deleted"} : \E ids : mail' = Marked(ids, label)
      BY <1>4 DEF UserReads, UserDeletes
    <2>2. QED BY <1>0, <1>1, <2>1, MarkedKeepsEnds, MarkedIsMail DEF Orderly
  <1>5. QED BY <1>2, <1>3, <1>4 DEF UserStep

LEMMA StepKeepsOnce ==
    ASSUME OneDispatcher, OnceInv, [Next]_vars
    PROVE  OnceInv'
  <1>0. Orderly /\ Addressed /\ Orderly' /\ Addressed'
    BY StepKeepsOrder, StepKeepsAddressed DEF OnceInv
  <1>1. ASSUME NEW p \in Dispatchers, DispatcherStep(p)
        PROVE  OnceInv'
    <2>1. CASE StartDispatch(p) \/ StartRebalance(p) \/ StartAssign(p)
      BY <1>0, <2>1, StartsLook, OnceMoves DEF Looks, SentBackIsRead
    <2>2. CASE NextTarget(p) \/ NextRelieved(p) \/ CheckRelieved(p)
      BY <1>0, <2>2, SearchesLook, OnceMoves DEF Looks, SentBackIsRead
    <2>3. CASE Route(p) BY <1>0, <2>3, RouteKeepsOnce
    <2>4. CASE QueueDelegate(p) BY <1>0, <2>4, QueueKeepsOnce
    <2>5. CASE SendHandoff(p) BY <1>0, <2>5, SendKeepsOnce
    <2>6. CASE MarkRead(p) BY <1>0, <2>6, MarkKeepsOnce
    <2>7. CASE Crash(p)
      <3>1. UNCHANGED mail /\ crashes' # 0
        BY <1>0, <2>7, ConstantsAssumption DEF Crash, Orderly, TypeOK, ConstantsAssumption
      <3>2. QED BY <1>0, <3>1, OnceStays
    <2>8. QED BY <1>1, <2>1, <2>2, <2>3, <2>4, <2>5, <2>6, <2>7 DEF DispatcherStep, PassStep
  <1>2. CASE UserStep BY <1>0, <1>2, UsersKeepOnce
  <1>3. CASE UNCHANGED vars
    BY <1>0, <1>3 DEF vars, OnceInv, PassedOnOnce, PassedOn, Marking, SentBackIsRead, AllUnread, InHand
  <1>4. QED BY <1>1, <1>2, <1>3 DEF Next

\* No handoff is passed on twice: what a pass has to do was unread when the pass
\* found it, and what was passed on is read before the pass goes on, or was read
\* when it was sent back to where it came from.
THEOREM PassedOnce ==
    ASSUME OneDispatcher
    PROVE  Spec => []PassedOnOnce
  <1>1. Init => OnceInv
    <2> SUFFICES ASSUME Init PROVE OnceInv
      OBVIOUS
    <2>1. Orderly BY InitIsOrderly
    <2>2. DOMAIN mail = {} BY <2>1, MessageIds DEF Init, Orderly
    <2>3. \A p \in Dispatchers : pass[p].pc = "done" /\ pass[p].todo = {}
      BY DEF Init, Idle
    <2>4. QED BY <2>1, <2>2, <2>3 DEF OnceInv, Addressed, PassedOnOnce, AllUnread, SentBackIsRead
  <1>2. OneDispatcher /\ OnceInv /\ [Next]_vars => OnceInv'
    BY StepKeepsOnce
  <1>3. OnceInv => PassedOnOnce BY DEF OnceInv
  <1>4. QED BY <1>1, <1>2, <1>3, PTL DEF Spec

=============================================================================
