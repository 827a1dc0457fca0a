-------------------------- MODULE BacklogDispatch --------------------------
(***************************************************************************)
(* How ecc2 routes work: a session is handed a task by a task_handoff      *)
(* message, and DISPATCHERS (the daemon, a dashboard, a command) move the  *)
(* unread handoffs of an inbox on to the delegates of its session.         *)
(*                                                                         *)
(*  - a dispatch pass (auto_dispatch_backlog) sweeps the inboxes that hold *)
(*    unread handoffs and assigns each handoff to a delegate;              *)
(*  - a rebalance pass (rebalance_all_teams) takes handoffs back from the  *)
(*    delegates that hold several and assigns them again;                  *)
(*  - an assignment (assign_session) does the same for one new task.       *)
(*                                                                         *)
(* Sessions are active (Pending or Running), over, or gone (deleted).      *)
(* Nothing in the code writes Idle, so the branches for Idle delegates are *)
(* not here; handoffs have one priority, and all sessions one agent type.  *)
(***************************************************************************)
EXTENDS Naturals, FiniteSets, SequencesExt, FiniteSetsExt

CONSTANTS
    Sessions,     \* bound: the sessions that may ever exist
    Leads,        \* the sessions there are at first
    Tasks,
    Dispatchers,
    MaxParallel,  \* cfg.max_parallel_sessions
    LeadLimit,    \* sessions one pass visits
    Limit,        \* cfg.auto_dispatch_limit_per_session
    Rebalancing,  \* whether rebalance passes are run
    SpawnFails,   \* whether a delegate's worktree or runner may fail
    UserActs,     \* the things users do, of {"resume", "read", "delete", "assign", "send"}
    MaxCrashes    \* bound: how many dispatchers may crash in a behaviour

Outside == "Outside"     \* a sender that is no session of a team
NoSession == "NoSession"
NoTask == "NoTask"

ASSUME ConstantsAssumption ==
    /\ IsFiniteSet(Sessions) /\ Leads \subseteq Sessions /\ NoTask \notin Tasks
    /\ Outside \notin Sessions
    /\ MaxParallel \in Nat /\ LeadLimit \in Nat /\ Limit \in Nat /\ MaxCrashes \in Nat
    /\ Rebalancing \in BOOLEAN /\ SpawnFails \in BOOLEAN
    /\ UserActs \subseteq {"resume", "read", "delete", "assign", "send"}

VARIABLES
    session,  \* session[s]: its state, and the task it was started with
    mail,     \* the handoffs in the order of their ids; via: the one it passes on
    fate,     \* fate[t]: not submitted yet, open, closed by a user, or dropped
    pass,     \* pass[p]: where the pass of dispatcher p is
    crashes

vars == <<session, mail, fate, pass, crashes>>

Idle(label) == [pc |-> label, kind |-> "none", targets |-> <<>>, lead |-> NoSession,
                relieved |-> <<>>, moved |-> 0, todo |-> {}, task |-> NoTask, to |-> NoSession]

Message ==
    [from : Sessions \cup {Outside}, to : Sessions, task : Tasks, via : Nat,
     status : {"unread", "read", "deleted"}]

\* Where a pass is; ids: the messages there are.
PassState(ids) ==
    [pc       : {"done", "failed", "next", "relieve", "check", "route", "queue", "send", "mark"},
     kind     : {"none", "dispatch", "rebalance", "assign"},
     targets  : Seq(Sessions),
     lead     : Sessions \cup {NoSession},
     relieved : Seq(Sessions),
     moved    : Nat,
     todo     : SUBSET ids,
     task     : Tasks \cup {NoTask},
     to       : Sessions \cup {NoSession}]

TypeOK ==
    /\ session \in [Sessions -> [state : {"unborn", "active", "over", "gone"},
                                 task  : Tasks \cup {NoTask}]]
    /\ mail \in Seq(Message)
    /\ fate \in [Tasks -> {"new", "open", "closed", "dropped"}]
    /\ pass \in [Dispatchers -> PassState(DOMAIN mail)]
    /\ crashes \in 0..MaxCrashes

Init ==
    /\ session = [s \in Sessions |-> [state |-> IF s \in Leads THEN "active" ELSE "unborn",
                                      task |-> NoTask]]
    /\ mail = <<>>
    /\ fate = [t \in Tasks |-> "new"]
    /\ pass = [p \in Dispatchers |-> Idle("done")]
    /\ crashes = 0

----------------------------------------------------------------------------
(* The store.                                                              *)

Exists(s) == session[s].state \in {"active", "over"}

Unread(s) == {i \in DOMAIN mail : mail[i].to = s /\ mail[i].status = "unread"}

\* unread_task_handoffs_for_session: oldest first.
Inbox(s, limit) ==
    {i \in Unread(s) : Cardinality({j \in Unread(s) : j < i}) < limit}

\* The orders of a set in which what comes before stands before.
Orders(S, Before(_, _)) ==
    {order \in SetToSeqs(S) :
        \A i, j \in DOMAIN order : i < j => Before(order[i], order[j])}

First(order, limit) == SubSeq(order, 1, IF limit < Len(order) THEN limit ELSE Len(order))

\* unread_task_handoff_targets: the longest inbox first, then the oldest handoff.
\* A session that is gone is a target as long as handoffs are addressed to it.
SweptBefore(r, s) ==
    \/ Cardinality(Unread(r)) > Cardinality(Unread(s))
    \/ Cardinality(Unread(r)) = Cardinality(Unread(s)) /\ Min(Unread(r)) < Min(Unread(s))

Sweeps == Orders({s \in Sessions : Unread(s) # {}}, SweptBefore)

\* delegated_children: the sessions a handoff of this one was ever sent to.
Children(lead) ==
    {s \in Sessions : \E i \in DOMAIN mail :
        mail[i].from = lead /\ mail[i].to = s /\ mail[i].status # "deleted"}

Delegates(lead) == {s \in Children(lead) : session[s].state = "active"}

\* Fault: the limit is compared as an inclusive one.
HasCapacity_OffByOne(lead) == Cardinality(Delegates(lead)) <= MaxParallel

HasCapacity(lead) == Cardinality(Delegates(lead)) < MaxParallel

LatestFrom(lead, s) ==
    Max({i \in DOMAIN mail : mail[i].from = lead /\ mail[i].to = s /\ mail[i].status # "deleted"})

\* The delegates a rebalance relieves, the one that was sent to last first.
Burdened(lead) ==
    Orders({d \in Delegates(lead) : Cardinality(Unread(d)) > 1},
           LAMBDA x, y : LatestFrom(lead, x) > LatestFrom(lead, y))

Marked(ids, label) ==
    [i \in DOMAIN mail |->
        IF i \in ids /\ mail[i].status # "deleted" THEN [mail[i] EXCEPT !.status = label]
                                                   ELSE mail[i]]

Handoff(from, to, t, via) ==
    [from |-> from, to |-> to, task |-> t, via |-> via, status |-> "unread"]

\* Tasks and session ids are interchangeable: the next ones are picked, no more.
NewTasks == {t \in Tasks : fate[t] = "new"}
NewTask == CHOOSE t \in NewTasks : TRUE

NewIds == {s \in Sessions : session[s].state = "unborn"}
NewId == CHOOSE s \in NewIds : TRUE

TasksOf(ids) == {mail[i].task : i \in ids}
Closed(ts) == [t \in Tasks |-> IF t \in ts THEN "closed" ELSE fate[t]]

----------------------------------------------------------------------------
(* Passes.                                                                 *)

\* The handoff in hand is the oldest of those the pass still has to do.
InHand(q) == Min(q.todo)

Pass(p, next) == pass' = [pass EXCEPT ![p] = next]
Resting(p) == pass[p].pc \in {"done", "failed"}

\* An assignment that fails or is deferred is over: its task is in no inbox, and
\* left to the user who asked.
Refused(p) == IF pass[p].kind = "assign" THEN Closed({pass[p].task}) ELSE fate

\* A rebalance marks what it could not place: the code gives up the handoff.
Dropped(t) == [fate EXCEPT ![t] = IF @ = "open" THEN "dropped" ELSE @]

Fail(p) == Pass(p, Idle("failed")) /\ fate' = Refused(p)

StartDispatch(p) ==
    /\ Resting(p)
    /\ \E order \in Sweeps :
          Pass(p, [Idle("next") EXCEPT !.kind = "dispatch", !.targets = First(order, LeadLimit)])
    /\ UNCHANGED <<session, mail, fate, crashes>>

\* rebalance_all_teams visits active sessions, the most recently updated ones
\* first: an order the model does not keep.
StartRebalance(p) ==
    /\ Rebalancing /\ Resting(p)
    /\ \E order \in SetToSeqs({s \in Sessions : session[s].state = "active"}) :
          Pass(p, [Idle("next") EXCEPT !.kind = "rebalance", !.targets = First(order, LeadLimit)])
    /\ UNCHANGED <<session, mail, fate, crashes>>

StartAssign(p) ==
    /\ "assign" \in UserActs /\ Resting(p) /\ NewTasks # {}
    /\ \E lead \in Sessions :
          /\ Exists(lead)
          /\ fate' = [fate EXCEPT ![NewTask] = "open"]
          /\ Pass(p, [Idle("route") EXCEPT !.kind = "assign", !.lead = lead, !.task = NewTask])
    /\ UNCHANGED <<session, mail, crashes>>

\* The next session of the pass.  One that is gone is an error, which ends the
\* whole pass.
NextTarget(p) ==
    /\ pass[p].pc = "next"
    /\ LET targets == pass[p].targets
           s == Head(targets)
           visit == [pass[p] EXCEPT !.targets = Tail(@), !.lead = s, !.moved = 0]
       IN \/ targets = <<>> /\ Pass(p, Idle("done"))
          \/ targets # <<>> /\ ~Exists(s) /\ Pass(p, Idle("failed"))
          \/ /\ targets # <<>> /\ Exists(s) /\ pass[p].kind = "dispatch"
             /\ Pass(p, IF Inbox(s, Limit) = {}
                        THEN [visit EXCEPT !.lead = NoSession]
                        ELSE [visit EXCEPT !.pc = "route", !.todo = Inbox(s, Limit)])
          \/ /\ targets # <<>> /\ Exists(s) /\ pass[p].kind = "rebalance"
             /\ \E order \in IF HasCapacity(s) THEN Burdened(s) ELSE {<<>>} :
                   Pass(p, [visit EXCEPT !.pc = "relieve", !.relieved = order])
    /\ UNCHANGED <<session, mail, fate, crashes>>

\* Rebalancing: the next delegate with several unread handoffs.
NextRelieved(p) ==
    /\ pass[p].pc = "relieve"
    /\ LET q == pass[p]
       IN Pass(p, IF q.relieved = <<>> \/ q.moved >= Limit
                  THEN [q EXCEPT !.pc = "next", !.lead = NoSession, !.relieved = <<>>]
                  ELSE [q EXCEPT !.pc = "check", !.relieved = Tail(@),
                                 !.todo = Inbox(Head(q.relieved), Limit - q.moved)])
    /\ UNCHANGED <<session, mail, fate, crashes>>

\* Rebalancing: the team must still have capacity, and the handoff must be one
\* the lead sent.
CheckRelieved(p) ==
    /\ pass[p].pc = "check"
    /\ LET q == pass[p]
       IN Pass(p, IF q.todo = {} \/ q.moved >= Limit \/ ~HasCapacity(q.lead)
                  THEN [q EXCEPT !.pc = "relieve", !.todo = {}]
                  ELSE IF mail[InHand(q)].from # q.lead
                  THEN [q EXCEPT !.todo = @ \ {InHand(q)}]
                  ELSE [q EXCEPT !.pc = "route"])
    /\ UNCHANGED <<session, mail, fate, crashes>>

TaskInHand(p) == IF pass[p].kind = "assign" THEN pass[p].task ELSE mail[InHand(pass[p])].task
ViaInHand(p) == IF pass[p].kind = "assign" THEN 0 ELSE InHand(pass[p])

\* What the pass does once it is through with the handoff in hand.
Onward(q) ==
    IF q.kind = "assign" THEN Idle("done")
    ELSE LET rest == [q EXCEPT !.todo = @ \ {InHand(q)}, !.to = NoSession]
         IN IF q.kind = "rebalance" THEN [rest EXCEPT !.pc = "check"]
            ELSE IF rest.todo = {} THEN [rest EXCEPT !.pc = "next", !.lead = NoSession]
            ELSE [rest EXCEPT !.pc = "route"]

\* Fault: a handoff nobody took is marked as read all the same.
Deferred_MarkedRead(q) == IF q.kind = "assign" THEN Idle("done") ELSE [q EXCEPT !.pc = "mark"]

\* A saturated team: a dispatch pass leaves the handoff unread.  A rebalance
\* pass marks it, since it did not go back to the delegate it was taken from.
Deferred(q) ==
    IF q.kind = "rebalance" THEN [q EXCEPT !.pc = "mark"] ELSE Onward(q)

\* assign_session: below the limit a delegate is spawned, at the limit an active
\* one is given the handoff.  The delegate is the one whose context graph scores
\* best, so it may be any; if it has unread handoffs the team is saturated, and
\* whoever asked for an assignment is told so.
Route(p) ==
    /\ pass[p].pc = "route"
    /\ LET q == pass[p] IN
         \/ /\ ~Exists(q.lead)
            /\ Fail(p)
         \/ /\ Exists(q.lead)
            /\ HasCapacity(q.lead) \/ Delegates(q.lead) = {}
            /\ Pass(p, [q EXCEPT !.pc = "queue"])
            /\ UNCHANGED fate
         \/ /\ Exists(q.lead) /\ ~HasCapacity(q.lead)
            /\ \E d \in Delegates(q.lead) :
                 IF Unread(d) = {}
                 THEN Pass(p, [q EXCEPT !.pc = "send", !.to = d]) /\ UNCHANGED fate
                 ELSE /\ Pass(p, Deferred(q))
                      /\ fate' = IF q.kind = "rebalance" THEN Dropped(TaskInHand(p))
                                 ELSE Refused(p)
    /\ UNCHANGED <<session, mail, crashes>>

\* queue_session: the delegate is inserted with the task and its runner started.
\* Either may fail, which ends the pass; a runner that fails leaves a Failed row.
QueueDelegate(p) ==
    /\ pass[p].pc = "queue"
    /\ \/ /\ NewIds # {}
          /\ session' = [session EXCEPT ![NewId] = [state |-> "active", task |-> TaskInHand(p)]]
          /\ Pass(p, [pass[p] EXCEPT !.pc = "send", !.to = NewId])
          /\ UNCHANGED fate
       \/ /\ SpawnFails /\ NewIds # {}
          /\ session' = [session EXCEPT ![NewId] = [state |-> "over", task |-> TaskInHand(p)]]
          /\ Fail(p)
       \/ /\ SpawnFails \/ NewIds = {}
          /\ Fail(p)
          /\ UNCHANGED session
    /\ UNCHANGED <<mail, crashes>>

\* Fault: the handoff that was passed on is left unread.
SendHandoff_Unmarked(p) ==
    /\ pass[p].pc = "send"
    /\ LET q == pass[p] IN
         /\ mail' = Append(mail, Handoff(q.lead, q.to, TaskInHand(p), ViaInHand(p)))
         /\ Pass(p, Onward(q))
    /\ UNCHANGED <<session, fate, crashes>>

\* Nothing asks whether the recipient is still there.
SendHandoff(p) ==
    /\ pass[p].pc = "send"
    /\ LET q == pass[p] IN
         /\ mail' = Append(mail, Handoff(q.lead, q.to, TaskInHand(p), ViaInHand(p)))
         /\ Pass(p, IF \/ q.kind = "assign"
                       \/ q.kind = "rebalance" /\ q.to = mail[InHand(q)].to
                    THEN Onward(q) ELSE [q EXCEPT !.pc = "mark"])
    /\ UNCHANGED <<session, fate, crashes>>

MarkRead(p) ==
    /\ pass[p].pc = "mark"
    /\ LET q == pass[p] IN
         /\ mail' = Marked({InHand(q)}, "read")
         /\ Pass(p, [Onward(q) EXCEPT !.moved = IF q.kind = "rebalance" THEN @ + 1 ELSE @])
    /\ UNCHANGED <<session, fate, crashes>>

PassStep(p) ==
    NextTarget(p) \/ NextRelieved(p) \/ CheckRelieved(p) \/ Route(p)
        \/ QueueDelegate(p) \/ SendHandoff(p) \/ MarkRead(p)

\* A dispatcher that stops, mostly in the middle of a pass, and is started again.
Crash(p) ==
    /\ crashes < MaxCrashes
    /\ Fail(p)
    /\ crashes' = crashes + 1
    /\ UNCHANGED <<session, mail>>

----------------------------------------------------------------------------
(* Sessions and users.                                                     *)

\* messages send: a handoff from a session outside the teams, or one more from
\* a lead to a delegate of its own.
Submit(from, to) ==
    /\ IF from = Outside THEN to \in Leads ELSE "send" \in UserActs /\ to \in Children(from)
    /\ NewTasks # {} /\ Exists(to)
    /\ mail' = Append(mail, Handoff(from, to, NewTask, 0))
    /\ fate' = [fate EXCEPT ![NewTask] = "open"]
    /\ UNCHANGED <<session, pass, crashes>>

SessionState(s, old, new) ==
    /\ session[s].state = old
    /\ session' = [session EXCEPT ![s].state = new]
    /\ UNCHANGED <<fate, pass, crashes>>

SessionEnds(s) == SessionState(s, "active", "over") /\ UNCHANGED mail

UserResumes(s) ==
    "resume" \in UserActs /\ SessionState(s, "over", "active") /\ UNCHANGED mail

\* messages inbox, and the dashboard: everything in the inbox is read.
UserReads(s) ==
    /\ "read" \in UserActs
    /\ Exists(s) /\ Unread(s) # {}
    /\ mail' = Marked(Unread(s), "read")
    /\ fate' = Closed(TasksOf(Unread(s)))
    /\ UNCHANGED <<session, pass, crashes>>

\* delete_session drops every message the session received, and every message
\* it sent.
UserDeletes(s) ==
    /\ "delete" \in UserActs
    /\ session[s].state = "over"
    /\ session' = [session EXCEPT ![s].state = "gone"]
    /\ LET dropped == {i \in DOMAIN mail : s \in {mail[i].from, mail[i].to}} IN
         /\ mail' = Marked(dropped, "deleted")
         /\ fate' = Closed(TasksOf({i \in dropped : mail[i].status = "unread"}))
    /\ UNCHANGED <<pass, crashes>>

----------------------------------------------------------------------------

DispatcherStep(p) ==
    StartDispatch(p) \/ StartRebalance(p) \/ StartAssign(p) \/ PassStep(p) \/ Crash(p)

UserStep ==
    \/ \E from \in Leads \cup {Outside}, to \in Sessions : Submit(from, to)
    \/ \E s \in Sessions : SessionEnds(s) \/ UserResumes(s) \/ UserReads(s) \/ UserDeletes(s)

Next == UserStep \/ \E p \in Dispatchers : DispatcherStep(p)

Spec == Init /\ [][Next]_vars

----------------------------------------------------------------------------
(* Properties.                                                             *)

\* manager.rs:7466 drain_inbox_leaves_saturated_handoffs_unread: what nobody
\* takes stays unread.  Whatever dispatchers, crashes, ends and deletions do, a
\* task that no user closed is in an unread handoff, or some session was started
\* with it, or the assignment that carries it is still under way; unless a
\* rebalance found the team full that had room when it took the handoff.
TaskNotLost ==
    \A t \in Tasks :
        fate[t] = "open" =>
            \/ \E i \in DOMAIN mail : mail[i].task = t /\ mail[i].status = "unread"
            \/ \E s \in Sessions : session[s].task = t
            \/ \E p \in Dispatchers : pass[p].kind = "assign" /\ pass[p].task = t

\* One dispatcher that does not crash passes every handoff on at most once,
\* whichever of its passes follow each other and whoever sends handoffs to the
\* delegates it is relieving.
PassedOnOnce ==
    \A i, j \in DOMAIN mail :
        crashes = 0 /\ i # j /\ mail[i].via # 0 => mail[i].via # mail[j].via

\* One dispatcher never gives a lead more active delegates than the limit.
TeamLimit ==
    \A lead \in Sessions : Cardinality(Delegates(lead)) <= MaxParallel

=============================================================================
