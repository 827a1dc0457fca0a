---------------------------- MODULE IntakeProofs ----------------------------
(***************************************************************************)
(* Theorems about Intake, for any rows, targets, cron functions and bounds. *)
(* No run is skipped by any number of workers.  With one worker requests   *)
(* are answered as RequestLedger promises, and, if every schedule has a    *)
(* further run, a due run is started once.                                 *)
(***************************************************************************)
EXTENDS Intake, TLAPS

OneWorker == \A v, w \in Workers : v = w

AlwaysAgain == \A s \in Schedules : \A t \in 0..Horizon : Cron[s][t] # 0

----------------------------------------------------------------------------
(* What holds of the passes besides their types.                           *)

InSchedules(w) == worker[w].pc \in {"queue", "record_run"}
InRequests(w) == worker[w].pc \in {"serve", "record_success", "record_failure"}

ScheduleEntry == [id : Schedules, key : Dues \cup {0}, to : {NoTarget}]
RequestEntry == [id : Requests, key : {0, 1}, to : Targets \cup {NoTarget}]

\* A pass lists rows of its own table.
ListsItsRows ==
    \A w \in Workers :
        /\ InSchedules(w) => worker[w].todo \subseteq ScheduleEntry
        /\ InRequests(w) => worker[w].todo \subseteq RequestEntry

\* Passes and starts lie in the past, and the run that is being recorded was
\* started in this pass.
TimesAgree ==
    /\ \A w \in Workers : worker[w].now <= clock
    /\ \A s \in Schedules : started[s] <= clock
    /\ \A w \in Workers : \A x \in worker[w].todo :
          worker[w].pc = "record_run" /\ InHand(w, x) => worker[w].now <= started[x.id]

Answering(r) ==
    \E w \in Workers : \E x \in worker[w].todo :
        worker[w].pc = "record_success" /\ InHand(w, x) /\ x.id = r

\* The requests of a pass are pending until it answers them, and listed once.
ListIsPending ==
    \A w \in Workers : InRequests(w) =>
        \A x \in worker[w].todo :
            /\ request[x.id].status = "pending"
            /\ \A y \in worker[w].todo : y.id = x.id => y = x

\* Only work that is about to be recorded goes beyond the crashes.
WorkIsBounded ==
    \A r \in Requests : request[r].status \in {"new", "pending"} =>
        IF Answering(r) THEN work[r] \in 1..(crashes + 1) ELSE work[r] <= crashes

Running(s) ==
    \E w \in Workers : \E x \in worker[w].todo :
        worker[w].pc = "record_run" /\ InHand(w, x) /\ x.id = s

Listed(s) == \E w \in Workers : \E x \in worker[w].todo : InSchedules(w) /\ x.id = s

\* A schedule is listed with its next run, which has come.
ListIsDue ==
    /\ \A w \in Workers : InSchedules(w) =>
          \A x \in worker[w].todo :
              /\ schedule[x.id].row # "absent" /\ x.key = schedule[x.id].next
              /\ x.key <= worker[w].now
    /\ \A s \in Schedules : schedule[s].row = "absent" => schedule[s].next = 0

\* From the next run on, only one that is about to be recorded goes beyond the
\* crashes.
RunsAreBounded ==
    \A s \in Schedules : schedule[s].row # "removed" \/ Listed(s) =>
        \A d \in Dues : d >= schedule[s].next =>
            \/ runs[s][d] <= crashes
            \/ Running(s) /\ d = schedule[s].next /\ runs[s][d] <= crashes + 1

----------------------------------------------------------------------------
(* Types.                                                                  *)

Label == {"schedules", "queue", "record_run", "requests", "serve",
          "record_success", "record_failure"}

Place == [pc : Label, now : 0..Horizon, todo : SUBSET Entry]

\* Going to another place in a pass.
LEMMA Going ==
    ASSUME TypeOK, NEW w \in Workers, NEW label \in Label, NEW todo \in SUBSET Entry,
           Goto(w, label, todo)
    PROVE  /\ worker' \in [Workers -> Place]
           /\ worker'[w].pc = label /\ worker'[w].todo = todo /\ worker'[w].now = worker[w].now
           /\ \A v \in Workers \ {w} : worker'[v] = worker[v]
  <1>1. worker \in [Workers -> Place]
    BY DEF TypeOK, Place, Label
  <1>2. worker' = [worker EXCEPT ![w] = [[worker[w] EXCEPT !.pc = label] EXCEPT !.todo = todo]]
    BY <1>1 DEF Goto
  <1>3. [[worker[w] EXCEPT !.pc = label] EXCEPT !.todo = todo] =
            [pc |-> label, now |-> worker[w].now, todo |-> todo]
    <2>1. PICK p \in Place : p = worker[w]
      BY <1>1
    <2>2. [p EXCEPT !.pc = label] = [pc |-> label, now |-> p.now, todo |-> p.todo]
      BY DEF Place
    <2>3. [[pc |-> label, now |-> p.now, todo |-> p.todo] EXCEPT !.todo = todo] =
            [pc |-> label, now |-> p.now, todo |-> todo]
      OBVIOUS
    <2>4. QED BY <2>1, <2>2, <2>3
  <1>4. [pc |-> label, now |-> worker[w].now, todo |-> todo] \in Place
    BY <1>1 DEF Place
  <1>5. QED BY <1>1, <1>2, <1>3, <1>4

\* The entries of the two tables, and their order.
LEMMA Entries ==
    /\ Dues \subseteq Nat
    /\ ScheduleEntry \subseteq Entry /\ RequestEntry \subseteq Entry
    /\ \A s \in Schedules : \A t \in 0..Horizon : Cron[s][t] \in DuesOf(s) /\ Cron[s][t] \in Dues
  <1>1. \A s \in Schedules : \A t \in 0..Horizon : Cron[s][t] \in Nat
    BY CronAssumption
  <1>2. \A s \in Schedules : \A t \in 0..Horizon : Cron[s][t] \in DuesOf(s)
    BY DEF DuesOf
  <1>3. \A s \in Schedules : DuesOf(s) \subseteq Nat
    BY <1>1 DEF DuesOf
  <1>4. \A d : d \in Dues <=> \E s \in Schedules : d \in DuesOf(s)
    BY DEF Dues
  <1>5. ScheduleEntry \subseteq Entry /\ RequestEntry \subseteq Entry
    BY DEF ScheduleEntry, RequestEntry, Entry
  <1>6. QED BY <1>2, <1>3, <1>4, <1>5

LEMMA OneInHand ==
    ASSUME TypeOK, NEW w \in Workers, NEW x \in worker[w].todo, NEW y \in worker[w].todo,
           InHand(w, x), InHand(w, y)
    PROVE  x = y
  <1>1. x \in Entry /\ y \in Entry
    BY DEF TypeOK
  <1>2. \A e \in Entry : e.key \in Nat /\ e.id \in Nat
    <2>1. Dues \cup {0, 1} \subseteq Nat /\ Schedules \cup Requests \subseteq Nat
      BY Entries, IdsAssumption
    <2>2. QED BY <2>1 DEF Entry
  <1>3. QED BY <1>1, <1>2 DEF InHand, Before

LEMMA DueEntries == ASSUME TypeOK PROVE Due \subseteq ScheduleEntry
  <1> SUFFICES ASSUME NEW s \in Schedules
               PROVE  [id |-> s, key |-> schedule[s].next, to |-> NoTarget] \in ScheduleEntry
    BY DEF Due
  <1>1. QED BY DEF TypeOK, ScheduleEntry

TypesInv == TypeOK /\ ListsItsRows

LEMMA TypesInit == Init => TypesInv
  BY BoundsAssumption DEF Init, TypesInv, TypeOK, ListsItsRows, InSchedules, InRequests

LEMMA GoingLists ==
    ASSUME TypesInv, NEW w \in Workers, NEW label \in Label, NEW todo, Goto(w, label, todo),
           label \in {"queue", "record_run"} => todo \subseteq ScheduleEntry,
           label \notin {"queue", "record_run"} => todo \subseteq RequestEntry
    PROVE  worker' \in [Workers -> Place] /\ ListsItsRows'
  <1>1. todo \in SUBSET Entry
    BY Entries
  <1>2. /\ worker' \in [Workers -> Place]
        /\ worker'[w].pc = label /\ worker'[w].todo = todo
        /\ \A v \in Workers \ {w} : worker'[v] = worker[v]
    BY <1>1, Going DEF TypesInv
  <1>3. QED BY <1>2 DEF TypesInv, ListsItsRows, InSchedules, InRequests

\* The lists of a pass only shrink while it stays in one table.
LEMMA ListsShrink ==
    ASSUME TypesInv, NEW w \in Workers, NEW todo \in SUBSET worker[w].todo
    PROVE  /\ InSchedules(w) => todo \subseteq ScheduleEntry
           /\ InRequests(w) => todo \subseteq RequestEntry
  BY DEF TypesInv, ListsItsRows

LEMMA CountUp ==
    ASSUME NEW S, NEW f \in [S -> Nat], NEW k
    PROVE  [f EXCEPT ![k] = @ + 1] \in [S -> Nat]
  <1>1. CASE k \in S
    BY <1>1
  <1>2. CASE k \notin S
    BY <1>2
  <1>3. QED BY <1>1, <1>2

LEMMA TypesSchedules ==
    ASSUME TypesInv, NEW w \in Workers,
           BeginSchedules(w) \/ \E x \in worker[w].todo : QueueSession(w, x) \/ RecordRun(w, x)
    PROVE  TypesInv'
  <1> USE DEF TypesInv
  <1>1. CASE BeginSchedules(w)
    <2>1. FirstOf(Due, Limit) \subseteq ScheduleEntry /\ FirstOf(Due, Limit) \subseteq Entry
      BY DueEntries, Entries DEF FirstOf
    <2>2. worker' \in [Workers -> Place] /\ ListsItsRows'
      <3> DEFINE p == [pc |-> "queue", now |-> clock, todo |-> FirstOf(Due, Limit)]
      <3>1. p \in Place
        BY <2>1 DEF Place, Label, TypeOK
      <3>2. worker \in [Workers -> Place] /\ worker' = [worker EXCEPT ![w] = p]
        BY <1>1 DEF BeginSchedules, TypeOK, Place, Label
      <3>3. QED BY <2>1, <3>1, <3>2 DEF ListsItsRows, InSchedules, InRequests
    <2>3. QED BY <1>1, <2>2 DEF BeginSchedules, TypeOK, Place, Label, rows, history
  <1>2. ASSUME NEW x \in worker[w].todo, QueueSession(w, x) PROVE TypesInv'
    <2>1. InSchedules(w) /\ x \in ScheduleEntry
      BY <1>2 DEF QueueSession, InSchedules, ListsItsRows
    <2>2. worker' \in [Workers -> Place] /\ ListsItsRows'
      <3>1. CASE Goto(w, "record_run", worker[w].todo)
        BY <2>1, <3>1, ListsShrink, GoingLists DEF Label
      <3>2. CASE Goto(w, "requests", {})
        BY <3>2, GoingLists DEF Label
      <3>3. QED BY <1>2, <3>1, <3>2 DEF QueueSession
    <2>3. runs' \in [Schedules -> [Dues -> Nat]]
      <3>1. CASE UNCHANGED runs
        BY <3>1 DEF TypeOK
      <3>2. CASE runs' = [runs EXCEPT ![x.id][x.key] = @ + 1]
        <4> DEFINE g == runs[x.id]
                   f == [g EXCEPT ![x.key] = @ + 1]
        <4>1. x.id \in Schedules /\ runs \in [Schedules -> [Dues -> Nat]]
          BY <2>1 DEF ScheduleEntry, TypeOK
        <4>2. g \in [Dues -> Nat]
          BY <4>1
        <4> HIDE DEF g
        <4>3. f \in [Dues -> Nat]
          BY <4>2, CountUp
        <4>4. runs' = [runs EXCEPT ![x.id] = f]
          BY <3>2 DEF g
        <4> HIDE DEF f
        <4>5. QED BY <4>1, <4>3, <4>4
      <3>3. QED BY <1>2, <3>1, <3>2 DEF QueueSession
    <2>4. started' \in [Schedules -> 0..Horizon]
      BY <1>2 DEF QueueSession, TypeOK
    <2>5. QED BY <1>2, <2>2, <2>3, <2>4 DEF QueueSession, TypeOK, Place, Label, rows
  <1>3. ASSUME NEW x \in worker[w].todo, RecordRun(w, x) PROVE TypesInv'
    <2>1. InSchedules(w) /\ x \in ScheduleEntry
      BY <1>3 DEF RecordRun, InSchedules, ListsItsRows
    <2>2. worker' \in [Workers -> Place] /\ ListsItsRows'
      <3>1. CASE Goto(w, "queue", worker[w].todo \ {x})
        BY <2>1, <3>1, ListsShrink, GoingLists DEF Label
      <3>2. CASE Goto(w, "requests", {})
        BY <3>2, GoingLists DEF Label
      <3>3. QED BY <1>3, <3>1, <3>2 DEF RecordRun
    <2>3. /\ schedule' \in [Schedules -> [row : {"absent", "there", "removed"}, next : Dues \cup {0}]]
          /\ \A s \in Schedules : schedule'[s].next \in DuesOf(s) \cup {0}
      <3> DEFINE next == Cron[x.id][worker[w].now]
      <3>1. x.id \in Schedules /\ worker[w].now \in 0..Horizon
        BY <2>1 DEF ScheduleEntry, TypeOK
      <3>2. next \in DuesOf(x.id) /\ next \in Dues
        BY <3>1, Entries
      <3>3. \/ UNCHANGED schedule
            \/ schedule' = [schedule EXCEPT ![x.id].next = IF schedule[x.id].row = "there"
                                                           THEN next ELSE @]
        BY <1>3 DEF RecordRun
      <3> DEFINE new == IF schedule[x.id].row = "there" THEN next ELSE schedule[x.id].next
                 row == [schedule[x.id] EXCEPT !.next = new]
      <3> HIDE DEF next
      <3>4. new \in DuesOf(x.id) \cup {0} /\ new \in Dues \cup {0}
        BY <3>1, <3>2 DEF TypeOK
      <3>5. schedule' = schedule \/ schedule' = [schedule EXCEPT ![x.id] = row]
        BY <3>3
      <3> HIDE DEF new
      <3>6. row \in [row : {"absent", "there", "removed"}, next : Dues \cup {0}] /\ row.next = new
        <4>1. schedule[x.id] \in [row : {"absent", "there", "removed"}, next : Dues \cup {0}]
          BY <3>1 DEF TypeOK
        <4>2. QED BY <3>4, <4>1
      <3> HIDE DEF row
      <3>7. CASE schedule' = [schedule EXCEPT ![x.id] = row]
        <4>1. \A s \in Schedules : schedule'[s] = IF s = x.id THEN row ELSE schedule[s]
          BY <3>7 DEF TypeOK
        <4>2. schedule' \in [Schedules -> [row : {"absent", "there", "removed"}, next : Dues \cup {0}]]
          BY <3>6, <3>7 DEF TypeOK
        <4>3. QED BY <3>4, <3>6, <4>1, <4>2 DEF TypeOK
      <3>8. QED BY <3>5, <3>7 DEF TypeOK
    <2>4. QED BY <1>3, <2>2, <2>3 DEF RecordRun, TypeOK, Place, Label, history
  <1>4. QED BY <1>1, <1>2, <1>3

RequestRow == [status : {"new", "pending", "dispatched", "failed"},
               target : Targets \cup {NoTarget}]

LEMMA TypesRequests ==
    ASSUME TypesInv, NEW w \in Workers,
           BeginRequests(w) \/ \E x \in worker[w].todo :
               StartWork(w, x) \/ Defer(w, x) \/ StartFails(w, x) \/ RecordAnswer(w, x)
    PROVE  TypesInv'
  <1> USE DEF TypesInv
  <1>1. CASE BeginRequests(w)
    <2> DEFINE list == {[id |-> r, key |-> IF r \in Urgent THEN 0 ELSE 1,
                     to |-> request[r].target] : r \in Pending}
    <2>1. list \subseteq RequestEntry
      BY DEF Pending, RequestEntry, TypeOK
    <2>2. FirstOf(list, Limit) \subseteq RequestEntry
      BY <2>1 DEF FirstOf
    <2>3. Goto(w, "serve", FirstOf(list, Limit))
      BY <1>1 DEF BeginRequests
    <2> HIDE DEF list
    <2>4. worker' \in [Workers -> Place] /\ ListsItsRows'
      BY <2>2, <2>3, GoingLists DEF Label
    <2>5. QED BY <1>1, <2>4 DEF BeginRequests, TypeOK, Place, Label, rows, history
  <1>2. ASSUME NEW x \in worker[w].todo,
               StartWork(w, x) \/ Defer(w, x) \/ StartFails(w, x) \/ RecordAnswer(w, x)
        PROVE  TypesInv'
    <2>1. InRequests(w) /\ x \in RequestEntry
      BY <1>2 DEF StartWork, Defer, StartFails, RecordAnswer, InRequests, ListsItsRows
    <2>2. worker' \in [Workers -> Place] /\ ListsItsRows'
      <3>1. PICK label \in {"serve", "record_success", "record_failure"},
                 todo \in {worker[w].todo, worker[w].todo \ {x}} : Goto(w, label, todo)
        BY <1>2 DEF StartWork, Defer, StartFails, RecordAnswer
      <3>2. QED BY <2>1, <3>1, ListsShrink, GoingLists DEF Label
    <2>3. work' \in [Requests -> Nat]
      BY <1>2 DEF StartWork, Defer, StartFails, RecordAnswer, TypeOK, history
    <2>4. request' \in [Requests -> [status : {"new", "pending", "dispatched", "failed"},
                                     target : Targets \cup {NoTarget}]]
      <3>1. request \in [Requests -> RequestRow]
        BY DEF TypeOK, RequestRow
      <3>2. \/ UNCHANGED request
            \/ \E answer \in {"dispatched", "failed"} :
                  request' = [request EXCEPT ![x.id].status = answer]
        BY <1>2 DEF StartWork, Defer, StartFails, RecordAnswer, rows
      <3>3. QED BY <3>1, <3>2 DEF RequestRow
    <2>5. UNCHANGED <<clock, schedule, team, broken, runs, started, crashes>>
      BY <1>2 DEF StartWork, Defer, StartFails, RecordAnswer, rows, history
    <2>6. QED BY <2>2, <2>3, <2>4, <2>5 DEF TypeOK, Place, Label
  <1>3. QED BY <1>1, <1>2

LEMMA TypesOthers ==
    ASSUME TypesInv,
           \/ \E w \in Workers : EndPass(w) \/ Crash(w)
           \/ \E s \in Schedules : AddSchedule(s) \/ RemoveSchedule(s) \/ BreaksOrMends(s)
           \/ \E r \in Requests : AddRequest(r)
           \/ \E g \in Targets : TeamChanges(g) \/ LeadDeleted(g)
           \/ Tick
           \/ UNCHANGED vars
    PROVE  TypesInv'
  <1> USE DEF TypesInv
  <1>1. ASSUME NEW w \in Workers, EndPass(w) \/ Crash(w) PROVE TypesInv'
    <2>1. PICK label \in {"requests", "schedules"} : Goto(w, label, {})
      BY <1>1 DEF EndPass, Crash
    <2>2. worker' \in [Workers -> Place] /\ ListsItsRows'
      BY <2>1, GoingLists DEF Label
    <2>3. crashes' \in 0..MaxCrashes
      BY <1>1, BoundsAssumption DEF EndPass, Crash, TypeOK
    <2>4. UNCHANGED <<clock, rows, team, broken, history>>
      BY <1>1 DEF EndPass, Crash
    <2>5. QED BY <2>2, <2>3, <2>4 DEF TypeOK, Place, Label, rows, history
  <1>2. ASSUME NEW s \in Schedules, AddSchedule(s) PROVE TypesInv'
    <2>1. clock \in 0..Horizon
      BY DEF TypeOK
    <2>2. Cron[s][clock] \in DuesOf(s) /\ Cron[s][clock] \in Dues
      BY <2>1, Entries
    <2>3. QED BY <1>2, <2>1, <2>2 DEF AddSchedule, TypeOK, ListsItsRows, InSchedules, InRequests
  <1>3. ASSUME NEW s \in Schedules, RemoveSchedule(s) PROVE TypesInv'
    BY <1>3 DEF RemoveSchedule, TypeOK, ListsItsRows, InSchedules, InRequests, history
  <1>4. ASSUME NEW r \in Requests, AddRequest(r) PROVE TypesInv'
    BY <1>4 DEF AddRequest, TypeOK, ListsItsRows, InSchedules, InRequests, history
  <1>5. ASSUME NEW g \in Targets, TeamChanges(g) \/ LeadDeleted(g) PROVE TypesInv'
    <2>1. /\ team' \in [Targets -> {"room", "saturated", "gone"}]
          /\ UNCHANGED <<clock, schedule, broken, worker, history, crashes>>
      BY <1>5 DEF TeamChanges, LeadDeleted, TypeOK, rows
    <2>2. request' \in [Requests -> [status : {"new", "pending", "dispatched", "failed"},
                                     target : Targets \cup {NoTarget}]]
      <3>1. request \in [Requests -> RequestRow]
        BY DEF TypeOK, RequestRow
      <3>2. \/ UNCHANGED request
            \/ request' = [r \in Requests |->
                             [request[r] EXCEPT !.target = IF @ = g THEN NoTarget ELSE @]]
        BY <1>5 DEF TeamChanges, LeadDeleted, rows
      <3>3. QED BY <3>1, <3>2 DEF RequestRow
    <2>3. QED BY <2>1, <2>2 DEF TypeOK, ListsItsRows, InSchedules, InRequests, history
  <1>8. ASSUME NEW s \in Schedules, BreaksOrMends(s) PROVE TypesInv'
    BY <1>8 DEF BreaksOrMends, TypeOK, ListsItsRows, InSchedules, InRequests, rows, history
  <1>6. CASE Tick
    BY <1>6, BoundsAssumption DEF Tick, TypeOK, ListsItsRows, InSchedules, InRequests, rows, history
  <1>7. CASE UNCHANGED vars
    BY <1>7 DEF vars, TypeOK, ListsItsRows, InSchedules, InRequests, rows, history
  <1>9. QED BY <1>1, <1>2, <1>3, <1>4, <1>5, <1>6, <1>7, <1>8

LEMMA TypesNext == TypesInv /\ [Next]_vars => TypesInv'
  BY TypesSchedules, TypesRequests, TypesOthers DEF Next, WorkerStep

\* Rows, passes and counts are what their types say, whoever runs passes.
THEOREM IntakeTyping == Spec => []TypeOK
  <1>1. Init => TypesInv
    BY TypesInit
  <1>2. TypesInv /\ [Next]_vars => TypesInv'
    BY TypesNext
  <1>3. TypesInv => TypeOK
    BY DEF TypesInv
  <1>4. QED BY <1>1, <1>2, <1>3, PTL DEF Spec

----------------------------------------------------------------------------
(* No run is skipped.                                                      *)

\* What a step may do to the passes and to what they started.
LEMMA TimesKept ==
    ASSUME TypesInv, TypesInv', TimesAgree,
           clock <= clock',
           \A s \in Schedules : started'[s] = started[s] \/ started'[s] = clock,
           \A w \in Workers :
               \/ worker'[w] = worker[w]
               \/ /\ worker'[w].now <= clock'
                  /\ worker'[w].pc = "record_run" =>
                        \A x \in worker'[w].todo : InHand(w, x)' => worker'[w].now <= started'[x.id]
    PROVE  TimesAgree'
  <1>1. clock \in Nat /\ clock' \in Nat
    BY DEF TypesInv, TypeOK
  <1>2. \A s \in Schedules : /\ started[s] \in Nat /\ started'[s] \in Nat
                             /\ started[s] <= started'[s] /\ started'[s] <= clock'
    <2> TAKE s \in Schedules
    <2>1. started[s] \in Nat /\ started'[s] \in Nat
      BY DEF TypesInv, TypeOK
    <2>2. started[s] <= clock
      BY DEF TimesAgree
    <2>3. QED BY <1>1, <2>1, <2>2
  <1>3. ASSUME NEW w \in Workers PROVE worker'[w].now <= clock'
    BY <1>1 DEF TypesInv, TypeOK, TimesAgree
  <1>4. ASSUME NEW w \in Workers, NEW x \in worker'[w].todo,
               worker'[w].pc = "record_run", InHand(w, x)'
        PROVE  worker'[w].now <= started'[x.id]
    <2>1. CASE worker'[w] = worker[w]
      <3>1. x \in worker[w].todo /\ InHand(w, x) /\ worker[w].pc = "record_run"
        BY <1>4, <2>1 DEF InHand
      <3>2. worker[w].now <= started[x.id]
        BY <3>1 DEF TimesAgree
      <3>3. x.id \in Schedules
        BY <3>1 DEF TypesInv, ListsItsRows, InSchedules, ScheduleEntry
      <3>4. worker[w].now \in Nat
        BY DEF TypesInv, TypeOK
      <3>5. QED BY <1>2, <2>1, <3>2, <3>3, <3>4
    <2>2. QED BY <1>4, <2>1
  <1>5. QED BY <1>2, <1>3, <1>4 DEF TimesAgree

LEMMA SkipInit == Init => TimesAgree /\ NoRunSkipped
  BY BoundsAssumption DEF Init, TimesAgree, NoRunSkipped

LEMMA SkipSchedules ==
    ASSUME TypesInv, TypesInv', TimesAgree, NoRunSkipped, NEW w \in Workers,
           BeginSchedules(w) \/ \E x \in worker[w].todo : QueueSession(w, x) \/ RecordRun(w, x)
    PROVE  TimesAgree' /\ NoRunSkipped'
  <1>0. TypeOK /\ clock \in 0..Horizon /\ worker[w].now \in 0..Horizon /\ worker[w].now <= clock
    BY DEF TypesInv, TypeOK, TimesAgree
  <1>1. CASE BeginSchedules(w)
    <2>1. /\ worker'[w].now = clock /\ worker'[w].pc = "queue"
          /\ \A v \in Workers \ {w} : worker'[v] = worker[v]
          /\ UNCHANGED <<clock, started, schedule>>
      BY <1>0, <1>1 DEF BeginSchedules, TypeOK, rows, history
    <2>2. TimesAgree'
      BY <1>0, <2>1, TimesKept
    <2>3. QED BY <2>1, <2>2 DEF NoRunSkipped
  <1>2. ASSUME NEW x \in worker[w].todo, QueueSession(w, x) PROVE TimesAgree' /\ NoRunSkipped'
    <2>1. x.id \in Schedules /\ InHand(w, x)
      BY <1>2 DEF QueueSession, TypesInv, ListsItsRows, InSchedules, ScheduleEntry
    <2>2. UNCHANGED <<clock, schedule>>
      BY <1>2 DEF QueueSession, rows
    <2>3. CASE started' = [started EXCEPT ![x.id] = clock] /\ Goto(w, "record_run", worker[w].todo)
      <3>1. /\ worker'[w].now = worker[w].now /\ worker'[w].todo = worker[w].todo
            /\ \A v \in Workers \ {w} : worker'[v] = worker[v]
        BY <1>0, <2>3, Going DEF TypeOK, Label
      <3>2. \A s \in Schedules : started'[s] = IF s = x.id THEN clock ELSE started[s]
        BY <1>0, <2>3 DEF TypeOK
      <3>3. ASSUME NEW y \in worker'[w].todo, InHand(w, y)'
            PROVE  worker'[w].now <= started'[y.id]
        <4>1. y \in worker[w].todo /\ InHand(w, y)
          BY <3>1, <3>3 DEF InHand
        <4>2. y = x
          BY <1>0, <2>1, <4>1, OneInHand
        <4>3. QED BY <1>0, <2>1, <3>1, <3>2, <4>2
      <3>4. TimesAgree'
        BY <1>0, <2>2, <3>1, <3>2, <3>3, TimesKept
      <3>5. ASSUME NEW s \in Schedules, schedule[s].row = "there", Cron[s][started'[s]] # 0
            PROVE  schedule[s].next <= Cron[s][started'[s]]
        <4>1. started[s] \in 0..Horizon /\ started[s] <= clock /\ started'[s] \in 0..Horizon
          BY <1>0, <3>2 DEF TypeOK, TimesAgree
        <4>2. started[s] <= started'[s]
          BY <1>0, <3>2, <4>1
        <4>3. Cron[s][started[s]] # 0 /\ Cron[s][started[s]] <= Cron[s][started'[s]]
          BY <3>5, <4>1, <4>2, CronAssumption
        <4>4. schedule[s].next <= Cron[s][started[s]]
          BY <3>5, <4>3 DEF NoRunSkipped
        <4>5. schedule[s].next \in Nat /\ Cron[s][started[s]] \in Nat /\ Cron[s][started'[s]] \in Nat
          <5>1. schedule[s].next \in Dues \cup {0}
            BY <1>0 DEF TypeOK
          <5>2. Dues \cup {0} \subseteq Nat
            BY Entries
          <5>3. schedule[s].next \in Nat
            BY <5>1, <5>2
          <5>4. QED BY <4>1, <5>3, CronAssumption
        <4>6. QED BY <4>3, <4>4, <4>5
      <3>6. QED BY <2>2, <3>4, <3>5 DEF NoRunSkipped
    <2>4. CASE Goto(w, "requests", {}) /\ UNCHANGED started
      <3>1. /\ worker'[w].now = worker[w].now /\ worker'[w].pc = "requests"
            /\ \A v \in Workers \ {w} : worker'[v] = worker[v]
        BY <1>0, <2>4, Going DEF Label
      <3>2. TimesAgree'
        BY <1>0, <2>2, <2>4, <3>1, TimesKept
      <3>3. QED BY <2>2, <2>4, <3>2 DEF NoRunSkipped
    <2>5. QED BY <1>2, <2>3, <2>4 DEF QueueSession
  <1>3. ASSUME NEW x \in worker[w].todo, RecordRun(w, x) PROVE TimesAgree' /\ NoRunSkipped'
    <2>1. /\ x.id \in Schedules /\ InHand(w, x) /\ worker[w].pc = "record_run"
          /\ x \in Entry
      BY <1>3 DEF RecordRun, TypesInv, TypeOK, ListsItsRows, InSchedules, ScheduleEntry
    <2>2. UNCHANGED <<clock, started>>
      BY <1>3 DEF RecordRun, history
    <2>3. /\ worker'[w].now = worker[w].now /\ worker'[w].pc \in {"queue", "requests"}
          /\ \A v \in Workers \ {w} : worker'[v] = worker[v]
      <3>1. PICK label \in {"queue", "requests"}, todo \in SUBSET Entry : Goto(w, label, todo)
        <4>1. worker[w].todo \in SUBSET Entry
          BY <1>0 DEF TypeOK
        <4>2. QED BY <1>3, <4>1 DEF RecordRun
      <3>2. QED BY <1>0, <3>1, Going DEF Label
    <2>4. TimesAgree'
      BY <1>0, <2>2, <2>3, TimesKept
    <2>5. ASSUME NEW s \in Schedules, schedule'[s].row = "there", Cron[s][started[s]] # 0
          PROVE  schedule'[s].next <= Cron[s][started[s]]
      <3>1. schedule'[s] = schedule[s] \/ (s = x.id /\ schedule'[s].next = Cron[s][worker[w].now])
        <4> DEFINE new == IF schedule[x.id].row = "there" THEN Cron[x.id][worker[w].now]
                                                          ELSE schedule[x.id].next
        <4>1. schedule' = schedule \/ schedule' = [schedule EXCEPT ![x.id].next = new]
          BY <1>3 DEF RecordRun
        <4>2. CASE schedule' = [schedule EXCEPT ![x.id].next = new]
          <5> HIDE DEF new
          <5>1. schedule'[s] = IF s = x.id THEN [schedule[s] EXCEPT !.next = new] ELSE schedule[s]
            BY <1>0, <4>2 DEF TypeOK
          <5>2. s = x.id => schedule'[s].row = schedule[s].row /\ schedule'[s].next = new
            BY <1>0, <5>1 DEF TypeOK
          <5>3. schedule[x.id].row = "there" => new = Cron[x.id][worker[w].now]
            BY DEF new
          <5>4. QED BY <2>5, <5>1, <5>2, <5>3
        <4>3. QED BY <4>1, <4>2
      <3>2. CASE schedule'[s] = schedule[s]
        BY <2>5, <3>2 DEF NoRunSkipped
      <3>3. CASE s = x.id /\ schedule'[s].next = Cron[s][worker[w].now]
        <4>1. worker[w].now <= started[s]
          BY <2>1, <3>3 DEF TimesAgree
        <4>2. started[s] \in 0..Horizon
          BY <1>0 DEF TypeOK
        <4>3. QED BY <1>0, <2>5, <3>3, <4>1, <4>2, CronAssumption
      <3>4. QED BY <3>1, <3>2, <3>3
    <2>6. QED BY <2>2, <2>4, <2>5 DEF NoRunSkipped
  <1>4. QED BY <1>1, <1>2, <1>3

\* The other steps of workers leave schedules and starts alone.
LEMMA SkipRequests ==
    ASSUME TypesInv, TypesInv', TimesAgree, NoRunSkipped, NEW w \in Workers,
           \/ BeginRequests(w) \/ EndPass(w) \/ Crash(w)
           \/ \E x \in worker[w].todo :
                 StartWork(w, x) \/ Defer(w, x) \/ StartFails(w, x) \/ RecordAnswer(w, x)
    PROVE  TimesAgree' /\ NoRunSkipped'
  <1>1. UNCHANGED <<clock, schedule, started>>
    BY DEF BeginRequests, EndPass, Crash, StartWork, Defer, StartFails, RecordAnswer, rows, history
  <1>2. TypeOK /\ clock \in 0..Horizon /\ worker[w].now <= clock /\ worker[w].todo \in SUBSET Entry
    BY DEF TypesInv, TypeOK, TimesAgree
  <1>3. PICK label, todo : label \in Label \ {"record_run"} /\ Goto(w, label, todo)
    BY DEF BeginRequests, EndPass, Crash, StartWork, Defer, StartFails, RecordAnswer, Label
  <1>4. /\ worker'[w].now = worker[w].now /\ worker'[w].pc # "record_run"
        /\ \A v \in Workers \ {w} : worker'[v] = worker[v]
    <2>1. worker \in [Workers -> Place]
      BY <1>2 DEF TypeOK, Place, Label
    <2>2. QED BY <1>3, <2>1 DEF Goto, Place, Label
  <1>5. TimesAgree'
    BY <1>1, <1>2, <1>4, TimesKept
  <1>6. QED BY <1>1, <1>5 DEF NoRunSkipped

LEMMA SkipOthers ==
    ASSUME TypesInv, TypesInv', TimesAgree, NoRunSkipped,
           \/ \E s \in Schedules : AddSchedule(s) \/ RemoveSchedule(s) \/ BreaksOrMends(s)
           \/ \E r \in Requests : AddRequest(r)
           \/ \E g \in Targets : TeamChanges(g) \/ LeadDeleted(g)
           \/ Tick
           \/ UNCHANGED vars
    PROVE  TimesAgree' /\ NoRunSkipped'
  <1>1. UNCHANGED worker
    BY DEF AddSchedule, RemoveSchedule, BreaksOrMends, AddRequest, TeamChanges, LeadDeleted, Tick, vars
  <1>2. TypeOK /\ clock \in 0..Horizon
    BY DEF TypesInv, TypeOK
  <1>3. ASSUME NEW s \in Schedules, AddSchedule(s) PROVE TimesAgree' /\ NoRunSkipped'
    <2>1. /\ \A q \in Schedules : started'[q] = IF q = s THEN clock ELSE started[q]
          /\ \A q \in Schedules : schedule'[q] = IF q = s THEN [row |-> "there", next |-> Cron[s][clock]]
                                                          ELSE schedule[q]
          /\ UNCHANGED clock
      BY <1>2, <1>3 DEF AddSchedule, TypeOK
    <2>2. TimesAgree'
      BY <1>1, <1>2, <2>1, TimesKept
    <2>3. Cron[s][clock] \in Nat
      BY <1>2, CronAssumption
    <2>4. QED BY <2>1, <2>2, <2>3 DEF NoRunSkipped
  <1>4. ASSUME NEW s \in Schedules, RemoveSchedule(s) PROVE TimesAgree' /\ NoRunSkipped'
    <2>1. /\ \A q \in Schedules : schedule'[q].row = "there" => schedule'[q] = schedule[q]
          /\ UNCHANGED <<clock, started>>
      BY <1>2, <1>4 DEF RemoveSchedule, TypeOK, history
    <2>2. TimesAgree'
      BY <1>1, <1>2, <2>1, TimesKept
    <2>3. QED BY <2>1, <2>2 DEF NoRunSkipped
  <1>5. CASE UNCHANGED <<schedule, started>> /\ clock <= clock'
    <2>1. TimesAgree'
      BY <1>1, <1>5, TimesKept
    <2>2. QED BY <1>5, <2>1 DEF NoRunSkipped
  <1>6. CASE \/ \E r \in Requests : AddRequest(r)
             \/ \E s \in Schedules : BreaksOrMends(s)
             \/ \E g \in Targets : TeamChanges(g) \/ LeadDeleted(g)
             \/ Tick \/ UNCHANGED vars
    BY <1>2, <1>5, <1>6
    DEF AddRequest, BreaksOrMends, TeamChanges, LeadDeleted, Tick, vars, rows, history
  <1>7. QED BY <1>3, <1>4, <1>6

\* A run that becomes due while a pass is under way is due still: any number of
\* workers may run passes, crash, and record runs of schedules started by others.
THEOREM NoRunSkippedTheorem == Spec => []NoRunSkipped
  <1> DEFINE Inv == TypesInv /\ TimesAgree /\ NoRunSkipped
  <1>1. Init => Inv
    BY TypesInit, SkipInit
  <1>2. Inv /\ [Next]_vars => Inv'
    <2> SUFFICES ASSUME Inv, [Next]_vars PROVE Inv'
      OBVIOUS
    <2>1. TypesInv'
      BY TypesNext
    <2>2. TimesAgree' /\ NoRunSkipped'
      BY <2>1, SkipSchedules, SkipRequests, SkipOthers DEF Next, WorkerStep
    <2>3. QED BY <2>1, <2>2
  <1>3. QED BY <1>1, <1>2, PTL DEF Spec

----------------------------------------------------------------------------
(* One worker answers requests as RequestLedger promises.                  *)

LEMMA SameEntry ==
    ASSUME NEW x \in Entry, NEW y \in Entry, x.id = y.id, x.key = y.key, x.to = y.to
    PROVE  x = y
  <1>1. x = [id |-> x.id, key |-> x.key, to |-> x.to] /\ y = [id |-> y.id, key |-> y.key, to |-> y.to]
    BY DEF Entry
  <1>2. QED BY <1>1

AnswersInv == TypesInv /\ ListIsPending /\ WorkIsBounded

\* The one worker is answering r when r is in hand and its work was started.
LEMMA OneAnswers ==
    ASSUME OneWorker, NEW w \in Workers, NEW r
    PROVE  /\ Answering(r) <=> /\ worker[w].pc = "record_success"
                               /\ \E x \in worker[w].todo : InHand(w, x) /\ x.id = r
           /\ Answering(r)' <=> /\ worker'[w].pc = "record_success"
                                /\ \E x \in worker'[w].todo : InHand(w, x)' /\ x.id = r
  BY DEF OneWorker, Answering

\* Steps that neither touch a request nor start work.
LEMMA Quiet ==
    ASSUME OneWorker, AnswersInv, NEW w \in Workers,
           UNCHANGED <<request, work, crashes>>,
           \/ UNCHANGED worker
           \/ /\ worker[w].pc # "record_success" /\ worker'[w].pc # "record_success"
              /\ InRequests(w)' => \A x \in worker'[w].todo :
                    /\ request[x.id].status = "pending"
                    /\ \A y \in worker'[w].todo : y.id = x.id => y = x
    PROVE  ListIsPending' /\ WorkIsBounded' /\ UNCHANGED Ledger!ledger
  <1>1. UNCHANGED Ledger!ledger
    BY DEF Ledger!ledger
  <1>2. CASE UNCHANGED worker
    <2>1. ListIsPending'
      BY <1>2 DEF AnswersInv, ListIsPending, InRequests
    <2>2. \A r \in Requests : Answering(r)' <=> Answering(r)
      BY <1>2 DEF Answering, InHand
    <2>3. WorkIsBounded'
      BY <2>2 DEF AnswersInv, WorkIsBounded
    <2>4. QED BY <1>1, <2>1, <2>3
  <1>3. CASE ~UNCHANGED worker
    <2>1. \A r \in Requests : ~Answering(r) /\ ~Answering(r)'
      BY <1>3, OneAnswers
    <2>2. WorkIsBounded'
      BY <2>1 DEF AnswersInv, WorkIsBounded
    <2>3. ListIsPending'
      BY <1>3 DEF OneWorker, ListIsPending, InRequests
    <2>4. QED BY <1>1, <2>2, <2>3
  <1>4. QED BY <1>2, <1>3

LEMMA AnswersStartWork ==
    ASSUME OneWorker, AnswersInv, NEW w \in Workers, NEW x \in worker[w].todo, StartWork(w, x)
    PROVE  ListIsPending' /\ WorkIsBounded' /\ Ledger!Start(x.id)
  <1>1. /\ TypeOK /\ worker[w].todo \in SUBSET Entry /\ InHand(w, x)
        /\ x.id \in Requests /\ request[x.id].status = "pending"
    BY DEF AnswersInv, TypesInv, TypeOK, ListsItsRows, ListIsPending, StartWork, InRequests,
           RequestEntry
  <1>2. \A r \in Requests : ~Answering(r)
    BY OneAnswers DEF StartWork
  <1>3. work[x.id] <= crashes /\ crashes \in Nat /\ work \in [Requests -> Nat]
    BY <1>1, <1>2, BoundsAssumption DEF AnswersInv, WorkIsBounded, TypeOK
  <1>4. /\ \A r \in Requests : work'[r] = IF r = x.id THEN work[r] + 1 ELSE work[r]
        /\ UNCHANGED <<request, crashes>>
    BY <1>3 DEF StartWork, rows
  <1>5. /\ worker'[w].pc = "record_success" /\ worker'[w].todo = worker[w].todo
        /\ \A v \in Workers \ {w} : worker'[v] = worker[v]
    BY <1>1, Going DEF StartWork, Label
  <1>6. \A y \in worker[w].todo : InHand(w, y)' <=> y = x
    BY <1>1, <1>5, OneInHand DEF InHand
  <1>7. \A r \in Requests : Answering(r)' <=> r = x.id
    BY <1>5, <1>6, OneAnswers
  <1>8. WorkIsBounded'
    <2> SUFFICES ASSUME NEW r \in Requests, request[r].status \in {"new", "pending"}
                 PROVE  IF Answering(r)' THEN work'[r] \in 1..(crashes + 1) ELSE work'[r] <= crashes
      BY <1>4 DEF WorkIsBounded
    <2>1. CASE r = x.id
      BY <1>3, <1>4, <1>7, <2>1
    <2>2. CASE r # x.id
      <3>1. work[r] <= crashes
        BY <1>2 DEF AnswersInv, WorkIsBounded
      <3>2. QED BY <1>4, <1>7, <2>2, <3>1
    <2>3. QED BY <2>1, <2>2
  <1>9. ListIsPending'
    BY <1>4, <1>5 DEF OneWorker, AnswersInv, ListIsPending, InRequests, StartWork
  <1>10. Ledger!Start(x.id)
    BY <1>1, <1>3, <1>4 DEF Ledger!Start, StartWork
  <1>11. QED BY <1>8, <1>9, <1>10

LEMMA AnswersRecord ==
    ASSUME OneWorker, AnswersInv, NEW w \in Workers, NEW x \in worker[w].todo, RecordAnswer(w, x)
    PROVE  /\ ListIsPending' /\ WorkIsBounded'
           /\ Ledger!Dispatch(x.id) \/ Ledger!Refuse(x.id)
  <1>1. /\ TypeOK /\ worker[w].todo \in SUBSET Entry /\ InHand(w, x) /\ InRequests(w)
        /\ x.id \in Requests /\ request[x.id].status = "pending"
    BY DEF AnswersInv, TypesInv, TypeOK, ListsItsRows, ListIsPending, RecordAnswer, InRequests,
           RequestEntry
  <1>2. crashes \in Nat /\ work \in [Requests -> Nat]
    BY <1>1, BoundsAssumption DEF TypeOK
  <1>3. \A r \in Requests \ {x.id} : ~Answering(r)
    BY <1>1, OneInHand, OneAnswers
  <1>4. Answering(x.id) <=> worker[w].pc = "record_success"
    BY <1>1, OneAnswers
  <1>5. /\ worker'[w].pc = "serve" /\ worker'[w].todo = worker[w].todo \ {x}
        /\ \A v \in Workers \ {w} : worker'[v] = worker[v]
    <2>1. worker[w].todo \ {x} \in SUBSET Entry
      BY <1>1
    <2>2. QED BY <1>1, <2>1, Going DEF RecordAnswer, Label
  <1>6. \A r \in Requests : ~Answering(r)'
    BY <1>5, OneAnswers
  <1> DEFINE answer == IF worker[w].pc = "record_success" THEN "dispatched" ELSE "failed"
  <1>7. /\ request' = [request EXCEPT ![x.id].status = answer]
        /\ UNCHANGED <<work, crashes>>
    BY DEF RecordAnswer, history
  <1> HIDE DEF answer
  <1>8. \A r \in Requests : /\ r # x.id => request'[r] = request[r]
                            /\ r = x.id => request'[r].status = answer
    BY <1>1, <1>7 DEF TypeOK
  <1>9. answer \notin {"new", "pending"}
    BY DEF answer
  <1>10. WorkIsBounded'
    BY <1>3, <1>6, <1>7, <1>8, <1>9 DEF AnswersInv, WorkIsBounded
  <1>11. ListIsPending'
    <2>1. \A y \in worker[w].todo \ {x} :
             /\ y.id # x.id /\ y.id \in Requests /\ request[y.id].status = "pending"
             /\ \A z \in worker[w].todo : z.id = y.id => z = y
      BY <1>1 DEF AnswersInv, TypesInv, ListsItsRows, ListIsPending, RequestEntry
    <2>2. QED BY <1>5, <1>8, <2>1 DEF OneWorker, ListIsPending
  <1>12. [r \in Requests |-> request'[r].status] =
            [[r \in Requests |-> request[r].status] EXCEPT ![x.id] = answer]
    BY <1>1, <1>8
  <1>13. CASE worker[w].pc = "record_success"
    <2>1. work[x.id] > 0 /\ answer = "dispatched"
      BY <1>1, <1>2, <1>4, <1>13 DEF AnswersInv, WorkIsBounded, answer
    <2>2. Ledger!Dispatch(x.id)
      BY <1>1, <1>7, <1>12, <2>1 DEF Ledger!Dispatch, Ledger!Answer
    <2>3. QED BY <1>10, <1>11, <2>2
  <1>14. CASE worker[w].pc # "record_success"
    <2>1. (work[x.id] = 0 \/ crashes > 0) /\ answer = "failed"
      BY <1>1, <1>2, <1>4, <1>14 DEF AnswersInv, WorkIsBounded, answer
    <2>2. Ledger!Refuse(x.id)
      BY <1>1, <1>7, <1>12, <2>1 DEF Ledger!Refuse, Ledger!Answer
    <2>3. QED BY <1>10, <1>11, <2>2
  <1>15. QED BY <1>13, <1>14

LEMMA AnswersCrash ==
    ASSUME OneWorker, AnswersInv, NEW w \in Workers, Crash(w)
    PROVE  ListIsPending' /\ WorkIsBounded' /\ Ledger!Fault
  <1>1. TypeOK /\ {} \in SUBSET Entry /\ crashes \in Nat /\ work \in [Requests -> Nat]
    BY BoundsAssumption DEF AnswersInv, TypesInv, TypeOK
  <1>2. UNCHANGED <<request, work>> /\ crashes' = crashes + 1
    BY DEF Crash, rows, history
  <1>3. worker'[w].pc = "schedules"
    BY <1>1, Going DEF Crash, Label
  <1>4. ListIsPending'
    BY <1>3 DEF OneWorker, ListIsPending, InRequests
  <1>5. \A r \in Requests : ~Answering(r)'
    BY <1>3, OneAnswers
  <1>6. WorkIsBounded'
    <2> SUFFICES ASSUME NEW r \in Requests, request[r].status \in {"new", "pending"}
                 PROVE  work[r] <= crashes + 1
      BY <1>2, <1>5 DEF WorkIsBounded
    <2>1. work[r] \in 1..(crashes + 1) \/ work[r] <= crashes
      BY DEF AnswersInv, WorkIsBounded
    <2>2. QED BY <1>1, <2>1
  <1>7. Ledger!Fault
    BY <1>2 DEF Ledger!Fault
  <1>8. QED BY <1>4, <1>6, <1>7

LEMMA AnswersAdd ==
    ASSUME OneWorker, AnswersInv, NEW r \in Requests, AddRequest(r)
    PROVE  ListIsPending' /\ WorkIsBounded' /\ Ledger!Accept(r)
  <1>1. TypeOK /\ request[r].status = "new"
    BY DEF AnswersInv, TypesInv, AddRequest
  <1>2. /\ \A q \in Requests \ {r} : request'[q] = request[q]
        /\ request'[r].status = "pending"
        /\ UNCHANGED <<worker, work, crashes>>
    BY <1>1 DEF TypeOK, AddRequest, history
  <1>3. \A q \in Requests : Answering(q)' <=> Answering(q)
    BY <1>2 DEF Answering, InHand
  <1>4. WorkIsBounded'
    <2> SUFFICES ASSUME NEW q \in Requests, request'[q].status \in {"new", "pending"}
                 PROVE  IF Answering(q) THEN work[q] \in 1..(crashes + 1) ELSE work[q] <= crashes
      BY <1>2, <1>3 DEF WorkIsBounded
    <2>1. request[q].status \in {"new", "pending"}
      BY <1>1, <1>2
    <2>2. QED BY <2>1 DEF AnswersInv, WorkIsBounded
  <1>5. ListIsPending'
    <2> SUFFICES ASSUME NEW w \in Workers, InRequests(w), NEW x \in worker[w].todo
                 PROVE  /\ request'[x.id].status = "pending"
                        /\ \A y \in worker[w].todo : y.id = x.id => y = x
      BY <1>2 DEF ListIsPending, InRequests
    <2>1. /\ x.id \in Requests /\ request[x.id].status = "pending"
          /\ \A y \in worker[w].todo : y.id = x.id => y = x
      BY DEF AnswersInv, TypesInv, ListsItsRows, ListIsPending, RequestEntry
    <2>2. QED BY <1>1, <1>2, <2>1
  <1>6. [q \in Requests |-> request'[q].status] =
            [[q \in Requests |-> request[q].status] EXCEPT ![r] = "pending"]
    BY <1>2
  <1>7. Ledger!Accept(r)
    BY <1>1, <1>2, <1>6 DEF Ledger!Accept, Ledger!Answer
  <1>8. QED BY <1>4, <1>5, <1>7

\* A lead that is deleted takes the target from its requests and leaves their status.
LEMMA AnswersLeadDeleted ==
    ASSUME OneWorker, AnswersInv, NEW g \in Targets, LeadDeleted(g)
    PROVE  ListIsPending' /\ WorkIsBounded' /\ UNCHANGED Ledger!ledger
  <1>1. /\ \A r \in Requests : request'[r].status = request[r].status
        /\ UNCHANGED <<worker, work, crashes>>
    BY DEF AnswersInv, TypesInv, TypeOK, LeadDeleted, history
  <1>2. \A r \in Requests : Answering(r)' <=> Answering(r)
    BY <1>1 DEF Answering, InHand
  <1>3. WorkIsBounded'
    BY <1>1, <1>2 DEF AnswersInv, WorkIsBounded
  <1>4. ListIsPending'
    <2> SUFFICES ASSUME NEW w \in Workers, InRequests(w), NEW x \in worker[w].todo
                 PROVE  /\ request'[x.id].status = "pending"
                        /\ \A y \in worker[w].todo : y.id = x.id => y = x
      BY <1>1 DEF ListIsPending, InRequests
    <2>1. x.id \in Requests
      BY DEF AnswersInv, TypesInv, ListsItsRows, RequestEntry
    <2>2. QED BY <1>1, <2>1 DEF AnswersInv, ListIsPending
  <1>5. UNCHANGED Ledger!ledger
    BY <1>1 DEF Ledger!ledger
  <1>6. QED BY <1>3, <1>4, <1>5

\* The steps that Quiet covers.
LEMMA AnswersQuiet ==
    ASSUME OneWorker, AnswersInv,
           \/ \E w \in Workers : \/ BeginSchedules(w) \/ BeginRequests(w) \/ EndPass(w)
                                 \/ \E x \in worker[w].todo :
                                       \/ QueueSession(w, x) \/ RecordRun(w, x)
                                       \/ Defer(w, x) \/ StartFails(w, x)
           \/ \E s \in Schedules : AddSchedule(s) \/ RemoveSchedule(s) \/ BreaksOrMends(s)
           \/ \E g \in Targets : TeamChanges(g)
           \/ Tick \/ UNCHANGED vars
    PROVE  ListIsPending' /\ WorkIsBounded' /\ UNCHANGED Ledger!ledger
  <1>1. TypeOK /\ worker \in [Workers -> Place]
    BY DEF AnswersInv, TypesInv, TypeOK, Place, Label
  <1>2. CASE \/ \E s \in Schedules : AddSchedule(s) \/ RemoveSchedule(s) \/ BreaksOrMends(s)
             \/ \E g \in Targets : TeamChanges(g)
             \/ Tick \/ UNCHANGED vars
    <2>1. UNCHANGED <<worker, request, work, crashes>>
      BY <1>2 DEF AddSchedule, RemoveSchedule, BreaksOrMends, TeamChanges, Tick, vars, rows, history
    <2>2. CASE Workers # {}
      BY <2>1, <2>2, Quiet
    <2>3. CASE Workers = {}
      <3>1. UNCHANGED Ledger!ledger
        BY <2>1 DEF Ledger!ledger
      <3>2. \A r : ~Answering(r) /\ ~Answering(r)'
        BY <2>3 DEF Answering
      <3>3. QED BY <2>1, <2>3, <3>1, <3>2 DEF AnswersInv, ListIsPending, WorkIsBounded
    <2>4. QED BY <2>2, <2>3
  <1>3. ASSUME NEW w \in Workers,
               \/ BeginSchedules(w) \/ EndPass(w)
               \/ \E x \in worker[w].todo : QueueSession(w, x) \/ RecordRun(w, x)
        PROVE  ListIsPending' /\ WorkIsBounded' /\ UNCHANGED Ledger!ledger
    <2>1. UNCHANGED <<request, work, crashes>> /\ worker[w].pc # "record_success"
      BY <1>3 DEF BeginSchedules, EndPass, QueueSession, RecordRun, rows, history
    <2>2. worker'[w].pc \in {"queue", "record_run", "requests", "schedules"}
      <3>1. CASE BeginSchedules(w)
        BY <1>1, <3>1 DEF BeginSchedules
      <3>2. CASE ~BeginSchedules(w)
        <4>1. PICK label \in {"queue", "record_run", "requests", "schedules"} :
                 \E todo : Goto(w, label, todo)
          BY <1>3, <3>2 DEF EndPass, QueueSession, RecordRun
        <4>2. QED BY <1>1, <4>1 DEF Goto, Place, Label
      <3>3. QED BY <3>1, <3>2
    <2>3. QED BY <2>1, <2>2, Quiet DEF InRequests
  <1>4. ASSUME NEW w \in Workers, BeginRequests(w)
        PROVE  ListIsPending' /\ WorkIsBounded' /\ UNCHANGED Ledger!ledger
    <2> DEFINE list == {[id |-> r, key |-> IF r \in Urgent THEN 0 ELSE 1,
                     to |-> request[r].target] : r \in Pending}
    <2>1. UNCHANGED <<request, work, crashes>> /\ worker[w].pc # "record_success"
      BY <1>4 DEF BeginRequests, rows, history
    <2>2. \A x \in list : /\ request[x.id].status = "pending"
                          /\ \A y \in list : y.id = x.id => y = x
      BY DEF Pending
    <2>3. Goto(w, "serve", FirstOf(list, Limit)) /\ FirstOf(list, Limit) \subseteq list
      BY <1>4 DEF BeginRequests, FirstOf
    <2> HIDE DEF list
    <2>4. worker'[w].pc = "serve" /\ worker'[w].todo = FirstOf(list, Limit)
      BY <1>1, <2>3 DEF Goto, Place, Label
    <2>5. QED BY <2>1, <2>2, <2>3, <2>4, Quiet
  <1>5. ASSUME NEW w \in Workers, NEW x \in worker[w].todo, Defer(w, x) \/ StartFails(w, x)
        PROVE  ListIsPending' /\ WorkIsBounded' /\ UNCHANGED Ledger!ledger
    <2>1. UNCHANGED <<request, work, crashes>> /\ worker[w].pc = "serve"
      BY <1>5 DEF Defer, StartFails, rows, history
    <2>2. /\ worker'[w].pc \in {"serve", "record_failure"}
          /\ worker'[w].todo \subseteq worker[w].todo
      BY <1>1, <1>5 DEF Defer, StartFails, Goto, Place, Label
    <2>3. \A y \in worker[w].todo : /\ request[y.id].status = "pending"
                                    /\ \A z \in worker[w].todo : z.id = y.id => z = y
      BY <2>1 DEF AnswersInv, ListIsPending, InRequests
    <2>4. QED BY <2>1, <2>2, <2>3, Quiet
  <1>6. QED BY <1>2, <1>3, <1>4, <1>5

LEMMA AnswersNext ==
    ASSUME OneWorker, AnswersInv, [Next]_vars
    PROVE  ListIsPending' /\ WorkIsBounded' /\ [Ledger!Next]_(Ledger!ledger)
  <1> DEFINE Goal == ListIsPending' /\ WorkIsBounded' /\ [Ledger!Next]_(Ledger!ledger)
  <1>1. ASSUME NEW w \in Workers, Crash(w) PROVE Goal
    BY <1>1, AnswersCrash DEF Ledger!Next
  <1>2. ASSUME NEW r \in Requests, AddRequest(r) PROVE Goal
    BY <1>2, AnswersAdd DEF Ledger!Next
  <1>3. ASSUME NEW w \in Workers, NEW x \in worker[w].todo, StartWork(w, x) \/ RecordAnswer(w, x)
        PROVE  Goal
    <2>1. x.id \in Requests
      BY <1>3 DEF AnswersInv, TypesInv, ListsItsRows, StartWork, RecordAnswer, InRequests,
                  RequestEntry
    <2>2. QED BY <1>3, <2>1, AnswersStartWork, AnswersRecord DEF Ledger!Next
  <1>4. QED BY <1>1, <1>2, <1>3, AnswersQuiet, AnswersLeadDeleted DEF Next, WorkerStep

LEMMA AnswersInit == Init => ListIsPending /\ WorkIsBounded /\ Ledger!Init
  <1> SUFFICES ASSUME Init PROVE ListIsPending /\ WorkIsBounded /\ Ledger!Init
    OBVIOUS
  <1>1. \A r : ~Answering(r)
    BY DEF Init, Answering
  <1>2. WorkIsBounded
    BY <1>1 DEF Init, WorkIsBounded
  <1>3. ListIsPending
    BY DEF Init, ListIsPending, InRequests
  <1>4. Ledger!Init
    BY DEF Init, Ledger!Init
  <1>5. QED BY <1>2, <1>3, <1>4

\* With one worker, remote dispatch implements RequestLedger: every request is
\* answered once and for good, and its work starts again only after a crash.
THEOREM AnsweredOnceTheorem == OneWorker => (Spec => AnsweredOnce)
  <1> SUFFICES ASSUME OneWorker PROVE Spec => AnsweredOnce
    OBVIOUS
  <1>1. Init => AnswersInv /\ Ledger!Init
    BY TypesInit, AnswersInit DEF AnswersInv
  <1>2. AnswersInv /\ [Next]_vars => AnswersInv' /\ [Ledger!Next]_(Ledger!ledger)
    BY TypesNext, AnswersNext DEF AnswersInv
  <1>3. QED BY <1>1, <1>2, PTL DEF Spec, AnsweredOnce, Ledger!Spec

----------------------------------------------------------------------------
(* One worker starts a due run once.                                       *)

DueInv == TypesInv /\ ListIsDue /\ RunsAreBounded /\ StartedOncePerDue

LEMMA OneRuns ==
    ASSUME OneWorker, NEW w \in Workers, NEW s
    PROVE  /\ Running(s) <=> /\ worker[w].pc = "record_run"
                             /\ \E x \in worker[w].todo : InHand(w, x) /\ x.id = s
           /\ Running(s)' <=> /\ worker'[w].pc = "record_run"
                              /\ \E x \in worker'[w].todo : InHand(w, x)' /\ x.id = s
           /\ Listed(s) <=> InSchedules(w) /\ \E x \in worker[w].todo : x.id = s
           /\ Listed(s)' <=> InSchedules(w)' /\ \E x \in worker'[w].todo : x.id = s
  BY DEF OneWorker, Running, Listed

LEMMA DueTypes ==
    ASSUME TypesInv
    PROVE  /\ TypeOK /\ worker \in [Workers -> Place]
           /\ crashes \in Nat /\ clock \in 0..Horizon
           /\ runs \in [Schedules -> [Dues -> Nat]]
           /\ \A d \in Dues : d \in Nat
           /\ \A s \in Schedules : schedule[s].next \in Nat
           /\ \A s \in Schedules : \A d \in Dues : runs[s][d] \in Nat
  <1>1. Dues \cup {0} \subseteq Nat
    BY Entries
  <1>2. TypeOK
    BY DEF TypesInv
  <1>3. \A s \in Schedules : schedule[s].next \in Dues \cup {0}
    BY <1>2 DEF TypeOK
  <1>4. crashes \in Nat /\ clock \in 0..Horizon /\ runs \in [Schedules -> [Dues -> Nat]]
    BY <1>2, BoundsAssumption DEF TypeOK
  <1>5. worker \in [Workers -> Place]
    BY <1>2 DEF TypeOK, Place, Label
  <1>6. QED BY <1>1, <1>2, <1>3, <1>4, <1>5

\* Steps that neither touch a schedule nor start one; a crash leaves a run
\* that was started without a record.
LEMMA RunsQuiet ==
    ASSUME OneWorker, DueInv, UNCHANGED <<schedule, runs>>, crashes' \in Nat, crashes <= crashes',
           \/ UNCHANGED worker
           \/ \E w \in Workers : /\ ~InSchedules(w)'
                                 /\ worker[w].pc # "record_run" \/ crashes' = crashes + 1
    PROVE  ListIsDue' /\ RunsAreBounded' /\ StartedOncePerDue'
  <1>1. TypesInv
    BY DEF DueInv
  <1>2. crashes \in Nat /\ \A s \in Schedules : \A d \in Dues : runs[s][d] \in Nat
    BY <1>1, DueTypes
  <1>3. StartedOncePerDue'
    BY <1>2 DEF DueInv, StartedOncePerDue
  <1>4. CASE UNCHANGED worker
    <2>1. \A s : (Listed(s)' <=> Listed(s)) /\ (Running(s)' <=> Running(s))
      BY <1>4 DEF Listed, Running, InHand, InSchedules
    <2>2. RunsAreBounded'
      BY <1>2, <2>1 DEF DueInv, RunsAreBounded
    <2>3. ListIsDue'
      BY <1>4 DEF DueInv, ListIsDue, InSchedules
    <2>4. QED BY <1>3, <2>2, <2>3
  <1>5. ASSUME NEW w \in Workers, ~InSchedules(w)',
               worker[w].pc # "record_run" \/ crashes' = crashes + 1
        PROVE  ListIsDue' /\ RunsAreBounded'
    <2>1. \A s : ~Listed(s)' /\ (Running(s) => crashes' = crashes + 1)
      BY <1>5, OneRuns
    <2>2. RunsAreBounded'
      BY <1>2, <2>1 DEF DueInv, RunsAreBounded
    <2>3. ListIsDue'
      BY <1>5 DEF OneWorker, DueInv, ListIsDue
    <2>4. QED BY <2>2, <2>3
  <1>6. QED BY <1>3, <1>4, <1>5

LEMMA RunsQuietSteps ==
    ASSUME OneWorker, DueInv,
           \/ \E w \in Workers : \/ BeginRequests(w) \/ EndPass(w) \/ Crash(w)
                                 \/ \E x \in worker[w].todo :
                                       \/ StartWork(w, x) \/ Defer(w, x) \/ StartFails(w, x)
                                       \/ RecordAnswer(w, x)
           \/ \E r \in Requests : AddRequest(r)
           \/ \E g \in Targets : TeamChanges(g) \/ LeadDeleted(g)
           \/ \E s \in Schedules : BreaksOrMends(s)
           \/ Tick \/ UNCHANGED vars
    PROVE  ListIsDue' /\ RunsAreBounded' /\ StartedOncePerDue'
  <1>1. worker \in [Workers -> Place] /\ crashes \in Nat
    BY DueTypes DEF DueInv
  <1>2. ASSUME NEW w \in Workers, Crash(w) PROVE ListIsDue' /\ RunsAreBounded' /\ StartedOncePerDue'
    <2>1. UNCHANGED <<schedule, runs>> /\ crashes' = crashes + 1
      BY <1>2 DEF Crash, rows, history
    <2>2. worker'[w].pc = "schedules"
      BY <1>1, <1>2 DEF Crash, Goto, Place, Label
    <2>3. QED BY <1>1, <2>1, <2>2, RunsQuiet DEF InSchedules
  <1>3. ASSUME NEW w \in Workers,
               \/ BeginRequests(w) \/ EndPass(w)
               \/ \E x \in worker[w].todo :
                     StartWork(w, x) \/ Defer(w, x) \/ StartFails(w, x) \/ RecordAnswer(w, x)
        PROVE  ListIsDue' /\ RunsAreBounded' /\ StartedOncePerDue'
    <2>1. UNCHANGED <<schedule, runs, crashes>> /\ worker[w].pc # "record_run"
      BY <1>3 DEF BeginRequests, EndPass, StartWork, Defer, StartFails, RecordAnswer, rows, history
    <2>2. PICK label, todo : label \in Label \ {"queue", "record_run"} /\ Goto(w, label, todo)
      BY <1>3 DEF BeginRequests, EndPass, StartWork, Defer, StartFails, RecordAnswer, Label
    <2>3. worker'[w].pc = label
      BY <1>1, <2>2 DEF Goto, Place
    <2>4. QED BY <1>1, <2>1, <2>2, <2>3, RunsQuiet DEF InSchedules
  <1>4. CASE \/ \E r \in Requests : AddRequest(r)
             \/ \E g \in Targets : TeamChanges(g) \/ LeadDeleted(g)
             \/ \E s \in Schedules : BreaksOrMends(s)
             \/ Tick \/ UNCHANGED vars
    <2>1. UNCHANGED <<worker, schedule, runs, crashes>>
      BY <1>4 DEF AddRequest, TeamChanges, LeadDeleted, BreaksOrMends, Tick, vars, rows, history
    <2>2. QED BY <1>1, <2>1, RunsQuiet
  <1>5. QED BY <1>2, <1>3, <1>4

LEMMA RunsBeginSchedules ==
    ASSUME OneWorker, DueInv, NEW w \in Workers, BeginSchedules(w)
    PROVE  ListIsDue' /\ RunsAreBounded' /\ StartedOncePerDue'
  <1>1. worker \in [Workers -> Place]
    BY DueTypes DEF DueInv
  <1>2. UNCHANGED <<schedule, runs, crashes>>
    BY DEF BeginSchedules, rows, history
  <1>3. StartedOncePerDue'
    BY <1>2 DEF DueInv, StartedOncePerDue
  <1>4. worker'[w].todo = FirstOf(Due, Limit) /\ worker'[w].pc = "queue" /\ worker'[w].now = clock
    BY <1>1 DEF BeginSchedules
  <1>5. \A x \in worker'[w].todo :
           schedule[x.id].row = "there" /\ x.key = schedule[x.id].next /\ x.key <= clock
    BY <1>4 DEF FirstOf, Due
  <1>6. ListIsDue'
    BY <1>2, <1>4, <1>5 DEF OneWorker, DueInv, ListIsDue
  <1>7. \A s : ~Running(s) /\ (Listed(s)' => schedule[s].row = "there")
    BY <1>5, OneRuns DEF BeginSchedules
  <1>8. RunsAreBounded'
    BY <1>2, <1>7 DEF DueInv, RunsAreBounded
  <1>9. QED BY <1>3, <1>6, <1>8

LEMMA RunsQueueSession ==
    ASSUME OneWorker, DueInv, NEW w \in Workers, NEW x \in worker[w].todo, QueueSession(w, x)
    PROVE  ListIsDue' /\ RunsAreBounded' /\ StartedOncePerDue'
  <1>1. /\ TypeOK /\ worker \in [Workers -> Place] /\ worker[w].todo \in SUBSET Entry
        /\ crashes \in Nat /\ runs \in [Schedules -> [Dues -> Nat]]
        /\ \A s \in Schedules : \A d \in Dues : runs[s][d] \in Nat
    BY DueTypes DEF DueInv, Place
  <1>2. InSchedules(w) /\ InHand(w, x) /\ worker[w].pc = "queue" /\ x.id \in Schedules
    BY DEF QueueSession, InSchedules, DueInv, TypesInv, ListsItsRows, ScheduleEntry
  <1>3. UNCHANGED <<schedule, crashes>>
    BY DEF QueueSession, rows
  <1>4. CASE Goto(w, "requests", {}) /\ UNCHANGED runs
    <2>1. worker'[w].pc = "requests"
      BY <1>1, <1>4 DEF Goto, Place, Label
    <2>2. QED BY <1>1, <1>2, <1>3, <1>4, <2>1, RunsQuiet DEF InSchedules
  <1>5. CASE runs' = [runs EXCEPT ![x.id][x.key] = @ + 1] /\ Goto(w, "record_run", worker[w].todo)
    <2>1. /\ worker'[w].pc = "record_run" /\ worker'[w].todo = worker[w].todo
          /\ worker'[w].now = worker[w].now
      BY <1>1, <1>5, Going DEF Label
    <2>2. ListIsDue'
      BY <1>2, <1>3, <2>1 DEF OneWorker, DueInv, ListIsDue
    <2>3. \A y \in worker[w].todo : InHand(w, y)' <=> y = x
      BY <1>1, <1>2, <2>1, OneInHand DEF InHand
    <2>4. \A s \in Schedules : (Running(s)' <=> s = x.id) /\ ~Running(s) /\ (Listed(s)' <=> Listed(s))
      BY <1>2, <2>1, <2>3, OneRuns DEF InSchedules
    <2>5. Listed(x.id) /\ x.key = schedule[x.id].next
      BY <1>2, OneRuns DEF DueInv, ListIsDue
    <2>6. \A s \in Schedules : \A d \in Dues :
              runs'[s][d] = IF s = x.id /\ d = x.key THEN runs[s][d] + 1 ELSE runs[s][d]
      BY <1>1, <1>2, <1>5
    <2>7. \A s \in Schedules : schedule[s].row # "removed" \/ Listed(s) =>
             \A d \in Dues : d >= schedule[s].next => runs[s][d] <= crashes
      BY <2>4 DEF DueInv, RunsAreBounded
    <2>8. x.key \in Nat
      BY <1>2, <2>5, DueTypes DEF DueInv
    <2>9. x.key \in Dues => runs[x.id][x.key] <= crashes
      BY <1>2, <2>5, <2>7, <2>8
    <2>10. StartedOncePerDue'
      BY <1>1, <1>3, <2>6, <2>9 DEF DueInv, StartedOncePerDue
    <2>11. RunsAreBounded'
      <3> SUFFICES ASSUME NEW s \in Schedules, schedule[s].row # "removed" \/ Listed(s),
                          NEW d \in Dues, d >= schedule[s].next
                   PROVE  \/ runs'[s][d] <= crashes
                          \/ Running(s)' /\ d = schedule[s].next /\ runs'[s][d] <= crashes + 1
        BY <1>3, <2>4 DEF RunsAreBounded
      <3>1. runs[s][d] <= crashes /\ runs[s][d] \in Nat
        BY <1>1, <2>7
      <3>2. QED BY <1>1, <2>4, <2>5, <2>6, <3>1
    <2>12. QED BY <2>2, <2>10, <2>11
  <1>6. QED BY <1>4, <1>5 DEF QueueSession

LEMMA RunsRecordRun ==
    ASSUME OneWorker, AlwaysAgain, DueInv, NEW w \in Workers, NEW x \in worker[w].todo,
           RecordRun(w, x)
    PROVE  ListIsDue' /\ RunsAreBounded' /\ StartedOncePerDue'
  <1> DEFINE next == Cron[x.id][worker[w].now]
  <1>1. /\ TypeOK /\ worker \in [Workers -> Place] /\ worker[w].todo \in SUBSET Entry
        /\ worker[w].todo \ {x} \in SUBSET Entry /\ worker[w].now \in 0..Horizon
        /\ crashes \in Nat /\ \A s \in Schedules : \A d \in Dues : runs[s][d] \in Nat
        /\ \A d \in Dues : d \in Nat
        /\ \A s \in Schedules : schedule[s].next \in Nat
    BY DueTypes DEF DueInv, Place
  <1>2. InSchedules(w) /\ InHand(w, x) /\ worker[w].pc = "record_run" /\ x.id \in Schedules
    BY DEF RecordRun, InSchedules, DueInv, TypesInv, ListsItsRows, ScheduleEntry
  <1>3. /\ schedule[x.id].row # "absent" /\ x.key = schedule[x.id].next
        /\ x.key <= worker[w].now
    BY <1>2 DEF DueInv, ListIsDue
  <1>4. next \in Nat /\ next # 0 /\ next > worker[w].now
    BY <1>1, <1>2, CronAssumption DEF AlwaysAgain
  <1>5. /\ schedule' = [schedule EXCEPT ![x.id].next =
                           IF schedule[x.id].row = "there" THEN next ELSE @]
        /\ Goto(w, "queue", worker[w].todo \ {x})
        /\ UNCHANGED <<runs, crashes>>
    BY <1>4 DEF RecordRun, history
  <1> HIDE DEF next
  <1>6. \A s \in Schedules : /\ schedule'[s].row = schedule[s].row
                             /\ s # x.id => schedule'[s] = schedule[s]
                             /\ s = x.id /\ schedule[s].row = "there" => schedule'[s].next = next
    BY <1>1, <1>5 DEF TypeOK
  <1>7. /\ worker'[w].pc = "queue" /\ worker'[w].todo = worker[w].todo \ {x}
        /\ worker'[w].now = worker[w].now
    BY <1>1, <1>5, Going DEF Label
  <1>8. StartedOncePerDue'
    BY <1>5 DEF DueInv, StartedOncePerDue
  <1>9. \A y \in worker[w].todo \ {x} : y.id # x.id /\ y.id \in Schedules
    <2> TAKE y \in worker[w].todo \ {x}
    <2>1. y.key = schedule[y.id].next /\ y.id \in Schedules /\ y.to = x.to
      BY <1>2 DEF DueInv, ListIsDue, TypesInv, ListsItsRows, ScheduleEntry
    <2>2. QED BY <1>1, <1>3, <2>1, SameEntry
  <1>10. ListIsDue'
    <2>1. \A y \in worker'[w].todo :
             /\ schedule'[y.id].row # "absent" /\ y.key = schedule'[y.id].next
             /\ y.key <= worker'[w].now
      BY <1>2, <1>6, <1>7, <1>9 DEF DueInv, ListIsDue
    <2>2. \A s \in Schedules : schedule'[s].row = "absent" => schedule'[s].next = 0
      BY <1>3, <1>6 DEF DueInv, ListIsDue
    <2>3. QED BY <2>1, <2>2 DEF OneWorker, ListIsDue
  <1>11. RunsAreBounded'
    <2> SUFFICES ASSUME NEW s \in Schedules, schedule'[s].row # "removed" \/ Listed(s)',
                        NEW d \in Dues, d >= schedule'[s].next
                 PROVE  runs[s][d] <= crashes
      BY <1>5 DEF RunsAreBounded
    <2>1. Listed(s)' => Listed(s) /\ s # x.id
      BY <1>2, <1>7, <1>9, OneRuns
    <2>2. CASE s = x.id
      <3>1. schedule[s].row = "there"
        BY <1>1, <1>3, <1>6, <2>1, <2>2 DEF TypeOK
      <3>2. d > schedule[s].next
        BY <1>1, <1>3, <1>4, <1>6, <2>2, <3>1
      <3>3. QED BY <1>1, <3>1, <3>2 DEF DueInv, RunsAreBounded
    <2>3. CASE s # x.id
      <3>1. ~Running(s)
        BY <1>1, <1>2, <2>3, OneInHand, OneRuns
      <3>2. schedule'[s] = schedule[s] /\ (schedule[s].row # "removed" \/ Listed(s))
        BY <1>6, <2>1, <2>3
      <3>3. QED BY <3>1, <3>2 DEF DueInv, RunsAreBounded
    <2>4. QED BY <2>2, <2>3
  <1>12. QED BY <1>8, <1>10, <1>11

LEMMA RunsAddSchedule ==
    ASSUME OneWorker, DueInv, NEW s \in Schedules, AddSchedule(s)
    PROVE  ListIsDue' /\ RunsAreBounded' /\ StartedOncePerDue'
  <1>1. /\ TypeOK /\ \A d \in Dues : d \in Nat
        /\ \A q \in Schedules : schedule[q].next \in Nat
    BY DueTypes DEF DueInv
  <1>2. UNCHANGED <<worker, runs, crashes>> /\ schedule[s].row = "absent" /\ schedule[s].next = 0
    BY DEF AddSchedule, DueInv, ListIsDue
  <1>3. /\ \A q \in Schedules \ {s} : schedule'[q] = schedule[q]
        /\ schedule'[s].row = "there"
    BY <1>1 DEF AddSchedule, TypeOK
  <1>4. \A q : (Listed(q)' <=> Listed(q)) /\ (Running(q)' <=> Running(q))
    BY <1>2 DEF Listed, Running, InHand, InSchedules
  <1>5. \A w \in Workers : InSchedules(w) => \A x \in worker[w].todo : x.id # s /\ x.id \in Schedules
    BY <1>2 DEF DueInv, ListIsDue, TypesInv, ListsItsRows, ScheduleEntry
  <1>6. ~Running(s)
    BY <1>5 DEF Running, InSchedules
  <1>7. StartedOncePerDue'
    BY <1>2 DEF DueInv, StartedOncePerDue
  <1>8. ListIsDue'
    BY <1>2, <1>3, <1>5 DEF DueInv, ListIsDue, InSchedules
  <1>9. RunsAreBounded'
    <2> SUFFICES ASSUME NEW q \in Schedules, schedule'[q].row # "removed" \/ Listed(q),
                        NEW d \in Dues, d >= schedule'[q].next
                 PROVE  \/ runs[q][d] <= crashes
                        \/ Running(q) /\ d = schedule'[q].next /\ runs[q][d] <= crashes + 1
      BY <1>2, <1>4 DEF RunsAreBounded
    <2>1. CASE q = s
      BY <1>1, <1>2, <1>6, <2>1 DEF DueInv, RunsAreBounded
    <2>2. CASE q # s
      BY <1>3, <2>2 DEF DueInv, RunsAreBounded
    <2>3. QED BY <2>1, <2>2
  <1>10. QED BY <1>7, <1>8, <1>9

LEMMA RunsRemoveSchedule ==
    ASSUME OneWorker, DueInv, NEW s \in Schedules, RemoveSchedule(s)
    PROVE  ListIsDue' /\ RunsAreBounded' /\ StartedOncePerDue'
  <1>1. TypeOK
    BY DueTypes DEF DueInv
  <1>2. UNCHANGED <<worker, runs, crashes>> /\ schedule[s].row = "there"
    BY DEF RemoveSchedule, history
  <1>3. \A q \in Schedules : /\ schedule'[q].next = schedule[q].next
                             /\ q # s => schedule'[q].row = schedule[q].row
                             /\ q = s => schedule'[q].row = "removed"
    BY <1>1 DEF RemoveSchedule, TypeOK
  <1>4. \A q : (Listed(q)' <=> Listed(q)) /\ (Running(q)' <=> Running(q))
    BY <1>2 DEF Listed, Running, InHand, InSchedules
  <1>5. \A w \in Workers : InSchedules(w) => \A x \in worker[w].todo : x.id \in Schedules
    BY DEF DueInv, TypesInv, ListsItsRows, ScheduleEntry
  <1>6. StartedOncePerDue'
    BY <1>2 DEF DueInv, StartedOncePerDue
  <1>7. ListIsDue'
    BY <1>2, <1>3, <1>5 DEF DueInv, ListIsDue, InSchedules
  <1>8. RunsAreBounded'
    BY <1>2, <1>3, <1>4 DEF DueInv, RunsAreBounded
  <1>9. QED BY <1>6, <1>7, <1>8

LEMMA RunsInit == Init => ListIsDue /\ RunsAreBounded /\ StartedOncePerDue
  <1> SUFFICES ASSUME Init PROVE ListIsDue /\ RunsAreBounded /\ StartedOncePerDue
    OBVIOUS
  <1>1. \A s \in Schedules : \A d \in Dues : runs[s][d] = 0
    BY DEF Init
  <1>2. crashes = 0
    BY DEF Init
  <1>3. ListIsDue
    BY DEF Init, ListIsDue, InSchedules
  <1>4. QED BY <1>1, <1>2, <1>3 DEF RunsAreBounded, StartedOncePerDue

\* With one worker, and further runs for every schedule, the run that is due at
\* one time is started once, and once more for every crash.
THEOREM StartedOnceTheorem == OneWorker /\ AlwaysAgain => (Spec => []StartedOncePerDue)
  <1> SUFFICES ASSUME OneWorker, AlwaysAgain PROVE Spec => []StartedOncePerDue
    OBVIOUS
  <1>1. Init => DueInv
    BY TypesInit, RunsInit DEF DueInv
  <1>2. DueInv /\ [Next]_vars => DueInv'
    <2> SUFFICES ASSUME DueInv, [Next]_vars PROVE DueInv'
      OBVIOUS
    <2>1. TypesInv'
      BY TypesNext DEF DueInv
    <2>2. ListIsDue' /\ RunsAreBounded' /\ StartedOncePerDue'
      BY RunsQuietSteps, RunsBeginSchedules, RunsQueueSession, RunsRecordRun, RunsAddSchedule,
         RunsRemoveSchedule DEF Next, WorkerStep
    <2>3. QED BY <2>1, <2>2 DEF DueInv
  <1>3. DueInv => StartedOncePerDue
    BY DEF DueInv
  <1>4. QED BY <1>1, <1>2, <1>3, PTL DEF Spec

=============================================================================
