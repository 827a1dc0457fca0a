------------------------- MODULE WorktreeSlotsProofs -------------------------
(***************************************************************************)
(* The worktree slots for any number of sessions, daemons and users.       *)
(*                                                                         *)
(* As long as nobody resumes sessions, a session that stopped being active *)
(* never becomes active again.  So what a pass read of it stays true until *)
(* the pass acts on it, whoever else activates, prunes, stops and deletes. *)
(***************************************************************************)
EXTENDS WorktreeSlots, SequenceTheorems, FiniteSetTheorems, TLAPS

----------------------------------------------------------------------------
(* The parts of the state.                                                 *)

RowType == [state : SessionState \cup {Absent}, wt : BOOLEAN, dir : Dir]
AgentType == [pc  : {"none", "starting", "live", "orphan", "over"},
              cwd : Dir, by : Daemons \cup {Nobody}, ran : BOOLEAN]
PassType == [pc : DaemonPC, left : 0..MaxWorktrees, todo : Seq(Sessions),
             s  : Sessions \cup {NoSession}]
UserType == [pc : {"idle", "remove", "clear", "reset", "spawn", "delete", "done"},
             s  : Sessions \cup {NoSession}]

\* What the pass of a daemon is in the middle of.
Serving == {"create", "create_failed", "attach", "launch", "dequeue"}
Activating == Serving \cup {"pick"}
Pruning == {"clean", "remove", "clear"}

\* A session with no row yet.
Fresh(s) == creator[s] \in {"new", "free", "full", "insert"}

Active(s) == row[s].state \in {"Pending", "Running"}

\* Only a resume makes such a session active again.
Finished(s) == ~Fresh(s) /\ ~Active(s)

\* A pass that serves requests has a slot left, and one that works on a session has it.
PassInPlace(q) ==
    /\ q.pc \in Activating \cup {"list"} => q.left > 0
    /\ q.pc \in Serving \cup {"remove", "clear"} => q.s \in Sessions

\* A session is queued at most once, by its creator's last step.
InPlace ==
    /\ \A s \in Sessions : creator[s] # "done" => ~Contains(queue, s)
    /\ \A d \in Daemons : PassInPlace(daemon[d])
    /\ \A u \in Users : user[u].pc # "idle" => user[u].s \in Sessions

\* An active session with a worktree has the tree, and an agent that runs, or is about
\* to run, in a worktree belongs to a session that has it.
SessionSound(s) ==
    /\ Fresh(s) => row[s].state = Absent /\ agent[s].pc = "none" /\ ~agent[s].ran
    /\ creator[s] = "insert" => tree[s]
    /\ creator[s] = "enqueue" => ~row[s].wt
    /\ creator[s] = "spawn" /\ Active(s) => row[s].wt
    /\ row[s].wt /\ Active(s) => tree[s]
    /\ agent[s].pc \in {"starting", "live"} /\ agent[s].cwd = "tree" /\ Active(s) => row[s].wt
    /\ agent[s].ran => row[s].state # "Pending"

\* A pass that activates has requests of sessions whose creator is gone; one that
\* prunes has sessions that are over.
PassSound(d) ==
    /\ daemon[d].pc \in Activating =>
          \A i \in DOMAIN daemon[d].todo : creator[daemon[d].todo[i]] = "done"
    /\ daemon[d].pc \in Serving => creator[daemon[d].s] = "done"
    /\ daemon[d].pc = "attach" /\ Active(daemon[d].s) => tree[daemon[d].s]
    /\ daemon[d].pc = "launch" /\ Active(daemon[d].s) => row[daemon[d].s].wt
    /\ daemon[d].pc \in Pruning => \A i \in DOMAIN daemon[d].todo : Finished(daemon[d].todo[i])
    /\ daemon[d].pc \in {"remove", "clear"} => Finished(daemon[d].s)

UserSound(u) ==
    /\ user[u].pc \notin {"reset", "spawn"}
    /\ user[u].pc \in {"remove", "clear", "delete"} => Finished(user[u].s)

SlotInv ==
    /\ TypeOK /\ InPlace
    /\ \A s \in Sessions : SessionSound(s)
    /\ \A d \in Daemons : PassSound(d)
    /\ \A u \in Users : UserSound(u)

LaunchedBy(d, s) == daemon[d].pc = "launch" /\ daemon[d].s = s

\* A session that waits for its runner is in the queue until some pass has attached its
\* worktree, and then a pass is about to launch the runner.
Awaited(s) ==
    row[s].state = "Pending" /\ agent[s].pc = "none" /\ creator[s] = "done" =>
        \/ \E d \in Daemons : LaunchedBy(d, s)
        \/ ~row[s].wt /\ Contains(queue, s)

StrandInv ==
    /\ SlotInv
    /\ crashes = 0 => \A s \in Sessions : Awaited(s)
    /\ \A d \in Daemons : daemon[d].pc = "dequeue" => agent[daemon[d].s].pc # "none"

----------------------------------------------------------------------------
(* The queue.                                                              *)

LEMMA EnqueuedAtEnd ==
    ASSUME queue \in Seq(Sessions), IsInjective(queue), NEW s \in Sessions, ~Contains(queue, s)
    PROVE  LET q == Append(queue, s) IN
           /\ q \in Seq(Sessions) /\ IsInjective(q)
           /\ \A r : Contains(q, r) <=> Contains(queue, r) \/ r = s
  <1> DEFINE q == Append(queue, s)
  <1>1. /\ q \in Seq(Sessions) /\ Len(q) = Len(queue) + 1 /\ Len(queue) \in Nat
        /\ \A i \in 1..Len(queue) : q[i] = queue[i]
        /\ q[Len(queue) + 1] = s
    BY AppendProperties, LenProperties
  <1>2. DOMAIN q = 1..Len(q) /\ DOMAIN queue = 1..Len(queue)
    BY <1>1, LenProperties
  <1> HIDE DEF q
  <1>3. IsInjective(q)
    BY <1>1, <1>2 DEF IsInjective, Contains
  <1>4. \A r : Contains(q, r) <=> Contains(queue, r) \/ r = s
    BY <1>1 DEF Contains
  <1>5. QED BY <1>1, <1>3, <1>4 DEF q

LEMMA DequeuedOnce ==
    ASSUME queue \in Seq(Sessions), IsInjective(queue), NEW s
    PROVE  /\ Dequeued(s) \in Seq(Sessions) /\ IsInjective(Dequeued(s))
           /\ \A r : Contains(Dequeued(s), r) <=> Contains(queue, r) /\ r # s
  <1>0. Len(queue) \in Nat /\ DOMAIN queue = 1..Len(queue)
        /\ \A i \in 1..Len(queue) : queue[i] \in Sessions
    BY LenProperties, ElementOfSeq
  <1>1. CASE ~Contains(queue, s)
    <2>1. Dequeued(s) = queue
      BY <1>1 DEF Dequeued, RemoveFirst, Contains
    <2>2. QED BY <1>1, <2>1
  <1>2. CASE Contains(queue, s)
    <2> DEFINE i == SelectInSeq(queue, LAMBDA v : v = s)
               n == Len(queue)
               a == SubSeq(queue, 1, i - 1)
               b == SubSeq(queue, i + 1, n)
               q == a \o b
    <2>1. i \in 1..n /\ queue[i] = s
      <3>1. PICK k \in 1..n : queue[k] = s BY <1>2 DEF Contains
      <3>2. {j \in 1..n : queue[j] = s} = {k}
        BY <1>0, <3>1 DEF IsInjective
      <3>3. i = Min({k}) BY <3>2 DEF SelectInSeq
      <3>4. Min({k}) = k BY <1>0 DEF Min
      <3>5. QED BY <3>1, <3>3, <3>4
    <2>2. Dequeued(s) = q
      BY <1>2 DEF Dequeued, RemoveFirst, RemoveAt, Contains
    <2> HIDE DEF i
    <2>3. /\ a \in Seq(Sessions) /\ Len(a) = i - 1
          /\ \A j \in 1..i - 1 : a[j] = queue[j]
      <3>1. /\ SubSeq(queue, 1, i - 1) \in Seq(Sessions)
            /\ Len(SubSeq(queue, 1, i - 1)) = IF 1 <= i - 1 THEN i - 1 - 1 + 1 ELSE 0
            /\ \A j \in 1..i - 1 - 1 + 1 : SubSeq(queue, 1, i - 1)[j] = queue[1 + j - 1]
        BY <1>0, <2>1, SubSeqProperties
      <3>2. QED BY <1>0, <2>1, <3>1
    <2>4. /\ b \in Seq(Sessions) /\ Len(b) = n - i
          /\ \A j \in 1..n - i : b[j] = queue[i + j]
      <3>1. /\ SubSeq(queue, i + 1, n) \in Seq(Sessions)
            /\ Len(SubSeq(queue, i + 1, n)) = IF i + 1 <= n THEN n - (i + 1) + 1 ELSE 0
            /\ \A j \in 1..n - (i + 1) + 1 : SubSeq(queue, i + 1, n)[j] = queue[(i + 1) + j - 1]
        BY <1>0, <2>1, SubSeqProperties
      <3>2. n - (i + 1) + 1 = n - i /\ \A j \in Nat : (i + 1) + j - 1 = i + j
        BY <1>0, <2>1
      <3>3. Len(b) = n - i
        <4>1. Len(b) = IF i + 1 <= n THEN n - (i + 1) + 1 ELSE 0 BY <3>1
        <4>2. i \in Nat /\ n \in Nat /\ i <= n BY <1>0, <2>1
        <4> HIDE DEF b, n
        <4>3. QED BY <4>1, <4>2
      <3>4. \A j \in 1..n - i : b[j] = queue[i + j]
        <4> TAKE j \in 1..n - i
        <4>1. j \in Nat /\ j \in 1..n - (i + 1) + 1 BY <1>0, <2>1, <3>2
        <4>2. b[j] = queue[(i + 1) + j - 1] BY <3>1, <4>1
        <4>3. QED BY <3>2, <4>1, <4>2
      <3>5. QED BY <3>1, <3>3, <3>4
    <2> HIDE DEF a, b
    <2>5. /\ q \in Seq(Sessions) /\ Len(q) = n - 1
          /\ \A j \in 1..n - 1 : q[j] = IF j <= i - 1 THEN a[j] ELSE b[j - (i - 1)]
      <3>1. /\ a \o b \in Seq(Sessions) /\ Len(a \o b) = Len(a) + Len(b)
            /\ \A j \in 1..Len(a) + Len(b) :
                  (a \o b)[j] = IF j <= Len(a) THEN a[j] ELSE b[j - Len(a)]
        BY <2>3, <2>4, ConcatProperties
      <3>2. Len(a) + Len(b) = n - 1 BY <1>0, <2>1, <2>3, <2>4
      <3> HIDE DEF q
      <3>3. QED BY <2>3, <3>1, <3>2 DEF q
    <2>6. \A j \in 1..n - 1 : q[j] = IF j < i THEN queue[j] ELSE queue[j + 1]
      BY <1>0, <2>1, <2>3, <2>4, <2>5
    <2>7. DOMAIN q = 1..n - 1
      BY <2>5, LenProperties
    <2> HIDE DEF q
    <2>8. IsInjective(q)
      BY <1>0, <2>1, <2>6, <2>7 DEF IsInjective
    <2>9. ASSUME NEW r
          PROVE  Contains(q, r) <=> Contains(queue, r) /\ r # s
      <3>1. ASSUME NEW j \in 1..n - 1, q[j] = r
            PROVE  Contains(queue, r) /\ r # s
        <4>1. PICK k \in 1..n : k # i /\ queue[k] = r
          BY <1>0, <2>1, <2>6, <3>1
        <4>2. QED BY <1>0, <2>1, <4>1 DEF IsInjective, Contains
      <3>2. ASSUME NEW j \in 1..n, queue[j] = r, r # s
            PROVE  Contains(q, r)
        <4>1. CASE j < i
          <5>1. j \in 1..n - 1 /\ q[j] = r BY <1>0, <2>1, <2>6, <3>2, <4>1
          <5>2. QED BY <2>5, <5>1 DEF Contains
        <4>2. CASE j > i
          <5>1. j - 1 \in 1..n - 1 /\ q[j - 1] = r BY <1>0, <2>1, <2>6, <3>2, <4>2
          <5>2. QED BY <2>5, <5>1 DEF Contains
        <4>3. QED BY <1>0, <2>1, <3>2, <4>1, <4>2
      <3>3. QED BY <2>5, <3>1, <3>2 DEF Contains
    <2>10. QED BY <2>2, <2>5, <2>8, <2>9
  <1>3. QED BY <1>1, <1>2

----------------------------------------------------------------------------
(* How passes move.                                                        *)

\* What a step of d does to its pass: the sessions it still has to do, and the one it
\* has in hand.
PassMoves(d) ==
    LET p == daemon[d]
        q == daemon'[d]
    IN /\ \/ q.pc \in {"scan", "count", "list", "down"}
          \/ /\ p.pc \in Serving /\ q.todo = p.todo
             /\ q.pc = "pick" \/ (q.pc \in Serving /\ q.s = p.s)
          \/ /\ p.pc \in {"remove", "clear"} /\ q.todo = p.todo
             /\ q.pc = "clean" \/ (q.pc = "clear" /\ q.s = p.s)
          \/ /\ p.pc = "list" /\ q.pc = "pick"
             /\ \A i \in DOMAIN q.todo : Contains(queue, q.todo[i])
          \/ /\ p.pc = "scan" /\ q.pc = "clean"
             /\ \A i \in DOMAIN q.todo : Prunable(q.todo[i])
          \/ /\ p.pc = "pick" /\ p.todo # <<>> /\ q.todo = Tail(p.todo)
             /\ q.pc = "pick" \/ (q.pc = "create" /\ q.s = Head(p.todo))
          \/ /\ p.pc = "clean" /\ p.todo # <<>> /\ q.todo = Tail(p.todo)
             /\ q.pc = "clean" \/ (q.pc = "remove" /\ q.s = Head(p.todo))
       /\ q.pc = "attach" => (p.pc = "create" /\ tree'[q.s])
       /\ q.pc = "launch" => (p.pc = "attach" /\ row'[q.s].wt)
       /\ q.pc = "dequeue" => p.pc = "launch"

DaemonMoves(d) ==
    /\ daemon' \in [Daemons -> PassType]
    /\ \A e \in Daemons \ {d} : daemon'[e] = daemon[e]
    /\ PassInPlace(daemon'[d])
    /\ PassMoves(d)

LEMMA PassIs ==
    ASSUME TypeOK, NEW d \in Daemons, NEW q \in PassType, Pass(d, q)
    PROVE  /\ daemon' \in [Daemons -> PassType] /\ daemon'[d] = q
           /\ \A e \in Daemons \ {d} : daemon'[e] = daemon[e]
  BY DEF TypeOK, PassType, Pass

LEMMA PassIdles ==
    ASSUME TypeOK, NEW d \in Daemons, NEW label \in {"scan", "count", "down"},
           Pass(d, IdlePass(label))
    PROVE  DaemonMoves(d)
  <1> DEFINE q == IdlePass(label)
  <1>1. q \in PassType /\ q.pc = label
    <2>1. <<>> \in Seq(Sessions) BY EmptySeq
    <2>2. 0 \in 0..MaxWorktrees BY ConstantsAssumption
    <2>3. QED BY <2>1, <2>2 DEF IdlePass, PassType, DaemonPC
  <1> HIDE DEF q
  <1>2. Pass(d, q) BY DEF q
  <1>3. QED
    BY <1>1, <1>2, PassIs DEF DaemonMoves, PassMoves, PassInPlace, Activating, Serving

LEMMA PassGoes ==
    ASSUME TypeOK, NEW d \in Daemons, NEW label \in DaemonPC, PassGoto(d, label)
    PROVE  /\ daemon' \in [Daemons -> PassType]
           /\ \A e \in Daemons \ {d} : daemon'[e] = daemon[e]
           /\ daemon'[d].pc = label /\ daemon'[d].left = daemon[d].left
           /\ daemon'[d].todo = daemon[d].todo /\ daemon'[d].s = daemon[d].s
  <1>1. daemon \in [Daemons -> PassType] BY DEF TypeOK, PassType
  <1> DEFINE q == [daemon[d] EXCEPT !.pc = label]
  <1>2. /\ q \in PassType /\ q.pc = label /\ q.left = daemon[d].left
        /\ q.todo = daemon[d].todo /\ q.s = daemon[d].s
    BY <1>1 DEF PassType
  <1>3. Pass(d, q) BY <1>1 DEF PassGoto, Pass
  <1> HIDE DEF q
  <1>4. QED BY <1>2, <1>3, PassIs

LEMMA ServingMoves ==
    ASSUME TypeOK, InPlace, NEW d \in Daemons,
           CreateWorktree(d) \/ CreateFailed(d) \/ AttachWorktree(d) \/ LaunchRunner(d)
               \/ DequeueStarted(d)
    PROVE  DaemonMoves(d) /\ UNCHANGED <<creator, user, crashes>>
  <1> DEFINE p == daemon[d]
  <1>0. /\ p \in PassType /\ PassInPlace(p) /\ p.pc \in Serving /\ p.left > 0 /\ p.s \in Sessions
        /\ UNCHANGED <<creator, user, crashes>>
    BY DEF TypeOK, PassType, InPlace, PassInPlace, Serving, Activating, CreateWorktree,
       CreateFailed, AttachWorktree, LaunchRunner, DequeueStarted
  <1>1. ASSUME Pass(d, IdlePass("scan"))
        PROVE  DaemonMoves(d)
    BY <1>1, PassIdles
  <1>2. ASSUME NEW label \in (Serving \ {"create"}) \cup {"pick"}, PassGoto(d, label),
               label = "attach" => p.pc = "create" /\ tree'[p.s],
               label = "launch" => p.pc = "attach" /\ row'[p.s].wt,
               label = "dequeue" => p.pc = "launch"
        PROVE  DaemonMoves(d)
    <2>1. label \in DaemonPC BY DEF DaemonPC, Serving
    <2>2. QED
      BY <1>0, <1>2, <2>1, PassGoes
      DEF DaemonMoves, PassMoves, PassInPlace, Activating, Serving
  <1>3. CASE CreateWorktree(d)
    BY <1>0, <1>2, <1>3 DEF CreateWorktree, Serving, TypeOK
  <1>4. CASE CreateFailed(d)
    BY <1>1, <1>2, <1>4 DEF CreateFailed, Serving
  <1>5. CASE AttachWorktree(d)
    <2>1. Exists(p.s) /\ row' = WithWorktree(p.s) => row'[p.s].wt
      BY <1>0 DEF WithWorktree, TypeOK
    <2>2. QED BY <1>1, <1>2, <1>5, <2>1 DEF AttachWorktree, Serving
  <1>6. CASE LaunchRunner(d)
    BY <1>2, <1>6 DEF LaunchRunner, Serving
  <1>7. CASE DequeueStarted(d)
    <2> DEFINE q == [p EXCEPT !.pc = "pick", !.left = @ - 1, !.s = NoSession]
    <2>1. CASE p.left = 1
      BY <1>1, <1>7, <2>1 DEF DequeueStarted
    <2>2. CASE p.left # 1
      <3>0. p.left - 1 \in 0..MaxWorktrees /\ p.left - 1 > 0
        BY <1>0, <2>2, ConstantsAssumption DEF PassType
      <3>1. q \in PassType /\ q.pc = "pick" /\ q.left = p.left - 1 /\ q.todo = p.todo
        BY <1>0, <3>0 DEF PassType, DaemonPC
      <3>2. Pass(d, q) BY <1>7, <2>2 DEF DequeueStarted
      <3> HIDE DEF q
      <3>3. QED
        BY <1>0, <3>0, <3>1, <3>2, PassIs
        DEF DaemonMoves, PassMoves, PassInPlace, Activating, Serving
    <2>3. QED BY <2>1, <2>2
  <1>8. QED BY <1>0, <1>3, <1>4, <1>5, <1>6, <1>7

LEMMA SlotsAreFew ==
    ASSUME TypeOK
    PROVE  Cardinality(Attached) \in Nat
  BY ConstantsAssumption, FS_Subset, FS_CardinalityType DEF Attached

LEMMA ListingMoves ==
    ASSUME TypeOK, InPlace, NEW d \in Daemons,
           CountSlots(d) \/ ListRequests(d) \/ PickRequest(d)
    PROVE  DaemonMoves(d) /\ UNCHANGED <<creator, user, crashes>>
  <1> DEFINE p == daemon[d]
  <1>0. /\ p \in PassType /\ PassInPlace(p) /\ UNCHANGED <<creator, user, crashes>>
    BY DEF TypeOK, PassType, InPlace, CountSlots, ListRequests, PickRequest
  <1>1. CASE CountSlots(d)
    <2> DEFINE left == MaxWorktrees - Cardinality(Attached)
               q == [IdlePass("list") EXCEPT !.left = left]
    <2>1. CASE Cardinality(Attached) >= MaxWorktrees
      BY <1>0, <1>1, <2>1, PassIdles DEF CountSlots
    <2>2. CASE ~(Cardinality(Attached) >= MaxWorktrees)
      <3>1. left \in 0..MaxWorktrees /\ left > 0
        BY <2>2, SlotsAreFew, ConstantsAssumption
      <3>2. Pass(d, q) BY <1>1, <2>2 DEF CountSlots
      <3> HIDE DEF left
      <3>3. q \in PassType /\ q.pc = "list" /\ q.left > 0
        <4>1. <<>> \in Seq(Sessions) BY EmptySeq
        <4>2. QED BY <3>1, <4>1 DEF IdlePass, PassType, DaemonPC
      <3> HIDE DEF q
      <3>4. QED
        BY <1>0, <3>2, <3>3, PassIs DEF DaemonMoves, PassMoves, PassInPlace, Activating, Serving
    <2>3. QED BY <2>1, <2>2
  <1>2. CASE ListRequests(d)
    <2> DEFINE n == IF p.left < Len(queue) THEN p.left ELSE Len(queue)
               todo == SubSeq(queue, 1, n)
               q == [p EXCEPT !.pc = "pick", !.todo = todo]
    <2>0. queue \in Seq(Sessions) /\ Len(queue) \in Nat /\ p.left \in Nat
      BY <1>0, LenProperties, ConstantsAssumption DEF TypeOK, PassType
    <2>1. n \in Nat /\ n <= Len(queue)
      BY <2>0
    <2>2. /\ todo \in Seq(Sessions) /\ Len(todo) = n
          /\ \A i \in 1..n : todo[i] = queue[i]
      <3> HIDE DEF n
      <3>1. \A i \in 1..n : queue[i] \in Sessions
        BY <2>0, <2>1, ElementOfSeq
      <3>2. /\ todo \in Seq(Sessions) /\ Len(todo) = IF 1 <= n THEN n - 1 + 1 ELSE 0
            /\ \A i \in 1..n - 1 + 1 : todo[i] = queue[1 + i - 1]
        BY <2>1, <3>1, SubSeqProperties
      <3>3. QED BY <2>1, <3>2
    <2> HIDE DEF n, todo
    <2>3. DOMAIN todo = 1..n BY <2>2, LenProperties
    <2>4. \A i \in DOMAIN todo : Contains(queue, todo[i])
      BY <2>0, <2>1, <2>2, <2>3 DEF Contains
    <2>5. p.pc = "list" /\ Pass(d, q)
      BY <1>2 DEF ListRequests, n, todo
    <2>6. q \in PassType /\ q.pc = "pick" /\ q.todo = todo /\ q.left = p.left
      BY <1>0, <2>2 DEF PassType, DaemonPC
    <2> HIDE DEF q
    <2>7. QED
      BY <1>0, <2>4, <2>5, <2>6, PassIs DEF DaemonMoves, PassMoves, PassInPlace, Activating, Serving
  <1>3. CASE PickRequest(d)
    <2> DEFINE rest == [p EXCEPT !.todo = Tail(@)]
               s == Head(p.todo)
               held == [rest EXCEPT !.pc = "create", !.s = s]
    <2>0. p.pc = "pick" BY <1>3 DEF PickRequest
    <2>1. CASE p.todo = <<>>
      BY <1>0, <1>3, <2>1, PassIdles DEF PickRequest
    <2>2. CASE p.todo # <<>>
      <3>1. s \in Sessions /\ Tail(p.todo) \in Seq(Sessions)
        BY <1>0, <2>2, HeadTailProperties DEF PassType
      <3>2. Pass(d, rest) \/ Pass(d, held)
        BY <1>3, <2>2 DEF PickRequest
      <3>3. rest \in PassType /\ rest.pc = "pick" /\ rest.todo = Tail(p.todo) /\ rest.left = p.left
        BY <1>0, <2>0, <3>1 DEF PassType
      <3> HIDE DEF s
      <3>4. /\ held \in PassType /\ held.pc = "create" /\ held.todo = Tail(p.todo)
            /\ held.left = p.left /\ held.s = s
        <4> HIDE DEF rest
        <4>1. QED BY <3>1, <3>3 DEF PassType, DaemonPC
      <3> HIDE DEF held, rest
      <3>5. ASSUME NEW q \in PassType, Pass(d, q), q.todo = Tail(p.todo), q.left = p.left,
                   q.pc = "pick" \/ (q.pc = "create" /\ q.s = s)
            PROVE  DaemonMoves(d)
        BY <1>0, <2>0, <2>2, <3>1, <3>5, PassIs
        DEF DaemonMoves, PassMoves, PassInPlace, Activating, Serving, s
      <3>6. QED BY <1>0, <3>2, <3>3, <3>4, <3>5
    <2>3. QED BY <2>1, <2>2
  <1>4. QED BY <1>1, <1>2, <1>3

LEMMA PruningMoves ==
    ASSUME TypeOK, InPlace, NEW d \in Daemons,
           ScanWorktrees(d) \/ CleanNext(d) \/ RemoveTree(d) \/ ClearWorktree(d)
               \/ DaemonRestarts(d)
    PROVE  DaemonMoves(d) /\ UNCHANGED <<creator, user, crashes>>
  <1> DEFINE p == daemon[d]
  <1>0. /\ p \in PassType /\ PassInPlace(p) /\ UNCHANGED <<creator, user, crashes>>
    BY DEF TypeOK, PassType, InPlace, ScanWorktrees, CleanNext, RemoveTree, ClearWorktree,
       DaemonRestarts
  <1>1. CASE ScanWorktrees(d)
    <2> DEFINE S == {s \in Sessions : Prunable(s)}
    <2>1. PICK todo \in SetToSeqs(S) : Pass(d, [IdlePass("clean") EXCEPT !.todo = todo])
      BY <1>1 DEF ScanWorktrees
    <2> DEFINE q == [IdlePass("clean") EXCEPT !.todo = todo]
    <2>2. todo \in Seq(Sessions) /\ \A i \in DOMAIN todo : Prunable(todo[i])
      <3>1. Cardinality(S) \in Nat
        BY ConstantsAssumption, FS_Subset, FS_CardinalityType
      <3>2. todo \in [1..Cardinality(S) -> S]
        BY DEF SetToSeqs
      <3>3. todo \in [1..Cardinality(S) -> Sessions]
        BY <3>2
      <3> HIDE DEF S
      <3>4. todo \in Seq(Sessions)
        BY <3>1, <3>3, SeqDef
      <3>5. QED BY <3>2, <3>4 DEF S
    <2> HIDE DEF S
    <2>3. q \in PassType /\ q.pc = "clean" /\ q.todo = todo
      BY <2>2, ConstantsAssumption DEF IdlePass, PassType, DaemonPC
    <2>4. p.pc = "scan" BY <1>1 DEF ScanWorktrees
    <2> HIDE DEF q
    <2>5. Pass(d, q) BY <2>1 DEF q
    <2>6. QED
      BY <1>0, <2>2, <2>3, <2>4, <2>5, PassIs
      DEF DaemonMoves, PassMoves, PassInPlace, Activating, Serving
  <1>2. CASE CleanNext(d)
    <2> DEFINE rest == [p EXCEPT !.todo = Tail(@)]
               s == Head(p.todo)
               held == [rest EXCEPT !.pc = "remove", !.s = s]
    <2>0. p.pc = "clean" BY <1>2 DEF CleanNext
    <2>1. CASE Pass(d, IdlePass("count"))
      BY <1>0, <2>1, PassIdles
    <2>2. CASE p.todo # <<>> /\ ~Pass(d, IdlePass("count"))
      <3>1. s \in Sessions /\ Tail(p.todo) \in Seq(Sessions)
        BY <1>0, <2>2, HeadTailProperties DEF PassType
      <3>2. Pass(d, rest) \/ Pass(d, held)
        BY <1>2, <2>2 DEF CleanNext
      <3>3. rest \in PassType /\ rest.pc = "clean" /\ rest.todo = Tail(p.todo)
        BY <1>0, <2>0, <3>1 DEF PassType
      <3> HIDE DEF s
      <3>4. held \in PassType /\ held.pc = "remove" /\ held.todo = Tail(p.todo) /\ held.s = s
        <4> HIDE DEF rest
        <4>1. QED BY <3>1, <3>3 DEF PassType, DaemonPC
      <3> HIDE DEF held, rest
      <3>5. ASSUME NEW q \in PassType, Pass(d, q), q.todo = Tail(p.todo),
                   q.pc = "clean" \/ (q.pc = "remove" /\ q.s = s)
            PROVE  DaemonMoves(d)
        BY <1>0, <2>0, <2>2, <3>1, <3>5, PassIs
        DEF DaemonMoves, PassMoves, PassInPlace, Activating, Serving, s
      <3>6. QED BY <1>0, <3>2, <3>3, <3>4, <3>5
    <2>3. QED BY <1>2, <2>1, <2>2 DEF CleanNext
  <1>3. CASE RemoveTree(d)
    <2>1. p.pc = "remove" /\ PassGoto(d, "clear") BY <1>3 DEF RemoveTree
    <2>2. QED
      BY <1>0, <2>1, PassGoes
      DEF DaemonMoves, PassMoves, PassInPlace, Activating, Serving, DaemonPC
  <1>4. CASE ClearWorktree(d)
    <2> DEFINE q == [p EXCEPT !.pc = "clean", !.s = NoSession]
    <2>1. CASE Pass(d, IdlePass("count"))
      BY <1>0, <2>1, PassIdles
    <2>2. CASE Pass(d, q)
      <3>1. q \in PassType /\ q.pc = "clean" /\ q.todo = p.todo
        BY <1>0 DEF PassType, DaemonPC
      <3>2. p.pc = "clear" BY <1>4 DEF ClearWorktree
      <3> HIDE DEF q
      <3>3. QED
        BY <1>0, <2>2, <3>1, <3>2, PassIs
        DEF DaemonMoves, PassMoves, PassInPlace, Activating, Serving
    <2>3. QED BY <1>4, <2>1, <2>2 DEF ClearWorktree
  <1>5. CASE DaemonRestarts(d)
    BY <1>0, <1>5, PassIdles DEF DaemonRestarts
  <1>6. QED BY <1>1, <1>2, <1>3, <1>4, <1>5

LEMMA StepMovesPass ==
    ASSUME TypeOK, InPlace, NEW d \in Daemons, DaemonStep(d)
    PROVE  DaemonMoves(d) /\ UNCHANGED <<creator, user, crashes>>
  BY ListingMoves, ServingMoves, PruningMoves DEF DaemonStep

----------------------------------------------------------------------------
(* The shape of the state.                                                 *)

LEMMA RowsTyped ==
    ASSUME TypeOK, NEW s \in Sessions
    PROVE  /\ \A new \in SessionState : StateTo(s, new) \in [Sessions -> RowType]
           /\ WithWorktree(s) \in [Sessions -> RowType]
           /\ WithoutWorktree(s) \in [Sessions -> RowType]
           /\ \A r \in RowType : [row EXCEPT ![s] = r] \in [Sessions -> RowType]
  <1>1. row \in [Sessions -> RowType] BY DEF TypeOK, RowType
  <1>2. ASSUME NEW new \in SessionState
        PROVE  [row EXCEPT ![s].state = new] \in [Sessions -> RowType]
    BY <1>1 DEF RowType
  <1>3. WithWorktree(s) \in [Sessions -> RowType]
    BY <1>1 DEF RowType, WithWorktree, Dir
  <1>4. WithoutWorktree(s) \in [Sessions -> RowType]
    BY <1>1 DEF RowType, WithoutWorktree
  <1>5. QED BY <1>1, <1>2, <1>3, <1>4 DEF StateTo

LEMMA AgentsTyped ==
    ASSUME TypeOK, NEW s \in Sessions
    PROVE  /\ \A dir \in Dir, d \in Daemons \cup {Nobody} :
                 Started(s, dir, d) \in [Sessions -> AgentType]
           /\ Killed(s) \in [Sessions -> AgentType]
           /\ [agent EXCEPT ![s].pc = "live", ![s].ran = TRUE] \in [Sessions -> AgentType]
           /\ [agent EXCEPT ![s].pc = "over"] \in [Sessions -> AgentType]
  <1>1. agent \in [Sessions -> AgentType] BY DEF TypeOK, AgentType
  <1>2. ASSUME NEW dir \in Dir, NEW d \in Daemons \cup {Nobody}
        PROVE  Started(s, dir, d) \in [Sessions -> AgentType]
    BY <1>1 DEF AgentType, Started
  <1>3. Killed(s) \in [Sessions -> AgentType]
    BY <1>1 DEF AgentType, Killed
  <1>4. [agent EXCEPT ![s].pc = "live", ![s].ran = TRUE] \in [Sessions -> AgentType]
    BY <1>1 DEF AgentType
  <1>5. [agent EXCEPT ![s].pc = "over"] \in [Sessions -> AgentType]
    BY <1>1 DEF AgentType
  <1>6. QED BY <1>2, <1>3, <1>4, <1>5

LEMMA CreatorTypes ==
    ASSUME TypeOK, InPlace, NEW s \in Sessions, CreatorStep(s)
    PROVE  TypeOK' /\ InPlace'
  <1>0. /\ row \in [Sessions -> RowType] /\ agent \in [Sessions -> AgentType]
        /\ tree \in [Sessions -> BOOLEAN]
        /\ creator \in [Sessions -> {"new", "free", "full", "insert", "enqueue", "spawn", "done"}]
        /\ UNCHANGED <<daemon, user, crashes>>
    BY DEF TypeOK, RowType, AgentType, CreatorStep, CountForNew, CreateForNew, InsertSession,
       Enqueue, SpawnRunner
  <1>1. PICK label \in {"free", "full", "insert", "enqueue", "spawn", "done"} : Creating(s, label)
    BY DEF CreatorStep, CountForNew, CreateForNew, InsertSession, Enqueue, SpawnRunner
  <1>2. creator' \in [Sessions -> {"new", "free", "full", "insert", "enqueue", "spawn", "done"}]
        /\ \A r \in Sessions \ {s} : creator'[r] = creator[r]
    BY <1>0, <1>1 DEF Creating
  <1>3. /\ row' \in [Sessions -> RowType] /\ agent' \in [Sessions -> AgentType]
        /\ tree' \in [Sessions -> BOOLEAN]
    <2>1. CASE CountForNew(s) BY <1>0, <2>1 DEF CountForNew
    <2>2. CASE CreateForNew(s) BY <1>0, <2>2 DEF CreateForNew
    <2>3. CASE InsertSession(s)
      BY <1>0, <2>3, RowsTyped DEF InsertSession, RowType, SessionState, Dir
    <2>4. CASE Enqueue(s) BY <1>0, <2>4 DEF Enqueue
    <2>5. CASE SpawnRunner(s)
      <3>1. StateTo(s, "Failed") \in [Sessions -> RowType]
        BY RowsTyped DEF SessionState
      <3>2. Started(s, "tree", Nobody) \in [Sessions -> AgentType]
        BY AgentsTyped DEF Dir
      <3>3. QED BY <1>0, <2>5, <3>1, <3>2 DEF SpawnRunner
    <2>6. QED BY <2>1, <2>2, <2>3, <2>4, <2>5 DEF CreatorStep
  <1>4. /\ queue' \in Seq(Sessions) /\ IsInjective(queue')
        /\ \A r \in Sessions : creator'[r] # "done" => ~Contains(queue', r)
    <2>1. CASE Enqueue(s)
      <3>1. ~Contains(queue, s) BY <2>1 DEF Enqueue, InPlace
      <3>2. creator'[s] = "done" BY <1>0, <2>1 DEF Enqueue, Creating
      <3>3. queue' = Append(queue, s) BY <2>1 DEF Enqueue
      <3>4. QED BY <1>2, <3>1, <3>2, <3>3, EnqueuedAtEnd DEF TypeOK, InPlace
    <2>2. CASE ~Enqueue(s)
      <3>1. queue' = queue /\ creator[s] # "done"
        BY <2>2 DEF CreatorStep, CountForNew, CreateForNew, InsertSession, SpawnRunner
      <3>2. QED BY <1>2, <3>1 DEF TypeOK, InPlace
    <2>3. QED BY <2>1, <2>2
  <1>5. TypeOK'
    BY <1>0, <1>2, <1>3, <1>4 DEF TypeOK, RowType, AgentType
  <1>6. InPlace'
    BY <1>0, <1>4 DEF InPlace
  <1>7. QED BY <1>5, <1>6

LEMMA AgentTypes ==
    ASSUME TypeOK, InPlace, NEW s \in Sessions,
           AgentStarts(s) \/ AgentEnds(s) \/ HeartbeatExpires(s)
    PROVE  TypeOK' /\ InPlace'
  <1>0. /\ row \in [Sessions -> RowType] /\ agent \in [Sessions -> AgentType]
        /\ UNCHANGED <<tree, queue, creator, daemon, user, crashes>>
    BY DEF TypeOK, RowType, AgentType, AgentStarts, AgentEnds, HeartbeatExpires
  <1>1. ASSUME NEW new \in SessionState
        PROVE  [row EXCEPT ![s].state = new] \in [Sessions -> RowType]
    BY <1>0 DEF RowType
  <1>2. row' \in [Sessions -> RowType] /\ agent' \in [Sessions -> AgentType]
    <2>1. CASE AgentStarts(s)
      <3>1. [row EXCEPT ![s].state = "Running"] \in [Sessions -> RowType]
        BY <1>1 DEF SessionState
      <3>2. QED BY <1>0, <2>1, <3>1, AgentsTyped DEF AgentStarts
    <2>2. CASE AgentEnds(s)
      <3>1. \A final \in {"Completed", "Failed"} : StateTo(s, final) \in [Sessions -> RowType]
        <4>1. {"Completed", "Failed"} \subseteq SessionState BY DEF SessionState
        <4>2. QED BY <4>1, RowsTyped
      <3>2. QED BY <1>0, <2>2, <3>1, AgentsTyped DEF AgentEnds
    <2>3. CASE HeartbeatExpires(s)
      <3>1. [row EXCEPT ![s].state = "Stale"] \in [Sessions -> RowType]
        BY <1>1 DEF SessionState
      <3>2. QED BY <1>0, <2>3, <3>1 DEF HeartbeatExpires
    <2>4. QED BY <2>1, <2>2, <2>3
  <1>3. TypeOK'
    BY <1>0, <1>2 DEF TypeOK, RowType, AgentType
  <1>4. QED BY <1>0, <1>3 DEF InPlace

\* What a pass does to the rows, the trees, the queue and the agents.
LEMMA PassTypes ==
    ASSUME TypeOK, InPlace, NEW d \in Daemons, DaemonStep(d)
    PROVE  TypeOK' /\ InPlace'
  <1> DEFINE s == daemon[d].s
  <1>0. /\ row \in [Sessions -> RowType] /\ agent \in [Sessions -> AgentType]
        /\ tree \in [Sessions -> BOOLEAN]
        /\ queue \in Seq(Sessions) /\ IsInjective(queue)
        /\ PassInPlace(daemon[d])
    BY DEF TypeOK, RowType, AgentType, InPlace
  <1>1. /\ row' \in [Sessions -> RowType] /\ agent' \in [Sessions -> AgentType]
        /\ tree' \in [Sessions -> BOOLEAN]
        /\ queue' = queue \/ \E r : queue' = Dequeued(r)
    <2>1. CASE CountSlots(d) BY <1>0, <2>1 DEF CountSlots
    <2>2. CASE ListRequests(d) BY <1>0, <2>2 DEF ListRequests
    <2>3. CASE PickRequest(d) BY <1>0, <2>3 DEF PickRequest
    <2>4. CASE CreateWorktree(d) BY <1>0, <2>4 DEF CreateWorktree
    <2>5. CASE CreateFailed(d)
      <3>1. s \in Sessions BY <1>0, <2>5 DEF CreateFailed, PassInPlace, Serving
      <3>2. QED BY <1>0, <2>5, <3>1, RowsTyped DEF CreateFailed, SessionState
    <2>6. CASE AttachWorktree(d)
      <3>1. s \in Sessions BY <1>0, <2>6 DEF AttachWorktree, PassInPlace, Serving
      <3>2. QED BY <1>0, <2>6, <3>1, RowsTyped DEF AttachWorktree
    <2>7. CASE LaunchRunner(d)
      <3>1. s \in Sessions BY <1>0, <2>7 DEF LaunchRunner, PassInPlace, Serving
      <3>2. QED BY <1>0, <2>7, <3>1, AgentsTyped DEF LaunchRunner, Dir
    <2>8. CASE DequeueStarted(d) BY <1>0, <2>8 DEF DequeueStarted
    <2>9. CASE ScanWorktrees(d) BY <1>0, <2>9 DEF ScanWorktrees
    <2>10. CASE CleanNext(d)
      <3>1. CASE UNCHANGED <<row, agent>> BY <1>0, <2>10, <3>1 DEF CleanNext
      <3>2. CASE ~UNCHANGED <<row, agent>>
        <4> DEFINE r == Head(daemon[d].todo)
        <4>1. r \in Sessions
          BY <2>10, <3>2, HeadTailProperties DEF CleanNext, TypeOK
        <4>2. row' = [row EXCEPT ![r].state = "Stopped"] /\ agent' = Killed(r)
          BY <2>10, <3>2 DEF CleanNext
        <4> HIDE DEF r
        <4>3. row' \in [Sessions -> RowType]
          BY <1>0, <4>1, <4>2 DEF RowType, SessionState
        <4>4. QED BY <1>0, <2>10, <4>1, <4>2, <4>3, AgentsTyped DEF CleanNext
      <3>3. QED BY <3>1, <3>2
    <2>11. CASE RemoveTree(d) BY <1>0, <2>11 DEF RemoveTree
    <2>12. CASE ClearWorktree(d)
      <3>1. s \in Sessions BY <1>0, <2>12 DEF ClearWorktree, PassInPlace
      <3>2. QED BY <1>0, <2>12, <3>1, RowsTyped DEF ClearWorktree
    <2>13. CASE DaemonRestarts(d) BY <1>0, <2>13 DEF DaemonRestarts
    <2>14. QED
      BY <2>1, <2>2, <2>3, <2>4, <2>5, <2>6, <2>7, <2>8, <2>9, <2>10, <2>11, <2>12, <2>13
      DEF DaemonStep
  <1>2. /\ queue' \in Seq(Sessions) /\ IsInjective(queue')
        /\ \A r : Contains(queue', r) => Contains(queue, r)
    BY <1>0, <1>1, DequeuedOnce
  <1>3. DaemonMoves(d) /\ UNCHANGED <<creator, user, crashes>>
    BY StepMovesPass
  <1>4. TypeOK'
    BY <1>1, <1>2, <1>3 DEF TypeOK, RowType, AgentType, DaemonMoves, PassType
  <1>5. InPlace'
    BY <1>2, <1>3 DEF InPlace, DaemonMoves
  <1>6. QED BY <1>4, <1>5

LEMMA CrashTypes ==
    ASSUME TypeOK, InPlace, NEW d \in Daemons, DaemonCrashes(d)
    PROVE  TypeOK' /\ InPlace' /\ DaemonMoves(d)
  <1>1. DaemonMoves(d)
    BY PassIdles DEF DaemonCrashes
  <1>2. agent' \in [Sessions -> AgentType]
    <2>1. agent \in [Sessions -> AgentType] BY DEF TypeOK, AgentType
    <2>2. ASSUME NEW s \in Sessions
          PROVE  agent'[s] \in AgentType
      BY <2>1 DEF DaemonCrashes, AgentType
    <2>3. QED BY <2>2 DEF DaemonCrashes
  <1>3. crashes' \in 0..MaxCrashes
    BY ConstantsAssumption DEF DaemonCrashes, TypeOK
  <1>4. UNCHANGED <<row, tree, queue, creator, user>>
    BY DEF DaemonCrashes
  <1>5. TypeOK'
    BY <1>1, <1>2, <1>3, <1>4 DEF TypeOK, AgentType, DaemonMoves, PassType
  <1>6. QED BY <1>1, <1>4, <1>5 DEF InPlace, DaemonMoves

LEMMA UserTypes ==
    ASSUME TypeOK, InPlace, NEW u \in Users, UserStep(u)
    PROVE  TypeOK' /\ InPlace'
  <1>0. /\ row \in [Sessions -> RowType] /\ agent \in [Sessions -> AgentType]
        /\ tree \in [Sessions -> BOOLEAN] /\ user \in [Users -> UserType]
        /\ user[u].pc # "idle" => user[u].s \in Sessions
        /\ queue' = queue \/ queue' = Dequeued(user[u].s)
        /\ UNCHANGED <<creator, daemon, crashes>>
    BY DEF TypeOK, RowType, AgentType, UserType, InPlace, UserStep, UserStops, UserResumes,
       UserDeletes, UserRemovesTree, UserClearsWorktree, ResumeResets, ResumeSpawns, UserDeletesRow
  <1>a. /\ queue' \in Seq(Sessions) /\ IsInjective(queue')
        /\ \A r : Contains(queue', r) => Contains(queue, r)
    BY <1>0, DequeuedOnce DEF TypeOK, InPlace
  <1>1. ASSUME NEW s \in Sessions,
               NEW label \in {"remove", "clear", "reset", "spawn", "delete", "done"},
               UserGoto(u, label, s)
        PROVE  /\ user' \in [Users -> UserType]
               /\ \A v \in Users : user'[v].pc # "idle" => user'[v].s \in Sessions
    BY <1>0, <1>1 DEF UserGoto, UserType, InPlace
  <1>2. ASSUME row' \in [Sessions -> RowType], agent' \in [Sessions -> AgentType],
               tree' \in [Sessions -> BOOLEAN], NEW s \in Sessions,
               NEW label \in {"remove", "clear", "reset", "spawn", "delete", "done"},
               UserGoto(u, label, s)
        PROVE  TypeOK' /\ InPlace'
    BY <1>0, <1>a, <1>1, <1>2 DEF TypeOK, RowType, AgentType, UserType, InPlace
  <1>3. ASSUME NEW s \in Sessions, UserStops(u, s) \/ UserResumes(u, s) \/ UserDeletes(u, s)
        PROVE  TypeOK' /\ InPlace'
    <2>1. CASE UserStops(u, s)
      BY <1>0, <1>2, <2>1, RowsTyped, AgentsTyped DEF UserStops, SessionState
    <2>2. CASE UserResumes(u, s)
      BY <1>0, <1>2, <2>2 DEF UserResumes
    <2>3. CASE UserDeletes(u, s)
      BY <1>0, <1>2, <2>3 DEF UserDeletes
    <2>4. QED BY <1>3, <2>1, <2>2, <2>3
  <1>4. CASE UserRemovesTree(u)
    BY <1>0, <1>2, <1>4 DEF UserRemovesTree
  <1>5. CASE UserClearsWorktree(u)
    BY <1>0, <1>2, <1>5, RowsTyped DEF UserClearsWorktree
  <1>6. CASE ResumeResets(u)
    <2>1. [row EXCEPT ![user[u].s].state = "Pending"] \in [Sessions -> RowType]
      BY <1>0 DEF RowType, SessionState
    <2>2. QED BY <1>0, <1>2, <1>6, <2>1 DEF ResumeResets
  <1>7. CASE ResumeSpawns(u)
    <2>1. user[u].s \in Sessions BY <1>0, <1>7 DEF ResumeSpawns
    <2>2. row[user[u].s].dir \in Dir BY <1>0, <2>1 DEF RowType
    <2>3. QED BY <1>0, <1>2, <1>7, <2>1, <2>2, AgentsTyped DEF ResumeSpawns
  <1>8. CASE UserDeletesRow(u)
    <2>1. [state |-> Absent, wt |-> FALSE, dir |-> "repo"] \in RowType
      BY DEF RowType, Dir
    <2>2. user[u].s \in Sessions BY <1>0, <1>8 DEF UserDeletesRow
    <2>3. QED BY <1>0, <1>2, <1>8, <2>1, <2>2, RowsTyped DEF UserDeletesRow
  <1>9. QED BY <1>3, <1>4, <1>5, <1>6, <1>7, <1>8 DEF UserStep

LEMMA TypedStep ==
    ASSUME TypeOK, InPlace, [Next]_vars
    PROVE  TypeOK' /\ InPlace'
  <1>1. CASE UNCHANGED vars
    BY <1>1 DEF vars, TypeOK, InPlace
  <1>2. CASE Next
    BY <1>2, CreatorTypes, AgentTypes, PassTypes, CrashTypes, UserTypes DEF Next
  <1>3. QED BY <1>1, <1>2

LEMMA TypedInit ==
    ASSUME Init
    PROVE  TypeOK /\ InPlace
  <1>1. <<>> \in Seq(Sessions) /\ IsInjective(<<>>) /\ \A s : ~Contains(<<>>, s)
    BY EmptySeq DEF IsInjective, Contains
  <1>2. 0 \in 0..MaxWorktrees /\ 0 \in 0..MaxCrashes
    BY ConstantsAssumption
  <1>3. IdlePass("scan") \in PassType
    BY <1>1, <1>2 DEF IdlePass, PassType, DaemonPC
  <1>4. TypeOK
    <2>1. daemon \in [Daemons -> PassType] BY <1>3 DEF Init
    <2>2. QED BY <1>1, <1>2, <2>1 DEF Init, TypeOK, Dir, PassType
  <1>5. InPlace
    BY <1>1 DEF Init, InPlace, PassInPlace, IdlePass, Activating, Serving
  <1>6. QED BY <1>4, <1>5

\* The rows, the queue and every pass are always well formed; the queue never holds a
\* session twice, and a pass never gives out more slots than it counted.
THEOREM SlotTyping == Spec => []TypeOK
  <1>1. Init => TypeOK /\ InPlace BY TypedInit
  <1>2. (TypeOK /\ InPlace) /\ [Next]_vars => (TypeOK /\ InPlace)' BY TypedStep
  <1>3. QED BY <1>1, <1>2, PTL DEF Spec

----------------------------------------------------------------------------
(* Sessions that are over stay over.                                       *)

NoResume == "resume" \notin UserActs

\* What a step does to a session: its creator does not come back, and a session that is
\* active afterwards was active before and keeps its worktree.
Goes(s) ==
    /\ creator[s] = "done" => creator'[s] = "done"
    /\ agent[s].pc # "none" => agent'[s].pc # "none"
    /\ ~Fresh(s) =>
          /\ ~Fresh(s)'
          /\ row'[s].state = "Pending" => row[s].state = "Pending"
          /\ Active(s)' => /\ Active(s)
                           /\ row[s].wt => row'[s].wt
                           /\ tree[s] => tree'[s]

Sound(s) == Goes(s) /\ SessionSound(s)'

SameSession(s) ==
    row'[s] = row[s] /\ tree'[s] = tree[s] /\ creator'[s] = creator[s] /\ agent'[s] = agent[s]

LEMMA SameIsSound ==
    ASSUME NEW s \in Sessions, SessionSound(s), SameSession(s)
    PROVE  Sound(s)
  BY DEF Sound, SameSession, Goes, SessionSound, Fresh, Active

\* A step about one session.
LEMMA OneIsSound ==
    ASSUME SlotInv, NEW s, SessionSound(s)' /\ Goes(s),
           \A r \in Sessions \ {s} : SameSession(r)
    PROVE  \A r \in Sessions : Sound(r)
  BY SameIsSound DEF SlotInv, Sound

\* What the rows are after the writes of the store.
LEMMA RowsWritten ==
    ASSUME TypeOK, NEW s \in Sessions
    PROVE  /\ \A new : /\ \A r \in Sessions \ {s} : StateTo(s, new)[r] = row[r]
                       /\ StateTo(s, new)[s].wt = row[s].wt
                       /\ StateTo(s, new)[s].state = IF Allowed(s, new) THEN new ELSE row[s].state
           /\ \A r \in Sessions \ {s} : WithWorktree(s)[r] = row[r]
           /\ WithWorktree(s)[s].wt /\ WithWorktree(s)[s].state = row[s].state
           /\ \A r \in Sessions \ {s} : WithoutWorktree(s)[r] = row[r]
           /\ ~WithoutWorktree(s)[s].wt /\ WithoutWorktree(s)[s].state = row[s].state
  <1>1. row \in [Sessions -> RowType] BY DEF TypeOK, RowType
  <1>2. ASSUME NEW new
        PROVE  /\ \A r \in Sessions \ {s} : StateTo(s, new)[r] = row[r]
               /\ StateTo(s, new)[s].wt = row[s].wt
               /\ StateTo(s, new)[s].state = IF Allowed(s, new) THEN new ELSE row[s].state
    BY <1>1 DEF StateTo, RowType
  <1>3. /\ \A r \in Sessions \ {s} : WithWorktree(s)[r] = row[r]
        /\ WithWorktree(s)[s].wt /\ WithWorktree(s)[s].state = row[s].state
    BY <1>1 DEF WithWorktree, RowType
  <1>4. /\ \A r \in Sessions \ {s} : WithoutWorktree(s)[r] = row[r]
        /\ ~WithoutWorktree(s)[s].wt /\ WithoutWorktree(s)[s].state = row[s].state
    BY <1>1 DEF WithoutWorktree, RowType
  <1>5. QED BY <1>2, <1>3, <1>4

\* What the agents are after a runner was started or an agent killed.
LEMMA AgentsWritten ==
    ASSUME TypeOK, NEW s \in Sessions
    PROVE  /\ \A dir, d :
                 LET a == Started(s, dir, d)[s]
                 IN /\ \A r \in Sessions \ {s} : Started(s, dir, d)[r] = agent[r]
                    /\ a.ran = agent[s].ran /\ a.pc # "none"
                    /\ a.pc = "live" => a.cwd = agent[s].cwd /\ agent[s].pc = "live"
                    /\ a = agent[s] \/ (a.pc = "starting" /\ a.cwd = dir)
           /\ LET a == Killed(s)[s]
              IN /\ \A r \in Sessions \ {s} : Killed(s)[r] = agent[r]
                 /\ a.ran = agent[s].ran /\ a.cwd = agent[s].cwd
                 /\ a.pc = "none" <=> agent[s].pc = "none"
                 /\ a.pc \in {"starting", "live"} => a.pc = agent[s].pc
  <1>1. agent \in [Sessions -> AgentType] BY DEF TypeOK, AgentType
  <1>2. ASSUME NEW dir, NEW d
        PROVE  LET a == Started(s, dir, d)[s]
               IN /\ \A r \in Sessions \ {s} : Started(s, dir, d)[r] = agent[r]
                  /\ a.ran = agent[s].ran /\ a.pc # "none"
                  /\ a.pc = "live" => a.cwd = agent[s].cwd /\ agent[s].pc = "live"
                  /\ a = agent[s] \/ (a.pc = "starting" /\ a.cwd = dir)
    <2>1. CASE agent[s].pc \in {"none", "over"}
      BY <1>1, <2>1 DEF Started, AgentType
    <2>2. CASE agent[s].pc \notin {"none", "over"}
      BY <1>1, <2>2 DEF Started, AgentType
    <2>3. QED BY <2>1, <2>2
  <1>3. LET a == Killed(s)[s]
        IN /\ \A r \in Sessions \ {s} : Killed(s)[r] = agent[r]
           /\ a.ran = agent[s].ran /\ a.cwd = agent[s].cwd
           /\ a.pc = "none" <=> agent[s].pc = "none"
           /\ a.pc \in {"starting", "live"} => a.pc = agent[s].pc
    BY <1>1 DEF Killed, AgentType
  <1>4. QED BY <1>2, <1>3

LEMMA CreatorSound ==
    ASSUME SlotInv, NEW s \in Sessions, CreatorStep(s)
    PROVE  \A r \in Sessions : Sound(r)
  <1>0. /\ row \in [Sessions -> RowType] /\ agent \in [Sessions -> AgentType]
        /\ tree \in [Sessions -> BOOLEAN] /\ TypeOK /\ SessionSound(s)
        /\ creator \in [Sessions -> {"new", "free", "full", "insert", "enqueue", "spawn", "done"}]
    BY DEF SlotInv, TypeOK, RowType, AgentType
  <1>1. CASE CountForNew(s)
    <2>1. \A r \in Sessions \ {s} : SameSession(r)
      BY <1>0, <1>1 DEF CountForNew, Creating, SameSession
    <2>2. creator'[s] \in {"free", "full"} /\ creator[s] = "new" /\ UNCHANGED <<row, tree, agent>>
      BY <1>0, <1>1 DEF CountForNew, Creating
    <2>3. SessionSound(s)' /\ Goes(s)
      BY <1>0, <2>2 DEF SessionSound, Goes, Fresh, Active
    <2>4. QED BY <2>1, <2>3, OneIsSound
  <1>2. CASE CreateForNew(s)
    <2>1. \A r \in Sessions \ {s} : SameSession(r)
      BY <1>0, <1>2 DEF CreateForNew, Creating, SameSession
    <2>2. /\ \/ creator'[s] = "insert" /\ tree'[s]
             \/ creator'[s] = "done" /\ tree'[s] = tree[s]
          /\ creator[s] = "free" /\ UNCHANGED <<row, agent>>
      BY <1>0, <1>2 DEF CreateForNew, Creating
    <2>3. SessionSound(s)' /\ Goes(s)
      BY <1>0, <2>2 DEF SessionSound, Goes, Fresh, Active
    <2>4. QED BY <2>1, <2>3, OneIsSound
  <1>3. CASE InsertSession(s)
    <2>1. \A r \in Sessions \ {s} : SameSession(r)
      BY <1>0, <1>3 DEF InsertSession, Creating, SameSession
    <2>2. /\ row'[s].state = "Pending" /\ row'[s].wt = (creator[s] = "insert")
          /\ creator'[s] = IF creator[s] = "insert" THEN "spawn" ELSE "enqueue"
          /\ creator[s] \in {"insert", "full"} /\ UNCHANGED <<tree, agent>>
      BY <1>0, <1>3 DEF InsertSession, Creating
    <2>3. SessionSound(s)' /\ Goes(s)
      BY <1>0, <2>2 DEF SessionSound, Goes, Fresh, Active
    <2>4. QED BY <2>1, <2>3, OneIsSound
  <1>4. CASE Enqueue(s)
    <2>1. \A r \in Sessions \ {s} : SameSession(r)
      BY <1>0, <1>4 DEF Enqueue, Creating, SameSession
    <2>2. creator'[s] = "done" /\ creator[s] = "enqueue" /\ UNCHANGED <<row, tree, agent>>
      BY <1>0, <1>4 DEF Enqueue, Creating
    <2>3. SessionSound(s)' /\ Goes(s)
      BY <1>0, <2>2 DEF SessionSound, Goes, Fresh, Active
    <2>4. QED BY <2>1, <2>3, OneIsSound
  <1>5. CASE SpawnRunner(s)
    <2>1. \A r \in Sessions \ {s} : SameSession(r)
      <3>1. \A r \in Sessions \ {s} : creator'[r] = creator[r] /\ tree'[r] = tree[r]
        BY <1>0, <1>5 DEF SpawnRunner, Creating
      <3>2. \A r \in Sessions \ {s} : row'[r] = row[r]
        <4>1. row' = row \/ row' = StateTo(s, "Failed") BY <1>5 DEF SpawnRunner
        <4>2. QED BY <1>0, <4>1, RowsWritten
      <3>3. \A r \in Sessions \ {s} : agent'[r] = agent[r]
        <4>1. agent' = agent \/ agent' = Started(s, "tree", Nobody) BY <1>5 DEF SpawnRunner
        <4>2. QED BY <1>0, <4>1, AgentsWritten
      <3>4. QED BY <3>1, <3>2, <3>3 DEF SameSession
    <2>2. creator[s] = "spawn" /\ creator'[s] = "done"
      BY <1>0, <1>5 DEF SpawnRunner, Creating
    <2>3. CASE agent' = Started(s, "tree", Nobody) /\ UNCHANGED <<row, tree>>
      BY <1>0, <2>1, <2>2, <2>3, AgentsWritten, OneIsSound DEF SessionSound, Goes, Fresh, Active
    <2>4. CASE /\ row' = StateTo(s, "Failed") /\ UNCHANGED agent
               /\ tree' = [tree EXCEPT ![s] = IF Allowed(s, "Failed") THEN FALSE ELSE @]
      <3>1. /\ row'[s].wt = row[s].wt
            /\ IF Allowed(s, "Failed") THEN row'[s].state = "Failed"
               ELSE row'[s].state = row[s].state /\ tree'[s] = tree[s]
        BY <1>0, <2>4, RowsWritten
      <3>2. SessionSound(s)' /\ Goes(s)
        BY <1>0, <2>2, <2>4, <3>1 DEF SessionSound, Goes, Fresh, Active
      <3>3. QED BY <2>1, <3>2, OneIsSound
    <2>5. QED BY <1>5, <2>3, <2>4 DEF SpawnRunner
  <1>6. QED BY <1>1, <1>2, <1>3, <1>4, <1>5 DEF CreatorStep

LEMMA AgentSound ==
    ASSUME SlotInv, NEW s \in Sessions, AgentStarts(s) \/ AgentEnds(s) \/ HeartbeatExpires(s)
    PROVE  \A r \in Sessions : Sound(r)
  <1>0. /\ row \in [Sessions -> RowType] /\ agent \in [Sessions -> AgentType]
        /\ TypeOK /\ SessionSound(s) /\ UNCHANGED <<tree, creator>>
    BY DEF SlotInv, TypeOK, RowType, AgentType, AgentStarts, AgentEnds, HeartbeatExpires
  <1>1. CASE AgentStarts(s)
    <2>1. \A r \in Sessions \ {s} : SameSession(r)
      BY <1>0, <1>1 DEF AgentStarts, SameSession
    <2>2. CASE row[s].state = "Pending"
      <3>1. /\ row'[s].state = "Running" /\ row'[s].wt = row[s].wt
            /\ agent[s].pc = "starting" /\ agent'[s].pc = "live" /\ agent'[s].cwd = agent[s].cwd
        BY <1>0, <1>1, <2>2 DEF AgentStarts, RowType, AgentType
      <3>2. SessionSound(s)' /\ Goes(s)
        BY <1>0, <2>2, <3>1 DEF SessionSound, Goes, Fresh, Active
      <3>3. QED BY <2>1, <3>2, OneIsSound
    <2>3. CASE row[s].state # "Pending"
      <3>1. /\ row'[s] = row[s] /\ agent[s].pc = "starting"
            /\ agent'[s].pc = "over" /\ agent'[s].ran = agent[s].ran
        BY <1>0, <1>1, <2>3 DEF AgentStarts, AgentType
      <3>2. SessionSound(s)' /\ Goes(s)
        BY <1>0, <2>3, <3>1 DEF SessionSound, Goes, Fresh, Active
      <3>3. QED BY <2>1, <3>2, OneIsSound
    <2>4. QED BY <2>2, <2>3
  <1>2. CASE AgentEnds(s)
    <2>1. \A r \in Sessions \ {s} : SameSession(r)
      BY <1>0, <1>2, RowsWritten DEF AgentEnds, SameSession
    <2>2. /\ agent[s].pc \in {"live", "orphan"}
          /\ agent'[s].pc = "over" /\ agent'[s].ran = agent[s].ran
      BY <1>0, <1>2 DEF AgentEnds, AgentType
    <2>3. row'[s].wt = row[s].wt /\ row'[s].state \in {row[s].state, "Completed", "Failed"}
      BY <1>0, <1>2, RowsWritten DEF AgentEnds
    <2>4. SessionSound(s)' /\ Goes(s)
      BY <1>0, <2>2, <2>3 DEF SessionSound, Goes, Fresh, Active
    <2>5. QED BY <2>1, <2>4, OneIsSound
  <1>3. CASE HeartbeatExpires(s)
    <2>1. \A r \in Sessions \ {s} : SameSession(r)
      BY <1>0, <1>3 DEF HeartbeatExpires, SameSession
    <2>2. /\ row[s].state = "Running" /\ row'[s].state = "Stale" /\ row'[s].wt = row[s].wt
          /\ UNCHANGED agent
      BY <1>0, <1>3 DEF HeartbeatExpires, RowType
    <2>3. SessionSound(s)' /\ Goes(s)
      BY <1>0, <2>2 DEF SessionSound, Goes, Fresh, Active, Absent
    <2>4. QED BY <2>1, <2>3, OneIsSound
  <1>4. QED BY <1>1, <1>2, <1>3

LEMMA PassKeepsSound ==
    ASSUME SlotInv, NEW d \in Daemons, DaemonStep(d)
    PROVE  \A r \in Sessions : Sound(r)
  <1>a. PICK s : s = daemon[d].s OBVIOUS
  <1>0. /\ s = daemon[d].s
        /\ row \in [Sessions -> RowType] /\ agent \in [Sessions -> AgentType]
        /\ tree \in [Sessions -> BOOLEAN] /\ TypeOK
        /\ PassInPlace(daemon[d]) /\ PassSound(d) /\ UNCHANGED creator
        /\ \A r \in Sessions : SessionSound(r)
    BY <1>a, StepMovesPass DEF SlotInv, InPlace, TypeOK, RowType, AgentType
  <1>1. CASE UNCHANGED <<row, tree, agent>>
    <2>1. \A r \in Sessions : SameSession(r) BY <1>0, <1>1 DEF SameSession
    <2>2. QED BY <1>0, <2>1, SameIsSound
  <1>2. CASE CreateWorktree(d) /\ ~UNCHANGED <<row, tree, agent>>
    <2>1. s \in Sessions /\ UNCHANGED <<row, agent>> /\ tree' = [tree EXCEPT ![s] = TRUE]
      BY <1>0, <1>2 DEF CreateWorktree, PassInPlace, Serving
    <2>2. tree'[s] /\ \A r \in Sessions \ {s} : SameSession(r)
      BY <1>0, <2>1 DEF SameSession
    <2>3. SessionSound(s)' /\ Goes(s)
      BY <1>0, <2>1, <2>2 DEF SessionSound, Goes, Fresh, Active
    <2>4. QED BY <2>1, <2>2, <2>3, OneIsSound
  <1>3. CASE CreateFailed(d)
    <2>1. s \in Sessions /\ creator[s] = "done"
      BY <1>0, <1>3 DEF CreateFailed, PassInPlace, PassSound, Serving
    <2>2. UNCHANGED <<tree, agent>> /\ row' = StateTo(s, "Failed")
      BY <1>0, <1>3 DEF CreateFailed
    <2>3. /\ row'[s].wt = row[s].wt /\ row'[s].state \in {row[s].state, "Failed"}
          /\ \A r \in Sessions \ {s} : SameSession(r)
      BY <1>0, <2>1, <2>2, RowsWritten DEF SameSession
    <2>4. SessionSound(s)' /\ Goes(s)
      BY <1>0, <2>1, <2>2, <2>3 DEF SessionSound, Goes, Fresh, Active
    <2>5. QED BY <2>1, <2>3, <2>4, OneIsSound
  <1>4. CASE AttachWorktree(d)
    <2>1. /\ s \in Sessions /\ creator[s] = "done" /\ UNCHANGED agent
          /\ Active(s) => tree[s]
      BY <1>0, <1>4 DEF AttachWorktree, PassInPlace, PassSound, Serving
    <2>2. CASE Exists(s)
      <3>1. row' = WithWorktree(s) /\ UNCHANGED tree BY <1>0, <1>4, <2>2 DEF AttachWorktree
      <3>2. /\ row'[s].wt /\ row'[s].state = row[s].state
            /\ \A r \in Sessions \ {s} : SameSession(r)
        BY <1>0, <2>1, <3>1, RowsWritten DEF SameSession
      <3>3. SessionSound(s)' /\ Goes(s)
        BY <1>0, <2>1, <3>1, <3>2 DEF SessionSound, Goes, Fresh, Active
      <3>4. QED BY <2>1, <3>2, <3>3, OneIsSound
    <2>3. CASE ~Exists(s)
      <3>1. tree' = [tree EXCEPT ![s] = FALSE] /\ UNCHANGED row
        BY <1>0, <1>4, <2>3 DEF AttachWorktree
      <3>2. row[s].state = Absent BY <2>3 DEF Exists
      <3>3. \A r \in Sessions \ {s} : SameSession(r)
        BY <1>0, <2>1, <3>1 DEF SameSession
      <3>4. SessionSound(s)' /\ Goes(s)
        BY <1>0, <2>1, <3>1, <3>2 DEF SessionSound, Goes, Fresh, Active, Absent
      <3>5. QED BY <2>1, <3>3, <3>4, OneIsSound
    <2>4. QED BY <2>2, <2>3
  <1>5. CASE LaunchRunner(d)
    <2>1. /\ s \in Sessions /\ creator[s] = "done" /\ UNCHANGED <<row, tree>>
          /\ agent' = Started(s, "tree", d) /\ SessionSound(s)
          /\ Active(s) => row[s].wt
      BY <1>0, <1>5 DEF LaunchRunner, PassInPlace, PassSound, Serving
    <2>2. \A r \in Sessions \ {s} : SameSession(r)
      BY <1>0, <2>1, AgentsWritten DEF SameSession
    <2>3. SessionSound(s)' /\ Goes(s)
      BY <1>0, <2>1, AgentsWritten DEF SessionSound, Goes, Fresh, Active
    <2>4. QED BY <2>1, <2>2, <2>3, OneIsSound
  <1>6. CASE CleanNext(d) /\ ~UNCHANGED <<row, tree, agent>>
    <2>a. PICK r : r = Head(daemon[d].todo) OBVIOUS
    <2>1. daemon[d].todo # <<>> /\ r \in Sessions /\ UNCHANGED tree
      BY <1>6, <2>a, HeadTailProperties DEF CleanNext, SlotInv, TypeOK
    <2>2. /\ row[r].state = "Running" /\ agent' = Killed(r)
          /\ row' = [row EXCEPT ![r].state = "Stopped"]
      BY <1>6, <2>a DEF CleanNext
    <2>3. /\ row'[r].state = "Stopped" /\ row'[r].wt = row[r].wt
          /\ \A t \in Sessions \ {r} : row'[t] = row[t]
      BY <1>0, <2>1, <2>2 DEF RowType
    <2>4. \A t \in Sessions \ {r} : SameSession(t)
      BY <1>0, <2>1, <2>2, <2>3, AgentsWritten DEF SameSession
    <2>5. /\ agent'[r].ran = agent[r].ran
          /\ agent'[r].pc = "none" <=> agent[r].pc = "none"
      BY <1>0, <2>1, <2>2, AgentsWritten
    <2>6. SessionSound(r)' /\ Goes(r)
      BY <1>0, <2>1, <2>2, <2>3, <2>5 DEF SessionSound, Goes, Fresh, Active, Absent
    <2>7. QED BY <2>1, <2>4, <2>6, OneIsSound
  <1>7. CASE RemoveTree(d)
    <2>1. /\ s \in Sessions /\ Finished(s) /\ UNCHANGED <<row, agent>>
          /\ tree' = [tree EXCEPT ![s] = FALSE]
      BY <1>0, <1>7 DEF RemoveTree, PassInPlace, PassSound
    <2>2. \A r \in Sessions \ {s} : SameSession(r)
      BY <1>0, <2>1 DEF SameSession
    <2>3. SessionSound(s)' /\ Goes(s)
      BY <1>0, <2>1 DEF SessionSound, Goes, Finished, Fresh, Active
    <2>4. QED BY <2>1, <2>2, <2>3, OneIsSound
  <1>8. CASE ClearWorktree(d) /\ ~UNCHANGED <<row, tree, agent>>
    <2>1. /\ s \in Sessions /\ Finished(s) /\ UNCHANGED <<tree, agent>>
          /\ row' = WithoutWorktree(s)
      BY <1>0, <1>8 DEF ClearWorktree, PassInPlace, PassSound
    <2>2. /\ ~row'[s].wt /\ row'[s].state = row[s].state
          /\ \A r \in Sessions \ {s} : SameSession(r)
      BY <1>0, <2>1, RowsWritten DEF SameSession
    <2>3. SessionSound(s)' /\ Goes(s)
      BY <1>0, <2>1, <2>2 DEF SessionSound, Goes, Finished, Fresh, Active
    <2>4. QED BY <2>1, <2>2, <2>3, OneIsSound
  <1>9. \/ UNCHANGED <<row, tree, agent>> \/ CreateWorktree(d) \/ CreateFailed(d)
        \/ AttachWorktree(d) \/ LaunchRunner(d) \/ CleanNext(d) \/ RemoveTree(d)
        \/ ClearWorktree(d)
    BY DEF DaemonStep, CountSlots, ListRequests, PickRequest, DequeueStarted, ScanWorktrees,
       DaemonRestarts
  <1>10. QED BY <1>1, <1>2, <1>3, <1>4, <1>5, <1>6, <1>7, <1>8, <1>9

LEMMA CrashSound ==
    ASSUME SlotInv, NEW d \in Daemons, DaemonCrashes(d)
    PROVE  \A r \in Sessions : Sound(r)
  <1> SUFFICES ASSUME NEW r \in Sessions
               PROVE  Sound(r)
    OBVIOUS
  <1>1. agent \in [Sessions -> AgentType] /\ SessionSound(r) BY DEF SlotInv, TypeOK, AgentType
  <1>2. UNCHANGED <<row, tree, creator>> BY DEF DaemonCrashes
  <1>3. /\ agent'[r].cwd = agent[r].cwd /\ agent'[r].ran = agent[r].ran
        /\ agent'[r].pc = "none" <=> agent[r].pc = "none"
        /\ agent'[r].pc \in {"starting", "live"} => agent'[r].pc = agent[r].pc
    BY <1>1 DEF DaemonCrashes, AgentType
  <1>4. QED BY <1>1, <1>2, <1>3 DEF Sound, SessionSound, Goes, Fresh, Active

LEMMA UserKeepsSound ==
    ASSUME SlotInv, NoResume, NEW u \in Users, UserStep(u)
    PROVE  /\ \A r \in Sessions : Sound(r)
           /\ \A v \in Users \ {u} : user'[v] = user[v]
           /\ user'[u].pc \notin {"reset", "spawn"}
           /\ user'[u].pc \in {"remove", "clear", "delete"} => Finished(user[u].s)'
  <1>a. PICK s : s = user[u].s OBVIOUS
  <1>0. /\ s = user[u].s
        /\ row \in [Sessions -> RowType] /\ agent \in [Sessions -> AgentType]
        /\ tree \in [Sessions -> BOOLEAN] /\ TypeOK /\ user \in [Users -> UserType]
        /\ UserSound(u)
        /\ user[u].pc # "idle" => user[u].s \in Sessions
        /\ UNCHANGED creator
        /\ \A r \in Sessions : SessionSound(r)
    BY <1>a DEF SlotInv, InPlace, TypeOK, RowType, AgentType, UserType, UserStep, UserStops,
       UserResumes, UserDeletes, UserRemovesTree, UserClearsWorktree, ResumeResets, ResumeSpawns,
       UserDeletesRow
  <1>1. ASSUME NEW label, NEW r, UserGoto(u, label, r)
        PROVE  /\ \A v \in Users \ {u} : user'[v] = user[v]
               /\ user'[u].pc = label /\ user'[u].s = r
    BY <1>0, <1>1 DEF UserGoto
  <1>2. ASSUME NEW r \in Sessions, NEW label, UserGoto(u, label, r),
               label \notin {"reset", "spawn"}, label = "done" \/ Finished(r)',
               \A t \in Sessions \ {r} : SameSession(t), SessionSound(r)', Goes(r)
        PROVE  /\ \A t \in Sessions : Sound(t)
               /\ \A v \in Users \ {u} : user'[v] = user[v]
               /\ user'[u].pc \notin {"reset", "spawn"}
               /\ user'[u].pc \in {"remove", "clear", "delete"} => Finished(user[u].s)'
    <2>1. user'[u].pc = label /\ user'[u].s = r BY <1>1, <1>2
    <2>2. \A t \in Sessions : Sound(t) BY <1>2, OneIsSound
    <2>3. Finished(r)' => Finished(user[u].s)' BY <2>1 DEF Finished, Fresh, Active
    <2>4. QED BY <1>1, <1>2, <2>1, <2>2, <2>3
  <1>3. ASSUME NEW r \in Sessions, UserStops(u, r)
        PROVE  /\ \A t \in Sessions : Sound(t)
               /\ \A v \in Users \ {u} : user'[v] = user[v]
               /\ user'[u].pc \notin {"reset", "spawn"}
               /\ user'[u].pc \in {"remove", "clear", "delete"} => Finished(user[u].s)'
    <2>1. /\ row' = StateTo(r, "Stopped") /\ Allowed(r, "Stopped") /\ agent' = Killed(r)
          /\ UNCHANGED tree /\ \E label \in {"remove", "done"} : UserGoto(u, label, r)
      BY <1>3 DEF UserStops
    <2>2. /\ row'[r].state = "Stopped" /\ row'[r].wt = row[r].wt
          /\ \A t \in Sessions \ {r} : SameSession(t)
      BY <1>0, <2>1, RowsWritten, AgentsWritten DEF SameSession
    <2>3. row[r].state # Absent BY <2>1 DEF Allowed, Exists
    <2>4. SessionSound(r)' /\ Goes(r) /\ Finished(r)'
      BY <1>0, <2>1, <2>2, <2>3, AgentsWritten DEF SessionSound, Goes, Finished, Fresh, Active
    <2>5. QED BY <1>2, <2>1, <2>2, <2>4
  <1>4. ASSUME NEW r \in Sessions, UserDeletes(u, r)
        PROVE  /\ \A t \in Sessions : Sound(t)
               /\ \A v \in Users \ {u} : user'[v] = user[v]
               /\ user'[u].pc \notin {"reset", "spawn"}
               /\ user'[u].pc \in {"remove", "clear", "delete"} => Finished(user[u].s)'
    <2>1. /\ row[r].state \notin {Absent, "Pending", "Running"} /\ UNCHANGED <<row, agent>>
          /\ \A t \in Sessions \ {r} : tree'[t] = tree[t]
          /\ UserGoto(u, "delete", r)
      BY <1>0, <1>4 DEF UserDeletes, Exists
    <2>2. \A t \in Sessions \ {r} : SameSession(t)
      BY <1>0, <2>1 DEF SameSession
    <2>3. SessionSound(r)' /\ Goes(r) /\ Finished(r)'
      BY <1>0, <2>1 DEF SessionSound, Goes, Finished, Fresh, Active
    <2>4. QED BY <1>2, <2>1, <2>2, <2>3
  <1>5. CASE UserRemovesTree(u)
    <2>1. /\ s \in Sessions /\ Finished(s) /\ UNCHANGED <<row, agent>>
          /\ tree' = [tree EXCEPT ![s] = FALSE] /\ UserGoto(u, "clear", s)
      BY <1>0, <1>5 DEF UserRemovesTree, UserSound
    <2>2. \A t \in Sessions \ {s} : SameSession(t)
      BY <1>0, <2>1 DEF SameSession
    <2>3. SessionSound(s)' /\ Goes(s) /\ Finished(s)'
      BY <1>0, <2>1 DEF SessionSound, Goes, Finished, Fresh, Active
    <2>4. QED BY <1>2, <2>1, <2>2, <2>3
  <1>6. CASE UserClearsWorktree(u)
    <2>1. /\ s \in Sessions /\ Finished(s) /\ UNCHANGED <<tree, agent>>
          /\ row' = row \/ row' = WithoutWorktree(s)
          /\ UserGoto(u, "done", s)
      BY <1>0, <1>6 DEF UserClearsWorktree, UserSound
    <2>2. /\ row'[s].wt => row[s].wt
          /\ row'[s].state = row[s].state
          /\ \A t \in Sessions \ {s} : SameSession(t)
      BY <1>0, <2>1, RowsWritten DEF SameSession
    <2>3. SessionSound(s)' /\ Goes(s)
      BY <1>0, <2>1, <2>2 DEF SessionSound, Goes, Finished, Fresh, Active
    <2>4. QED BY <1>2, <2>1, <2>2, <2>3
  <1>7. CASE UserDeletesRow(u)
    <2>1. /\ s \in Sessions /\ Finished(s) /\ UNCHANGED <<tree, agent>>
          /\ row' = [row EXCEPT ![s] = [state |-> Absent, wt |-> FALSE, dir |-> "repo"]]
          /\ UserGoto(u, "done", s)
      BY <1>0, <1>7 DEF UserDeletesRow, UserSound
    <2>2. /\ ~row'[s].wt /\ row'[s].state = Absent
          /\ \A t \in Sessions \ {s} : SameSession(t)
      BY <1>0, <2>1 DEF SameSession
    <2>3. SessionSound(s)' /\ Goes(s)
      BY <1>0, <2>1, <2>2 DEF SessionSound, Goes, Finished, Fresh, Active, Absent
    <2>4. QED BY <1>2, <2>1, <2>2, <2>3
  <1>8. ~ResumeResets(u) /\ ~ResumeSpawns(u) /\ \A r \in Sessions : ~UserResumes(u, r)
    BY <1>0 DEF UserSound, ResumeResets, ResumeSpawns, UserResumes, NoResume
  <1>9. QED BY <1>3, <1>4, <1>5, <1>6, <1>7, <1>8 DEF UserStep

----------------------------------------------------------------------------
(* The invariant.                                                          *)

LEMMA FinishedStays ==
    ASSUME NEW s, Goes(s), Finished(s)
    PROVE  Finished(s)'
  BY DEF Goes, Finished

\* What the pass of d is in the middle of stays true when another process moves.
LEMMA OtherPassSound ==
    ASSUME SlotInv, NEW d \in Daemons, daemon'[d] = daemon[d], \A r \in Sessions : Goes(r)
    PROVE  PassSound(d)'
  <1>a. PICK p : p = daemon[d] OBVIOUS
  <1>1. /\ p = daemon[d] /\ p = daemon'[d] /\ p \in PassType /\ PassInPlace(p) /\ PassSound(d)
        /\ \A i \in DOMAIN p.todo : p.todo[i] \in Sessions
    <2>1. p \in PassType BY <1>a DEF SlotInv, TypeOK, PassType
    <2>2. \A i \in DOMAIN p.todo : p.todo[i] \in Sessions
      BY <2>1, LenProperties, ElementOfSeq DEF PassType
    <2>3. QED BY <1>a, <2>1, <2>2 DEF SlotInv, InPlace
  <1>2. p.pc \in Activating => \A i \in DOMAIN p.todo : creator'[p.todo[i]] = "done"
    BY <1>1 DEF PassSound, Goes
  <1>3. p.pc \in Pruning => \A i \in DOMAIN p.todo : Finished(p.todo[i])'
    BY <1>1, FinishedStays DEF PassSound
  <1>4. p.pc \in {"remove", "clear"} => Finished(p.s)'
    BY <1>1, FinishedStays DEF PassSound, PassInPlace
  <1>5. ASSUME p.pc \in Serving
        PROVE  /\ creator'[p.s] = "done"
               /\ p.pc = "attach" /\ Active(p.s)' => tree'[p.s]
               /\ p.pc = "launch" /\ Active(p.s)' => row'[p.s].wt
    <2>1. p.s \in Sessions /\ creator[p.s] = "done" /\ Goes(p.s)
      BY <1>1, <1>5 DEF PassInPlace, PassSound
    <2>2. QED BY <1>1, <1>5, <2>1 DEF PassSound, Goes, Fresh
  <1>6. QED
    <2>1. p.pc \in {"attach", "launch"} => p.pc \in Serving BY DEF Serving
    <2>2. QED BY <1>1, <1>2, <1>3, <1>4, <1>5, <2>1 DEF PassSound, Finished, Fresh, Active

\* A pass only takes up sessions it listed, and only after it made sure of them.
LEMMA OwnPassSound ==
    ASSUME SlotInv, NEW d \in Daemons, DaemonMoves(d), UNCHANGED creator,
           \A r \in Sessions : Goes(r)
    PROVE  PassSound(d)'
  <1>a. PICK p : p = daemon[d] OBVIOUS
  <1>b. PICK q : q = daemon'[d] OBVIOUS
  <1>1. /\ p = daemon[d] /\ p \in PassType /\ PassInPlace(p) /\ PassSound(d)
        /\ q = daemon'[d] /\ q \in PassType /\ PassInPlace(q) /\ PassMoves(d)
    BY <1>a, <1>b DEF SlotInv, TypeOK, InPlace, DaemonMoves, PassType
  <1>2. /\ \A i \in DOMAIN p.todo : p.todo[i] \in Sessions
        /\ \A i \in DOMAIN q.todo : q.todo[i] \in Sessions
    BY <1>1, LenProperties, ElementOfSeq DEF PassType
  <1>3. p.todo # <<>> =>
            /\ 1 \in DOMAIN p.todo /\ Head(p.todo) = p.todo[1]
            /\ \A i \in DOMAIN Tail(p.todo) : i + 1 \in DOMAIN p.todo /\ Tail(p.todo)[i] = p.todo[i + 1]
    <2>1. p.todo \in Seq(Sessions) BY <1>1 DEF PassType
    <2>2. DOMAIN p.todo = 1..Len(p.todo) /\ Len(p.todo) \in Nat BY <2>1, LenProperties
    <2>3. CASE p.todo # <<>>
      <3>1. /\ Head(p.todo) = p.todo[1] /\ Tail(p.todo) \in Seq(Sessions) /\ Len(p.todo) # 0
            /\ Len(Tail(p.todo)) = Len(p.todo) - 1
            /\ \A i \in 1..Len(Tail(p.todo)) : Tail(p.todo)[i] = p.todo[i + 1]
        BY <2>1, <2>3, HeadTailProperties, EmptySeq
      <3>2. DOMAIN Tail(p.todo) = 1..Len(Tail(p.todo)) BY <3>1, LenProperties
      <3>3. QED BY <2>2, <3>1, <3>2
    <2>4. QED BY <2>3
  <1>4. ASSUME q.pc \in Activating
        PROVE  /\ \A i \in DOMAIN q.todo : creator[q.todo[i]] = "done"
               /\ q.pc \in Serving => creator[q.s] = "done"
    <2>1. CASE p.pc = "list"
      <3>1. \A i \in DOMAIN q.todo : Contains(queue, q.todo[i])
        BY <1>1, <1>4, <2>1 DEF PassMoves, Activating, Serving
      <3>2. q.pc = "pick" BY <1>1, <1>4, <2>1 DEF PassMoves, Activating, Serving
      <3>3. QED BY <1>2, <3>1, <3>2 DEF SlotInv, InPlace, Serving
    <2>2. CASE p.pc \in Serving
      <3>1. q.todo = p.todo /\ (q.pc = "pick" \/ q.s = p.s)
        BY <1>1, <1>4, <2>2 DEF PassMoves, Activating, Serving
      <3>2. QED BY <1>1, <2>2, <3>1 DEF PassSound, Activating, Serving
    <2>3. CASE p.pc = "pick"
      <3>1. p.todo # <<>> /\ q.todo = Tail(p.todo) /\ (q.pc = "pick" \/ q.s = Head(p.todo))
        BY <1>1, <1>4, <2>3 DEF PassMoves, Activating, Serving
      <3>2. \A i \in DOMAIN p.todo : creator[p.todo[i]] = "done"
        BY <1>1, <2>3 DEF PassSound, Activating
      <3>3. QED BY <1>3, <3>1, <3>2 DEF Serving
    <2>4. QED BY <1>1, <1>4, <2>1, <2>2, <2>3 DEF PassMoves, Activating, Serving
  <1>5. ASSUME q.pc \in Pruning
        PROVE  /\ \A i \in DOMAIN q.todo : Finished(q.todo[i])
               /\ q.pc \in {"remove", "clear"} => Finished(q.s)
    <2>1. CASE p.pc = "scan"
      <3>1. q.pc = "clean" /\ \A i \in DOMAIN q.todo : Prunable(q.todo[i])
        BY <1>1, <1>5, <2>1 DEF PassMoves, Pruning, Serving
      <3>2. ASSUME NEW s \in Sessions, Prunable(s)
            PROVE  Finished(s)
        BY <3>2 DEF Prunable, Attached, Exists, Finished, Active, SlotInv, SessionSound
      <3>3. QED BY <1>2, <3>1, <3>2
    <2>2. CASE p.pc \in {"remove", "clear"}
      <3>1. q.todo = p.todo /\ (q.pc = "clean" \/ q.s = p.s)
        BY <1>1, <1>5, <2>2 DEF PassMoves, Pruning, Serving
      <3>2. QED BY <1>1, <2>2, <3>1 DEF PassSound, Pruning
    <2>3. CASE p.pc = "clean"
      <3>1. p.todo # <<>> /\ q.todo = Tail(p.todo) /\ (q.pc = "clean" \/ q.s = Head(p.todo))
        BY <1>1, <1>5, <2>3 DEF PassMoves, Pruning, Serving
      <3>2. \A i \in DOMAIN p.todo : Finished(p.todo[i])
        BY <1>1, <2>3 DEF PassSound, Pruning
      <3>3. QED BY <1>3, <3>1, <3>2
    <2>4. QED BY <1>1, <1>5, <2>1, <2>2, <2>3 DEF PassMoves, Pruning, Serving
  <1>6. /\ \A i \in DOMAIN q.todo : q.pc \in Pruning => Finished(q.todo[i])'
        /\ q.pc \in {"remove", "clear"} => Finished(q.s)'
    <2>1. q.pc \in {"remove", "clear"} => q.s \in Sessions /\ q.pc \in Pruning
      BY <1>1 DEF PassInPlace, Pruning
    <2>2. QED BY <1>2, <1>5, <2>1, FinishedStays
  <1>7. /\ q.pc = "attach" => tree'[q.s]
        /\ q.pc = "launch" => row'[q.s].wt
    BY <1>1 DEF PassMoves
  <1>8. QED
    <2>1. q.pc \in Serving => q.pc \in Activating BY DEF Activating
    <2>2. QED BY <1>1, <1>4, <1>6, <1>7, <2>1 DEF PassSound, Finished, Fresh, Active

LEMMA SlotStep ==
    ASSUME SlotInv, NoResume, [Next]_vars
    PROVE  SlotInv' /\ \A r \in Sessions : Goes(r)
  <1>1. TypeOK' /\ InPlace'
    BY TypedStep DEF SlotInv
  <1>2. /\ \A r \in Sessions : Sound(r)
        /\ \A d \in Daemons : daemon'[d] = daemon[d] \/ (DaemonMoves(d) /\ UNCHANGED creator)
        /\ \A u \in Users : \/ user'[u] = user[u]
                            \/ /\ user'[u].pc \notin {"reset", "spawn"}
                               /\ user'[u].pc \in {"remove", "clear", "delete"} => Finished(user[u].s)'
    <2>0. TypeOK /\ InPlace /\ \A s \in Sessions : SessionSound(s) BY DEF SlotInv
    <2>1. CASE UNCHANGED vars
      <3>1. UNCHANGED <<daemon, user>> /\ \A r \in Sessions : SameSession(r)
        BY <2>1 DEF vars, SameSession
      <3>2. QED BY <2>0, <3>1, SameIsSound
    <2>2. ASSUME NEW s \in Sessions, CreatorStep(s)
          PROVE  (\A r \in Sessions : Sound(r)) /\ UNCHANGED <<daemon, user>>
      BY <2>2, CreatorSound
      DEF CreatorStep, CountForNew, CreateForNew, InsertSession, Enqueue, SpawnRunner
    <2>3. ASSUME NEW s \in Sessions, AgentStarts(s) \/ AgentEnds(s) \/ HeartbeatExpires(s)
          PROVE  (\A r \in Sessions : Sound(r)) /\ UNCHANGED <<daemon, user>>
      BY <2>3, AgentSound DEF AgentStarts, AgentEnds, HeartbeatExpires
    <2>4. ASSUME NEW d \in Daemons, DaemonStep(d) \/ DaemonCrashes(d)
          PROVE  /\ \A r \in Sessions : Sound(r)
                 /\ \A e \in Daemons : daemon'[e] = daemon[e] \/ (DaemonMoves(e) /\ UNCHANGED creator)
                 /\ UNCHANGED user
      <3>1. \A r \in Sessions : Sound(r) BY <2>4, PassKeepsSound, CrashSound
      <3>2. DaemonMoves(d) /\ UNCHANGED <<creator, user>>
        BY <2>0, <2>4, StepMovesPass, CrashTypes DEF DaemonCrashes
      <3>3. QED BY <3>1, <3>2 DEF DaemonMoves
    <2>5. ASSUME NEW u \in Users, UserStep(u)
          PROVE  /\ \A r \in Sessions : Sound(r)
                 /\ UNCHANGED daemon
                 /\ \A v \in Users \ {u} : user'[v] = user[v]
                 /\ user'[u].pc \notin {"reset", "spawn"}
                 /\ user'[u].pc \in {"remove", "clear", "delete"} => Finished(user[u].s)'
      BY <2>5, UserKeepsSound
      DEF UserStep, UserStops, UserResumes, UserDeletes, UserRemovesTree, UserClearsWorktree,
          ResumeResets, ResumeSpawns, UserDeletesRow
    <2>6. QED BY <2>1, <2>2, <2>3, <2>4, <2>5 DEF Next
  <1>3. \A r \in Sessions : Goes(r) /\ SessionSound(r)'
    BY <1>2 DEF Sound
  <1>4. \A d \in Daemons : PassSound(d)'
    BY <1>2, <1>3, OtherPassSound, OwnPassSound
  <1>5. ASSUME NEW u \in Users, user'[u] = user[u]
        PROVE  UserSound(u)'
    <2>1. PICK s : s = user[u].s OBVIOUS
    <2>2. user[u].pc \in {"remove", "clear", "delete"} => Finished(s)'
      BY <1>3, <2>1, FinishedStays DEF SlotInv, InPlace, UserSound
    <2>3. QED BY <1>5, <2>1, <2>2 DEF SlotInv, UserSound, Finished, Fresh, Active
  <1>6. \A u \in Users : UserSound(u)'
    BY <1>2, <1>5 DEF UserSound
  <1>7. QED BY <1>1, <1>3, <1>4, <1>6 DEF SlotInv

LEMMA SlotInit ==
    ASSUME Init
    PROVE  SlotInv
  <1>1. \A s \in Sessions : SessionSound(s)
    BY DEF Init, SessionSound, Fresh, Active, Absent
  <1>2. \A d \in Daemons : PassSound(d)
    BY DEF Init, IdlePass, PassSound, Activating, Serving, Pruning
  <1>3. \A u \in Users : UserSound(u)
    BY DEF Init, UserSound
  <1>4. QED BY <1>1, <1>2, <1>3, TypedInit DEF SlotInv

LEMMA SlotsSound == ASSUME NoResume PROVE Spec => []SlotInv
  <1>1. Init => SlotInv BY SlotInit
  <1>2. SlotInv /\ [Next]_vars => SlotInv' BY SlotStep
  <1>3. QED BY <1>1, <1>2, PTL DEF Spec

\* However many passes prune and activate, and whatever is stopped and deleted: while nobody
\* resumes sessions, an agent of a Running session that runs in a worktree has it.
THEOREM RunningKeepsTree == ASSUME NoResume PROVE Spec => []RunningAgentHasItsTree
  <1>1. SlotInv => RunningAgentHasItsTree
    BY DEF SlotInv, SessionSound, Active, RunningAgentHasItsTree
  <1>2. QED BY <1>1, SlotsSound, PTL

\* While nobody resumes sessions, no session runs twice: a pass that serves a request late
\* starts a runner that finds the session no longer Pending.
THEOREM RunsOnce == ASSUME NoResume PROVE Spec => RunsAtMostOnce
  <1>1. ASSUME SlotInv, [Next]_vars, NEW s \in Sessions,
               agent[s].ran, agent[s].pc = "starting", agent'[s].pc = "live"
        PROVE  FALSE
    <2>0. /\ agent \in [Sessions -> AgentType] /\ TypeOK /\ InPlace
          /\ row[s].state # "Pending"
      BY <1>1 DEF SlotInv, TypeOK, AgentType, SessionSound
    <2>1. CASE UNCHANGED agent BY <1>1, <2>1
    <2>2. ASSUME NEW r \in Sessions, AgentStarts(r)
          PROVE  FALSE
      BY <1>1, <2>0, <2>2 DEF AgentStarts, AgentType
    <2>3. ASSUME NEW r \in Sessions, AgentEnds(r)
          PROVE  FALSE
      BY <1>1, <2>0, <2>3 DEF AgentEnds, AgentType
    <2>4. ASSUME NEW r \in Sessions, NEW dir, NEW d, agent' = Started(r, dir, d)
          PROVE  FALSE
      BY <1>1, <2>0, <2>4 DEF Started, AgentType
    <2>5. ASSUME NEW r, agent' = Killed(r)
          PROVE  FALSE
      BY <1>1, <2>0, <2>5 DEF Killed, AgentType
    <2>6. ASSUME NEW d \in Daemons, DaemonCrashes(d)
          PROVE  FALSE
      BY <1>1, <2>0, <2>6 DEF DaemonCrashes, AgentType
    <2>7. ASSUME NEW d \in Daemons, DaemonStep(d)
          PROVE  FALSE
      <3>1. \/ UNCHANGED agent \/ agent' = Killed(Head(daemon[d].todo))
            \/ LaunchRunner(d) /\ agent' = Started(daemon[d].s, "tree", d)
        BY <2>7
        DEF DaemonStep, CountSlots, ListRequests, PickRequest, CreateWorktree, CreateFailed,
            AttachWorktree, LaunchRunner, DequeueStarted, ScanWorktrees, CleanNext, RemoveTree,
            ClearWorktree, DaemonRestarts
      <3>2. LaunchRunner(d) => daemon[d].s \in Sessions
        BY <2>0 DEF LaunchRunner, InPlace, PassInPlace, Serving
      <3>3. QED BY <2>1, <2>4, <2>5, <3>1, <3>2
    <2>8. ASSUME NEW u \in Users, UserStep(u)
          PROVE  FALSE
      <3>1. \/ UNCHANGED agent \/ \E r \in Sessions : agent' = Killed(r)
            \/ \E dir : ResumeSpawns(u) /\ agent' = Started(user[u].s, dir, Nobody)
        BY <2>8
        DEF UserStep, UserStops, UserResumes, UserDeletes, UserRemovesTree, UserClearsWorktree,
            ResumeResets, ResumeSpawns, UserDeletesRow
      <3>2. ResumeSpawns(u) => user[u].s \in Sessions
        BY <2>0 DEF ResumeSpawns, InPlace
      <3>3. QED BY <2>1, <2>4, <2>5, <3>1, <3>2
    <2>9. ASSUME NEW r \in Sessions, CreatorStep(r)
          PROVE  FALSE
      <3>1. UNCHANGED agent \/ agent' = Started(r, "tree", Nobody)
        BY <2>9 DEF CreatorStep, CountForNew, CreateForNew, InsertSession, Enqueue, SpawnRunner
      <3>2. QED BY <2>1, <2>4, <3>1
    <2>10. ASSUME NEW r \in Sessions, HeartbeatExpires(r)
           PROVE  UNCHANGED agent
      BY <2>10 DEF HeartbeatExpires
    <2>11. CASE UNCHANGED vars BY <2>1, <2>11 DEF vars
    <2>12. QED BY <1>1, <2>1, <2>2, <2>3, <2>6, <2>7, <2>8, <2>9, <2>10, <2>11 DEF Next
  <1>2. SlotInv /\ [Next]_vars =>
            [\A s \in Sessions : agent[s].ran => ~(agent[s].pc = "starting" /\ agent'[s].pc = "live")]_vars
    BY <1>1
  <1>3. QED BY <1>2, SlotsSound, PTL DEF RunsAtMostOnce, Spec

----------------------------------------------------------------------------
(* No session is left behind.                                              *)

\* A worktree is attached to a session whose creator is done by a pass alone.
LEMMA AttachedByPass ==
    ASSUME SlotInv, NoResume, [Next]_vars, NEW s \in Sessions, creator[s] = "done",
           row'[s].wt, ~row[s].wt
    PROVE  \E d \in Daemons : AttachWorktree(d) /\ daemon[d].s = s /\ Exists(s)
  <1>0. /\ row \in [Sessions -> RowType] /\ TypeOK
        /\ \A d \in Daemons : PassInPlace(daemon[d])
        /\ \A u \in Users : user[u].pc # "idle" => user[u].s \in Sessions
    BY DEF SlotInv, InPlace, TypeOK, RowType
  <1>1. ASSUME NEW r \in Sessions, NEW new, row' = StateTo(r, new)
        PROVE  FALSE
    BY <1>0, <1>1, RowsWritten
  <1>2. ASSUME NEW r \in Sessions, NEW new, row' = [row EXCEPT ![r].state = new]
        PROVE  FALSE
    BY <1>0, <1>2 DEF RowType
  <1>3. ASSUME NEW r \in Sessions, row' = WithoutWorktree(r)
        PROVE  FALSE
    BY <1>0, <1>3, RowsWritten
  <1>4. row' # row OBVIOUS
  <1>5. ASSUME NEW r \in Sessions, CreatorStep(r)
        PROVE  FALSE
    <2>1. CASE InsertSession(r)
      BY <1>0, <2>1 DEF InsertSession
    <2>2. CASE SpawnRunner(r)
      BY <1>1, <1>4, <1>5, <2>2 DEF SpawnRunner
    <2>3. QED BY <1>4, <1>5, <2>1, <2>2 DEF CreatorStep, CountForNew, CreateForNew, Enqueue
  <1>6. ASSUME NEW r \in Sessions, AgentStarts(r) \/ AgentEnds(r) \/ HeartbeatExpires(r)
        PROVE  FALSE
    BY <1>1, <1>2, <1>4, <1>6 DEF AgentStarts, AgentEnds, HeartbeatExpires
  <1>7. ASSUME NEW u \in Users, UserStep(u)
        PROVE  FALSE
    <2>1. CASE UserDeletesRow(u)
      BY <1>0, <2>1 DEF UserDeletesRow
    <2>2. ~ResumeResets(u)
      BY DEF SlotInv, UserSound, ResumeResets
    <2>3. CASE UserClearsWorktree(u)
      BY <1>0, <1>3, <1>4, <2>3 DEF UserClearsWorktree
    <2>4. QED
      BY <1>1, <1>4, <1>7, <2>1, <2>2, <2>3
      DEF UserStep, UserStops, UserResumes, UserDeletes, UserRemovesTree, ResumeSpawns
  <1>8. ASSUME NEW d \in Daemons, DaemonStep(d)
        PROVE  AttachWorktree(d) /\ daemon[d].s = s /\ Exists(s)
    <2>1. CASE AttachWorktree(d)
      <3>1. daemon[d].s \in Sessions BY <1>0, <2>1 DEF AttachWorktree, PassInPlace, Serving
      <3>2. row' = WithWorktree(daemon[d].s) /\ Exists(daemon[d].s)
        BY <1>4, <2>1 DEF AttachWorktree
      <3>3. daemon[d].s = s BY <1>0, <3>1, <3>2, RowsWritten
      <3>4. QED BY <2>1, <3>2, <3>3
    <2>2. CASE CreateFailed(d)
      BY <1>0, <1>1, <2>2 DEF CreateFailed, PassInPlace, Serving
    <2>3. CASE CleanNext(d)
      <3>1. daemon[d].todo # <<>> => Head(daemon[d].todo) \in Sessions
        BY <1>0, HeadTailProperties DEF TypeOK
      <3>2. QED BY <1>2, <1>4, <2>3, <3>1 DEF CleanNext
    <2>4. CASE ClearWorktree(d)
      BY <1>0, <1>3, <1>4, <2>4 DEF ClearWorktree, PassInPlace
    <2>5. QED
      BY <1>4, <1>8, <2>1, <2>2, <2>3, <2>4
      DEF DaemonStep, CountSlots, ListRequests, PickRequest, CreateWorktree, LaunchRunner,
          DequeueStarted, ScanWorktrees, RemoveTree, DaemonRestarts
  <1>9. ~UNCHANGED vars /\ \A d \in Daemons : ~DaemonCrashes(d)
    BY <1>4 DEF vars, DaemonCrashes
  <1>10. QED BY <1>5, <1>6, <1>7, <1>8, <1>9 DEF Next

\* A request leaves the queue when it is not wanted any more, was failed, its runner
\* is there, or its row is deleted.
LEMMA DequeuedByPass ==
    ASSUME SlotInv, [Next]_vars, NEW s \in Sessions,
           Contains(queue, s), ~Contains(queue', s)
    PROVE  \/ \E d \in Daemons :
                 \/ ~WantsWorktree(s)
                 \/ daemon[d].s = s /\ CreateFailed(d)
                 \/ daemon[d].s = s /\ AttachWorktree(d) /\ ~Exists(s)
                 \/ daemon[d].s = s /\ DequeueStarted(d)
           \/ \E u \in Users : user[u].s = s /\ UserDeletesRow(u)
  <1>0. queue \in Seq(Sessions) /\ IsInjective(queue) /\ queue' # queue BY DEF SlotInv, TypeOK
  <1>1. ASSUME NEW r, queue' = Dequeued(r)
        PROVE  r = s
    BY <1>0, <1>1, DequeuedOnce
  <1>2. ASSUME NEW r \in Sessions, CreatorStep(r)
        PROVE  FALSE
    <2>1. Enqueue(r)
      BY <1>0, <1>2 DEF CreatorStep, CountForNew, CreateForNew, InsertSession, SpawnRunner
    <2>2. queue' = Append(queue, r) /\ ~Contains(queue, r)
      BY <2>1 DEF Enqueue, SlotInv, InPlace
    <2>3. QED BY <1>0, <2>2, EnqueuedAtEnd
  <1>3. ASSUME NEW d \in Daemons, DaemonStep(d)
        PROVE  \/ ~WantsWorktree(s)
               \/ daemon[d].s = s /\ CreateFailed(d)
               \/ daemon[d].s = s /\ AttachWorktree(d) /\ ~Exists(s)
               \/ daemon[d].s = s /\ DequeueStarted(d)
    <2>1. CASE PickRequest(d)
      <3>1. PICK r : r = Head(daemon[d].todo) OBVIOUS
      <3>2. queue' = Dequeued(r) /\ ~WantsWorktree(r)
        BY <1>0, <2>1, <3>1 DEF PickRequest
      <3>3. QED BY <1>1, <3>2
    <2>2. CASE CreateFailed(d)
      BY <1>1, <2>2 DEF CreateFailed
    <2>3. CASE AttachWorktree(d)
      <3>1. queue' = Dequeued(daemon[d].s) /\ ~Exists(daemon[d].s)
        BY <1>0, <2>3 DEF AttachWorktree
      <3>2. QED BY <1>1, <2>3, <3>1
    <2>4. CASE DequeueStarted(d)
      BY <1>1, <2>4 DEF DequeueStarted
    <2>5. QED
      BY <1>0, <1>3, <2>1, <2>2, <2>3, <2>4
      DEF DaemonStep, CountSlots, ListRequests, CreateWorktree, LaunchRunner, ScanWorktrees,
          CleanNext, RemoveTree, ClearWorktree, DaemonRestarts
  <1>4. /\ ~UNCHANGED vars /\ \A d \in Daemons : ~DaemonCrashes(d)
        /\ \A r \in Sessions : ~AgentStarts(r) /\ ~AgentEnds(r) /\ ~HeartbeatExpires(r)
    BY <1>0 DEF vars, DaemonCrashes, AgentStarts, AgentEnds, HeartbeatExpires
  <1>5. ASSUME NEW u \in Users, UserStep(u)
        PROVE  user[u].s = s /\ UserDeletesRow(u)
    <2>1. UserDeletesRow(u)
      BY <1>0, <1>5
      DEF UserStep, UserStops, UserResumes, UserDeletes, UserRemovesTree, UserClearsWorktree,
          ResumeResets, ResumeSpawns
    <2>2. queue' = Dequeued(user[u].s)
      BY <2>1 DEF UserDeletesRow
    <2>3. QED BY <1>1, <2>1, <2>2
  <1>6. QED BY <1>2, <1>3, <1>4, <1>5 DEF Next

LEMMA PendingMayFail ==
    ASSUME NEW s, row[s].state = "Pending"
    PROVE  Allowed(s, "Failed")
  <1>1. "Pending" \in SessionState BY DEF SessionState
  <1>2. "Failed" \in Successors["Pending"] BY <1>1 DEF Successors
  <1>3. QED BY <1>2 DEF Allowed, Exists, Absent, CanTransition

\* Only the creator of a session ends its own work, and it leaves the session queued,
\* launched or failed.
LEMMA CreatedAwaited ==
    ASSUME SlotInv, [Next]_vars, NEW s \in Sessions,
           creator[s] # "done", creator'[s] = "done",
           row'[s].state = "Pending", agent'[s].pc = "none"
    PROVE  ~row'[s].wt /\ Contains(queue', s)
  <1>0. /\ creator \in [Sessions -> {"new", "free", "full", "insert", "enqueue", "spawn", "done"}]
        /\ SessionSound(s) /\ TypeOK /\ ~Contains(queue, s) /\ queue \in Seq(Sessions)
        /\ IsInjective(queue)
    BY DEF SlotInv, InPlace, TypeOK
  <1>1. CreatorStep(s)
    <2>1. ASSUME NEW r \in Sessions, CreatorStep(r)
          PROVE  r = s
      BY <1>0, <2>1
      DEF CreatorStep, CountForNew, CreateForNew, InsertSession, Enqueue, SpawnRunner, Creating
    <2>2. creator' # creator OBVIOUS
    <2>3. \A d \in Daemons : ~DaemonStep(d) BY <1>0, <2>2, StepMovesPass DEF SlotInv
    <2>4. ~UNCHANGED vars BY <2>2 DEF vars
    <2>5. QED
      BY <2>1, <2>2, <2>3, <2>4
      DEF Next, DaemonCrashes, AgentStarts, AgentEnds, HeartbeatExpires, UserStep, UserStops,
          UserResumes, UserDeletes, UserRemovesTree, UserClearsWorktree, ResumeResets,
          ResumeSpawns, UserDeletesRow
  <1>2. CASE Enqueue(s)
    BY <1>0, <1>2, EnqueuedAtEnd DEF Enqueue, SessionSound
  <1>3. CASE SpawnRunner(s)
    <2>1. agent' # Started(s, "tree", Nobody) BY <1>0, AgentsWritten
    <2>2. row' = StateTo(s, "Failed") BY <1>3, <2>1 DEF SpawnRunner
    <2>3. QED BY <1>0, <2>2, RowsWritten, PendingMayFail
  <1>4. CASE CountForNew(s) \/ CreateForNew(s) \/ InsertSession(s)
    <2>1. CreateForNew(s)
      BY <1>0, <1>4 DEF CountForNew, InsertSession, Creating
    <2>2. row'[s].state = Absent BY <1>0, <2>1 DEF CreateForNew, SessionSound, Fresh
    <2>3. QED BY <2>2 DEF Absent
  <1>5. QED BY <1>1, <1>2, <1>3, <1>4 DEF CreatorStep

\* A pass that is about to launch a runner stays there until it has launched it.
LEMMA LauncherStays ==
    ASSUME SlotInv, [Next]_vars, NEW s \in Sessions, NEW d \in Daemons, LaunchedBy(d, s),
           crashes' = crashes, agent'[s].pc = "none"
    PROVE  LaunchedBy(d, s)'
  <1>0. TypeOK /\ InPlace BY DEF SlotInv
  <1>1. CASE daemon'[d] = daemon[d]
    BY <1>1 DEF LaunchedBy
  <1>2. CASE daemon'[d] # daemon[d]
    <2>1. ASSUME NEW e \in Daemons, DaemonStep(e)
          PROVE  e = d
      BY <1>0, <1>2, <2>1, StepMovesPass DEF DaemonMoves
    <2>2. \A e \in Daemons : ~DaemonCrashes(e)
      BY <1>0 DEF DaemonCrashes, TypeOK
    <2>3. ~UNCHANGED daemon BY <1>2
    <2>4. DaemonStep(d)
      BY <2>1, <2>2, <2>3
      DEF Next, vars, CreatorStep, CountForNew, CreateForNew, InsertSession, Enqueue, SpawnRunner,
          AgentStarts, AgentEnds, HeartbeatExpires, UserStep, UserStops, UserResumes, UserDeletes,
          UserRemovesTree, UserClearsWorktree, ResumeResets, ResumeSpawns, UserDeletesRow
    <2>5. LaunchRunner(d)
      BY <2>4
      DEF LaunchedBy, DaemonStep, CountSlots, ListRequests, PickRequest, CreateWorktree,
          CreateFailed, AttachWorktree, DequeueStarted, ScanWorktrees, CleanNext, RemoveTree,
          ClearWorktree, DaemonRestarts
    <2>6. agent' = Started(s, "tree", d) BY <2>5 DEF LaunchRunner, LaunchedBy
    <2>7. QED BY <1>0, <2>6, AgentsWritten
  <1>3. QED BY <1>1, <1>2

LEMMA AwaitedStep ==
    ASSUME StrandInv, NoResume, [Next]_vars, crashes' = 0, NEW s \in Sessions
    PROVE  Awaited(s)'
  <1> SUFFICES ASSUME row'[s].state = "Pending", agent'[s].pc = "none", creator'[s] = "done"
               PROVE  \/ \E d \in Daemons : LaunchedBy(d, s)'
                      \/ ~row'[s].wt /\ Contains(queue', s)
    BY DEF Awaited, LaunchedBy
  <1>1. SlotInv /\ TypeOK /\ InPlace /\ Goes(s) /\ crashes = 0 /\ crashes' = crashes
    <2>1. SlotInv /\ TypeOK /\ InPlace /\ Goes(s) BY SlotStep DEF StrandInv, SlotInv
    <2>2. crashes' = crashes \/ (crashes \in Nat /\ crashes' = crashes + 1)
      <3>1. crashes \in Nat BY <2>1, ConstantsAssumption DEF TypeOK
      <3>2. ASSUME NEW d \in Daemons, DaemonStep(d)
            PROVE  crashes' = crashes
        BY <2>1, <3>2, StepMovesPass
      <3>3. QED
        BY <3>1, <3>2
        DEF Next, vars, DaemonCrashes, CreatorStep, CountForNew, CreateForNew, InsertSession,
            Enqueue, SpawnRunner, AgentStarts, AgentEnds, HeartbeatExpires, UserStep, UserStops,
            UserResumes, UserDeletes, UserRemovesTree, UserClearsWorktree, ResumeResets,
            ResumeSpawns, UserDeletesRow
    <2>3. QED BY <2>1, <2>2
  <1>2. CASE creator[s] # "done"
    BY <1>1, <1>2, CreatedAwaited
  <1>3. CASE creator[s] = "done"
    <2>1. /\ row[s].state = "Pending" /\ agent[s].pc = "none"
          /\ \/ \E d \in Daemons : LaunchedBy(d, s)
             \/ ~row[s].wt /\ Contains(queue, s)
      BY <1>1, <1>3 DEF StrandInv, Awaited, Goes, Fresh
    <2>2. CASE \E d \in Daemons : LaunchedBy(d, s)
      BY <1>1, <2>2, LauncherStays
    <2>3. CASE ~row[s].wt /\ Contains(queue, s) /\ row'[s].wt
      <3>1. PICK d \in Daemons : AttachWorktree(d) /\ daemon[d].s = s /\ Exists(s)
        BY <1>1, <1>3, <2>3, AttachedByPass
      <3>2. PassGoto(d, "launch") BY <3>1 DEF AttachWorktree
      <3>3. LaunchedBy(d, s)'
        BY <1>1, <3>1, <3>2, PassGoes DEF LaunchedBy, DaemonPC
      <3>4. QED BY <3>3
    <2>4. CASE ~row[s].wt /\ Contains(queue, s) /\ ~Contains(queue', s)
      <3>1. WantsWorktree(s) /\ Exists(s) BY <2>1, <2>4 DEF WantsWorktree, Exists, Absent
      <3>a. ASSUME NEW u \in Users, user[u].s = s, UserDeletesRow(u)
            PROVE  FALSE
        <4>1. row'[s].state = Absent BY <1>1, <3>a DEF UserDeletesRow, TypeOK
        <4>2. QED BY <4>1 DEF Absent
      <3>2. PICK d \in Daemons : daemon[d].s = s /\ (CreateFailed(d) \/ DequeueStarted(d))
        BY <1>1, <2>4, <3>1, <3>a, DequeuedByPass
      <3>3. CASE CreateFailed(d)
        <4>1. row' = StateTo(s, "Failed") BY <3>2, <3>3 DEF CreateFailed
        <4>2. QED BY <1>1, <2>1, <4>1, RowsWritten, PendingMayFail
      <3>4. CASE DequeueStarted(d)
        BY <2>1, <3>2, <3>4 DEF StrandInv, DequeueStarted
      <3>5. QED BY <3>2, <3>3, <3>4
    <2>5. QED BY <2>1, <2>2, <2>3, <2>4
  <1>4. QED BY <1>2, <1>3

LEMMA DequeueStep ==
    ASSUME StrandInv, NoResume, [Next]_vars, NEW d \in Daemons, daemon'[d].pc = "dequeue"
    PROVE  agent'[daemon'[d].s].pc # "none"
  <1>0. SlotInv /\ TypeOK /\ InPlace /\ \A r \in Sessions : Goes(r)
    BY SlotStep DEF StrandInv, SlotInv
  <1>1. CASE daemon'[d] = daemon[d]
    <2>1. daemon[d].s \in Sessions /\ agent[daemon[d].s].pc # "none"
      BY <1>0, <1>1 DEF StrandInv, InPlace, PassInPlace, Serving
    <2>2. QED BY <1>0, <1>1, <2>1 DEF Goes
  <1>2. CASE daemon'[d] # daemon[d]
    <2>1. ASSUME NEW e \in Daemons, DaemonStep(e)
          PROVE  e = d
      BY <1>0, <1>2, <2>1, StepMovesPass DEF DaemonMoves
    <2>2. ASSUME NEW e \in Daemons, DaemonCrashes(e)
          PROVE  FALSE
      BY <1>0, <1>2, <2>2 DEF DaemonCrashes, Pass, IdlePass, TypeOK
    <2>3. ~UNCHANGED daemon BY <1>2
    <2>4. DaemonStep(d)
      BY <2>1, <2>2, <2>3
      DEF Next, vars, CreatorStep, CountForNew, CreateForNew, InsertSession, Enqueue, SpawnRunner,
          AgentStarts, AgentEnds, HeartbeatExpires, UserStep, UserStops, UserResumes, UserDeletes,
          UserRemovesTree, UserClearsWorktree, ResumeResets, ResumeSpawns, UserDeletesRow
    <2>5. LaunchRunner(d)
      <3>1. daemon[d].pc = "launch"
        BY <1>0, <2>4, StepMovesPass DEF DaemonMoves, PassMoves
      <3>2. QED
        BY <2>4, <3>1
        DEF DaemonStep, CountSlots, ListRequests, PickRequest, CreateWorktree, CreateFailed,
            AttachWorktree, DequeueStarted, ScanWorktrees, CleanNext, RemoveTree, ClearWorktree,
            DaemonRestarts
    <2>6. daemon[d].s \in Sessions /\ agent' = Started(daemon[d].s, "tree", d)
      BY <1>0, <2>5 DEF LaunchRunner, InPlace, PassInPlace, Serving
    <2>7. daemon'[d].s = daemon[d].s
      BY <1>0, <2>5, PassGoes DEF LaunchRunner, DaemonPC
    <2>8. QED BY <1>0, <2>6, <2>7, AgentsWritten
  <1>3. QED BY <1>1, <1>2

LEMMA StrandStep ==
    ASSUME StrandInv, NoResume, [Next]_vars
    PROVE  StrandInv'
  <1>1. SlotInv' BY SlotStep DEF StrandInv
  <1>2. crashes' = 0 => \A s \in Sessions : Awaited(s)' BY AwaitedStep
  <1>3. QED BY <1>1, <1>2, DequeueStep DEF StrandInv

\* While nobody resumes sessions and no daemon has crashed, a Pending session is in the queue
\* or in the hands of a process that will start or fail it, however many processes activate.
THEOREM NothingStranded == ASSUME NoResume PROVE Spec => [](crashes = 0 => NoStrandedSession)
  <1>1. Init => StrandInv
    BY SlotInit DEF Init, IdlePass, StrandInv, Awaited, Absent
  <1>2. StrandInv /\ [Next]_vars => StrandInv' BY StrandStep
  <1>3. StrandInv => (crashes = 0 => NoStrandedSession)
    BY DEF StrandInv, Awaited, LaunchedBy, NoStrandedSession, HeldBySomebody
  <1>4. QED BY <1>1, <1>2, <1>3, PTL DEF Spec
====
