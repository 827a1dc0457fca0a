-------------------------- MODULE McpHealthProofs --------------------------
(***************************************************************************)
(* Verdicts are recent, for any servers, callers, and times.               *)
(*                                                                         *)
(* What a verdict has left and the time since the last observation of its  *)
(* kind stay within the time that the verdict was given for.  This holds   *)
(* of the file and of every copy a hook has read, so that it does not      *)
(* matter which copy is written last.                                      *)
(***************************************************************************)
EXTENDS McpHealth, TLAPS

Verdict == [status : {"unknown", "healthy", "unhealthy"}, ttl : Nat, retry : Nat, backoff : Nat]

Stages == {"idle", "probe", "reprobe", "fill", "running", "blocked", "report", "reconnect",
           "confirm", "restored"}

\* Where a hook goes on after a save.
Goals == {"idle", "running", "blocked", "reconnect"}

Hook == [pc : Stages, state : [Server -> Verdict], age : Nat, then : Goals]

TypeOK ==
    /\ up \subseteq Server
    /\ cache \in [Server -> Verdict]
    /\ hook \in [Call -> Hook]
    /\ sinceOk \in [Server -> Nat] /\ sinceBad \in [Server -> Nat]

\* Of one verdict, with the times since the last success and the last failure.
Holds(verdict, ok, bad) ==
    /\ verdict.status = "healthy" /\ verdict.ttl > 0 => verdict.ttl + ok <= TTL
    /\ verdict.status = "unhealthy" /\ verdict.retry > 0 => verdict.retry + bad <= MaxBackoff
    /\ verdict.backoff <= MaxBackoff

Recent(verdicts, ok, bad) == \A s \in Server : Holds(verdicts[s], ok[s], bad[s])

RecentInv ==
    /\ Recent(cache, sinceOk, sinceBad)
    /\ \A c \in Call : Recent(hook[c].state, sinceOk, sinceBad)

\* A hook that is about to write what it observed observed it after it started.
DatedInv ==
    \A c \in Call :
        /\ hook[c].pc = "report" => sinceBad[Target[c]] <= hook[c].age
        /\ hook[c].pc = "restored" => sinceOk[Target[c]] <= hook[c].age

Inv == TypeOK /\ RecentInv

----------------------------------------------------------------------------
(* Single verdicts.                                                        *)

\* The durations are natural numbers, and the first backoff is a backoff.
LEMMA Durations ==
    TTL \in Nat /\ Base \in Nat /\ MaxBackoff \in Nat /\ MaxProbe \in Nat /\ 0 < Base /\ Base <= MaxBackoff
  BY ConstantsAssumption

\* A healthy verdict of a hook that saw a success.
LEMMA HealthyHolds ==
    ASSUME NEW age \in Nat, NEW ok \in Nat, NEW bad \in Nat, ok <= age
    PROVE  markHealthy(age) \in Verdict /\ Holds(markHealthy(age), ok, bad)
<1>1. Less(TTL, age) \in Nat /\ (Less(TTL, age) > 0 => Less(TTL, age) + ok <= TTL)
  BY Durations DEF Less
<1> QED
  BY <1>1, Durations DEF markHealthy, Verdict, Holds

\* An unhealthy verdict of a hook that saw a failure, whatever came before.
LEMMA UnhealthyHolds ==
    ASSUME NEW previous \in Verdict, NEW age \in Nat, NEW ok \in Nat, NEW bad \in Nat,
           previous.backoff <= MaxBackoff, bad <= age
    PROVE  /\ markUnhealthy(previous, age) \in Verdict
           /\ Holds(markUnhealthy(previous, age), ok, bad)
<1> DEFINE backoff == IF previous.backoff = 0 THEN Base ELSE Least(2 * previous.backoff, MaxBackoff)
<1>1. backoff \in Nat /\ backoff <= MaxBackoff
  BY Durations DEF Verdict, Least
<1>2. markUnhealthy(previous, age) =
        [status |-> "unhealthy", ttl |-> 0, retry |-> Less(backoff, age), backoff |-> backoff]
  BY DEF markUnhealthy
<1> HIDE DEF backoff
<1>3. /\ Less(backoff, age) \in Nat
      /\ Less(backoff, age) > 0 => Less(backoff, age) + bad <= backoff
  BY <1>1 DEF Less
<1> QED
  BY <1>1, <1>2, <1>3, Durations DEF Verdict, Holds

\* No verdict is always recent.
LEMMA NothingHolds ==
    /\ NoVerdicts \in [Server -> Verdict]
    /\ \A ok, bad : Recent(NoVerdicts, ok, bad)
  BY Durations DEF NoVerdicts, Unknown, Verdict, Recent, Holds

----------------------------------------------------------------------------
(* Verdicts on all servers.                                                *)

\* An observation makes the times since shorter, which no verdict minds.
LEMMA ObservationKeeps ==
    ASSUME NEW verdicts \in [Server -> Verdict],
           NEW ok \in [Server -> Nat], NEW bad \in [Server -> Nat], NEW s \in Server,
           Recent(verdicts, ok, bad)
    PROVE  /\ Recent(verdicts, [ok EXCEPT ![s] = 0], bad)
           /\ Recent(verdicts, ok, [bad EXCEPT ![s] = 0])
<1> SUFFICES ASSUME NEW t \in Server
             PROVE  /\ Holds(verdicts[t], [ok EXCEPT ![s] = 0][t], bad[t])
                    /\ Holds(verdicts[t], ok[t], [bad EXCEPT ![s] = 0][t])
  BY DEF Recent
<1>1. verdicts[t] \in Verdict /\ Holds(verdicts[t], ok[t], bad[t]) /\ ok[t] \in Nat /\ bad[t] \in Nat
  BY DEF Recent
<1>2. [ok EXCEPT ![s] = 0][t] \in {0, ok[t]} /\ [bad EXCEPT ![s] = 0][t] \in {0, bad[t]}
  OBVIOUS
<1> QED
  BY <1>1, <1>2, Durations DEF Holds, Verdict

\* One tick takes from a verdict what it adds to the times.
LEMMA TickKeeps ==
    ASSUME NEW verdicts \in [Server -> Verdict],
           NEW ok \in [Server -> Nat], NEW bad \in [Server -> Nat],
           Recent(verdicts, ok, bad)
    PROVE  /\ Older(verdicts) \in [Server -> Verdict]
           /\ Recent(Older(verdicts), [s \in Server |-> Least(ok[s] + 1, TTL)],
                                      [s \in Server |-> Least(bad[s] + 1, MaxBackoff)])
<1>1. ASSUME NEW s \in Server
      PROVE  /\ Older(verdicts)[s] \in Verdict
             /\ Holds(Older(verdicts)[s], Least(ok[s] + 1, TTL), Least(bad[s] + 1, MaxBackoff))
  <2>1. verdicts[s] \in Verdict /\ Holds(verdicts[s], ok[s], bad[s]) /\ ok[s] \in Nat /\ bad[s] \in Nat
    BY DEF Recent
  <2> DEFINE v == verdicts[s]
  <2>2. Older(verdicts)[s] = [status |-> v.status, ttl |-> Less(v.ttl, 1),
                              retry |-> Less(v.retry, 1), backoff |-> v.backoff]
    BY <2>1 DEF Older, Verdict
  <2>3. v.ttl \in Nat /\ v.retry \in Nat /\ v.backoff \in Nat
        /\ v.status \in {"unknown", "healthy", "unhealthy"}
    BY <2>1 DEF Verdict
  <2>4. /\ Less(v.ttl, 1) \in Nat
        /\ Less(v.ttl, 1) > 0 => v.ttl > 0 /\ Less(v.ttl, 1) = v.ttl - 1
        /\ Less(v.retry, 1) \in Nat
        /\ Less(v.retry, 1) > 0 => v.retry > 0 /\ Less(v.retry, 1) = v.retry - 1
    BY <2>3 DEF Less
  <2>5. /\ Least(ok[s] + 1, TTL) \in Nat /\ Least(ok[s] + 1, TTL) <= ok[s] + 1
        /\ Least(bad[s] + 1, MaxBackoff) \in Nat /\ Least(bad[s] + 1, MaxBackoff) <= bad[s] + 1
    BY <2>1, Durations DEF Least
  <2>6. Older(verdicts)[s] \in Verdict
    BY <2>2, <2>3, <2>4 DEF Verdict
  <2>7. /\ Older(verdicts)[s].status = v.status /\ Older(verdicts)[s].backoff = v.backoff
        /\ Older(verdicts)[s].ttl = Less(v.ttl, 1) /\ Older(verdicts)[s].retry = Less(v.retry, 1)
    BY <2>2
  <2> QED
    BY <2>1, <2>3, <2>4, <2>5, <2>6, <2>7, Durations DEF Holds
<1> QED
  BY <1>1 DEF Older, Recent

\* Writing one verdict into a copy.
LEMMA VerdictWritten ==
    ASSUME NEW verdicts \in [Server -> Verdict], NEW s \in Server, NEW verdict \in Verdict,
           NEW ok, NEW bad, Recent(verdicts, ok, bad), Holds(verdict, ok[s], bad[s])
    PROVE  /\ [verdicts EXCEPT ![s] = verdict] \in [Server -> Verdict]
           /\ Recent([verdicts EXCEPT ![s] = verdict], ok, bad)
  BY DEF Recent

\* The first half of a save: a copy that is recent is about to be written.
LEMMA SavesKeeps ==
    ASSUME Inv, NEW c \in Call, NEW state \in [Server -> Verdict], NEW verdict \in Verdict,
           NEW then \in Goals, Saves(c, state, verdict, then), UNCHANGED up,
           sinceOk' \in [Server -> Nat], sinceBad' \in [Server -> Nat],
           Recent(state, sinceOk', sinceBad'),
           Holds(verdict, sinceOk[Target[c]]', sinceBad[Target[c]]'),
           Recent(cache, sinceOk', sinceBad'),
           \A d \in Call : Recent(hook[d].state, sinceOk', sinceBad')
    PROVE  Inv'
<1>1. Target[c] \in Server
  BY ConstantsAssumption
<1> DEFINE written == [state EXCEPT ![Target[c]] = verdict]
<1>2. written \in [Server -> Verdict] /\ Recent(written, sinceOk', sinceBad')
  BY <1>1, VerdictWritten
<1>3. CASE cache' = cache /\ Continues(c, then)
  <2>1. hook' \in [Call -> Hook]
    BY <1>3, NothingHolds DEF Continues, At, Inv, TypeOK, Hook, Stages, Goals
  <2>2. \A d \in Call : hook'[d].state \in {hook[d].state, NoVerdicts}
    BY <1>3 DEF Continues, At, Inv, TypeOK
  <2> QED
    BY <1>3, <2>1, <2>2, NothingHolds DEF Inv, RecentInv, TypeOK
<1>4. CASE /\ cache' = NoVerdicts
           /\ hook' = [hook EXCEPT ![c] = [pc |-> "fill", state |-> written,
                                          age |-> hook[c].age, then |-> then]]
  <2> HIDE DEF written
  <2>1. hook' \in [Call -> Hook]
    BY <1>2, <1>4 DEF Inv, TypeOK, Hook, Stages
  <2>2. \A d \in Call : hook'[d].state \in {hook[d].state, written}
    BY <1>4 DEF Inv, TypeOK
  <2> QED
    BY <1>2, <1>4, <2>1, <2>2, NothingHolds DEF Inv, RecentInv, TypeOK
<1> QED
  BY <1>3, <1>4 DEF Saves

----------------------------------------------------------------------------
(* The invariant.                                                          *)

\* A new file holds no verdicts.
LEMMA InvInit == Init => Inv
  BY NothingHolds, Durations DEF Init, Inv, RecentInv, TypeOK, Hook, Ready, At, Stages, Goals

\* Steps of a call that change neither the file nor the times: what a hook reads is
\* the file.
LEMMA ReadingKeeps ==
    ASSUME Inv, NEW c \in Call, UNCHANGED <<cache, sinceOk, sinceBad>>, up' \subseteq Server,
           NEW pc \in Stages, NEW state \in {cache, NoVerdicts, hook[c].state}, NEW age \in Nat,
           hook' = [hook EXCEPT ![c] = At(pc, state, age)]
    PROVE  Inv'
<1>1. state \in [Server -> Verdict] /\ Recent(state, sinceOk, sinceBad)
  BY NothingHolds DEF Inv, RecentInv, TypeOK, Hook
<1>2. \A d \in Call : hook'[d].state \in {hook[d].state, state}
  BY DEF At, Inv, TypeOK
<1>3. hook' \in [Call -> Hook]
  BY <1>1 DEF At, Inv, TypeOK, Hook, Stages, Goals
<1> QED
  BY <1>1, <1>2, <1>3 DEF Inv, RecentInv, TypeOK

\* What the steps of a call start from.
LEMMA Reads ==
    ASSUME Inv, NEW c \in Call
    PROVE  /\ Target[c] \in Server
           /\ hook[c] \in Hook /\ hook[c].state \in [Server -> Verdict] /\ hook[c].age \in Nat
           /\ hook[c].then \in Goals
           /\ hook[c].state[Target[c]] \in Verdict
           /\ hook[c].state[Target[c]].backoff <= MaxBackoff
           /\ sinceOk[Target[c]] \in Nat /\ sinceBad[Target[c]] \in Nat
<1>1. Target[c] \in Server
  BY ConstantsAssumption
<1>2. hook[c] \in Hook
  BY DEF Inv, TypeOK
<1>3. Recent(hook[c].state, sinceOk, sinceBad)
  BY DEF Inv, RecentInv
<1> QED
  BY <1>1, <1>2, <1>3 DEF Hook, Recent, Holds, Inv, TypeOK

\* A success keeps the invariant of everything that is not written with it.
LEMMA SuccessKeeps ==
    ASSUME Inv, NEW c \in Call, sinceOk' = [sinceOk EXCEPT ![Target[c]] = 0],
           UNCHANGED sinceBad
    PROVE  /\ sinceOk' \in [Server -> Nat] /\ sinceBad' \in [Server -> Nat]
           /\ sinceOk'[Target[c]] = 0
           /\ Recent(cache, sinceOk', sinceBad')
           /\ \A d \in Call : Recent(hook[d].state, sinceOk', sinceBad')
<1>1. \A d \in Call : hook[d].state \in [Server -> Verdict]
  BY DEF Inv, TypeOK, Hook
<1> QED
  BY <1>1, Reads, ObservationKeeps DEF Inv, RecentInv, TypeOK

LEMMA FailureKeeps ==
    ASSUME Inv, NEW c \in Call, sinceBad' = [sinceBad EXCEPT ![Target[c]] = 0],
           UNCHANGED sinceOk
    PROVE  /\ sinceOk' \in [Server -> Nat] /\ sinceBad' \in [Server -> Nat]
           /\ sinceBad'[Target[c]] = 0
           /\ Recent(cache, sinceOk', sinceBad')
           /\ \A d \in Call : Recent(hook[d].state, sinceOk', sinceBad')
<1>1. \A d \in Call : hook[d].state \in [Server -> Verdict]
  BY DEF Inv, TypeOK, Hook
<1> QED
  BY <1>1, Reads, ObservationKeeps DEF Inv, RecentInv, TypeOK

LEMMA ReadingSteps ==
    ASSUME Inv, NEW c \in Call,
           PassesUnprobed(c) \/ BlocksUnprobed(c) \/ Preflight(c) \/ CallSucceeds(c) \/ Reconnect(c)
           \/ Again(c)
    PROVE  Inv'
<1>1. CASE PassesUnprobed(c)
  BY <1>1, ReadingKeeps DEF PassesUnprobed, Inv, TypeOK, Stages
<1>2. CASE BlocksUnprobed(c)
  BY <1>2, ReadingKeeps DEF BlocksUnprobed, Inv, TypeOK, Stages
<1>3. CASE Preflight(c)
  BY <1>3, ReadingKeeps DEF Preflight, Inv, TypeOK, Stages
<1>4. CASE CallSucceeds(c)
  BY <1>4, ReadingKeeps DEF CallSucceeds, Ready, Inv, TypeOK, Stages
<1>5. CASE Reconnect(c)
  <2>1. up' \subseteq Server
    BY <1>5, Reads DEF Reconnect, Inv, TypeOK
  <2> QED
    BY <1>5, <2>1, Reads, ReadingKeeps DEF Reconnect, Ready, Stages
<1>6. CASE Again(c)
  BY <1>6, ReadingKeeps DEF Again, Ready, Inv, TypeOK, Stages
<1> QED
  BY <1>1, <1>2, <1>3, <1>4, <1>5, <1>6

\* The times get shorter, then the hook reads.
LEMMA ObservedKeeps ==
    ASSUME Inv, NEW c \in Call, UNCHANGED cache, up' \subseteq Server,
           sinceOk' \in [Server -> Nat], sinceBad' \in [Server -> Nat],
           Recent(cache, sinceOk', sinceBad'),
           \A d \in Call : Recent(hook[d].state, sinceOk', sinceBad'),
           NEW pc \in Stages, NEW state \in {cache, NoVerdicts, hook[c].state}, NEW age \in Nat,
           hook' = [hook EXCEPT ![c] = At(pc, state, age)]
    PROVE  Inv'
<1>1. state \in [Server -> Verdict] /\ Recent(state, sinceOk', sinceBad')
  BY NothingHolds DEF Inv, TypeOK, Hook
<1>2. \A d \in Call : hook'[d].state \in {hook[d].state, state}
  BY DEF At, Inv, TypeOK
<1>3. hook' \in [Call -> Hook]
  BY <1>1 DEF At, Inv, TypeOK, Hook, Stages, Goals
<1> QED
  BY <1>1, <1>2, <1>3 DEF Inv, RecentInv, TypeOK

LEMMA SavingSteps ==
    ASSUME Inv, DatedInv, NEW c \in Call,
           ProbeSucceeds(c) \/ ProbeFails(c) \/ Report(c) \/ Restored(c)
    PROVE  Inv'
<1> DEFINE state == hook[c].state
           age   == hook[c].age
           good  == markHealthy(age)
           bad   == markUnhealthy(state[Target[c]], age)
<1>0. sinceOk \in [Server -> Nat] /\ sinceBad \in [Server -> Nat] /\ up \subseteq Server
      /\ Recent(cache, sinceOk, sinceBad)
      /\ \A d \in Call : Recent(hook[d].state, sinceOk, sinceBad)
  BY DEF Inv, RecentInv, TypeOK
<1>1. CASE ProbeSucceeds(c)
  <2>1. good \in Verdict /\ Holds(good, sinceOk'[Target[c]], sinceBad'[Target[c]])
    <3>1. sinceOk'[Target[c]] = 0 /\ sinceBad'[Target[c]] \in Nat
      BY <1>1, Reads, SuccessKeeps DEF ProbeSucceeds
    <3>2. age \in Nat /\ 0 <= age
      BY Reads
    <3> QED
      BY <3>1, <3>2, HealthyHolds
  <2> QED
    BY <1>1, <2>1, Reads, SuccessKeeps, SavesKeeps DEF ProbeSucceeds, Goals
<1>2. CASE ProbeFails(c)
  <2>1. bad \in Verdict /\ Holds(bad, sinceOk'[Target[c]], sinceBad'[Target[c]])
    <3>1. sinceBad'[Target[c]] = 0 /\ sinceOk'[Target[c]] \in Nat
      BY <1>2, Reads, FailureKeeps DEF ProbeFails
    <3>2. age \in Nat /\ 0 <= age /\ state[Target[c]] \in Verdict
          /\ state[Target[c]].backoff <= MaxBackoff
      BY Reads
    <3> QED
      BY <3>1, <3>2, UnhealthyHolds
  <2>2. CASE Saves(c, state, bad, "blocked") /\ UNCHANGED up
    BY <1>2, <2>1, <2>2, Reads, FailureKeeps, SavesKeeps DEF ProbeFails, Goals
  <2>3. CASE /\ UNCHANGED cache
             /\ hook' = [hook EXCEPT ![c] = At("reprobe", hook[c].state, hook[c].age)]
             /\ up' \in {up, up \cup {Target[c]}}
    <3>1. up' \subseteq Server /\ "reprobe" \in Stages /\ age \in Nat
      BY <1>0, <2>3, Reads DEF Stages
    <3>2. /\ sinceOk' \in [Server -> Nat] /\ sinceBad' \in [Server -> Nat]
          /\ Recent(cache, sinceOk', sinceBad')
          /\ \A d \in Call : Recent(hook[d].state, sinceOk', sinceBad')
      BY <1>2, FailureKeeps DEF ProbeFails
    <3> QED
      BY <2>3, <3>1, <3>2, ObservedKeeps
  <2> QED
    BY <1>2, <2>2, <2>3 DEF ProbeFails
<1>3. CASE Report(c)
  <2>1. sinceBad[Target[c]] <= age
    BY <1>3 DEF Report, DatedInv
  <2>2. bad \in Verdict /\ Holds(bad, sinceOk[Target[c]], sinceBad[Target[c]])
    BY <2>1, Reads, UnhealthyHolds
  <2> QED
    BY <1>0, <1>3, <2>2, Reads, SavesKeeps DEF Report, Goals
<1>4. CASE Restored(c)
  <2>1. sinceOk[Target[c]] <= age
    BY <1>4 DEF Restored, DatedInv
  <2>2. good \in Verdict /\ Holds(good, sinceOk[Target[c]], sinceBad[Target[c]])
    BY <2>1, Reads, HealthyHolds
  <2> QED
    BY <1>0, <1>4, <2>2, Reads, SavesKeeps DEF Restored, Goals
<1> QED
  BY <1>1, <1>2, <1>3, <1>4

LEMMA OtherSteps ==
    ASSUME Inv, NEW c \in Call, CallFails(c) \/ ConfirmProbe(c) \/ Fill(c)
    PROVE  Inv'
<1>0. up \subseteq Server /\ sinceOk \in [Server -> Nat] /\ sinceBad \in [Server -> Nat]
  BY DEF Inv, TypeOK
<1>1. CASE CallFails(c)
  BY <1>0, <1>1, FailureKeeps, ObservedKeeps DEF CallFails, Stages
<1>2. CASE ConfirmProbe(c)
  <2>1. CASE Target[c] \in up
    BY <1>0, <1>2, <2>1, Reads, SuccessKeeps, ObservedKeeps DEF ConfirmProbe, Stages
  <2>2. CASE Target[c] \notin up
    BY <1>0, <1>2, <2>2, FailureKeeps, ObservedKeeps DEF ConfirmProbe, Ready, Stages
  <2> QED
    BY <2>1, <2>2
<1>3. CASE Fill(c)
  <2>1. cache' \in [Server -> Verdict] /\ Recent(cache', sinceOk, sinceBad)
    BY <1>3, NothingHolds, Reads DEF Fill, Inv, RecentInv, TypeOK
  <2>2. hook' \in [Call -> Hook]
    BY <1>3, NothingHolds, Reads DEF Fill, Continues, At, Inv, TypeOK, Hook, Stages, Goals
  <2>3. \A d \in Call : hook'[d].state \in {hook[d].state, NoVerdicts}
    BY <1>3 DEF Fill, Continues, At, Inv, TypeOK
  <2> QED
    BY <1>3, <2>1, <2>2, <2>3, NothingHolds DEF Fill, Inv, RecentInv, TypeOK
<1> QED
  BY <1>1, <1>2, <1>3

LEMMA TickStep == ASSUME Inv, Tick PROVE Inv'
<1>0. cache \in [Server -> Verdict] /\ sinceOk \in [Server -> Nat] /\ sinceBad \in [Server -> Nat]
      /\ hook \in [Call -> Hook] /\ Recent(cache, sinceOk, sinceBad)
      /\ \A c \in Call : Recent(hook[c].state, sinceOk, sinceBad)
  BY DEF Inv, RecentInv, TypeOK
<1> DEFINE ok  == [s \in Server |-> Least(sinceOk[s] + 1, TTL)]
           bad == [s \in Server |-> Least(sinceBad[s] + 1, MaxBackoff)]
<1>1. sinceOk' = ok /\ sinceBad' = bad /\ cache' = Older(cache) /\ up' = up
  BY DEF Tick
<1>2. ok \in [Server -> Nat] /\ bad \in [Server -> Nat]
  BY <1>0, Durations DEF Least
<1>3. ASSUME NEW verdicts \in [Server -> Verdict], Recent(verdicts, sinceOk, sinceBad)
      PROVE  /\ Older(verdicts) \in [Server -> Verdict] /\ Recent(Older(verdicts), ok, bad)
  BY <1>0, <1>3, TickKeeps
<1> HIDE DEF ok, bad
<1>5. ASSUME NEW c \in Call
      PROVE  hook'[c] \in Hook /\ Recent(hook'[c].state, ok, bad)
  <2>1. hook'[c] = [pc |-> hook[c].pc, state |-> Older(hook[c].state),
                    age |-> hook[c].age + (IF Hooked(c) THEN 1 ELSE 0), then |-> hook[c].then]
    BY DEF Tick
  <2>2. hook[c].pc \in Stages /\ hook[c].age \in Nat /\ hook[c].then \in Goals
        /\ hook[c].state \in [Server -> Verdict]
    BY <1>0 DEF Hook
  <2>3. hook[c].age + (IF Hooked(c) THEN 1 ELSE 0) \in Nat
    BY <2>2
  <2>4. Older(hook[c].state) \in [Server -> Verdict] /\ Recent(Older(hook[c].state), ok, bad)
    BY <1>0, <1>3, <2>2
  <2> QED
    BY <2>1, <2>2, <2>3, <2>4 DEF Hook
<1>6. hook' \in [Call -> Hook]
  BY <1>5 DEF Tick
<1> QED
  BY <1>0, <1>1, <1>2, <1>3, <1>5, <1>6 DEF Inv, RecentInv, TypeOK

\* Each step keeps the invariant.
LEMMA InvStep == Inv /\ DatedInv /\ [Next]_vars => Inv'
<1> SUFFICES ASSUME Inv, DatedInv, [Next]_vars PROVE Inv'
  OBVIOUS
<1>1. CASE Tick
  BY <1>1, TickStep
<1>2. ASSUME NEW c \in Call, Step(c) PROVE Inv'
  BY <1>2, ReadingSteps, SavingSteps, OtherSteps DEF Step
<1>3. ASSUME NEW s \in Server, ServerChanges(s) PROVE Inv'
  BY <1>3 DEF ServerChanges, Inv, TypeOK, RecentInv
<1>4. CASE UNCHANGED vars
  BY <1>4 DEF vars, Inv, TypeOK, RecentInv
<1> QED
  BY <1>1, <1>2, <1>3, <1>4 DEF Next

----------------------------------------------------------------------------
(* What a hook is about to write is dated.                                 *)

\* A step of a call cannot disturb it for other calls, and times since get no longer.
LEMMA DatedKept ==
    ASSUME TypeOK, DatedInv, NEW c \in Call,
           \A d \in Call \ {c} : hook'[d] = hook[d],
           \A s \in Server : sinceOk'[s] \in {0, sinceOk[s]} /\ sinceBad'[s] \in {0, sinceBad[s]},
           hook'[c].pc = "report" => sinceBad'[Target[c]] <= hook'[c].age,
           hook'[c].pc = "restored" => sinceOk'[Target[c]] <= hook'[c].age
    PROVE  DatedInv'
<1> SUFFICES ASSUME NEW d \in Call
             PROVE  /\ hook'[d].pc = "report" => sinceBad'[Target[d]] <= hook'[d].age
                    /\ hook'[d].pc = "restored" => sinceOk'[Target[d]] <= hook'[d].age
  BY DEF DatedInv
<1>1. Target[d] \in Server
  BY ConstantsAssumption
<1>2. hook[d].age \in Nat /\ sinceOk[Target[d]] \in Nat /\ sinceBad[Target[d]] \in Nat
  BY <1>1 DEF TypeOK, Hook
<1>3. CASE d # c
  BY <1>1, <1>2, <1>3 DEF DatedInv
<1>4. CASE d = c
  BY <1>4
<1> QED
  BY <1>3, <1>4

\* Saving leads to neither of the two stages.
LEMMA SavesNothingDated ==
    ASSUME TypeOK, NEW c \in Call, NEW state, NEW verdict, NEW then \in Goals,
           Saves(c, state, verdict, then) \/ Continues(c, then)
    PROVE  /\ \A d \in Call \ {c} : hook'[d] = hook[d]
           /\ hook'[c].pc \notin {"report", "restored"}
<1> DEFINE written == [state EXCEPT ![Target[c]] = verdict]
<1>1. CASE Continues(c, then)
  BY <1>1 DEF Continues, At, TypeOK, Goals
<1>2. CASE hook' = [hook EXCEPT ![c] =
                      [pc |-> "fill", state |-> written, age |-> hook[c].age, then |-> then]]
  <2> HIDE DEF written
  <2> QED
    BY <1>2 DEF TypeOK
<1> QED
  BY <1>1, <1>2 DEF Saves

LEMMA DatedStep == Inv /\ DatedInv /\ [Next]_vars => DatedInv'
<1> SUFFICES ASSUME Inv, DatedInv, [Next]_vars PROVE DatedInv'
  OBVIOUS
<1> USE DEF Inv
<1>0. TypeOK
  OBVIOUS
<1>1. ASSUME NEW c \in Call, Step(c) PROVE DatedInv'
  <2>1. Target[c] \in Server /\ hook[c].age \in Nat /\ hook[c].then \in Goals
    BY Reads
  <2>2. CASE \/ PassesUnprobed(c) \/ BlocksUnprobed(c) \/ Preflight(c)
           \/ CallSucceeds(c) \/ Reconnect(c) \/ Again(c)
    <3>1. /\ \A d \in Call \ {c} : hook'[d] = hook[d]
          /\ hook'[c].pc \notin {"report", "restored"}
      BY <2>2, <1>0 DEF PassesUnprobed, BlocksUnprobed, Preflight, CallSucceeds, Reconnect, Again,
                        Ready, At, TypeOK
    <3>2. UNCHANGED <<sinceOk, sinceBad>>
      BY <2>2 DEF PassesUnprobed, BlocksUnprobed, Preflight, CallSucceeds, Reconnect, Again
    <3> QED
      BY <1>0, <3>1, <3>2, DatedKept
  <2>3. CASE ProbeSucceeds(c) \/ Report(c) \/ Restored(c) \/ Fill(c)
    <3>1. /\ \A d \in Call \ {c} : hook'[d] = hook[d]
          /\ hook'[c].pc \notin {"report", "restored"}
      BY <1>0, <2>1, <2>3, SavesNothingDated DEF ProbeSucceeds, Report, Restored, Fill, Goals
    <3>2. \A s \in Server : sinceOk'[s] \in {0, sinceOk[s]} /\ sinceBad'[s] \in {0, sinceBad[s]}
      BY <1>0, <2>1, <2>3 DEF ProbeSucceeds, Report, Restored, Fill, TypeOK
    <3> QED
      BY <1>0, <3>1, <3>2, DatedKept
  <2>4. CASE ProbeFails(c)
    <3>1. /\ \A d \in Call \ {c} : hook'[d] = hook[d]
          /\ hook'[c].pc \notin {"report", "restored"}
      <4>1. CASE hook' = [hook EXCEPT ![c] = At("reprobe", hook[c].state, hook[c].age)]
        BY <1>0, <4>1 DEF At, TypeOK
      <4> QED
        BY <1>0, <2>4, <4>1, SavesNothingDated DEF ProbeFails, Goals
    <3>2. \A s \in Server : sinceOk'[s] \in {0, sinceOk[s]} /\ sinceBad'[s] \in {0, sinceBad[s]}
      BY <1>0, <2>1, <2>4 DEF ProbeFails, TypeOK
    <3> QED
      BY <1>0, <3>1, <3>2, DatedKept
  <2>5. CASE CallFails(c)
    <3>1. /\ \A d \in Call \ {c} : hook'[d] = hook[d]
          /\ hook'[c].pc = "report" /\ hook'[c].age = 0 /\ sinceBad'[Target[c]] = 0
      BY <1>0, <2>1, <2>5 DEF CallFails, At, TypeOK
    <3>2. \A s \in Server : sinceOk'[s] \in {0, sinceOk[s]} /\ sinceBad'[s] \in {0, sinceBad[s]}
      BY <1>0, <2>1, <2>5 DEF CallFails, TypeOK
    <3> QED
      BY <1>0, <3>1, <3>2, DatedKept
  <2>6. CASE ConfirmProbe(c)
    <3>1. /\ \A d \in Call \ {c} : hook'[d] = hook[d]
          /\ hook'[c].pc # "report"
          /\ hook'[c].pc = "restored" => sinceOk'[Target[c]] <= hook'[c].age
      <4>1. CASE Target[c] \in up
        <5>1. hook' = [hook EXCEPT ![c] = At("restored", cache, hook[c].age)]
              /\ sinceOk' = [sinceOk EXCEPT ![Target[c]] = 0]
          BY <2>6, <4>1 DEF ConfirmProbe
        <5>2. sinceOk'[Target[c]] = 0
          BY <1>0, <2>1, <5>1 DEF TypeOK
        <5> QED
          BY <1>0, <2>1, <5>1, <5>2 DEF At, TypeOK
      <4>2. CASE Target[c] \notin up
        BY <1>0, <2>6, <4>2 DEF ConfirmProbe, Ready, At, TypeOK
      <4> QED
        BY <4>1, <4>2
    <3>2. \A s \in Server : sinceOk'[s] \in {0, sinceOk[s]} /\ sinceBad'[s] \in {0, sinceBad[s]}
      BY <1>0, <2>1, <2>6 DEF ConfirmProbe, TypeOK
    <3> QED
      BY <1>0, <3>1, <3>2, DatedKept
  <2> QED
    BY <1>1, <2>2, <2>3, <2>4, <2>5, <2>6 DEF Step
<1>2. CASE Tick
  <2> SUFFICES ASSUME NEW c \in Call
               PROVE  /\ hook'[c].pc = "report" => sinceBad'[Target[c]] <= hook'[c].age
                      /\ hook'[c].pc = "restored" => sinceOk'[Target[c]] <= hook'[c].age
    BY DEF DatedInv
  <2>1. Target[c] \in Server /\ hook[c].age \in Nat
        /\ sinceOk[Target[c]] \in Nat /\ sinceBad[Target[c]] \in Nat
    BY Reads
  <2>2. hook'[c].pc = hook[c].pc
        /\ (hook[c].pc \in {"report", "restored"} => hook'[c].age = hook[c].age + 1)
    BY <1>2, <2>1 DEF Tick, Hooked
  <2>3. sinceBad'[Target[c]] <= sinceBad[Target[c]] + 1 /\ sinceOk'[Target[c]] <= sinceOk[Target[c]] + 1
    BY <1>2, <2>1, Durations DEF Tick, Least
  <2>4. sinceBad'[Target[c]] \in Nat /\ sinceOk'[Target[c]] \in Nat
    BY <1>2, <2>1, Durations DEF Tick, Least
  <2> QED
    BY <2>1, <2>2, <2>3, <2>4 DEF DatedInv
<1>3. ASSUME NEW s \in Server, ServerChanges(s) PROVE DatedInv'
  BY <1>3 DEF ServerChanges, DatedInv
<1>4. CASE UNCHANGED vars
  BY <1>4 DEF vars, DatedInv
<1> QED
  BY <1>1, <1>2, <1>3, <1>4 DEF Next

----------------------------------------------------------------------------
(* The theorems.                                                           *)

\* Every reachable state satisfies the invariant.
THEOREM Invariance == Spec => [](Inv /\ DatedInv)
<1>1. Init => DatedInv
  BY DEF Init, DatedInv, Ready, At
<1> QED
  BY <1>1, InvInit, InvStep, DatedStep, PTL DEF Spec

\* No step of one call moves another.
LEMMA OthersStay ==
    ASSUME TypeOK, NEW d \in Call, Step(d), NEW c \in Call \ {d}
    PROVE  hook'[c] = hook[c]
<1>1. hook[d].then \in Goals
  BY DEF TypeOK, Hook
<1>2. CASE ProbeSucceeds(d) \/ ProbeFails(d) \/ Report(d) \/ Restored(d) \/ Fill(d)
  <2>1. CASE hook' = [hook EXCEPT ![d] = At("reprobe", hook[d].state, hook[d].age)]
    BY <2>1 DEF TypeOK
  <2> QED
    BY <1>1, <1>2, <2>1, SavesNothingDated DEF ProbeSucceeds, ProbeFails, Report, Restored, Fill, Goals
<1>3. CASE ~(ProbeSucceeds(d) \/ ProbeFails(d) \/ Report(d) \/ Restored(d) \/ Fill(d))
  BY <1>3 DEF Step, PassesUnprobed, BlocksUnprobed, Preflight, Again, CallSucceeds, CallFails,
              Reconnect, ConfirmProbe, TypeOK
<1> QED
  BY <1>2, <1>3

\* A step that passes a call, or blocks it, without a probe.
LEMMA RecentStep ==
    ASSUME Inv, Next, NEW c \in Call, hook[c].pc = "idle"
    PROVE  /\ hook'[c].pc = "running" => sinceOk[Target[c]] < TTL
           /\ hook'[c].pc = "blocked" => sinceBad[Target[c]] < MaxBackoff
<1>0. TypeOK /\ Target[c] \in Server
  BY Reads DEF Inv
<1>1. cache[Target[c]] \in Verdict /\ Holds(cache[Target[c]], sinceOk[Target[c]], sinceBad[Target[c]])
      /\ sinceOk[Target[c]] \in Nat /\ sinceBad[Target[c]] \in Nat
  BY <1>0 DEF Inv, TypeOK, RecentInv, Recent
<1>2. CASE PassesUnprobed(c)
  <2>1. hook'[c].pc = "running"
    BY <1>0, <1>2 DEF PassesUnprobed, At, TypeOK
  <2>2. sinceOk[Target[c]] < TTL
    BY <1>1, <1>2, Durations DEF PassesUnprobed, Trusted, Holds, Verdict
  <2> QED
    BY <2>1, <2>2
<1>3. CASE BlocksUnprobed(c)
  <2>1. hook'[c].pc = "blocked"
    BY <1>0, <1>3 DEF BlocksUnprobed, At, TypeOK
  <2>2. sinceBad[Target[c]] < MaxBackoff
    BY <1>1, <1>3, Durations DEF BlocksUnprobed, Avoided, Holds, Verdict
  <2> QED
    BY <2>1, <2>2
<1>4. CASE Preflight(c)
  BY <1>0, <1>4 DEF Preflight, At, TypeOK
<1>5. CASE Step(c)
  BY <1>2, <1>3, <1>4, <1>5 DEF Step, ProbeSucceeds, ProbeFails, Again, CallSucceeds, CallFails,
                                Report, Reconnect, ConfirmProbe, Restored, Fill
<1>6. ASSUME NEW d \in Call \ {c}, Step(d) PROVE hook'[c] = hook[c]
  BY <1>0, <1>6, OthersStay
<1>7. ASSUME NEW s \in Server, ServerChanges(s) PROVE hook'[c] = hook[c]
  BY <1>7 DEF ServerChanges
<1>8. CASE Tick
  BY <1>8 DEF Tick
<1> QED
  BY <1>5, <1>6, <1>7, <1>8 DEF Next

(* Verdicts are recent (run mcp_health): whatever hooks overwrite each     *)
(* other's verdicts with, no call passes on a success older than the TTL,  *)
(* nor is blocked for a failure older than the longest backoff.            *)
THEOREM Recency == Spec => VerdictsAreRecent
<1>1. Inv /\ DatedInv /\ [Next]_vars =>
        [\A c \in Call : hook[c].pc = "idle" =>
           /\ hook'[c].pc = "running" => sinceOk[Target[c]] < TTL
           /\ hook'[c].pc = "blocked" => sinceBad[Target[c]] < MaxBackoff]_vars
  BY RecentStep
<1> QED
  BY <1>1, Invariance, PTL DEF Spec, VerdictsAreRecent

(* The file, the copies, and the times keep their types.                   *)
THEOREM Typing == Spec => []TypeOK
<1>1. Inv => TypeOK
  BY DEF Inv
<1> QED
  BY <1>1, Invariance, PTL
=============================================================================
