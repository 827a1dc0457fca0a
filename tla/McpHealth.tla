----------------------------- MODULE McpHealth -----------------------------
(***************************************************************************)
(* The health check of MCP servers: a hook before each MCP call probes the *)
(* server unless a cached verdict says that it is healthy (for a while) or *)
(* to be left alone (until the backoff is over), and a hook after a failed *)
(* call marks the server, tries to reconnect it and probes it again.       *)
(*                                                                         *)
(* All sessions and parallel calls share one file with the verdicts on all *)
(* servers.  A hook reads the whole of it, awaits its probe, and writes    *)
(* the whole of it, first cutting the file to nothing: others read an      *)
(* empty file meanwhile, and their verdicts are overwritten by older ones. *)
(*                                                                         *)
(* Times are kept as what is left of them; they run in the file and in     *)
(* what the hooks have read alike.  Each server has a configuration, and   *)
(* fail-open is off.                                                       *)
(***************************************************************************)
EXTENDS Naturals

CONSTANTS
    Server,
    Call,          \* callers; each makes one call after the other
    Target,        \* Target[c]: the server that c calls
    TTL,           \* how long a healthy verdict holds
    Base,          \* the first backoff
    MaxBackoff,
    MaxProbe       \* how long a hook may take

ASSUME ConstantsAssumption ==
    /\ Target \in [Call -> Server]
    /\ {TTL, Base, MaxBackoff, MaxProbe} \subseteq Nat
    /\ 0 < Base /\ Base <= MaxBackoff

VARIABLES
    up,        \* the servers that answer
    cache,     \* the verdicts in the file; one that was cut holds none
    hook,      \* hook[c]: where the call of c is, what its hook has read, for how long it runs
    \* History:
    sinceOk,   \* time since a probe of the server succeeded, up to TTL
    sinceBad   \* time since it failed a probe or a call, up to MaxBackoff

vars == <<up, cache, hook, sinceOk, sinceBad>>

Less(t, d) == IF t > d THEN t - d ELSE 0
Least(t, d) == IF t < d THEN t ELSE d

\* In place of the count of failures in a row the backoff that it leads to.
Unknown == [status |-> "unknown", ttl |-> 0, retry |-> 0, backoff |-> 0]
NoVerdicts == [s \in Server |-> Unknown]

At(pc, state, age) == [pc |-> pc, state |-> state, age |-> age, then |-> "idle"]
Ready == At("idle", NoVerdicts, 0)

Init ==
    /\ up \in SUBSET Server
    /\ cache = NoVerdicts
    /\ hook = [c \in Call |-> Ready]
    /\ sinceOk = [s \in Server |-> TTL] /\ sinceBad = [s \in Server |-> MaxBackoff]

----------------------------------------------------------------------------
(* Verdicts.  A hook dates them from the moment it started.                *)

markHealthy(age) == [status |-> "healthy", ttl |-> Less(TTL, age), retry |-> 0, backoff |-> 0]

markUnhealthy(previous, age) ==
    LET backoff == IF previous.backoff = 0 THEN Base ELSE Least(2 * previous.backoff, MaxBackoff)
    IN [status |-> "unhealthy", ttl |-> 0, retry |-> Less(backoff, age), backoff |-> backoff]

\* Fault: a healthy verdict does not expire.
Trusted_Forever(verdict) == verdict.status = "healthy"
Trusted(verdict) == verdict.status = "healthy" /\ verdict.ttl > 0

\* Fault: the backoff does not end.
Avoided_Forever(verdict) == verdict.status = "unhealthy"
Avoided(verdict) == verdict.status = "unhealthy" /\ verdict.retry > 0

----------------------------------------------------------------------------
(* Before the call.                                                        *)

PassesUnprobed(c) ==
    /\ hook[c].pc = "idle" /\ Trusted(cache[Target[c]])
    /\ hook' = [hook EXCEPT ![c] = At("running", NoVerdicts, 0)]
    /\ UNCHANGED <<up, cache, sinceOk, sinceBad>>

BlocksUnprobed(c) ==
    /\ hook[c].pc = "idle" /\ Avoided(cache[Target[c]])
    /\ hook' = [hook EXCEPT ![c] = At("blocked", NoVerdicts, 0)]
    /\ UNCHANGED <<up, cache, sinceOk, sinceBad>>

Preflight(c) ==
    /\ hook[c].pc = "idle" /\ ~Trusted(cache[Target[c]]) /\ ~Avoided(cache[Target[c]])
    /\ hook' = [hook EXCEPT ![c] = At("probe", cache, 0)]
    /\ UNCHANGED <<up, cache, sinceOk, sinceBad>>

\* Only the hook after a failed call goes on, in the same process.
Continues(c, then) ==
    hook' = [hook EXCEPT ![c] =
               At(then, NoVerdicts, IF then = "reconnect" THEN hook[c].age ELSE 0)]

\* saveState, first half: the verdict goes into what the hook has read, and the file
\* is cut.  "Never block the hook on state persistence errors": it may also fail.
Saves(c, state, verdict, then) ==
    \/ /\ cache' = NoVerdicts
       /\ hook' = [hook EXCEPT ![c] =
                       [pc |-> "fill", state |-> [state EXCEPT ![Target[c]] = verdict],
                        age |-> hook[c].age, then |-> then]]
    \/ cache' = cache /\ Continues(c, then)

ProbeSucceeds(c) ==
    /\ hook[c].pc \in {"probe", "reprobe"} /\ Target[c] \in up
    /\ Saves(c, hook[c].state, markHealthy(hook[c].age), "running")
    /\ sinceOk' = [sinceOk EXCEPT ![Target[c]] = 0]
    /\ UNCHANGED <<up, sinceBad>>

\* The reconnect command is tried for failures it may mend; it may do so, or not.
ProbeFails(c) ==
    /\ hook[c].pc \in {"probe", "reprobe"} /\ Target[c] \notin up
    /\ \/ /\ Saves(c, hook[c].state,
                   markUnhealthy(hook[c].state[Target[c]], hook[c].age), "blocked")
          /\ UNCHANGED up
       \/ /\ hook[c].pc = "probe"
          /\ UNCHANGED cache
          /\ hook' = [hook EXCEPT ![c] = At("reprobe", hook[c].state, hook[c].age)]
          /\ up' \in {up, up \cup {Target[c]}}
    /\ sinceBad' = [sinceBad EXCEPT ![Target[c]] = 0]
    /\ UNCHANGED sinceOk

----------------------------------------------------------------------------
(* After the call.                                                         *)

\* A blocked caller may call again.
Again(c) ==
    /\ hook[c].pc = "blocked"
    /\ hook' = [hook EXCEPT ![c] = Ready]
    /\ UNCHANGED <<up, cache, sinceOk, sinceBad>>

CallSucceeds(c) ==
    /\ hook[c].pc = "running"
    /\ hook' = [hook EXCEPT ![c] = Ready]
    /\ UNCHANGED <<up, cache, sinceOk, sinceBad>>

\* A failure that looks like the server's, whether it is up or not (429, 503).
CallFails(c) ==
    /\ hook[c].pc = "running"
    /\ hook' = [hook EXCEPT ![c] = At("report", cache, 0)]
    /\ sinceBad' = [sinceBad EXCEPT ![Target[c]] = 0]
    /\ UNCHANGED <<up, cache, sinceOk>>

Report(c) ==
    /\ hook[c].pc = "report"
    /\ Saves(c, hook[c].state,
             markUnhealthy(hook[c].state[Target[c]], hook[c].age), "reconnect")
    /\ UNCHANGED <<up, sinceOk, sinceBad>>

Reconnect(c) ==
    /\ hook[c].pc = "reconnect"
    /\ \/ hook' = [hook EXCEPT ![c] = Ready] /\ UNCHANGED up
       \/ /\ hook' = [hook EXCEPT ![c] = At("confirm", NoVerdicts, hook[c].age)]
          /\ up' \in {up, up \cup {Target[c]}}
    /\ UNCHANGED <<cache, sinceOk, sinceBad>>

\* After this probe the state is read again.
ConfirmProbe(c) ==
    /\ hook[c].pc = "confirm"
    /\ IF Target[c] \in up
       THEN /\ hook' = [hook EXCEPT ![c] = At("restored", cache, hook[c].age)]
            /\ sinceOk' = [sinceOk EXCEPT ![Target[c]] = 0]
            /\ UNCHANGED sinceBad
       ELSE /\ hook' = [hook EXCEPT ![c] = Ready]
            /\ sinceBad' = [sinceBad EXCEPT ![Target[c]] = 0]
            /\ UNCHANGED sinceOk
    /\ UNCHANGED <<up, cache>>

Restored(c) ==
    /\ hook[c].pc = "restored"
    /\ Saves(c, hook[c].state, markHealthy(hook[c].age), "idle")
    /\ UNCHANGED <<up, sinceOk, sinceBad>>

----------------------------------------------------------------------------
(* The second half of saveState.  It may fail, and two writers may leave a *)
(* mix that does not parse: both read as no verdicts.                      *)

Fill(c) ==
    /\ hook[c].pc = "fill"
    /\ cache' \in {hook[c].state, cache, NoVerdicts}
    /\ Continues(c, hook[c].then)
    /\ UNCHANGED <<up, sinceOk, sinceBad>>

----------------------------------------------------------------------------
(* Servers come and go, and time passes.                                   *)

ServerChanges(s) ==
    /\ up' = IF s \in up THEN up \ {s} ELSE up \cup {s}
    /\ UNCHANGED <<cache, hook, sinceOk, sinceBad>>

Older(verdicts) ==
    [s \in Server |-> [verdicts[s] EXCEPT !.ttl = Less(@, 1), !.retry = Less(@, 1)]]

Hooked(c) == hook[c].pc \notin {"idle", "blocked", "running"}

Tick ==
    /\ \A c \in Call : Hooked(c) => hook[c].age < MaxProbe
    /\ cache' = Older(cache)
    /\ hook' = [c \in Call |->
                  [pc |-> hook[c].pc, state |-> Older(hook[c].state),
                   age |-> hook[c].age + (IF Hooked(c) THEN 1 ELSE 0), then |-> hook[c].then]]
    /\ sinceOk' = [s \in Server |-> Least(sinceOk[s] + 1, TTL)]
    /\ sinceBad' = [s \in Server |-> Least(sinceBad[s] + 1, MaxBackoff)]
    /\ UNCHANGED up

Step(c) ==
    \/ PassesUnprobed(c) \/ BlocksUnprobed(c) \/ Preflight(c)
    \/ ProbeSucceeds(c) \/ ProbeFails(c) \/ Again(c) \/ CallSucceeds(c) \/ CallFails(c)
    \/ Report(c) \/ Reconnect(c) \/ ConfirmProbe(c) \/ Restored(c) \/ Fill(c)

Next == Tick \/ (\E c \in Call : Step(c)) \/ (\E s \in Server : ServerChanges(s))

\* Hooks are processes that run, callers call again, and time passes.
Spec == Init /\ [][Next]_vars /\ WF_vars(Tick) /\ \A c \in Call : WF_vars(Step(c))

----------------------------------------------------------------------------
(* Properties.                                                             *)

(* A verdict without a probe rests on an observation that is not too old,  *)
(* whichever hooks overwrite the verdicts of each other with older ones: a *)
(* call passes only if a probe of the server succeeded within the TTL, and *)
(* is blocked only if the server failed within the longest backoff.        *)
VerdictsAreRecent ==
    [][\A c \in Call : hook[c].pc = "idle" =>
         /\ hook'[c].pc = "running" => sinceOk[Target[c]] < TTL
         /\ hook'[c].pc = "blocked" => sinceBad[Target[c]] < MaxBackoff]_vars

Works(s) == s \in up /\ \A c \in Call : Target[c] = s => hook[c].pc # "report"

(* A server that is back is used again: from when on it answers and its    *)
(* calls do not fail, each caller keeps getting through to it, whatever    *)
(* verdicts others still write.                                            *)
ServedAgain == \A c \in Call : <>[]Works(Target[c]) => []<>(hook[c].pc = "running")
=============================================================================
