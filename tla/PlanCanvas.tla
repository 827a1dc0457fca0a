----------------------------- MODULE PlanCanvas -----------------------------
(***************************************************************************)
(* Plan Canvas: a review session that a human answers in the browser and   *)
(* an agent waits on.                                                      *)
(*                                                                         *)
(*  - SERVER processes (an old one that shuts down, the one that replaces  *)
(*    it) keep the session in memory and write it to sessions.json;        *)
(*  - CLIENTS run `plan-canvas await`: a long poll that is answered with   *)
(*    the queued feedback, with the end of the session, or not yet;        *)
(*  - the BROWSER sends feedback, ends the session and shows what the      *)
(*    agent is doing;                                                      *)
(*  - a STOP HOOK drains what no client was there to take, through the     *)
(*    server that server.json names or, without one, from the file, and    *)
(*    reports the first of them to the agent.                              *)
(*                                                                         *)
(* One session: sessions only share the file and the server.  A handler    *)
(* runs to completion, so it is one step; a process may stop between any   *)
(* two steps, and a client may be gone before the server notices.  One     *)
(* stop hook runs at a time.                                               *)
(***************************************************************************)
EXTENDS Naturals, FiniteSets

CONSTANTS
    Items,           \* feedback items the human sends
    Clients,         \* await commands
    Servers,         \* server processes
    MaxReported,     \* MAX_ITEMS_REPORTED: items of a batch the stop hook spells out
    HookAtStart,     \* whether a stop hook may run while a server starts
    LatePosts        \* whether a server that shuts down may still take a request

ASSUME ConstantsAssumption ==
    MaxReported \in Nat \ {0} /\ HookAtStart \in BOOLEAN /\ LatePosts \in BOOLEAN

VARIABLES
    file,      \* sessions.json: the session's status, who ended it, its queue
    server,    \* server[s]: its phase and its copy of the session
    info,      \* server.json exists
    client,    \* client[c]: whether its request is held, and whether it is still there
    agent,     \* the activities of the agent the serving process has not seen expire
    browser,   \* whether a page is connected, what it shows, an expiry not yet shown
    timer,     \* the idle timer is armed
    hook,      \* where the stop hook is, and the session as it read or was given it
    handed,    \* handed[i]: how often item i was given to the agent
    sent,      \* items the server accepted
    dropped,   \* items given to a client or a hook that was gone before the agent saw them
    cut        \* items the stop hook only counted: "(+N more)"

vars == <<file, server, info, client, agent, browser, timer, hook, handed, sent,
          dropped, cut>>

Status == {"none", "open", "ended"}
Session == [status : Status, by : {"nobody", "user", "agent"}, pending : SUBSET Items]
NoSession == [status |-> "none", by |-> "nobody", pending |-> {}]

Init ==
    /\ file = NoSession
    /\ server = [s \in Servers |-> [pc |-> "down", session |-> NoSession]]
    /\ info = FALSE
    /\ client = [c \in Clients |-> "idle"]
    /\ agent = {}
    /\ browser = [open |-> FALSE, shows |-> "blank", late |-> FALSE]
    /\ timer = FALSE
    /\ hook = [pc |-> "idle", copy |-> NoSession]
    /\ handed = [i \in Items |-> 0]
    /\ sent = {}
    /\ dropped = {}
    /\ cut = {}

Up(s) == server[s].pc = "up"
SomeoneUp == \E s \in Servers : Up(s)
Mem(s) == server[s].session

\* Polls the server holds: awaitCounts.
Held(cl) == {c \in Clients : cl[c] \in {"held", "gone"}}

\* Fault: the queue lives in memory only.
Store_MemoryOnly(s, session) ==
    /\ server' = [server EXCEPT ![s].session = session]
    /\ UNCHANGED file

\* persist: memory first, then the file as a whole.
Store(s, session) ==
    /\ server' = [server EXCEPT ![s].session = session]
    /\ file' = session

\* queueFeedback and takeFeedback.
Queued(session, items, ends) ==
    IF ends THEN [status |-> "ended", by |-> "user", pending |-> session.pending \cup items]
            ELSE [session EXCEPT !.pending = @ \cup items]

Taken(session) == [session EXCEPT !.pending = {}]

----------------------------------------------------------------------------
(* What the browser is told.                                               *)

Presence(session, activity, cl) ==
    IF session.status # "open" THEN "ended"
    ELSE IF "typing" \in activity THEN "typing"
    ELSE IF "thinking" \in activity THEN "thinking"
    ELSE IF Held(cl) # {} THEN "listening"
    ELSE IF session.pending # {} THEN "queued"
    ELSE "waiting"

\* broadcastPresence, after everything else the handler did.
Broadcast(session) ==
    browser' = IF browser.open
               THEN [open |-> TRUE, shows |-> Presence(session, agent', client'), late |-> FALSE]
               ELSE browser

\* armIdleTimer: only without connections.
ArmIfIdle == timer' = (timer \/ (Held(client') = {} /\ ~browser'.open))

----------------------------------------------------------------------------
(* Server processes.                                                       *)

StartServer(s) ==
    /\ server[s].pc = "down" /\ ~SomeoneUp
    /\ HookAtStart \/ hook.pc \notin {"file", "rename"}
    /\ \A t \in Servers : server[t].pc # "loaded"
    /\ server' = [server EXCEPT ![s] = [pc |-> "loaded", session |-> file]]
    /\ UNCHANGED <<file, info, client, agent, browser, timer, hook, cut, handed, sent, dropped>>

Listen(s) ==
    /\ server[s].pc = "loaded" /\ ~SomeoneUp
    /\ server' = [server EXCEPT ![s].pc = "up"]
    /\ info' = TRUE
    /\ timer' = TRUE
    /\ agent' = {}
    /\ UNCHANGED <<file, client, browser, hook, cut, handed, sent, dropped>>

\* close: held polls are answered "waiting, re-run await", pages are disconnected.
Shutdown(s) ==
    /\ Up(s)
    /\ server' = [server EXCEPT ![s].pc = "closing"]
    /\ info' = FALSE
    /\ client' = [c \in Clients |-> "idle"]
    /\ browser' = [browser EXCEPT !.open = FALSE, !.late = FALSE]
    /\ timer' = FALSE
    /\ UNCHANGED <<file, agent, hook, cut, handed, sent, dropped>>

UserStops(s) == Shutdown(s)

IdleShutdown(s) == timer /\ Held(client) = {} /\ ~browser.open /\ Shutdown(s)

ServerExits(s) ==
    /\ server[s].pc = "closing"
    /\ server' = [server EXCEPT ![s].pc = "down"]
    /\ UNCHANGED <<file, info, client, agent, browser, timer, hook, cut, handed, sent, dropped>>

\* Killed: server.json stays, connections break.
ServerDies(s) ==
    /\ Up(s)
    /\ server' = [server EXCEPT ![s].pc = "down"]
    /\ client' = [c \in Clients |-> "idle"]
    /\ browser' = [browser EXCEPT !.open = FALSE, !.late = FALSE]
    /\ timer' = FALSE
    /\ UNCHANGED <<file, info, agent, hook, cut, handed, sent, dropped>>

----------------------------------------------------------------------------
(* The session.                                                            *)

\* A session the user ended refuses to be opened again unless the user asks.
Open(s, reopen) ==
    LET old == Mem(s) IN
    /\ Up(s)
    /\ ~(old.status = "ended" /\ old.by = "user" /\ ~reopen)
    /\ Store(s, [old EXCEPT !.status = "open", !.by = "nobody"])
    /\ UNCHANGED <<agent, client>>
    /\ Broadcast(server'[s].session)
    /\ UNCHANGED <<info, timer, hook, cut, handed, sent, dropped>>

OnceMore(items) == [i \in Items |-> IF i \in items THEN handed[i] + 1 ELSE handed[i]]

\* What an answered poll does with the items: its client reads them, or was gone.
Receive(c, items) ==
    IF client[c] = "gone"
    THEN dropped' = dropped \cup items /\ handed' = handed
    ELSE /\ handed' = OnceMore(items)
         /\ dropped' = dropped

\* Fault: feedback is queued and nobody is woken.
Wake_Silent(s, queued, activity) ==
    Store(s, queued) /\ agent' = activity /\ UNCHANGED <<client, handed, dropped>>

\* wake: every held poll takes what is there.  One of them gets the queue, the
\* others are answered only when the session has ended.
Wake(s, queued, activity) ==
    IF Held(client) = {}
    THEN Store(s, queued) /\ agent' = activity /\ UNCHANGED <<client, handed, dropped>>
    ELSE \E first \in Held(client) :
           /\ Store(s, Taken(queued))
           /\ Receive(first, queued.pending)
           /\ agent' = IF queued.pending # {} THEN {"thinking"} ELSE activity
           /\ client' = [c \in Clients |->
                IF queued.status = "ended" \/ (c = first /\ queued.pending # {})
                THEN "idle" ELSE client[c]]

\* POST feedback, with or without endSession.  Its body may arrive after close(),
\* when the process has neither polls nor pages left.
Feedback(s, items, ends) ==
    LET old == Mem(s)
        queued == Queued(old, items, ends)
    IN /\ old.status = "open"
       /\ items \cap sent = {}
       /\ items # {} \/ ends
       /\ sent' = sent \cup items
       /\ \/ /\ Up(s) /\ browser.open
             /\ Wake(s, queued, agent)
             /\ Broadcast(server'[s].session)
             /\ ArmIfIdle
          \/ /\ LatePosts /\ server[s].pc = "closing"
             /\ Store(s, queued)
             /\ UNCHANGED <<client, agent, browser, timer, handed, dropped>>
       /\ UNCHANGED <<info, hook, cut>>

\* endSession, by the user from the page or by the agent; also of an ended session.
End(s, who) ==
    LET ended == [Mem(s) EXCEPT !.status = "ended", !.by = who] IN
    /\ Up(s) /\ Mem(s).status # "none"
    /\ Wake(s, ended, {})
    /\ Broadcast(server'[s].session)
    /\ ArmIfIdle
    /\ UNCHANGED <<info, hook, cut, sent>>

----------------------------------------------------------------------------
(* The agent's await, reply and typing.                                    *)

\* GET /api/await: feedback or the end of the session at once, or a held poll.
Await(s, c) ==
    LET old == Mem(s) IN
    /\ Up(s) /\ client[c] = "idle" /\ old.status # "none"
    /\ IF old.pending # {}
       THEN /\ Store(s, Taken(old))
            /\ Receive(c, old.pending)
            /\ agent' = {"thinking"}
            /\ UNCHANGED <<client, timer>>
       ELSE /\ old.status = "open"
            /\ client' = [client EXCEPT ![c] = "held"]
            /\ agent' = {}
            /\ timer' = FALSE
            /\ UNCHANGED <<server, file, handed, dropped>>
    /\ Broadcast(server'[s].session)
    /\ UNCHANGED <<info, hook, cut, sent>>

\* Fault: a poll that ends without an answer changes nothing on the page.
Unhold_Silent(s, c) ==
    /\ Up(s) /\ c \in Held(client)
    /\ client' = [client EXCEPT ![c] = "idle"]
    /\ UNCHANGED browser
    /\ ArmIfIdle
    /\ UNCHANGED <<file, server, info, agent, hook, cut, handed, sent, dropped>>

\* finish(null): the poll timed out, or the server noticed that its client is gone.
Unhold(s, c) ==
    /\ Up(s) /\ c \in Held(client)
    /\ client' = [client EXCEPT ![c] = "idle"]
    /\ UNCHANGED agent
    /\ Broadcast(Mem(s))
    /\ ArmIfIdle
    /\ UNCHANGED <<file, server, info, hook, cut, handed, sent, dropped>>

ClientDies(c) ==
    /\ client[c] = "held"
    /\ client' = [client EXCEPT ![c] = "gone"]
    /\ UNCHANGED <<file, server, info, agent, browser, timer, hook, cut, handed, sent, dropped>>

\* POST reply (idle) and POST typing.
Signal(s, activity) ==
    /\ Up(s) /\ Mem(s).status # "none"
    /\ agent' = CASE activity = "idle"     -> {}
                  [] activity = "thinking" -> {"thinking"}
                  [] OTHER                 -> agent \cup {"typing"}
    /\ agent' # agent
    /\ UNCHANGED client
    /\ Broadcast(Mem(s))
    /\ UNCHANGED <<file, server, info, timer, hook, cut, handed, sent, dropped>>

\* Thinking and typing expire without an event ...
Expire(activity) ==
    /\ activity \in agent /\ SomeoneUp
    /\ agent' = agent \ {activity}
    /\ browser' = [browser EXCEPT !.late = browser.open]
    /\ UNCHANGED <<file, server, info, client, timer, hook, cut, handed, sent, dropped>>

\* ... and the sweep tells the page.
Sweep(s) ==
    /\ Up(s) /\ browser.open /\ browser.shows # Presence(Mem(s), agent, client)
    /\ UNCHANGED <<agent, client>>
    /\ Broadcast(Mem(s))
    /\ UNCHANGED <<file, server, info, timer, hook, cut, handed, sent, dropped>>

\* The event stream of the page.
PageOpens(s) ==
    /\ Up(s) /\ Mem(s).status # "none" /\ ~browser.open
    /\ browser' = [open |-> TRUE, shows |-> Presence(Mem(s), agent, client), late |-> FALSE]
    /\ timer' = FALSE
    /\ UNCHANGED <<file, server, info, client, agent, hook, cut, handed, sent, dropped>>

PageCloses(s) ==
    /\ Up(s) /\ browser.open
    /\ browser' = [browser EXCEPT !.open = FALSE, !.late = FALSE]
    /\ UNCHANGED client
    /\ ArmIfIdle
    /\ UNCHANGED <<file, server, info, agent, hook, cut, handed, sent, dropped>>

----------------------------------------------------------------------------
(* The stop hook.                                                          *)

HookGoes(stage, copy) == hook' = [pc |-> stage, copy |-> copy]

HookReads ==
    /\ hook.pc = "idle"
    /\ file.status = "open" /\ file.pending # {}
    /\ HookAtStart \/ \A s \in Servers : server[s].pc \notin {"loaded", "closing"}
    /\ HookGoes(IF info THEN "ask" ELSE "file", NoSession)
    /\ UNCHANGED <<file, server, info, client, agent, browser, timer, handed, sent, dropped, cut>>

\* An await with timeoutMs=0 that the hook waits a second for ...
HookAsks(s, intime) ==
    LET old == Mem(s) IN
    /\ hook.pc = "ask" /\ Up(s)
    /\ IF old.pending # {}
       THEN /\ Store(s, Taken(old))
            /\ IF intime THEN HookGoes("report", old) ELSE HookGoes("idle", NoSession)
            /\ dropped' = IF intime THEN dropped ELSE dropped \cup old.pending
            /\ agent' = {"thinking"}
       ELSE /\ UNCHANGED <<file, server, dropped>>
            /\ HookGoes("idle", NoSession)
            /\ agent' = IF old.status = "open" THEN {} ELSE agent
    /\ UNCHANGED client
    /\ Broadcast(server'[s].session)
    /\ ArmIfIdle
    /\ UNCHANGED <<info, handed, sent, cut>>

\* ... that nobody answers: the queue stays as it is.
HookGivesUp ==
    /\ hook.pc = "ask" /\ ~SomeoneUp
    /\ HookGoes("idle", NoSession)
    /\ UNCHANGED <<file, server, info, client, agent, browser, timer, handed, sent, dropped, cut>>

\* drainViaFile: "only safe when no server is listening".  It reads the file again ...
HookReadsFile ==
    /\ hook.pc = "file"
    /\ IF file.pending = {} THEN HookGoes("idle", NoSession) ELSE HookGoes("rename", file)
    /\ UNCHANGED <<file, server, info, client, agent, browser, timer, handed, sent, dropped, cut>>

\* Fault: the hook reports the queue and leaves it in the file.
HookDrainsFile_Keeps ==
    /\ hook.pc = "rename"
    /\ HookGoes("report", hook.copy)
    /\ UNCHANGED <<file, server, info, client, agent, browser, timer, handed, sent, dropped, cut>>

\* ... and writes it as a whole.
HookDrainsFile ==
    /\ hook.pc = "rename"
    /\ file' = Taken(hook.copy)
    /\ HookGoes("report", hook.copy)
    /\ UNCHANGED <<server, info, client, agent, browser, timer, handed, sent, dropped, cut>>

\* buildReason: the text of the first items, and the number of the others.
HookReports ==
    LET batch == hook.copy.pending IN
    /\ hook.pc = "report"
    /\ \E told \in SUBSET batch :
          /\ IF Cardinality(batch) <= MaxReported
             THEN told = batch
             ELSE Cardinality(told) = MaxReported
          /\ handed' = OnceMore(told)
          /\ cut' = cut \cup (batch \ told)
    /\ HookGoes("idle", NoSession)
    /\ UNCHANGED <<file, server, info, client, agent, browser, timer, sent, dropped>>

\* What it was given and has not reported is gone with it.
HookDies ==
    /\ hook.pc # "idle"
    /\ dropped' = IF hook.pc = "report" THEN dropped \cup hook.copy.pending ELSE dropped
    /\ HookGoes("idle", NoSession)
    /\ UNCHANGED <<file, server, info, client, agent, browser, timer, handed, sent, cut>>

----------------------------------------------------------------------------
ServerStep(s) ==
    \/ StartServer(s) \/ Listen(s) \/ UserStops(s) \/ IdleShutdown(s)
    \/ ServerExits(s) \/ ServerDies(s) \/ Sweep(s)

SessionStep(s) ==
    \/ \E reopen \in BOOLEAN : Open(s, reopen)
    \/ \E items \in SUBSET Items, ends \in BOOLEAN : Feedback(s, items, ends)
    \/ \E who \in {"user", "agent"} : End(s, who)
    \/ \E c \in Clients : Await(s, c) \/ Unhold(s, c)
    \/ \E activity \in {"idle", "thinking", "typing"} : Signal(s, activity)
    \/ PageOpens(s) \/ PageCloses(s)
    \/ \E intime \in BOOLEAN : HookAsks(s, intime)

Next ==
    \/ \E s \in Servers : ServerStep(s) \/ SessionStep(s)
    \/ \E c \in Clients : ClientDies(c)
    \/ \E activity \in {"thinking", "typing"} : Expire(activity)
    \/ HookReads \/ HookGivesUp \/ HookReadsFile \/ HookDrainsFile
    \/ HookReports \/ HookDies

Spec == Init /\ [][Next]_vars

----------------------------------------------------------------------------
(* Properties.                                                             *)

TypeOK ==
    /\ file \in Session
    /\ server \in [Servers -> [pc : {"down", "loaded", "up", "closing"}, session : Session]]
    /\ info \in BOOLEAN /\ timer \in BOOLEAN
    /\ client \in [Clients -> {"idle", "held", "gone"}]
    /\ agent \subseteq {"thinking", "typing"}
    /\ browser \in [open : BOOLEAN, late : BOOLEAN,
                    shows : {"blank", "ended", "typing", "thinking", "listening", "queued", "waiting"}]
    /\ hook \in [pc : {"idle", "ask", "file", "rename", "report"}, copy : Session]
    /\ handed \in [Items -> Nat] /\ sent \subseteq Items
    /\ dropped \subseteq Items /\ cut \subseteq Items

\* No lost wake-up: while a server holds a poll, the session is open and nothing
\* is queued, whatever the order of feedback, ends, awaits and reopenings.
NoLostWakeUp ==
    \A s \in Servers : Up(s) /\ Held(client) # {} =>
        Mem(s).status = "open" /\ Mem(s).pending = {}

\* An item is given to the agent at most once, by a poll or by the stop hook,
\* across shutdowns, deaths and restarts of the server.
HandedOnce == \A i \in Items : handed[i] <= 1 /\ (handed[i] = 1 => i \notin dropped \cup cut)

\* An item the server accepted is in the file, in the hands of the stop hook, was
\* given to the agent, or was given away without the agent seeing it: to a client
\* or a hook that was gone, or to a hook that only counted it.  It is in one of
\* these places only.
InHook == IF hook.pc = "report" THEN hook.copy.pending ELSE {}
Accounted ==
    \A i \in sent :
        IF i \in file.pending \cup InHook
        THEN handed[i] = 0 /\ i \notin dropped \cup cut /\ i \notin file.pending \cap InHook
        ELSE handed[i] > 0 \/ i \in dropped \cup cut

\* "Presence never claims more than the server actually knows": what the page
\* shows is the presence now, but for an expiry the sweep has not seen yet.
ShownIsTrue ==
    \A s \in Servers : Up(s) /\ browser.open /\ ~browser.late =>
        browser.shows = Presence(Mem(s), agent, client)
=============================================================================
