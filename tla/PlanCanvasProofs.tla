-------------------------- MODULE PlanCanvasProofs --------------------------
(***************************************************************************)
(* Plan Canvas for any number of items, commands and servers.              *)
(*                                                                         *)
(* Two races are assumed away, as in the run: a stop hook while a server   *)
(* starts, and a request that a closing server still takes.  Then the      *)
(* server that listens, or is about to, always agrees with the file, so    *)
(* that an item is queued in one place only.                               *)
(***************************************************************************)
EXTENDS PlanCanvas, TLAPS

NoRaces == ~HookAtStart /\ ~LatePosts

Serving(s) == server[s].pc \in {"loaded", "up"}

\* At most one server has loaded the file and listens, or will.
OneServes == \A s, t \in Servers : Serving(s) /\ Serving(t) => s = t

\* Its memory is what the file says.
MemoryIsFile == \A s \in Servers : Serving(s) => server[s].session = file

\* server.json exists while a server listens, and a hook that reads the file does so alone.
HookIsAlone ==
    /\ SomeoneUp => info
    /\ hook.pc \in {"file", "rename"} => \A s \in Servers : ~Serving(s)
    /\ hook.pc = "rename" => hook.copy = file

\* Polls are held and pages are connected only by a server that listens.
ConnectedToServer == Held(client) # {} \/ browser.open => SomeoneUp

\* A held poll means an open session and an empty queue.
PollsWait == Held(client) # {} => file.status = "open" /\ file.pending = {}

\* Every item is in exactly one place: not sent or in the file, in the hands of
\* the hook, given to the agent, or given away unseen.
InOnePlace ==
    /\ file.pending \cup InHook \subseteq sent
    /\ \A i \in Items :
        \/ /\ handed[i] = 0 /\ i \notin dropped \cup cut \cup InHook
           /\ i \in sent => i \in file.pending
        \/ handed[i] = 0 /\ i \notin dropped \cup cut \cup file.pending /\ i \in InHook
        \/ handed[i] = 1 /\ i \notin dropped \cup cut \cup file.pending \cup InHook /\ i \in sent
        \/ /\ handed[i] = 0 /\ i \in dropped \cup cut
           /\ i \notin file.pending \cup InHook /\ i \in sent

----------------------------------------------------------------------------
(* Types.                                                                  *)

Pages == [open : BOOLEAN, late : BOOLEAN,
          shows : {"blank", "ended", "typing", "thinking", "listening", "queued", "waiting"}]
HookStates == [pc : {"idle", "ask", "file", "rename", "report"}, copy : Session]
ServerStates == [pc : {"down", "loaded", "up", "closing"}, session : Session]

LEMMA PresenceShown ==
    ASSUME NEW session, NEW activity, NEW cl
    PROVE  Presence(session, activity, cl) \in
               {"ended", "typing", "thinking", "listening", "queued", "waiting"}
BY DEF Presence

LEMMA BroadcastType ==
    ASSUME TypeOK, NEW session, Broadcast(session)
    PROVE  browser' \in Pages
BY PresenceShown DEF TypeOK, Broadcast, Pages

\* A page that is gone.
LEMMA ClosedType ==
    ASSUME TypeOK
    PROVE  [browser EXCEPT !.open = FALSE, !.late = FALSE] \in Pages
<1>1. browser \in Pages
  BY DEF TypeOK, Pages
<1> DEFINE first == [browser EXCEPT !.open = FALSE]
<1>2. first \in Pages
  BY <1>1 DEF Pages
<1>3. [first EXCEPT !.late = FALSE] \in Pages
  BY <1>2 DEF Pages
<1> QED
  BY <1>3

LEMMA StoreType ==
    ASSUME TypeOK, NEW s \in Servers, NEW session \in Session, Store(s, session)
    PROVE  /\ file' \in Session
           /\ server' \in [Servers -> ServerStates]
BY DEF TypeOK, Store, ServerStates

LEMMA MemType == ASSUME TypeOK, NEW s \in Servers PROVE Mem(s) \in Session
BY DEF TypeOK, Mem

LEMMA ReopenedType ==
    ASSUME NEW session \in Session
    PROVE  [session EXCEPT !.status = "open", !.by = "nobody"] \in Session
<1> DEFINE first == [session EXCEPT !.status = "open"]
<1>1. first \in Session
  BY DEF Session, Status
<1>2. [first EXCEPT !.by = "nobody"] \in Session
  BY <1>1 DEF Session
<1> QED
  BY <1>2

LEMMA EndedType ==
    ASSUME NEW session \in Session, NEW who \in {"user", "agent"}
    PROVE  [session EXCEPT !.status = "ended", !.by = who] \in Session
<1> DEFINE first == [session EXCEPT !.status = "ended"]
<1>1. first \in Session
  BY DEF Session, Status
<1>2. [first EXCEPT !.by = who] \in Session
  BY <1>1 DEF Session
<1> QED
  BY <1>2

LEMMA QueuedType ==
    ASSUME NEW session \in Session, NEW items \in SUBSET Items, NEW ends \in BOOLEAN
    PROVE  Queued(session, items, ends) \in Session
BY DEF Queued, Session, Status

LEMMA TakenType == ASSUME NEW session \in Session PROVE Taken(session) \in Session
BY DEF Taken, Session

LEMMA OnceMoreType == ASSUME TypeOK, NEW items PROVE OnceMore(items) \in [Items -> Nat]
BY DEF TypeOK, OnceMore

LEMMA ReceiveType ==
    ASSUME TypeOK, NEW c, NEW items \in SUBSET Items, Receive(c, items)
    PROVE  handed' \in [Items -> Nat] /\ dropped' \subseteq Items
BY OnceMoreType DEF TypeOK, Receive

LEMMA PendingType == ASSUME NEW session \in Session PROVE session.pending \in SUBSET Items
BY DEF Session

LEMMA WakeType ==
    ASSUME TypeOK, NEW s \in Servers, NEW session \in Session,
           NEW activity \in SUBSET {"thinking", "typing"}, Wake(s, session, activity)
    PROVE  /\ file' \in Session
           /\ server' \in [Servers -> ServerStates]
           /\ handed' \in [Items -> Nat] /\ dropped' \subseteq Items
           /\ client' \in [Clients -> {"idle", "held", "gone"}]
           /\ agent' \subseteq {"thinking", "typing"}
<1>1. CASE Held(client) = {}
  BY <1>1, StoreType DEF Wake, TypeOK
<1>2. CASE Held(client) # {}
  <2>1. PICK first \in Held(client) :
          /\ Store(s, Taken(session))
          /\ Receive(first, session.pending)
          /\ agent' = IF session.pending # {} THEN {"thinking"} ELSE activity
          /\ client' = [c \in Clients |->
               IF session.status = "ended" \/ (c = first /\ session.pending # {})
               THEN "idle" ELSE client[c]]
    BY <1>2 DEF Wake
  <2>2. file' \in Session /\ server' \in [Servers -> ServerStates]
    BY <2>1, TakenType, StoreType
  <2>3. handed' \in [Items -> Nat] /\ dropped' \subseteq Items
    BY <2>1, PendingType, ReceiveType
  <2> QED
    BY <2>1, <2>2, <2>3 DEF TypeOK
<1> QED
  BY <1>1, <1>2

LEMMA HookType ==
    /\ NoSession \in Session
    /\ \A stage \in {"idle", "ask", "file", "rename", "report"}, copy \in Session :
          HookGoes(stage, copy) => hook' \in HookStates
BY DEF HookGoes, HookStates, NoSession, Session, Status

\* Types are preserved by every step.
LEMMA TypeStep == TypeOK /\ [Next]_vars => TypeOK'
<1> SUFFICES ASSUME TypeOK, [Next]_vars PROVE TypeOK'
  OBVIOUS
<1> USE DEF TypeOK
<1>1. ASSUME NEW s \in Servers, StartServer(s) PROVE TypeOK'
  BY <1>1 DEF StartServer
<1>2. ASSUME NEW s \in Servers, Listen(s) PROVE TypeOK'
  BY <1>2 DEF Listen
<1>3. ASSUME NEW s \in Servers, Shutdown(s) PROVE TypeOK'
  <2>1. browser' \in Pages
    BY <1>3, ClosedType DEF Shutdown
  <2>2. server' \in [Servers -> ServerStates]
    BY <1>3 DEF Shutdown, ServerStates
  <2>3. client' \in [Clients -> {"idle", "held", "gone"}]
    BY <1>3 DEF Shutdown
  <2> QED
    BY <1>3, <2>1, <2>2, <2>3 DEF Shutdown, ServerStates, Pages
<1>4. ASSUME NEW s \in Servers, ServerExits(s) PROVE TypeOK'
  BY <1>4 DEF ServerExits
<1>5. ASSUME NEW s \in Servers, ServerDies(s) PROVE TypeOK'
  <2>1. browser' \in Pages
    BY <1>5, ClosedType DEF ServerDies
  <2>2. server' \in [Servers -> ServerStates]
    BY <1>5 DEF ServerDies, ServerStates
  <2>3. client' \in [Clients -> {"idle", "held", "gone"}]
    BY <1>5 DEF ServerDies
  <2> QED
    BY <1>5, <2>1, <2>2, <2>3 DEF ServerDies, ServerStates, Pages
<1>6. ASSUME NEW s \in Servers, Sweep(s) PROVE TypeOK'
  <2>1. browser' \in Pages
    BY <1>6, BroadcastType DEF Sweep
  <2> QED
    BY <1>6, <2>1 DEF Sweep, Pages, ArmIfIdle
<1>7. ASSUME NEW s \in Servers, NEW reopen \in BOOLEAN, Open(s, reopen) PROVE TypeOK'
  <2>1. [Mem(s) EXCEPT !.status = "open", !.by = "nobody"] \in Session
    BY MemType, ReopenedType
  <2>2. file' \in Session /\ server' \in [Servers -> ServerStates]
    BY <1>7, <2>1, StoreType DEF Open
  <2>3. browser' \in Pages
    BY <1>7, BroadcastType DEF Open
  <2> QED
    BY <1>7, <2>2, <2>3 DEF Open, ServerStates, Pages
<1>8. ASSUME NEW s \in Servers, NEW items \in SUBSET Items, NEW ends \in BOOLEAN, Feedback(s, items, ends) PROVE TypeOK'
  <2> DEFINE queued == Queued(Mem(s), items, ends)
  <2>1. queued \in Session
    BY MemType, QueuedType
  <2> HIDE DEF queued
  <2>2. CASE Wake(s, queued, agent) /\ Broadcast(server'[s].session) /\ ArmIfIdle
    <3>1. browser' \in Pages
      BY <2>2, BroadcastType
    <3> QED
      BY <1>8, <2>1, <2>2, <3>1, WakeType DEF Feedback, ServerStates, Pages, ArmIfIdle
  <2>3. CASE Store(s, queued) /\ UNCHANGED <<client, agent, browser, timer, handed, dropped>>
    BY <1>8, <2>1, <2>3, StoreType DEF Feedback, ServerStates
  <2> QED
    BY <1>8, <2>2, <2>3 DEF Feedback, queued
<1>9. ASSUME NEW s \in Servers, NEW who \in {"user", "agent"}, End(s, who) PROVE TypeOK'
  <2>1. [Mem(s) EXCEPT !.status = "ended", !.by = who] \in Session
    BY MemType, EndedType
  <2>2. browser' \in Pages
    BY <1>9, BroadcastType DEF End
  <2> QED
    BY <1>9, <2>1, <2>2, WakeType DEF End, ServerStates, Pages, ArmIfIdle
<1>10. ASSUME NEW s \in Servers, NEW c \in Clients, Await(s, c) PROVE TypeOK'
  <2>1. browser' \in Pages
    BY <1>10, BroadcastType DEF Await
  <2>2. CASE Mem(s).pending # {}
    <3>1. Mem(s).pending \in SUBSET Items /\ Taken(Mem(s)) \in Session
      BY MemType, PendingType, TakenType
    <3>2. file' \in Session /\ server' \in [Servers -> ServerStates]
      BY <1>10, <2>2, <3>1, StoreType DEF Await
    <3>3. handed' \in [Items -> Nat] /\ dropped' \subseteq Items
      BY <1>10, <2>2, <3>1, ReceiveType DEF Await
    <3> QED
      BY <1>10, <2>1, <2>2, <3>2, <3>3 DEF Await, ServerStates, Pages
  <2>3. CASE Mem(s).pending = {}
    BY <1>10, <2>1, <2>3 DEF Await, Pages
  <2> QED
    BY <2>2, <2>3
<1>11. ASSUME NEW s \in Servers, NEW c \in Clients, Unhold(s, c) PROVE TypeOK'
  <2>1. browser' \in Pages
    BY <1>11, BroadcastType DEF Unhold
  <2> QED
    BY <1>11, <2>1 DEF Unhold, Pages, ArmIfIdle
<1>12. ASSUME NEW s \in Servers, NEW activity \in {"idle", "thinking", "typing"}, Signal(s, activity) PROVE TypeOK'
  <2>1. browser' \in Pages
    BY <1>12, BroadcastType DEF Signal
  <2> QED
    BY <1>12, <2>1 DEF Signal, Pages, ArmIfIdle
<1>13. ASSUME NEW s \in Servers, PageOpens(s) PROVE TypeOK'
  <2>1. browser' \in Pages
    BY <1>13, PresenceShown DEF PageOpens, Pages
  <2> QED
    BY <1>13, <2>1 DEF PageOpens, Pages
<1>14. ASSUME NEW s \in Servers, PageCloses(s) PROVE TypeOK'
  BY <1>14, ClosedType DEF PageCloses, Pages, ArmIfIdle
<1>15. ASSUME NEW s \in Servers, NEW intime \in BOOLEAN, HookAsks(s, intime) PROVE TypeOK'
  <2>1. browser' \in Pages
    BY <1>15, BroadcastType DEF HookAsks
  <2>2. CASE Mem(s).pending # {}
    <3>1. Mem(s).pending \in SUBSET Items /\ Taken(Mem(s)) \in Session
      BY MemType, PendingType, TakenType
    <3>2. file' \in Session /\ server' \in [Servers -> ServerStates]
      BY <1>15, <2>2, <3>1, StoreType DEF HookAsks
    <3>3. hook' \in HookStates /\ dropped' \subseteq Items
      BY <1>15, <2>2, <3>1, MemType, HookType DEF HookAsks
    <3> QED
      BY <1>15, <2>1, <2>2, <3>2, <3>3 DEF HookAsks, HookStates, ServerStates, Pages, ArmIfIdle
  <2>3. CASE Mem(s).pending = {}
    <3>1. hook' \in HookStates
      BY <1>15, <2>3, HookType DEF HookAsks
    <3> QED
      BY <1>15, <2>1, <2>3, <3>1 DEF HookAsks, HookStates, Pages, ArmIfIdle
  <2> QED
    BY <2>2, <2>3
<1>16. ASSUME NEW c \in Clients, ClientDies(c) PROVE TypeOK'
  BY <1>16 DEF ClientDies
<1>17. ASSUME NEW activity \in {"thinking", "typing"}, Expire(activity) PROVE TypeOK'
  BY <1>17 DEF Expire
<1>18. ASSUME HookReads PROVE TypeOK'
  BY <1>18, HookType DEF HookReads, HookStates
<1>19. ASSUME HookGivesUp PROVE TypeOK'
  BY <1>19, HookType DEF HookGivesUp, HookStates
<1>20. ASSUME HookReadsFile PROVE TypeOK'
  BY <1>20, HookType DEF HookReadsFile, HookStates
<1>21. ASSUME HookDrainsFile PROVE TypeOK'
  BY <1>21, TakenType, HookType DEF HookDrainsFile, HookStates
<1>22. ASSUME HookReports PROVE TypeOK'
  <2>1. hook' \in HookStates /\ hook.copy.pending \in SUBSET Items
    BY <1>22, HookType, PendingType DEF HookReports
  <2>2. handed' \in [Items -> Nat] /\ cut' \subseteq Items
    BY <1>22, <2>1, OnceMoreType DEF HookReports
  <2> QED
    BY <1>22, <2>1, <2>2 DEF HookReports, HookStates
<1>23. ASSUME HookDies PROVE TypeOK'
  <2>1. hook' \in HookStates /\ hook.copy.pending \in SUBSET Items
    BY <1>23, HookType, PendingType DEF HookDies
  <2> QED
    BY <1>23, <2>1 DEF HookDies, HookStates
<1>24. CASE UNCHANGED vars
  BY <1>24 DEF vars
<1> HIDE DEF TypeOK
<1> QED
  BY <1>1, <1>2, <1>3, <1>4, <1>5, <1>6, <1>7, <1>8, <1>9, <1>10, <1>11, <1>12, <1>13, <1>14, <1>15, <1>16, <1>17, <1>18, <1>19, <1>20, <1>21, <1>22, <1>23, <1>24
  DEF Next, ServerStep, SessionStep, UserStops, IdleShutdown

----------------------------------------------------------------------------
(* One server, whose memory is the file.                                   *)

ServingInv == OneServes /\ MemoryIsFile /\ HookIsAlone

\* What a handler of the listening server stores is in its memory and in the file.
LEMMA StoreServes ==
    ASSUME TypeOK, ServingInv, NEW s \in Servers, Up(s), NEW session, Store(s, session),
           hook' = hook \/ hook'.pc \in {"idle", "report"}, info' = info
    PROVE  ServingInv' /\ file' = session /\ server'[s].session = session /\ Up(s)'
                       /\ \A t \in Servers : server'[t].pc = server[t].pc
<1>1. file' = session /\ server'[s].session = session
  BY DEF TypeOK, Store
<1>2. \A t \in Servers : server'[t].pc = server[t].pc
  BY DEF TypeOK, Store
<1>3. \A t \in Servers : t # s => server'[t] = server[t]
  BY DEF TypeOK, Store
<1>4. \A t \in Servers : Serving(t)' <=> Serving(t)
  BY <1>2 DEF Serving
<1>5. \A t \in Servers : Up(t)' <=> Up(t)
  BY <1>2 DEF Up
<1>6. OneServes'
  BY <1>4 DEF ServingInv, OneServes
<1>7. MemoryIsFile'
  BY <1>1, <1>3, <1>4 DEF ServingInv, OneServes, MemoryIsFile, Serving, Up
<1>8. HookIsAlone'
  <2>1. hook.pc \notin {"file", "rename"}
    BY DEF ServingInv, HookIsAlone, Serving, Up
  <2> QED
    BY <1>5, <2>1 DEF ServingInv, HookIsAlone, SomeoneUp
<1> QED
  BY <1>1, <1>2, <1>5, <1>6, <1>7, <1>8 DEF ServingInv

\* Nothing is stored.
LEMMA IdleServes ==
    ASSUME ServingInv, UNCHANGED <<file, server, info>>, hook' = hook \/ hook'.pc \in {"idle", "report"}
    PROVE  ServingInv'
BY DEF ServingInv, OneServes, MemoryIsFile, HookIsAlone, SomeoneUp, Up, Serving

\* The server that listens, or is about to, is alone and agrees with the file.
LEMMA ServingStep == NoRaces /\ TypeOK /\ ServingInv /\ [Next]_vars => ServingInv'
<1> SUFFICES ASSUME NoRaces, TypeOK, ServingInv, [Next]_vars PROVE ServingInv'
  OBVIOUS
<1> USE DEF NoRaces
<1>1. ASSUME NEW s \in Servers, StartServer(s) PROVE ServingInv'
  BY <1>1 DEF StartServer, TypeOK, ServingInv, OneServes, MemoryIsFile, HookIsAlone, SomeoneUp, Up, Serving, NoRaces
<1>2. ASSUME NEW s \in Servers, Listen(s) PROVE ServingInv'
  BY <1>2 DEF Listen, TypeOK, ServingInv, OneServes, MemoryIsFile, HookIsAlone, SomeoneUp, Up, Serving, NoRaces
<1>3. ASSUME NEW s \in Servers, Shutdown(s) PROVE ServingInv'
  BY <1>3 DEF Shutdown, TypeOK, ServingInv, OneServes, MemoryIsFile, HookIsAlone, SomeoneUp, Up, Serving, NoRaces
<1>4. ASSUME NEW s \in Servers, ServerExits(s) PROVE ServingInv'
  BY <1>4 DEF ServerExits, TypeOK, ServingInv, OneServes, MemoryIsFile, HookIsAlone, SomeoneUp, Up, Serving, NoRaces
<1>5. ASSUME NEW s \in Servers, ServerDies(s) PROVE ServingInv'
  BY <1>5 DEF ServerDies, TypeOK, ServingInv, OneServes, MemoryIsFile, HookIsAlone, SomeoneUp, Up, Serving, NoRaces
<1>6. ASSUME NEW s \in Servers, Sweep(s) PROVE ServingInv'
  BY <1>6, IdleServes DEF Sweep
<1>7. ASSUME NEW s \in Servers, NEW reopen \in BOOLEAN, Open(s, reopen) PROVE ServingInv'
  BY <1>7, StoreServes DEF Open
<1>8. ASSUME NEW s \in Servers, NEW items \in SUBSET Items, NEW ends \in BOOLEAN, Feedback(s, items, ends) PROVE ServingInv'
  <2>1. Up(s) /\ hook' = hook /\ info' = info /\ \E session : Store(s, session)
    BY <1>8 DEF Feedback, NoRaces, Wake
  <2> QED
    BY <2>1, StoreServes
<1>9. ASSUME NEW s \in Servers, NEW who \in {"user", "agent"}, End(s, who) PROVE ServingInv'
  <2>1. Up(s) /\ hook' = hook /\ info' = info /\ \E session : Store(s, session)
    BY <1>9 DEF End, Wake
  <2> QED
    BY <2>1, StoreServes
<1>10. ASSUME NEW s \in Servers, NEW c \in Clients, Await(s, c) PROVE ServingInv'
  BY <1>10, StoreServes, IdleServes DEF Await
<1>11. ASSUME NEW s \in Servers, NEW c \in Clients, Unhold(s, c) PROVE ServingInv'
  BY <1>11, IdleServes DEF Unhold
<1>12. ASSUME NEW s \in Servers, NEW activity \in {"idle", "thinking", "typing"}, Signal(s, activity) PROVE ServingInv'
  BY <1>12, IdleServes DEF Signal
<1>13. ASSUME NEW s \in Servers, PageOpens(s) PROVE ServingInv'
  BY <1>13, IdleServes DEF PageOpens
<1>14. ASSUME NEW s \in Servers, PageCloses(s) PROVE ServingInv'
  BY <1>14, IdleServes DEF PageCloses
<1>15. ASSUME NEW s \in Servers, NEW intime \in BOOLEAN, HookAsks(s, intime) PROVE ServingInv'
  BY <1>15, StoreServes, IdleServes DEF HookAsks, HookGoes
<1>16. ASSUME NEW c \in Clients, ClientDies(c) PROVE ServingInv'
  BY <1>16, IdleServes DEF ClientDies
<1>17. ASSUME NEW activity \in {"thinking", "typing"}, Expire(activity) PROVE ServingInv'
  BY <1>17, IdleServes DEF Expire
<1>18. ASSUME HookReads PROVE ServingInv'
  BY <1>18 DEF HookReads, HookGoes, TypeOK, ServingInv, OneServes, MemoryIsFile, HookIsAlone, SomeoneUp, Up, Serving, NoRaces
<1>19. ASSUME HookGivesUp PROVE ServingInv'
  BY <1>19, IdleServes DEF HookGivesUp, HookGoes
<1>20. ASSUME HookReadsFile PROVE ServingInv'
  BY <1>20 DEF HookReadsFile, HookGoes, TypeOK, ServingInv, OneServes, MemoryIsFile, HookIsAlone, SomeoneUp, Up, Serving, NoRaces
<1>21. ASSUME HookDrainsFile PROVE ServingInv'
  BY <1>21 DEF HookDrainsFile, HookGoes, TypeOK, ServingInv, OneServes, MemoryIsFile, HookIsAlone, SomeoneUp, Up, Serving, NoRaces
<1>22. ASSUME HookReports PROVE ServingInv'
  BY <1>22, IdleServes DEF HookReports, HookGoes
<1>23. ASSUME HookDies PROVE ServingInv'
  BY <1>23, IdleServes DEF HookDies, HookGoes
<1>24. CASE UNCHANGED vars
  BY <1>24, IdleServes DEF vars
<1> HIDE DEF NoRaces
<1> QED
  BY <1>1, <1>2, <1>3, <1>4, <1>5, <1>6, <1>7, <1>8, <1>9, <1>10, <1>11, <1>12, <1>13, <1>14, <1>15, <1>16, <1>17, <1>18, <1>19, <1>20, <1>21, <1>22, <1>23, <1>24
  DEF Next, ServerStep, SessionStep, UserStops, IdleShutdown

----------------------------------------------------------------------------
(* Polls and pages need a listening server; a held poll has nothing to take. *)

PollInv == ConnectedToServer /\ PollsWait

\* Nobody is connected while nobody listens.
LEMMA NobodyConnected ==
    ASSUME ConnectedToServer, ~SomeoneUp
    PROVE  Held(client) = {} /\ ~browser.open
BY DEF ConnectedToServer

\* The listening server sees the session that the file holds.
LEMMA MemIsFile == ASSUME ServingInv, NEW s \in Servers, Up(s) PROVE Mem(s) = file
BY DEF ServingInv, MemoryIsFile, Serving, Up, Mem

\* A step of the listening server keeps polls and pages connected.
LEMMA StaysConnected ==
    ASSUME NEW s \in Servers, Up(s)', browser' \in Pages
    PROVE  ConnectedToServer'
BY DEF ConnectedToServer, SomeoneUp

\* After Wake, whoever is still held waits on an open session without feedback.
LEMMA WokenWait ==
    ASSUME TypeOK, NEW s \in Servers, NEW session \in Session, NEW activity,
           session.status \in {"open", "ended"}, Wake(s, session, activity)
    PROVE  PollsWait'
<1>1. CASE Held(client) = {}
  BY <1>1 DEF Wake, PollsWait, Held
<1>2. CASE Held(client) # {}
  <2>1. PICK first \in Held(client) :
          /\ Store(s, Taken(session))
          /\ client' = [c \in Clients |->
               IF session.status = "ended" \/ (c = first /\ session.pending # {})
               THEN "idle" ELSE client[c]]
    BY <1>2 DEF Wake
  <2>2. file'.pending = {} /\ file'.status = session.status
    BY <2>1 DEF Store, Taken, Session
  <2>3. session.status = "ended" => Held(client') = {}
    BY <2>1 DEF Held
  <2> QED
    BY <2>2, <2>3 DEF PollsWait
<1> QED
  BY <1>1, <1>2

\* Polls and pages stay connected, and what is held waits.
LEMMA PollStep == NoRaces /\ TypeOK /\ ServingInv /\ PollInv /\ [Next]_vars => PollInv'
<1> SUFFICES ASSUME NoRaces, TypeOK, ServingInv, PollInv, [Next]_vars PROVE PollInv'
  OBVIOUS
<1> USE DEF NoRaces, PollInv
<1>1. ASSUME NEW s \in Servers, StartServer(s) PROVE PollInv'
  BY <1>1 DEF StartServer, TypeOK, PollInv, ConnectedToServer, PollsWait, SomeoneUp, Up, Held
<1>2. ASSUME NEW s \in Servers, Listen(s) PROVE PollInv'
  BY <1>2 DEF Listen, TypeOK, PollInv, ConnectedToServer, PollsWait, SomeoneUp, Up, Held
<1>3. ASSUME NEW s \in Servers, Shutdown(s) PROVE PollInv'
  BY <1>3 DEF Shutdown, TypeOK, PollInv, ConnectedToServer, PollsWait, SomeoneUp, Up, Held
<1>4. ASSUME NEW s \in Servers, ServerExits(s) PROVE PollInv'
  BY <1>4 DEF ServerExits, TypeOK, PollInv, ConnectedToServer, PollsWait, SomeoneUp, Up, Held
<1>5. ASSUME NEW s \in Servers, ServerDies(s) PROVE PollInv'
  BY <1>5 DEF ServerDies, TypeOK, PollInv, ConnectedToServer, PollsWait, SomeoneUp, Up, Held
<1>6. ASSUME NEW s \in Servers, Sweep(s) PROVE PollInv'
  BY <1>6 DEF Sweep, TypeOK, PollInv, ConnectedToServer, PollsWait, SomeoneUp, Up, Held, Broadcast
<1>7. ASSUME NEW s \in Servers, NEW reopen \in BOOLEAN, Open(s, reopen) PROVE PollInv'
  <2>1. Mem(s) = file /\ file \in Session
    BY <1>7, MemIsFile DEF Open, TypeOK
  <2>2. Up(s)'
    BY <1>7, StoreServes DEF Open
  <2>3. browser' \in Pages
    BY <1>7, BroadcastType DEF Open
  <2>4. PollsWait'
    BY <1>7, <2>1 DEF Open, Store, PollInv, PollsWait, Session
  <2> QED
    BY <2>2, <2>3, <2>4, StaysConnected
<1>8. ASSUME NEW s \in Servers, NEW items \in SUBSET Items, NEW ends \in BOOLEAN, Feedback(s, items, ends) PROVE PollInv'
  <2> DEFINE queued == Queued(Mem(s), items, ends)
  <2>1. queued \in Session /\ Mem(s) \in Session
    BY MemType, QueuedType
  <2>2. queued.status \in {"open", "ended"}
    BY <1>8, <2>1 DEF Feedback, Queued, Session
  <2>3. Up(s) /\ Wake(s, queued, agent) /\ Broadcast(server'[s].session) /\ UNCHANGED <<info, hook>>
    BY <1>8 DEF Feedback
  <2> HIDE DEF queued
  <2>4. PollsWait'
    BY <2>1, <2>2, <2>3, WokenWait
  <2>5. Up(s)'
    BY <2>3, StoreServes DEF Wake
  <2>6. browser' \in Pages
    BY <2>3, BroadcastType
  <2> QED
    BY <2>4, <2>5, <2>6, StaysConnected DEF PollInv
<1>9. ASSUME NEW s \in Servers, NEW who \in {"user", "agent"}, End(s, who) PROVE PollInv'
  <2> DEFINE ended == [Mem(s) EXCEPT !.status = "ended", !.by = who]
  <2>1. ended \in Session /\ Mem(s) \in Session
    BY MemType, EndedType
  <2>2. ended.status = "ended"
    BY <2>1 DEF Session
  <2>3. Up(s) /\ Wake(s, ended, {}) /\ Broadcast(server'[s].session) /\ UNCHANGED <<info, hook>>
    BY <1>9 DEF End
  <2> HIDE DEF ended
  <2>4. PollsWait'
    BY <2>1, <2>2, <2>3, WokenWait
  <2>5. Up(s)'
    BY <2>3, StoreServes DEF Wake
  <2>6. browser' \in Pages
    BY <2>3, BroadcastType
  <2> QED
    BY <2>4, <2>5, <2>6, StaysConnected DEF PollInv
<1>10. ASSUME NEW s \in Servers, NEW c \in Clients, Await(s, c) PROVE PollInv'
  <2>1. Mem(s) = file /\ file \in Session
    BY <1>10, MemIsFile DEF Await, TypeOK
  <2>2. browser' \in Pages
    BY <1>10, BroadcastType DEF Await
  <2>3. Up(s)'
    BY <1>10, StoreServes DEF Await, Up
  <2>4. PollsWait'
    BY <1>10, <2>1 DEF Await, PollInv, PollsWait, Store, Taken, Session
  <2> QED
    BY <2>2, <2>3, <2>4, StaysConnected DEF PollInv
<1>11. ASSUME NEW s \in Servers, NEW c \in Clients, Unhold(s, c) PROVE PollInv'
  BY <1>11 DEF Unhold, TypeOK, PollInv, ConnectedToServer, PollsWait, SomeoneUp, Up, Held, Broadcast
<1>12. ASSUME NEW s \in Servers, NEW activity \in {"idle", "thinking", "typing"}, Signal(s, activity) PROVE PollInv'
  BY <1>12 DEF Signal, TypeOK, PollInv, ConnectedToServer, PollsWait, SomeoneUp, Up, Held, Broadcast
<1>13. ASSUME NEW s \in Servers, PageOpens(s) PROVE PollInv'
  BY <1>13 DEF PageOpens, TypeOK, PollInv, ConnectedToServer, PollsWait, SomeoneUp, Up, Held
<1>14. ASSUME NEW s \in Servers, PageCloses(s) PROVE PollInv'
  BY <1>14 DEF PageCloses, TypeOK, PollInv, ConnectedToServer, PollsWait, SomeoneUp, Up, Held
<1>15. ASSUME NEW s \in Servers, NEW intime \in BOOLEAN, HookAsks(s, intime) PROVE PollInv'
  <2>1. Mem(s) = file /\ file \in Session
    BY <1>15, MemIsFile DEF HookAsks, TypeOK
  <2>2. browser' \in Pages
    BY <1>15, BroadcastType DEF HookAsks
  <2>3. Up(s)'
    BY <1>15, StoreServes DEF HookAsks, HookGoes, Up
  <2>4. PollsWait'
    BY <1>15, <2>1 DEF HookAsks, PollInv, PollsWait, Store, Taken, Session
  <2> QED
    BY <2>2, <2>3, <2>4, StaysConnected DEF PollInv
<1>16. ASSUME NEW c \in Clients, ClientDies(c) PROVE PollInv'
  BY <1>16 DEF ClientDies, TypeOK, PollInv, ConnectedToServer, PollsWait, SomeoneUp, Up, Held
<1>17. ASSUME NEW activity \in {"thinking", "typing"}, Expire(activity) PROVE PollInv'
  BY <1>17 DEF Expire, TypeOK, PollInv, ConnectedToServer, PollsWait, SomeoneUp, Up, Held
<1>18. ASSUME HookReads PROVE PollInv'
  BY <1>18 DEF HookReads, TypeOK, PollInv, ConnectedToServer, PollsWait, SomeoneUp, Up, Held
<1>19. ASSUME HookGivesUp PROVE PollInv'
  BY <1>19 DEF HookGivesUp, TypeOK, PollInv, ConnectedToServer, PollsWait, SomeoneUp, Up, Held
<1>21. ASSUME HookDrainsFile PROVE PollInv'
  <2>1. ~SomeoneUp
    BY <1>21 DEF HookDrainsFile, ServingInv, HookIsAlone, SomeoneUp, Up, Serving
  <2>2. Held(client) = {} /\ ~browser.open
    BY <2>1, NobodyConnected DEF PollInv
  <2> QED
    BY <1>21, <2>2 DEF HookDrainsFile, PollInv, ConnectedToServer, PollsWait, Held
<1>20. ASSUME HookReadsFile PROVE PollInv'
  BY <1>20 DEF HookReadsFile, TypeOK, PollInv, ConnectedToServer, PollsWait, SomeoneUp, Up, Held
<1>22. ASSUME HookReports PROVE PollInv'
  BY <1>22 DEF HookReports, TypeOK, PollInv, ConnectedToServer, PollsWait, SomeoneUp, Up, Held
<1>23. ASSUME HookDies PROVE PollInv'
  BY <1>23 DEF HookDies, TypeOK, PollInv, ConnectedToServer, PollsWait, SomeoneUp, Up, Held
<1>24. CASE UNCHANGED vars
  BY <1>24 DEF vars, PollInv, ConnectedToServer, PollsWait, SomeoneUp, Up, Held
<1> HIDE DEF NoRaces, PollInv
<1> QED
  BY <1>1, <1>2, <1>3, <1>4, <1>5, <1>6, <1>7, <1>8, <1>9, <1>10, <1>11, <1>12, <1>13, <1>14, <1>15, <1>16, <1>17, <1>18, <1>19, <1>20, <1>21, <1>22, <1>23, <1>24
  DEF Next, ServerStep, SessionStep, UserStops, IdleShutdown

----------------------------------------------------------------------------
(* Every item in one place.                                                *)

\* New items are queued, and then all that is queued stays, is given to the
\* agent, or is written to somebody who was gone.
LEMMA PlaceKept ==
    ASSUME TypeOK, InOnePlace, NEW items \in SUBSET Items, items \cap sent = {},
           sent' = sent \cup items, UNCHANGED <<hook, cut>>,
           NEW all, all = file.pending \cup items,
           \/ file'.pending = all /\ UNCHANGED <<handed, dropped>>
           \/ file'.pending = {} /\ handed' = OnceMore(all) /\ UNCHANGED dropped
           \/ file'.pending = {} /\ UNCHANGED handed /\ dropped' = dropped \cup all
    PROVE  InOnePlace'
<1>1. InHook' = InHook
  BY DEF InHook
<1>2. file'.pending \cup InHook' \subseteq sent'
  BY <1>1 DEF InOnePlace
<1>3. \A i \in Items : i \in all => handed[i] = 0 /\ i \notin dropped \cup cut \cup InHook
  BY DEF InOnePlace
<1>4. \A i \in Items : OnceMore(all)[i] = IF i \in all THEN handed[i] + 1 ELSE handed[i]
  BY DEF OnceMore
<1>5. CASE file'.pending = all /\ UNCHANGED <<handed, dropped>>
  BY <1>1, <1>2, <1>3, <1>5 DEF InOnePlace
<1>6. CASE file'.pending = {} /\ handed' = OnceMore(all) /\ UNCHANGED dropped
  BY <1>1, <1>2, <1>3, <1>4, <1>6 DEF InOnePlace
<1>7. CASE file'.pending = {} /\ UNCHANGED handed /\ dropped' = dropped \cup all
  BY <1>1, <1>2, <1>3, <1>7 DEF InOnePlace
<1> QED
  BY <1>5, <1>6, <1>7

\* Neither the queue nor the counts change.
LEMMA PlaceIdle ==
    ASSUME InOnePlace, file'.pending = file.pending, UNCHANGED <<handed, sent, dropped, cut>>,
           hook' = hook \/ (hook.pc # "report" /\ hook'.pc # "report")
    PROVE  InOnePlace'
<1>1. InHook' = InHook
  BY DEF InHook
<1> QED
  BY <1>1 DEF InOnePlace

\* The whole queue moves to the hook.
LEMMA PlaceMoved ==
    ASSUME InOnePlace, hook.pc # "report", hook'.pc = "report", hook'.copy.pending = file.pending,
           file'.pending = {}, UNCHANGED <<handed, sent, dropped, cut>>
    PROVE  InOnePlace'
<1>1. InHook = {} /\ InHook' = file.pending
  BY DEF InHook
<1> QED
  BY <1>1 DEF InOnePlace

\* Wake and the poll's answer keep every item in one place.
LEMMA WakePlace ==
    ASSUME TypeOK, InOnePlace, NEW items \in SUBSET Items, items \cap sent = {},
           sent' = sent \cup items, UNCHANGED <<hook, cut>>, NEW s \in Servers, NEW session \in Session, NEW activity,
           session.pending = file.pending \cup items, Wake(s, session, activity)
    PROVE  InOnePlace'
<1>1. CASE Held(client) = {}
  BY <1>1, PlaceKept DEF Wake, Store
<1>2. CASE Held(client) # {}
  <2>1. PICK first \in Held(client) :
          Store(s, Taken(session)) /\ Receive(first, session.pending)
    BY <1>2 DEF Wake
  <2>2. file'.pending = {}
    BY <2>1 DEF Store, Taken, Session
  <2> QED
    BY <2>1, <2>2, PlaceKept DEF Receive
<1> QED
  BY <1>1, <1>2

\* No step moves an item twice or loses it.
LEMMA PlaceStep == NoRaces /\ TypeOK /\ ServingInv /\ InOnePlace /\ [Next]_vars => InOnePlace'
<1> SUFFICES ASSUME NoRaces, TypeOK, ServingInv, InOnePlace, [Next]_vars PROVE InOnePlace'
  OBVIOUS
<1> USE DEF NoRaces
<1>1. ASSUME NEW s \in Servers, StartServer(s) PROVE InOnePlace'
  BY <1>1, PlaceIdle DEF StartServer
<1>2. ASSUME NEW s \in Servers, Listen(s) PROVE InOnePlace'
  BY <1>2, PlaceIdle DEF Listen
<1>3. ASSUME NEW s \in Servers, Shutdown(s) PROVE InOnePlace'
  BY <1>3, PlaceIdle DEF Shutdown
<1>4. ASSUME NEW s \in Servers, ServerExits(s) PROVE InOnePlace'
  BY <1>4, PlaceIdle DEF ServerExits
<1>5. ASSUME NEW s \in Servers, ServerDies(s) PROVE InOnePlace'
  BY <1>5, PlaceIdle DEF ServerDies
<1>6. ASSUME NEW s \in Servers, Sweep(s) PROVE InOnePlace'
  BY <1>6, PlaceIdle DEF Sweep
<1>7. ASSUME NEW s \in Servers, NEW reopen \in BOOLEAN, Open(s, reopen) PROVE InOnePlace'
  <2>1. Mem(s) = file /\ file \in Session
    BY <1>7, MemIsFile DEF Open, TypeOK
  <2>2. file'.pending = file.pending
    BY <1>7, <2>1 DEF Open, Store, Session
  <2> QED
    BY <1>7, <2>2, PlaceIdle DEF Open
<1>8. ASSUME NEW s \in Servers, NEW items \in SUBSET Items, NEW ends \in BOOLEAN, Feedback(s, items, ends) PROVE InOnePlace'
  <2> DEFINE queued == Queued(Mem(s), items, ends)
  <2>1. queued \in Session /\ Mem(s) \in Session
    BY MemType, QueuedType
  <2>2. Mem(s) = file
    BY <1>8, MemIsFile DEF Feedback
  <2>3. queued.pending = file.pending \cup items
    BY <2>1, <2>2 DEF Queued, Session
  <2>4. /\ Wake(s, queued, agent) /\ items \cap sent = {} /\ sent' = sent \cup items
        /\ UNCHANGED <<hook, cut>>
    BY <1>8 DEF Feedback
  <2> HIDE DEF queued
  <2> QED
    BY <2>1, <2>3, <2>4, WakePlace
<1>9. ASSUME NEW s \in Servers, NEW who \in {"user", "agent"}, End(s, who) PROVE InOnePlace'
  <2> DEFINE ended == [Mem(s) EXCEPT !.status = "ended", !.by = who]
  <2>1. ended \in Session /\ Mem(s) \in Session
    BY MemType, EndedType
  <2>2. Mem(s) = file
    BY <1>9, MemIsFile DEF End
  <2>3. ended.pending = file.pending \cup {}
    BY <2>1, <2>2 DEF Session
  <2>4. Wake(s, ended, {}) /\ sent' = sent \cup {} /\ UNCHANGED <<hook, cut>>
    BY <1>9 DEF End
  <2> HIDE DEF ended
  <2>5. {} \in SUBSET Items /\ {} \cap sent = {}
    OBVIOUS
  <2> QED
    BY <2>1, <2>3, <2>4, <2>5, WakePlace
<1>10. ASSUME NEW s \in Servers, NEW c \in Clients, Await(s, c) PROVE InOnePlace'
  <2>1. Mem(s) = file /\ file \in Session
    BY <1>10, MemIsFile DEF Await, TypeOK
  <2>2. CASE Mem(s).pending # {}
    <3>1. /\ file'.pending = {} /\ Receive(c, file.pending) /\ sent' = sent \cup {}
          /\ UNCHANGED <<hook, cut>>
      BY <1>10, <2>1, <2>2 DEF Await, Store, Taken, Session
    <3>2. {} \in SUBSET Items /\ {} \cap sent = {} /\ file.pending = file.pending \cup {}
      OBVIOUS
    <3> QED
      BY <3>1, <3>2, PlaceKept DEF Receive
  <2>3. CASE Mem(s).pending = {}
    BY <1>10, <2>3, PlaceIdle DEF Await
  <2> QED
    BY <2>2, <2>3
<1>11. ASSUME NEW s \in Servers, NEW c \in Clients, Unhold(s, c) PROVE InOnePlace'
  BY <1>11, PlaceIdle DEF Unhold
<1>12. ASSUME NEW s \in Servers, NEW activity \in {"idle", "thinking", "typing"}, Signal(s, activity) PROVE InOnePlace'
  BY <1>12, PlaceIdle DEF Signal
<1>13. ASSUME NEW s \in Servers, PageOpens(s) PROVE InOnePlace'
  BY <1>13, PlaceIdle DEF PageOpens
<1>14. ASSUME NEW s \in Servers, PageCloses(s) PROVE InOnePlace'
  BY <1>14, PlaceIdle DEF PageCloses
<1>15. ASSUME NEW s \in Servers, NEW intime \in BOOLEAN, HookAsks(s, intime) PROVE InOnePlace'
  <2>1. Mem(s) = file /\ file \in Session
    BY <1>15, MemIsFile DEF HookAsks, TypeOK
  <2>2. CASE Mem(s).pending # {}
    <3>1. file'.pending = {} /\ UNCHANGED <<handed, sent, cut>> /\ hook.pc = "ask"
      BY <1>15, <2>1, <2>2 DEF HookAsks, Store, Taken, Session
    <3>2. CASE intime
      BY <1>15, <2>1, <2>2, <3>1, <3>2, PlaceMoved DEF HookAsks, HookGoes
    <3>3. CASE ~intime
      <4>1. dropped' = dropped \cup file.pending /\ InHook = {} /\ InHook' = {}
        BY <1>15, <2>1, <2>2, <3>3 DEF HookAsks, HookGoes, InHook
      <4> QED
        BY <3>1, <4>1 DEF InOnePlace
    <3> QED
      BY <3>2, <3>3
  <2>3. CASE Mem(s).pending = {}
    BY <1>15, <2>3, PlaceIdle DEF HookAsks, HookGoes
  <2> QED
    BY <2>2, <2>3
<1>16. ASSUME NEW c \in Clients, ClientDies(c) PROVE InOnePlace'
  BY <1>16, PlaceIdle DEF ClientDies
<1>17. ASSUME NEW activity \in {"thinking", "typing"}, Expire(activity) PROVE InOnePlace'
  BY <1>17, PlaceIdle DEF Expire
<1>18. ASSUME HookReads PROVE InOnePlace'
  BY <1>18, PlaceIdle DEF HookReads, HookGoes
<1>19. ASSUME HookGivesUp PROVE InOnePlace'
  BY <1>19, PlaceIdle DEF HookGivesUp, HookGoes
<1>20. ASSUME HookReadsFile PROVE InOnePlace'
  BY <1>20, PlaceIdle DEF HookReadsFile, HookGoes
<1>21. ASSUME HookDrainsFile PROVE InOnePlace'
  <2>1. hook.copy = file
    BY <1>21 DEF HookDrainsFile, ServingInv, HookIsAlone
  <2>2. file'.pending = {}
    BY <1>21, <2>1 DEF HookDrainsFile, Taken, TypeOK, Session
  <2> QED
    BY <1>21, <2>1, <2>2, PlaceMoved DEF HookDrainsFile, HookGoes
<1>22. ASSUME HookReports PROVE InOnePlace'
  <2>1. InHook = hook.copy.pending /\ InHook' = {}
    BY <1>22 DEF HookReports, HookGoes, InHook
  <2>2. PICK told \in SUBSET InHook : handed' = OnceMore(told) /\ cut' = cut \cup (InHook \ told)
    BY <1>22, <2>1 DEF HookReports
  <2>3. \A i \in Items : handed'[i] = IF i \in told THEN handed[i] + 1 ELSE handed[i]
    BY <2>2 DEF OnceMore
  <2>4. UNCHANGED <<file, sent, dropped>>
    BY <1>22 DEF HookReports
  <2> QED
    BY <2>1, <2>2, <2>3, <2>4 DEF InOnePlace
<1>23. ASSUME HookDies PROVE InOnePlace'
  <2>1. /\ dropped' = dropped \cup InHook /\ InHook' = {}
        /\ UNCHANGED <<file, handed, sent, cut>>
    BY <1>23 DEF HookDies, HookGoes, InHook
  <2> QED
    BY <2>1 DEF InOnePlace
<1>24. CASE UNCHANGED vars
  BY <1>24, PlaceIdle DEF vars
<1> HIDE DEF NoRaces
<1> QED
  BY <1>1, <1>2, <1>3, <1>4, <1>5, <1>6, <1>7, <1>8, <1>9, <1>10, <1>11, <1>12, <1>13, <1>14, <1>15, <1>16, <1>17, <1>18, <1>19, <1>20, <1>21, <1>22, <1>23, <1>24
  DEF Next, ServerStep, SessionStep, UserStops, IdleShutdown

----------------------------------------------------------------------------
(* What the page shows.                                                    *)

\* A handler that broadcasts last leaves the page right.
LEMMA BroadcastTrue ==
    ASSUME OneServes', NEW s \in Servers, Up(s)', Broadcast(server'[s].session)
    PROVE  ShownIsTrue'
<1>1. \A t \in Servers : Up(t)' => t = s
  BY DEF OneServes, Serving, Up
<1>2. browser'.open => browser'.shows = Presence(server'[s].session, agent', client')
  BY DEF Broadcast
<1> QED
  BY <1>1, <1>2 DEF ShownIsTrue, Mem

\* The page keeps showing what the server knows.
LEMMA ShownStep == NoRaces /\ TypeOK /\ ServingInv /\ ServingInv' /\ PollInv /\ ShownIsTrue /\ [Next]_vars => ShownIsTrue'
<1> SUFFICES ASSUME NoRaces, TypeOK, ServingInv, ServingInv', PollInv, ShownIsTrue, [Next]_vars PROVE ShownIsTrue'
  OBVIOUS
<1> USE DEF NoRaces
<1>1. ASSUME NEW s \in Servers, StartServer(s) PROVE ShownIsTrue'
  BY <1>1 DEF StartServer, TypeOK, ShownIsTrue, Up, Mem
<1>2. ASSUME NEW s \in Servers, Listen(s) PROVE ShownIsTrue'
  <2>1. ~browser'.open
    BY <1>2, NobodyConnected DEF Listen, PollInv
  <2> QED
    BY <2>1 DEF ShownIsTrue
<1>3. ASSUME NEW s \in Servers, Shutdown(s) PROVE ShownIsTrue'
  BY <1>3 DEF Shutdown, TypeOK, ShownIsTrue
<1>4. ASSUME NEW s \in Servers, ServerExits(s) PROVE ShownIsTrue'
  BY <1>4 DEF ServerExits, TypeOK, ShownIsTrue, Up, Mem
<1>5. ASSUME NEW s \in Servers, ServerDies(s) PROVE ShownIsTrue'
  BY <1>5 DEF ServerDies, TypeOK, ShownIsTrue
<1>6. ASSUME NEW s \in Servers, Sweep(s) PROVE ShownIsTrue'
  <2>1. Up(s)' /\ Broadcast(server'[s].session)
    BY <1>6 DEF Sweep, Up, Mem
  <2> QED
    BY <2>1, BroadcastTrue DEF ServingInv
<1>7. ASSUME NEW s \in Servers, NEW reopen \in BOOLEAN, Open(s, reopen) PROVE ShownIsTrue'
  <2>1. Up(s)' /\ Broadcast(server'[s].session)
    BY <1>7, StoreServes DEF Open, NoRaces, Up
  <2> QED
    BY <2>1, BroadcastTrue DEF ServingInv
<1>8. ASSUME NEW s \in Servers, NEW items \in SUBSET Items, NEW ends \in BOOLEAN, Feedback(s, items, ends) PROVE ShownIsTrue'
  <2>1. Up(s)' /\ Broadcast(server'[s].session)
    BY <1>8, StoreServes DEF Feedback, NoRaces, Up, Wake
  <2> QED
    BY <2>1, BroadcastTrue DEF ServingInv
<1>9. ASSUME NEW s \in Servers, NEW who \in {"user", "agent"}, End(s, who) PROVE ShownIsTrue'
  <2>1. Up(s)' /\ Broadcast(server'[s].session)
    BY <1>9, StoreServes DEF End, NoRaces, Up, Wake
  <2> QED
    BY <2>1, BroadcastTrue DEF ServingInv
<1>10. ASSUME NEW s \in Servers, NEW c \in Clients, Await(s, c) PROVE ShownIsTrue'
  <2>1. Up(s)' /\ Broadcast(server'[s].session)
    BY <1>10, StoreServes DEF Await, NoRaces, Up
  <2> QED
    BY <2>1, BroadcastTrue DEF ServingInv
<1>11. ASSUME NEW s \in Servers, NEW c \in Clients, Unhold(s, c) PROVE ShownIsTrue'
  <2>1. Up(s)' /\ Broadcast(server'[s].session)
    BY <1>11 DEF Unhold, Up, Mem
  <2> QED
    BY <2>1, BroadcastTrue DEF ServingInv
<1>12. ASSUME NEW s \in Servers, NEW activity \in {"idle", "thinking", "typing"}, Signal(s, activity) PROVE ShownIsTrue'
  <2>1. Up(s)' /\ Broadcast(server'[s].session)
    BY <1>12 DEF Signal, Up, Mem
  <2> QED
    BY <2>1, BroadcastTrue DEF ServingInv
<1>13. ASSUME NEW s \in Servers, PageOpens(s) PROVE ShownIsTrue'
  <2>1. \A t \in Servers : Up(t) => t = s
    BY <1>13 DEF PageOpens, ServingInv, OneServes, Serving, Up
  <2> QED
    BY <1>13, <2>1 DEF PageOpens, ShownIsTrue, Up, Mem
<1>14. ASSUME NEW s \in Servers, PageCloses(s) PROVE ShownIsTrue'
  BY <1>14 DEF PageCloses, TypeOK, ShownIsTrue
<1>15. ASSUME NEW s \in Servers, NEW intime \in BOOLEAN, HookAsks(s, intime) PROVE ShownIsTrue'
  <2>1. Up(s)' /\ Broadcast(server'[s].session)
    BY <1>15, StoreServes DEF HookAsks, HookGoes, NoRaces, Up
  <2> QED
    BY <2>1, BroadcastTrue DEF ServingInv
<1>16. ASSUME NEW c \in Clients, ClientDies(c) PROVE ShownIsTrue'
  <2>1. Held(client') = Held(client)
    BY <1>16 DEF ClientDies, Held, TypeOK
  <2>2. \A session, activity : Presence(session, activity, client') = Presence(session, activity, client)
    BY <2>1 DEF Presence
  <2> QED
    BY <1>16, <2>2 DEF ClientDies, ShownIsTrue, Up, Mem
<1>17. ASSUME NEW activity \in {"thinking", "typing"}, Expire(activity) PROVE ShownIsTrue'
  BY <1>17 DEF Expire, TypeOK, ShownIsTrue
<1>18. ASSUME HookReads PROVE ShownIsTrue'
  BY <1>18 DEF HookReads, TypeOK, ShownIsTrue, Up, Mem
<1>19. ASSUME HookGivesUp PROVE ShownIsTrue'
  BY <1>19 DEF HookGivesUp, TypeOK, ShownIsTrue, Up, Mem
<1>21. ASSUME HookDrainsFile PROVE ShownIsTrue'
  BY <1>21 DEF HookDrainsFile, TypeOK, ShownIsTrue, Up, Mem
<1>20. ASSUME HookReadsFile PROVE ShownIsTrue'
  BY <1>20 DEF HookReadsFile, TypeOK, ShownIsTrue, Up, Mem
<1>22. ASSUME HookReports PROVE ShownIsTrue'
  BY <1>22 DEF HookReports, TypeOK, ShownIsTrue, Up, Mem
<1>23. ASSUME HookDies PROVE ShownIsTrue'
  BY <1>23 DEF HookDies, TypeOK, ShownIsTrue, Up, Mem
<1>24. CASE UNCHANGED vars
  BY <1>24 DEF vars, ShownIsTrue, Up, Mem
<1> HIDE DEF NoRaces
<1> QED
  BY <1>1, <1>2, <1>3, <1>4, <1>5, <1>6, <1>7, <1>8, <1>9, <1>10, <1>11, <1>12, <1>13, <1>14, <1>15, <1>16, <1>17, <1>18, <1>19, <1>20, <1>21, <1>22, <1>23, <1>24
  DEF Next, ServerStep, SessionStep, UserStops, IdleShutdown

----------------------------------------------------------------------------
(* The theorems.                                                           *)

Inv == NoRaces /\ TypeOK /\ ServingInv /\ PollInv /\ InOnePlace /\ ShownIsTrue

LEMMA InitialTypes == ASSUME Init PROVE TypeOK
BY DEF Init, NoSession, TypeOK, Session, Status

LEMMA Initially == NoRaces /\ Init => Inv
<1> SUFFICES ASSUME NoRaces, Init PROVE Inv
  OBVIOUS
<1> USE DEF Init, NoSession
<1>1. TypeOK
  BY InitialTypes
<1>2. ServingInv
  BY DEF ServingInv, OneServes, MemoryIsFile, HookIsAlone, SomeoneUp, Up, Serving
<1>3. PollInv
  BY DEF PollInv, ConnectedToServer, PollsWait, Held
<1>4. InOnePlace
  BY DEF InOnePlace, InHook
<1>5. ShownIsTrue
  BY DEF ShownIsTrue
<1> QED
  BY <1>1, <1>2, <1>3, <1>4, <1>5 DEF Inv

LEMMA Inductive == Inv /\ [Next]_vars => Inv'
BY TypeStep, ServingStep, PollStep, PlaceStep, ShownStep DEF Inv, NoRaces

LEMMA Invariance == NoRaces /\ Spec => []Inv
<1>1. NoRaces /\ Init => Inv
  BY Initially
<1>2. Inv /\ [Next]_vars => Inv'
  BY Inductive
<1> QED
  BY <1>1, <1>2, PTL DEF Spec

\* Types: file, memory, polls and page keep their ranges, whatever the races
\* between a starting or closing server and the stop hook.
THEOREM Typing == Spec => []TypeOK
<1>1. Init => TypeOK
  BY InitialTypes
<1>2. TypeOK /\ [Next]_vars => TypeOK'
  BY TypeStep
<1> QED
  BY <1>1, <1>2, PTL DEF Spec

\* No lost wake-up: wakePending in sessions.js answers every held poll as soon
\* as something is queued or the session ends.
THEOREM HeldPollsWait == NoRaces /\ Spec => []NoLostWakeUp
<1>1. Inv => NoLostWakeUp
  BY MemIsFile DEF Inv, PollInv, PollsWait, NoLostWakeUp
<1> QED
  BY <1>1, Invariance, PTL

\* takeFeedback and the stop hook give an item to the agent at most once, across
\* any number of server deaths and restarts.
THEOREM GivenOnce == NoRaces /\ Spec => []HandedOnce
<1>1. Inv => HandedOnce
  BY DEF Inv, InOnePlace, HandedOnce
<1> QED
  BY <1>1, Invariance, PTL

\* Feedback the server accepted is in sessions.json until somebody is given it: the
\* agent, or a client or stop hook that was gone, or reported only some of it.
THEOREM NothingVanishes == NoRaces /\ Spec => []Accounted
<1>1. Inv => Accounted
  BY DEF Inv, InOnePlace, Accounted, TypeOK
<1> QED
  BY <1>1, Invariance, PTL

\* "Presence never claims more than the server actually knows": broadcastPresence
\* comes last in every handler, so that the page is right until something expires.
THEOREM PageIsRight == NoRaces /\ Spec => []ShownIsTrue
<1>1. Inv => ShownIsTrue
  BY DEF Inv
<1> QED
  BY <1>1, Invariance, PTL
=============================================================================
