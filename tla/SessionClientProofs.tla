--------------------------- MODULE SessionClientProofs ---------------------------
(***************************************************************************)
(* Proofs about SessionClient: whatever the goroutines of a session that   *)
(* was left still do, the client holds what belongs to its session only,   *)
(* and the cause of a rate-limited close stays on display.                 *)
(***************************************************************************)
EXTENDS SessionClient, TLAPS

States == {"disconnected", "connecting", "synchronizing", "caught_up", "reconnecting", "read_only",
           "conflict", "closed"}

Events == {"connect", "close", "connected", "connection_lost", "synchronized", "read_only", "conflict",
           "resolved"}

(* The reducer: "closed" is final, and only closing leads there. *)
LEMMA ReduceResult ==
    ASSUME NEW s \in States, NEW event \in Events
    PROVE  /\ Reduce(s, event) \in States
           /\ Reduce(s, event) = "closed" <=> s = "closed" \/ event = "close"
<1> USE DEF Events, Reduce, Transitions
<1>1. CASE s = "disconnected" BY <1>1 DEF States
<1>2. CASE s = "connecting" BY <1>2 DEF States
<1>3. CASE s = "synchronizing" BY <1>3 DEF States
<1>4. CASE s = "caught_up" BY <1>4 DEF States
<1>5. CASE s = "reconnecting" BY <1>5 DEF States
<1>6. CASE s = "read_only" BY <1>6 DEF States
<1>7. CASE s = "conflict" BY <1>7 DEF States
<1>8. CASE s = "closed" BY <1>8 DEF States
<1> QED BY <1>1, <1>2, <1>3, <1>4, <1>5, <1>6, <1>7, <1>8 DEF States

-----------------------------------------------------------------------------------
(* Types.  Records are described by their fields. *)
JoinPoints == {"idle", "enter", "fetch", "dial", "wait", "refresh", "commit", "sync", "activate", "leave",
               "failed", "cleanup", "release", "done"}

RunnerPoints == {"idle", "gaveup", "begin", "resume", "dial", "wait", "suspend", "record", "retry",
                 "install", "sync", "end"}

Messages == {"joined", "complete", "snapshot", "rejected", "close"}

IsClient(c) ==
    /\ DOMAIN c = {"machine", "joining", "transport", "network", "reconnecting", "context", "token",
                   "expired", "lastErr", "rateLimited"}
    /\ c.machine \in 0 .. MaxSessions
    /\ c.network \in 0 .. MaxSessions
    /\ c.context \in 0 .. MaxSessions
    /\ c.transport \in 0 .. MaxSockets
    /\ c.token \in 0 .. MaxSockets
    /\ c.reconnecting \in BOOLEAN
    /\ c.rateLimited \in BOOLEAN

ClientTypes == IsClient(client)

ControlTypes ==
    /\ DOMAIN ctl = {"active", "inflight", "leaving", "reservation"}
    /\ ctl.active \in BOOLEAN /\ ctl.inflight \in BOOLEAN /\ ctl.leaving \in BOOLEAN
    /\ DOMAIN leaver = {"pc", "network", "transport"}
    /\ leaver.pc \in {"idle", "client", "drop"}
    /\ leaver.network \in 0 .. MaxSessions
    /\ leaver.transport \in 0 .. MaxSockets
    /\ state \in [Sessions -> States]
    /\ DOMAIN executor = Sessions

JoinTypes ==
    /\ DOMAIN join = Sessions
    /\ \A g \in Sessions :
          /\ DOMAIN join[g] = {"pc", "t", "tok", "fallbacks", "err"}
          /\ join[g].pc \in JoinPoints
          /\ join[g].t \in 0 .. MaxSockets

RunnerTypes ==
    /\ DOMAIN runner = Sessions
    /\ \A g \in Sessions :
          /\ DOMAIN runner[g] = {"pc", "t", "tok", "attempt", "err"}
          /\ runner[g].pc \in RunnerPoints
          /\ runner[g].t \in 0 .. MaxSockets

SocketFields == {"of", "kind", "st", "err", "wire", "srv", "tok", "ready", "snapshot", "found", "fetching",
                 "monitor"}

IsSocket(s) ==
    /\ DOMAIN s = SocketFields
    /\ s.of \in 0 .. MaxSessions
    /\ s.err \in {"none", "lost", "rate"}
    /\ s.wire \in Seq(Messages)
    /\ s.srv # "none" \/ s.st # "unused" \/ s.monitor # "none" => s.of \in Sessions

SocketTypes ==
    /\ DOMAIN socket = Sockets
    /\ \A t \in Sockets : IsSocket(socket[t])

(* The socket a goroutine works with is one of its session. *)
OwnSockets ==
    \A g \in Sessions :
        /\ join[g].pc \in {"wait", "commit", "sync"} =>
              join[g].t \in Sockets /\ socket[join[g].t].of = g /\ socket[join[g].t].kind = "join"
        /\ runner[g].pc \in {"dial", "wait", "install", "sync"} =>
              runner[g].t \in Sockets /\ socket[runner[g].t].of = g /\ socket[runner[g].t].kind = "reconnect"

Types == ClientTypes /\ ControlTypes /\ JoinTypes /\ RunnerTypes /\ SocketTypes /\ OwnSockets

LEMMA Bounds == MaxSessions \in Nat /\ MaxSockets \in Nat /\ Sessions \subseteq 1 .. MaxSessions
                /\ Sessions = (0 .. MaxSessions) \ {0} /\ Sockets = (0 .. MaxSockets) \ {0}
BY SessionClientAssumption DEF Sessions, Sockets

LEMMA TypesInit == ASSUME Init PROVE Types
<1> USE SessionClientAssumption, Bounds DEF Init
<1>1. ClientTypes BY DEF ClientTypes, IsClient
<1>2. ControlTypes BY DEF ControlTypes, States
<1>3. JoinTypes BY DEF JoinTypes, NoJoin, JoinPoints
<1>4. RunnerTypes BY DEF RunnerTypes, NoRunner, RunnerPoints
<1>5. SocketTypes
  <2>1. <<>> \in Seq(Messages)
    OBVIOUS
  <2>2. IsSocket(NoSocket)
    BY <2>1 DEF NoSocket, IsSocket, SocketFields
  <2> QED BY <2>2 DEF SocketTypes, NoSocket
<1>6. OwnSockets BY DEF OwnSockets, NoJoin, NoRunner
<1> QED BY <1>1, <1>2, <1>3, <1>4, <1>5, <1>6 DEF Types

(* startJoin, field by field. *)
LEMMA EnteredClient ==
    ASSUME NEW g \in Sessions, NEW d, IsClient(client),
           d = [client EXCEPT !.machine = g, !.joining = TRUE, !.token = 0, !.expired = FALSE,
                              !.lastErr = "none", !.rateLimited = FALSE, !.reconnecting = FALSE, !.context = g]
    PROVE  /\ IsClient(d) /\ d.machine = g /\ d.context = g /\ d.token = 0 /\ d.reconnecting = FALSE
           /\ d.lastErr = "none" /\ d.network = client.network /\ d.transport = client.transport
<1>1. DOMAIN client = {"machine", "joining", "transport", "network", "reconnecting", "context", "token",
                       "expired", "lastErr", "rateLimited"}
  BY DEF IsClient
<1>2. DOMAIN d = DOMAIN client
  OBVIOUS
<1>3. d.machine = g /\ d.context = g
  BY <1>1
<1>4. d.token = 0 /\ d.reconnecting = FALSE /\ d.rateLimited = FALSE /\ d.lastErr = "none"
  BY <1>1
<1>5. d.network = client.network /\ d.transport = client.transport
  BY <1>1

<1>6. IsClient(d)
  BY <1>1, <1>2, <1>3, <1>4, <1>5, Bounds DEF IsClient
<1> QED BY <1>3, <1>4, <1>5, <1>6

(* What connectionErrorLocked does to the client: the cause on display, and    *)
(* the flag of the rate limit.                                                 *)
SameButCause(c, d) ==
    /\ d.machine = c.machine /\ d.transport = c.transport /\ d.network = c.network
    /\ d.reconnecting = c.reconnecting /\ d.context = c.context /\ d.token = c.token

LEMMA ErrorRecorded ==
    ASSUME NEW c, NEW err, IsClient(c)
    PROVE  LET d == connectionErrorLocked(c, err) IN
           /\ IsClient(d) /\ SameButCause(c, d)
           /\ d.rateLimited = (err = "rate" \/ (c.rateLimited /\ err # "auth"))
           /\ d.lastErr = IF c.rateLimited /\ err \notin {"auth", "cancelled"} THEN "rate" ELSE err
<1>1. CASE err = "rate"
  BY <1>1 DEF connectionErrorLocked, IsClient, SameButCause
<1>2. CASE err = "auth"
  BY <1>2 DEF connectionErrorLocked, IsClient, SameButCause
<1>3. CASE err \notin {"rate", "auth", "cancelled"} /\ c.rateLimited
  BY <1>3 DEF connectionErrorLocked, IsClient, SameButCause
<1>4. CASE err \notin {"rate", "auth"} /\ ~(err \notin {"rate", "auth", "cancelled"} /\ c.rateLimited)
  BY <1>4 DEF connectionErrorLocked, IsClient, SameButCause
<1> QED BY <1>1, <1>2, <1>3, <1>4

(* A step of a session's state machine leaves the others alone. *)
Stepped(h, event) ==
    /\ Apply(h, event) \in [Sessions -> States]
    /\ \A g \in Sessions : Apply(h, event)[g] = "closed" <=> state[g] = "closed" \/ (g = h /\ event = "close")

LEMMA ApplyResult ==
    ASSUME Types, NEW h \in Sessions
    PROVE  \A event \in Events : Stepped(h, event)
<1> SUFFICES ASSUME NEW event \in Events PROVE Stepped(h, event)
  OBVIOUS
<1>1. state \in [Sessions -> States] /\ state[h] \in States
  BY DEF Types, ControlTypes
<1>2. PICK r \in States :
         r = Reduce(state[h], event) /\ (r = "closed" <=> state[h] = "closed" \/ event = "close")
  BY <1>1, ReduceResult
<1>3. Apply(h, event) = [state EXCEPT ![h] = r]
  BY <1>1, <1>2 DEF Apply
<1> QED BY <1>1, <1>2, <1>3 DEF Stepped

LEMMA EventNames ==
    /\ "connect" \in Events /\ "connected" \in Events /\ "connection_lost" \in Events
    /\ "synchronized" \in Events /\ "resolved" \in Events /\ "conflict" \in Events /\ "close" \in Events
BY DEF Events

LEMMA StartedRunner ==
    ASSUME RunnerTypes, NEW g, runner' = [runner EXCEPT ![g] = [NoRunner EXCEPT !.pc = "begin", !.attempt = 1]]
    PROVE  /\ RunnerTypes'
           /\ \A h \in Sessions : runner'[h] = runner[h] \/ (h = g /\ runner'[h].pc = "begin" /\ runner'[h].err = "none")
<1>1. DOMAIN [NoRunner EXCEPT !.pc = "begin", !.attempt = 1] = {"pc", "t", "tok", "attempt", "err"}
      /\ [NoRunner EXCEPT !.pc = "begin", !.attempt = 1].pc = "begin"
      /\ [NoRunner EXCEPT !.pc = "begin", !.attempt = 1].t = 0
      /\ [NoRunner EXCEPT !.pc = "begin", !.attempt = 1].err = "none"
  BY DEF NoRunner
<1> QED BY <1>1, Bounds DEF RunnerTypes, RunnerPoints

(* What happens to a socket: it is closed, what it found is taken, its read     *)
(* loop goes on.  Its session and its kind stay.                                *)
Kept(s, u) == IsSocket(u) /\ u.of = s.of /\ u.kind = s.kind

LEMMA CloseKept == ASSUME NEW s, IsSocket(s) PROVE Kept(s, Close(s))
<1>1. SubSeq(s.wire, 1, 1) \in Seq(Messages) \/ s.wire = <<>>
  BY DEF IsSocket
<1>2. CASE s.st # "open" BY <1>2 DEF Close, Kept
<1>3. CASE s.st = "open" /\ s.wire = <<>>
  BY <1>3 DEF Close, Kept, IsSocket, SocketFields
<1>4. CASE s.st = "open" /\ s.wire # <<>>
  BY <1>1, <1>4 DEF Close, Kept, IsSocket, SocketFields
<1> QED BY <1>2, <1>3, <1>4

LEMMA TakenKept == ASSUME NEW s, IsSocket(s) PROVE Kept(s, Taken(s))
BY DEF Taken, Kept, IsSocket, SocketFields

LEMMA FoundKept == ASSUME NEW s, NEW t, NEW err, IsSocket(s) PROVE Kept(s, Found(t, s, err))
BY DEF Found, Kept, IsSocket, SocketFields

LEMMA NoSocketIs == /\ IsSocket(NoSocket) /\ NoSocket.of = 0 /\ NoSocket.wire = <<>>
BY Bounds DEF NoSocket, IsSocket, SocketFields

LEMMA DialledIs ==
    ASSUME NEW g \in Sessions, NEW kind, NEW tok
    PROVE  /\ IsSocket(Dialled(g, kind, tok)) /\ IsSocket(Refused(g, kind))
           /\ Dialled(g, kind, tok).of = g /\ Dialled(g, kind, tok).kind = kind
           /\ Refused(g, kind).of = g /\ Refused(g, kind).kind = kind
BY Bounds DEF Dialled, Refused, NoSocket, IsSocket, SocketFields

(* What a monitor does about the end of its socket. *)
Watched(t) ==
    IF Current(socket[t].of, state) /\ client.transport = t /\ client.network = socket[t].of
    THEN "suspend" ELSE "done"

(* A session takes a socket. *)
Dials(u) ==
    /\ u.of \in Sessions
    /\ join[u.of].pc = "dial" \/ (runner[u.of].pc = "resume" /\ u.kind = "reconnect")

(* One socket changes. *)
LEMMA OneKept ==
    ASSUME SocketTypes, NEW t \in Sockets, NEW u, socket' = [socket EXCEPT ![t] = u],
           IsSocket(u), (socket[t].of = 0 /\ Dials(u)) \/ Kept(socket[t], u)
    PROVE  /\ SocketTypes'
           /\ \A v \in Sockets : (socket[v].of = 0 /\ Dials(socket'[v])) \/ Kept(socket[v], socket'[v])
BY DEF SocketTypes, Kept

LEMMA ClientTypesStep ==
    ASSUME Types, Next
    PROVE  ClientTypes'
<1>1. CASE Leave
  BY <1>1, Bounds DEF Leave, Types, ClientTypes, IsClient, Quiet
<1>2. CASE RetryReconnect
  <2>1. client' \in {[client EXCEPT !.token = 0, !.expired = FALSE], [client EXCEPT !.reconnecting = TRUE], client}
    BY <1>2 DEF RetryReconnect, startReconnect
  <2>2. CASE client' = [client EXCEPT !.token = 0, !.expired = FALSE]
    BY <2>2, Bounds DEF Types, ClientTypes, IsClient
  <2>3. CASE client' = [client EXCEPT !.reconnecting = TRUE]
    BY <2>3, Bounds DEF Types, ClientTypes, IsClient
  <2> QED BY <2>1, <2>2, <2>3, Bounds DEF Types, ClientTypes, IsClient
<1>3. CASE recordConflictResolution
  BY <1>3, Bounds DEF recordConflictResolution, Types, ClientTypes, IsClient, Quiet
<1>4. ASSUME NEW g \in Sessions, Reserve(g) PROVE ClientTypes'
  BY <1>4, Bounds DEF Reserve, Types, ClientTypes, IsClient, Quiet
<1>5. CASE LeaveClient
  BY <1>5, Bounds DEF LeaveClient, Types, ClientTypes, IsClient, LeaveLocked
<1>6. CASE LeaveDrop
  BY <1>6, Bounds DEF LeaveDrop, Types, ClientTypes, IsClient, Quiet
<1>7. CASE Expire
  BY <1>7, Bounds DEF Expire, Types, ClientTypes, IsClient, Quiet
<1>8. ASSUME NEW t \in Sockets, ServeRejection(t) PROVE ClientTypes'
  BY <1>8, Bounds DEF ServeRejection, Types, ClientTypes, IsClient, Quiet
<1>9. ASSUME NEW t \in Sockets, NEW e \in {"lost", "rate"}, Lose(t, e) PROVE ClientTypes'
  BY <1>9, Bounds DEF Lose, Types, ClientTypes, IsClient, Quiet
<1>10. ASSUME NEW g \in Sessions, EnterJoin(g) PROVE ClientTypes'
  <2>1. \/ client' = client
        \/ client' = [client EXCEPT !.machine = g, !.joining = TRUE, !.token = 0, !.expired = FALSE,
                                   !.lastErr = "none", !.rateLimited = FALSE, !.reconnecting = FALSE, !.context = g]
    BY <1>10 DEF EnterJoin
  <2> QED BY <2>1, EnteredClient DEF Types, ClientTypes
<1>11. ASSUME NEW g \in Sessions, JoinFetch(g) PROVE ClientTypes'
  BY <1>11, Bounds DEF JoinFetch, Types, ClientTypes, IsClient, Quiet
<1>12. ASSUME NEW g \in Sessions, JoinDial(g) PROVE ClientTypes'
  BY <1>12, Bounds DEF JoinDial, Types, ClientTypes, IsClient, Quiet
<1>13. ASSUME NEW g \in Sessions, JoinWait(g) PROVE ClientTypes'
  BY <1>13, Bounds DEF JoinWait, Types, ClientTypes, IsClient, Quiet
<1>14. ASSUME NEW g \in Sessions, JoinRefresh(g) PROVE ClientTypes'
  BY <1>14, Bounds DEF JoinRefresh, Types, ClientTypes, IsClient, Quiet
<1>15. ASSUME NEW g \in Sessions, JoinCommit(g) PROVE ClientTypes'
  BY <1>15, Bounds DEF JoinCommit, Types, ClientTypes, IsClient, JoinTypes
<1>16. ASSUME NEW g \in Sessions, JoinSync(g) PROVE ClientTypes'
  BY <1>16, Bounds DEF JoinSync, Types, ClientTypes, IsClient, Quiet
<1>17. ASSUME NEW g \in Sessions, JoinFailed(g) PROVE ClientTypes'
  <2>1. PICK c \in {client, connectionErrorLocked(client, join[g].err)} : client' = CleanedUp(c, g)
    BY <1>17 DEF JoinFailed
  <2>2. IsClient(c)
    BY <2>1, ErrorRecorded DEF Types, ClientTypes
  <2> QED BY <2>1, <2>2, Bounds DEF ClientTypes, CleanedUp, IsClient
<1>18. ASSUME NEW g \in Sessions, JoinActivate(g) PROVE ClientTypes'
  BY <1>18, Bounds DEF JoinActivate, Types, ClientTypes, IsClient, Quiet
<1>19. ASSUME NEW g \in Sessions, releaseReservation(g) PROVE ClientTypes'
  BY <1>19, Bounds DEF releaseReservation, Types, ClientTypes, IsClient, Quiet
<1>20. ASSUME NEW g \in Sessions, JoinLeave(g) PROVE ClientTypes'
  BY <1>20, Bounds DEF JoinLeave, Types, ClientTypes, IsClient, LeaveLocked
<1>21. ASSUME NEW g \in Sessions, AttemptBegin(g) PROVE ClientTypes'
  BY <1>21, Bounds DEF AttemptBegin, Types, ClientTypes, IsClient, Quiet
<1>22. ASSUME NEW g \in Sessions, AttemptResume(g) PROVE ClientTypes'
  BY <1>22, Bounds DEF AttemptResume, Types, ClientTypes, IsClient, Quiet
<1>23. ASSUME NEW g \in Sessions, AttemptDial(g) PROVE ClientTypes'
  BY <1>23, Bounds DEF AttemptDial, Types, ClientTypes, IsClient, Quiet
<1>24. ASSUME NEW g \in Sessions, AttemptWait(g) PROVE ClientTypes'
  BY <1>24, Bounds DEF AttemptWait, Types, ClientTypes, IsClient, Quiet
<1>25. ASSUME NEW g \in Sessions, AttemptSuspend(g) PROVE ClientTypes'
  BY <1>25, Bounds DEF AttemptSuspend, Types, ClientTypes, IsClient, SuspendCause, connectionErrorLocked
<1>26. ASSUME NEW g \in Sessions, AttemptRecord(g) PROVE ClientTypes'
  BY <1>26, Bounds
     DEF AttemptRecord, Types, ClientTypes, IsClient, recordConnectionFailure, connectionErrorLocked
<1>27. ASSUME NEW g \in Sessions, AttemptRetry(g) PROVE ClientTypes'
  BY <1>27, Bounds DEF AttemptRetry, Types, ClientTypes, IsClient, Quiet
<1>28. ASSUME NEW g \in Sessions, AttemptInstall(g) PROVE ClientTypes'
  BY <1>28, Bounds DEF AttemptInstall, Types, ClientTypes, IsClient, RunnerTypes
<1>29. ASSUME NEW g \in Sessions, AttemptSync(g) PROVE ClientTypes'
  BY <1>29, Bounds DEF AttemptSync, Types, ClientTypes, IsClient, Quiet
<1>30. ASSUME NEW g \in Sessions, ReconnectEnd(g) PROVE ClientTypes'
  <2> DEFINE c == [client EXCEPT !.reconnecting = FALSE,
                                 !.token = IF runner[g].err = "auth" THEN 0 ELSE @,
                                 !.expired = IF runner[g].err = "auth" THEN FALSE ELSE @]
  <2>1. IsClient(c)
    BY Bounds DEF Types, ClientTypes, IsClient
  <2>2. client' \in {client, c, connectionErrorLocked(c, runner[g].err)}
    BY <1>30 DEF ReconnectEnd
  <2> HIDE DEF c
  <2> QED BY <2>1, <2>2, ErrorRecorded DEF Types, ClientTypes
<1>31. ASSUME NEW t \in Sockets, MonitorWait(t) PROVE ClientTypes'
  BY <1>31, Bounds DEF MonitorWait, Types, ClientTypes, IsClient, Quiet
<1>32. ASSUME NEW t \in Sockets, MonitorSuspend(t) PROVE ClientTypes'
  BY <1>32, Bounds DEF MonitorSuspend, Types, ClientTypes, IsClient, SuspendCause, connectionErrorLocked
<1>33. ASSUME NEW t \in Sockets, MonitorRecord(t) PROVE ClientTypes'
  BY <1>33, Bounds
     DEF MonitorRecord, Types, ClientTypes, IsClient, recordConnectionFailure, connectionErrorLocked
<1>34. ASSUME NEW t \in Sockets, MonitorStart(t) PROVE ClientTypes'
  BY <1>34, Bounds DEF MonitorStart, Types, ClientTypes, IsClient, startReconnect
<1>35. ASSUME NEW t \in Sockets, Receive(t) PROVE ClientTypes'
  BY <1>35, Bounds DEF Receive, Types, ClientTypes, IsClient, recordJoined
<1>36. ASSUME NEW t \in Sockets, ReceiveFault(t) PROVE ClientTypes'
  BY <1>36, Bounds DEF ReceiveFault, Types, ClientTypes, IsClient, Quiet
<1>37. ASSUME NEW t \in Sockets, InstallSnapshot(t) PROVE ClientTypes'
  BY <1>37, Bounds DEF InstallSnapshot, Types, ClientTypes, IsClient, Quiet
<1>38. ASSUME NEW t \in Sockets, Finish(t) PROVE ClientTypes'
  BY <1>38, Bounds DEF Finish, Types, ClientTypes, IsClient, Quiet
<1>39. ASSUME NEW t \in Sockets, ServeJoin(t) PROVE ClientTypes'
  BY <1>39, Bounds DEF ServeJoin, Types, ClientTypes, IsClient, Quiet
<1>40. ASSUME NEW t \in Sockets, ServeReplay(t) PROVE ClientTypes'
  BY <1>40, Bounds DEF ServeReplay, Types, ClientTypes, IsClient, Quiet
<1> QED
  BY <1>1, <1>2, <1>3, <1>4, <1>5, <1>6, <1>7, <1>8, <1>9, <1>10, <1>11, <1>12, <1>13,
     <1>14, <1>15, <1>16, <1>17, <1>18, <1>19, <1>20, <1>21, <1>22, <1>23, <1>24, <1>25,
     <1>26, <1>27, <1>28, <1>29, <1>30, <1>31, <1>32, <1>33, <1>34, <1>35, <1>36, <1>37,
     <1>38, <1>39, <1>40
     DEF Next, User, JoinStep, LeaveStep, AttemptStep, MonitorStep, ReadStep, ServiceStep, Network


LEMMA ControlTypesStep ==
    ASSUME Types, Next
    PROVE  ControlTypes'
<1>1. CASE Leave
  BY <1>1, Bounds
     DEF Leave, Types, Quiet, ControlTypes, ClientTypes, IsClient, CloseSocket, Dropped, Suspended
<1>2. CASE RetryReconnect
  BY <1>2, Bounds
     DEF RetryReconnect, Types, Quiet, ControlTypes, ClientTypes, IsClient, CloseSocket, Dropped, Suspended
<1>3. CASE recordConflictResolution
  <2>a. client.network \in Sessions
    BY <1>3, Bounds
       DEF recordConflictResolution, Types, SocketTypes, IsSocket, ClientTypes, IsClient, Reading
  <2>1. state' \in [Sessions -> States]
    BY <1>3, <2>a, ApplyResult, EventNames DEF recordConflictResolution, Stepped, Types, ControlTypes
  <2> QED BY <1>3, <2>1, Bounds
     DEF recordConflictResolution, Types, ControlTypes, ClientTypes, IsClient, CloseSocket, Dropped,
         Suspended
<1>4. ASSUME NEW g \in Sessions, Reserve(g) PROVE ControlTypes'
  BY <1>4, Bounds
     DEF Reserve, Types, Quiet, ControlTypes, ClientTypes, IsClient, CloseSocket, Dropped, Suspended
<1>5. CASE LeaveClient
  <2>0. client.machine = 0 \/ client.machine \in Sessions
    BY Bounds DEF Types, ClientTypes, IsClient
  <2>1. state' \in [Sessions -> States]
    <3>1. CASE client.machine = 0
      BY <1>5, <3>1 DEF LeaveClient, LeaveLocked, Types, ControlTypes
    <3>2. CASE client.machine # 0
      BY <1>5, <2>0, <3>2, ApplyResult, EventNames DEF LeaveClient, LeaveLocked, Stepped
    <3> QED BY <3>1, <3>2
  <2> QED BY <1>5, <2>1, Bounds
     DEF LeaveClient, Types, ControlTypes, LeaveLocked, ClientTypes, IsClient, Dropped
<1>6. CASE LeaveDrop
  BY <1>6, Bounds
     DEF LeaveDrop, Types, Quiet, ControlTypes, ClientTypes, IsClient, CloseSocket, Dropped, Suspended
<1>7. CASE Expire
  BY <1>7, Bounds
     DEF Expire, Types, Quiet, ControlTypes, ClientTypes, IsClient, CloseSocket, Dropped, Suspended
<1>8. ASSUME NEW t \in Sockets, ServeRejection(t) PROVE ControlTypes'
  BY <1>8, Bounds
     DEF ServeRejection, Types, Quiet, ControlTypes, ClientTypes, IsClient, CloseSocket, Dropped, Suspended
<1>9. ASSUME NEW t \in Sockets, NEW e \in {"lost", "rate"}, Lose(t, e) PROVE ControlTypes'
  BY <1>9, Bounds
     DEF Lose, Types, Quiet, ControlTypes, ClientTypes, IsClient, CloseSocket, Dropped, Suspended
<1>10. ASSUME NEW g \in Sessions, EnterJoin(g) PROVE ControlTypes'
  <2>a. g \in Sessions
    BY <1>10, Bounds DEF EnterJoin, Types, SocketTypes, IsSocket, ClientTypes, IsClient, Reading
  <2>1. state' \in [Sessions -> States]
    BY <1>10, <2>a, ApplyResult, EventNames DEF EnterJoin, Stepped, Types, ControlTypes
  <2> QED BY <1>10, <2>1, Bounds
     DEF EnterJoin, Types, ControlTypes, ClientTypes, IsClient, CloseSocket, Dropped, Suspended
<1>11. ASSUME NEW g \in Sessions, JoinFetch(g) PROVE ControlTypes'
  BY <1>11, Bounds
     DEF JoinFetch, Types, Quiet, ControlTypes, ClientTypes, IsClient, CloseSocket, Dropped, Suspended
<1>12. ASSUME NEW g \in Sessions, JoinDial(g) PROVE ControlTypes'
  BY <1>12, Bounds
     DEF JoinDial, Types, Quiet, ControlTypes, ClientTypes, IsClient, CloseSocket, Dropped, Suspended
<1>13. ASSUME NEW g \in Sessions, JoinWait(g) PROVE ControlTypes'
  BY <1>13, Bounds
     DEF JoinWait, Types, Quiet, ControlTypes, ClientTypes, IsClient, CloseSocket, Dropped, Suspended
<1>14. ASSUME NEW g \in Sessions, JoinRefresh(g) PROVE ControlTypes'
  BY <1>14, Bounds
     DEF JoinRefresh, Types, Quiet, ControlTypes, ClientTypes, IsClient, CloseSocket, Dropped, Suspended
<1>15. ASSUME NEW g \in Sessions, JoinCommit(g) PROVE ControlTypes'
  BY <1>15, Bounds
     DEF JoinCommit, Types, Quiet, ControlTypes, ClientTypes, IsClient, CloseSocket, Dropped, Suspended
<1>16. ASSUME NEW g \in Sessions, JoinSync(g) PROVE ControlTypes'
  <2>1. state' \in [Sessions -> States]
    <3>1. CASE state[g] = "connecting"
      BY <1>16, <3>1 DEF JoinSync, recordSynchronized, Types, ControlTypes, States
    <3>2. CASE state[g] # "connecting"
      BY <1>16, <3>2, ApplyResult, EventNames DEF JoinSync, recordSynchronized, Stepped
    <3> QED BY <3>1, <3>2
  <2> QED BY <1>16, <2>1, Bounds DEF JoinSync, Types, ControlTypes, recordSynchronized
<1>17. ASSUME NEW g \in Sessions, JoinFailed(g) PROVE ControlTypes'
  <2>a. g \in Sessions
    BY <1>17, Bounds DEF JoinFailed, Types, SocketTypes, IsSocket, ClientTypes, IsClient, Reading
  <2>1. state' \in [Sessions -> States]
    BY <1>17, <2>a, ApplyResult, EventNames DEF JoinFailed, Stepped, Types, ControlTypes
  <2> QED BY <1>17, <2>1, Bounds
     DEF JoinFailed, Types, ControlTypes, ClientTypes, IsClient, CloseSocket, Dropped, Suspended
<1>18. ASSUME NEW g \in Sessions, JoinActivate(g) PROVE ControlTypes'
  BY <1>18, Bounds
     DEF JoinActivate, Types, Quiet, ControlTypes, ClientTypes, IsClient, CloseSocket, Dropped, Suspended
<1>19. ASSUME NEW g \in Sessions, releaseReservation(g) PROVE ControlTypes'
  BY <1>19, Bounds
     DEF releaseReservation, Types, Quiet, ControlTypes, ClientTypes, IsClient, CloseSocket, Dropped,
         Suspended
<1>20. ASSUME NEW g \in Sessions, JoinLeave(g) PROVE ControlTypes'
  <2>0. client.machine = 0 \/ client.machine \in Sessions
    BY Bounds DEF Types, ClientTypes, IsClient
  <2>1. state' \in [Sessions -> States]
    <3>1. CASE client.machine = 0
      BY <1>20, <3>1 DEF JoinLeave, LeaveLocked, Types, ControlTypes
    <3>2. CASE client.machine # 0
      BY <1>20, <2>0, <3>2, ApplyResult, EventNames DEF JoinLeave, LeaveLocked, Stepped
    <3> QED BY <3>1, <3>2
  <2> QED BY <1>20, <2>1, Bounds
     DEF JoinLeave, Types, ControlTypes, LeaveLocked, ClientTypes, IsClient, Dropped
<1>21. ASSUME NEW g \in Sessions, AttemptBegin(g) PROVE ControlTypes'
  BY <1>21, Bounds
     DEF AttemptBegin, Types, Quiet, ControlTypes, ClientTypes, IsClient, CloseSocket, Dropped, Suspended
<1>22. ASSUME NEW g \in Sessions, AttemptResume(g) PROVE ControlTypes'
  BY <1>22, Bounds
     DEF AttemptResume, Types, Quiet, ControlTypes, ClientTypes, IsClient, CloseSocket, Dropped, Suspended
<1>23. ASSUME NEW g \in Sessions, AttemptDial(g) PROVE ControlTypes'
  BY <1>23, Bounds
     DEF AttemptDial, Types, Quiet, ControlTypes, ClientTypes, IsClient, CloseSocket, Dropped, Suspended
<1>24. ASSUME NEW g \in Sessions, AttemptWait(g) PROVE ControlTypes'
  BY <1>24, Bounds
     DEF AttemptWait, Types, Quiet, ControlTypes, ClientTypes, IsClient, CloseSocket, Dropped, Suspended
<1>25. ASSUME NEW g \in Sessions, AttemptSuspend(g) PROVE ControlTypes'
  BY <1>25, Bounds
     DEF AttemptSuspend, Types, Quiet, ControlTypes, ClientTypes, IsClient, CloseSocket, Dropped, Suspended
<1>26. ASSUME NEW g \in Sessions, AttemptRecord(g) PROVE ControlTypes'
  <2>a. g \in Sessions
    BY <1>26, Bounds DEF AttemptRecord, Types, SocketTypes, IsSocket, ClientTypes, IsClient, Reading
  <2>1. state' \in [Sessions -> States]
    BY <1>26, <2>a, ApplyResult, EventNames
       DEF AttemptRecord, Stepped, Types, ControlTypes, recordConnectionFailure
  <2> QED BY <1>26, <2>1, Bounds
     DEF AttemptRecord, Types, ControlTypes, ClientTypes, IsClient, CloseSocket, Dropped, Suspended,
         recordConnectionFailure
<1>27. ASSUME NEW g \in Sessions, AttemptRetry(g) PROVE ControlTypes'
  BY <1>27, Bounds
     DEF AttemptRetry, Types, Quiet, ControlTypes, ClientTypes, IsClient, CloseSocket, Dropped, Suspended
<1>28. ASSUME NEW g \in Sessions, AttemptInstall(g) PROVE ControlTypes'
  BY <1>28, Bounds
     DEF AttemptInstall, Types, Quiet, ControlTypes, ClientTypes, IsClient, CloseSocket, Dropped, Suspended
<1>29. ASSUME NEW g \in Sessions, AttemptSync(g) PROVE ControlTypes'
  <2>1. state' \in [Sessions -> States]
    <3>1. CASE state[g] = "connecting"
      BY <1>29, <3>1 DEF AttemptSync, recordSynchronized, Types, ControlTypes, States
    <3>2. CASE state[g] # "connecting"
      BY <1>29, <3>2, ApplyResult, EventNames DEF AttemptSync, recordSynchronized, Stepped
    <3> QED BY <3>1, <3>2
  <2> QED BY <1>29, <2>1, Bounds DEF AttemptSync, Types, ControlTypes, recordSynchronized
<1>30. ASSUME NEW g \in Sessions, ReconnectEnd(g) PROVE ControlTypes'
  BY <1>30, Bounds
     DEF ReconnectEnd, Types, Quiet, ControlTypes, ClientTypes, IsClient, CloseSocket, Dropped, Suspended
<1>31. ASSUME NEW t \in Sockets, MonitorWait(t) PROVE ControlTypes'
  BY <1>31, Bounds
     DEF MonitorWait, Types, Quiet, ControlTypes, ClientTypes, IsClient, CloseSocket, Dropped, Suspended
<1>32. ASSUME NEW t \in Sockets, MonitorSuspend(t) PROVE ControlTypes'
  BY <1>32, Bounds
     DEF MonitorSuspend, Types, Quiet, ControlTypes, ClientTypes, IsClient, CloseSocket, Dropped, Suspended
<1>33. ASSUME NEW t \in Sockets, MonitorRecord(t) PROVE ControlTypes'
  <2>a. socket[t].of \in Sessions
    BY <1>33, Bounds DEF MonitorRecord, Types, SocketTypes, IsSocket, ClientTypes, IsClient, Reading
  <2>1. state' \in [Sessions -> States]
    BY <1>33, <2>a, ApplyResult, EventNames
       DEF MonitorRecord, Stepped, Types, ControlTypes, recordConnectionFailure
  <2> QED BY <1>33, <2>1, Bounds
     DEF MonitorRecord, Types, ControlTypes, ClientTypes, IsClient, CloseSocket, Dropped, Suspended,
         recordConnectionFailure
<1>34. ASSUME NEW t \in Sockets, MonitorStart(t) PROVE ControlTypes'
  BY <1>34, Bounds
     DEF MonitorStart, Types, Quiet, ControlTypes, ClientTypes, IsClient, CloseSocket, Dropped, Suspended
<1>35. ASSUME NEW t \in Sockets, Receive(t) PROVE ControlTypes'
  <2>a. socket[t].of \in Sessions
    BY <1>35, Bounds DEF Receive, Types, SocketTypes, IsSocket, ClientTypes, IsClient, Reading
  <2>1. state' \in [Sessions -> States]
    BY <1>35, <2>a, ApplyResult, EventNames DEF Receive, Stepped, Types, ControlTypes, recordJoined
  <2> QED BY <1>35, <2>1, Bounds
     DEF Receive, Types, ControlTypes, ClientTypes, IsClient, CloseSocket, Dropped, Suspended, recordJoined
<1>36. ASSUME NEW t \in Sockets, ReceiveFault(t) PROVE ControlTypes'
  BY <1>36, Bounds
     DEF ReceiveFault, Types, Quiet, ControlTypes, ClientTypes, IsClient, CloseSocket, Dropped, Suspended
<1>37. ASSUME NEW t \in Sockets, InstallSnapshot(t) PROVE ControlTypes'
  BY <1>37, Bounds
     DEF InstallSnapshot, Types, Quiet, ControlTypes, ClientTypes, IsClient, CloseSocket, Dropped, Suspended
<1>38. ASSUME NEW t \in Sockets, Finish(t) PROVE ControlTypes'
  BY <1>38, Bounds
     DEF Finish, Types, Quiet, ControlTypes, ClientTypes, IsClient, CloseSocket, Dropped, Suspended
<1>39. ASSUME NEW t \in Sockets, ServeJoin(t) PROVE ControlTypes'
  BY <1>39, Bounds
     DEF ServeJoin, Types, Quiet, ControlTypes, ClientTypes, IsClient, CloseSocket, Dropped, Suspended
<1>40. ASSUME NEW t \in Sockets, ServeReplay(t) PROVE ControlTypes'
  BY <1>40, Bounds
     DEF ServeReplay, Types, Quiet, ControlTypes, ClientTypes, IsClient, CloseSocket, Dropped, Suspended
<1> QED
  BY <1>1, <1>2, <1>3, <1>4, <1>5, <1>6, <1>7, <1>8, <1>9, <1>10, <1>11, <1>12, <1>13,
     <1>14, <1>15, <1>16, <1>17, <1>18, <1>19, <1>20, <1>21, <1>22, <1>23, <1>24, <1>25,
     <1>26, <1>27, <1>28, <1>29, <1>30, <1>31, <1>32, <1>33, <1>34, <1>35, <1>36, <1>37,
     <1>38, <1>39, <1>40
     DEF Next, User, JoinStep, LeaveStep, AttemptStep, MonitorStep, ReadStep, ServiceStep, Network


LEMMA JoinTypesStep ==
    ASSUME Types, Next
    PROVE  JoinTypes'
<1>1. CASE Leave
  BY <1>1, Bounds DEF Leave, Types, Quiet, JoinTypes, JoinPoints, Joining, JoinFails, NoJoin
<1>2. CASE RetryReconnect
  BY <1>2, Bounds DEF RetryReconnect, Types, Quiet, JoinTypes, JoinPoints, Joining, JoinFails, NoJoin
<1>3. CASE recordConflictResolution
  BY <1>3, Bounds
     DEF recordConflictResolution, Types, Quiet, JoinTypes, JoinPoints, Joining, JoinFails, NoJoin
<1>4. ASSUME NEW g \in Sessions, Reserve(g) PROVE JoinTypes'
  BY <1>4, Bounds DEF Reserve, Types, Quiet, JoinTypes, JoinPoints, Joining, JoinFails, NoJoin
<1>5. CASE LeaveClient
  BY <1>5, Bounds DEF LeaveClient, Types, Quiet, JoinTypes, JoinPoints, Joining, JoinFails, NoJoin
<1>6. CASE LeaveDrop
  BY <1>6, Bounds DEF LeaveDrop, Types, Quiet, JoinTypes, JoinPoints, Joining, JoinFails, NoJoin
<1>7. CASE Expire
  BY <1>7, Bounds DEF Expire, Types, Quiet, JoinTypes, JoinPoints, Joining, JoinFails, NoJoin
<1>8. ASSUME NEW t \in Sockets, ServeRejection(t) PROVE JoinTypes'
  BY <1>8, Bounds DEF ServeRejection, Types, Quiet, JoinTypes, JoinPoints, Joining, JoinFails, NoJoin
<1>9. ASSUME NEW t \in Sockets, NEW e \in {"lost", "rate"}, Lose(t, e) PROVE JoinTypes'
  BY <1>9, Bounds DEF Lose, Types, Quiet, JoinTypes, JoinPoints, Joining, JoinFails, NoJoin
<1>10. ASSUME NEW g \in Sessions, EnterJoin(g) PROVE JoinTypes'
  BY <1>10, Bounds DEF EnterJoin, Types, Quiet, JoinTypes, JoinPoints, Joining, JoinFails, NoJoin
<1>11. ASSUME NEW g \in Sessions, JoinFetch(g) PROVE JoinTypes'
  BY <1>11, Bounds DEF JoinFetch, Types, Quiet, JoinTypes, JoinPoints, Joining, JoinFails, NoJoin
<1>12. ASSUME NEW g \in Sessions, JoinDial(g) PROVE JoinTypes'
  BY <1>12, Bounds DEF JoinDial, Types, Quiet, JoinTypes, JoinPoints, Joining, JoinFails, NoJoin
<1>13. ASSUME NEW g \in Sessions, JoinWait(g) PROVE JoinTypes'
  BY <1>13, Bounds DEF JoinWait, Types, Quiet, JoinTypes, JoinPoints, Joining, JoinFails, NoJoin
<1>14. ASSUME NEW g \in Sessions, JoinRefresh(g) PROVE JoinTypes'
  BY <1>14, Bounds DEF JoinRefresh, Types, Quiet, JoinTypes, JoinPoints, Joining, JoinFails, NoJoin
<1>15. ASSUME NEW g \in Sessions, JoinCommit(g) PROVE JoinTypes'
  BY <1>15, Bounds DEF JoinCommit, Types, Quiet, JoinTypes, JoinPoints, Joining, JoinFails, NoJoin
<1>16. ASSUME NEW g \in Sessions, JoinSync(g) PROVE JoinTypes'
  BY <1>16, Bounds DEF JoinSync, Types, Quiet, JoinTypes, JoinPoints, Joining, JoinFails, NoJoin
<1>17. ASSUME NEW g \in Sessions, JoinFailed(g) PROVE JoinTypes'
  BY <1>17, Bounds DEF JoinFailed, Types, Quiet, JoinTypes, JoinPoints, Joining, JoinFails, NoJoin
<1>18. ASSUME NEW g \in Sessions, JoinActivate(g) PROVE JoinTypes'
  BY <1>18, Bounds DEF JoinActivate, Types, Quiet, JoinTypes, JoinPoints, Joining, JoinFails, NoJoin
<1>19. ASSUME NEW g \in Sessions, releaseReservation(g) PROVE JoinTypes'
  BY <1>19, Bounds DEF releaseReservation, Types, Quiet, JoinTypes, JoinPoints, Joining, JoinFails, NoJoin
<1>20. ASSUME NEW g \in Sessions, JoinLeave(g) PROVE JoinTypes'
  BY <1>20, Bounds DEF JoinLeave, Types, Quiet, JoinTypes, JoinPoints, Joining, JoinFails, NoJoin
<1>21. ASSUME NEW g \in Sessions, AttemptBegin(g) PROVE JoinTypes'
  BY <1>21, Bounds DEF AttemptBegin, Types, Quiet, JoinTypes, JoinPoints, Joining, JoinFails, NoJoin
<1>22. ASSUME NEW g \in Sessions, AttemptResume(g) PROVE JoinTypes'
  BY <1>22, Bounds DEF AttemptResume, Types, Quiet, JoinTypes, JoinPoints, Joining, JoinFails, NoJoin
<1>23. ASSUME NEW g \in Sessions, AttemptDial(g) PROVE JoinTypes'
  BY <1>23, Bounds DEF AttemptDial, Types, Quiet, JoinTypes, JoinPoints, Joining, JoinFails, NoJoin
<1>24. ASSUME NEW g \in Sessions, AttemptWait(g) PROVE JoinTypes'
  BY <1>24, Bounds DEF AttemptWait, Types, Quiet, JoinTypes, JoinPoints, Joining, JoinFails, NoJoin
<1>25. ASSUME NEW g \in Sessions, AttemptSuspend(g) PROVE JoinTypes'
  BY <1>25, Bounds DEF AttemptSuspend, Types, Quiet, JoinTypes, JoinPoints, Joining, JoinFails, NoJoin
<1>26. ASSUME NEW g \in Sessions, AttemptRecord(g) PROVE JoinTypes'
  BY <1>26, Bounds DEF AttemptRecord, Types, Quiet, JoinTypes, JoinPoints, Joining, JoinFails, NoJoin
<1>27. ASSUME NEW g \in Sessions, AttemptRetry(g) PROVE JoinTypes'
  BY <1>27, Bounds DEF AttemptRetry, Types, Quiet, JoinTypes, JoinPoints, Joining, JoinFails, NoJoin
<1>28. ASSUME NEW g \in Sessions, AttemptInstall(g) PROVE JoinTypes'
  BY <1>28, Bounds DEF AttemptInstall, Types, Quiet, JoinTypes, JoinPoints, Joining, JoinFails, NoJoin
<1>29. ASSUME NEW g \in Sessions, AttemptSync(g) PROVE JoinTypes'
  BY <1>29, Bounds DEF AttemptSync, Types, Quiet, JoinTypes, JoinPoints, Joining, JoinFails, NoJoin
<1>30. ASSUME NEW g \in Sessions, ReconnectEnd(g) PROVE JoinTypes'
  BY <1>30, Bounds DEF ReconnectEnd, Types, Quiet, JoinTypes, JoinPoints, Joining, JoinFails, NoJoin
<1>31. ASSUME NEW t \in Sockets, MonitorWait(t) PROVE JoinTypes'
  BY <1>31, Bounds DEF MonitorWait, Types, Quiet, JoinTypes, JoinPoints, Joining, JoinFails, NoJoin
<1>32. ASSUME NEW t \in Sockets, MonitorSuspend(t) PROVE JoinTypes'
  BY <1>32, Bounds DEF MonitorSuspend, Types, Quiet, JoinTypes, JoinPoints, Joining, JoinFails, NoJoin
<1>33. ASSUME NEW t \in Sockets, MonitorRecord(t) PROVE JoinTypes'
  BY <1>33, Bounds DEF MonitorRecord, Types, Quiet, JoinTypes, JoinPoints, Joining, JoinFails, NoJoin
<1>34. ASSUME NEW t \in Sockets, MonitorStart(t) PROVE JoinTypes'
  BY <1>34, Bounds DEF MonitorStart, Types, Quiet, JoinTypes, JoinPoints, Joining, JoinFails, NoJoin
<1>35. ASSUME NEW t \in Sockets, Receive(t) PROVE JoinTypes'
  BY <1>35, Bounds DEF Receive, Types, Quiet, JoinTypes, JoinPoints, Joining, JoinFails, NoJoin
<1>36. ASSUME NEW t \in Sockets, ReceiveFault(t) PROVE JoinTypes'
  BY <1>36, Bounds DEF ReceiveFault, Types, Quiet, JoinTypes, JoinPoints, Joining, JoinFails, NoJoin
<1>37. ASSUME NEW t \in Sockets, InstallSnapshot(t) PROVE JoinTypes'
  BY <1>37, Bounds DEF InstallSnapshot, Types, Quiet, JoinTypes, JoinPoints, Joining, JoinFails, NoJoin
<1>38. ASSUME NEW t \in Sockets, Finish(t) PROVE JoinTypes'
  BY <1>38, Bounds DEF Finish, Types, Quiet, JoinTypes, JoinPoints, Joining, JoinFails, NoJoin
<1>39. ASSUME NEW t \in Sockets, ServeJoin(t) PROVE JoinTypes'
  BY <1>39, Bounds DEF ServeJoin, Types, Quiet, JoinTypes, JoinPoints, Joining, JoinFails, NoJoin
<1>40. ASSUME NEW t \in Sockets, ServeReplay(t) PROVE JoinTypes'
  BY <1>40, Bounds DEF ServeReplay, Types, Quiet, JoinTypes, JoinPoints, Joining, JoinFails, NoJoin
<1> QED
  BY <1>1, <1>2, <1>3, <1>4, <1>5, <1>6, <1>7, <1>8, <1>9, <1>10, <1>11, <1>12, <1>13,
     <1>14, <1>15, <1>16, <1>17, <1>18, <1>19, <1>20, <1>21, <1>22, <1>23, <1>24, <1>25,
     <1>26, <1>27, <1>28, <1>29, <1>30, <1>31, <1>32, <1>33, <1>34, <1>35, <1>36, <1>37,
     <1>38, <1>39, <1>40
     DEF Next, User, JoinStep, LeaveStep, AttemptStep, MonitorStep, ReadStep, ServiceStep, Network


LEMMA RunnerTypesStep ==
    ASSUME Types, Next
    PROVE  RunnerTypes'
<1>1. CASE Leave
  BY <1>1, Bounds
     DEF Leave, Types, Quiet, RunnerTypes, RunnerPoints, Running, AttemptFails, NoRunner, startReconnect
<1>2. CASE RetryReconnect
  <2>1. client.machine \in Sessions
    BY <1>2, Bounds DEF RetryReconnect, Types, ClientTypes, IsClient
  <2>2. \/ runner' = runner
        \/ runner' = [runner EXCEPT ![client.machine] = [NoRunner EXCEPT !.pc = "begin", !.attempt = 1]]
    BY <1>2 DEF RetryReconnect, startReconnect
  <2> QED BY <2>1, <2>2, StartedRunner DEF Types, RunnerTypes
<1>3. CASE recordConflictResolution
  BY <1>3, Bounds
     DEF recordConflictResolution, Types, Quiet, RunnerTypes, RunnerPoints, Running, AttemptFails,
         NoRunner, startReconnect
<1>4. ASSUME NEW g \in Sessions, Reserve(g) PROVE RunnerTypes'
  BY <1>4, Bounds
     DEF Reserve, Types, Quiet, RunnerTypes, RunnerPoints, Running, AttemptFails, NoRunner, startReconnect
<1>5. CASE LeaveClient
  BY <1>5, Bounds
     DEF LeaveClient, Types, Quiet, RunnerTypes, RunnerPoints, Running, AttemptFails, NoRunner,
         startReconnect
<1>6. CASE LeaveDrop
  BY <1>6, Bounds
     DEF LeaveDrop, Types, Quiet, RunnerTypes, RunnerPoints, Running, AttemptFails, NoRunner, startReconnect
<1>7. CASE Expire
  BY <1>7, Bounds
     DEF Expire, Types, Quiet, RunnerTypes, RunnerPoints, Running, AttemptFails, NoRunner, startReconnect
<1>8. ASSUME NEW t \in Sockets, ServeRejection(t) PROVE RunnerTypes'
  BY <1>8, Bounds
     DEF ServeRejection, Types, Quiet, RunnerTypes, RunnerPoints, Running, AttemptFails, NoRunner,
         startReconnect
<1>9. ASSUME NEW t \in Sockets, NEW e \in {"lost", "rate"}, Lose(t, e) PROVE RunnerTypes'
  BY <1>9, Bounds
     DEF Lose, Types, Quiet, RunnerTypes, RunnerPoints, Running, AttemptFails, NoRunner, startReconnect
<1>10. ASSUME NEW g \in Sessions, EnterJoin(g) PROVE RunnerTypes'
  BY <1>10, Bounds
     DEF EnterJoin, Types, Quiet, RunnerTypes, RunnerPoints, Running, AttemptFails, NoRunner, startReconnect
<1>11. ASSUME NEW g \in Sessions, JoinFetch(g) PROVE RunnerTypes'
  BY <1>11, Bounds
     DEF JoinFetch, Types, Quiet, RunnerTypes, RunnerPoints, Running, AttemptFails, NoRunner, startReconnect
<1>12. ASSUME NEW g \in Sessions, JoinDial(g) PROVE RunnerTypes'
  BY <1>12, Bounds
     DEF JoinDial, Types, Quiet, RunnerTypes, RunnerPoints, Running, AttemptFails, NoRunner, startReconnect
<1>13. ASSUME NEW g \in Sessions, JoinWait(g) PROVE RunnerTypes'
  BY <1>13, Bounds
     DEF JoinWait, Types, Quiet, RunnerTypes, RunnerPoints, Running, AttemptFails, NoRunner, startReconnect
<1>14. ASSUME NEW g \in Sessions, JoinRefresh(g) PROVE RunnerTypes'
  BY <1>14, Bounds
     DEF JoinRefresh, Types, Quiet, RunnerTypes, RunnerPoints, Running, AttemptFails, NoRunner,
         startReconnect
<1>15. ASSUME NEW g \in Sessions, JoinCommit(g) PROVE RunnerTypes'
  BY <1>15, Bounds
     DEF JoinCommit, Types, Quiet, RunnerTypes, RunnerPoints, Running, AttemptFails, NoRunner,
         startReconnect
<1>16. ASSUME NEW g \in Sessions, JoinSync(g) PROVE RunnerTypes'
  BY <1>16, Bounds
     DEF JoinSync, Types, Quiet, RunnerTypes, RunnerPoints, Running, AttemptFails, NoRunner, startReconnect
<1>17. ASSUME NEW g \in Sessions, JoinFailed(g) PROVE RunnerTypes'
  BY <1>17, Bounds
     DEF JoinFailed, Types, Quiet, RunnerTypes, RunnerPoints, Running, AttemptFails, NoRunner,
         startReconnect
<1>18. ASSUME NEW g \in Sessions, JoinActivate(g) PROVE RunnerTypes'
  BY <1>18, Bounds
     DEF JoinActivate, Types, Quiet, RunnerTypes, RunnerPoints, Running, AttemptFails, NoRunner,
         startReconnect
<1>19. ASSUME NEW g \in Sessions, releaseReservation(g) PROVE RunnerTypes'
  BY <1>19, Bounds
     DEF releaseReservation, Types, Quiet, RunnerTypes, RunnerPoints, Running, AttemptFails, NoRunner,
         startReconnect
<1>20. ASSUME NEW g \in Sessions, JoinLeave(g) PROVE RunnerTypes'
  BY <1>20, Bounds
     DEF JoinLeave, Types, Quiet, RunnerTypes, RunnerPoints, Running, AttemptFails, NoRunner, startReconnect
<1>21. ASSUME NEW g \in Sessions, AttemptBegin(g) PROVE RunnerTypes'
  BY <1>21, Bounds
     DEF AttemptBegin, Types, Quiet, RunnerTypes, RunnerPoints, Running, AttemptFails, NoRunner,
         startReconnect
<1>22. ASSUME NEW g \in Sessions, AttemptResume(g) PROVE RunnerTypes'
  <2>1. CASE executor[g] # Paused
    BY <1>22, <2>1 DEF AttemptResume, Types, RunnerTypes, RunnerPoints, AttemptFails
  <2>2. CASE executor[g] = Paused
    <3>1. PICK t \in Sockets : runner' = [runner EXCEPT ![g].pc = "dial", ![g].t = t, ![g].tok = 0]
      BY <1>22, <2>2 DEF AttemptResume
    <3> QED BY <3>1, Bounds DEF Types, RunnerTypes, RunnerPoints
  <2> QED BY <2>1, <2>2
<1>23. ASSUME NEW g \in Sessions, AttemptDial(g) PROVE RunnerTypes'
  BY <1>23, Bounds
     DEF AttemptDial, Types, Quiet, RunnerTypes, RunnerPoints, Running, AttemptFails, NoRunner,
         startReconnect
<1>24. ASSUME NEW g \in Sessions, AttemptWait(g) PROVE RunnerTypes'
  BY <1>24, Bounds
     DEF AttemptWait, Types, Quiet, RunnerTypes, RunnerPoints, Running, AttemptFails, NoRunner,
         startReconnect
<1>25. ASSUME NEW g \in Sessions, AttemptSuspend(g) PROVE RunnerTypes'
  BY <1>25, Bounds
     DEF AttemptSuspend, Types, Quiet, RunnerTypes, RunnerPoints, Running, AttemptFails, NoRunner,
         startReconnect
<1>26. ASSUME NEW g \in Sessions, AttemptRecord(g) PROVE RunnerTypes'
  BY <1>26, Bounds
     DEF AttemptRecord, Types, Quiet, RunnerTypes, RunnerPoints, Running, AttemptFails, NoRunner,
         startReconnect
<1>27. ASSUME NEW g \in Sessions, AttemptRetry(g) PROVE RunnerTypes'
  BY <1>27, Bounds
     DEF AttemptRetry, Types, Quiet, RunnerTypes, RunnerPoints, Running, AttemptFails, NoRunner,
         startReconnect
<1>28. ASSUME NEW g \in Sessions, AttemptInstall(g) PROVE RunnerTypes'
  BY <1>28, Bounds
     DEF AttemptInstall, Types, Quiet, RunnerTypes, RunnerPoints, Running, AttemptFails, NoRunner,
         startReconnect
<1>29. ASSUME NEW g \in Sessions, AttemptSync(g) PROVE RunnerTypes'
  BY <1>29, Bounds
     DEF AttemptSync, Types, Quiet, RunnerTypes, RunnerPoints, Running, AttemptFails, NoRunner,
         startReconnect
<1>30. ASSUME NEW g \in Sessions, ReconnectEnd(g) PROVE RunnerTypes'
  BY <1>30, Bounds
     DEF ReconnectEnd, Types, Quiet, RunnerTypes, RunnerPoints, Running, AttemptFails, NoRunner,
         startReconnect
<1>31. ASSUME NEW t \in Sockets, MonitorWait(t) PROVE RunnerTypes'
  BY <1>31, Bounds
     DEF MonitorWait, Types, Quiet, RunnerTypes, RunnerPoints, Running, AttemptFails, NoRunner,
         startReconnect
<1>32. ASSUME NEW t \in Sockets, MonitorSuspend(t) PROVE RunnerTypes'
  BY <1>32, Bounds
     DEF MonitorSuspend, Types, Quiet, RunnerTypes, RunnerPoints, Running, AttemptFails, NoRunner,
         startReconnect
<1>33. ASSUME NEW t \in Sockets, MonitorRecord(t) PROVE RunnerTypes'
  BY <1>33, Bounds
     DEF MonitorRecord, Types, Quiet, RunnerTypes, RunnerPoints, Running, AttemptFails, NoRunner,
         startReconnect
<1>34. ASSUME NEW t \in Sockets, MonitorStart(t) PROVE RunnerTypes'
  <2>1. socket[t].of \in 0 .. MaxSessions
    BY <1>34, Bounds DEF MonitorStart, Types, SocketTypes, IsSocket
  <2>2. \/ runner' = runner
        \/ runner' = [runner EXCEPT ![socket[t].of] = [NoRunner EXCEPT !.pc = "begin", !.attempt = 1]]
    BY <1>34 DEF MonitorStart, startReconnect
  <2> QED BY <2>1, <2>2, StartedRunner DEF Types, RunnerTypes
<1>35. ASSUME NEW t \in Sockets, Receive(t) PROVE RunnerTypes'
  BY <1>35, Bounds
     DEF Receive, Types, Quiet, RunnerTypes, RunnerPoints, Running, AttemptFails, NoRunner, startReconnect
<1>36. ASSUME NEW t \in Sockets, ReceiveFault(t) PROVE RunnerTypes'
  BY <1>36, Bounds
     DEF ReceiveFault, Types, Quiet, RunnerTypes, RunnerPoints, Running, AttemptFails, NoRunner,
         startReconnect
<1>37. ASSUME NEW t \in Sockets, InstallSnapshot(t) PROVE RunnerTypes'
  BY <1>37, Bounds
     DEF InstallSnapshot, Types, Quiet, RunnerTypes, RunnerPoints, Running, AttemptFails, NoRunner,
         startReconnect
<1>38. ASSUME NEW t \in Sockets, Finish(t) PROVE RunnerTypes'
  BY <1>38, Bounds
     DEF Finish, Types, Quiet, RunnerTypes, RunnerPoints, Running, AttemptFails, NoRunner, startReconnect
<1>39. ASSUME NEW t \in Sockets, ServeJoin(t) PROVE RunnerTypes'
  BY <1>39, Bounds
     DEF ServeJoin, Types, Quiet, RunnerTypes, RunnerPoints, Running, AttemptFails, NoRunner, startReconnect
<1>40. ASSUME NEW t \in Sockets, ServeReplay(t) PROVE RunnerTypes'
  BY <1>40, Bounds
     DEF ServeReplay, Types, Quiet, RunnerTypes, RunnerPoints, Running, AttemptFails, NoRunner,
         startReconnect
<1> QED
  BY <1>1, <1>2, <1>3, <1>4, <1>5, <1>6, <1>7, <1>8, <1>9, <1>10, <1>11, <1>12, <1>13,
     <1>14, <1>15, <1>16, <1>17, <1>18, <1>19, <1>20, <1>21, <1>22, <1>23, <1>24, <1>25,
     <1>26, <1>27, <1>28, <1>29, <1>30, <1>31, <1>32, <1>33, <1>34, <1>35, <1>36, <1>37,
     <1>38, <1>39, <1>40
     DEF Next, User, JoinStep, LeaveStep, AttemptStep, MonitorStep, ReadStep, ServiceStep, Network


(* Every step keeps the session and the kind of the sockets in use; the unused *)
(* ones are taken by sessions that dial.                                       *)
SocketsKept ==
    /\ SocketTypes'
    /\ \A v \in Sockets : (socket[v].of = 0 /\ Dials(socket'[v])) \/ Kept(socket[v], socket'[v])

LEMMA WriteKept ==
    ASSUME SocketTypes, NEW t \in Sockets, IsSocket(socket[t]), socket[t].of \in Sessions,
           NEW messages \in Seq(Messages), NEW srv, Write(t, messages, srv)
    PROVE  SocketsKept
<1>0. socket[t].wire \in Seq(Messages) /\ socket[t].wire \o messages \in Seq(Messages)
  BY DEF IsSocket
<1>1. PICK w \in Seq(Messages) :
         w = IF socket[t].st = "open" THEN socket[t].wire \o messages ELSE socket[t].wire
  BY <1>0
<1>2. Kept(socket[t], [socket[t] EXCEPT !.srv = srv, !.tok = 0, !.wire = w])
  BY <1>1 DEF Kept, IsSocket, SocketFields
<1>3. PICK u : u = [socket[t] EXCEPT !.srv = srv, !.tok = 0, !.wire = w]
  OBVIOUS
<1>4. socket' = [socket EXCEPT ![t] = u]
  BY <1>1, <1>3 DEF Write
<1>5. IsSocket(u) /\ Kept(socket[t], u)
  BY <1>2, <1>3 DEF Kept
<1> QED BY <1>4, <1>5, OneKept DEF SocketsKept

LEMMA SocketsKeptStep ==
    ASSUME Types, Next
    PROVE  SocketsKept
<1>0. SocketTypes
 BY DEF Types
<1>1. CASE Leave
  BY <1>1, <1>0 DEF Leave, SocketsKept, SocketTypes, Kept, Quiet
<1>2. CASE RetryReconnect
  BY <1>2, <1>0 DEF RetryReconnect, SocketsKept, SocketTypes, Kept, Quiet
<1>3. CASE recordConflictResolution
  BY <1>3, <1>0 DEF recordConflictResolution, SocketsKept, SocketTypes, Kept, Quiet
<1>4. ASSUME NEW g \in Sessions, Reserve(g) PROVE SocketsKept
  BY <1>4, <1>0 DEF Reserve, SocketsKept, SocketTypes, Kept, Quiet
<1>5. CASE LeaveClient
  BY <1>5, <1>0 DEF LeaveClient, SocketsKept, SocketTypes, Kept, Quiet
<1>6. CASE LeaveDrop
  <2>0. leaver.transport = 0 \/ leaver.transport \in Sockets
    BY <1>6, Bounds DEF LeaveDrop, Types, ControlTypes, ClientTypes, IsClient, OwnSockets
  <2>1. CASE socket' = socket
    BY <2>1, <1>0 DEF SocketsKept, SocketTypes, Kept
  <2>2. CASE socket' = [socket EXCEPT ![leaver.transport] = Close(@)] /\ leaver.transport # 0
    <3>1. IsSocket(socket[leaver.transport])
      BY <2>0, <2>2, <1>0 DEF SocketTypes
    <3>2. Kept(socket[leaver.transport], Close(socket[leaver.transport]))
      BY <3>1, CloseKept
    <3>3. IsSocket(Close(socket[leaver.transport]))
      BY <3>2 DEF Kept
    <3> QED BY <2>0, <2>2, <3>2, <3>3, <1>0, OneKept DEF SocketsKept
  <2> QED BY <1>6, <2>1, <2>2 DEF LeaveDrop, Dropped, CloseSocket
<1>7. CASE Expire
  BY <1>7, <1>0 DEF Expire, SocketsKept, SocketTypes, Kept, Quiet
<1>8. ASSUME NEW t \in Sockets, ServeRejection(t) PROVE SocketsKept
  <2>0. IsSocket(socket[t]) /\ socket[t].of \in Sessions
    BY <1>8, <1>0 DEF ServeRejection, SocketTypes, IsSocket
  <2>1. PICK messages \in Seq(Messages), srv \in {"joined", "closed", "live"} : Write(t, messages, srv)
    <3>1. /\ <<"joined">> \in Seq(Messages)
          /\ <<"close">> \in Seq(Messages)
          /\ <<"complete">> \in Seq(Messages)
          /\ <<"snapshot", "close">> \in Seq(Messages)
          /\ <<"rejected">> \in Seq(Messages)
      BY DEF Messages
    <3> QED BY <1>8, <3>1 DEF ServeRejection
  <2> QED BY <2>0, <2>1, <1>0, WriteKept DEF SocketsKept
<1>9. ASSUME NEW t \in Sockets, NEW e \in {"lost", "rate"}, Lose(t, e) PROVE SocketsKept
  <2>0. IsSocket(socket[t]) /\ t \in Sockets
    BY <1>9, <1>0, Bounds DEF Lose, SocketTypes, Types, OwnSockets
  <2>2. Kept(socket[t], [socket[t] EXCEPT !.st = "ended", !.err = e, !.wire = <<>>])
    BY <1>9, <2>0 DEF Lose, Kept, IsSocket, SocketFields
  <2>3. IsSocket([socket[t] EXCEPT !.st = "ended", !.err = e, !.wire = <<>>]) /\ t \in Sockets
    BY <2>2, <2>0 DEF Kept
  <2>1. socket' = [socket EXCEPT ![t] = [socket[t] EXCEPT !.st = "ended", !.err = e, !.wire = <<>>]]
    BY <1>9 DEF Lose
  <2> QED BY <2>1, <2>2, <2>3, <1>0, OneKept DEF SocketsKept
<1>10. ASSUME NEW g \in Sessions, EnterJoin(g) PROVE SocketsKept
  BY <1>10, <1>0 DEF EnterJoin, SocketsKept, SocketTypes, Kept, Quiet
<1>11. ASSUME NEW g \in Sessions, JoinFetch(g) PROVE SocketsKept
  BY <1>11, <1>0 DEF JoinFetch, SocketsKept, SocketTypes, Kept, Quiet
<1>12. ASSUME NEW g \in Sessions, JoinDial(g) PROVE SocketsKept
  <2>1. PICK t \in Sockets :
           Fresh(t) /\ socket' \in {[socket EXCEPT ![t] = Dialled(g, "join", join[g].tok)],
                                                         [socket EXCEPT ![t] = Refused(g, "join")]}
    BY <1>12 DEF JoinDial
  <2>2. socket[t].of = 0 
    BY <2>1 DEF Fresh, Unused
  <2>3. PICK u : socket' = [socket EXCEPT ![t] = u] /\ IsSocket(u) /\ u.of = g
    BY <2>1, DialledIs
  <2>4. Dials(u)
    BY <1>12, <2>3 DEF JoinDial, Dials
  <2> QED BY <2>2, <2>3, <2>4, <1>0, OneKept DEF SocketsKept
<1>13. ASSUME NEW g \in Sessions, JoinWait(g) PROVE SocketsKept
  <2>1. join[g].t \in Sockets /\ IsSocket(socket[join[g].t])
    BY <1>13, <1>0 DEF JoinWait, Types, OwnSockets, SocketTypes
  <2>2. PICK u \in {Taken(socket[join[g].t]), Close(Taken(socket[join[g].t]))} :
           socket' = [socket EXCEPT ![join[g].t] = u]
    BY <1>13 DEF JoinWait
  <2>3. Kept(socket[join[g].t], Taken(socket[join[g].t]))
    BY <2>1, TakenKept
  <2>4. Kept(Taken(socket[join[g].t]), Close(Taken(socket[join[g].t])))
    BY <2>3, CloseKept DEF Kept
  <2>5. IsSocket(u) /\ Kept(socket[join[g].t], u)
    BY <2>2, <2>3, <2>4 DEF Kept
  <2> QED BY <2>1, <2>2, <2>5, <1>0, OneKept DEF SocketsKept
<1>14. ASSUME NEW g \in Sessions, JoinRefresh(g) PROVE SocketsKept
  BY <1>14, <1>0 DEF JoinRefresh, SocketsKept, SocketTypes, Kept, Quiet
<1>15. ASSUME NEW g \in Sessions, JoinCommit(g) PROVE SocketsKept
  <2>0. join[g].t = 0 \/ join[g].t \in Sockets
    BY <1>15, Bounds DEF JoinCommit, Types, ControlTypes, ClientTypes, IsClient, OwnSockets
  <2>1. CASE socket' = socket
    BY <2>1, <1>0 DEF SocketsKept, SocketTypes, Kept
  <2>2. CASE socket' = [socket EXCEPT ![join[g].t] = Close(@)] /\ join[g].t # 0
    <3>1. IsSocket(socket[join[g].t])
      BY <2>0, <2>2, <1>0 DEF SocketTypes
    <3>2. Kept(socket[join[g].t], Close(socket[join[g].t]))
      BY <3>1, CloseKept
    <3>3. IsSocket(Close(socket[join[g].t]))
      BY <3>2 DEF Kept
    <3> QED BY <2>0, <2>2, <3>2, <3>3, <1>0, OneKept DEF SocketsKept
  <2> QED BY <1>15, <2>1, <2>2 DEF JoinCommit, Dropped, CloseSocket
<1>16. ASSUME NEW g \in Sessions, JoinSync(g) PROVE SocketsKept
  <2>y. join[g].t \in Sockets /\ socket[join[g].t].of = g
    BY <1>16 DEF JoinSync, Types, OwnSockets
  <2>0. IsSocket(socket[join[g].t]) /\ join[g].t \in Sockets
    BY <1>16, <1>0, Bounds DEF JoinSync, SocketTypes, Types, OwnSockets
  <2>2. Kept(socket[join[g].t], [socket[join[g].t] EXCEPT !.monitor = "wait"])
    BY <1>16, <2>0, <2>y DEF JoinSync, Kept, IsSocket, SocketFields, Monitoring, Watched
  <2>3. IsSocket([socket[join[g].t] EXCEPT !.monitor = "wait"]) /\ join[g].t \in Sockets
    BY <2>2, <2>0, <2>y DEF Kept
  <2>1. socket' = [socket EXCEPT ![join[g].t] = [socket[join[g].t] EXCEPT !.monitor = "wait"]]
    BY <1>16 DEF JoinSync, Monitoring, Watched
  <2> QED BY <2>1, <2>2, <2>3, <1>0, OneKept DEF SocketsKept
<1>17. ASSUME NEW g \in Sessions, JoinFailed(g) PROVE SocketsKept
  BY <1>17, <1>0 DEF JoinFailed, SocketsKept, SocketTypes, Kept, Quiet
<1>18. ASSUME NEW g \in Sessions, JoinActivate(g) PROVE SocketsKept
  BY <1>18, <1>0 DEF JoinActivate, SocketsKept, SocketTypes, Kept, Quiet
<1>19. ASSUME NEW g \in Sessions, releaseReservation(g) PROVE SocketsKept
  BY <1>19, <1>0 DEF releaseReservation, SocketsKept, SocketTypes, Kept, Quiet
<1>20. ASSUME NEW g \in Sessions, JoinLeave(g) PROVE SocketsKept
  <2>0. client.transport = 0 \/ client.transport \in Sockets
    BY <1>20, Bounds DEF JoinLeave, Types, ControlTypes, ClientTypes, IsClient, OwnSockets
  <2>1. CASE socket' = socket
    BY <2>1, <1>0 DEF SocketsKept, SocketTypes, Kept
  <2>2. CASE socket' = [socket EXCEPT ![client.transport] = Close(@)] /\ client.transport # 0
    <3>1. IsSocket(socket[client.transport])
      BY <2>0, <2>2, <1>0 DEF SocketTypes
    <3>2. Kept(socket[client.transport], Close(socket[client.transport]))
      BY <3>1, CloseKept
    <3>3. IsSocket(Close(socket[client.transport]))
      BY <3>2 DEF Kept
    <3> QED BY <2>0, <2>2, <3>2, <3>3, <1>0, OneKept DEF SocketsKept
  <2> QED BY <1>20, <2>1, <2>2 DEF JoinLeave, Dropped, CloseSocket
<1>21. ASSUME NEW g \in Sessions, AttemptBegin(g) PROVE SocketsKept
  BY <1>21, <1>0 DEF AttemptBegin, SocketsKept, SocketTypes, Kept, Quiet
<1>22. ASSUME NEW g \in Sessions, AttemptResume(g) PROVE SocketsKept
  <2>1. CASE executor[g] # Paused
    BY <1>22, <2>1, <1>0 DEF AttemptResume, SocketsKept, SocketTypes, Kept
  <2>2. CASE executor[g] = Paused
    <3>1. PICK t \in Sockets :
             /\ Fresh(t)
             /\ socket' = [socket EXCEPT ![t].of = g, ![t].kind = "reconnect", ![t].tok = runner[g].tok]
      BY <1>22, <2>2 DEF AttemptResume
    <3>2. socket[t].of = 0 /\ IsSocket(socket[t])
      BY <3>1, <1>0 DEF Fresh, Unused, SocketTypes
    <3>3. /\ IsSocket([socket[t] EXCEPT !.of = g, !.kind = "reconnect", !.tok = runner[g].tok])
          /\ Dials([socket[t] EXCEPT !.of = g, !.kind = "reconnect", !.tok = runner[g].tok])
      BY <1>22, <3>2, Bounds DEF IsSocket, SocketFields, AttemptResume, Dials
    <3>4. socket' = [socket EXCEPT ![t] = [socket[t] EXCEPT !.of = g, !.kind = "reconnect", !.tok = runner[g].tok]]
      BY <3>1
    <3> QED BY <3>2, <3>3, <3>4, <1>0, OneKept DEF SocketsKept
  <2> QED BY <2>1, <2>2
<1>23. ASSUME NEW g \in Sessions, AttemptDial(g) PROVE SocketsKept
  <2> DEFINE t == runner[g].t
  <2>1. t \in Sockets /\ socket[t].of = g /\ socket[t].kind = "reconnect"
    BY <1>23 DEF AttemptDial, Types, OwnSockets
  <2>2. PICK u \in {Dialled(g, "reconnect", socket[t].tok), Refused(g, "reconnect")} :
           socket' = [socket EXCEPT ![t] = u]
    BY <1>23 DEF AttemptDial
  <2>3. IsSocket(u) /\ Kept(socket[t], u)
    BY <2>1, <2>2, DialledIs DEF Kept
  <2> HIDE DEF t
  <2> QED BY <2>1, <2>2, <2>3, <1>0, OneKept DEF SocketsKept
<1>24. ASSUME NEW g \in Sessions, AttemptWait(g) PROVE SocketsKept
  <2>1. runner[g].t \in Sockets /\ IsSocket(socket[runner[g].t])
    BY <1>24, <1>0 DEF AttemptWait, Types, OwnSockets, SocketTypes
  <2>2. PICK u \in {Taken(socket[runner[g].t]), Close(Taken(socket[runner[g].t]))} :
           socket' = [socket EXCEPT ![runner[g].t] = u]
    BY <1>24 DEF AttemptWait
  <2>3. Kept(socket[runner[g].t], Taken(socket[runner[g].t]))
    BY <2>1, TakenKept
  <2>4. Kept(Taken(socket[runner[g].t]), Close(Taken(socket[runner[g].t])))
    BY <2>3, CloseKept DEF Kept
  <2>5. IsSocket(u) /\ Kept(socket[runner[g].t], u)
    BY <2>2, <2>3, <2>4 DEF Kept
  <2> QED BY <2>1, <2>2, <2>5, <1>0, OneKept DEF SocketsKept
<1>25. ASSUME NEW g \in Sessions, AttemptSuspend(g) PROVE SocketsKept
  BY <1>25, <1>0 DEF AttemptSuspend, SocketsKept, SocketTypes, Kept, Quiet
<1>26. ASSUME NEW g \in Sessions, AttemptRecord(g) PROVE SocketsKept
  BY <1>26, <1>0 DEF AttemptRecord, SocketsKept, SocketTypes, Kept, Quiet
<1>27. ASSUME NEW g \in Sessions, AttemptRetry(g) PROVE SocketsKept
  BY <1>27, <1>0 DEF AttemptRetry, SocketsKept, SocketTypes, Kept, Quiet
<1>28. ASSUME NEW g \in Sessions, AttemptInstall(g) PROVE SocketsKept
  <2>0. runner[g].t = 0 \/ runner[g].t \in Sockets
    BY <1>28, Bounds DEF AttemptInstall, Types, ControlTypes, ClientTypes, IsClient, OwnSockets
  <2>1. CASE socket' = socket
    BY <2>1, <1>0 DEF SocketsKept, SocketTypes, Kept
  <2>2. CASE socket' = [socket EXCEPT ![runner[g].t] = Close(@)] /\ runner[g].t # 0
    <3>1. IsSocket(socket[runner[g].t])
      BY <2>0, <2>2, <1>0 DEF SocketTypes
    <3>2. Kept(socket[runner[g].t], Close(socket[runner[g].t]))
      BY <3>1, CloseKept
    <3>3. IsSocket(Close(socket[runner[g].t]))
      BY <3>2 DEF Kept
    <3> QED BY <2>0, <2>2, <3>2, <3>3, <1>0, OneKept DEF SocketsKept
  <2> QED BY <1>28, <2>1, <2>2 DEF AttemptInstall, Dropped, CloseSocket
<1>29. ASSUME NEW g \in Sessions, AttemptSync(g) PROVE SocketsKept
  <2>y. runner[g].t \in Sockets /\ socket[runner[g].t].of = g
    BY <1>29 DEF AttemptSync, Types, OwnSockets
  <2>0. IsSocket(socket[runner[g].t]) /\ runner[g].t \in Sockets
    BY <1>29, <1>0, Bounds DEF AttemptSync, SocketTypes, Types, OwnSockets
  <2>2. Kept(socket[runner[g].t], [socket[runner[g].t] EXCEPT !.monitor = "wait"])
    BY <1>29, <2>0, <2>y DEF AttemptSync, Kept, IsSocket, SocketFields, Monitoring, Watched
  <2>3. IsSocket([socket[runner[g].t] EXCEPT !.monitor = "wait"]) /\ runner[g].t \in Sockets
    BY <2>2, <2>0, <2>y DEF Kept
  <2>1. socket' = [socket EXCEPT ![runner[g].t] = [socket[runner[g].t] EXCEPT !.monitor = "wait"]]
    BY <1>29 DEF AttemptSync, Monitoring, Watched
  <2> QED BY <2>1, <2>2, <2>3, <1>0, OneKept DEF SocketsKept
<1>30. ASSUME NEW g \in Sessions, ReconnectEnd(g) PROVE SocketsKept
  BY <1>30, <1>0 DEF ReconnectEnd, SocketsKept, SocketTypes, Kept, Quiet
<1>31. ASSUME NEW t \in Sockets, MonitorWait(t) PROVE SocketsKept
  <2>0. IsSocket(socket[t]) /\ t \in Sockets
    BY <1>31, <1>0, Bounds DEF MonitorWait, SocketTypes, Types, OwnSockets
  <2>2. Kept(socket[t], [socket[t] EXCEPT !.monitor = Watched(t)])
    BY <1>31, <2>0 DEF MonitorWait, Kept, IsSocket, SocketFields, Monitoring, Watched
  <2>3. IsSocket([socket[t] EXCEPT !.monitor = Watched(t)]) /\ t \in Sockets
    BY <2>2, <2>0 DEF Kept
  <2>1. socket' = [socket EXCEPT ![t] = [socket[t] EXCEPT !.monitor = Watched(t)]]
    BY <1>31 DEF MonitorWait, Monitoring, Watched
  <2> QED BY <2>1, <2>2, <2>3, <1>0, OneKept DEF SocketsKept
<1>32. ASSUME NEW t \in Sockets, MonitorSuspend(t) PROVE SocketsKept
  <2>0. IsSocket(socket[t]) /\ t \in Sockets
    BY <1>32, <1>0, Bounds DEF MonitorSuspend, SocketTypes, Types, OwnSockets
  <2>2. Kept(socket[t], [socket[t] EXCEPT !.monitor = "record"])
    BY <1>32, <2>0 DEF MonitorSuspend, Kept, IsSocket, SocketFields, Monitoring, Watched
  <2>3. IsSocket([socket[t] EXCEPT !.monitor = "record"]) /\ t \in Sockets
    BY <2>2, <2>0 DEF Kept
  <2>1. socket' = [socket EXCEPT ![t] = [socket[t] EXCEPT !.monitor = "record"]]
    BY <1>32 DEF MonitorSuspend, Monitoring, Watched
  <2> QED BY <2>1, <2>2, <2>3, <1>0, OneKept DEF SocketsKept
<1>33. ASSUME NEW t \in Sockets, MonitorRecord(t) PROVE SocketsKept
  <2>0. IsSocket(socket[t]) /\ t \in Sockets
    BY <1>33, <1>0, Bounds DEF MonitorRecord, SocketTypes, Types, OwnSockets
  <2>2. Kept(socket[t], [socket[t] EXCEPT !.monitor = "start"])
    BY <1>33, <2>0 DEF MonitorRecord, Kept, IsSocket, SocketFields, Monitoring, Watched
  <2>3. IsSocket([socket[t] EXCEPT !.monitor = "start"]) /\ t \in Sockets
    BY <2>2, <2>0 DEF Kept
  <2>1. socket' = [socket EXCEPT ![t] = [socket[t] EXCEPT !.monitor = "start"]]
    BY <1>33 DEF MonitorRecord, Monitoring, Watched
  <2> QED BY <2>1, <2>2, <2>3, <1>0, OneKept DEF SocketsKept
<1>34. ASSUME NEW t \in Sockets, MonitorStart(t) PROVE SocketsKept
  <2>0. IsSocket(socket[t]) /\ t \in Sockets
    BY <1>34, <1>0, Bounds DEF MonitorStart, SocketTypes, Types, OwnSockets
  <2>2. Kept(socket[t], [socket[t] EXCEPT !.monitor = "done"])
    BY <1>34, <2>0 DEF MonitorStart, Kept, IsSocket, SocketFields, Monitoring, Watched
  <2>3. IsSocket([socket[t] EXCEPT !.monitor = "done"]) /\ t \in Sockets
    BY <2>2, <2>0 DEF Kept
  <2>1. socket' = [socket EXCEPT ![t] = [socket[t] EXCEPT !.monitor = "done"]]
    BY <1>34 DEF MonitorStart, Monitoring, Watched
  <2> QED BY <2>1, <2>2, <2>3, <1>0, OneKept DEF SocketsKept
<1>35. ASSUME NEW t \in Sockets, Receive(t) PROVE SocketsKept
  <2>1. IsSocket(socket[t]) /\ socket[t].wire # <<>> /\ Tail(socket[t].wire) \in Seq(Messages)
    BY <1>35, <1>0 DEF Receive, Reading, SocketTypes, IsSocket
  <2> DEFINE s == [socket[t] EXCEPT !.wire = Tail(@)]
  <2>2. Kept(socket[t], s)
    BY <2>1 DEF Kept, IsSocket, SocketFields
  <2>3. \E u : socket' = [socket EXCEPT ![t] = u] /\ Kept(s, u)
    <3> HIDE DEF s
    <3>1. IsSocket(s) /\ s.of \in Sessions
      BY <1>35, <2>1, <2>2 DEF Kept, IsSocket, Receive, Reading
    <3>2. \A b : Kept(s, [s EXCEPT !.st = "ended", !.err = "lost"]) /\ Kept(s, [s EXCEPT !.ready = b])
             /\ Kept(s, [s EXCEPT !.snapshot = b]) /\ Kept(s, [s EXCEPT !.fetching = TRUE]) /\ Kept(s, s)
      BY <3>1 DEF Kept, IsSocket, SocketFields
    <3>3. socket' \in {[socket EXCEPT ![t] = s], [socket EXCEPT ![t] = [s EXCEPT !.st = "ended", !.err = "lost"]],
                      [socket EXCEPT ![t] = [s EXCEPT !.ready = Awaited(t)]], [socket EXCEPT ![t] = [s EXCEPT !.snapshot = Awaited(t)]],
                      [socket EXCEPT ![t] = [s EXCEPT !.fetching = TRUE]]}
      BY <1>35 DEF Receive, s
    <3> QED BY <3>2, <3>3
  <2>4. PICK u : socket' = [socket EXCEPT ![t] = u] /\ Kept(s, u)
    BY <2>3
  <2>5. IsSocket(u) /\ Kept(socket[t], u)
    BY <2>2, <2>4 DEF Kept
  <2> HIDE DEF s
  <2> QED BY <2>4, <2>5, <1>0, OneKept DEF SocketsKept
<1>36. ASSUME NEW t \in Sockets, ReceiveFault(t) PROVE SocketsKept
  <2>1. IsSocket(socket[t]) /\ socket[t].wire # <<>>
    BY <1>36, <1>0 DEF ReceiveFault, Reading, SocketTypes
  <2> DEFINE f == Found(t, socket[t], "fault")
  <2>2. Kept(socket[t], f) /\ f.wire = socket[t].wire
    BY <2>1, FoundKept DEF Found, IsSocket, SocketFields
  <2>3. Kept(f, Close(f))
    BY <2>2, CloseKept DEF Kept
  <2> DEFINE c == Close(f)
  <2>a. \/ socket' = [socket EXCEPT ![t] = [f EXCEPT !.wire = Tail(@)]]
        \/ socket' = [socket EXCEPT ![t] = [c EXCEPT !.wire = <<>>]]
    BY <1>36 DEF ReceiveFault
  <2>4. PICK u \in {[f EXCEPT !.wire = Tail(@)], [c EXCEPT !.wire = <<>>]} :
           socket' = [socket EXCEPT ![t] = u]
    BY <2>a
  <2> HIDE DEF f, c
  <2>5. Kept(f, [f EXCEPT !.wire = Tail(@)])
    BY <2>1, <2>2 DEF Kept, IsSocket, SocketFields
  <2>6. Kept(f, c)
    BY <2>3 DEF c
  <2>7. Kept(c, [c EXCEPT !.wire = <<>>])
    BY <2>6 DEF Kept, IsSocket, SocketFields
  <2>8. IsSocket(u) /\ Kept(socket[t], u)
    BY <2>2, <2>4, <2>5, <2>6, <2>7 DEF Kept
  <2> QED BY <2>4, <2>8, <1>0, OneKept DEF SocketsKept
<1>37. ASSUME NEW t \in Sockets, InstallSnapshot(t) PROVE SocketsKept
  <2>1. IsSocket(socket[t])
    BY <1>37, <1>0 DEF InstallSnapshot, SocketTypes
  <2>2. PICK err : socket' = [socket EXCEPT ![t] = [Found(t, @, err) EXCEPT !.fetching = FALSE]]
    BY <1>37 DEF InstallSnapshot
  <2> DEFINE f == Found(t, socket[t], err)
  <2>3. Kept(socket[t], f)
    BY <2>1, FoundKept
  <2> HIDE DEF f
  <2>4. Kept(f, [f EXCEPT !.fetching = FALSE])
    BY <2>3 DEF Kept, IsSocket, SocketFields
  <2>5. PICK u : u = [f EXCEPT !.fetching = FALSE]
    OBVIOUS
  <2>6. socket' = [socket EXCEPT ![t] = u]
    BY <2>2, <2>5 DEF f
  <2>7. IsSocket(u) /\ Kept(socket[t], u)
    BY <2>3, <2>4, <2>5 DEF Kept
  <2> QED BY <2>6, <2>7, <1>0, OneKept DEF SocketsKept
<1>38. ASSUME NEW t \in Sockets, Finish(t) PROVE SocketsKept
  <2>0. IsSocket(socket[t]) /\ t \in Sockets
    BY <1>38, <1>0, Bounds DEF Finish, SocketTypes, Types, OwnSockets
  <2>2. Kept(socket[t], [socket[t] EXCEPT !.st = "ended", !.wire = <<>>])
    BY <1>38, <2>0 DEF Finish, Kept, IsSocket, SocketFields
  <2>3. IsSocket([socket[t] EXCEPT !.st = "ended", !.wire = <<>>]) /\ t \in Sockets
    BY <2>2, <2>0 DEF Kept
  <2>1. socket' = [socket EXCEPT ![t] = [socket[t] EXCEPT !.st = "ended", !.wire = <<>>]]
    BY <1>38 DEF Finish
  <2> QED BY <2>1, <2>2, <2>3, <1>0, OneKept DEF SocketsKept
<1>39. ASSUME NEW t \in Sockets, ServeJoin(t) PROVE SocketsKept
  <2>0. IsSocket(socket[t]) /\ socket[t].of \in Sessions
    BY <1>39, <1>0 DEF ServeJoin, SocketTypes, IsSocket
  <2>1. PICK messages \in Seq(Messages), srv \in {"joined", "closed", "live"} : Write(t, messages, srv)
    <3>1. /\ <<"joined">> \in Seq(Messages)
          /\ <<"close">> \in Seq(Messages)
          /\ <<"complete">> \in Seq(Messages)
          /\ <<"snapshot", "close">> \in Seq(Messages)
          /\ <<"rejected">> \in Seq(Messages)
      BY DEF Messages
    <3> QED BY <1>39, <3>1 DEF ServeJoin
  <2> QED BY <2>0, <2>1, <1>0, WriteKept DEF SocketsKept
<1>40. ASSUME NEW t \in Sockets, ServeReplay(t) PROVE SocketsKept
  <2>0. IsSocket(socket[t]) /\ socket[t].of \in Sessions
    BY <1>40, <1>0 DEF ServeReplay, SocketTypes, IsSocket
  <2>1. PICK messages \in Seq(Messages), srv \in {"joined", "closed", "live"} : Write(t, messages, srv)
    <3>1. /\ <<"joined">> \in Seq(Messages)
          /\ <<"close">> \in Seq(Messages)
          /\ <<"complete">> \in Seq(Messages)
          /\ <<"snapshot", "close">> \in Seq(Messages)
          /\ <<"rejected">> \in Seq(Messages)
      BY DEF Messages
    <3> QED BY <1>40, <3>1 DEF ServeReplay
  <2> QED BY <2>0, <2>1, <1>0, WriteKept DEF SocketsKept
<1> QED
  BY <1>1, <1>2, <1>3, <1>4, <1>5, <1>6, <1>7, <1>8, <1>9, <1>10, <1>11, <1>12, <1>13,
     <1>14, <1>15, <1>16, <1>17, <1>18, <1>19, <1>20, <1>21, <1>22, <1>23, <1>24, <1>25,
     <1>26, <1>27, <1>28, <1>29, <1>30, <1>31, <1>32, <1>33, <1>34, <1>35, <1>36, <1>37,
     <1>38, <1>39, <1>40
     DEF Next, User, JoinStep, LeaveStep, AttemptStep, MonitorStep, ReadStep, ServiceStep, Network


LEMMA OwnSocketsStep ==
    ASSUME Types, Next
    PROVE  OwnSockets'
<1>0. SocketsKept
  BY SocketsKeptStep
<1>a. \A v \in Sockets : socket[v].of \in Sessions => socket'[v].of = socket[v].of /\ socket'[v].kind = socket[v].kind
  BY <1>0, Bounds DEF SocketsKept, Kept
<1>b. OwnSockets /\ JoinTypes /\ RunnerTypes
  BY DEF Types
<1>1. CASE Leave
  <2>1. join' = join /\ runner' = runner
    BY <1>1 DEF Leave, Quiet
  <2> QED BY <2>1, <1>a, <1>b DEF OwnSockets
<1>2. CASE RetryReconnect
  <2>1. \/ runner' = runner
        \/ runner' = [runner EXCEPT ![client.machine] = [NoRunner EXCEPT !.pc = "begin", !.attempt = 1]]
    BY <1>2 DEF RetryReconnect, startReconnect
  <2>2. \A h \in Sessions : runner'[h] = runner[h] \/ runner'[h].pc = "begin"
    BY <2>1, <1>b, StartedRunner
  <2>3. join' = join
    BY <1>2 DEF RetryReconnect
  <2> QED BY <2>2, <2>3, <1>a, <1>b DEF OwnSockets
<1>3. CASE recordConflictResolution
  <2>1. join' = join /\ runner' = runner
    BY <1>3 DEF recordConflictResolution, Quiet
  <2> QED BY <2>1, <1>a, <1>b DEF OwnSockets
<1>4. ASSUME NEW g \in Sessions, Reserve(g) PROVE OwnSockets'
  BY <1>4, <1>a, <1>b
     DEF Reserve, OwnSockets, JoinTypes, RunnerTypes, Joining, JoinFails, NoJoin, Running, AttemptFails,
         NoRunner, startReconnect, Quiet
<1>5. CASE LeaveClient
  <2>1. join' = join /\ runner' = runner
    BY <1>5 DEF LeaveClient, Quiet
  <2> QED BY <2>1, <1>a, <1>b DEF OwnSockets
<1>6. CASE LeaveDrop
  <2>1. join' = join /\ runner' = runner
    BY <1>6 DEF LeaveDrop, Quiet
  <2> QED BY <2>1, <1>a, <1>b DEF OwnSockets
<1>7. CASE Expire
  <2>1. join' = join /\ runner' = runner
    BY <1>7 DEF Expire, Quiet
  <2> QED BY <2>1, <1>a, <1>b DEF OwnSockets
<1>8. ASSUME NEW t \in Sockets, ServeRejection(t) PROVE OwnSockets'
  <2>1. join' = join /\ runner' = runner
    BY <1>8 DEF ServeRejection, Quiet
  <2> QED BY <2>1, <1>a, <1>b DEF OwnSockets
<1>9. ASSUME NEW t \in Sockets, NEW e \in {"lost", "rate"}, Lose(t, e) PROVE OwnSockets'
  <2>1. join' = join /\ runner' = runner
    BY <1>9 DEF Lose, Quiet
  <2> QED BY <2>1, <1>a, <1>b DEF OwnSockets
<1>10. ASSUME NEW g \in Sessions, EnterJoin(g) PROVE OwnSockets'
  BY <1>10, <1>a, <1>b
     DEF EnterJoin, OwnSockets, JoinTypes, RunnerTypes, Joining, JoinFails, NoJoin, Running, AttemptFails,
         NoRunner, startReconnect, Quiet
<1>11. ASSUME NEW g \in Sessions, JoinFetch(g) PROVE OwnSockets'
  BY <1>11, <1>a, <1>b
     DEF JoinFetch, OwnSockets, JoinTypes, RunnerTypes, Joining, JoinFails, NoJoin, Running, AttemptFails,
         NoRunner, startReconnect, Quiet
<1>12. ASSUME NEW g \in Sessions, JoinDial(g) PROVE OwnSockets'
  <2>1. PICK t \in Sockets : /\ Fresh(t)
                             /\ \/ socket' = [socket EXCEPT ![t] = Dialled(g, "join", join[g].tok)] /\ join' = [join EXCEPT ![g].pc = "wait", ![g].t = t]
                                \/ \E err : JoinFails(g, err)
    BY <1>12 DEF JoinDial
  <2>2. \A h \in Sessions : h # g => join'[h] = join[h]
    BY <1>12, <1>b DEF JoinDial, JoinFails, JoinTypes
  <2>3. runner' = runner
    BY <1>12 DEF JoinDial
  <2>4. CASE \E err : JoinFails(g, err)
    BY <2>2, <2>3, <2>4, <1>a, <1>b DEF OwnSockets, JoinFails, JoinTypes
  <2>5. CASE socket' = [socket EXCEPT ![t] = Dialled(g, "join", join[g].tok)] /\ join' = [join EXCEPT ![g].pc = "wait", ![g].t = t]
    <3>1. join'[g].t = t
      BY <2>5, <1>b DEF JoinTypes
    <3>2. socket'[t].of = g /\ socket'[t].kind = "join"
      BY <2>5, DialledIs DEF Types, SocketTypes
    <3> QED BY <3>1, <3>2, <2>2, <2>3, <1>a, <1>b DEF OwnSockets
  <2> QED BY <2>1, <2>4, <2>5
<1>13. ASSUME NEW g \in Sessions, JoinWait(g) PROVE OwnSockets'
  BY <1>13, <1>a, <1>b
     DEF JoinWait, OwnSockets, JoinTypes, RunnerTypes, Joining, JoinFails, NoJoin, Running, AttemptFails,
         NoRunner, startReconnect, Quiet
<1>14. ASSUME NEW g \in Sessions, JoinRefresh(g) PROVE OwnSockets'
  BY <1>14, <1>a, <1>b
     DEF JoinRefresh, OwnSockets, JoinTypes, RunnerTypes, Joining, JoinFails, NoJoin, Running,
         AttemptFails, NoRunner, startReconnect, Quiet
<1>15. ASSUME NEW g \in Sessions, JoinCommit(g) PROVE OwnSockets'
  BY <1>15, <1>a, <1>b
     DEF JoinCommit, OwnSockets, JoinTypes, RunnerTypes, Joining, JoinFails, NoJoin, Running, AttemptFails,
         NoRunner, startReconnect, Quiet
<1>16. ASSUME NEW g \in Sessions, JoinSync(g) PROVE OwnSockets'
  BY <1>16, <1>a, <1>b
     DEF JoinSync, OwnSockets, JoinTypes, RunnerTypes, Joining, JoinFails, NoJoin, Running, AttemptFails,
         NoRunner, startReconnect, Quiet
<1>17. ASSUME NEW g \in Sessions, JoinFailed(g) PROVE OwnSockets'
  BY <1>17, <1>a, <1>b
     DEF JoinFailed, OwnSockets, JoinTypes, RunnerTypes, Joining, JoinFails, NoJoin, Running, AttemptFails,
         NoRunner, startReconnect, Quiet
<1>18. ASSUME NEW g \in Sessions, JoinActivate(g) PROVE OwnSockets'
  BY <1>18, <1>a, <1>b
     DEF JoinActivate, OwnSockets, JoinTypes, RunnerTypes, Joining, JoinFails, NoJoin, Running,
         AttemptFails, NoRunner, startReconnect, Quiet
<1>19. ASSUME NEW g \in Sessions, releaseReservation(g) PROVE OwnSockets'
  BY <1>19, <1>a, <1>b
     DEF releaseReservation, OwnSockets, JoinTypes, RunnerTypes, Joining, JoinFails, NoJoin, Running,
         AttemptFails, NoRunner, startReconnect, Quiet
<1>20. ASSUME NEW g \in Sessions, JoinLeave(g) PROVE OwnSockets'
  BY <1>20, <1>a, <1>b
     DEF JoinLeave, OwnSockets, JoinTypes, RunnerTypes, Joining, JoinFails, NoJoin, Running, AttemptFails,
         NoRunner, startReconnect, Quiet
<1>21. ASSUME NEW g \in Sessions, AttemptBegin(g) PROVE OwnSockets'
  BY <1>21, <1>a, <1>b
     DEF AttemptBegin, OwnSockets, JoinTypes, RunnerTypes, Joining, JoinFails, NoJoin, Running,
         AttemptFails, NoRunner, startReconnect, Quiet
<1>22. ASSUME NEW g \in Sessions, AttemptResume(g) PROVE OwnSockets'
  <2>1. CASE executor[g] # Paused
    BY <1>22, <2>1, <1>a, <1>b
       DEF AttemptResume, OwnSockets, JoinTypes, RunnerTypes, Joining, JoinFails, NoJoin, Running,
           AttemptFails, NoRunner, startReconnect, Quiet
  <2>2. CASE executor[g] = Paused
    <3>1. PICK t \in Sockets :
             /\ socket' = [socket EXCEPT ![t].of = g, ![t].kind = "reconnect", ![t].tok = runner[g].tok]
                               /\ runner' = [runner EXCEPT ![g].pc = "dial", ![g].t = t, ![g].tok = 0]
      BY <1>22, <2>2 DEF AttemptResume
    <3>2. runner'[g].t = t /\ \A h \in Sessions : h # g => runner'[h] = runner[h]
      BY <3>1, <1>b DEF RunnerTypes
    <3>3. socket'[t].of = g /\ socket'[t].kind = "reconnect"
      BY <3>1 DEF Types, SocketTypes, IsSocket, SocketFields
    <3>4. join' = join
      BY <1>22 DEF AttemptResume
    <3> QED BY <3>2, <3>3, <3>4, <1>a, <1>b DEF OwnSockets
  <2> QED BY <2>1, <2>2
<1>23. ASSUME NEW g \in Sessions, AttemptDial(g) PROVE OwnSockets'
  BY <1>23, <1>a, <1>b
     DEF AttemptDial, OwnSockets, JoinTypes, RunnerTypes, Joining, JoinFails, NoJoin, Running,
         AttemptFails, NoRunner, startReconnect, Quiet
<1>24. ASSUME NEW g \in Sessions, AttemptWait(g) PROVE OwnSockets'
  <2>1. join' = join /\ runner[g].pc = "wait" /\ \A h \in Sessions : h # g => runner'[h] = runner[h]
    BY <1>24, <1>b DEF AttemptWait, Running, AttemptFails, RunnerTypes
  <2>2. runner'[g].t = runner[g].t
    BY <1>24, <1>b DEF AttemptWait, Running, AttemptFails, RunnerTypes
  <2> QED BY <2>1, <2>2, <1>a, <1>b DEF OwnSockets
<1>25. ASSUME NEW g \in Sessions, AttemptSuspend(g) PROVE OwnSockets'
  BY <1>25, <1>a, <1>b
     DEF AttemptSuspend, OwnSockets, JoinTypes, RunnerTypes, Joining, JoinFails, NoJoin, Running,
         AttemptFails, NoRunner, startReconnect, Quiet
<1>26. ASSUME NEW g \in Sessions, AttemptRecord(g) PROVE OwnSockets'
  BY <1>26, <1>a, <1>b
     DEF AttemptRecord, OwnSockets, JoinTypes, RunnerTypes, Joining, JoinFails, NoJoin, Running,
         AttemptFails, NoRunner, startReconnect, Quiet
<1>27. ASSUME NEW g \in Sessions, AttemptRetry(g) PROVE OwnSockets'
  BY <1>27, <1>a, <1>b
     DEF AttemptRetry, OwnSockets, JoinTypes, RunnerTypes, Joining, JoinFails, NoJoin, Running,
         AttemptFails, NoRunner, startReconnect, Quiet
<1>28. ASSUME NEW g \in Sessions, AttemptInstall(g) PROVE OwnSockets'
  BY <1>28, <1>a, <1>b
     DEF AttemptInstall, OwnSockets, JoinTypes, RunnerTypes, Joining, JoinFails, NoJoin, Running,
         AttemptFails, NoRunner, startReconnect, Quiet
<1>29. ASSUME NEW g \in Sessions, AttemptSync(g) PROVE OwnSockets'
  BY <1>29, <1>a, <1>b
     DEF AttemptSync, OwnSockets, JoinTypes, RunnerTypes, Joining, JoinFails, NoJoin, Running,
         AttemptFails, NoRunner, startReconnect, Quiet
<1>30. ASSUME NEW g \in Sessions, ReconnectEnd(g) PROVE OwnSockets'
  BY <1>30, <1>a, <1>b
     DEF ReconnectEnd, OwnSockets, JoinTypes, RunnerTypes, Joining, JoinFails, NoJoin, Running,
         AttemptFails, NoRunner, startReconnect, Quiet
<1>31. ASSUME NEW t \in Sockets, MonitorWait(t) PROVE OwnSockets'
  <2>1. join' = join /\ runner' = runner
    BY <1>31 DEF MonitorWait, Quiet
  <2> QED BY <2>1, <1>a, <1>b DEF OwnSockets
<1>32. ASSUME NEW t \in Sockets, MonitorSuspend(t) PROVE OwnSockets'
  <2>1. join' = join /\ runner' = runner
    BY <1>32 DEF MonitorSuspend, Quiet
  <2> QED BY <2>1, <1>a, <1>b DEF OwnSockets
<1>33. ASSUME NEW t \in Sockets, MonitorRecord(t) PROVE OwnSockets'
  <2>1. join' = join /\ runner' = runner
    BY <1>33 DEF MonitorRecord, Quiet
  <2> QED BY <2>1, <1>a, <1>b DEF OwnSockets
<1>34. ASSUME NEW t \in Sockets, MonitorStart(t) PROVE OwnSockets'
  <2>1. \/ runner' = runner
        \/ runner' = [runner EXCEPT ![socket[t].of] = [NoRunner EXCEPT !.pc = "begin", !.attempt = 1]]
    BY <1>34 DEF MonitorStart, startReconnect
  <2>2. \A h \in Sessions : runner'[h] = runner[h] \/ runner'[h].pc = "begin"
    BY <2>1, <1>b, StartedRunner
  <2>3. join' = join
    BY <1>34 DEF MonitorStart
  <2> QED BY <2>2, <2>3, <1>a, <1>b DEF OwnSockets
<1>35. ASSUME NEW t \in Sockets, Receive(t) PROVE OwnSockets'
  <2>1. join' = join /\ runner' = runner
    BY <1>35 DEF Receive, Quiet
  <2> QED BY <2>1, <1>a, <1>b DEF OwnSockets
<1>36. ASSUME NEW t \in Sockets, ReceiveFault(t) PROVE OwnSockets'
  <2>1. join' = join /\ runner' = runner
    BY <1>36 DEF ReceiveFault, Quiet
  <2> QED BY <2>1, <1>a, <1>b DEF OwnSockets
<1>37. ASSUME NEW t \in Sockets, InstallSnapshot(t) PROVE OwnSockets'
  <2>1. join' = join /\ runner' = runner
    BY <1>37 DEF InstallSnapshot, Quiet
  <2> QED BY <2>1, <1>a, <1>b DEF OwnSockets
<1>38. ASSUME NEW t \in Sockets, Finish(t) PROVE OwnSockets'
  <2>1. join' = join /\ runner' = runner
    BY <1>38 DEF Finish, Quiet
  <2> QED BY <2>1, <1>a, <1>b DEF OwnSockets
<1>39. ASSUME NEW t \in Sockets, ServeJoin(t) PROVE OwnSockets'
  <2>1. join' = join /\ runner' = runner
    BY <1>39 DEF ServeJoin, Quiet
  <2> QED BY <2>1, <1>a, <1>b DEF OwnSockets
<1>40. ASSUME NEW t \in Sockets, ServeReplay(t) PROVE OwnSockets'
  <2>1. join' = join /\ runner' = runner
    BY <1>40 DEF ServeReplay, Quiet
  <2> QED BY <2>1, <1>a, <1>b DEF OwnSockets
<1> QED
  BY <1>1, <1>2, <1>3, <1>4, <1>5, <1>6, <1>7, <1>8, <1>9, <1>10, <1>11, <1>12, <1>13,
     <1>14, <1>15, <1>16, <1>17, <1>18, <1>19, <1>20, <1>21, <1>22, <1>23, <1>24, <1>25,
     <1>26, <1>27, <1>28, <1>29, <1>30, <1>31, <1>32, <1>33, <1>34, <1>35, <1>36, <1>37,
     <1>38, <1>39, <1>40
     DEF Next, User, JoinStep, LeaveStep, AttemptStep, MonitorStep, ReadStep, ServiceStep, Network


LEMMA TypesStep == ASSUME Types, Next PROVE Types'
BY ClientTypesStep, ControlTypesStep, JoinTypesStep, RunnerTypesStep, SocketsKeptStep, OwnSocketsStep
   DEF Types, SocketsKept

-----------------------------------------------------------------------------------
(* What the actions do to the client, field by field. *)
SameCause == client'.lastErr = client.lastErr /\ client'.rateLimited = client.rateLimited

EnterEffect(g) ==
    /\ client.transport = 0
    /\ client'.machine = g /\ client'.context = g /\ client'.token = 0 /\ client'.reconnecting = FALSE
    /\ client'.network = client.network /\ client'.transport = 0 /\ client'.lastErr = "none"

LEMMA EnterJoinClient ==
    ASSUME Types, NEW g \in Sessions, EnterJoin(g)
    PROVE  \/ client' = client /\ state' = state /\ cancelled' = cancelled /\ join'[g].pc = "release"
           \/ EnterEffect(g) /\ state' = Apply(g, "connect") /\ cancelled' = cancelled \cup ({client.context} \ {0})
              /\ join'[g].pc = "fetch"
<1>1. CASE client.joining \/ client.transport # 0
  BY <1>1 DEF EnterJoin, Joining, Types, JoinTypes
<1>2. CASE ~(client.joining \/ client.transport # 0)
  <2>0. client' = [client EXCEPT !.machine = g, !.joining = TRUE, !.token = 0, !.expired = FALSE,
                                 !.lastErr = "none", !.rateLimited = FALSE, !.reconnecting = FALSE, !.context = g]
    BY <1>2 DEF EnterJoin
  <2>1. EnterEffect(g)
    BY <1>2, <2>0, EnteredClient DEF EnterEffect, Types, ClientTypes
  <2> QED BY <1>2, <2>1 DEF EnterJoin, Joining, Types, JoinTypes
<1> QED BY <1>1, <1>2

LeaveEffect ==
    /\ client'.machine = client.machine /\ client'.context = 0 /\ client'.token = 0 /\ ~client'.reconnecting
    /\ client'.network = 0 /\ client'.transport = 0 /\ client'.lastErr = client.lastErr

LEMMA LeaveLockedClient ==
    ASSUME Types, LeaveLocked
    PROVE  LeaveEffect
BY DEF LeaveLocked, LeaveEffect, Types, ClientTypes, IsClient

InstallEffect(t, g) ==
    /\ client'.machine = client.machine /\ client'.context = client.context /\ client'.token = client.token
    /\ client'.reconnecting = client.reconnecting /\ client'.network = g /\ client'.transport = t

LEMMA JoinCommitClient ==
    ASSUME Types, NEW g \in Sessions, JoinCommit(g)
    PROVE  \/ /\ client' = client /\ join'[g].pc = "cleanup" /\ executor' = [executor EXCEPT ![g] = Terminated]
           \/ /\ Current(g, state) /\ InstallEffect(join[g].t, g) /\ SameCause /\ join'[g].pc = "sync"
              /\ executor' = executor
<1> DEFINE off == ~Current(g, state) \/ ~client.joining \/ JoinOff(g)
<1>1. CASE off
  BY <1>1 DEF JoinCommit, Joining, Types, JoinTypes
<1>2. CASE ~off
  <2>1. InstallEffect(join[g].t, g) /\ SameCause
    BY <1>2 DEF JoinCommit, InstallEffect, SameCause, Types, ClientTypes, IsClient
  <2>2. Current(g, state) /\ join'[g].pc = "sync" /\ executor' = executor
    BY <1>2 DEF JoinCommit, Joining, Types, JoinTypes
  <2> QED BY <2>1, <2>2
<1> QED BY <1>1, <1>2

LEMMA AttemptInstallClient ==
    ASSUME Types, NEW g \in Sessions, AttemptInstall(g)
    PROVE  \/ /\ client' = client /\ runner'[g].pc = "retry" /\ executor' = Suspended(g)
              /\ runner'[g].err = "cancelled" /\ ~(Current(g, state) /\ client.network = g)
           \/ /\ Current(g, state) /\ client.network = g /\ InstallEffect(runner[g].t, g)
              /\ runner'[g].pc = "sync" /\ runner'[g].err = runner[g].err /\ executor' = executor
              /\ client'.lastErr = "none"
<1>1. CASE Current(g, state) /\ client.network = g
  <2>1. InstallEffect(runner[g].t, g) /\ client'.lastErr = "none"
    BY <1>1 DEF AttemptInstall, InstallEffect, Types, ClientTypes, IsClient
  <2> QED BY <1>1, <2>1 DEF AttemptInstall, Running, Types, RunnerTypes
<1>2. CASE ~(Current(g, state) /\ client.network = g)
  BY <1>2 DEF AttemptInstall, AttemptFails, Types, RunnerTypes
<1> QED BY <1>1, <1>2

JoinedEffect(t) ==
    /\ client'.machine = client.machine /\ client'.context = client.context /\ client'.token = t
    /\ client'.reconnecting = client.reconnecting /\ client'.network = client.network
    /\ client'.transport = client.transport /\ SameCause

LEMMA ReceiveClient ==
    ASSUME Types, NEW t \in Sockets, Receive(t)
    PROVE  client' = client \/ (Current(socket[t].of, state') /\ JoinedEffect(t))
<1>1. CASE client' = client BY <1>1
<1>2. CASE client' # client
  <2>1. recordJoined(socket[t].of, t)
    BY <1>2 DEF Receive, Types, SocketTypes, IsSocket, SocketFields
  <2>2. Current(socket[t].of, state') /\ client' = [client EXCEPT !.token = t, !.expired = FALSE]
    BY <1>2, <2>1 DEF recordJoined
  <2> QED BY <2>2 DEF JoinedEffect, SameCause, Types, ClientTypes, IsClient
<1> QED BY <1>1, <1>2

FailEffect ==
    /\ client'.machine = client.machine /\ client'.context = 0 /\ client'.token = 0
    /\ client'.reconnecting = client.reconnecting /\ client'.network = client.network
    /\ client'.transport = client.transport

LEMMA JoinFailedClient ==
    ASSUME Types, NEW g \in Sessions, JoinFailed(g), client.machine = g
    PROVE  FailEffect
<1>1. PICK c \in {client, connectionErrorLocked(client, join[g].err)} : client' = CleanedUp(c, g)
  BY DEF JoinFailed
<1>2. IsClient(c) /\ SameButCause(client, c)
  BY <1>1, ErrorRecorded DEF Types, ClientTypes, SameButCause
<1> QED BY <1>1, <1>2 DEF CleanedUp, IsClient, SameButCause, FailEffect

StartEffect(g) ==
    /\ client'.machine = client.machine /\ client'.context = client.context /\ client'.token = client.token
    /\ client'.reconnecting = TRUE /\ client'.network = client.network /\ client'.transport = client.transport
    /\ SameCause /\ CanReconnect(g) /\ ~client.reconnecting
    /\ runner'[g].pc = "begin" /\ runner'[g].err = "none"
    /\ \A h \in Sessions : h # g => runner'[h] = runner[h]

LEMMA StartClient ==
    ASSUME Types, NEW g \in Sessions, startReconnect(g)
    PROVE  (client' = client /\ runner' = runner) \/ StartEffect(g)
<1>1. CASE ~(CanReconnect(g) /\ ~client.reconnecting) BY <1>1 DEF startReconnect
<1>2. CASE CanReconnect(g) /\ ~client.reconnecting
  <2>1. client' = [client EXCEPT !.reconnecting = TRUE]
        /\ runner' = [runner EXCEPT ![g] = [NoRunner EXCEPT !.pc = "begin", !.attempt = 1]]
    BY <1>2 DEF startReconnect
  <2>2. runner'[g].pc = "begin" /\ runner'[g].err = "none" /\ \A h \in Sessions : h # g => runner'[h] = runner[h]
    BY <2>1 DEF Types, RunnerTypes, NoRunner
  <2> QED BY <1>2, <2>1, <2>2 DEF StartEffect, SameCause, Types, ClientTypes, IsClient
<1> QED BY <1>1, <1>2

LEMMA OwnedMonitor == ASSUME Types, NEW t \in Sockets, socket[t].monitor # "none" PROVE socket[t].of \in Sessions
BY DEF Types, SocketTypes, IsSocket

DropTokenEffect ==
    /\ client'.machine = client.machine /\ client'.context = client.context /\ client'.token = 0
    /\ client'.reconnecting = client.reconnecting /\ client'.network = client.network
    /\ client'.transport = client.transport /\ SameCause

LEMMA RetryClient ==
    ASSUME Types, RetryReconnect
    PROVE  /\ client.machine \in Sessions
           /\ \/ DropTokenEffect /\ runner' = runner
              \/ client' = client /\ runner' = runner
              \/ StartEffect(client.machine)
<1>1. client.machine \in Sessions
  BY Bounds DEF RetryReconnect, Types, ClientTypes, IsClient
<1>2. CASE client.token = 0 \/ client.expired
  BY <1>1, <1>2 DEF RetryReconnect, DropTokenEffect, SameCause, Types, ClientTypes, IsClient
<1>3. CASE ~(client.token = 0 \/ client.expired)
  BY <1>1, <1>3, StartClient DEF RetryReconnect
<1> QED BY <1>1, <1>2, <1>3

EndEffect ==
    /\ client'.machine = client.machine /\ client'.context = client.context
    /\ client'.token \in {0, client.token} /\ client'.reconnecting = FALSE
    /\ client'.network = client.network /\ client'.transport = client.transport

LEMMA ReconnectEndClient ==
    ASSUME Types, NEW g \in Sessions, ReconnectEnd(g)
    PROVE  \/ client' = client /\ ~Current(g, state)
           \/ EndEffect /\ Current(g, state)
<1> DEFINE c == [client EXCEPT !.reconnecting = FALSE,
                               !.token = IF runner[g].err = "auth" THEN 0 ELSE @,
                               !.expired = IF runner[g].err = "auth" THEN FALSE ELSE @]
<1>1. /\ IsClient(c)
      /\ c.machine = client.machine
      /\ c.context = client.context
      /\ c.token \in {0, client.token}
      /\ c.reconnecting = FALSE /\ c.network = client.network /\ c.transport = client.transport
  BY Bounds DEF Types, ClientTypes, IsClient
<1>2. \/ client' = client /\ ~Current(g, state)
      \/ client' \in {c, connectionErrorLocked(c, runner[g].err)} /\ Current(g, state)
  BY DEF ReconnectEnd
<1> HIDE DEF c
<1> QED BY <1>1, <1>2, ErrorRecorded DEF EndEffect, SameButCause

(* The others leave it alone, except for the cause on display. *)
LEMMA RecordClient ==
    ASSUME Types, NEW g, NEW err, recordConnectionFailure(g, err)
    PROVE  SameButCause(client, client') /\ state' = Apply(g, "connection_lost")
BY ErrorRecorded DEF recordConnectionFailure, Types, ClientTypes, SameButCause

LEMMA SuspendClient ==
    ASSUME Types, NEW err, client' = SuspendCause(err)
    PROVE  SameButCause(client, client') /\ client'.lastErr = client.lastErr
           /\ client'.rateLimited = (err = "rate" \/ (client.rateLimited /\ err # "auth"))
<1>1. PICK b : b = connectionErrorLocked(client, err).rateLimited
               /\ b = (err = "rate" \/ (client.rateLimited /\ err # "auth"))
  BY ErrorRecorded DEF Types, ClientTypes
<1> QED BY <1>1 DEF SuspendCause, SameButCause, Types, ClientTypes, IsClient

LEMMA ExpireClient == ASSUME Types, Expire PROVE SameButCause(client, client') /\ SameCause
BY DEF Expire, SameButCause, SameCause, Types, ClientTypes, IsClient

-----------------------------------------------------------------------------------
(* One join at a time, and no join during a leave. *)
Active(g) == join[g].pc \notin {"idle", "done"}

Reservations ==
    /\ ctl.active => ~ctl.leaving
    /\ ctl.leaving <=> leaver.pc # "idle"
    /\ \A g \in Sessions : Active(g) => ctl.inflight
    /\ \A g, h \in Sessions : Active(g) /\ Active(h) => g = h

(* A join that the client let in is its session's. *)
Inside == {"fetch", "dial", "wait", "refresh", "commit", "sync", "activate", "leave", "failed", "cleanup"}

Entered == \A g \in Sessions : join[g].pc \in Inside => client.machine = g

ContextInv ==
    /\ client.context \in {0, client.machine}
    /\ client.machine # 0 => client.context = client.machine \/ client.machine \in cancelled

(* Nothing is known of a session before its join. *)
Unknown(g) ==
    /\ client.machine # g /\ client.network # g /\ leaver.network # g /\ g \notin cancelled
    /\ state[g] # "closed" /\ executor[g] = Absent
    /\ runner[g].pc = "idle" /\ runner[g].err = "none"
    /\ \A t \in Sockets : socket[t].of # g

Untouched == \A g \in Sessions : join[g].pc \in {"idle", "enter"} => Unknown(g)

JoinInv == Reservations /\ Entered /\ ContextInv /\ Untouched

LEMMA JoinInvInit == ASSUME Init PROVE JoinInv
BY Bounds DEF Init, JoinInv, Reservations, Entered, ContextInv, Untouched, Unknown, Active, Inside, NoJoin,
   NoRunner, NoSocket, Absent

LEMMA ReservationsStep ==
    ASSUME Types, Reservations, Next
    PROVE  Reservations'
<1>a. ControlTypes /\ JoinTypes
  BY DEF Types
<1>1. CASE Leave
  BY <1>1, <1>a DEF Leave, Reservations, Active, ControlTypes, JoinTypes, Joining, JoinFails, NoJoin
<1>2. CASE RetryReconnect
  <2>1. join' = join /\ ctl' = ctl /\ leaver' = leaver
    BY <1>2 DEF RetryReconnect, Quiet
  <2> QED BY <2>1 DEF Reservations, Active
<1>3. CASE recordConflictResolution
  <2>1. join' = join /\ ctl' = ctl /\ leaver' = leaver
    BY <1>3 DEF recordConflictResolution, Quiet
  <2> QED BY <2>1 DEF Reservations, Active
<1>4. ASSUME NEW g \in Sessions, Reserve(g) PROVE Reservations'
  BY <1>4, <1>a DEF Reserve, Reservations, Active, ControlTypes, JoinTypes, Joining, JoinFails, NoJoin
<1>5. CASE LeaveClient
  BY <1>5, <1>a DEF LeaveClient, Reservations, Active, ControlTypes, JoinTypes, Joining, JoinFails, NoJoin
<1>6. CASE LeaveDrop
  BY <1>6, <1>a DEF LeaveDrop, Reservations, Active, ControlTypes, JoinTypes, Joining, JoinFails, NoJoin
<1>7. CASE Expire
  <2>1. join' = join /\ ctl' = ctl /\ leaver' = leaver
    BY <1>7 DEF Expire, Quiet
  <2> QED BY <2>1 DEF Reservations, Active
<1>8. ASSUME NEW t \in Sockets, ServeRejection(t) PROVE Reservations'
  <2>1. join' = join /\ ctl' = ctl /\ leaver' = leaver
    BY <1>8 DEF ServeRejection, Quiet
  <2> QED BY <2>1 DEF Reservations, Active
<1>9. ASSUME NEW t \in Sockets, NEW e \in {"lost", "rate"}, Lose(t, e) PROVE Reservations'
  <2>1. join' = join /\ ctl' = ctl /\ leaver' = leaver
    BY <1>9 DEF Lose, Quiet
  <2> QED BY <2>1 DEF Reservations, Active
<1>10. ASSUME NEW g \in Sessions, EnterJoin(g) PROVE Reservations'
  BY <1>10, <1>a DEF EnterJoin, Reservations, Active, ControlTypes, JoinTypes, Joining, JoinFails, NoJoin
<1>11. ASSUME NEW g \in Sessions, JoinFetch(g) PROVE Reservations'
  BY <1>11, <1>a DEF JoinFetch, Reservations, Active, ControlTypes, JoinTypes, Joining, JoinFails, NoJoin
<1>12. ASSUME NEW g \in Sessions, JoinDial(g) PROVE Reservations'
  BY <1>12, <1>a DEF JoinDial, Reservations, Active, ControlTypes, JoinTypes, Joining, JoinFails, NoJoin
<1>13. ASSUME NEW g \in Sessions, JoinWait(g) PROVE Reservations'
  BY <1>13, <1>a DEF JoinWait, Reservations, Active, ControlTypes, JoinTypes, Joining, JoinFails, NoJoin
<1>14. ASSUME NEW g \in Sessions, JoinRefresh(g) PROVE Reservations'
  BY <1>14, <1>a DEF JoinRefresh, Reservations, Active, ControlTypes, JoinTypes, Joining, JoinFails, NoJoin
<1>15. ASSUME NEW g \in Sessions, JoinCommit(g) PROVE Reservations'
  BY <1>15, <1>a DEF JoinCommit, Reservations, Active, ControlTypes, JoinTypes, Joining, JoinFails, NoJoin
<1>16. ASSUME NEW g \in Sessions, JoinSync(g) PROVE Reservations'
  BY <1>16, <1>a DEF JoinSync, Reservations, Active, ControlTypes, JoinTypes, Joining, JoinFails, NoJoin
<1>17. ASSUME NEW g \in Sessions, JoinFailed(g) PROVE Reservations'
  BY <1>17, <1>a DEF JoinFailed, Reservations, Active, ControlTypes, JoinTypes, Joining, JoinFails, NoJoin
<1>18. ASSUME NEW g \in Sessions, JoinActivate(g) PROVE Reservations'
  BY <1>18, <1>a DEF JoinActivate, Reservations, Active, ControlTypes, JoinTypes, Joining, JoinFails, NoJoin
<1>19. ASSUME NEW g \in Sessions, releaseReservation(g) PROVE Reservations'
  BY <1>19, <1>a
     DEF releaseReservation, Reservations, Active, ControlTypes, JoinTypes, Joining, JoinFails, NoJoin
<1>20. ASSUME NEW g \in Sessions, JoinLeave(g) PROVE Reservations'
  BY <1>20, <1>a DEF JoinLeave, Reservations, Active, ControlTypes, JoinTypes, Joining, JoinFails, NoJoin
<1>21. ASSUME NEW g \in Sessions, AttemptBegin(g) PROVE Reservations'
  <2>1. join' = join /\ ctl' = ctl /\ leaver' = leaver
    BY <1>21 DEF AttemptBegin, Quiet
  <2> QED BY <2>1 DEF Reservations, Active
<1>22. ASSUME NEW g \in Sessions, AttemptResume(g) PROVE Reservations'
  <2>1. join' = join /\ ctl' = ctl /\ leaver' = leaver
    BY <1>22 DEF AttemptResume, Quiet
  <2> QED BY <2>1 DEF Reservations, Active
<1>23. ASSUME NEW g \in Sessions, AttemptDial(g) PROVE Reservations'
  <2>1. join' = join /\ ctl' = ctl /\ leaver' = leaver
    BY <1>23 DEF AttemptDial, Quiet
  <2> QED BY <2>1 DEF Reservations, Active
<1>24. ASSUME NEW g \in Sessions, AttemptWait(g) PROVE Reservations'
  <2>1. join' = join /\ ctl' = ctl /\ leaver' = leaver
    BY <1>24 DEF AttemptWait, Quiet
  <2> QED BY <2>1 DEF Reservations, Active
<1>25. ASSUME NEW g \in Sessions, AttemptSuspend(g) PROVE Reservations'
  <2>1. join' = join /\ ctl' = ctl /\ leaver' = leaver
    BY <1>25 DEF AttemptSuspend, Quiet
  <2> QED BY <2>1 DEF Reservations, Active
<1>26. ASSUME NEW g \in Sessions, AttemptRecord(g) PROVE Reservations'
  <2>1. join' = join /\ ctl' = ctl /\ leaver' = leaver
    BY <1>26 DEF AttemptRecord, Quiet
  <2> QED BY <2>1 DEF Reservations, Active
<1>27. ASSUME NEW g \in Sessions, AttemptRetry(g) PROVE Reservations'
  <2>1. join' = join /\ ctl' = ctl /\ leaver' = leaver
    BY <1>27 DEF AttemptRetry, Quiet
  <2> QED BY <2>1 DEF Reservations, Active
<1>28. ASSUME NEW g \in Sessions, AttemptInstall(g) PROVE Reservations'
  <2>1. join' = join /\ ctl' = ctl /\ leaver' = leaver
    BY <1>28 DEF AttemptInstall, Quiet
  <2> QED BY <2>1 DEF Reservations, Active
<1>29. ASSUME NEW g \in Sessions, AttemptSync(g) PROVE Reservations'
  <2>1. join' = join /\ ctl' = ctl /\ leaver' = leaver
    BY <1>29 DEF AttemptSync, Quiet
  <2> QED BY <2>1 DEF Reservations, Active
<1>30. ASSUME NEW g \in Sessions, ReconnectEnd(g) PROVE Reservations'
  <2>1. join' = join /\ ctl' = ctl /\ leaver' = leaver
    BY <1>30 DEF ReconnectEnd, Quiet
  <2> QED BY <2>1 DEF Reservations, Active
<1>31. ASSUME NEW t \in Sockets, MonitorWait(t) PROVE Reservations'
  <2>1. join' = join /\ ctl' = ctl /\ leaver' = leaver
    BY <1>31 DEF MonitorWait, Quiet
  <2> QED BY <2>1 DEF Reservations, Active
<1>32. ASSUME NEW t \in Sockets, MonitorSuspend(t) PROVE Reservations'
  <2>1. join' = join /\ ctl' = ctl /\ leaver' = leaver
    BY <1>32 DEF MonitorSuspend, Quiet
  <2> QED BY <2>1 DEF Reservations, Active
<1>33. ASSUME NEW t \in Sockets, MonitorRecord(t) PROVE Reservations'
  <2>1. join' = join /\ ctl' = ctl /\ leaver' = leaver
    BY <1>33 DEF MonitorRecord, Quiet
  <2> QED BY <2>1 DEF Reservations, Active
<1>34. ASSUME NEW t \in Sockets, MonitorStart(t) PROVE Reservations'
  <2>1. join' = join /\ ctl' = ctl /\ leaver' = leaver
    BY <1>34 DEF MonitorStart, Quiet
  <2> QED BY <2>1 DEF Reservations, Active
<1>35. ASSUME NEW t \in Sockets, Receive(t) PROVE Reservations'
  <2>1. join' = join /\ ctl' = ctl /\ leaver' = leaver
    BY <1>35 DEF Receive, Quiet
  <2> QED BY <2>1 DEF Reservations, Active
<1>36. ASSUME NEW t \in Sockets, ReceiveFault(t) PROVE Reservations'
  <2>1. join' = join /\ ctl' = ctl /\ leaver' = leaver
    BY <1>36 DEF ReceiveFault, Quiet
  <2> QED BY <2>1 DEF Reservations, Active
<1>37. ASSUME NEW t \in Sockets, InstallSnapshot(t) PROVE Reservations'
  <2>1. join' = join /\ ctl' = ctl /\ leaver' = leaver
    BY <1>37 DEF InstallSnapshot, Quiet
  <2> QED BY <2>1 DEF Reservations, Active
<1>38. ASSUME NEW t \in Sockets, Finish(t) PROVE Reservations'
  <2>1. join' = join /\ ctl' = ctl /\ leaver' = leaver
    BY <1>38 DEF Finish, Quiet
  <2> QED BY <2>1 DEF Reservations, Active
<1>39. ASSUME NEW t \in Sockets, ServeJoin(t) PROVE Reservations'
  <2>1. join' = join /\ ctl' = ctl /\ leaver' = leaver
    BY <1>39 DEF ServeJoin, Quiet
  <2> QED BY <2>1 DEF Reservations, Active
<1>40. ASSUME NEW t \in Sockets, ServeReplay(t) PROVE Reservations'
  <2>1. join' = join /\ ctl' = ctl /\ leaver' = leaver
    BY <1>40 DEF ServeReplay, Quiet
  <2> QED BY <2>1 DEF Reservations, Active
<1> QED
  BY <1>1, <1>2, <1>3, <1>4, <1>5, <1>6, <1>7, <1>8, <1>9, <1>10, <1>11, <1>12, <1>13,
     <1>14, <1>15, <1>16, <1>17, <1>18, <1>19, <1>20, <1>21, <1>22, <1>23, <1>24, <1>25,
     <1>26, <1>27, <1>28, <1>29, <1>30, <1>31, <1>32, <1>33, <1>34, <1>35, <1>36, <1>37,
     <1>38, <1>39, <1>40
     DEF Next, User, JoinStep, LeaveStep, AttemptStep, MonitorStep, ReadStep, ServiceStep, Network


LEMMA EnteredStep ==
    ASSUME Types, Reservations, Entered, Next
    PROVE  Entered'
<1>a. JoinTypes
  BY DEF Types
<1>1. CASE Leave
  <2>1. client'.machine = client.machine
    BY <1>1 DEF Leave, Quiet
  <2>2. \A h \in Sessions : join'[h].pc \in Inside => join[h].pc \in Inside
    BY <1>1 DEF Leave, Quiet
  <2> QED BY <2>1, <2>2 DEF Entered
<1>2. CASE RetryReconnect
  <2>1. client'.machine = client.machine
    BY <1>2, RetryClient DEF DropTokenEffect, StartEffect
  <2>2. \A h \in Sessions : join'[h].pc \in Inside => join[h].pc \in Inside
    BY <1>2 DEF RetryReconnect, Quiet
  <2> QED BY <2>1, <2>2 DEF Entered
<1>3. CASE recordConflictResolution
  <2>1. client'.machine = client.machine
    BY <1>3 DEF recordConflictResolution, Quiet
  <2>2. \A h \in Sessions : join'[h].pc \in Inside => join[h].pc \in Inside
    BY <1>3 DEF recordConflictResolution, Quiet
  <2> QED BY <2>1, <2>2 DEF Entered
<1>4. ASSUME NEW g \in Sessions, Reserve(g) PROVE Entered'
  <2>1. client'.machine = client.machine
    BY <1>4 DEF Reserve, Quiet
  <2>2. \A h \in Sessions : join'[h].pc \in Inside => join[h].pc \in Inside
    BY <1>4, <1>a DEF Reserve, JoinTypes, Joining, JoinFails, NoJoin, Inside, Quiet
  <2> QED BY <2>1, <2>2 DEF Entered
<1>5. CASE LeaveClient
  <2>1. client'.machine = client.machine
    BY <1>5, LeaveLockedClient DEF LeaveClient, LeaveEffect
  <2>2. \A h \in Sessions : join'[h].pc \in Inside => join[h].pc \in Inside
    BY <1>5 DEF LeaveClient, Quiet
  <2> QED BY <2>1, <2>2 DEF Entered
<1>6. CASE LeaveDrop
  <2>1. client'.machine = client.machine
    BY <1>6 DEF LeaveDrop, Quiet
  <2>2. \A h \in Sessions : join'[h].pc \in Inside => join[h].pc \in Inside
    BY <1>6 DEF LeaveDrop, Quiet
  <2> QED BY <2>1, <2>2 DEF Entered
<1>7. CASE Expire
  <2>1. client'.machine = client.machine
    BY <1>7, ExpireClient DEF SameButCause
  <2>2. \A h \in Sessions : join'[h].pc \in Inside => join[h].pc \in Inside
    BY <1>7 DEF Expire, Quiet
  <2> QED BY <2>1, <2>2 DEF Entered
<1>8. ASSUME NEW t \in Sockets, ServeRejection(t) PROVE Entered'
  <2>1. client'.machine = client.machine
    BY <1>8 DEF ServeRejection, Quiet
  <2>2. \A h \in Sessions : join'[h].pc \in Inside => join[h].pc \in Inside
    BY <1>8 DEF ServeRejection, Quiet
  <2> QED BY <2>1, <2>2 DEF Entered
<1>9. ASSUME NEW t \in Sockets, NEW e \in {"lost", "rate"}, Lose(t, e) PROVE Entered'
  <2>1. client'.machine = client.machine
    BY <1>9 DEF Lose, Quiet
  <2>2. \A h \in Sessions : join'[h].pc \in Inside => join[h].pc \in Inside
    BY <1>9 DEF Lose, Quiet
  <2> QED BY <2>1, <2>2 DEF Entered
<1>10. ASSUME NEW g \in Sessions, EnterJoin(g) PROVE Entered'
  <2>1. \A h \in Sessions : h # g => join'[h] = join[h]
    BY <1>10, <1>a DEF EnterJoin, JoinTypes, Joining
  <2>2. CASE client' = client /\ join'[g].pc = "release"
    BY <2>1, <2>2 DEF Entered, Inside
  <2>3. CASE EnterEffect(g)
    <3>1. Active(g)
      BY <1>10 DEF EnterJoin, Active
    <3>2. \A h \in Sessions : join[h].pc \in Inside => Active(h)
      BY DEF Active, Inside
    <3> QED BY <2>1, <2>3, <3>1, <3>2 DEF Entered, Reservations, EnterEffect
  <2> QED BY <1>10, <2>2, <2>3, EnterJoinClient
<1>11. ASSUME NEW g \in Sessions, JoinFetch(g) PROVE Entered'
  <2>1. client'.machine = client.machine
    BY <1>11 DEF JoinFetch, Quiet
  <2>2. \A h \in Sessions : join'[h].pc \in Inside => join[h].pc \in Inside
    BY <1>11, <1>a DEF JoinFetch, JoinTypes, Joining, JoinFails, NoJoin, Inside, Quiet
  <2> QED BY <2>1, <2>2 DEF Entered
<1>12. ASSUME NEW g \in Sessions, JoinDial(g) PROVE Entered'
  <2>1. client'.machine = client.machine
    BY <1>12 DEF JoinDial, Quiet
  <2>2. \A h \in Sessions : join'[h].pc \in Inside => join[h].pc \in Inside
    BY <1>12, <1>a DEF JoinDial, JoinTypes, Joining, JoinFails, NoJoin, Inside, Quiet
  <2> QED BY <2>1, <2>2 DEF Entered
<1>13. ASSUME NEW g \in Sessions, JoinWait(g) PROVE Entered'
  <2>1. client'.machine = client.machine
    BY <1>13 DEF JoinWait, Quiet
  <2>2. \A h \in Sessions : join'[h].pc \in Inside => join[h].pc \in Inside
    BY <1>13, <1>a DEF JoinWait, JoinTypes, Joining, JoinFails, NoJoin, Inside, Quiet
  <2> QED BY <2>1, <2>2 DEF Entered
<1>14. ASSUME NEW g \in Sessions, JoinRefresh(g) PROVE Entered'
  <2>1. client'.machine = client.machine
    BY <1>14 DEF JoinRefresh, Quiet
  <2>2. \A h \in Sessions : join'[h].pc \in Inside => join[h].pc \in Inside
    BY <1>14, <1>a DEF JoinRefresh, JoinTypes, Joining, JoinFails, NoJoin, Inside, Quiet
  <2> QED BY <2>1, <2>2 DEF Entered
<1>15. ASSUME NEW g \in Sessions, JoinCommit(g) PROVE Entered'
  <2>1. client'.machine = client.machine
    BY <1>15, JoinCommitClient DEF InstallEffect
  <2>2. \A h \in Sessions : join'[h].pc \in Inside => join[h].pc \in Inside
    BY <1>15, <1>a DEF JoinCommit, JoinTypes, Joining, JoinFails, NoJoin, Inside, Quiet
  <2> QED BY <2>1, <2>2 DEF Entered
<1>16. ASSUME NEW g \in Sessions, JoinSync(g) PROVE Entered'
  <2>1. client'.machine = client.machine
    BY <1>16 DEF JoinSync, Quiet
  <2>2. \A h \in Sessions : join'[h].pc \in Inside => join[h].pc \in Inside
    BY <1>16, <1>a DEF JoinSync, JoinTypes, Joining, JoinFails, NoJoin, Inside, Quiet
  <2> QED BY <2>1, <2>2 DEF Entered
<1>17. ASSUME NEW g \in Sessions, JoinFailed(g) PROVE Entered'
  <2>1. client'.machine = client.machine
    <3>1. join[g].pc \in Inside
      BY <1>17 DEF JoinFailed, Inside
    <3> QED BY <1>17, <3>1, JoinFailedClient DEF Entered, FailEffect
  <2>2. \A h \in Sessions : join'[h].pc \in Inside => join[h].pc \in Inside
    BY <1>17, <1>a DEF JoinFailed, JoinTypes, Joining, JoinFails, NoJoin, Inside, Quiet
  <2> QED BY <2>1, <2>2 DEF Entered
<1>18. ASSUME NEW g \in Sessions, JoinActivate(g) PROVE Entered'
  <2>1. client'.machine = client.machine
    BY <1>18 DEF JoinActivate, Quiet
  <2>2. \A h \in Sessions : join'[h].pc \in Inside => join[h].pc \in Inside
    BY <1>18, <1>a DEF JoinActivate, JoinTypes, Joining, JoinFails, NoJoin, Inside, Quiet
  <2> QED BY <2>1, <2>2 DEF Entered
<1>19. ASSUME NEW g \in Sessions, releaseReservation(g) PROVE Entered'
  <2>1. client'.machine = client.machine
    BY <1>19 DEF releaseReservation, Quiet
  <2>2. \A h \in Sessions : join'[h].pc \in Inside => join[h].pc \in Inside
    BY <1>19, <1>a DEF releaseReservation, JoinTypes, Joining, JoinFails, NoJoin, Inside, Quiet
  <2> QED BY <2>1, <2>2 DEF Entered
<1>20. ASSUME NEW g \in Sessions, JoinLeave(g) PROVE Entered'
  <2>1. client'.machine = client.machine
    BY <1>20, LeaveLockedClient DEF JoinLeave, LeaveEffect
  <2>2. \A h \in Sessions : join'[h].pc \in Inside => join[h].pc \in Inside
    BY <1>20, <1>a DEF JoinLeave, JoinTypes, Joining, JoinFails, NoJoin, Inside, Quiet
  <2> QED BY <2>1, <2>2 DEF Entered
<1>21. ASSUME NEW g \in Sessions, AttemptBegin(g) PROVE Entered'
  <2>1. client'.machine = client.machine
    BY <1>21 DEF AttemptBegin, Quiet
  <2>2. \A h \in Sessions : join'[h].pc \in Inside => join[h].pc \in Inside
    BY <1>21 DEF AttemptBegin, Quiet
  <2> QED BY <2>1, <2>2 DEF Entered
<1>22. ASSUME NEW g \in Sessions, AttemptResume(g) PROVE Entered'
  <2>1. client'.machine = client.machine
    BY <1>22 DEF AttemptResume, Quiet
  <2>2. \A h \in Sessions : join'[h].pc \in Inside => join[h].pc \in Inside
    BY <1>22 DEF AttemptResume, Quiet
  <2> QED BY <2>1, <2>2 DEF Entered
<1>23. ASSUME NEW g \in Sessions, AttemptDial(g) PROVE Entered'
  <2>1. client'.machine = client.machine
    BY <1>23 DEF AttemptDial, Quiet
  <2>2. \A h \in Sessions : join'[h].pc \in Inside => join[h].pc \in Inside
    BY <1>23 DEF AttemptDial, Quiet
  <2> QED BY <2>1, <2>2 DEF Entered
<1>24. ASSUME NEW g \in Sessions, AttemptWait(g) PROVE Entered'
  <2>1. client'.machine = client.machine
    BY <1>24 DEF AttemptWait, Quiet
  <2>2. \A h \in Sessions : join'[h].pc \in Inside => join[h].pc \in Inside
    BY <1>24 DEF AttemptWait, Quiet
  <2> QED BY <2>1, <2>2 DEF Entered
<1>25. ASSUME NEW g \in Sessions, AttemptSuspend(g) PROVE Entered'
  <2>1. client'.machine = client.machine
    BY <1>25, SuspendClient DEF AttemptSuspend, SameButCause
  <2>2. \A h \in Sessions : join'[h].pc \in Inside => join[h].pc \in Inside
    BY <1>25 DEF AttemptSuspend, Quiet
  <2> QED BY <2>1, <2>2 DEF Entered
<1>26. ASSUME NEW g \in Sessions, AttemptRecord(g) PROVE Entered'
  <2>1. client'.machine = client.machine
    BY <1>26, RecordClient DEF AttemptRecord, SameButCause
  <2>2. \A h \in Sessions : join'[h].pc \in Inside => join[h].pc \in Inside
    BY <1>26 DEF AttemptRecord, Quiet
  <2> QED BY <2>1, <2>2 DEF Entered
<1>27. ASSUME NEW g \in Sessions, AttemptRetry(g) PROVE Entered'
  <2>1. client'.machine = client.machine
    BY <1>27 DEF AttemptRetry, Quiet
  <2>2. \A h \in Sessions : join'[h].pc \in Inside => join[h].pc \in Inside
    BY <1>27 DEF AttemptRetry, Quiet
  <2> QED BY <2>1, <2>2 DEF Entered
<1>28. ASSUME NEW g \in Sessions, AttemptInstall(g) PROVE Entered'
  <2>1. client'.machine = client.machine
    BY <1>28, AttemptInstallClient DEF InstallEffect
  <2>2. \A h \in Sessions : join'[h].pc \in Inside => join[h].pc \in Inside
    BY <1>28 DEF AttemptInstall, Quiet
  <2> QED BY <2>1, <2>2 DEF Entered
<1>29. ASSUME NEW g \in Sessions, AttemptSync(g) PROVE Entered'
  <2>1. client'.machine = client.machine
    BY <1>29 DEF AttemptSync, Quiet
  <2>2. \A h \in Sessions : join'[h].pc \in Inside => join[h].pc \in Inside
    BY <1>29 DEF AttemptSync, Quiet
  <2> QED BY <2>1, <2>2 DEF Entered
<1>30. ASSUME NEW g \in Sessions, ReconnectEnd(g) PROVE Entered'
  <2>1. client'.machine = client.machine
    BY <1>30, ReconnectEndClient DEF EndEffect
  <2>2. \A h \in Sessions : join'[h].pc \in Inside => join[h].pc \in Inside
    BY <1>30 DEF ReconnectEnd, Quiet
  <2> QED BY <2>1, <2>2 DEF Entered
<1>31. ASSUME NEW t \in Sockets, MonitorWait(t) PROVE Entered'
  <2>1. client'.machine = client.machine
    BY <1>31 DEF MonitorWait, Quiet
  <2>2. \A h \in Sessions : join'[h].pc \in Inside => join[h].pc \in Inside
    BY <1>31 DEF MonitorWait, Quiet
  <2> QED BY <2>1, <2>2 DEF Entered
<1>32. ASSUME NEW t \in Sockets, MonitorSuspend(t) PROVE Entered'
  <2>1. client'.machine = client.machine
    BY <1>32, SuspendClient DEF MonitorSuspend, SameButCause
  <2>2. \A h \in Sessions : join'[h].pc \in Inside => join[h].pc \in Inside
    BY <1>32 DEF MonitorSuspend, Quiet
  <2> QED BY <2>1, <2>2 DEF Entered
<1>33. ASSUME NEW t \in Sockets, MonitorRecord(t) PROVE Entered'
  <2>1. client'.machine = client.machine
    BY <1>33, RecordClient DEF MonitorRecord, SameButCause
  <2>2. \A h \in Sessions : join'[h].pc \in Inside => join[h].pc \in Inside
    BY <1>33 DEF MonitorRecord, Quiet
  <2> QED BY <2>1, <2>2 DEF Entered
<1>34. ASSUME NEW t \in Sockets, MonitorStart(t) PROVE Entered'
  <2>1. client'.machine = client.machine
    BY <1>34, StartClient, OwnedMonitor DEF MonitorStart, StartEffect
  <2>2. \A h \in Sessions : join'[h].pc \in Inside => join[h].pc \in Inside
    BY <1>34 DEF MonitorStart, Quiet
  <2> QED BY <2>1, <2>2 DEF Entered
<1>35. ASSUME NEW t \in Sockets, Receive(t) PROVE Entered'
  <2>1. client'.machine = client.machine
    BY <1>35, ReceiveClient DEF JoinedEffect
  <2>2. \A h \in Sessions : join'[h].pc \in Inside => join[h].pc \in Inside
    BY <1>35 DEF Receive, Quiet
  <2> QED BY <2>1, <2>2 DEF Entered
<1>36. ASSUME NEW t \in Sockets, ReceiveFault(t) PROVE Entered'
  <2>1. client'.machine = client.machine
    BY <1>36 DEF ReceiveFault, Quiet
  <2>2. \A h \in Sessions : join'[h].pc \in Inside => join[h].pc \in Inside
    BY <1>36 DEF ReceiveFault, Quiet
  <2> QED BY <2>1, <2>2 DEF Entered
<1>37. ASSUME NEW t \in Sockets, InstallSnapshot(t) PROVE Entered'
  <2>1. client'.machine = client.machine
    BY <1>37 DEF InstallSnapshot, Quiet
  <2>2. \A h \in Sessions : join'[h].pc \in Inside => join[h].pc \in Inside
    BY <1>37 DEF InstallSnapshot, Quiet
  <2> QED BY <2>1, <2>2 DEF Entered
<1>38. ASSUME NEW t \in Sockets, Finish(t) PROVE Entered'
  <2>1. client'.machine = client.machine
    BY <1>38 DEF Finish, Quiet
  <2>2. \A h \in Sessions : join'[h].pc \in Inside => join[h].pc \in Inside
    BY <1>38 DEF Finish, Quiet
  <2> QED BY <2>1, <2>2 DEF Entered
<1>39. ASSUME NEW t \in Sockets, ServeJoin(t) PROVE Entered'
  <2>1. client'.machine = client.machine
    BY <1>39 DEF ServeJoin, Quiet
  <2>2. \A h \in Sessions : join'[h].pc \in Inside => join[h].pc \in Inside
    BY <1>39 DEF ServeJoin, Quiet
  <2> QED BY <2>1, <2>2 DEF Entered
<1>40. ASSUME NEW t \in Sockets, ServeReplay(t) PROVE Entered'
  <2>1. client'.machine = client.machine
    BY <1>40 DEF ServeReplay, Quiet
  <2>2. \A h \in Sessions : join'[h].pc \in Inside => join[h].pc \in Inside
    BY <1>40 DEF ServeReplay, Quiet
  <2> QED BY <2>1, <2>2 DEF Entered
<1> QED
  BY <1>1, <1>2, <1>3, <1>4, <1>5, <1>6, <1>7, <1>8, <1>9, <1>10, <1>11, <1>12, <1>13,
     <1>14, <1>15, <1>16, <1>17, <1>18, <1>19, <1>20, <1>21, <1>22, <1>23, <1>24, <1>25,
     <1>26, <1>27, <1>28, <1>29, <1>30, <1>31, <1>32, <1>33, <1>34, <1>35, <1>36, <1>37,
     <1>38, <1>39, <1>40
     DEF Next, User, JoinStep, LeaveStep, AttemptStep, MonitorStep, ReadStep, ServiceStep, Network


LEMMA ContextStep ==
    ASSUME Types, Entered, ContextInv, Next
    PROVE  ContextInv'
<1>1. CASE Leave
  BY <1>1 DEF Leave, Quiet, ContextInv
<1>2. CASE RetryReconnect
  <2>1. cancelled' = cancelled
    BY <1>2 DEF RetryReconnect
  <2> QED BY <1>2, <2>1, RetryClient DEF DropTokenEffect, StartEffect, ContextInv
<1>3. CASE recordConflictResolution
  BY <1>3 DEF recordConflictResolution, Quiet, ContextInv
<1>4. ASSUME NEW g \in Sessions, Reserve(g) PROVE ContextInv'
  BY <1>4 DEF Reserve, Quiet, ContextInv
<1>5. CASE LeaveClient
  BY <1>5, LeaveLockedClient, Bounds DEF LeaveClient, LeaveEffect, LeaveLocked, ContextInv
<1>6. CASE LeaveDrop
  BY <1>6 DEF LeaveDrop, Quiet, ContextInv
<1>7. CASE Expire
  <2>1. cancelled' = cancelled
    BY <1>7 DEF Expire
  <2> QED BY <1>7, <2>1, ExpireClient DEF SameButCause, ContextInv
<1>8. ASSUME NEW t \in Sockets, ServeRejection(t) PROVE ContextInv'
  BY <1>8 DEF ServeRejection, Quiet, ContextInv
<1>9. ASSUME NEW t \in Sockets, NEW e \in {"lost", "rate"}, Lose(t, e) PROVE ContextInv'
  BY <1>9 DEF Lose, Quiet, ContextInv
<1>10. ASSUME NEW g \in Sessions, EnterJoin(g) PROVE ContextInv'
  <2>1. CASE client' = client /\ cancelled' = cancelled
    BY <2>1 DEF ContextInv
  <2>2. CASE EnterEffect(g)
    BY <2>2 DEF EnterEffect, ContextInv
  <2> QED BY <1>10, <2>1, <2>2, EnterJoinClient
<1>11. ASSUME NEW g \in Sessions, JoinFetch(g) PROVE ContextInv'
  BY <1>11 DEF JoinFetch, Quiet, ContextInv
<1>12. ASSUME NEW g \in Sessions, JoinDial(g) PROVE ContextInv'
  BY <1>12 DEF JoinDial, Quiet, ContextInv
<1>13. ASSUME NEW g \in Sessions, JoinWait(g) PROVE ContextInv'
  BY <1>13 DEF JoinWait, Quiet, ContextInv
<1>14. ASSUME NEW g \in Sessions, JoinRefresh(g) PROVE ContextInv'
  BY <1>14 DEF JoinRefresh, Quiet, ContextInv
<1>15. ASSUME NEW g \in Sessions, JoinCommit(g) PROVE ContextInv'
  <2>1. cancelled' = cancelled
    BY <1>15 DEF JoinCommit
  <2> QED BY <1>15, <2>1, JoinCommitClient DEF InstallEffect, ContextInv
<1>16. ASSUME NEW g \in Sessions, JoinSync(g) PROVE ContextInv'
  BY <1>16 DEF JoinSync, Quiet, ContextInv
<1>17. ASSUME NEW g \in Sessions, JoinFailed(g) PROVE ContextInv'
  <2>1. join[g].pc \in Inside
    BY <1>17 DEF JoinFailed, Inside
  <2>2. client.machine = g /\ cancelled' = cancelled \cup {g}
    BY <1>17, <2>1 DEF Entered, JoinFailed
  <2> QED BY <1>17, <2>2, JoinFailedClient DEF ContextInv, FailEffect
<1>18. ASSUME NEW g \in Sessions, JoinActivate(g) PROVE ContextInv'
  BY <1>18 DEF JoinActivate, Quiet, ContextInv
<1>19. ASSUME NEW g \in Sessions, releaseReservation(g) PROVE ContextInv'
  BY <1>19 DEF releaseReservation, Quiet, ContextInv
<1>20. ASSUME NEW g \in Sessions, JoinLeave(g) PROVE ContextInv'
  BY <1>20, LeaveLockedClient, Bounds DEF JoinLeave, LeaveEffect, LeaveLocked, ContextInv
<1>21. ASSUME NEW g \in Sessions, AttemptBegin(g) PROVE ContextInv'
  BY <1>21 DEF AttemptBegin, Quiet, ContextInv
<1>22. ASSUME NEW g \in Sessions, AttemptResume(g) PROVE ContextInv'
  BY <1>22 DEF AttemptResume, Quiet, ContextInv
<1>23. ASSUME NEW g \in Sessions, AttemptDial(g) PROVE ContextInv'
  BY <1>23 DEF AttemptDial, Quiet, ContextInv
<1>24. ASSUME NEW g \in Sessions, AttemptWait(g) PROVE ContextInv'
  BY <1>24 DEF AttemptWait, Quiet, ContextInv
<1>25. ASSUME NEW g \in Sessions, AttemptSuspend(g) PROVE ContextInv'
  <2>1. cancelled' = cancelled
    BY <1>25 DEF AttemptSuspend
  <2> QED BY <1>25, <2>1, SuspendClient DEF AttemptSuspend, SameButCause, ContextInv
<1>26. ASSUME NEW g \in Sessions, AttemptRecord(g) PROVE ContextInv'
  <2>1. cancelled' = cancelled
    BY <1>26 DEF AttemptRecord
  <2> QED BY <1>26, <2>1, RecordClient DEF AttemptRecord, SameButCause, ContextInv
<1>27. ASSUME NEW g \in Sessions, AttemptRetry(g) PROVE ContextInv'
  BY <1>27 DEF AttemptRetry, Quiet, ContextInv
<1>28. ASSUME NEW g \in Sessions, AttemptInstall(g) PROVE ContextInv'
  <2>1. cancelled' = cancelled
    BY <1>28 DEF AttemptInstall
  <2> QED BY <1>28, <2>1, AttemptInstallClient DEF InstallEffect, ContextInv
<1>29. ASSUME NEW g \in Sessions, AttemptSync(g) PROVE ContextInv'
  BY <1>29 DEF AttemptSync, Quiet, ContextInv
<1>30. ASSUME NEW g \in Sessions, ReconnectEnd(g) PROVE ContextInv'
  <2>1. cancelled' = cancelled
    BY <1>30 DEF ReconnectEnd
  <2> QED BY <1>30, <2>1, ReconnectEndClient DEF EndEffect, ContextInv
<1>31. ASSUME NEW t \in Sockets, MonitorWait(t) PROVE ContextInv'
  BY <1>31 DEF MonitorWait, Quiet, ContextInv
<1>32. ASSUME NEW t \in Sockets, MonitorSuspend(t) PROVE ContextInv'
  <2>1. cancelled' = cancelled
    BY <1>32 DEF MonitorSuspend
  <2> QED BY <1>32, <2>1, SuspendClient DEF MonitorSuspend, SameButCause, ContextInv
<1>33. ASSUME NEW t \in Sockets, MonitorRecord(t) PROVE ContextInv'
  <2>1. cancelled' = cancelled
    BY <1>33 DEF MonitorRecord
  <2> QED BY <1>33, <2>1, RecordClient DEF MonitorRecord, SameButCause, ContextInv
<1>34. ASSUME NEW t \in Sockets, MonitorStart(t) PROVE ContextInv'
  <2>1. cancelled' = cancelled
    BY <1>34 DEF MonitorStart
  <2> QED BY <1>34, <2>1, StartClient, OwnedMonitor DEF MonitorStart, StartEffect, ContextInv
<1>35. ASSUME NEW t \in Sockets, Receive(t) PROVE ContextInv'
  <2>1. cancelled' = cancelled
    BY <1>35 DEF Receive
  <2> QED BY <1>35, <2>1, ReceiveClient DEF JoinedEffect, ContextInv
<1>36. ASSUME NEW t \in Sockets, ReceiveFault(t) PROVE ContextInv'
  BY <1>36 DEF ReceiveFault, Quiet, ContextInv
<1>37. ASSUME NEW t \in Sockets, InstallSnapshot(t) PROVE ContextInv'
  BY <1>37 DEF InstallSnapshot, Quiet, ContextInv
<1>38. ASSUME NEW t \in Sockets, Finish(t) PROVE ContextInv'
  BY <1>38 DEF Finish, Quiet, ContextInv
<1>39. ASSUME NEW t \in Sockets, ServeJoin(t) PROVE ContextInv'
  BY <1>39 DEF ServeJoin, Quiet, ContextInv
<1>40. ASSUME NEW t \in Sockets, ServeReplay(t) PROVE ContextInv'
  BY <1>40 DEF ServeReplay, Quiet, ContextInv
<1> QED
  BY <1>1, <1>2, <1>3, <1>4, <1>5, <1>6, <1>7, <1>8, <1>9, <1>10, <1>11, <1>12, <1>13,
     <1>14, <1>15, <1>16, <1>17, <1>18, <1>19, <1>20, <1>21, <1>22, <1>23, <1>24, <1>25,
     <1>26, <1>27, <1>28, <1>29, <1>30, <1>31, <1>32, <1>33, <1>34, <1>35, <1>36, <1>37,
     <1>38, <1>39, <1>40
     DEF Next, User, JoinStep, LeaveStep, AttemptStep, MonitorStep, ReadStep, ServiceStep, Network



LEMMA UntouchedStep ==
    ASSUME Types, Entered, ContextInv, Untouched, Next
    PROVE  Untouched'
<1> SUFFICES ASSUME NEW h \in Sessions, join'[h].pc \in {"idle", "enter"} PROVE Unknown(h)'
  BY DEF Untouched
<1>h. join'[h].pc \in {"idle", "enter"}
  OBVIOUS
<1>k. SocketsKept
  BY SocketsKeptStep
<1>a. JoinTypes
  BY DEF Types
<1>b. ControlTypes /\ RunnerTypes /\ SocketTypes
  BY DEF Types
<1>1. CASE Leave
  <2>0. join[h].pc \in {"idle", "enter"} /\ Unknown(h)
    BY <1>1 DEF Leave, Quiet, Untouched
  <2>1. client'.machine # h /\ client'.network # h
    BY <1>1, <2>0 DEF Leave, Quiet, Unknown
  <2>2. leaver'.network # h /\ h \notin cancelled'
    BY <1>1, <2>0, <1>b, Bounds DEF Unknown, ContextInv, Leave, LeaveLocked, Quiet
  <2>3. state'[h] # "closed"
    BY <1>1, <2>0 DEF Leave, Quiet, Unknown
  <2>4. executor'[h] = Absent
    BY <1>1, <2>0, <1>b DEF Leave, Quiet, Unknown, Suspended, ControlTypes
  <2>5. runner'[h] = runner[h]
    BY <1>1 DEF Leave, Quiet
  <2>6. \A v \in Sockets : socket'[v].of # h
    BY <1>k, <2>0 DEF SocketsKept, Kept, Dials, Unknown
  <2> QED BY <2>0, <2>1, <2>2, <2>3, <2>4, <2>5, <2>6 DEF Unknown
<1>2. CASE RetryReconnect
  <2>0. join[h].pc \in {"idle", "enter"} /\ Unknown(h)
    BY <1>2 DEF RetryReconnect, Quiet, Untouched
  <2>1. client'.machine # h /\ client'.network # h
    BY <1>2, <2>0, RetryClient DEF DropTokenEffect, StartEffect, Unknown
  <2>2. leaver'.network # h /\ h \notin cancelled'
    BY <1>2, <2>0, <1>b, Bounds DEF Unknown, ContextInv, RetryReconnect, LeaveLocked, Quiet
  <2>3. state'[h] # "closed"
    BY <1>2, <2>0 DEF RetryReconnect, Quiet, Unknown
  <2>4. executor'[h] = Absent
    BY <1>2, <2>0, <1>b DEF RetryReconnect, Quiet, Unknown, Suspended, ControlTypes
  <2>5. runner'[h] = runner[h]
    BY <1>2, <2>0, RetryClient DEF DropTokenEffect, StartEffect, Unknown
  <2>6. \A v \in Sockets : socket'[v].of # h
    BY <1>k, <2>0 DEF SocketsKept, Kept, Dials, Unknown
  <2> QED BY <2>0, <2>1, <2>2, <2>3, <2>4, <2>5, <2>6 DEF Unknown
<1>3. CASE recordConflictResolution
  <2>0. join[h].pc \in {"idle", "enter"} /\ Unknown(h)
    BY <1>3 DEF recordConflictResolution, Quiet, Untouched
  <2>1. client'.machine # h /\ client'.network # h
    BY <1>3, <2>0 DEF recordConflictResolution, Quiet, Unknown
  <2>2. leaver'.network # h /\ h \notin cancelled'
    BY <1>3, <2>0, <1>b, Bounds DEF Unknown, ContextInv, recordConflictResolution, LeaveLocked, Quiet
  <2>3. state'[h] # "closed"
    <3>1. client.network \in Sessions
      BY <1>3, Bounds DEF recordConflictResolution, Types, ClientTypes, IsClient
    <3> QED BY <1>3, <3>1, <2>0, ApplyResult, EventNames DEF recordConflictResolution, Unknown, Stepped
  <2>4. executor'[h] = Absent
    BY <1>3, <2>0, <1>b DEF recordConflictResolution, Quiet, Unknown, Suspended, ControlTypes
  <2>5. runner'[h] = runner[h]
    BY <1>3 DEF recordConflictResolution, Quiet
  <2>6. \A v \in Sockets : socket'[v].of # h
    BY <1>k, <2>0 DEF SocketsKept, Kept, Dials, Unknown
  <2> QED BY <2>0, <2>1, <2>2, <2>3, <2>4, <2>5, <2>6 DEF Unknown
<1>4. ASSUME NEW g \in Sessions, Reserve(g) PROVE Unknown(h)'
  <2>0. join[h].pc \in {"idle", "enter"} /\ Unknown(h)
    BY <1>4, <1>a DEF Reserve, JoinTypes, Joining, JoinFails, NoJoin, Untouched
  <2>1. client'.machine # h /\ client'.network # h
    BY <1>4, <2>0 DEF Reserve, Quiet, Unknown
  <2>2. leaver'.network # h /\ h \notin cancelled'
    BY <1>4, <2>0, <1>b, Bounds DEF Unknown, ContextInv, Reserve, LeaveLocked, Quiet
  <2>3. state'[h] # "closed"
    BY <1>4, <2>0 DEF Reserve, Quiet, Unknown
  <2>4. executor'[h] = Absent
    BY <1>4, <2>0, <1>b DEF Reserve, Quiet, Unknown, Suspended, ControlTypes
  <2>5. runner'[h] = runner[h]
    BY <1>4 DEF Reserve, Quiet
  <2>6. \A v \in Sockets : socket'[v].of # h
    BY <1>k, <2>0 DEF SocketsKept, Kept, Dials, Unknown
  <2> QED BY <2>0, <2>1, <2>2, <2>3, <2>4, <2>5, <2>6 DEF Unknown
<1>5. CASE LeaveClient
  <2>0. join[h].pc \in {"idle", "enter"} /\ Unknown(h)
    BY <1>5 DEF LeaveClient, Quiet, Untouched
  <2>1. client'.machine # h /\ client'.network # h
    BY <1>5, <2>0, LeaveLockedClient, Bounds DEF LeaveClient, LeaveEffect, Unknown
  <2>2. leaver'.network # h /\ h \notin cancelled'
    BY <1>5, <2>0, <1>b, Bounds DEF Unknown, ContextInv, LeaveClient, LeaveLocked, Quiet
  <2>3. state'[h] # "closed"
    <3>1. client.machine = 0 \/ client.machine \in Sessions
      BY Bounds DEF Types, ClientTypes, IsClient
    <3> QED BY <1>5, <2>0, <3>1, ApplyResult, EventNames DEF LeaveClient, LeaveLocked, Unknown, Stepped
  <2>4. executor'[h] = Absent
    BY <1>5, <2>0, <1>b DEF LeaveClient, Quiet, Unknown, Suspended, ControlTypes
  <2>5. runner'[h] = runner[h]
    BY <1>5 DEF LeaveClient, Quiet
  <2>6. \A v \in Sockets : socket'[v].of # h
    BY <1>k, <2>0 DEF SocketsKept, Kept, Dials, Unknown
  <2> QED BY <2>0, <2>1, <2>2, <2>3, <2>4, <2>5, <2>6 DEF Unknown
<1>6. CASE LeaveDrop
  <2>0. join[h].pc \in {"idle", "enter"} /\ Unknown(h)
    BY <1>6 DEF LeaveDrop, Quiet, Untouched
  <2>1. client'.machine # h /\ client'.network # h
    BY <1>6, <2>0 DEF LeaveDrop, Quiet, Unknown
  <2>2. leaver'.network # h /\ h \notin cancelled'
    BY <1>6, <2>0, <1>b, Bounds DEF Unknown, ContextInv, LeaveDrop, LeaveLocked, Quiet
  <2>3. state'[h] # "closed"
    BY <1>6, <2>0 DEF LeaveDrop, Quiet, Unknown
  <2>4. executor'[h] = Absent
    BY <1>6, <2>0, <1>b DEF LeaveDrop, Dropped, Unknown, ControlTypes
  <2>5. runner'[h] = runner[h]
    BY <1>6 DEF LeaveDrop, Quiet
  <2>6. \A v \in Sockets : socket'[v].of # h
    BY <1>k, <2>0 DEF SocketsKept, Kept, Dials, Unknown
  <2> QED BY <2>0, <2>1, <2>2, <2>3, <2>4, <2>5, <2>6 DEF Unknown
<1>7. CASE Expire
  <2>0. join[h].pc \in {"idle", "enter"} /\ Unknown(h)
    BY <1>7 DEF Expire, Quiet, Untouched
  <2>1. client'.machine # h /\ client'.network # h
    BY <1>7, <2>0, ExpireClient DEF SameButCause, Unknown
  <2>2. leaver'.network # h /\ h \notin cancelled'
    BY <1>7, <2>0, <1>b, Bounds DEF Unknown, ContextInv, Expire, LeaveLocked, Quiet
  <2>3. state'[h] # "closed"
    BY <1>7, <2>0 DEF Expire, Quiet, Unknown
  <2>4. executor'[h] = Absent
    BY <1>7, <2>0, <1>b DEF Expire, Quiet, Unknown, Suspended, ControlTypes
  <2>5. runner'[h] = runner[h]
    BY <1>7 DEF Expire, Quiet
  <2>6. \A v \in Sockets : socket'[v].of # h
    BY <1>k, <2>0 DEF SocketsKept, Kept, Dials, Unknown
  <2> QED BY <2>0, <2>1, <2>2, <2>3, <2>4, <2>5, <2>6 DEF Unknown
<1>8. ASSUME NEW t \in Sockets, ServeRejection(t) PROVE Unknown(h)'
  <2>0. join[h].pc \in {"idle", "enter"} /\ Unknown(h)
    BY <1>8 DEF ServeRejection, Quiet, Untouched
  <2>1. client'.machine # h /\ client'.network # h
    BY <1>8, <2>0 DEF ServeRejection, Quiet, Unknown
  <2>2. leaver'.network # h /\ h \notin cancelled'
    BY <1>8, <2>0, <1>b, Bounds DEF Unknown, ContextInv, ServeRejection, LeaveLocked, Quiet
  <2>3. state'[h] # "closed"
    BY <1>8, <2>0 DEF ServeRejection, Quiet, Unknown
  <2>4. executor'[h] = Absent
    BY <1>8, <2>0, <1>b DEF ServeRejection, Quiet, Unknown, Suspended, ControlTypes
  <2>5. runner'[h] = runner[h]
    BY <1>8 DEF ServeRejection, Quiet
  <2>6. \A v \in Sockets : socket'[v].of # h
    BY <1>k, <2>0 DEF SocketsKept, Kept, Dials, Unknown
  <2> QED BY <2>0, <2>1, <2>2, <2>3, <2>4, <2>5, <2>6 DEF Unknown
<1>9. ASSUME NEW t \in Sockets, NEW e \in {"lost", "rate"}, Lose(t, e) PROVE Unknown(h)'
  <2>0. join[h].pc \in {"idle", "enter"} /\ Unknown(h)
    BY <1>9 DEF Lose, Quiet, Untouched
  <2>1. client'.machine # h /\ client'.network # h
    BY <1>9, <2>0 DEF Lose, Quiet, Unknown
  <2>2. leaver'.network # h /\ h \notin cancelled'
    BY <1>9, <2>0, <1>b, Bounds DEF Unknown, ContextInv, Lose, LeaveLocked, Quiet
  <2>3. state'[h] # "closed"
    BY <1>9, <2>0 DEF Lose, Quiet, Unknown
  <2>4. executor'[h] = Absent
    BY <1>9, <2>0, <1>b DEF Lose, Quiet, Unknown, Suspended, ControlTypes
  <2>5. runner'[h] = runner[h]
    BY <1>9 DEF Lose, Quiet
  <2>6. \A v \in Sockets : socket'[v].of # h
    BY <1>k, <2>0 DEF SocketsKept, Kept, Dials, Unknown
  <2> QED BY <2>0, <2>1, <2>2, <2>3, <2>4, <2>5, <2>6 DEF Unknown
<1>10. ASSUME NEW g \in Sessions, EnterJoin(g) PROVE Unknown(h)'
  <2>0. join[h].pc \in {"idle", "enter"} /\ Unknown(h)
    BY <1>10, <1>a DEF EnterJoin, JoinTypes, Joining, JoinFails, NoJoin, Untouched
  <2>1. client'.machine # h /\ client'.network # h
    <3>1. h # g
      BY <1>10, <1>h, EnterJoinClient
    <3> QED BY <1>10, <3>1, <2>0, EnterJoinClient DEF EnterEffect, Unknown
  <2>2. leaver'.network # h /\ h \notin cancelled'
    BY <1>10, <2>0, EnterJoinClient DEF Unknown, ContextInv, EnterJoin
  <2>3. state'[h] # "closed"
    <3>1. state' = state \/ state' = Apply(g, "connect")
      BY <1>10 DEF EnterJoin
    <3> QED BY <3>1, <2>0, ApplyResult, EventNames DEF Unknown, Stepped
  <2>4. executor'[h] = Absent
    BY <1>10, <2>0, <1>b DEF EnterJoin, Quiet, Unknown, Suspended, ControlTypes
  <2>5. runner'[h] = runner[h]
    BY <1>10 DEF EnterJoin, Quiet
  <2>6. \A v \in Sockets : socket'[v].of # h
    BY <1>k, <2>0 DEF SocketsKept, Kept, Dials, Unknown
  <2> QED BY <2>0, <2>1, <2>2, <2>3, <2>4, <2>5, <2>6 DEF Unknown
<1>11. ASSUME NEW g \in Sessions, JoinFetch(g) PROVE Unknown(h)'
  <2>0. join[h].pc \in {"idle", "enter"} /\ Unknown(h)
    BY <1>11, <1>a DEF JoinFetch, JoinTypes, Joining, JoinFails, NoJoin, Untouched
  <2>1. client'.machine # h /\ client'.network # h
    BY <1>11, <2>0 DEF JoinFetch, Quiet, Unknown
  <2>2. leaver'.network # h /\ h \notin cancelled'
    BY <1>11, <2>0, <1>b, Bounds DEF Unknown, ContextInv, JoinFetch, LeaveLocked, Quiet
  <2>3. state'[h] # "closed"
    BY <1>11, <2>0 DEF JoinFetch, Quiet, Unknown
  <2>4. executor'[h] = Absent
    BY <1>11, <2>0, <1>b DEF JoinFetch, Quiet, Unknown, Suspended, ControlTypes
  <2>5. runner'[h] = runner[h]
    BY <1>11 DEF JoinFetch, Quiet
  <2>6. \A v \in Sockets : socket'[v].of # h
    BY <1>k, <2>0 DEF SocketsKept, Kept, Dials, Unknown
  <2> QED BY <2>0, <2>1, <2>2, <2>3, <2>4, <2>5, <2>6 DEF Unknown
<1>12. ASSUME NEW g \in Sessions, JoinDial(g) PROVE Unknown(h)'
  <2>0. join[h].pc \in {"idle", "enter"} /\ Unknown(h)
    BY <1>12, <1>a DEF JoinDial, JoinTypes, Joining, JoinFails, NoJoin, Untouched
  <2>1. client'.machine # h /\ client'.network # h
    BY <1>12, <2>0 DEF JoinDial, Quiet, Unknown
  <2>2. leaver'.network # h /\ h \notin cancelled'
    BY <1>12, <2>0, <1>b, Bounds DEF Unknown, ContextInv, JoinDial, LeaveLocked, Quiet
  <2>3. state'[h] # "closed"
    BY <1>12, <2>0 DEF JoinDial, Quiet, Unknown
  <2>4. executor'[h] = Absent
    BY <1>12, <2>0, <1>b DEF JoinDial, Quiet, Unknown, Suspended, ControlTypes
  <2>5. runner'[h] = runner[h]
    BY <1>12 DEF JoinDial, Quiet
  <2>6. \A v \in Sockets : socket'[v].of # h
    BY <1>k, <2>0 DEF SocketsKept, Kept, Dials, Unknown
  <2> QED BY <2>0, <2>1, <2>2, <2>3, <2>4, <2>5, <2>6 DEF Unknown
<1>13. ASSUME NEW g \in Sessions, JoinWait(g) PROVE Unknown(h)'
  <2>0. join[h].pc \in {"idle", "enter"} /\ Unknown(h)
    BY <1>13, <1>a DEF JoinWait, JoinTypes, Joining, JoinFails, NoJoin, Untouched
  <2>1. client'.machine # h /\ client'.network # h
    BY <1>13, <2>0 DEF JoinWait, Quiet, Unknown
  <2>2. leaver'.network # h /\ h \notin cancelled'
    BY <1>13, <2>0, <1>b, Bounds DEF Unknown, ContextInv, JoinWait, LeaveLocked, Quiet
  <2>3. state'[h] # "closed"
    BY <1>13, <2>0 DEF JoinWait, Quiet, Unknown
  <2>4. executor'[h] = Absent
    BY <1>13, <2>0, <1>b DEF JoinWait, Quiet, Unknown, Suspended, ControlTypes
  <2>5. runner'[h] = runner[h]
    BY <1>13 DEF JoinWait, Quiet
  <2>6. \A v \in Sockets : socket'[v].of # h
    BY <1>k, <2>0 DEF SocketsKept, Kept, Dials, Unknown
  <2> QED BY <2>0, <2>1, <2>2, <2>3, <2>4, <2>5, <2>6 DEF Unknown
<1>14. ASSUME NEW g \in Sessions, JoinRefresh(g) PROVE Unknown(h)'
  <2>0. join[h].pc \in {"idle", "enter"} /\ Unknown(h)
    BY <1>14, <1>a DEF JoinRefresh, JoinTypes, Joining, JoinFails, NoJoin, Untouched
  <2>1. client'.machine # h /\ client'.network # h
    BY <1>14, <2>0 DEF JoinRefresh, Quiet, Unknown
  <2>2. leaver'.network # h /\ h \notin cancelled'
    BY <1>14, <2>0, <1>b, Bounds DEF Unknown, ContextInv, JoinRefresh, LeaveLocked, Quiet
  <2>3. state'[h] # "closed"
    BY <1>14, <2>0 DEF JoinRefresh, Quiet, Unknown
  <2>4. executor'[h] = Absent
    BY <1>14, <2>0, <1>b DEF JoinRefresh, Quiet, Unknown, Suspended, ControlTypes
  <2>5. runner'[h] = runner[h]
    BY <1>14 DEF JoinRefresh, Quiet
  <2>6. \A v \in Sockets : socket'[v].of # h
    BY <1>k, <2>0 DEF SocketsKept, Kept, Dials, Unknown
  <2> QED BY <2>0, <2>1, <2>2, <2>3, <2>4, <2>5, <2>6 DEF Unknown
<1>15. ASSUME NEW g \in Sessions, JoinCommit(g) PROVE Unknown(h)'
  <2>0. join[h].pc \in {"idle", "enter"} /\ Unknown(h)
    BY <1>15, <1>a DEF JoinCommit, JoinTypes, Joining, JoinFails, NoJoin, Untouched
  <2>1. client'.machine # h /\ client'.network # h
    <3>1. h # g
      BY <1>15, <2>0 DEF JoinCommit
    <3> QED BY <1>15, <3>1, <2>0, JoinCommitClient DEF InstallEffect, Unknown
  <2>2. leaver'.network # h /\ h \notin cancelled'
    BY <1>15, <2>0, <1>b, Bounds DEF Unknown, ContextInv, JoinCommit, LeaveLocked, Quiet
  <2>3. state'[h] # "closed"
    BY <1>15, <2>0 DEF JoinCommit, Quiet, Unknown
  <2>4. executor'[h] = Absent
    BY <1>15, <2>0, <1>b DEF JoinCommit, Quiet, Unknown, Suspended, ControlTypes
  <2>5. runner'[h] = runner[h]
    BY <1>15 DEF JoinCommit, Quiet
  <2>6. \A v \in Sockets : socket'[v].of # h
    BY <1>k, <2>0 DEF SocketsKept, Kept, Dials, Unknown
  <2> QED BY <2>0, <2>1, <2>2, <2>3, <2>4, <2>5, <2>6 DEF Unknown
<1>16. ASSUME NEW g \in Sessions, JoinSync(g) PROVE Unknown(h)'
  <2>0. join[h].pc \in {"idle", "enter"} /\ Unknown(h)
    BY <1>16, <1>a DEF JoinSync, JoinTypes, Joining, JoinFails, NoJoin, Untouched
  <2>1. client'.machine # h /\ client'.network # h
    BY <1>16, <2>0 DEF JoinSync, Quiet, Unknown
  <2>2. leaver'.network # h /\ h \notin cancelled'
    BY <1>16, <2>0, <1>b, Bounds DEF Unknown, ContextInv, JoinSync, LeaveLocked, Quiet
  <2>3. state'[h] # "closed"
    <3>1. CASE state[g] = "connecting"
      BY <1>16, <3>1, <2>0, <1>b DEF JoinSync, recordSynchronized, Unknown, ControlTypes
    <3>2. CASE state[g] # "connecting"
      BY <1>16, <3>2, <2>0, ApplyResult, EventNames DEF JoinSync, recordSynchronized, Unknown, Stepped
    <3> QED BY <3>1, <3>2
  <2>4. executor'[h] = Absent
    BY <1>16, <2>0, <1>b DEF JoinSync, Quiet, Unknown, Suspended, ControlTypes
  <2>5. runner'[h] = runner[h]
    BY <1>16 DEF JoinSync, Quiet
  <2>6. \A v \in Sockets : socket'[v].of # h
    BY <1>k, <2>0 DEF SocketsKept, Kept, Dials, Unknown
  <2> QED BY <2>0, <2>1, <2>2, <2>3, <2>4, <2>5, <2>6 DEF Unknown
<1>17. ASSUME NEW g \in Sessions, JoinFailed(g) PROVE Unknown(h)'
  <2>0. join[h].pc \in {"idle", "enter"} /\ Unknown(h)
    BY <1>17, <1>a DEF JoinFailed, JoinTypes, Joining, JoinFails, NoJoin, Untouched
  <2>1. client'.machine # h /\ client'.network # h
    <3>1. join[g].pc \in Inside
      BY <1>17 DEF JoinFailed, Inside
    <3> QED BY <1>17, <2>0, <3>1, JoinFailedClient DEF Entered, FailEffect, Unknown
  <2>2. leaver'.network # h /\ h \notin cancelled'
    BY <1>17, <2>0 DEF Unknown, JoinFailed
  <2>3. state'[h] # "closed"
    BY <1>17, <2>0, ApplyResult, EventNames DEF JoinFailed, Unknown, Stepped
  <2>4. executor'[h] = Absent
    BY <1>17, <2>0, <1>b DEF JoinFailed, Quiet, Unknown, Suspended, ControlTypes
  <2>5. runner'[h] = runner[h]
    BY <1>17 DEF JoinFailed, Quiet
  <2>6. \A v \in Sockets : socket'[v].of # h
    BY <1>k, <2>0 DEF SocketsKept, Kept, Dials, Unknown
  <2> QED BY <2>0, <2>1, <2>2, <2>3, <2>4, <2>5, <2>6 DEF Unknown
<1>18. ASSUME NEW g \in Sessions, JoinActivate(g) PROVE Unknown(h)'
  <2>0. join[h].pc \in {"idle", "enter"} /\ Unknown(h)
    BY <1>18, <1>a DEF JoinActivate, JoinTypes, Joining, JoinFails, NoJoin, Untouched
  <2>1. client'.machine # h /\ client'.network # h
    BY <1>18, <2>0 DEF JoinActivate, Quiet, Unknown
  <2>2. leaver'.network # h /\ h \notin cancelled'
    BY <1>18, <2>0, <1>b, Bounds DEF Unknown, ContextInv, JoinActivate, LeaveLocked, Quiet
  <2>3. state'[h] # "closed"
    BY <1>18, <2>0 DEF JoinActivate, Quiet, Unknown
  <2>4. executor'[h] = Absent
    BY <1>18, <2>0, <1>b DEF JoinActivate, Quiet, Unknown, Suspended, ControlTypes
  <2>5. runner'[h] = runner[h]
    BY <1>18 DEF JoinActivate, Quiet
  <2>6. \A v \in Sockets : socket'[v].of # h
    BY <1>k, <2>0 DEF SocketsKept, Kept, Dials, Unknown
  <2> QED BY <2>0, <2>1, <2>2, <2>3, <2>4, <2>5, <2>6 DEF Unknown
<1>19. ASSUME NEW g \in Sessions, releaseReservation(g) PROVE Unknown(h)'
  <2>0. join[h].pc \in {"idle", "enter"} /\ Unknown(h)
    BY <1>19, <1>a DEF releaseReservation, JoinTypes, Joining, JoinFails, NoJoin, Untouched
  <2>1. client'.machine # h /\ client'.network # h
    BY <1>19, <2>0 DEF releaseReservation, Quiet, Unknown
  <2>2. leaver'.network # h /\ h \notin cancelled'
    BY <1>19, <2>0, <1>b, Bounds DEF Unknown, ContextInv, releaseReservation, LeaveLocked, Quiet
  <2>3. state'[h] # "closed"
    BY <1>19, <2>0 DEF releaseReservation, Quiet, Unknown
  <2>4. executor'[h] = Absent
    BY <1>19, <2>0, <1>b DEF releaseReservation, Quiet, Unknown, Suspended, ControlTypes
  <2>5. runner'[h] = runner[h]
    BY <1>19 DEF releaseReservation, Quiet
  <2>6. \A v \in Sockets : socket'[v].of # h
    BY <1>k, <2>0 DEF SocketsKept, Kept, Dials, Unknown
  <2> QED BY <2>0, <2>1, <2>2, <2>3, <2>4, <2>5, <2>6 DEF Unknown
<1>20. ASSUME NEW g \in Sessions, JoinLeave(g) PROVE Unknown(h)'
  <2>0. join[h].pc \in {"idle", "enter"} /\ Unknown(h)
    BY <1>20, <1>a DEF JoinLeave, JoinTypes, Joining, JoinFails, NoJoin, Untouched
  <2>1. client'.machine # h /\ client'.network # h
    BY <1>20, <2>0, LeaveLockedClient, Bounds DEF JoinLeave, LeaveEffect, Unknown
  <2>2. leaver'.network # h /\ h \notin cancelled'
    BY <1>20, <2>0, <1>b, Bounds DEF Unknown, ContextInv, JoinLeave, LeaveLocked, Quiet
  <2>3. state'[h] # "closed"
    <3>1. client.machine = 0 \/ client.machine \in Sessions
      BY Bounds DEF Types, ClientTypes, IsClient
    <3> QED BY <1>20, <2>0, <3>1, ApplyResult, EventNames DEF JoinLeave, LeaveLocked, Unknown, Stepped
  <2>4. executor'[h] = Absent
    BY <1>20, <2>0, <1>b DEF JoinLeave, Dropped, Unknown, ControlTypes
  <2>5. runner'[h] = runner[h]
    BY <1>20 DEF JoinLeave, Quiet
  <2>6. \A v \in Sockets : socket'[v].of # h
    BY <1>k, <2>0 DEF SocketsKept, Kept, Dials, Unknown
  <2> QED BY <2>0, <2>1, <2>2, <2>3, <2>4, <2>5, <2>6 DEF Unknown
<1>21. ASSUME NEW g \in Sessions, AttemptBegin(g) PROVE Unknown(h)'
  <2>0. join[h].pc \in {"idle", "enter"} /\ Unknown(h)
    BY <1>21 DEF AttemptBegin, Quiet, Untouched
  <2>1. client'.machine # h /\ client'.network # h
    BY <1>21, <2>0 DEF AttemptBegin, Quiet, Unknown
  <2>2. leaver'.network # h /\ h \notin cancelled'
    BY <1>21, <2>0, <1>b, Bounds DEF Unknown, ContextInv, AttemptBegin, LeaveLocked, Quiet
  <2>3. state'[h] # "closed"
    BY <1>21, <2>0 DEF AttemptBegin, Quiet, Unknown
  <2>4. executor'[h] = Absent
    BY <1>21, <2>0, <1>b DEF AttemptBegin, Quiet, Unknown, Suspended, ControlTypes
  <2>5. runner'[h] = runner[h]
    BY <1>21, <2>0, <1>b DEF AttemptBegin, Unknown, RunnerTypes, Running, AttemptFails
  <2>6. \A v \in Sockets : socket'[v].of # h
    BY <1>k, <2>0 DEF SocketsKept, Kept, Dials, Unknown
  <2> QED BY <2>0, <2>1, <2>2, <2>3, <2>4, <2>5, <2>6 DEF Unknown
<1>22. ASSUME NEW g \in Sessions, AttemptResume(g) PROVE Unknown(h)'
  <2>0. join[h].pc \in {"idle", "enter"} /\ Unknown(h)
    BY <1>22 DEF AttemptResume, Quiet, Untouched
  <2>1. client'.machine # h /\ client'.network # h
    BY <1>22, <2>0 DEF AttemptResume, Quiet, Unknown
  <2>2. leaver'.network # h /\ h \notin cancelled'
    BY <1>22, <2>0, <1>b, Bounds DEF Unknown, ContextInv, AttemptResume, LeaveLocked, Quiet
  <2>3. state'[h] # "closed"
    BY <1>22, <2>0 DEF AttemptResume, Quiet, Unknown
  <2>4. executor'[h] = Absent
    BY <1>22, <2>0, <1>b DEF AttemptResume, Quiet, Unknown, Suspended, ControlTypes
  <2>5. runner'[h] = runner[h]
    BY <1>22, <2>0, <1>b DEF AttemptResume, Unknown, RunnerTypes, Running, AttemptFails
  <2>6. \A v \in Sockets : socket'[v].of # h
    BY <1>k, <2>0 DEF SocketsKept, Kept, Dials, Unknown
  <2> QED BY <2>0, <2>1, <2>2, <2>3, <2>4, <2>5, <2>6 DEF Unknown
<1>23. ASSUME NEW g \in Sessions, AttemptDial(g) PROVE Unknown(h)'
  <2>0. join[h].pc \in {"idle", "enter"} /\ Unknown(h)
    BY <1>23 DEF AttemptDial, Quiet, Untouched
  <2>1. client'.machine # h /\ client'.network # h
    BY <1>23, <2>0 DEF AttemptDial, Quiet, Unknown
  <2>2. leaver'.network # h /\ h \notin cancelled'
    BY <1>23, <2>0, <1>b, Bounds DEF Unknown, ContextInv, AttemptDial, LeaveLocked, Quiet
  <2>3. state'[h] # "closed"
    BY <1>23, <2>0 DEF AttemptDial, Quiet, Unknown
  <2>4. executor'[h] = Absent
    BY <1>23, <2>0, <1>b DEF AttemptDial, Quiet, Unknown, Suspended, ControlTypes
  <2>5. runner'[h] = runner[h]
    BY <1>23, <2>0, <1>b DEF AttemptDial, Unknown, RunnerTypes, Running, AttemptFails
  <2>6. \A v \in Sockets : socket'[v].of # h
    BY <1>k, <2>0 DEF SocketsKept, Kept, Dials, Unknown
  <2> QED BY <2>0, <2>1, <2>2, <2>3, <2>4, <2>5, <2>6 DEF Unknown
<1>24. ASSUME NEW g \in Sessions, AttemptWait(g) PROVE Unknown(h)'
  <2>0. join[h].pc \in {"idle", "enter"} /\ Unknown(h)
    BY <1>24 DEF AttemptWait, Quiet, Untouched
  <2>1. client'.machine # h /\ client'.network # h
    BY <1>24, <2>0 DEF AttemptWait, Quiet, Unknown
  <2>2. leaver'.network # h /\ h \notin cancelled'
    BY <1>24, <2>0, <1>b, Bounds DEF Unknown, ContextInv, AttemptWait, LeaveLocked, Quiet
  <2>3. state'[h] # "closed"
    BY <1>24, <2>0 DEF AttemptWait, Quiet, Unknown
  <2>4. executor'[h] = Absent
    BY <1>24, <2>0, <1>b DEF AttemptWait, Quiet, Unknown, Suspended, ControlTypes
  <2>5. runner'[h] = runner[h]
    BY <1>24, <2>0, <1>b DEF AttemptWait, Unknown, RunnerTypes, Running, AttemptFails
  <2>6. \A v \in Sockets : socket'[v].of # h
    BY <1>k, <2>0 DEF SocketsKept, Kept, Dials, Unknown
  <2> QED BY <2>0, <2>1, <2>2, <2>3, <2>4, <2>5, <2>6 DEF Unknown
<1>25. ASSUME NEW g \in Sessions, AttemptSuspend(g) PROVE Unknown(h)'
  <2>0. join[h].pc \in {"idle", "enter"} /\ Unknown(h)
    BY <1>25 DEF AttemptSuspend, Quiet, Untouched
  <2>1. client'.machine # h /\ client'.network # h
    BY <1>25, <2>0, SuspendClient DEF AttemptSuspend, SameButCause, Unknown
  <2>2. leaver'.network # h /\ h \notin cancelled'
    BY <1>25, <2>0, <1>b, Bounds DEF Unknown, ContextInv, AttemptSuspend, LeaveLocked, Quiet
  <2>3. state'[h] # "closed"
    BY <1>25, <2>0 DEF AttemptSuspend, Quiet, Unknown
  <2>4. executor'[h] = Absent
    BY <1>25, <2>0, <1>b DEF AttemptSuspend, Quiet, Unknown, Suspended, ControlTypes
  <2>5. runner'[h] = runner[h]
    BY <1>25, <2>0, <1>b DEF AttemptSuspend, Unknown, RunnerTypes, Running, AttemptFails
  <2>6. \A v \in Sockets : socket'[v].of # h
    BY <1>k, <2>0 DEF SocketsKept, Kept, Dials, Unknown
  <2> QED BY <2>0, <2>1, <2>2, <2>3, <2>4, <2>5, <2>6 DEF Unknown
<1>26. ASSUME NEW g \in Sessions, AttemptRecord(g) PROVE Unknown(h)'
  <2>0. join[h].pc \in {"idle", "enter"} /\ Unknown(h)
    BY <1>26 DEF AttemptRecord, Quiet, Untouched
  <2>1. client'.machine # h /\ client'.network # h
    BY <1>26, <2>0, RecordClient DEF AttemptRecord, SameButCause, Unknown
  <2>2. leaver'.network # h /\ h \notin cancelled'
    BY <1>26, <2>0, <1>b, Bounds DEF Unknown, ContextInv, AttemptRecord, LeaveLocked, Quiet
  <2>3. state'[h] # "closed"
    <3>1. g \in Sessions
      BY <1>26, OwnedMonitor DEF AttemptRecord
    <3>2. state' = Apply(g, "connection_lost")
      BY <1>26 DEF AttemptRecord, recordConnectionFailure
    <3> QED BY <3>1, <3>2, <2>0, ApplyResult, EventNames DEF Unknown, Stepped
  <2>4. executor'[h] = Absent
    BY <1>26, <2>0, <1>b DEF AttemptRecord, Quiet, Unknown, Suspended, ControlTypes
  <2>5. runner'[h] = runner[h]
    BY <1>26, <2>0, <1>b DEF AttemptRecord, Unknown, RunnerTypes, Running, AttemptFails
  <2>6. \A v \in Sockets : socket'[v].of # h
    BY <1>k, <2>0 DEF SocketsKept, Kept, Dials, Unknown
  <2> QED BY <2>0, <2>1, <2>2, <2>3, <2>4, <2>5, <2>6 DEF Unknown
<1>27. ASSUME NEW g \in Sessions, AttemptRetry(g) PROVE Unknown(h)'
  <2>0. join[h].pc \in {"idle", "enter"} /\ Unknown(h)
    BY <1>27 DEF AttemptRetry, Quiet, Untouched
  <2>1. client'.machine # h /\ client'.network # h
    BY <1>27, <2>0 DEF AttemptRetry, Quiet, Unknown
  <2>2. leaver'.network # h /\ h \notin cancelled'
    BY <1>27, <2>0, <1>b, Bounds DEF Unknown, ContextInv, AttemptRetry, LeaveLocked, Quiet
  <2>3. state'[h] # "closed"
    BY <1>27, <2>0 DEF AttemptRetry, Quiet, Unknown
  <2>4. executor'[h] = Absent
    BY <1>27, <2>0, <1>b DEF AttemptRetry, Quiet, Unknown, Suspended, ControlTypes
  <2>5. runner'[h] = runner[h]
    BY <1>27, <2>0, <1>b DEF AttemptRetry, Unknown, RunnerTypes, Running, AttemptFails
  <2>6. \A v \in Sockets : socket'[v].of # h
    BY <1>k, <2>0 DEF SocketsKept, Kept, Dials, Unknown
  <2> QED BY <2>0, <2>1, <2>2, <2>3, <2>4, <2>5, <2>6 DEF Unknown
<1>28. ASSUME NEW g \in Sessions, AttemptInstall(g) PROVE Unknown(h)'
  <2>0. join[h].pc \in {"idle", "enter"} /\ Unknown(h)
    BY <1>28 DEF AttemptInstall, Quiet, Untouched
  <2>1. client'.machine # h /\ client'.network # h
    BY <1>28, <2>0, AttemptInstallClient DEF InstallEffect, Unknown
  <2>2. leaver'.network # h /\ h \notin cancelled'
    BY <1>28, <2>0, <1>b, Bounds DEF Unknown, ContextInv, AttemptInstall, LeaveLocked, Quiet
  <2>3. state'[h] # "closed"
    BY <1>28, <2>0 DEF AttemptInstall, Quiet, Unknown
  <2>4. executor'[h] = Absent
    BY <1>28, <2>0, <1>b DEF AttemptInstall, Quiet, Unknown, Suspended, ControlTypes
  <2>5. runner'[h] = runner[h]
    BY <1>28, <2>0, <1>b DEF AttemptInstall, Unknown, RunnerTypes, Running, AttemptFails
  <2>6. \A v \in Sockets : socket'[v].of # h
    BY <1>k, <2>0 DEF SocketsKept, Kept, Dials, Unknown
  <2> QED BY <2>0, <2>1, <2>2, <2>3, <2>4, <2>5, <2>6 DEF Unknown
<1>29. ASSUME NEW g \in Sessions, AttemptSync(g) PROVE Unknown(h)'
  <2>0. join[h].pc \in {"idle", "enter"} /\ Unknown(h)
    BY <1>29 DEF AttemptSync, Quiet, Untouched
  <2>1. client'.machine # h /\ client'.network # h
    BY <1>29, <2>0 DEF AttemptSync, Quiet, Unknown
  <2>2. leaver'.network # h /\ h \notin cancelled'
    BY <1>29, <2>0, <1>b, Bounds DEF Unknown, ContextInv, AttemptSync, LeaveLocked, Quiet
  <2>3. state'[h] # "closed"
    <3>1. CASE state[g] = "connecting"
      BY <1>29, <3>1, <2>0, <1>b DEF AttemptSync, recordSynchronized, Unknown, ControlTypes
    <3>2. CASE state[g] # "connecting"
      BY <1>29, <3>2, <2>0, ApplyResult, EventNames DEF AttemptSync, recordSynchronized, Unknown, Stepped
    <3> QED BY <3>1, <3>2
  <2>4. executor'[h] = Absent
    BY <1>29, <2>0, <1>b DEF AttemptSync, Quiet, Unknown, Suspended, ControlTypes
  <2>5. runner'[h] = runner[h]
    BY <1>29, <2>0, <1>b DEF AttemptSync, Unknown, RunnerTypes, Running, AttemptFails
  <2>6. \A v \in Sockets : socket'[v].of # h
    BY <1>k, <2>0 DEF SocketsKept, Kept, Dials, Unknown
  <2> QED BY <2>0, <2>1, <2>2, <2>3, <2>4, <2>5, <2>6 DEF Unknown
<1>30. ASSUME NEW g \in Sessions, ReconnectEnd(g) PROVE Unknown(h)'
  <2>0. join[h].pc \in {"idle", "enter"} /\ Unknown(h)
    BY <1>30 DEF ReconnectEnd, Quiet, Untouched
  <2>1. client'.machine # h /\ client'.network # h
    BY <1>30, <2>0, ReconnectEndClient DEF EndEffect, Unknown
  <2>2. leaver'.network # h /\ h \notin cancelled'
    BY <1>30, <2>0, <1>b, Bounds DEF Unknown, ContextInv, ReconnectEnd, LeaveLocked, Quiet
  <2>3. state'[h] # "closed"
    BY <1>30, <2>0 DEF ReconnectEnd, Quiet, Unknown
  <2>4. executor'[h] = Absent
    BY <1>30, <2>0, <1>b DEF ReconnectEnd, Quiet, Unknown, Suspended, ControlTypes
  <2>5. runner'[h] = runner[h]
    BY <1>30, <2>0, <1>b DEF ReconnectEnd, Unknown, RunnerTypes, Running, AttemptFails
  <2>6. \A v \in Sockets : socket'[v].of # h
    BY <1>k, <2>0 DEF SocketsKept, Kept, Dials, Unknown
  <2> QED BY <2>0, <2>1, <2>2, <2>3, <2>4, <2>5, <2>6 DEF Unknown
<1>31. ASSUME NEW t \in Sockets, MonitorWait(t) PROVE Unknown(h)'
  <2>0. join[h].pc \in {"idle", "enter"} /\ Unknown(h)
    BY <1>31 DEF MonitorWait, Quiet, Untouched
  <2>1. client'.machine # h /\ client'.network # h
    BY <1>31, <2>0 DEF MonitorWait, Quiet, Unknown
  <2>2. leaver'.network # h /\ h \notin cancelled'
    BY <1>31, <2>0, <1>b, Bounds DEF Unknown, ContextInv, MonitorWait, LeaveLocked, Quiet
  <2>3. state'[h] # "closed"
    BY <1>31, <2>0 DEF MonitorWait, Quiet, Unknown
  <2>4. executor'[h] = Absent
    BY <1>31, <2>0, <1>b DEF MonitorWait, Quiet, Unknown, Suspended, ControlTypes
  <2>5. runner'[h] = runner[h]
    BY <1>31 DEF MonitorWait, Quiet
  <2>6. \A v \in Sockets : socket'[v].of # h
    BY <1>k, <2>0 DEF SocketsKept, Kept, Dials, Unknown
  <2> QED BY <2>0, <2>1, <2>2, <2>3, <2>4, <2>5, <2>6 DEF Unknown
<1>32. ASSUME NEW t \in Sockets, MonitorSuspend(t) PROVE Unknown(h)'
  <2>0. join[h].pc \in {"idle", "enter"} /\ Unknown(h)
    BY <1>32 DEF MonitorSuspend, Quiet, Untouched
  <2>1. client'.machine # h /\ client'.network # h
    BY <1>32, <2>0, SuspendClient DEF MonitorSuspend, SameButCause, Unknown
  <2>2. leaver'.network # h /\ h \notin cancelled'
    BY <1>32, <2>0, <1>b, Bounds DEF Unknown, ContextInv, MonitorSuspend, LeaveLocked, Quiet
  <2>3. state'[h] # "closed"
    BY <1>32, <2>0 DEF MonitorSuspend, Quiet, Unknown
  <2>4. executor'[h] = Absent
    BY <1>32, <2>0, <1>b DEF MonitorSuspend, Quiet, Unknown, Suspended, ControlTypes
  <2>5. runner'[h] = runner[h]
    BY <1>32 DEF MonitorSuspend, Quiet
  <2>6. \A v \in Sockets : socket'[v].of # h
    BY <1>k, <2>0 DEF SocketsKept, Kept, Dials, Unknown
  <2> QED BY <2>0, <2>1, <2>2, <2>3, <2>4, <2>5, <2>6 DEF Unknown
<1>33. ASSUME NEW t \in Sockets, MonitorRecord(t) PROVE Unknown(h)'
  <2>0. join[h].pc \in {"idle", "enter"} /\ Unknown(h)
    BY <1>33 DEF MonitorRecord, Quiet, Untouched
  <2>1. client'.machine # h /\ client'.network # h
    BY <1>33, <2>0, RecordClient DEF MonitorRecord, SameButCause, Unknown
  <2>2. leaver'.network # h /\ h \notin cancelled'
    BY <1>33, <2>0, <1>b, Bounds DEF Unknown, ContextInv, MonitorRecord, LeaveLocked, Quiet
  <2>3. state'[h] # "closed"
    <3>1. socket[t].of \in Sessions
      BY <1>33, OwnedMonitor DEF MonitorRecord
    <3>2. state' = Apply(socket[t].of, "connection_lost")
      BY <1>33 DEF MonitorRecord, recordConnectionFailure
    <3> QED BY <3>1, <3>2, <2>0, ApplyResult, EventNames DEF Unknown, Stepped
  <2>4. executor'[h] = Absent
    BY <1>33, <2>0, <1>b DEF MonitorRecord, Quiet, Unknown, Suspended, ControlTypes
  <2>5. runner'[h] = runner[h]
    BY <1>33 DEF MonitorRecord, Quiet
  <2>6. \A v \in Sockets : socket'[v].of # h
    BY <1>k, <2>0 DEF SocketsKept, Kept, Dials, Unknown
  <2> QED BY <2>0, <2>1, <2>2, <2>3, <2>4, <2>5, <2>6 DEF Unknown
<1>34. ASSUME NEW t \in Sockets, MonitorStart(t) PROVE Unknown(h)'
  <2>0. join[h].pc \in {"idle", "enter"} /\ Unknown(h)
    BY <1>34 DEF MonitorStart, Quiet, Untouched
  <2>1. client'.machine # h /\ client'.network # h
    BY <1>34, <2>0, StartClient, OwnedMonitor DEF MonitorStart, StartEffect, Unknown
  <2>2. leaver'.network # h /\ h \notin cancelled'
    BY <1>34, <2>0, <1>b, Bounds DEF Unknown, ContextInv, MonitorStart, LeaveLocked, Quiet
  <2>3. state'[h] # "closed"
    BY <1>34, <2>0 DEF MonitorStart, Quiet, Unknown
  <2>4. executor'[h] = Absent
    BY <1>34, <2>0, <1>b DEF MonitorStart, Quiet, Unknown, Suspended, ControlTypes
  <2>5. runner'[h] = runner[h]
    BY <1>34, <2>0, StartClient, OwnedMonitor DEF MonitorStart, StartEffect, Unknown
  <2>6. \A v \in Sockets : socket'[v].of # h
    BY <1>k, <2>0 DEF SocketsKept, Kept, Dials, Unknown
  <2> QED BY <2>0, <2>1, <2>2, <2>3, <2>4, <2>5, <2>6 DEF Unknown
<1>35. ASSUME NEW t \in Sockets, Receive(t) PROVE Unknown(h)'
  <2>0. join[h].pc \in {"idle", "enter"} /\ Unknown(h)
    BY <1>35 DEF Receive, Quiet, Untouched
  <2>1. client'.machine # h /\ client'.network # h
    BY <1>35, <2>0, ReceiveClient DEF JoinedEffect, Unknown
  <2>2. leaver'.network # h /\ h \notin cancelled'
    BY <1>35, <2>0, <1>b, Bounds DEF Unknown, ContextInv, Receive, LeaveLocked, Quiet
  <2>3. state'[h] # "closed"
    <3>1. socket[t].of \in Sessions
      BY <1>35 DEF Receive, Reading, Types, SocketTypes, IsSocket
    <3>2. \/ state' = state
          \/ state' = Apply(socket[t].of, "connected")
          \/ state' = Apply(socket[t].of, "conflict")
      BY <1>35 DEF Receive, recordJoined, Types, SocketTypes, IsSocket, SocketFields
    <3> QED BY <3>1, <3>2, <2>0, ApplyResult, EventNames DEF Unknown, Stepped
  <2>4. executor'[h] = Absent
    <3>1. executor' = executor \/ executor' = [executor EXCEPT ![socket[t].of] = t]
      BY <1>35 DEF Receive, Types, SocketTypes, IsSocket, SocketFields
    <3> QED BY <1>35, <3>1, <2>0, <1>b DEF Unknown, ControlTypes
  <2>5. runner'[h] = runner[h]
    BY <1>35 DEF Receive, Quiet
  <2>6. \A v \in Sockets : socket'[v].of # h
    BY <1>k, <2>0 DEF SocketsKept, Kept, Dials, Unknown
  <2> QED BY <2>0, <2>1, <2>2, <2>3, <2>4, <2>5, <2>6 DEF Unknown
<1>36. ASSUME NEW t \in Sockets, ReceiveFault(t) PROVE Unknown(h)'
  <2>0. join[h].pc \in {"idle", "enter"} /\ Unknown(h)
    BY <1>36 DEF ReceiveFault, Quiet, Untouched
  <2>1. client'.machine # h /\ client'.network # h
    BY <1>36, <2>0 DEF ReceiveFault, Quiet, Unknown
  <2>2. leaver'.network # h /\ h \notin cancelled'
    BY <1>36, <2>0, <1>b, Bounds DEF Unknown, ContextInv, ReceiveFault, LeaveLocked, Quiet
  <2>3. state'[h] # "closed"
    BY <1>36, <2>0 DEF ReceiveFault, Quiet, Unknown
  <2>4. executor'[h] = Absent
    BY <1>36, <2>0, <1>b DEF ReceiveFault, Quiet, Unknown, Suspended, ControlTypes
  <2>5. runner'[h] = runner[h]
    BY <1>36 DEF ReceiveFault, Quiet
  <2>6. \A v \in Sockets : socket'[v].of # h
    BY <1>k, <2>0 DEF SocketsKept, Kept, Dials, Unknown
  <2> QED BY <2>0, <2>1, <2>2, <2>3, <2>4, <2>5, <2>6 DEF Unknown
<1>37. ASSUME NEW t \in Sockets, InstallSnapshot(t) PROVE Unknown(h)'
  <2>0. join[h].pc \in {"idle", "enter"} /\ Unknown(h)
    BY <1>37 DEF InstallSnapshot, Quiet, Untouched
  <2>1. client'.machine # h /\ client'.network # h
    BY <1>37, <2>0 DEF InstallSnapshot, Quiet, Unknown
  <2>2. leaver'.network # h /\ h \notin cancelled'
    BY <1>37, <2>0, <1>b, Bounds DEF Unknown, ContextInv, InstallSnapshot, LeaveLocked, Quiet
  <2>3. state'[h] # "closed"
    BY <1>37, <2>0 DEF InstallSnapshot, Quiet, Unknown
  <2>4. executor'[h] = Absent
    BY <1>37, <2>0, <1>b DEF InstallSnapshot, Quiet, Unknown, Suspended, ControlTypes
  <2>5. runner'[h] = runner[h]
    BY <1>37 DEF InstallSnapshot, Quiet
  <2>6. \A v \in Sockets : socket'[v].of # h
    BY <1>k, <2>0 DEF SocketsKept, Kept, Dials, Unknown
  <2> QED BY <2>0, <2>1, <2>2, <2>3, <2>4, <2>5, <2>6 DEF Unknown
<1>38. ASSUME NEW t \in Sockets, Finish(t) PROVE Unknown(h)'
  <2>0. join[h].pc \in {"idle", "enter"} /\ Unknown(h)
    BY <1>38 DEF Finish, Quiet, Untouched
  <2>1. client'.machine # h /\ client'.network # h
    BY <1>38, <2>0 DEF Finish, Quiet, Unknown
  <2>2. leaver'.network # h /\ h \notin cancelled'
    BY <1>38, <2>0, <1>b, Bounds DEF Unknown, ContextInv, Finish, LeaveLocked, Quiet
  <2>3. state'[h] # "closed"
    BY <1>38, <2>0 DEF Finish, Quiet, Unknown
  <2>4. executor'[h] = Absent
    BY <1>38, <2>0, <1>b DEF Finish, Quiet, Unknown, Suspended, ControlTypes
  <2>5. runner'[h] = runner[h]
    BY <1>38 DEF Finish, Quiet
  <2>6. \A v \in Sockets : socket'[v].of # h
    BY <1>k, <2>0 DEF SocketsKept, Kept, Dials, Unknown
  <2> QED BY <2>0, <2>1, <2>2, <2>3, <2>4, <2>5, <2>6 DEF Unknown
<1>39. ASSUME NEW t \in Sockets, ServeJoin(t) PROVE Unknown(h)'
  <2>0. join[h].pc \in {"idle", "enter"} /\ Unknown(h)
    BY <1>39 DEF ServeJoin, Quiet, Untouched
  <2>1. client'.machine # h /\ client'.network # h
    BY <1>39, <2>0 DEF ServeJoin, Quiet, Unknown
  <2>2. leaver'.network # h /\ h \notin cancelled'
    BY <1>39, <2>0, <1>b, Bounds DEF Unknown, ContextInv, ServeJoin, LeaveLocked, Quiet
  <2>3. state'[h] # "closed"
    BY <1>39, <2>0 DEF ServeJoin, Quiet, Unknown
  <2>4. executor'[h] = Absent
    BY <1>39, <2>0, <1>b DEF ServeJoin, Quiet, Unknown, Suspended, ControlTypes
  <2>5. runner'[h] = runner[h]
    BY <1>39 DEF ServeJoin, Quiet
  <2>6. \A v \in Sockets : socket'[v].of # h
    BY <1>k, <2>0 DEF SocketsKept, Kept, Dials, Unknown
  <2> QED BY <2>0, <2>1, <2>2, <2>3, <2>4, <2>5, <2>6 DEF Unknown
<1>40. ASSUME NEW t \in Sockets, ServeReplay(t) PROVE Unknown(h)'
  <2>0. join[h].pc \in {"idle", "enter"} /\ Unknown(h)
    BY <1>40 DEF ServeReplay, Quiet, Untouched
  <2>1. client'.machine # h /\ client'.network # h
    BY <1>40, <2>0 DEF ServeReplay, Quiet, Unknown
  <2>2. leaver'.network # h /\ h \notin cancelled'
    BY <1>40, <2>0, <1>b, Bounds DEF Unknown, ContextInv, ServeReplay, LeaveLocked, Quiet
  <2>3. state'[h] # "closed"
    BY <1>40, <2>0 DEF ServeReplay, Quiet, Unknown
  <2>4. executor'[h] = Absent
    BY <1>40, <2>0, <1>b DEF ServeReplay, Quiet, Unknown, Suspended, ControlTypes
  <2>5. runner'[h] = runner[h]
    BY <1>40 DEF ServeReplay, Quiet
  <2>6. \A v \in Sockets : socket'[v].of # h
    BY <1>k, <2>0 DEF SocketsKept, Kept, Dials, Unknown
  <2> QED BY <2>0, <2>1, <2>2, <2>3, <2>4, <2>5, <2>6 DEF Unknown
<1> QED
  BY <1>1, <1>2, <1>3, <1>4, <1>5, <1>6, <1>7, <1>8, <1>9, <1>10, <1>11, <1>12, <1>13,
     <1>14, <1>15, <1>16, <1>17, <1>18, <1>19, <1>20, <1>21, <1>22, <1>23, <1>24, <1>25,
     <1>26, <1>27, <1>28, <1>29, <1>30, <1>31, <1>32, <1>33, <1>34, <1>35, <1>36, <1>37,
     <1>38, <1>39, <1>40
     DEF Next, User, JoinStep, LeaveStep, AttemptStep, MonitorStep, ReadStep, ServiceStep, Network


-----------------------------------------------------------------------------------
(* What the client holds.  The invariant has these parts:                      *)
(*   - what is in its fields belongs to its session, which was not left;       *)
(*   - leaving cancels;                                                        *)
(*   - the reconnect loop of its session runs exactly while it says so;        *)
(*   - the sockets of a join that was not cancelled are its session's;         *)
(*   - a join sees "ready" only after "joined" has given it an executor;       *)
(*   - an executor with a socket is still in somebody's hands.                 *)
Left == client.machine = 0 \/ state[client.machine] = "closed"

Held ==
    /\ client.network = 0 <=> client.transport = 0
    /\ client.network # 0 => /\ client.network = client.machine
                             /\ join[client.network].pc \in {"sync", "activate", "leave", "done"}
                             /\ executor[client.network] # Absent
    /\ client.transport # 0 => socket[client.transport].of = client.machine
    /\ client.token # 0 => socket[client.token].of = client.machine
    /\ Left => client.network = 0 /\ client.token = 0 /\ ~client.reconnecting

ClosedCancelled == \A g \in Sessions : state[g] = "closed" => g \in cancelled

Loops(g) == runner[g].pc \notin {"idle", "gaveup"}

Reconnecting ==
    /\ ~Left => client.reconnecting = Loops(client.machine)
    /\ \A g \in Sessions : Loops(g) /\ client.machine = g => client.network = g \/ Left

Setup == {"dial", "wait", "refresh", "commit", "failed", "cleanup"}

JoinSockets ==
    \A t \in Sockets : 
        socket[t].kind = "join" /\ socket[t].of # 0 /\ socket[t].of \notin cancelled =>
            /\ client.machine = socket[t].of
            /\ join[socket[t].of].pc \in Setup \/ client.network = socket[t].of

Greeted(s) ==
    \/ s.st \notin {"open", "closing"}
    \/ s.wire = <<>> /\ s.srv \notin {"joined", "live"}
    \/ s.wire # <<>> /\ Head(s.wire) \in {"joined", "close"}

JoinWire ==
    \A g \in Sessions :
        join[g].pc = "wait" /\ g \notin cancelled /\ executor[g] = Absent => Greeted(socket[join[g].t])

JoinReady ==
    /\ \A t \in Sockets : socket[t].ready =>
          /\ socket[t].of \in Sessions
          /\ socket[t].kind = "join" => /\ executor[socket[t].of] # Absent
                                       /\ join[socket[t].of].pc = "wait" /\ join[socket[t].of].t = t
    /\ \A g \in Sessions : join[g].pc = "commit" => executor[g] # Absent

InHand(g) ==
    \/ client.network = g
    \/ leaver.pc = "drop" /\ leaver.network = g
    \/ join[g].pc \in Setup
    \/ runner[g].pc \in {"dial", "wait", "suspend", "install"}

ExecutorHeld == \A g \in Sessions : executor[g] \in Sockets => InHand(g)

HoldInv == Held /\ ClosedCancelled /\ Reconnecting /\ JoinSockets /\ ExecutorHeld

Installed == {"sync", "activate", "leave", "done"}

LEMMA HoldInvInit == ASSUME Init PROVE HoldInv
BY Bounds
   DEF Init, HoldInv, Held, Left, ClosedCancelled, Reconnecting, Loops, JoinSockets, ExecutorHeld, NoRunner,
   NoSocket, Absent, Sockets

(* Whether a session was left changes by leaving only. *)
ClosedSame == \A h \in Sessions : state'[h] = "closed" <=> state[h] = "closed"

LEMMA AppliedState ==
    ASSUME Types, NEW g \in Sessions, NEW event \in Events \ {"close"}, state' = Apply(g, event)
    PROVE  ClosedSame
<1>1. Stepped(g, event)
  BY ApplyResult
<1> QED BY <1>1 DEF Stepped, ClosedSame

LEMMA SynchronizedState == ASSUME Types, NEW g \in Sessions, recordSynchronized(g) PROVE ClosedSame
<1>1. CASE state[g] = "connecting"
  BY <1>1 DEF recordSynchronized, ClosedSame, Types, ControlTypes
<1>2. CASE state[g] # "connecting"
  BY <1>2, AppliedState, EventNames DEF recordSynchronized
<1> QED BY <1>1, <1>2

LEMMA ReceiveState == ASSUME Types, NEW t \in Sockets, Receive(t) PROVE ClosedSame
<1>1. socket[t].of \in Sessions
  BY DEF Receive, Reading, Types, SocketTypes, IsSocket
<1>2. \/ state' = state
      \/ state' = Apply(socket[t].of, "connected")
      \/ state' = Apply(socket[t].of, "conflict")
  BY DEF Receive, recordJoined, Types, SocketTypes, IsSocket, SocketFields
<1> QED BY <1>1, <1>2, AppliedState, EventNames DEF ClosedSame

(* What most steps do: the client keeps what it holds, a join and a reconnect   *)
(* loop stay where they are as far as the invariant can tell, an executor gets  *)
(* a socket from its reconnect loop only, and a socket from its join.           *)
ExecutorFrame ==
    \A h \in Sessions :
        /\ executor[h] # Absent => executor'[h] # Absent
        /\ executor'[h] \in Sockets => executor[h] \in Sockets \/ runner'[h].pc = "dial"

JoinFrame ==
    \A h \in Sessions :
        /\ join[h].pc \in Installed => join'[h].pc \in Installed
        /\ join[h].pc \in Setup => join'[h].pc \in Setup

RunnerFrame ==
    \A h \in Sessions :
        /\ Loops(h)' = Loops(h)
        /\ runner[h].pc \in {"dial", "wait", "suspend", "install"} =>
              runner'[h].pc \in {"dial", "wait", "suspend", "install"} \/ executor'[h] \notin Sockets

SocketFrame ==
    \A v \in Sockets :
        socket'[v].kind = "join" /\ socket'[v].of # 0 =>
            \/ socket[v].kind = "join" /\ socket[v].of = socket'[v].of
            \/ socket'[v].of = client.machine /\ join'[client.machine].pc \in Setup

LEMMA Frame ==
    ASSUME Types, HoldInv, SocketsKept, SameButCause(client, client'), ClosedSame, cancelled' = cancelled,
           leaver' = leaver \/ leaver.pc = "idle", ExecutorFrame, JoinFrame, RunnerFrame, SocketFrame
    PROVE  HoldInv'
<1>1. /\ client'.machine = client.machine
      /\ client'.network = client.network
      /\ client'.token = client.token
      /\ client'.transport = client.transport /\ client'.reconnecting = client.reconnecting
      /\ client.machine \in 0 .. MaxSessions /\ client.network \in 0 .. MaxSessions
      /\ client.transport \in 0 .. MaxSockets /\ client.token \in 0 .. MaxSockets
  BY DEF SameButCause, Types, ClientTypes, IsClient
<1>2. Left' = Left
  BY <1>1, Bounds DEF Left, ClosedSame
<1>3. Held'
  <2>1. \A v \in Sockets : socket[v].of # 0 => socket'[v].of = socket[v].of
    BY DEF SocketsKept, Kept
  <2>2. client.machine = 0 => client.transport = 0 /\ client.token = 0
    BY DEF HoldInv, Held, Left
  <2> QED BY <1>1, <1>2, <2>1, <2>2, Bounds DEF HoldInv, Held, ExecutorFrame, JoinFrame, Installed
<1>4. ClosedCancelled'
  BY DEF HoldInv, ClosedCancelled, ClosedSame
<1>5. Reconnecting'
  BY <1>1, <1>2, Bounds DEF HoldInv, Reconnecting, RunnerFrame, Left, Loops
<1>6. JoinSockets'
  <2> SUFFICES ASSUME NEW v \in Sockets, socket'[v].kind = "join", socket'[v].of # 0, socket'[v].of \notin cancelled
               PROVE  /\ client.machine = socket'[v].of
                      /\ join'[socket'[v].of].pc \in Setup \/ client.network = socket'[v].of
    BY <1>1 DEF JoinSockets
  <2>1. CASE socket[v].kind = "join" /\ socket[v].of = socket'[v].of
    <3>1. client.machine = socket[v].of /\ client.machine \in Sessions
          /\ (join[client.machine].pc \in Setup \/ client.network = client.machine)
      BY <1>1, <2>1, Bounds DEF HoldInv, JoinSockets
    <3> QED BY <2>1, <3>1 DEF JoinFrame
  <2>2. CASE socket'[v].of = client.machine /\ join'[client.machine].pc \in Setup
    BY <2>2
  <2> QED BY <2>1, <2>2 DEF SocketFrame
<1>7. ExecutorHeld'
  BY <1>1 DEF HoldInv, ExecutorHeld, InHand, ExecutorFrame, JoinFrame, RunnerFrame
<1> QED BY <1>3, <1>4, <1>5, <1>6, <1>7 DEF HoldInv

LEMMA ResumedRunner ==
    ASSUME Types, NEW g \in Sessions, AttemptResume(g)
    PROVE  /\ runner[g].pc = "resume"
           /\ runner'[g].pc \in {"dial", "retry"} /\ \A h \in Sessions : h # g => runner'[h] = runner[h]
           /\ \A h \in Sessions : h # g => executor'[h] = executor[h]
           /\ executor'[g] = executor[g] \/ (executor'[g] \in Sockets /\ executor'[g] # Absent /\ runner'[g].pc = "dial")
           /\ executor'[g] \in Sockets => executor[g] \in Sockets \/ runner'[g].pc = "dial"
<1>0. /\ DOMAIN executor = Sessions
      /\ DOMAIN runner = Sessions
      /\ DOMAIN runner[g] = {"pc", "t", "tok", "attempt", "err"}
  BY DEF Types, ControlTypes, RunnerTypes
<1>1. CASE executor[g] # Paused
  BY <1>0, <1>1 DEF AttemptResume, AttemptFails
<1>2. CASE executor[g] = Paused
  <2>1. PICK t \in Sockets : /\ executor' = [executor EXCEPT ![g] = t]
                             /\ runner' = [runner EXCEPT ![g].pc = "dial", ![g].t = t, ![g].tok = 0]
    BY <1>2 DEF AttemptResume
  <2>2. runner'[g].pc = "dial" /\ \A h \in Sessions : h # g => runner'[h] = runner[h]
    BY <1>0, <2>1
  <2>3. executor'[g] = t /\ t # Absent /\ \A h \in Sessions : h # g => executor'[h] = executor[h]
    BY <1>0, <2>1 DEF Absent, Sockets
  <2>4. runner[g].pc = "resume"
    BY DEF AttemptResume
  <2> QED BY <2>2, <2>3, <2>4
<1> QED BY <1>1, <1>2

LEMMA HoldEnterJoin ==
    ASSUME Types, JoinInv, HoldInv, JoinReady, SocketsKept, NEW g \in Sessions, EnterJoin(g)
    PROVE  HoldInv'
<1>1. JoinFrame
  BY DEF EnterJoin, Joining, NoJoin, Types, JoinTypes, JoinFrame, Installed, Setup
<1>2. ClosedSame
  BY AppliedState DEF EnterJoin, Events, ClosedSame
<1>3. /\ executor' = executor
      /\ leaver' = leaver
      /\ runner' = runner
      /\ socket' = socket
      /\ cancelled \subseteq cancelled'
  BY DEF EnterJoin
<1>4. CASE client' = client /\ cancelled' = cancelled
  BY <1>1, <1>2, <1>3, <1>4, Frame DEF SameButCause, ExecutorFrame, RunnerFrame, SocketFrame, Loops
<1>5. CASE EnterEffect(g) /\ cancelled' = cancelled \cup ({client.context} \ {0})
  <2>1. Unknown(g)
    BY DEF JoinInv, Untouched, EnterJoin
  <2>2. client'.machine = g /\ client'.network = 0 /\ client'.transport = 0 /\ client'.token = 0
        /\ client'.reconnecting = FALSE /\ client.network = 0
    BY <1>5 DEF EnterEffect, HoldInv, Held
  <2>3. Held'
    BY <2>2 DEF Held, Left
  <2>4. ClosedCancelled'
    BY <1>2, <1>3 DEF HoldInv, ClosedCancelled, ClosedSame
  <2>5. Reconnecting'
    BY <2>1, <2>2, <1>3 DEF Reconnecting, Left, Loops, Unknown
  <2>6. JoinSockets'
    <3>1. client.machine = 0 \/ client.machine \in cancelled'
      BY <1>5 DEF JoinInv, ContextInv
    <3> QED BY <1>3, <3>1 DEF HoldInv, JoinSockets
  <2>7. ExecutorHeld'
    BY <1>1, <1>3, <2>2, Bounds DEF HoldInv, ExecutorHeld, InHand, JoinFrame
  <2> QED BY <2>3, <2>4, <2>5, <2>6, <2>7 DEF HoldInv
<1> QED BY <1>4, <1>5, EnterJoinClient

(* Leaving: everything goes, and whoever leaves has the executor in hand. *)
LEMMA LeaveCloses ==
    ASSUME Types, JoinInv, HoldInv, LeaveLocked
    PROVE  /\ client'.network = 0 /\ client'.transport = 0 /\ client'.token = 0 /\ ~client'.reconnecting
           /\ client'.machine = client.machine /\ Left' /\ cancelled \subseteq cancelled'
           /\ client.machine = 0 \/ client.machine \in cancelled'
           /\ ClosedCancelled'
<1>1. LeaveEffect
  BY LeaveLockedClient
<1>2. client.machine = 0 \/ client.machine \in cancelled'
  BY DEF LeaveLocked, JoinInv, ContextInv
<1>3. cancelled \subseteq cancelled'
  BY DEF LeaveLocked
<1>4. CASE client.machine = 0
  BY <1>1, <1>2, <1>3, <1>4 DEF LeaveEffect, Left, LeaveLocked, HoldInv, ClosedCancelled
<1>5. CASE client.machine # 0
  <2>1. client.machine \in Sessions
    BY <1>5, Bounds DEF Types, ClientTypes, IsClient
  <2>2. state' = Apply(client.machine, "close") /\ Stepped(client.machine, "close")
    BY <1>5, <2>1, ApplyResult, EventNames DEF LeaveLocked
  <2>3. \A h \in Sessions : state'[h] = "closed" <=> state[h] = "closed" \/ h = client.machine
    BY <2>2 DEF Stepped
  <2>4. ClosedCancelled'
    BY <1>2, <1>3, <1>5, <2>3 DEF HoldInv, ClosedCancelled
  <2>5. Left'
    BY <1>1, <2>1, <2>3 DEF LeaveEffect, Left
  <2> QED BY <1>1, <1>2, <1>3, <2>4, <2>5 DEF LeaveEffect
<1> QED BY <1>4, <1>5

LEMMA HoldLeaveClient == ASSUME Types, JoinInv, HoldInv, JoinReady, SocketsKept, LeaveClient PROVE HoldInv'
<1>1. /\ client'.network = 0 /\ client'.transport = 0 /\ client'.token = 0 /\ ~client'.reconnecting
      /\ client'.machine = client.machine /\ Left' /\ cancelled \subseteq cancelled'
      /\ client.machine = 0 \/ client.machine \in cancelled'
      /\ ClosedCancelled'
  BY LeaveCloses DEF LeaveClient
<1>2. executor' = executor /\ join' = join /\ runner' = runner /\ socket' = socket
      /\ leaver.pc = "client" /\ leaver'.pc = "drop" /\ leaver'.network = client.network
  BY DEF LeaveClient
<1>3. Held'
  BY <1>1 DEF Held
<1>4. Reconnecting'
  BY <1>1 DEF Reconnecting
<1>5. JoinSockets'
  BY <1>1, <1>2 DEF HoldInv, JoinSockets
<1>6. ExecutorHeld'
  BY <1>2 DEF HoldInv, ExecutorHeld, InHand
<1> QED BY <1>1, <1>3, <1>4, <1>5, <1>6 DEF HoldInv

LEMMA HoldJoinLeave ==
    ASSUME Types, JoinInv, HoldInv, JoinReady, SocketsKept, NEW g \in Sessions, JoinLeave(g)
    PROVE  HoldInv'
<1>1. /\ client'.network = 0 /\ client'.transport = 0 /\ client'.token = 0 /\ ~client'.reconnecting
      /\ client'.machine = client.machine /\ Left' /\ cancelled \subseteq cancelled'
      /\ client.machine = 0 \/ client.machine \in cancelled'
      /\ ClosedCancelled'
  BY LeaveCloses DEF JoinLeave
<1>2. runner' = runner /\ leaver' = leaver
  BY DEF JoinLeave
<1>3. Held'
  BY <1>1 DEF Held
<1>4. Reconnecting'
  BY <1>1 DEF Reconnecting
<1>5. JoinSockets'
  <2>1. \A v \in Sockets : socket'[v].of # 0 /\ socket'[v].kind = "join" =>
            (socket[v].of = socket'[v].of /\ socket[v].kind = "join") \/ socket'[v].of = client.machine
    BY DEF SocketsKept, Kept, Dials, JoinInv, Entered, Inside
  <2> QED BY <1>1, <2>1 DEF HoldInv, JoinSockets
<1>6. ExecutorHeld'
  <2>1. \A h \in Sessions : join[h].pc \in Setup => join'[h].pc \in Setup
    BY DEF JoinLeave, Joining, Types, JoinTypes, Setup
  <2>2. \A h \in Sessions : executor'[h] \in Sockets => executor[h] \in Sockets /\ client.network # h
    BY Bounds DEF JoinLeave, Dropped, Types, ControlTypes, Terminated, Sockets
  <2> QED BY <1>2, <2>1, <2>2 DEF HoldInv, ExecutorHeld, InHand
<1> QED BY <1>1, <1>3, <1>4, <1>5, <1>6 DEF HoldInv

LEMMA HoldLeaveDrop == ASSUME Types, JoinInv, HoldInv, JoinReady, SocketsKept, LeaveDrop PROVE HoldInv'
<1>1. client' = client /\ state' = state /\ cancelled' = cancelled /\ join' = join /\ runner' = runner
  BY DEF LeaveDrop
<1>2. \A v \in Sockets : socket[v].of # 0 => socket'[v].of = socket[v].of
  BY DEF SocketsKept, Kept
<1>3. client.machine \in 0 .. MaxSessions /\ client.network \in 0 .. MaxSessions
      /\ client.transport \in 0 .. MaxSockets /\ client.token \in 0 .. MaxSockets
  BY DEF Types, ClientTypes, IsClient
<1>4. \A h \in Sessions : /\ executor[h] # Absent => executor'[h] # Absent
                          /\ executor'[h] \in Sockets => executor[h] \in Sockets /\ leaver.network # h
  BY Bounds DEF LeaveDrop, Dropped, Types, ControlTypes, Terminated, Absent, Sockets
<1>5. Held'
  <2>1. client.machine = 0 => client.transport = 0 /\ client.token = 0
    BY DEF HoldInv, Held, Left
  <2> QED BY <1>1, <1>2, <1>3, <1>4, <2>1, Bounds DEF HoldInv, Held, Left
<1>6. ClosedCancelled' /\ Reconnecting'
  BY <1>1 DEF HoldInv, ClosedCancelled, Reconnecting, Left, Loops
<1>7. JoinSockets'
  <2>1. \A v \in Sockets : socket'[v].of # 0 /\ socket'[v].kind = "join" =>
            \/ socket[v].of = socket'[v].of /\ socket[v].kind = "join"
            \/ socket'[v].of = client.machine /\ join[client.machine].pc \in Setup
    BY DEF SocketsKept, Kept, Dials, JoinInv, Entered, Inside, Setup
  <2> QED BY <1>1, <2>1 DEF HoldInv, JoinSockets
<1>8. ExecutorHeld'
  BY <1>1, <1>4 DEF HoldInv, ExecutorHeld, InHand
<1> QED BY <1>5, <1>6, <1>7, <1>8 DEF HoldInv

LEMMA HoldJoinCommit ==
    ASSUME Types, JoinInv, HoldInv, JoinReady, SocketsKept, NEW g \in Sessions, JoinCommit(g)
    PROVE  HoldInv'
<1>1. /\ state' = state
      /\ cancelled' = cancelled
      /\ runner' = runner
      /\ leaver' = leaver
      /\ join[g].pc = "commit"
  BY DEF JoinCommit
<1>2. ClosedSame /\ RunnerFrame
  BY <1>1 DEF ClosedSame, RunnerFrame, Loops
<1>3. \A h \in Sessions : h # g => join'[h] = join[h]
  BY DEF JoinCommit, Joining, Types, JoinTypes
<1>4. CASE client' = client /\ join'[g].pc = "cleanup" /\ executor' = [executor EXCEPT ![g] = Terminated]
  <2>1. JoinFrame
    BY <1>1, <1>3, <1>4 DEF JoinFrame, Installed, Setup
  <2>2. ExecutorFrame
    BY <1>4 DEF ExecutorFrame, Types, ControlTypes, Terminated, Absent, Sockets
  <2>3. SocketFrame
    BY <2>1 DEF SocketsKept, Kept, Dials, SocketFrame, JoinFrame, Setup, JoinInv, Entered, Inside
  <2> QED BY <1>1, <1>2, <1>4, <2>1, <2>2, <2>3, Frame DEF SameButCause
<1>5. CASE /\ Current(g, state) /\ InstallEffect(join[g].t, g) /\ SameCause /\ join'[g].pc = "sync"
           /\ executor' = executor
  <2>1. join[g].t \in Sockets /\ socket[join[g].t].of = g /\ join[g].t # 0 /\ g # 0
    BY <1>1, Bounds DEF Types, OwnSockets
  <2>2. client.machine = g /\ client'.machine = g /\ client'.network = g /\ client'.transport = join[g].t
        /\ client'.token = client.token /\ client'.reconnecting = client.reconnecting /\ state[g] # "closed"
    BY <1>5 DEF InstallEffect, Current
  <2>3. ~Left /\ ~Left'
    BY <2>1, <2>2, <1>1 DEF Left
  <2>4. \A v \in Sockets : socket[v].of # 0 => socket'[v].of = socket[v].of
    BY DEF SocketsKept, Kept
  <2>5. executor[g] # Absent
    BY <1>1 DEF JoinReady
  <2>6. client.token \in 0 .. MaxSockets
    BY DEF Types, ClientTypes, IsClient
  <2>7. Held'
    BY <1>5, <2>1, <2>2, <2>3, <2>4, <2>5, <2>6, Bounds DEF HoldInv, Held
  <2>8. ClosedCancelled'
    BY <1>1 DEF HoldInv, ClosedCancelled
  <2>9. Reconnecting'
    BY <1>1, <2>2, <2>3 DEF HoldInv, Reconnecting, Loops
  <2>10. JoinSockets'
    <3>1. \A v \in Sockets : socket'[v].of # 0 /\ socket'[v].kind = "join" =>
            (socket[v].of = socket'[v].of /\ socket[v].kind = "join") \/ socket'[v].of = g
      BY <2>2 DEF SocketsKept, Kept, Dials, JoinInv, Entered, Inside
    <3> QED BY <1>1, <2>2, <3>1 DEF HoldInv, JoinSockets
  <2>11. ExecutorHeld'
    <3>1. \A h \in Sessions : client.network = h => h = g
      BY <2>2, Bounds DEF HoldInv, Held
    <3> QED BY <1>1, <1>3, <1>5, <2>2, <3>1 DEF HoldInv, ExecutorHeld, InHand
  <2> QED BY <2>7, <2>8, <2>9, <2>10, <2>11 DEF HoldInv
<1> QED BY <1>4, <1>5, JoinCommitClient

LEMMA HoldJoinFailed ==
    ASSUME Types, JoinInv, HoldInv, JoinReady, SocketsKept, NEW g \in Sessions, JoinFailed(g)
    PROVE  HoldInv'
<1>1. runner' = runner /\ leaver' = leaver /\ socket' = socket /\ join[g].pc \in {"failed", "cleanup"}
  BY DEF JoinFailed
<1>2. client.machine = g /\ g # 0
  BY <1>1, Bounds DEF JoinInv, Entered, Inside
<1>3. FailEffect
  BY <1>2, JoinFailedClient
<1>4. ClosedSame
  BY AppliedState DEF JoinFailed, Events, ClosedSame
<1>5. cancelled' = cancelled \cup {g} /\ executor'[g] = Absent /\ \A h \in Sessions : h # g => executor'[h] = executor[h]
  BY <1>2 DEF JoinFailed, Types, ControlTypes
<1>6. \A h \in Sessions : h # g => join'[h] = join[h]
  BY DEF JoinFailed, Joining, Types, JoinTypes
<1>7. client.network = 0 /\ client.transport = 0
  BY <1>1, <1>2 DEF HoldInv, Held
<1>8. Left' = Left
  BY <1>2, <1>3, <1>4 DEF Left, FailEffect, ClosedSame
<1>9. Held'
  BY <1>3, <1>7, <1>8 DEF HoldInv, Held, FailEffect
<1>10. ClosedCancelled'
  BY <1>4, <1>5 DEF HoldInv, ClosedCancelled, ClosedSame
<1>11. Reconnecting'
  BY <1>1, <1>3, <1>8 DEF HoldInv, Reconnecting, FailEffect, Loops
<1>12. JoinSockets'
  BY <1>1, <1>2, <1>5 DEF HoldInv, JoinSockets
<1>13. ExecutorHeld'
  BY <1>1, <1>3, <1>5, <1>6 DEF HoldInv, ExecutorHeld, InHand, FailEffect, Absent, Sockets
<1> QED BY <1>9, <1>10, <1>11, <1>12, <1>13 DEF HoldInv

LEMMA HoldReceive ==
    ASSUME Types, JoinInv, HoldInv, JoinReady, SocketsKept, NEW t \in Sockets, Receive(t)
    PROVE  HoldInv'
<1>1. cancelled' = cancelled /\ leaver' = leaver /\ join' = join /\ runner' = runner
  BY DEF Receive
<1>2. ClosedSame /\ RunnerFrame /\ JoinFrame
  BY <1>1, ReceiveState DEF RunnerFrame, JoinFrame, Loops
<1>3. SocketFrame
  BY <1>2 DEF SocketsKept, Kept, Dials, SocketFrame, JoinFrame, Setup, JoinInv, Entered, Inside
<1>4. socket[t].of \in Sessions
  BY DEF Receive, Reading, Types, SocketTypes, IsSocket
<1>5. client.machine \in 0 .. MaxSessions /\ client.network \in 0 .. MaxSessions
      /\ client.transport \in 0 .. MaxSockets /\ client.token \in 0 .. MaxSockets
  BY DEF Types, ClientTypes, IsClient
<1>6. /\ client'.machine = client.machine /\ client'.network = client.network
      /\ client'.transport = client.transport /\ client'.reconnecting = client.reconnecting
      /\ client'.token = client.token \/ (client'.token = t /\ client.machine = socket[t].of /\ ~Left')
  BY <1>4, ReceiveClient, Bounds DEF JoinedEffect, Current, Left
<1>7. Left' = Left
  BY <1>2, <1>5, <1>6, Bounds DEF Left, ClosedSame
<1>8. \A h \in Sessions : /\ executor[h] # Absent => executor'[h] # Absent
                          /\ executor'[h] \in Sockets =>
                                executor[h] \in Sockets
                                \/ (h = socket[t].of /\ socket[t].kind = "join" /\ h \notin cancelled)
  <2>1. \/ executor' = executor
        \/ executor' = [executor EXCEPT ![socket[t].of] = t] /\ socket[t].kind = "join" /\ ~Deaf(t)
    BY DEF Receive, Types, SocketTypes, IsSocket, SocketFields
  <2> QED BY <2>1, <1>4 DEF Types, ControlTypes, Deaf, Absent, Sockets
<1>9. Held'
  <2>1. \A v \in Sockets : socket[v].of # 0 => socket'[v].of = socket[v].of
    BY DEF SocketsKept, Kept
  <2>2. client.machine = 0 => client.transport = 0 /\ client.token = 0
    BY DEF HoldInv, Held, Left
  <2>3. client'.token # 0 => socket'[client'.token].of = client'.machine
    BY <1>4, <1>5, <1>6, <2>1, <2>2, Bounds DEF HoldInv, Held
  <2> QED BY <1>1, <1>5, <1>6, <1>7, <1>8, <2>1, <2>2, <2>3, Bounds DEF HoldInv, Held
<1>10. ClosedCancelled'
  BY <1>1, <1>2 DEF HoldInv, ClosedCancelled, ClosedSame
<1>11. Reconnecting'
  BY <1>1, <1>6, <1>7 DEF HoldInv, Reconnecting, Loops
<1>12. JoinSockets'
  <2> SUFFICES ASSUME NEW v \in Sockets, socket'[v].kind = "join", socket'[v].of # 0, socket'[v].of \notin cancelled
               PROVE  /\ client.machine = socket'[v].of
                      /\ join[socket'[v].of].pc \in Setup \/ client.network = socket'[v].of
    BY <1>1, <1>6 DEF JoinSockets
  <2> QED BY <1>1, <1>3 DEF SocketFrame, HoldInv, JoinSockets
<1>13. ExecutorHeld'
  <2>1. \A h \in Sessions : h = socket[t].of /\ socket[t].kind = "join" /\ h \notin cancelled => InHand(h)
    BY <1>4, Bounds DEF HoldInv, JoinSockets, InHand
  <2> QED BY <1>1, <1>6, <1>8, <2>1 DEF HoldInv, ExecutorHeld, InHand
<1> QED BY <1>9, <1>10, <1>11, <1>12, <1>13 DEF HoldInv

LEMMA HoldAttemptInstall ==
    ASSUME Types, JoinInv, HoldInv, JoinReady, SocketsKept, NEW g \in Sessions, AttemptInstall(g)
    PROVE  HoldInv'
<1>1. /\ state' = state
      /\ cancelled' = cancelled
      /\ leaver' = leaver
      /\ join' = join
      /\ runner[g].pc = "install"
  BY DEF AttemptInstall
<1>2. ClosedSame /\ JoinFrame
  BY <1>1 DEF ClosedSame, JoinFrame
<1>3. \A h \in Sessions : h # g => runner'[h] = runner[h]
  BY DEF AttemptInstall, Running, AttemptFails, Types, RunnerTypes
<1>4. SocketFrame
  BY <1>2 DEF SocketsKept, Kept, Dials, SocketFrame, JoinFrame, Setup, JoinInv, Entered, Inside
<1>5. CASE client' = client /\ runner'[g].pc = "retry" /\ executor' = Suspended(g)
  <2>1. ExecutorFrame /\ executor'[g] \notin Sockets
    BY <1>5 DEF ExecutorFrame, Suspended, Types, ControlTypes, Absent, Paused, Sockets
  <2>2. RunnerFrame
    BY <1>1, <1>3, <1>5, <2>1 DEF RunnerFrame, Loops
  <2> QED BY <1>1, <1>2, <1>4, <1>5, <2>1, <2>2, Frame DEF SameButCause
<1>6. CASE /\ Current(g, state) /\ client.network = g /\ InstallEffect(runner[g].t, g)
           /\ runner'[g].pc = "sync" /\ executor' = executor
  <2>1. runner[g].t \in Sockets /\ socket[runner[g].t].of = g /\ runner[g].t # 0 /\ g # 0
    BY <1>1, Bounds DEF Types, OwnSockets
  <2>2. client.machine = g /\ client'.machine = g /\ client'.network = g /\ client'.transport = runner[g].t
        /\ client'.token = client.token /\ client'.reconnecting = client.reconnecting /\ state[g] # "closed"
    BY <1>6 DEF InstallEffect, Current
  <2>3. ~Left /\ ~Left'
    BY <2>1, <2>2, <1>1 DEF Left
  <2>4. \A v \in Sockets : socket[v].of # 0 => socket'[v].of = socket[v].of
    BY DEF SocketsKept, Kept
  <2>5. client.token \in 0 .. MaxSockets
    BY DEF Types, ClientTypes, IsClient
  <2>6. Held'
    BY <1>1, <1>6, <2>1, <2>2, <2>3, <2>4, <2>5, Bounds DEF HoldInv, Held
  <2>7. ClosedCancelled'
    BY <1>1 DEF HoldInv, ClosedCancelled
  <2>8. Reconnecting'
    BY <1>1, <1>3, <1>6, <2>2, <2>3 DEF HoldInv, Reconnecting, Loops
  <2>9. JoinSockets'
    BY <1>1, <1>4, <1>6, <2>2 DEF HoldInv, JoinSockets, SocketFrame
  <2>10. ExecutorHeld'
    BY <1>1, <1>3, <1>6, <2>2 DEF HoldInv, ExecutorHeld, InHand
  <2> QED BY <2>6, <2>7, <2>8, <2>9, <2>10 DEF HoldInv
<1> QED BY <1>5, <1>6, AttemptInstallClient

(* A reconnect loop starts. *)
LEMMA HoldStart ==
    ASSUME Types, JoinInv, HoldInv, SocketsKept, NEW g \in Sessions, StartEffect(g),
           state' = state, executor' = executor, cancelled' = cancelled, leaver' = leaver, join' = join
    PROVE  HoldInv'
<1>1. /\ client.machine = g
      /\ client.network = g
      /\ state[g] # "closed"
      /\ g # 0
      /\ client.reconnecting = FALSE
      /\ client'.machine = client.machine /\ client'.network = client.network
      /\ client'.transport = client.transport /\ client'.token = client.token /\ client'.reconnecting = TRUE
  BY Bounds DEF StartEffect, CanReconnect, Types, ClientTypes, IsClient
<1>2. ~Left /\ ~Left' /\ ~Loops(g) /\ runner'[g].pc = "begin" /\ \A h \in Sessions : h # g => runner'[h] = runner[h]
  BY <1>1 DEF Left, HoldInv, Reconnecting, StartEffect
<1>3. SocketFrame
  BY DEF SocketsKept, Kept, Dials, SocketFrame, Setup, JoinInv, Entered, Inside
<1>4. client.transport \in 0 .. MaxSockets /\ client.token \in 0 .. MaxSockets
  BY DEF Types, ClientTypes, IsClient
<1>5. Held'
  <2>1. \A v \in Sockets : socket[v].of # 0 => socket'[v].of = socket[v].of
    BY DEF SocketsKept, Kept
  <2> QED BY <1>1, <1>2, <1>4, <2>1, Bounds DEF HoldInv, Held
<1>6. ClosedCancelled'
  BY DEF HoldInv, ClosedCancelled
<1>7. Reconnecting'
  BY <1>1, <1>2 DEF HoldInv, Reconnecting, Loops
<1>8. JoinSockets'
  BY <1>1, <1>3 DEF HoldInv, JoinSockets, SocketFrame
<1>9. ExecutorHeld'
  BY <1>1, <1>2 DEF HoldInv, ExecutorHeld, InHand, Loops
<1> QED BY <1>5, <1>6, <1>7, <1>8, <1>9 DEF HoldInv

LEMMA HoldRetryReconnect == ASSUME Types, JoinInv, HoldInv, JoinReady, SocketsKept, RetryReconnect PROVE HoldInv'
<1>1. state' = state /\ executor' = executor /\ cancelled' = cancelled /\ leaver' = leaver /\ join' = join
      /\ socket' = socket
  BY DEF RetryReconnect
<1>2. client.machine \in Sessions
  BY RetryClient
<1>3. CASE StartEffect(client.machine)
  BY <1>1, <1>2, <1>3, HoldStart
<1>4. CASE client' = client /\ runner' = runner
  BY <1>1, <1>4, Frame
     DEF SameButCause, ClosedSame, ExecutorFrame, RunnerFrame, JoinFrame, SocketFrame, Loops
<1>5. CASE DropTokenEffect /\ runner' = runner
  <2>1. client'.machine = client.machine /\ client'.network = client.network
        /\ client'.transport = client.transport /\ client'.token = 0 /\ client'.reconnecting = client.reconnecting
    BY <1>5 DEF DropTokenEffect
  <2>2. Left' = Left
    BY <1>1, <2>1 DEF Left
  <2>3. Held'
    BY <1>1, <2>1, <2>2 DEF HoldInv, Held
  <2> QED BY <1>1, <1>5, <2>1, <2>2, <2>3
          DEF HoldInv, ClosedCancelled, Reconnecting, Loops, JoinSockets, ExecutorHeld, InHand
<1> QED BY <1>3, <1>4, <1>5, RetryClient

LEMMA HoldMonitorStart ==
    ASSUME Types, JoinInv, HoldInv, JoinReady, SocketsKept, NEW t \in Sockets, MonitorStart(t)
    PROVE  HoldInv'
<1>1. state' = state /\ executor' = executor /\ cancelled' = cancelled /\ leaver' = leaver /\ join' = join
  BY DEF MonitorStart
<1>2. socket[t].of \in Sessions /\ startReconnect(socket[t].of)
  BY OwnedMonitor DEF MonitorStart
<1>3. CASE StartEffect(socket[t].of)
  BY <1>1, <1>2, <1>3, HoldStart
<1>4. CASE client' = client /\ runner' = runner
  <2>1. SocketFrame
    BY <1>1 DEF SocketsKept, Kept, Dials, SocketFrame, Setup, JoinInv, Entered, Inside
  <2> QED BY <1>1, <1>4, <2>1, Frame
     DEF SameButCause, ClosedSame, ExecutorFrame, RunnerFrame, JoinFrame, Loops
<1> QED BY <1>2, <1>3, <1>4, StartClient

LEMMA HoldReconnectEnd ==
    ASSUME Types, JoinInv, HoldInv, JoinReady, SocketsKept, NEW g \in Sessions, ReconnectEnd(g)
    PROVE  HoldInv'
<1>1. state' = state /\ executor' = executor /\ cancelled' = cancelled /\ leaver' = leaver /\ join' = join
      /\ socket' = socket /\ runner[g].pc = "end"
  BY DEF ReconnectEnd
<1>2. runner'[g].pc \in {"idle", "gaveup"} /\ \A h \in Sessions : h # g => runner'[h] = runner[h]
  BY DEF ReconnectEnd, NoRunner, Types, RunnerTypes
<1>3. /\ client'.machine = client.machine /\ client'.network = client.network
      /\ client'.transport = client.transport /\ client'.token \in {0, client.token}
      /\ (client'.reconnecting = client.reconnecting /\ ~Current(g, state))
         \/ (client'.reconnecting = FALSE /\ Current(g, state))
  BY ReconnectEndClient DEF EndEffect
<1>4. Left' = Left
  BY <1>1, <1>3 DEF Left
<1>5. Held'
  BY <1>1, <1>3, <1>4 DEF HoldInv, Held
<1>6. ClosedCancelled' /\ JoinSockets'
  BY <1>1, <1>3 DEF HoldInv, ClosedCancelled, JoinSockets
<1>7. Reconnecting'
  <2>1. CASE client.machine = g /\ ~Left
    BY <1>2, <1>3, <1>4, <2>1 DEF Reconnecting, Loops, Left, Current
  <2>2. CASE client.machine # g \/ Left
    BY <1>2, <1>3, <1>4, <2>2, Bounds
       DEF HoldInv, Reconnecting, Loops, Left, Current, Types, ClientTypes, IsClient
  <2> QED BY <2>1, <2>2
<1>8. ExecutorHeld'
  BY <1>1, <1>2, <1>3 DEF HoldInv, ExecutorHeld, InHand
<1> QED BY <1>5, <1>6, <1>7, <1>8 DEF HoldInv

LEMMA HoldInvStep ==
    ASSUME Types, JoinInv, HoldInv, JoinReady, Next
    PROVE  HoldInv'
<1>k. SocketsKept
  BY SocketsKeptStep
<1>b. ControlTypes /\ RunnerTypes /\ JoinTypes
  BY DEF Types
<1>1. CASE Leave
  <2>1. SameButCause(client, client')
    BY <1>1 DEF Leave, Quiet, SameButCause
  <2>2. ClosedSame
    BY <1>1 DEF Leave, Quiet, ClosedSame
  <2>3. cancelled' = cancelled /\ (leaver' = leaver \/ leaver.pc = "idle")
    BY <1>1, <1>b DEF Leave, Quiet, JoinInv, Reservations
  <2>4. ExecutorFrame
    BY <1>1 DEF Leave, Quiet, ExecutorFrame
  <2>5. JoinFrame
    BY <1>1 DEF Leave, Quiet, JoinFrame
  <2>6. RunnerFrame
    BY <1>1 DEF Leave, Quiet, RunnerFrame, Loops
  <2>7. SocketFrame
    BY <1>k, <2>5 DEF SocketsKept, Kept, Dials, SocketFrame, JoinFrame, Setup, JoinInv, Entered, Inside
  <2> QED BY <2>1, <2>2, <2>3, <2>4, <2>5, <2>6, <2>7, <1>k, Frame
<1>2. CASE RetryReconnect
  BY <1>2, <1>k, HoldRetryReconnect
<1>3. CASE recordConflictResolution
  <2>1. SameButCause(client, client')
    BY <1>3 DEF recordConflictResolution, Quiet, SameButCause
  <2>2. ClosedSame
    <3>1. client.network \in Sessions
      BY <1>3, Bounds DEF recordConflictResolution, Types, ClientTypes, IsClient
    <3> QED BY <1>3, <3>1, AppliedState DEF recordConflictResolution, Events
  <2>3. cancelled' = cancelled /\ (leaver' = leaver \/ leaver.pc = "idle")
    BY <1>3, <1>b DEF recordConflictResolution, Quiet
  <2>4. ExecutorFrame
    BY <1>3 DEF recordConflictResolution, Quiet, ExecutorFrame
  <2>5. JoinFrame
    BY <1>3 DEF recordConflictResolution, Quiet, JoinFrame
  <2>6. RunnerFrame
    BY <1>3 DEF recordConflictResolution, Quiet, RunnerFrame, Loops
  <2>7. SocketFrame
    BY <1>k, <2>5 DEF SocketsKept, Kept, Dials, SocketFrame, JoinFrame, Setup, JoinInv, Entered, Inside
  <2> QED BY <2>1, <2>2, <2>3, <2>4, <2>5, <2>6, <2>7, <1>k, Frame
<1>4. ASSUME NEW g \in Sessions, Reserve(g) PROVE HoldInv'
  <2>1. SameButCause(client, client')
    BY <1>4 DEF Reserve, Quiet, SameButCause
  <2>2. ClosedSame
    BY <1>4 DEF Reserve, Quiet, ClosedSame
  <2>3. cancelled' = cancelled /\ (leaver' = leaver \/ leaver.pc = "idle")
    BY <1>4, <1>b DEF Reserve, Quiet
  <2>4. ExecutorFrame
    BY <1>4 DEF Reserve, Quiet, ExecutorFrame
  <2>5. JoinFrame
    BY <1>4, <1>b DEF Reserve, Joining, JoinFails, NoJoin, JoinTypes, JoinFrame, Installed, Setup
  <2>6. RunnerFrame
    BY <1>4 DEF Reserve, Quiet, RunnerFrame, Loops
  <2>7. SocketFrame
    BY <1>k, <2>5 DEF SocketsKept, Kept, Dials, SocketFrame, JoinFrame, Setup, JoinInv, Entered, Inside
  <2> QED BY <2>1, <2>2, <2>3, <2>4, <2>5, <2>6, <2>7, <1>k, Frame
<1>5. CASE LeaveClient
  BY <1>5, <1>k, HoldLeaveClient
<1>6. CASE LeaveDrop
  BY <1>6, <1>k, HoldLeaveDrop
<1>7. CASE Expire
  <2>1. SameButCause(client, client')
    BY <1>7, ExpireClient DEF SameButCause
  <2>2. ClosedSame
    BY <1>7 DEF Expire, Quiet, ClosedSame
  <2>3. cancelled' = cancelled /\ (leaver' = leaver \/ leaver.pc = "idle")
    BY <1>7, <1>b DEF Expire, Quiet
  <2>4. ExecutorFrame
    BY <1>7 DEF Expire, Quiet, ExecutorFrame
  <2>5. JoinFrame
    BY <1>7 DEF Expire, Quiet, JoinFrame
  <2>6. RunnerFrame
    BY <1>7 DEF Expire, Quiet, RunnerFrame, Loops
  <2>7. SocketFrame
    BY <1>k, <2>5 DEF SocketsKept, Kept, Dials, SocketFrame, JoinFrame, Setup, JoinInv, Entered, Inside
  <2> QED BY <2>1, <2>2, <2>3, <2>4, <2>5, <2>6, <2>7, <1>k, Frame
<1>8. ASSUME NEW t \in Sockets, ServeRejection(t) PROVE HoldInv'
  <2>1. SameButCause(client, client')
    BY <1>8 DEF ServeRejection, Quiet, SameButCause
  <2>2. ClosedSame
    BY <1>8 DEF ServeRejection, Quiet, ClosedSame
  <2>3. cancelled' = cancelled /\ (leaver' = leaver \/ leaver.pc = "idle")
    BY <1>8, <1>b DEF ServeRejection, Quiet
  <2>4. ExecutorFrame
    BY <1>8 DEF ServeRejection, Quiet, ExecutorFrame
  <2>5. JoinFrame
    BY <1>8 DEF ServeRejection, Quiet, JoinFrame
  <2>6. RunnerFrame
    BY <1>8 DEF ServeRejection, Quiet, RunnerFrame, Loops
  <2>7. SocketFrame
    BY <1>k, <2>5 DEF SocketsKept, Kept, Dials, SocketFrame, JoinFrame, Setup, JoinInv, Entered, Inside
  <2> QED BY <2>1, <2>2, <2>3, <2>4, <2>5, <2>6, <2>7, <1>k, Frame
<1>9. ASSUME NEW t \in Sockets, NEW e \in {"lost", "rate"}, Lose(t, e) PROVE HoldInv'
  <2>1. SameButCause(client, client')
    BY <1>9 DEF Lose, Quiet, SameButCause
  <2>2. ClosedSame
    BY <1>9 DEF Lose, Quiet, ClosedSame
  <2>3. cancelled' = cancelled /\ (leaver' = leaver \/ leaver.pc = "idle")
    BY <1>9, <1>b DEF Lose, Quiet
  <2>4. ExecutorFrame
    BY <1>9 DEF Lose, Quiet, ExecutorFrame
  <2>5. JoinFrame
    BY <1>9 DEF Lose, Quiet, JoinFrame
  <2>6. RunnerFrame
    BY <1>9 DEF Lose, Quiet, RunnerFrame, Loops
  <2>7. SocketFrame
    BY <1>k, <2>5 DEF SocketsKept, Kept, Dials, SocketFrame, JoinFrame, Setup, JoinInv, Entered, Inside
  <2> QED BY <2>1, <2>2, <2>3, <2>4, <2>5, <2>6, <2>7, <1>k, Frame
<1>10. ASSUME NEW g \in Sessions, EnterJoin(g) PROVE HoldInv'
  BY <1>10, <1>k, HoldEnterJoin
<1>11. ASSUME NEW g \in Sessions, JoinFetch(g) PROVE HoldInv'
  <2>1. SameButCause(client, client')
    BY <1>11 DEF JoinFetch, Quiet, SameButCause
  <2>2. ClosedSame
    BY <1>11 DEF JoinFetch, Quiet, ClosedSame
  <2>3. cancelled' = cancelled /\ (leaver' = leaver \/ leaver.pc = "idle")
    BY <1>11, <1>b DEF JoinFetch, Quiet
  <2>4. ExecutorFrame
    BY <1>11 DEF JoinFetch, Quiet, ExecutorFrame
  <2>5. JoinFrame
    BY <1>11, <1>b DEF JoinFetch, Joining, JoinFails, NoJoin, JoinTypes, JoinFrame, Installed, Setup
  <2>6. RunnerFrame
    BY <1>11 DEF JoinFetch, Quiet, RunnerFrame, Loops
  <2>7. SocketFrame
    BY <1>k, <2>5 DEF SocketsKept, Kept, Dials, SocketFrame, JoinFrame, Setup, JoinInv, Entered, Inside
  <2> QED BY <2>1, <2>2, <2>3, <2>4, <2>5, <2>6, <2>7, <1>k, Frame
<1>12. ASSUME NEW g \in Sessions, JoinDial(g) PROVE HoldInv'
  <2>1. SameButCause(client, client')
    BY <1>12 DEF JoinDial, Quiet, SameButCause
  <2>2. ClosedSame
    BY <1>12 DEF JoinDial, Quiet, ClosedSame
  <2>3. cancelled' = cancelled /\ (leaver' = leaver \/ leaver.pc = "idle")
    BY <1>12, <1>b DEF JoinDial, Quiet
  <2>4. ExecutorFrame
    BY <1>12 DEF JoinDial, Quiet, ExecutorFrame
  <2>5. JoinFrame
    BY <1>12, <1>b DEF JoinDial, Joining, JoinFails, NoJoin, JoinTypes, JoinFrame, Installed, Setup
  <2>6. RunnerFrame
    BY <1>12 DEF JoinDial, Quiet, RunnerFrame, Loops
  <2>7. SocketFrame
    BY <1>k, <2>5 DEF SocketsKept, Kept, Dials, SocketFrame, JoinFrame, Setup, JoinInv, Entered, Inside
  <2> QED BY <2>1, <2>2, <2>3, <2>4, <2>5, <2>6, <2>7, <1>k, Frame
<1>13. ASSUME NEW g \in Sessions, JoinWait(g) PROVE HoldInv'
  <2>1. SameButCause(client, client')
    BY <1>13 DEF JoinWait, Quiet, SameButCause
  <2>2. ClosedSame
    BY <1>13 DEF JoinWait, Quiet, ClosedSame
  <2>3. cancelled' = cancelled /\ (leaver' = leaver \/ leaver.pc = "idle")
    BY <1>13, <1>b DEF JoinWait, Quiet
  <2>4. ExecutorFrame
    BY <1>13 DEF JoinWait, Quiet, ExecutorFrame
  <2>5. JoinFrame
    BY <1>13, <1>b DEF JoinWait, Joining, JoinFails, NoJoin, JoinTypes, JoinFrame, Installed, Setup
  <2>6. RunnerFrame
    BY <1>13 DEF JoinWait, Quiet, RunnerFrame, Loops
  <2>7. SocketFrame
    BY <1>k, <2>5 DEF SocketsKept, Kept, Dials, SocketFrame, JoinFrame, Setup, JoinInv, Entered, Inside
  <2> QED BY <2>1, <2>2, <2>3, <2>4, <2>5, <2>6, <2>7, <1>k, Frame
<1>14. ASSUME NEW g \in Sessions, JoinRefresh(g) PROVE HoldInv'
  <2>1. SameButCause(client, client')
    BY <1>14 DEF JoinRefresh, Quiet, SameButCause
  <2>2. ClosedSame
    BY <1>14 DEF JoinRefresh, Quiet, ClosedSame
  <2>3. cancelled' = cancelled /\ (leaver' = leaver \/ leaver.pc = "idle")
    BY <1>14, <1>b DEF JoinRefresh, Quiet
  <2>4. ExecutorFrame
    BY <1>14 DEF JoinRefresh, Quiet, ExecutorFrame
  <2>5. JoinFrame
    BY <1>14, <1>b DEF JoinRefresh, Joining, JoinFails, NoJoin, JoinTypes, JoinFrame, Installed, Setup
  <2>6. RunnerFrame
    BY <1>14 DEF JoinRefresh, Quiet, RunnerFrame, Loops
  <2>7. SocketFrame
    BY <1>k, <2>5 DEF SocketsKept, Kept, Dials, SocketFrame, JoinFrame, Setup, JoinInv, Entered, Inside
  <2> QED BY <2>1, <2>2, <2>3, <2>4, <2>5, <2>6, <2>7, <1>k, Frame
<1>15. ASSUME NEW g \in Sessions, JoinCommit(g) PROVE HoldInv'
  BY <1>15, <1>k, HoldJoinCommit
<1>16. ASSUME NEW g \in Sessions, JoinSync(g) PROVE HoldInv'
  <2>1. SameButCause(client, client')
    BY <1>16 DEF JoinSync, Quiet, SameButCause
  <2>2. ClosedSame
    BY <1>16, SynchronizedState DEF JoinSync
  <2>3. cancelled' = cancelled /\ (leaver' = leaver \/ leaver.pc = "idle")
    BY <1>16, <1>b DEF JoinSync, Quiet
  <2>4. ExecutorFrame
    BY <1>16 DEF JoinSync, Quiet, ExecutorFrame
  <2>5. JoinFrame
    BY <1>16, <1>b DEF JoinSync, Joining, JoinFails, NoJoin, JoinTypes, JoinFrame, Installed, Setup
  <2>6. RunnerFrame
    BY <1>16 DEF JoinSync, Quiet, RunnerFrame, Loops
  <2>7. SocketFrame
    BY <1>k, <2>5 DEF SocketsKept, Kept, Dials, SocketFrame, JoinFrame, Setup, JoinInv, Entered, Inside
  <2> QED BY <2>1, <2>2, <2>3, <2>4, <2>5, <2>6, <2>7, <1>k, Frame
<1>17. ASSUME NEW g \in Sessions, JoinFailed(g) PROVE HoldInv'
  BY <1>17, <1>k, HoldJoinFailed
<1>18. ASSUME NEW g \in Sessions, JoinActivate(g) PROVE HoldInv'
  <2>1. SameButCause(client, client')
    BY <1>18 DEF JoinActivate, Quiet, SameButCause
  <2>2. ClosedSame
    BY <1>18 DEF JoinActivate, Quiet, ClosedSame
  <2>3. cancelled' = cancelled /\ (leaver' = leaver \/ leaver.pc = "idle")
    BY <1>18, <1>b DEF JoinActivate, Quiet
  <2>4. ExecutorFrame
    BY <1>18 DEF JoinActivate, Quiet, ExecutorFrame
  <2>5. JoinFrame
    BY <1>18, <1>b DEF JoinActivate, Joining, JoinFails, NoJoin, JoinTypes, JoinFrame, Installed, Setup
  <2>6. RunnerFrame
    BY <1>18 DEF JoinActivate, Quiet, RunnerFrame, Loops
  <2>7. SocketFrame
    BY <1>k, <2>5 DEF SocketsKept, Kept, Dials, SocketFrame, JoinFrame, Setup, JoinInv, Entered, Inside
  <2> QED BY <2>1, <2>2, <2>3, <2>4, <2>5, <2>6, <2>7, <1>k, Frame
<1>19. ASSUME NEW g \in Sessions, releaseReservation(g) PROVE HoldInv'
  <2>1. SameButCause(client, client')
    BY <1>19 DEF releaseReservation, Quiet, SameButCause
  <2>2. ClosedSame
    BY <1>19 DEF releaseReservation, Quiet, ClosedSame
  <2>3. cancelled' = cancelled /\ (leaver' = leaver \/ leaver.pc = "idle")
    BY <1>19, <1>b DEF releaseReservation, Quiet
  <2>4. ExecutorFrame
    BY <1>19 DEF releaseReservation, Quiet, ExecutorFrame
  <2>5. JoinFrame
    BY <1>19, <1>b
       DEF releaseReservation, Joining, JoinFails, NoJoin, JoinTypes, JoinFrame, Installed, Setup
  <2>6. RunnerFrame
    BY <1>19 DEF releaseReservation, Quiet, RunnerFrame, Loops
  <2>7. SocketFrame
    BY <1>k, <2>5 DEF SocketsKept, Kept, Dials, SocketFrame, JoinFrame, Setup, JoinInv, Entered, Inside
  <2> QED BY <2>1, <2>2, <2>3, <2>4, <2>5, <2>6, <2>7, <1>k, Frame
<1>20. ASSUME NEW g \in Sessions, JoinLeave(g) PROVE HoldInv'
  BY <1>20, <1>k, HoldJoinLeave
<1>21. ASSUME NEW g \in Sessions, AttemptBegin(g) PROVE HoldInv'
  <2>1. SameButCause(client, client')
    BY <1>21 DEF AttemptBegin, Quiet, SameButCause
  <2>2. ClosedSame
    BY <1>21 DEF AttemptBegin, Quiet, ClosedSame
  <2>3. cancelled' = cancelled /\ (leaver' = leaver \/ leaver.pc = "idle")
    BY <1>21, <1>b DEF AttemptBegin, Quiet
  <2>4. ExecutorFrame
    BY <1>21 DEF AttemptBegin, Quiet, ExecutorFrame
  <2>5. JoinFrame
    BY <1>21 DEF AttemptBegin, Quiet, JoinFrame
  <2>6. RunnerFrame
    BY <1>21, <1>b DEF AttemptBegin, Running, AttemptFails, RunnerTypes, RunnerFrame, Loops
  <2>7. SocketFrame
    BY <1>k, <2>5 DEF SocketsKept, Kept, Dials, SocketFrame, JoinFrame, Setup, JoinInv, Entered, Inside
  <2> QED BY <2>1, <2>2, <2>3, <2>4, <2>5, <2>6, <2>7, <1>k, Frame
<1>22. ASSUME NEW g \in Sessions, AttemptResume(g) PROVE HoldInv'
  <2>1. SameButCause(client, client')
    BY <1>22 DEF AttemptResume, Quiet, SameButCause
  <2>2. ClosedSame
    BY <1>22 DEF AttemptResume, Quiet, ClosedSame
  <2>3. cancelled' = cancelled /\ (leaver' = leaver \/ leaver.pc = "idle")
    BY <1>22, <1>b DEF AttemptResume, Quiet
  <2>4. ExecutorFrame
    BY <1>22, <1>b, ResumedRunner DEF ExecutorFrame
  <2>5. JoinFrame
    BY <1>22 DEF AttemptResume, Quiet, JoinFrame
  <2>6. RunnerFrame
    BY <1>22, <1>b, ResumedRunner DEF RunnerFrame, Loops, AttemptResume
  <2>7. SocketFrame
    BY <1>k, <2>5 DEF SocketsKept, Kept, Dials, SocketFrame, JoinFrame, Setup, JoinInv, Entered, Inside
  <2> QED BY <2>1, <2>2, <2>3, <2>4, <2>5, <2>6, <2>7, <1>k, Frame
<1>23. ASSUME NEW g \in Sessions, AttemptDial(g) PROVE HoldInv'
  <2>1. SameButCause(client, client')
    BY <1>23 DEF AttemptDial, Quiet, SameButCause
  <2>2. ClosedSame
    BY <1>23 DEF AttemptDial, Quiet, ClosedSame
  <2>3. cancelled' = cancelled /\ (leaver' = leaver \/ leaver.pc = "idle")
    BY <1>23, <1>b DEF AttemptDial, Quiet
  <2>4. ExecutorFrame
    BY <1>23 DEF AttemptDial, Quiet, ExecutorFrame
  <2>5. JoinFrame
    BY <1>23 DEF AttemptDial, Quiet, JoinFrame
  <2>6. RunnerFrame
    BY <1>23, <1>b DEF AttemptDial, Running, AttemptFails, RunnerTypes, RunnerFrame, Loops
  <2>7. SocketFrame
    BY <1>k, <2>5 DEF SocketsKept, Kept, Dials, SocketFrame, JoinFrame, Setup, JoinInv, Entered, Inside
  <2> QED BY <2>1, <2>2, <2>3, <2>4, <2>5, <2>6, <2>7, <1>k, Frame
<1>24. ASSUME NEW g \in Sessions, AttemptWait(g) PROVE HoldInv'
  <2>1. SameButCause(client, client')
    BY <1>24 DEF AttemptWait, Quiet, SameButCause
  <2>2. ClosedSame
    BY <1>24 DEF AttemptWait, Quiet, ClosedSame
  <2>3. cancelled' = cancelled /\ (leaver' = leaver \/ leaver.pc = "idle")
    BY <1>24, <1>b DEF AttemptWait, Quiet
  <2>4. ExecutorFrame
    BY <1>24 DEF AttemptWait, Quiet, ExecutorFrame
  <2>5. JoinFrame
    BY <1>24 DEF AttemptWait, Quiet, JoinFrame
  <2>6. RunnerFrame
    BY <1>24, <1>b DEF AttemptWait, Running, AttemptFails, RunnerTypes, RunnerFrame, Loops
  <2>7. SocketFrame
    BY <1>k, <2>5 DEF SocketsKept, Kept, Dials, SocketFrame, JoinFrame, Setup, JoinInv, Entered, Inside
  <2> QED BY <2>1, <2>2, <2>3, <2>4, <2>5, <2>6, <2>7, <1>k, Frame
<1>25. ASSUME NEW g \in Sessions, AttemptSuspend(g) PROVE HoldInv'
  <2>1. SameButCause(client, client')
    BY <1>25, SuspendClient DEF AttemptSuspend, SameButCause
  <2>2. ClosedSame
    BY <1>25 DEF AttemptSuspend, Quiet, ClosedSame
  <2>3. cancelled' = cancelled /\ (leaver' = leaver \/ leaver.pc = "idle")
    BY <1>25, <1>b DEF AttemptSuspend, Quiet
  <2>4. ExecutorFrame
    BY <1>25, <1>b DEF AttemptSuspend, ExecutorFrame, Suspended, ControlTypes, Absent, Paused, Sockets
  <2>5. JoinFrame
    BY <1>25 DEF AttemptSuspend, Quiet, JoinFrame
  <2>6. RunnerFrame
    BY <1>25, <1>b
       DEF AttemptSuspend, Running, RunnerTypes, ControlTypes, RunnerFrame, Loops, Suspended, Paused,
           Sockets
  <2>7. SocketFrame
    BY <1>k, <2>5 DEF SocketsKept, Kept, Dials, SocketFrame, JoinFrame, Setup, JoinInv, Entered, Inside
  <2> QED BY <2>1, <2>2, <2>3, <2>4, <2>5, <2>6, <2>7, <1>k, Frame
<1>26. ASSUME NEW g \in Sessions, AttemptRecord(g) PROVE HoldInv'
  <2>1. SameButCause(client, client')
    BY <1>26, RecordClient DEF AttemptRecord, SameButCause
  <2>2. ClosedSame
    <3>1. g \in Sessions
      BY <1>26, OwnedMonitor DEF AttemptRecord
    <3>2. state' = Apply(g, "connection_lost")
      BY <1>26 DEF AttemptRecord, recordConnectionFailure
    <3> QED BY <3>1, <3>2, AppliedState DEF Events
  <2>3. cancelled' = cancelled /\ (leaver' = leaver \/ leaver.pc = "idle")
    BY <1>26, <1>b DEF AttemptRecord, Quiet
  <2>4. ExecutorFrame
    BY <1>26 DEF AttemptRecord, Quiet, ExecutorFrame
  <2>5. JoinFrame
    BY <1>26 DEF AttemptRecord, Quiet, JoinFrame
  <2>6. RunnerFrame
    BY <1>26, <1>b DEF AttemptRecord, Running, AttemptFails, RunnerTypes, RunnerFrame, Loops
  <2>7. SocketFrame
    BY <1>k, <2>5 DEF SocketsKept, Kept, Dials, SocketFrame, JoinFrame, Setup, JoinInv, Entered, Inside
  <2> QED BY <2>1, <2>2, <2>3, <2>4, <2>5, <2>6, <2>7, <1>k, Frame
<1>27. ASSUME NEW g \in Sessions, AttemptRetry(g) PROVE HoldInv'
  <2>1. SameButCause(client, client')
    BY <1>27 DEF AttemptRetry, Quiet, SameButCause
  <2>2. ClosedSame
    BY <1>27 DEF AttemptRetry, Quiet, ClosedSame
  <2>3. cancelled' = cancelled /\ (leaver' = leaver \/ leaver.pc = "idle")
    BY <1>27, <1>b DEF AttemptRetry, Quiet
  <2>4. ExecutorFrame
    BY <1>27 DEF AttemptRetry, Quiet, ExecutorFrame
  <2>5. JoinFrame
    BY <1>27 DEF AttemptRetry, Quiet, JoinFrame
  <2>6. RunnerFrame
    BY <1>27, <1>b DEF AttemptRetry, Running, AttemptFails, RunnerTypes, RunnerFrame, Loops
  <2>7. SocketFrame
    BY <1>k, <2>5 DEF SocketsKept, Kept, Dials, SocketFrame, JoinFrame, Setup, JoinInv, Entered, Inside
  <2> QED BY <2>1, <2>2, <2>3, <2>4, <2>5, <2>6, <2>7, <1>k, Frame
<1>28. ASSUME NEW g \in Sessions, AttemptInstall(g) PROVE HoldInv'
  BY <1>28, <1>k, HoldAttemptInstall
<1>29. ASSUME NEW g \in Sessions, AttemptSync(g) PROVE HoldInv'
  <2>1. SameButCause(client, client')
    BY <1>29 DEF AttemptSync, Quiet, SameButCause
  <2>2. ClosedSame
    BY <1>29, SynchronizedState DEF AttemptSync
  <2>3. cancelled' = cancelled /\ (leaver' = leaver \/ leaver.pc = "idle")
    BY <1>29, <1>b DEF AttemptSync, Quiet
  <2>4. ExecutorFrame
    BY <1>29 DEF AttemptSync, Quiet, ExecutorFrame
  <2>5. JoinFrame
    BY <1>29 DEF AttemptSync, Quiet, JoinFrame
  <2>6. RunnerFrame
    BY <1>29, <1>b DEF AttemptSync, Running, AttemptFails, RunnerTypes, RunnerFrame, Loops
  <2>7. SocketFrame
    BY <1>k, <2>5 DEF SocketsKept, Kept, Dials, SocketFrame, JoinFrame, Setup, JoinInv, Entered, Inside
  <2> QED BY <2>1, <2>2, <2>3, <2>4, <2>5, <2>6, <2>7, <1>k, Frame
<1>30. ASSUME NEW g \in Sessions, ReconnectEnd(g) PROVE HoldInv'
  BY <1>30, <1>k, HoldReconnectEnd
<1>31. ASSUME NEW t \in Sockets, MonitorWait(t) PROVE HoldInv'
  <2>1. SameButCause(client, client')
    BY <1>31 DEF MonitorWait, Quiet, SameButCause
  <2>2. ClosedSame
    BY <1>31 DEF MonitorWait, Quiet, ClosedSame
  <2>3. cancelled' = cancelled /\ (leaver' = leaver \/ leaver.pc = "idle")
    BY <1>31, <1>b DEF MonitorWait, Quiet
  <2>4. ExecutorFrame
    BY <1>31 DEF MonitorWait, Quiet, ExecutorFrame
  <2>5. JoinFrame
    BY <1>31 DEF MonitorWait, Quiet, JoinFrame
  <2>6. RunnerFrame
    BY <1>31 DEF MonitorWait, Quiet, RunnerFrame, Loops
  <2>7. SocketFrame
    BY <1>k, <2>5 DEF SocketsKept, Kept, Dials, SocketFrame, JoinFrame, Setup, JoinInv, Entered, Inside
  <2> QED BY <2>1, <2>2, <2>3, <2>4, <2>5, <2>6, <2>7, <1>k, Frame
<1>32. ASSUME NEW t \in Sockets, MonitorSuspend(t) PROVE HoldInv'
  <2>1. SameButCause(client, client')
    BY <1>32, SuspendClient DEF MonitorSuspend, SameButCause
  <2>2. ClosedSame
    BY <1>32 DEF MonitorSuspend, Quiet, ClosedSame
  <2>3. cancelled' = cancelled /\ (leaver' = leaver \/ leaver.pc = "idle")
    BY <1>32, <1>b DEF MonitorSuspend, Quiet
  <2>4. ExecutorFrame
    BY <1>32, <1>b DEF MonitorSuspend, ExecutorFrame, Suspended, ControlTypes, Absent, Paused, Sockets
  <2>5. JoinFrame
    BY <1>32 DEF MonitorSuspend, Quiet, JoinFrame
  <2>6. RunnerFrame
    BY <1>32 DEF MonitorSuspend, Quiet, RunnerFrame, Loops
  <2>7. SocketFrame
    BY <1>k, <2>5 DEF SocketsKept, Kept, Dials, SocketFrame, JoinFrame, Setup, JoinInv, Entered, Inside
  <2> QED BY <2>1, <2>2, <2>3, <2>4, <2>5, <2>6, <2>7, <1>k, Frame
<1>33. ASSUME NEW t \in Sockets, MonitorRecord(t) PROVE HoldInv'
  <2>1. SameButCause(client, client')
    BY <1>33, RecordClient DEF MonitorRecord, SameButCause
  <2>2. ClosedSame
    <3>1. socket[t].of \in Sessions
      BY <1>33, OwnedMonitor DEF MonitorRecord
    <3>2. state' = Apply(socket[t].of, "connection_lost")
      BY <1>33 DEF MonitorRecord, recordConnectionFailure
    <3> QED BY <3>1, <3>2, AppliedState DEF Events
  <2>3. cancelled' = cancelled /\ (leaver' = leaver \/ leaver.pc = "idle")
    BY <1>33, <1>b DEF MonitorRecord, Quiet
  <2>4. ExecutorFrame
    BY <1>33 DEF MonitorRecord, Quiet, ExecutorFrame
  <2>5. JoinFrame
    BY <1>33 DEF MonitorRecord, Quiet, JoinFrame
  <2>6. RunnerFrame
    BY <1>33 DEF MonitorRecord, Quiet, RunnerFrame, Loops
  <2>7. SocketFrame
    BY <1>k, <2>5 DEF SocketsKept, Kept, Dials, SocketFrame, JoinFrame, Setup, JoinInv, Entered, Inside
  <2> QED BY <2>1, <2>2, <2>3, <2>4, <2>5, <2>6, <2>7, <1>k, Frame
<1>34. ASSUME NEW t \in Sockets, MonitorStart(t) PROVE HoldInv'
  BY <1>34, <1>k, HoldMonitorStart
<1>35. ASSUME NEW t \in Sockets, Receive(t) PROVE HoldInv'
  BY <1>35, <1>k, HoldReceive
<1>36. ASSUME NEW t \in Sockets, ReceiveFault(t) PROVE HoldInv'
  <2>1. SameButCause(client, client')
    BY <1>36 DEF ReceiveFault, Quiet, SameButCause
  <2>2. ClosedSame
    BY <1>36 DEF ReceiveFault, Quiet, ClosedSame
  <2>3. cancelled' = cancelled /\ (leaver' = leaver \/ leaver.pc = "idle")
    BY <1>36, <1>b DEF ReceiveFault, Quiet
  <2>4. ExecutorFrame
    BY <1>36 DEF ReceiveFault, Quiet, ExecutorFrame
  <2>5. JoinFrame
    BY <1>36 DEF ReceiveFault, Quiet, JoinFrame
  <2>6. RunnerFrame
    BY <1>36 DEF ReceiveFault, Quiet, RunnerFrame, Loops
  <2>7. SocketFrame
    BY <1>k, <2>5 DEF SocketsKept, Kept, Dials, SocketFrame, JoinFrame, Setup, JoinInv, Entered, Inside
  <2> QED BY <2>1, <2>2, <2>3, <2>4, <2>5, <2>6, <2>7, <1>k, Frame
<1>37. ASSUME NEW t \in Sockets, InstallSnapshot(t) PROVE HoldInv'
  <2>1. SameButCause(client, client')
    BY <1>37 DEF InstallSnapshot, Quiet, SameButCause
  <2>2. ClosedSame
    BY <1>37 DEF InstallSnapshot, Quiet, ClosedSame
  <2>3. cancelled' = cancelled /\ (leaver' = leaver \/ leaver.pc = "idle")
    BY <1>37, <1>b DEF InstallSnapshot, Quiet
  <2>4. ExecutorFrame
    BY <1>37 DEF InstallSnapshot, Quiet, ExecutorFrame
  <2>5. JoinFrame
    BY <1>37 DEF InstallSnapshot, Quiet, JoinFrame
  <2>6. RunnerFrame
    BY <1>37 DEF InstallSnapshot, Quiet, RunnerFrame, Loops
  <2>7. SocketFrame
    BY <1>k, <2>5 DEF SocketsKept, Kept, Dials, SocketFrame, JoinFrame, Setup, JoinInv, Entered, Inside
  <2> QED BY <2>1, <2>2, <2>3, <2>4, <2>5, <2>6, <2>7, <1>k, Frame
<1>38. ASSUME NEW t \in Sockets, Finish(t) PROVE HoldInv'
  <2>1. SameButCause(client, client')
    BY <1>38 DEF Finish, Quiet, SameButCause
  <2>2. ClosedSame
    BY <1>38 DEF Finish, Quiet, ClosedSame
  <2>3. cancelled' = cancelled /\ (leaver' = leaver \/ leaver.pc = "idle")
    BY <1>38, <1>b DEF Finish, Quiet
  <2>4. ExecutorFrame
    BY <1>38 DEF Finish, Quiet, ExecutorFrame
  <2>5. JoinFrame
    BY <1>38 DEF Finish, Quiet, JoinFrame
  <2>6. RunnerFrame
    BY <1>38 DEF Finish, Quiet, RunnerFrame, Loops
  <2>7. SocketFrame
    BY <1>k, <2>5 DEF SocketsKept, Kept, Dials, SocketFrame, JoinFrame, Setup, JoinInv, Entered, Inside
  <2> QED BY <2>1, <2>2, <2>3, <2>4, <2>5, <2>6, <2>7, <1>k, Frame
<1>39. ASSUME NEW t \in Sockets, ServeJoin(t) PROVE HoldInv'
  <2>1. SameButCause(client, client')
    BY <1>39 DEF ServeJoin, Quiet, SameButCause
  <2>2. ClosedSame
    BY <1>39 DEF ServeJoin, Quiet, ClosedSame
  <2>3. cancelled' = cancelled /\ (leaver' = leaver \/ leaver.pc = "idle")
    BY <1>39, <1>b DEF ServeJoin, Quiet
  <2>4. ExecutorFrame
    BY <1>39 DEF ServeJoin, Quiet, ExecutorFrame
  <2>5. JoinFrame
    BY <1>39 DEF ServeJoin, Quiet, JoinFrame
  <2>6. RunnerFrame
    BY <1>39 DEF ServeJoin, Quiet, RunnerFrame, Loops
  <2>7. SocketFrame
    BY <1>k, <2>5 DEF SocketsKept, Kept, Dials, SocketFrame, JoinFrame, Setup, JoinInv, Entered, Inside
  <2> QED BY <2>1, <2>2, <2>3, <2>4, <2>5, <2>6, <2>7, <1>k, Frame
<1>40. ASSUME NEW t \in Sockets, ServeReplay(t) PROVE HoldInv'
  <2>1. SameButCause(client, client')
    BY <1>40 DEF ServeReplay, Quiet, SameButCause
  <2>2. ClosedSame
    BY <1>40 DEF ServeReplay, Quiet, ClosedSame
  <2>3. cancelled' = cancelled /\ (leaver' = leaver \/ leaver.pc = "idle")
    BY <1>40, <1>b DEF ServeReplay, Quiet
  <2>4. ExecutorFrame
    BY <1>40 DEF ServeReplay, Quiet, ExecutorFrame
  <2>5. JoinFrame
    BY <1>40 DEF ServeReplay, Quiet, JoinFrame
  <2>6. RunnerFrame
    BY <1>40 DEF ServeReplay, Quiet, RunnerFrame, Loops
  <2>7. SocketFrame
    BY <1>k, <2>5 DEF SocketsKept, Kept, Dials, SocketFrame, JoinFrame, Setup, JoinInv, Entered, Inside
  <2> QED BY <2>1, <2>2, <2>3, <2>4, <2>5, <2>6, <2>7, <1>k, Frame
<1> QED
  BY <1>1, <1>2, <1>3, <1>4, <1>5, <1>6, <1>7, <1>8, <1>9, <1>10, <1>11, <1>12, <1>13,
     <1>14, <1>15, <1>16, <1>17, <1>18, <1>19, <1>20, <1>21, <1>22, <1>23, <1>24, <1>25,
     <1>26, <1>27, <1>28, <1>29, <1>30, <1>31, <1>32, <1>33, <1>34, <1>35, <1>36, <1>37,
     <1>38, <1>39, <1>40
     DEF Next, User, JoinStep, LeaveStep, AttemptStep, MonitorStep, ReadStep, ServiceStep, Network


-----------------------------------------------------------------------------------
(* The first message a join sees is "joined", unless the service closes the     *)
(* socket.                                                                      *)
WireInv == JoinWire /\ JoinReady

LEMMA WireInvInit == ASSUME Init PROVE WireInv
BY DEF Init, WireInv, JoinWire, JoinReady, NoJoin, NoSocket

(* What most steps do to a socket. *)
Tame(s, u) == (u.ready => s.ready) /\ (Greeted(s) => Greeted(u))

TameSockets == \A v \in Sockets : Tame(socket[v], socket'[v])

LEMMA CloseTame == ASSUME NEW s, IsSocket(s) PROVE Tame(s, Close(s))
<1>1. s.wire \in Seq(Messages)
  BY DEF IsSocket
<1>2. CASE s.st # "open" BY <1>2 DEF Close, Tame
<1>3. CASE s.st = "open" /\ s.wire = <<>>
  BY <1>3 DEF Close, Tame, Greeted, IsSocket, SocketFields
<1>4. CASE s.st = "open" /\ s.wire # <<>>
  <2>1. PICK w : w = SubSeq(s.wire, 1, 1)
    OBVIOUS
  <2>2. w # <<>> /\ Head(w) = Head(s.wire)
    BY <1>1, <1>4, <2>1
  <2>3. Close(s) = [s EXCEPT !.st = "closing", !.err = "lost", !.wire = w]
    BY <1>4, <2>1 DEF Close
  <2>4. Close(s).ready = s.ready /\ Close(s).wire = w
    BY <2>3 DEF IsSocket, SocketFields
  <2> QED BY <1>4, <2>2, <2>4 DEF Tame, Greeted
<1> QED BY <1>2, <1>3, <1>4

LEMMA TakenTame == ASSUME NEW s, IsSocket(s) PROVE Tame(s, Taken(s)) /\ ~Taken(s).ready
BY DEF Taken, Tame, Greeted, IsSocket, SocketFields

LEMMA FoundTame ==
    ASSUME NEW s, NEW t, NEW err, IsSocket(s)
    PROVE  /\ Found(t, s, err).ready = s.ready /\ Found(t, s, err).wire = s.wire /\ Found(t, s, err).st = s.st
           /\ Found(t, s, err).srv = s.srv
BY DEF Found, IsSocket, SocketFields

LEMMA OneTame ==
    ASSUME SocketTypes, NEW t \in Sockets, NEW u, socket' = [socket EXCEPT ![t] = u], Tame(socket[t], u)
    PROVE  TameSockets
BY DEF SocketTypes, TameSockets, Tame

LEMMA CloseSocketTame == ASSUME SocketTypes, NEW t \in Sockets \cup {0}, CloseSocket(t) PROVE TameSockets
<1>1. CASE t = 0 BY <1>1 DEF CloseSocket, TameSockets, Tame
<1>2. CASE t # 0
  BY <1>2, CloseTame, OneTame DEF CloseSocket, SocketTypes
<1> QED BY <1>1, <1>2

LEMMA WriteTame ==
    ASSUME SocketTypes, NEW t \in Sockets, NEW messages \in Seq(Messages), NEW srv, Write(t, messages, srv),
           messages # <<>>,
           \/ socket[t].srv = "join" /\ Head(messages) \in {"joined", "close"}
              /\ (socket[t].st # "open" => srv = "closed")
           \/ socket[t].srv \in {"joined", "live"} /\ socket[t].st = "open"
    PROVE  TameSockets
<1>0. IsSocket(socket[t]) /\ socket[t].wire \in Seq(Messages)
  BY DEF SocketTypes, IsSocket
<1>1. PICK w : w = IF socket[t].st = "open" THEN socket[t].wire \o messages ELSE socket[t].wire
  OBVIOUS
<1>2. PICK u : u = [socket[t] EXCEPT !.srv = srv, !.tok = 0, !.wire = w]
  OBVIOUS
<1>3. socket' = [socket EXCEPT ![t] = u]
  BY <1>1, <1>2 DEF Write
<1>4. u.ready = socket[t].ready /\ u.wire = w /\ u.st = socket[t].st /\ u.srv = srv
  BY <1>0, <1>2 DEF IsSocket, SocketFields
<1>5. CASE socket[t].st = "open" /\ socket[t].wire # <<>>
  <2>1. w # <<>> /\ Head(w) = Head(socket[t].wire)
    BY <1>0, <1>1, <1>5
  <2> QED BY <1>3, <1>4, <1>5, <2>1, OneTame DEF Tame, Greeted
<1>6. CASE socket[t].st = "open" /\ socket[t].wire = <<>>
  <2>1. w # <<>> /\ Head(w) = Head(messages)
    BY <1>0, <1>1, <1>6
  <2> QED BY <1>3, <1>4, <1>6, <2>1, OneTame DEF Tame, Greeted
<1>7. CASE socket[t].st # "open"
  BY <1>1, <1>3, <1>4, <1>7, OneTame DEF Tame, Greeted
<1> QED BY <1>5, <1>6, <1>7

JoinStays ==
    \A h \in Sessions :
        /\ join[h].pc = "wait" => join'[h] = join[h]
        /\ join'[h].pc \in {"wait", "commit"} => join'[h] = join[h]

ExecutorStays ==
    \A h \in Sessions : executor'[h] = Absent => executor[h] = Absent \/ join'[h].pc \notin {"wait", "commit"}

LEMMA WireFrame ==
    ASSUME Types, WireInv, SocketsKept, TameSockets, JoinStays, ExecutorStays, cancelled \subseteq cancelled'
    PROVE  WireInv'
<1>1. JoinWire'
  <2> SUFFICES ASSUME NEW g \in Sessions, join'[g].pc = "wait", g \notin cancelled', executor'[g] = Absent
               PROVE  Greeted(socket'[join'[g].t])
    BY DEF JoinWire, Greeted
  <2>1. join'[g] = join[g] /\ join[g].pc = "wait" /\ executor[g] = Absent /\ g \notin cancelled
    BY DEF JoinStays, ExecutorStays
  <2>2. Greeted(socket[join[g].t]) /\ join[g].t \in Sockets
    BY <2>1 DEF WireInv, JoinWire, Types, OwnSockets
  <2> QED BY <2>1, <2>2 DEF TameSockets, Tame
<1>2. JoinReady'
  <2>1. ASSUME NEW v \in Sockets, socket'[v].ready
        PROVE  /\ socket'[v].of \in Sessions
               /\ socket'[v].kind = "join" => /\ executor'[socket'[v].of] # Absent
                                              /\ join'[socket'[v].of].pc = "wait" /\ join'[socket'[v].of].t = v
    <3>1. socket[v].ready
      BY <2>1 DEF TameSockets, Tame
    <3>2. socket[v].of \in Sessions /\ socket'[v].of = socket[v].of /\ socket'[v].kind = socket[v].kind
      BY <3>1, Bounds DEF WireInv, JoinReady, SocketsKept, Kept
    <3> QED BY <3>1, <3>2 DEF WireInv, JoinReady, JoinStays, ExecutorStays
  <2>2. ASSUME NEW g \in Sessions, join'[g].pc = "commit" PROVE executor'[g] # Absent
    BY <2>2 DEF WireInv, JoinReady, JoinStays, ExecutorStays
  <2> QED BY <2>1, <2>2 DEF JoinReady
<1> QED BY <1>1, <1>2 DEF WireInv

LEMMA WireJoinDial ==
    ASSUME Types, JoinInv, HoldInv, WireInv, SocketsKept, NEW g \in Sessions, JoinDial(g)
    PROVE  WireInv'
<1>1. executor' = executor /\ cancelled' = cancelled /\ join[g].pc = "dial"
  BY DEF JoinDial
<1>2. PICK t, u :
         /\ t \in Sockets
         /\ socket' = [socket EXCEPT ![t] = u]
         /\ u \in {Dialled(g, "join", join[g].tok), Refused(g, "join")}
         /\ join'[g].pc \in {"wait", "failed"} /\ (join'[g].pc = "wait" => join'[g].t = t)
         /\ \A h \in Sessions : h # g => join'[h] = join[h]
  BY DEF JoinDial, JoinFails, Types, JoinTypes
<1>3. ~u.ready /\ Greeted(u)
  BY <1>2 DEF Dialled, Refused, NoSocket, Greeted
<1>4. TameSockets
  BY <1>2, <1>3, OneTame DEF Tame, Types
<1>5. JoinWire'
  <2> SUFFICES ASSUME NEW h \in Sessions, join'[h].pc = "wait", h \notin cancelled, executor[h] = Absent
               PROVE  Greeted(socket'[join'[h].t])
    BY <1>1 DEF JoinWire, Greeted
  <2>1. CASE h = g
    BY <1>2, <1>3, <2>1 DEF Types, SocketTypes
  <2>2. CASE h # g
    <3>1. join'[h] = join[h] /\ join[h].t \in Sockets
      BY <1>2, <2>2 DEF Types, OwnSockets
    <3> QED BY <1>4, <3>1 DEF WireInv, JoinWire, TameSockets, Tame
  <2> QED BY <2>1, <2>2
<1>6. JoinReady'
  <2>1. ASSUME NEW v \in Sockets, socket'[v].ready
        PROVE  /\ socket'[v].of \in Sessions
               /\ socket'[v].kind = "join" => /\ executor'[socket'[v].of] # Absent
                                              /\ join'[socket'[v].of].pc = "wait" /\ join'[socket'[v].of].t = v
    <3>1. socket[v].ready
      BY <1>4, <2>1 DEF TameSockets, Tame
    <3>2. socket[v].of \in Sessions /\ socket'[v].of = socket[v].of /\ socket'[v].kind = socket[v].kind
      BY <3>1, Bounds DEF WireInv, JoinReady, SocketsKept, Kept
    <3> QED BY <1>1, <1>2, <3>1, <3>2 DEF WireInv, JoinReady
  <2>2. ASSUME NEW h \in Sessions, join'[h].pc = "commit" PROVE executor'[h] # Absent
    BY <1>1, <1>2, <2>2 DEF WireInv, JoinReady
  <2> QED BY <2>1, <2>2 DEF JoinReady
<1> QED BY <1>5, <1>6 DEF WireInv

LEMMA WireJoinWait ==
    ASSUME Types, JoinInv, HoldInv, WireInv, SocketsKept, NEW g \in Sessions, JoinWait(g)
    PROVE  WireInv'
<1> DEFINE t == join[g].t
<1>1. executor' = executor /\ cancelled' = cancelled /\ join[g].pc = "wait"
  BY DEF JoinWait
<1>2. t \in Sockets /\ IsSocket(socket[t]) /\ socket[t].of = g /\ socket[t].kind = "join"
  BY <1>1 DEF Types, OwnSockets, SocketTypes
<1>3. PICK u : socket' = [socket EXCEPT ![t] = u] /\ u \in {Taken(socket[t]), Close(Taken(socket[t]))}
  BY DEF JoinWait
<1>4. Tame(socket[t], u) /\ ~u.ready
  <2>1. IsSocket(Taken(socket[t]))
    BY <1>2, TakenKept DEF Kept
  <2> QED BY <1>2, <1>3, <2>1, TakenTame, CloseTame DEF Tame
<1>5. /\ join'[g].pc \in {"commit", "failed", "refresh"}
      /\ join'[g].pc = "commit" => socket[t].ready
      /\ \A h \in Sessions : h # g => join'[h] = join[h]
  <2>1. /\ DOMAIN join = Sessions /\ DOMAIN join[g] = {"pc", "t", "tok", "fallbacks", "err"}
    BY DEF Types, JoinTypes
  <2>2. PICK outcome \in JoinOutcomes(g) :
          \/ outcome = "ready" /\ Joining(g, "commit")
          \/ \E err : JoinFails(g, err)
          \/ Joining(g, "refresh")
    BY DEF JoinWait
  <2>3. "ready" \in JoinOutcomes(g) => socket[t].ready
    BY DEF JoinOutcomes, initialJoinOutcomeOnTransportEnd
  <2> QED BY <2>1, <2>2, <2>3 DEF Joining, JoinFails
<1> HIDE DEF t
<1>6. TameSockets
  BY <1>2, <1>3, <1>4, OneTame DEF Types
<1>7. JoinWire'
  <2> SUFFICES ASSUME NEW h \in Sessions, join'[h].pc = "wait", h \notin cancelled, executor[h] = Absent
               PROVE  Greeted(socket'[join'[h].t])
    BY <1>1 DEF JoinWire, Greeted
  <2>1. join'[h] = join[h] /\ join[h].t \in Sockets
    BY <1>5 DEF Types, OwnSockets
  <2> QED BY <1>6, <2>1 DEF WireInv, JoinWire, TameSockets, Tame
<1>8. JoinReady'
  <2>1. ASSUME NEW v \in Sockets, socket'[v].ready
        PROVE  /\ socket'[v].of \in Sessions
               /\ socket'[v].kind = "join" => /\ executor'[socket'[v].of] # Absent
                                              /\ join'[socket'[v].of].pc = "wait" /\ join'[socket'[v].of].t = v
    <3>1. socket[v].ready /\ v # t
      BY <1>3, <1>4, <1>6, <2>1 DEF TameSockets, Tame, Types, SocketTypes
    <3>2. socket[v].of \in Sessions /\ socket'[v].of = socket[v].of /\ socket'[v].kind = socket[v].kind
      BY <3>1, Bounds DEF WireInv, JoinReady, SocketsKept, Kept
    <3>3. socket[v].kind = "join" => socket[v].of # g
      BY <3>1 DEF WireInv, JoinReady, t
    <3> QED BY <1>1, <1>5, <3>1, <3>2, <3>3 DEF WireInv, JoinReady
  <2>2. ASSUME NEW h \in Sessions, join'[h].pc = "commit" PROVE executor'[h] # Absent
    <3>1. CASE h = g
      BY <1>1, <1>2, <1>5, <2>2, <3>1 DEF WireInv, JoinReady
    <3>2. CASE h # g
      BY <1>1, <1>5, <2>2, <3>2 DEF WireInv, JoinReady
    <3> QED BY <3>1, <3>2
  <2> QED BY <2>1, <2>2 DEF JoinReady
<1> QED BY <1>7, <1>8 DEF WireInv

(* A join socket that is awaited is awaited by the join of its session. *)
LEMMA AwaitedJoin ==
    ASSUME Types, NEW t \in Sockets, Awaited(t), socket[t].kind = "join"
    PROVE  socket[t].of \in Sessions /\ join[socket[t].of].pc = "wait" /\ join[socket[t].of].t = t
BY DEF Awaited, Types, OwnSockets

LEMMA WireReceive ==
    ASSUME Types, JoinInv, HoldInv, WireInv, SocketsKept, NEW t \in Sockets, Receive(t)
    PROVE  WireInv'
<1>1. cancelled' = cancelled /\ join' = join /\ socket[t].wire # <<>> /\ IsSocket(socket[t])
      /\ socket[t].st \in {"open", "closing"} /\ socket[t].of \in Sessions
  BY DEF Receive, Reading, Types, SocketTypes, IsSocket
<1>2. /\ DOMAIN executor = Sessions
      /\ \A v \in Sockets : v # t => socket'[v] = socket[v]
      /\ socket'[t].of = socket[t].of /\ socket'[t].kind = socket[t].kind
  <2>1. socket' = [socket EXCEPT ![t] = socket'[t]]
    BY DEF Receive, Types, SocketTypes
  <2> QED BY <1>1, <2>1, Bounds DEF SocketsKept, Kept, Types, ControlTypes, SocketTypes
<1> DEFINE g == socket[t].of
<1>3. \/ executor' = executor
      \/ executor' = [executor EXCEPT ![g] = t]
  BY DEF Receive, Types, SocketTypes, IsSocket, SocketFields
<1>4. \A h \in Sessions : executor'[h] = Absent => executor[h] = Absent
  BY <1>1, <1>2, <1>3 DEF Absent, Sockets
<1>5. Head(socket[t].wire) \in {"joined", "close"} /\ ~Deaf(t) /\ socket[t].kind = "join" =>
         executor'[g] # Absent \/ socket'[t].st = "ended"
  <2>1. CASE Head(socket[t].wire) = "close"
    <3>1. DOMAIN socket = Sockets /\ DOMAIN socket[t] = SocketFields
      BY DEF Types, SocketTypes, IsSocket
    <3>2. socket' = [socket EXCEPT ![t] = [[socket[t] EXCEPT !.wire = Tail(@)] EXCEPT !.st = "ended", !.err = "lost"]]
      BY <2>1 DEF Receive
    <3> QED BY <3>1, <3>2 DEF SocketFields
  <2>2. CASE Head(socket[t].wire) = "joined" /\ ~Deaf(t) /\ socket[t].kind = "join"
    <3>1. executor' = [executor EXCEPT ![g] = t]
      BY <1>1, <2>2 DEF Receive, IsSocket, SocketFields
    <3> QED BY <1>1, <1>2, <3>1 DEF Absent, Sockets
  <2> QED BY <2>1, <2>2
<1>6. socket'[t].ready =>
         \/ socket[t].ready
         \/ Head(socket[t].wire) = "complete" /\ ~Deaf(t) /\ Awaited(t)
  <2>1. DOMAIN socket = Sockets /\ DOMAIN socket[t] = SocketFields
    BY DEF Types, SocketTypes, IsSocket
  <2>2. CASE Head(socket[t].wire) = "complete" /\ ~Deaf(t)
    BY <2>1, <2>2 DEF Receive, SocketFields
  <2>3. CASE Head(socket[t].wire) # "complete" \/ Deaf(t)
    BY <2>1, <2>3 DEF Receive, SocketFields
  <2> QED BY <2>2, <2>3
<1>7. JoinWire'
  <2> SUFFICES ASSUME NEW h \in Sessions, join[h].pc = "wait", h \notin cancelled, executor'[h] = Absent
               PROVE  Greeted(socket'[join[h].t])
    BY <1>1 DEF JoinWire, Greeted
  <2>1. /\ Greeted(socket[join[h].t])
        /\ join[h].t \in Sockets
        /\ socket[join[h].t].of = h
        /\ socket[join[h].t].kind = "join"
    BY <1>4 DEF WireInv, JoinWire, Types, OwnSockets
  <2>2. CASE join[h].t # t
    BY <1>2, <2>1, <2>2
  <2>3. CASE join[h].t = t
    <3>1. Head(socket[t].wire) \in {"joined", "close"} /\ ~Deaf(t)
      BY <1>1, <2>1, <2>3 DEF Greeted, Deaf
    <3> QED BY <1>5, <2>1, <2>3, <3>1 DEF Greeted
  <2> QED BY <2>2, <2>3
<1>8. JoinReady'
  <2>1. ASSUME NEW v \in Sockets, socket'[v].ready
        PROVE  /\ socket'[v].of \in Sessions
               /\ socket'[v].kind = "join" => /\ executor'[socket'[v].of] # Absent
                                              /\ join'[socket'[v].of].pc = "wait" /\ join'[socket'[v].of].t = v
    <3>1. CASE socket[v].ready
      <4>1. socket'[v].of = socket[v].of /\ socket'[v].kind = socket[v].kind
        BY <1>2
      <4> QED BY <1>1, <1>4, <3>1, <4>1 DEF WireInv, JoinReady
    <3>2. CASE ~socket[v].ready
      <4>1. v = t /\ Head(socket[t].wire) = "complete" /\ ~Deaf(t) /\ Awaited(t)
        BY <1>2, <1>6, <2>1, <3>2
      <4>2. socket[t].kind = "join" => join[g].pc = "wait" /\ join[g].t = t /\ g \notin cancelled
        BY <4>1, AwaitedJoin DEF Deaf
      <4>3. socket[t].kind = "join" => executor[g] # Absent
        BY <1>1, <4>1, <4>2 DEF WireInv, JoinWire, Greeted
      <4> QED BY <1>1, <1>2, <1>4, <4>1, <4>2, <4>3
    <3> QED BY <3>1, <3>2
  <2>2. ASSUME NEW h \in Sessions, join'[h].pc = "commit" PROVE executor'[h] # Absent
    BY <1>1, <1>4, <2>2 DEF WireInv, JoinReady
  <2> QED BY <2>1, <2>2 DEF JoinReady
<1> QED BY <1>7, <1>8 DEF WireInv

LEMMA WireReceiveFault ==
    ASSUME Types, JoinInv, HoldInv, WireInv, SocketsKept, NEW t \in Sockets, ReceiveFault(t)
    PROVE  WireInv'
<1>1. cancelled' = cancelled /\ join' = join /\ executor' = executor /\ executor[socket[t].of] # Absent
      /\ IsSocket(socket[t]) /\ socket[t].wire # <<>>
  BY DEF ReceiveFault, Quiet, Types, SocketTypes, Reading
<1>2. \A v \in Sockets : v # t => socket'[v] = socket[v]
  BY DEF ReceiveFault, Types, SocketTypes
<1>3. socket'[t].ready = socket[t].ready
  <2>1. PICK f : f = Found(t, socket[t], "fault")
    OBVIOUS
  <2>2. IsSocket(f) /\ f.ready = socket[t].ready
    BY <1>1, <2>1, FoundTame, FoundKept DEF Kept
  <2>3. PICK c : c = Close(f)
    OBVIOUS
  <2>4. IsSocket(c) /\ c.ready = f.ready
    <3>1. IsSocket(c)
      BY <2>2, <2>3, CloseKept DEF Kept
    <3>2. c.ready = f.ready
      BY <2>2, <2>3 DEF Close, IsSocket, SocketFields
    <3> QED BY <3>1, <3>2
  <2>5. \/ socket' = [socket EXCEPT ![t] = [f EXCEPT !.wire = Tail(@)]]
        \/ socket' = [socket EXCEPT ![t] = [c EXCEPT !.wire = <<>>]]
    BY <2>1, <2>3 DEF ReceiveFault
  <2> QED BY <2>2, <2>4, <2>5 DEF Types, SocketTypes, IsSocket, SocketFields
<1>4. JoinWire'
  <2> SUFFICES ASSUME NEW h \in Sessions, join[h].pc = "wait", h \notin cancelled, executor[h] = Absent
               PROVE  Greeted(socket'[join[h].t])
    BY <1>1 DEF JoinWire, Greeted
  <2>1. Greeted(socket[join[h].t]) /\ join[h].t \in Sockets /\ socket[join[h].t].of = h
    BY DEF WireInv, JoinWire, Types, OwnSockets
  <2> QED BY <1>1, <1>2, <2>1
<1>5. JoinReady'
  <2>1. ASSUME NEW v \in Sockets, socket'[v].ready
        PROVE  /\ socket'[v].of \in Sessions
               /\ socket'[v].kind = "join" => /\ executor'[socket'[v].of] # Absent
                                              /\ join'[socket'[v].of].pc = "wait" /\ join'[socket'[v].of].t = v
    <3>1. socket[v].ready
      BY <1>2, <1>3, <2>1
    <3>2. socket[v].of \in Sessions /\ socket'[v].of = socket[v].of /\ socket'[v].kind = socket[v].kind
      BY <3>1, Bounds DEF WireInv, JoinReady, SocketsKept, Kept
    <3> QED BY <1>1, <3>1, <3>2 DEF WireInv, JoinReady
  <2> QED BY <1>1, <2>1 DEF WireInv, JoinReady
<1> QED BY <1>4, <1>5 DEF WireInv

LEMMA WireInvStep ==
    ASSUME Types, JoinInv, HoldInv, WireInv, Next
    PROVE  WireInv'
<1>k. SocketsKept
  BY SocketsKeptStep
<1>0. SocketTypes
  BY DEF Types
<1>b. ControlTypes /\ JoinTypes
  BY DEF Types
<1>1. CASE Leave
  <2>1. TameSockets
    BY <1>1 DEF Leave, Quiet, TameSockets, Tame
  <2>2. JoinStays
    BY <1>1 DEF Leave, Quiet, JoinStays
  <2>3. ExecutorStays
    BY <1>1, <1>b DEF Leave, Quiet, ExecutorStays
  <2>4. cancelled \subseteq cancelled'
    BY <1>1 DEF Leave, Quiet, LeaveLocked
  <2> QED BY <2>1, <2>2, <2>3, <2>4, <1>k, WireFrame
<1>2. CASE RetryReconnect
  <2>1. TameSockets
    BY <1>2 DEF RetryReconnect, Quiet, TameSockets, Tame
  <2>2. JoinStays
    BY <1>2 DEF RetryReconnect, Quiet, JoinStays
  <2>3. ExecutorStays
    BY <1>2, <1>b DEF RetryReconnect, Quiet, ExecutorStays
  <2>4. cancelled \subseteq cancelled'
    BY <1>2 DEF RetryReconnect, Quiet, LeaveLocked
  <2> QED BY <2>1, <2>2, <2>3, <2>4, <1>k, WireFrame
<1>3. CASE recordConflictResolution
  <2>1. TameSockets
    BY <1>3 DEF recordConflictResolution, Quiet, TameSockets, Tame
  <2>2. JoinStays
    BY <1>3 DEF recordConflictResolution, Quiet, JoinStays
  <2>3. ExecutorStays
    BY <1>3, <1>b DEF recordConflictResolution, Quiet, ExecutorStays
  <2>4. cancelled \subseteq cancelled'
    BY <1>3 DEF recordConflictResolution, Quiet, LeaveLocked
  <2> QED BY <2>1, <2>2, <2>3, <2>4, <1>k, WireFrame
<1>4. ASSUME NEW g \in Sessions, Reserve(g) PROVE WireInv'
  <2>1. TameSockets
    BY <1>4 DEF Reserve, Quiet, TameSockets, Tame
  <2>2. JoinStays
    BY <1>4, <1>b DEF Reserve, Joining, JoinFails, NoJoin, JoinTypes, JoinStays
  <2>3. ExecutorStays
    BY <1>4, <1>b DEF Reserve, Quiet, ExecutorStays
  <2>4. cancelled \subseteq cancelled'
    BY <1>4 DEF Reserve, Quiet, LeaveLocked
  <2> QED BY <2>1, <2>2, <2>3, <2>4, <1>k, WireFrame
<1>5. CASE LeaveClient
  <2>1. TameSockets
    BY <1>5 DEF LeaveClient, Quiet, TameSockets, Tame
  <2>2. JoinStays
    BY <1>5 DEF LeaveClient, Quiet, JoinStays
  <2>3. ExecutorStays
    BY <1>5, <1>b DEF LeaveClient, Quiet, ExecutorStays
  <2>4. cancelled \subseteq cancelled'
    BY <1>5 DEF LeaveClient, Quiet, LeaveLocked
  <2> QED BY <2>1, <2>2, <2>3, <2>4, <1>k, WireFrame
<1>6. CASE LeaveDrop
  <2>1. TameSockets
    <3>1. leaver.transport \in Sockets \cup {0}
      BY <1>6, Bounds DEF LeaveDrop, Types, ControlTypes, ClientTypes, IsClient, OwnSockets
    <3>2. CASE socket' = socket
      BY <3>2 DEF TameSockets, Tame
    <3>3. CASE CloseSocket(leaver.transport)
      BY <3>1, <3>3, <1>0, CloseSocketTame
    <3> QED BY <1>6, <3>2, <3>3 DEF LeaveDrop, Dropped
  <2>2. JoinStays
    BY <1>6 DEF LeaveDrop, Quiet, JoinStays
  <2>3. ExecutorStays
    BY <1>6, <1>b DEF LeaveDrop, ExecutorStays, Dropped, ControlTypes, Absent, Terminated
  <2>4. cancelled \subseteq cancelled'
    BY <1>6 DEF LeaveDrop, Quiet, LeaveLocked
  <2> QED BY <2>1, <2>2, <2>3, <2>4, <1>k, WireFrame
<1>7. CASE Expire
  <2>1. TameSockets
    BY <1>7 DEF Expire, Quiet, TameSockets, Tame
  <2>2. JoinStays
    BY <1>7 DEF Expire, Quiet, JoinStays
  <2>3. ExecutorStays
    BY <1>7, <1>b DEF Expire, Quiet, ExecutorStays
  <2>4. cancelled \subseteq cancelled'
    BY <1>7 DEF Expire, Quiet, LeaveLocked
  <2> QED BY <2>1, <2>2, <2>3, <2>4, <1>k, WireFrame
<1>8. ASSUME NEW t \in Sockets, ServeRejection(t) PROVE WireInv'
  <2>1. TameSockets
    <3>0. /\ <<"joined">> \in Seq(Messages)
          /\ <<"close">> \in Seq(Messages)
          /\ <<"complete">> \in Seq(Messages)
          /\ <<"snapshot", "close">> \in Seq(Messages)
          /\ <<"rejected">> \in Seq(Messages)
      BY DEF Messages
    <3> QED BY <1>8, <3>0, <1>0, WriteTame DEF ServeRejection
  <2>2. JoinStays
    BY <1>8 DEF ServeRejection, Quiet, JoinStays
  <2>3. ExecutorStays
    BY <1>8, <1>b DEF ServeRejection, Quiet, ExecutorStays
  <2>4. cancelled \subseteq cancelled'
    BY <1>8 DEF ServeRejection, Quiet, LeaveLocked
  <2> QED BY <2>1, <2>2, <2>3, <2>4, <1>k, WireFrame
<1>9. ASSUME NEW t \in Sockets, NEW e \in {"lost", "rate"}, Lose(t, e) PROVE WireInv'
  <2>1. TameSockets
    <3>0. t \in Sockets /\ IsSocket(socket[t])
      BY <1>9, <1>0, Bounds DEF Lose, SocketTypes, Types, OwnSockets
    <3>1. PICK u : u = [socket[t] EXCEPT !.st = "ended", !.err = e, !.wire = <<>>]
      OBVIOUS
    <3>2. socket' = [socket EXCEPT ![t] = u]
      BY <1>9, <3>1 DEF Lose
    <3>3. Tame(socket[t], u)
      BY <3>0, <3>1 DEF Tame, Greeted, IsSocket, SocketFields
    <3> QED BY <3>0, <3>2, <3>3, <1>0, OneTame
  <2>2. JoinStays
    BY <1>9 DEF Lose, Quiet, JoinStays
  <2>3. ExecutorStays
    BY <1>9, <1>b DEF Lose, Quiet, ExecutorStays
  <2>4. cancelled \subseteq cancelled'
    BY <1>9 DEF Lose, Quiet, LeaveLocked
  <2> QED BY <2>1, <2>2, <2>3, <2>4, <1>k, WireFrame
<1>10. ASSUME NEW g \in Sessions, EnterJoin(g) PROVE WireInv'
  <2>1. TameSockets
    BY <1>10 DEF EnterJoin, Quiet, TameSockets, Tame
  <2>2. JoinStays
    BY <1>10, <1>b DEF EnterJoin, Joining, JoinFails, NoJoin, JoinTypes, JoinStays
  <2>3. ExecutorStays
    BY <1>10, <1>b DEF EnterJoin, Quiet, ExecutorStays
  <2>4. cancelled \subseteq cancelled'
    BY <1>10 DEF EnterJoin, Quiet, LeaveLocked
  <2> QED BY <2>1, <2>2, <2>3, <2>4, <1>k, WireFrame
<1>11. ASSUME NEW g \in Sessions, JoinFetch(g) PROVE WireInv'
  <2>1. TameSockets
    BY <1>11 DEF JoinFetch, Quiet, TameSockets, Tame
  <2>2. JoinStays
    BY <1>11, <1>b DEF JoinFetch, Joining, JoinFails, NoJoin, JoinTypes, JoinStays
  <2>3. ExecutorStays
    BY <1>11, <1>b DEF JoinFetch, Quiet, ExecutorStays
  <2>4. cancelled \subseteq cancelled'
    BY <1>11 DEF JoinFetch, Quiet, LeaveLocked
  <2> QED BY <2>1, <2>2, <2>3, <2>4, <1>k, WireFrame
<1>12. ASSUME NEW g \in Sessions, JoinDial(g) PROVE WireInv'
  BY <1>12, <1>k, WireJoinDial
<1>13. ASSUME NEW g \in Sessions, JoinWait(g) PROVE WireInv'
  BY <1>13, <1>k, WireJoinWait
<1>14. ASSUME NEW g \in Sessions, JoinRefresh(g) PROVE WireInv'
  <2>1. TameSockets
    BY <1>14 DEF JoinRefresh, Quiet, TameSockets, Tame
  <2>2. JoinStays
    BY <1>14, <1>b DEF JoinRefresh, Joining, JoinFails, NoJoin, JoinTypes, JoinStays
  <2>3. ExecutorStays
    BY <1>14, <1>b DEF JoinRefresh, Quiet, ExecutorStays
  <2>4. cancelled \subseteq cancelled'
    BY <1>14 DEF JoinRefresh, Quiet, LeaveLocked
  <2> QED BY <2>1, <2>2, <2>3, <2>4, <1>k, WireFrame
<1>15. ASSUME NEW g \in Sessions, JoinCommit(g) PROVE WireInv'
  <2>1. TameSockets
    <3>1. join[g].t \in Sockets \cup {0}
      BY <1>15, Bounds DEF JoinCommit, Types, ControlTypes, ClientTypes, IsClient, OwnSockets
    <3>2. CASE socket' = socket
      BY <3>2 DEF TameSockets, Tame
    <3>3. CASE CloseSocket(join[g].t)
      BY <3>1, <3>3, <1>0, CloseSocketTame
    <3> QED BY <1>15, <3>2, <3>3 DEF JoinCommit, Dropped
  <2>2. JoinStays
    BY <1>15, <1>b DEF JoinCommit, Joining, JoinFails, NoJoin, JoinTypes, JoinStays
  <2>3. ExecutorStays
    BY <1>15, <1>b DEF JoinCommit, ExecutorStays, ControlTypes, Absent, Terminated
  <2>4. cancelled \subseteq cancelled'
    BY <1>15 DEF JoinCommit, Quiet, LeaveLocked
  <2> QED BY <2>1, <2>2, <2>3, <2>4, <1>k, WireFrame
<1>16. ASSUME NEW g \in Sessions, JoinSync(g) PROVE WireInv'
  <2>1. TameSockets
    <3>0. join[g].t \in Sockets /\ IsSocket(socket[join[g].t])
      BY <1>16, <1>0, Bounds DEF JoinSync, SocketTypes, Types, OwnSockets
    <3>1. PICK u : u = [socket[join[g].t] EXCEPT !.monitor = "wait"]
      OBVIOUS
    <3>2. socket' = [socket EXCEPT ![join[g].t] = u]
      BY <1>16, <3>1 DEF JoinSync, Monitoring, Watched
    <3>3. Tame(socket[join[g].t], u)
      BY <3>0, <3>1 DEF Tame, Greeted, IsSocket, SocketFields
    <3> QED BY <3>0, <3>2, <3>3, <1>0, OneTame
  <2>2. JoinStays
    BY <1>16, <1>b DEF JoinSync, Joining, JoinFails, NoJoin, JoinTypes, JoinStays
  <2>3. ExecutorStays
    BY <1>16, <1>b DEF JoinSync, Quiet, ExecutorStays
  <2>4. cancelled \subseteq cancelled'
    BY <1>16 DEF JoinSync, Quiet, LeaveLocked
  <2> QED BY <2>1, <2>2, <2>3, <2>4, <1>k, WireFrame
<1>17. ASSUME NEW g \in Sessions, JoinFailed(g) PROVE WireInv'
  <2>1. TameSockets
    BY <1>17 DEF JoinFailed, Quiet, TameSockets, Tame
  <2>2. JoinStays
    BY <1>17, <1>b DEF JoinFailed, Joining, JoinFails, NoJoin, JoinTypes, JoinStays
  <2>3. ExecutorStays
    BY <1>17, <1>b DEF JoinFailed, Joining, JoinTypes, ExecutorStays, ControlTypes
  <2>4. cancelled \subseteq cancelled'
    BY <1>17 DEF JoinFailed, Quiet, LeaveLocked
  <2> QED BY <2>1, <2>2, <2>3, <2>4, <1>k, WireFrame
<1>18. ASSUME NEW g \in Sessions, JoinActivate(g) PROVE WireInv'
  <2>1. TameSockets
    BY <1>18 DEF JoinActivate, Quiet, TameSockets, Tame
  <2>2. JoinStays
    BY <1>18, <1>b DEF JoinActivate, Joining, JoinFails, NoJoin, JoinTypes, JoinStays
  <2>3. ExecutorStays
    BY <1>18, <1>b DEF JoinActivate, Quiet, ExecutorStays
  <2>4. cancelled \subseteq cancelled'
    BY <1>18 DEF JoinActivate, Quiet, LeaveLocked
  <2> QED BY <2>1, <2>2, <2>3, <2>4, <1>k, WireFrame
<1>19. ASSUME NEW g \in Sessions, releaseReservation(g) PROVE WireInv'
  <2>1. TameSockets
    BY <1>19 DEF releaseReservation, Quiet, TameSockets, Tame
  <2>2. JoinStays
    BY <1>19, <1>b DEF releaseReservation, Joining, JoinFails, NoJoin, JoinTypes, JoinStays
  <2>3. ExecutorStays
    BY <1>19, <1>b DEF releaseReservation, Quiet, ExecutorStays
  <2>4. cancelled \subseteq cancelled'
    BY <1>19 DEF releaseReservation, Quiet, LeaveLocked
  <2> QED BY <2>1, <2>2, <2>3, <2>4, <1>k, WireFrame
<1>20. ASSUME NEW g \in Sessions, JoinLeave(g) PROVE WireInv'
  <2>1. TameSockets
    <3>1. client.transport \in Sockets \cup {0}
      BY <1>20, Bounds DEF JoinLeave, Types, ControlTypes, ClientTypes, IsClient, OwnSockets
    <3>2. CASE socket' = socket
      BY <3>2 DEF TameSockets, Tame
    <3>3. CASE CloseSocket(client.transport)
      BY <3>1, <3>3, <1>0, CloseSocketTame
    <3> QED BY <1>20, <3>2, <3>3 DEF JoinLeave, Dropped
  <2>2. JoinStays
    BY <1>20, <1>b DEF JoinLeave, Joining, JoinFails, NoJoin, JoinTypes, JoinStays
  <2>3. ExecutorStays
    BY <1>20, <1>b DEF JoinLeave, ExecutorStays, Dropped, ControlTypes, Absent, Terminated
  <2>4. cancelled \subseteq cancelled'
    BY <1>20 DEF JoinLeave, Quiet, LeaveLocked
  <2> QED BY <2>1, <2>2, <2>3, <2>4, <1>k, WireFrame
<1>21. ASSUME NEW g \in Sessions, AttemptBegin(g) PROVE WireInv'
  <2>1. TameSockets
    BY <1>21 DEF AttemptBegin, Quiet, TameSockets, Tame
  <2>2. JoinStays
    BY <1>21 DEF AttemptBegin, Quiet, JoinStays
  <2>3. ExecutorStays
    BY <1>21, <1>b DEF AttemptBegin, Quiet, ExecutorStays
  <2>4. cancelled \subseteq cancelled'
    BY <1>21 DEF AttemptBegin, Quiet, LeaveLocked
  <2> QED BY <2>1, <2>2, <2>3, <2>4, <1>k, WireFrame
<1>22. ASSUME NEW g \in Sessions, AttemptResume(g) PROVE WireInv'
  <2>1. TameSockets
    <3>1. CASE executor[g] # Paused
      BY <1>22, <3>1 DEF AttemptResume, TameSockets, Tame
    <3>2. CASE executor[g] = Paused
      <4>1. PICK t \in Sockets :
               socket' = [socket EXCEPT ![t].of = g, ![t].kind = "reconnect", ![t].tok = runner[g].tok]
        BY <1>22, <3>2 DEF AttemptResume
      <4>2. PICK u : u = [socket[t] EXCEPT !.of = g, !.kind = "reconnect", !.tok = runner[g].tok]
        OBVIOUS
      <4>3. socket' = [socket EXCEPT ![t] = u]
        BY <4>1, <4>2
      <4>4. Tame(socket[t], u)
        BY <4>2, <1>0 DEF Tame, Greeted, SocketTypes, IsSocket, SocketFields
      <4> QED BY <4>3, <4>4, <1>0, OneTame
    <3> QED BY <3>1, <3>2
  <2>2. JoinStays
    BY <1>22 DEF AttemptResume, Quiet, JoinStays
  <2>3. ExecutorStays
    BY <1>22, ResumedRunner DEF ExecutorStays
  <2>4. cancelled \subseteq cancelled'
    BY <1>22 DEF AttemptResume, Quiet, LeaveLocked
  <2> QED BY <2>1, <2>2, <2>3, <2>4, <1>k, WireFrame
<1>23. ASSUME NEW g \in Sessions, AttemptDial(g) PROVE WireInv'
  <2>1. TameSockets
    <3>1. runner[g].t \in Sockets
      BY <1>23 DEF AttemptDial, Types, OwnSockets
    <3>2. PICK u :
             /\ socket' = [socket EXCEPT ![runner[g].t] = u]
             /\ u \in {Dialled(g, "reconnect", socket[runner[g].t].tok), Refused(g, "reconnect")}
      BY <1>23 DEF AttemptDial
    <3>3. ~u.ready /\ Greeted(u)
      BY <3>2 DEF Dialled, Refused, NoSocket, Greeted
    <3> QED BY <3>1, <3>2, <3>3, <1>0, OneTame DEF Tame
  <2>2. JoinStays
    BY <1>23 DEF AttemptDial, Quiet, JoinStays
  <2>3. ExecutorStays
    BY <1>23, <1>b DEF AttemptDial, Quiet, ExecutorStays
  <2>4. cancelled \subseteq cancelled'
    BY <1>23 DEF AttemptDial, Quiet, LeaveLocked
  <2> QED BY <2>1, <2>2, <2>3, <2>4, <1>k, WireFrame
<1>24. ASSUME NEW g \in Sessions, AttemptWait(g) PROVE WireInv'
  <2>1. TameSockets
    <3>1. runner[g].t \in Sockets /\ IsSocket(socket[runner[g].t])
      BY <1>24, <1>0 DEF AttemptWait, Types, OwnSockets, SocketTypes
    <3>2. PICK u :
             /\ socket' = [socket EXCEPT ![runner[g].t] = u]
             /\ u \in {Taken(socket[runner[g].t]), Close(Taken(socket[runner[g].t]))}
      BY <1>24 DEF AttemptWait
    <3>3. Tame(socket[runner[g].t], u)
      <4>1. IsSocket(Taken(socket[runner[g].t]))
        BY <3>1, TakenKept DEF Kept
      <4> QED BY <3>1, <3>2, <4>1, TakenTame, CloseTame DEF Tame
    <3> QED BY <3>1, <3>2, <3>3, <1>0, OneTame
  <2>2. JoinStays
    BY <1>24 DEF AttemptWait, Quiet, JoinStays
  <2>3. ExecutorStays
    BY <1>24, <1>b DEF AttemptWait, Quiet, ExecutorStays
  <2>4. cancelled \subseteq cancelled'
    BY <1>24 DEF AttemptWait, Quiet, LeaveLocked
  <2> QED BY <2>1, <2>2, <2>3, <2>4, <1>k, WireFrame
<1>25. ASSUME NEW g \in Sessions, AttemptSuspend(g) PROVE WireInv'
  <2>1. TameSockets
    BY <1>25 DEF AttemptSuspend, Quiet, TameSockets, Tame
  <2>2. JoinStays
    BY <1>25 DEF AttemptSuspend, Quiet, JoinStays
  <2>3. ExecutorStays
    BY <1>25, <1>b DEF AttemptSuspend, ExecutorStays, Suspended, ControlTypes, Absent, Paused, Sockets
  <2>4. cancelled \subseteq cancelled'
    BY <1>25 DEF AttemptSuspend, Quiet, LeaveLocked
  <2> QED BY <2>1, <2>2, <2>3, <2>4, <1>k, WireFrame
<1>26. ASSUME NEW g \in Sessions, AttemptRecord(g) PROVE WireInv'
  <2>1. TameSockets
    BY <1>26 DEF AttemptRecord, Quiet, TameSockets, Tame
  <2>2. JoinStays
    BY <1>26 DEF AttemptRecord, Quiet, JoinStays
  <2>3. ExecutorStays
    BY <1>26, <1>b DEF AttemptRecord, Quiet, ExecutorStays
  <2>4. cancelled \subseteq cancelled'
    BY <1>26 DEF AttemptRecord, Quiet, LeaveLocked
  <2> QED BY <2>1, <2>2, <2>3, <2>4, <1>k, WireFrame
<1>27. ASSUME NEW g \in Sessions, AttemptRetry(g) PROVE WireInv'
  <2>1. TameSockets
    BY <1>27 DEF AttemptRetry, Quiet, TameSockets, Tame
  <2>2. JoinStays
    BY <1>27 DEF AttemptRetry, Quiet, JoinStays
  <2>3. ExecutorStays
    BY <1>27, <1>b DEF AttemptRetry, Quiet, ExecutorStays
  <2>4. cancelled \subseteq cancelled'
    BY <1>27 DEF AttemptRetry, Quiet, LeaveLocked
  <2> QED BY <2>1, <2>2, <2>3, <2>4, <1>k, WireFrame
<1>28. ASSUME NEW g \in Sessions, AttemptInstall(g) PROVE WireInv'
  <2>1. TameSockets
    <3>1. runner[g].t \in Sockets \cup {0}
      BY <1>28, Bounds DEF AttemptInstall, Types, ControlTypes, ClientTypes, IsClient, OwnSockets
    <3>2. CASE socket' = socket
      BY <3>2 DEF TameSockets, Tame
    <3>3. CASE CloseSocket(runner[g].t)
      BY <3>1, <3>3, <1>0, CloseSocketTame
    <3> QED BY <1>28, <3>2, <3>3 DEF AttemptInstall, Dropped
  <2>2. JoinStays
    BY <1>28 DEF AttemptInstall, Quiet, JoinStays
  <2>3. ExecutorStays
    BY <1>28, <1>b DEF AttemptInstall, ExecutorStays, Suspended, ControlTypes, Absent, Paused, Sockets
  <2>4. cancelled \subseteq cancelled'
    BY <1>28 DEF AttemptInstall, Quiet, LeaveLocked
  <2> QED BY <2>1, <2>2, <2>3, <2>4, <1>k, WireFrame
<1>29. ASSUME NEW g \in Sessions, AttemptSync(g) PROVE WireInv'
  <2>1. TameSockets
    <3>0. runner[g].t \in Sockets /\ IsSocket(socket[runner[g].t])
      BY <1>29, <1>0, Bounds DEF AttemptSync, SocketTypes, Types, OwnSockets
    <3>1. PICK u : u = [socket[runner[g].t] EXCEPT !.monitor = "wait"]
      OBVIOUS
    <3>2. socket' = [socket EXCEPT ![runner[g].t] = u]
      BY <1>29, <3>1 DEF AttemptSync, Monitoring, Watched
    <3>3. Tame(socket[runner[g].t], u)
      BY <3>0, <3>1 DEF Tame, Greeted, IsSocket, SocketFields
    <3> QED BY <3>0, <3>2, <3>3, <1>0, OneTame
  <2>2. JoinStays
    BY <1>29 DEF AttemptSync, Quiet, JoinStays
  <2>3. ExecutorStays
    BY <1>29, <1>b DEF AttemptSync, Quiet, ExecutorStays
  <2>4. cancelled \subseteq cancelled'
    BY <1>29 DEF AttemptSync, Quiet, LeaveLocked
  <2> QED BY <2>1, <2>2, <2>3, <2>4, <1>k, WireFrame
<1>30. ASSUME NEW g \in Sessions, ReconnectEnd(g) PROVE WireInv'
  <2>1. TameSockets
    BY <1>30 DEF ReconnectEnd, Quiet, TameSockets, Tame
  <2>2. JoinStays
    BY <1>30 DEF ReconnectEnd, Quiet, JoinStays
  <2>3. ExecutorStays
    BY <1>30, <1>b DEF ReconnectEnd, Quiet, ExecutorStays
  <2>4. cancelled \subseteq cancelled'
    BY <1>30 DEF ReconnectEnd, Quiet, LeaveLocked
  <2> QED BY <2>1, <2>2, <2>3, <2>4, <1>k, WireFrame
<1>31. ASSUME NEW t \in Sockets, MonitorWait(t) PROVE WireInv'
  <2>1. TameSockets
    <3>0. t \in Sockets /\ IsSocket(socket[t])
      BY <1>31, <1>0, Bounds DEF MonitorWait, SocketTypes, Types, OwnSockets
    <3>1. PICK u : u = [socket[t] EXCEPT !.monitor = Watched(t)]
      OBVIOUS
    <3>2. socket' = [socket EXCEPT ![t] = u]
      BY <1>31, <3>1 DEF MonitorWait, Monitoring, Watched
    <3>3. Tame(socket[t], u)
      BY <3>0, <3>1 DEF Tame, Greeted, IsSocket, SocketFields
    <3> QED BY <3>0, <3>2, <3>3, <1>0, OneTame
  <2>2. JoinStays
    BY <1>31 DEF MonitorWait, Quiet, JoinStays
  <2>3. ExecutorStays
    BY <1>31, <1>b DEF MonitorWait, Quiet, ExecutorStays
  <2>4. cancelled \subseteq cancelled'
    BY <1>31 DEF MonitorWait, Quiet, LeaveLocked
  <2> QED BY <2>1, <2>2, <2>3, <2>4, <1>k, WireFrame
<1>32. ASSUME NEW t \in Sockets, MonitorSuspend(t) PROVE WireInv'
  <2>1. TameSockets
    <3>0. t \in Sockets /\ IsSocket(socket[t])
      BY <1>32, <1>0, Bounds DEF MonitorSuspend, SocketTypes, Types, OwnSockets
    <3>1. PICK u : u = [socket[t] EXCEPT !.monitor = "record"]
      OBVIOUS
    <3>2. socket' = [socket EXCEPT ![t] = u]
      BY <1>32, <3>1 DEF MonitorSuspend, Monitoring, Watched
    <3>3. Tame(socket[t], u)
      BY <3>0, <3>1 DEF Tame, Greeted, IsSocket, SocketFields
    <3> QED BY <3>0, <3>2, <3>3, <1>0, OneTame
  <2>2. JoinStays
    BY <1>32 DEF MonitorSuspend, Quiet, JoinStays
  <2>3. ExecutorStays
    BY <1>32, <1>b DEF MonitorSuspend, ExecutorStays, Suspended, ControlTypes, Absent, Paused, Sockets
  <2>4. cancelled \subseteq cancelled'
    BY <1>32 DEF MonitorSuspend, Quiet, LeaveLocked
  <2> QED BY <2>1, <2>2, <2>3, <2>4, <1>k, WireFrame
<1>33. ASSUME NEW t \in Sockets, MonitorRecord(t) PROVE WireInv'
  <2>1. TameSockets
    <3>0. t \in Sockets /\ IsSocket(socket[t])
      BY <1>33, <1>0, Bounds DEF MonitorRecord, SocketTypes, Types, OwnSockets
    <3>1. PICK u : u = [socket[t] EXCEPT !.monitor = "start"]
      OBVIOUS
    <3>2. socket' = [socket EXCEPT ![t] = u]
      BY <1>33, <3>1 DEF MonitorRecord, Monitoring, Watched
    <3>3. Tame(socket[t], u)
      BY <3>0, <3>1 DEF Tame, Greeted, IsSocket, SocketFields
    <3> QED BY <3>0, <3>2, <3>3, <1>0, OneTame
  <2>2. JoinStays
    BY <1>33 DEF MonitorRecord, Quiet, JoinStays
  <2>3. ExecutorStays
    BY <1>33, <1>b DEF MonitorRecord, Quiet, ExecutorStays
  <2>4. cancelled \subseteq cancelled'
    BY <1>33 DEF MonitorRecord, Quiet, LeaveLocked
  <2> QED BY <2>1, <2>2, <2>3, <2>4, <1>k, WireFrame
<1>34. ASSUME NEW t \in Sockets, MonitorStart(t) PROVE WireInv'
  <2>1. TameSockets
    <3>0. t \in Sockets /\ IsSocket(socket[t])
      BY <1>34, <1>0, Bounds DEF MonitorStart, SocketTypes, Types, OwnSockets
    <3>1. PICK u : u = [socket[t] EXCEPT !.monitor = "done"]
      OBVIOUS
    <3>2. socket' = [socket EXCEPT ![t] = u]
      BY <1>34, <3>1 DEF MonitorStart, Monitoring, Watched
    <3>3. Tame(socket[t], u)
      BY <3>0, <3>1 DEF Tame, Greeted, IsSocket, SocketFields
    <3> QED BY <3>0, <3>2, <3>3, <1>0, OneTame
  <2>2. JoinStays
    BY <1>34 DEF MonitorStart, Quiet, JoinStays
  <2>3. ExecutorStays
    BY <1>34, <1>b DEF MonitorStart, Quiet, ExecutorStays
  <2>4. cancelled \subseteq cancelled'
    BY <1>34 DEF MonitorStart, Quiet, LeaveLocked
  <2> QED BY <2>1, <2>2, <2>3, <2>4, <1>k, WireFrame
<1>35. ASSUME NEW t \in Sockets, Receive(t) PROVE WireInv'
  BY <1>35, <1>k, WireReceive
<1>36. ASSUME NEW t \in Sockets, ReceiveFault(t) PROVE WireInv'
  BY <1>36, <1>k, WireReceiveFault
<1>37. ASSUME NEW t \in Sockets, InstallSnapshot(t) PROVE WireInv'
  <2>1. TameSockets
    <3>1. IsSocket(socket[t])
      BY <1>0 DEF SocketTypes
    <3>2. PICK err : socket' = [socket EXCEPT ![t] = [Found(t, @, err) EXCEPT !.fetching = FALSE]]
      BY <1>37 DEF InstallSnapshot
    <3>3. PICK f : f = Found(t, socket[t], err)
      OBVIOUS
    <3>4. PICK u : u = [f EXCEPT !.fetching = FALSE]
      OBVIOUS
    <3>5. socket' = [socket EXCEPT ![t] = u]
      BY <3>2, <3>3, <3>4
    <3>6. /\ IsSocket(f)
          /\ f.ready = socket[t].ready
          /\ f.wire = socket[t].wire
          /\ f.st = socket[t].st
          /\ f.srv = socket[t].srv
      BY <3>1, <3>3, FoundTame, FoundKept DEF Kept
    <3>7. u.ready = f.ready /\ u.wire = f.wire /\ u.st = f.st /\ u.srv = f.srv
      BY <3>4, <3>6 DEF IsSocket, SocketFields
    <3>8. Tame(socket[t], u)
      BY <3>6, <3>7 DEF Tame, Greeted
    <3> QED BY <3>5, <3>8, <1>0, OneTame
  <2>2. JoinStays
    BY <1>37 DEF InstallSnapshot, Quiet, JoinStays
  <2>3. ExecutorStays
    BY <1>37, <1>b DEF InstallSnapshot, Quiet, ExecutorStays
  <2>4. cancelled \subseteq cancelled'
    BY <1>37 DEF InstallSnapshot, Quiet, LeaveLocked
  <2> QED BY <2>1, <2>2, <2>3, <2>4, <1>k, WireFrame
<1>38. ASSUME NEW t \in Sockets, Finish(t) PROVE WireInv'
  <2>1. TameSockets
    <3>0. t \in Sockets /\ IsSocket(socket[t])
      BY <1>38, <1>0, Bounds DEF Finish, SocketTypes, Types, OwnSockets
    <3>1. PICK u : u = [socket[t] EXCEPT !.st = "ended", !.wire = <<>>]
      OBVIOUS
    <3>2. socket' = [socket EXCEPT ![t] = u]
      BY <1>38, <3>1 DEF Finish
    <3>3. Tame(socket[t], u)
      BY <3>0, <3>1 DEF Tame, Greeted, IsSocket, SocketFields
    <3> QED BY <3>0, <3>2, <3>3, <1>0, OneTame
  <2>2. JoinStays
    BY <1>38 DEF Finish, Quiet, JoinStays
  <2>3. ExecutorStays
    BY <1>38, <1>b DEF Finish, Quiet, ExecutorStays
  <2>4. cancelled \subseteq cancelled'
    BY <1>38 DEF Finish, Quiet, LeaveLocked
  <2> QED BY <2>1, <2>2, <2>3, <2>4, <1>k, WireFrame
<1>39. ASSUME NEW t \in Sockets, ServeJoin(t) PROVE WireInv'
  <2>1. TameSockets
    <3>0. /\ <<"joined">> \in Seq(Messages)
          /\ <<"close">> \in Seq(Messages)
          /\ <<"complete">> \in Seq(Messages)
          /\ <<"snapshot", "close">> \in Seq(Messages)
          /\ <<"rejected">> \in Seq(Messages)
      BY DEF Messages
    <3>1. socket[t].srv = "join"
      BY <1>39 DEF ServeJoin
    <3>2. PICK messages, srv :
             /\ messages \in {<<"joined">>, <<"close">>}
             /\ Write(t, messages, srv) /\ (socket[t].st # "open" => srv = "closed")
      BY <1>39 DEF ServeJoin
    <3>4. CASE messages = <<"joined">>
      <4>1. Head(<<"joined">>) = "joined" /\ <<"joined">> # <<>>
        OBVIOUS
      <4>2. messages \in Seq(Messages) /\ messages # <<>>
        BY <3>0, <3>4, <4>1
      <4>3. Head(messages) \in {"joined", "close"}
        BY <3>4, <4>1
      <4> QED BY <3>1, <3>2, <4>2, <4>3, <1>0, WriteTame
    <3>5. CASE messages = <<"close">>
      <4>1. Head(<<"close">>) = "close" /\ <<"close">> # <<>>
        OBVIOUS
      <4>2. messages \in Seq(Messages) /\ messages # <<>>
        BY <3>0, <3>5, <4>1
      <4>3. Head(messages) \in {"joined", "close"}
        BY <3>5, <4>1
      <4> QED BY <3>1, <3>2, <4>2, <4>3, <1>0, WriteTame
    <3> QED BY <3>2, <3>4, <3>5
  <2>2. JoinStays
    BY <1>39 DEF ServeJoin, Quiet, JoinStays
  <2>3. ExecutorStays
    BY <1>39, <1>b DEF ServeJoin, Quiet, ExecutorStays
  <2>4. cancelled \subseteq cancelled'
    BY <1>39 DEF ServeJoin, Quiet, LeaveLocked
  <2> QED BY <2>1, <2>2, <2>3, <2>4, <1>k, WireFrame
<1>40. ASSUME NEW t \in Sockets, ServeReplay(t) PROVE WireInv'
  <2>1. TameSockets
    <3>0. /\ <<"joined">> \in Seq(Messages)
          /\ <<"close">> \in Seq(Messages)
          /\ <<"complete">> \in Seq(Messages)
          /\ <<"snapshot", "close">> \in Seq(Messages)
          /\ <<"rejected">> \in Seq(Messages)
      BY DEF Messages
    <3>1. CASE Write(t, <<"complete">>, "live")
      BY <1>40, <3>0, <3>1, <1>0, WriteTame DEF ServeReplay
    <3>2. CASE Write(t, <<"snapshot", "close">>, "closed")
      BY <1>40, <3>0, <3>2, <1>0, WriteTame DEF ServeReplay
    <3> QED BY <1>40, <3>1, <3>2 DEF ServeReplay
  <2>2. JoinStays
    BY <1>40 DEF ServeReplay, Quiet, JoinStays
  <2>3. ExecutorStays
    BY <1>40, <1>b DEF ServeReplay, Quiet, ExecutorStays
  <2>4. cancelled \subseteq cancelled'
    BY <1>40 DEF ServeReplay, Quiet, LeaveLocked
  <2> QED BY <2>1, <2>2, <2>3, <2>4, <1>k, WireFrame
<1> QED
  BY <1>1, <1>2, <1>3, <1>4, <1>5, <1>6, <1>7, <1>8, <1>9, <1>10, <1>11, <1>12, <1>13,
     <1>14, <1>15, <1>16, <1>17, <1>18, <1>19, <1>20, <1>21, <1>22, <1>23, <1>24, <1>25,
     <1>26, <1>27, <1>28, <1>29, <1>30, <1>31, <1>32, <1>33, <1>34, <1>35, <1>36, <1>37,
     <1>38, <1>39, <1>40
     DEF Next, User, JoinStep, LeaveStep, AttemptStep, MonitorStep, ReadStep, ServiceStep, Network


-----------------------------------------------------------------------------------
(* SessionsNeverMix. *)
ClientInv == Types /\ JoinInv /\ HoldInv /\ WireInv

LEMMA ClientInvInit == ASSUME Init PROVE ClientInv
BY TypesInit, JoinInvInit, HoldInvInit, WireInvInit DEF ClientInv

LEMMA JoinInvStep == ASSUME Types, JoinInv, Next PROVE JoinInv'
BY ReservationsStep, EnteredStep, ContextStep, UntouchedStep DEF JoinInv

LEMMA ClientInvStep == ASSUME ClientInv, Next PROVE ClientInv'
BY TypesStep, JoinInvStep, HoldInvStep, WireInvStep DEF ClientInv, WireInv

LEMMA ClientInvStutter == ASSUME ClientInv, UNCHANGED vars PROVE ClientInv'
<1> USE DEF vars
<1>1. Types'
  BY DEF ClientInv, Types, ClientTypes, ControlTypes, JoinTypes, RunnerTypes, SocketTypes, OwnSockets
<1>2. JoinInv'
  BY DEF ClientInv, JoinInv, Reservations, Active, Entered, ContextInv, Untouched, Unknown
<1>3. HoldInv'
  BY
     DEF ClientInv, HoldInv, Held, Left, ClosedCancelled, Reconnecting, Loops, JoinSockets, ExecutorHeld,
         InHand
<1>4. WireInv'
  BY DEF ClientInv, WireInv, JoinWire, JoinReady, Greeted
<1> QED BY <1>1, <1>2, <1>3, <1>4 DEF ClientInv

LEMMA ClientInvHolds == Spec => []ClientInv
<1>1. ClientInv /\ [Next]_vars => ClientInv'
  BY ClientInvStep, ClientInvStutter
<1> QED BY <1>1, ClientInvInit, PTL DEF Spec

LEMMA NeverMixed == ASSUME ClientInv PROVE SessionsNeverMix
<1>1. client.machine = 0 \/ client.machine \in Sessions
  BY Bounds DEF ClientInv, Types, ClientTypes, IsClient
<1>2. client.network = 0 \/ client.network \in Sessions
  BY Bounds DEF ClientInv, Types, ClientTypes, IsClient
<1>3. client.token \in 0 .. MaxSockets
  BY DEF ClientInv, Types, ClientTypes, IsClient
<1>4. Left => client.transport = 0 /\ client.network = 0 /\ client.token = 0 /\ ~client.reconnecting
  BY DEF ClientInv, HoldInv, Held
<1>5. client.network # 0 => client.network = client.machine /\ executor[client.machine] # Absent
  BY DEF ClientInv, HoldInv, Held
<1>6. client.transport # 0 => socket[client.transport].of = client.machine /\ client.network = client.machine
  BY <1>5 DEF ClientInv, HoldInv, Held
<1>7. client.token > 0 => socket[client.token].of = client.machine
  BY <1>3, Bounds DEF ClientInv, HoldInv, Held
<1>8. ~Left => client.reconnecting = (runner[client.machine].pc \notin {"idle", "gaveup"})
  BY DEF ClientInv, HoldInv, Reconnecting, Loops
<1>9. ASSUME NEW h \in Sessions, state[h] = "closed", leaver.pc = "idle", join[h].pc = "done",
             runner[h].pc \in {"idle", "gaveup"}
      PROVE  executor[h] \notin Sockets
  <2>1. client.network # h
    BY <1>4, <1>5, <1>9, Bounds DEF Left
  <2> QED BY <1>9, <2>1 DEF ClientInv, HoldInv, ExecutorHeld, InHand, Setup
<1> QED BY <1>4, <1>5, <1>6, <1>7, <1>8, <1>9 DEF SessionsNeverMix, Left

(* What the client holds belongs to its session and to no other, whatever the   *)
(* joins, leaves, monitors, reconnect loops and callbacks of any number of      *)
(* sessions do in any order (SessionClient: startJoin, commitJoin, Leave,       *)
(* monitorTransportResult, runReconnect): its socket, executor and credential;  *)
(* it says that it reconnects exactly while its loop runs; and no executor of a *)
(* session that was left goes back to work.                                     *)
THEOREM SessionsNeverMixTheorem == Spec => []SessionsNeverMix
BY ClientInvHolds, NeverMixed, PTL

-----------------------------------------------------------------------------------
(* The cause on display.  The invariant has these parts: a goroutine says      *)
(* "cancelled" only of a session that was left or cancelled; a refused attempt *)
(* ends its loop; and a rate limit on display is backed by the flag, unless a  *)
(* loop was refused.                                                           *)
Off(g) == g \in cancelled \cup setupOff

CancelledErrors ==
    /\ 0 \notin cancelled
    /\ \A t \in Sockets : socket[t].found = "cancelled" => socket[t].of \in cancelled
    /\ \A g \in Sessions : join[g].err = "cancelled" => Off(g)
    /\ \A g \in Sessions : runner[g].err = "cancelled" => g \in cancelled \/ client.machine # g

DeniedEnds == \A g \in Sessions : runner[g].err = "auth" => runner[g].pc \in {"suspend", "record", "retry", "end"}

RateLimitBacked ==
    client.lastErr = "rate" /\ ~Left /\ ~Off(client.machine)
        => client.rateLimited \/ \E g \in Sessions : ReconnectDenied(g)

CauseInv == CancelledErrors /\ DeniedEnds /\ RateLimitBacked

LEMMA CauseInvInit == ASSUME Init PROVE CauseInv
BY DEF Init, CauseInv, CancelledErrors, DeniedEnds, RateLimitBacked, NoSocket, NoJoin, NoRunner

(* A callback finds its session cancelled only once it is. *)
Finds(s, u) == u.found = "cancelled" => s.found = "cancelled" \/ s.of \in cancelled

FindsSockets == \A v \in Sockets : Finds(socket[v], socket'[v])

LEMMA OneFinds ==
    ASSUME SocketTypes, NEW t \in Sockets, NEW u, socket' = [socket EXCEPT ![t] = u], Finds(socket[t], u)
    PROVE  FindsSockets
BY DEF SocketTypes, FindsSockets, Finds

LEMMA CloseFinds == ASSUME NEW s, IsSocket(s) PROVE Close(s).found = s.found
BY DEF Close, IsSocket, SocketFields

LEMMA TakenFinds == ASSUME NEW s, IsSocket(s) PROVE Taken(s).found = "none"
BY DEF Taken, IsSocket, SocketFields

LEMMA CloseSocketFinds == ASSUME SocketTypes, NEW t \in Sockets \cup {0}, CloseSocket(t) PROVE FindsSockets
<1>1. CASE t = 0 BY <1>1 DEF CloseSocket, FindsSockets, Finds
<1>2. CASE t # 0
  BY <1>2, CloseFinds, OneFinds DEF CloseSocket, SocketTypes, Finds
<1> QED BY <1>1, <1>2

LEMMA WriteFinds == ASSUME SocketTypes, NEW t \in Sockets, NEW messages, NEW srv, Write(t, messages, srv) PROVE FindsSockets
BY DEF Write, SocketTypes, IsSocket, SocketFields, FindsSockets, Finds

LEMMA FindsStep ==
    ASSUME Types, Next
    PROVE  FindsSockets
<1>0. SocketTypes
  BY DEF Types
<1>1. CASE Leave
  BY <1>1 DEF Leave, Quiet, FindsSockets, Finds
<1>2. CASE RetryReconnect
  BY <1>2 DEF RetryReconnect, Quiet, FindsSockets, Finds
<1>3. CASE recordConflictResolution
  BY <1>3 DEF recordConflictResolution, Quiet, FindsSockets, Finds
<1>4. ASSUME NEW g \in Sessions, Reserve(g) PROVE FindsSockets
  BY <1>4 DEF Reserve, Quiet, FindsSockets, Finds
<1>5. CASE LeaveClient
  BY <1>5 DEF LeaveClient, Quiet, FindsSockets, Finds
<1>6. CASE LeaveDrop
  <2>1. leaver.transport \in Sockets \cup {0}
    BY <1>6, Bounds DEF LeaveDrop, Types, ControlTypes, ClientTypes, IsClient, OwnSockets
  <2>2. CASE socket' = socket
    BY <2>2 DEF FindsSockets, Finds
  <2>3. CASE CloseSocket(leaver.transport)
    BY <2>1, <2>3, <1>0, CloseSocketFinds
  <2> QED BY <1>6, <2>2, <2>3 DEF LeaveDrop, Dropped
<1>7. CASE Expire
  BY <1>7 DEF Expire, Quiet, FindsSockets, Finds
<1>8. ASSUME NEW t \in Sockets, ServeRejection(t) PROVE FindsSockets
  <2>1. \E messages, srv : Write(t, messages, srv)
    BY <1>8 DEF ServeRejection
  <2> QED BY <2>1, <1>0, WriteFinds
<1>9. ASSUME NEW t \in Sockets, NEW e \in {"lost", "rate"}, Lose(t, e) PROVE FindsSockets
  <2>0. t \in Sockets /\ IsSocket(socket[t])
    BY <1>9, <1>0, Bounds DEF Lose, SocketTypes, Types, OwnSockets
  <2>1. PICK u : u = [socket[t] EXCEPT !.st = "ended", !.err = e, !.wire = <<>>]
    OBVIOUS
  <2>2. socket' = [socket EXCEPT ![t] = u]
    BY <1>9, <2>1 DEF Lose
  <2>3. Finds(socket[t], u)
    BY <2>0, <2>1 DEF Finds, IsSocket, SocketFields
  <2> QED BY <2>0, <2>2, <2>3, <1>0, OneFinds
<1>10. ASSUME NEW g \in Sessions, EnterJoin(g) PROVE FindsSockets
  BY <1>10 DEF EnterJoin, Quiet, FindsSockets, Finds
<1>11. ASSUME NEW g \in Sessions, JoinFetch(g) PROVE FindsSockets
  BY <1>11 DEF JoinFetch, Quiet, FindsSockets, Finds
<1>12. ASSUME NEW g \in Sessions, JoinDial(g) PROVE FindsSockets
  <2>2. PICK t, u :
           /\ t \in Sockets
           /\ socket' = [socket EXCEPT ![t] = u] /\ u \in {Dialled(g, "join", join[g].tok), Refused(g, "join")}
    BY <1>12 DEF JoinDial
  <2>3. u.found = "none"
    BY <2>2 DEF Dialled, Refused, NoSocket
  <2> QED BY <2>2, <2>3, <1>0, OneFinds DEF Finds
<1>13. ASSUME NEW g \in Sessions, JoinWait(g) PROVE FindsSockets
  <2>1. join[g].t \in Sockets /\ IsSocket(socket[join[g].t])
    BY <1>13, <1>0 DEF JoinWait, Types, OwnSockets, SocketTypes
  <2>2. PICK u :
           /\ socket' = [socket EXCEPT ![join[g].t] = u]
           /\ u \in {Taken(socket[join[g].t]), Close(Taken(socket[join[g].t]))}
    BY <1>13 DEF JoinWait
  <2>3. IsSocket(Taken(socket[join[g].t]))
    BY <2>1, TakenKept DEF Kept
  <2>4. u.found = "none"
    BY <2>1, <2>2, <2>3, TakenFinds, CloseFinds
  <2> QED BY <2>1, <2>2, <2>4, <1>0, OneFinds DEF Finds
<1>14. ASSUME NEW g \in Sessions, JoinRefresh(g) PROVE FindsSockets
  BY <1>14 DEF JoinRefresh, Quiet, FindsSockets, Finds
<1>15. ASSUME NEW g \in Sessions, JoinCommit(g) PROVE FindsSockets
  <2>1. join[g].t \in Sockets \cup {0}
    BY <1>15, Bounds DEF JoinCommit, Types, ControlTypes, ClientTypes, IsClient, OwnSockets
  <2>2. CASE socket' = socket
    BY <2>2 DEF FindsSockets, Finds
  <2>3. CASE CloseSocket(join[g].t)
    BY <2>1, <2>3, <1>0, CloseSocketFinds
  <2> QED BY <1>15, <2>2, <2>3 DEF JoinCommit, Dropped
<1>16. ASSUME NEW g \in Sessions, JoinSync(g) PROVE FindsSockets
  <2>0. join[g].t \in Sockets /\ IsSocket(socket[join[g].t])
    BY <1>16, <1>0, Bounds DEF JoinSync, SocketTypes, Types, OwnSockets
  <2>1. PICK u : u = [socket[join[g].t] EXCEPT !.monitor = "wait"]
    OBVIOUS
  <2>2. socket' = [socket EXCEPT ![join[g].t] = u]
    BY <1>16, <2>1 DEF JoinSync, Monitoring, Watched
  <2>3. Finds(socket[join[g].t], u)
    BY <2>0, <2>1 DEF Finds, IsSocket, SocketFields
  <2> QED BY <2>0, <2>2, <2>3, <1>0, OneFinds
<1>17. ASSUME NEW g \in Sessions, JoinFailed(g) PROVE FindsSockets
  BY <1>17 DEF JoinFailed, Quiet, FindsSockets, Finds
<1>18. ASSUME NEW g \in Sessions, JoinActivate(g) PROVE FindsSockets
  BY <1>18 DEF JoinActivate, Quiet, FindsSockets, Finds
<1>19. ASSUME NEW g \in Sessions, releaseReservation(g) PROVE FindsSockets
  BY <1>19 DEF releaseReservation, Quiet, FindsSockets, Finds
<1>20. ASSUME NEW g \in Sessions, JoinLeave(g) PROVE FindsSockets
  <2>1. client.transport \in Sockets \cup {0}
    BY <1>20, Bounds DEF JoinLeave, Types, ControlTypes, ClientTypes, IsClient, OwnSockets
  <2>2. CASE socket' = socket
    BY <2>2 DEF FindsSockets, Finds
  <2>3. CASE CloseSocket(client.transport)
    BY <2>1, <2>3, <1>0, CloseSocketFinds
  <2> QED BY <1>20, <2>2, <2>3 DEF JoinLeave, Dropped
<1>21. ASSUME NEW g \in Sessions, AttemptBegin(g) PROVE FindsSockets
  BY <1>21 DEF AttemptBegin, Quiet, FindsSockets, Finds
<1>22. ASSUME NEW g \in Sessions, AttemptResume(g) PROVE FindsSockets
  <2>1. CASE executor[g] # Paused
    BY <1>22, <2>1 DEF AttemptResume, FindsSockets, Finds
  <2>2. CASE executor[g] = Paused
    <3>1. PICK t \in Sockets :
             socket' = [socket EXCEPT ![t].of = g, ![t].kind = "reconnect", ![t].tok = runner[g].tok]
      BY <1>22, <2>2 DEF AttemptResume
    <3>2. PICK u : u = [socket[t] EXCEPT !.of = g, !.kind = "reconnect", !.tok = runner[g].tok]
      OBVIOUS
    <3>3. socket' = [socket EXCEPT ![t] = u]
      BY <3>1, <3>2
    <3>4. Finds(socket[t], u)
      BY <3>2, <1>0 DEF Finds, SocketTypes, IsSocket, SocketFields
    <3> QED BY <3>3, <3>4, <1>0, OneFinds
  <2> QED BY <2>1, <2>2
<1>23. ASSUME NEW g \in Sessions, AttemptDial(g) PROVE FindsSockets
  <2>1. runner[g].t \in Sockets
    BY <1>23 DEF AttemptDial, Types, OwnSockets
  <2>2. PICK u :
           /\ socket' = [socket EXCEPT ![runner[g].t] = u]
           /\ u \in {Dialled(g, "reconnect", socket[runner[g].t].tok), Refused(g, "reconnect")}
    BY <1>23 DEF AttemptDial
  <2>3. u.found = "none"
    BY <2>2 DEF Dialled, Refused, NoSocket
  <2> QED BY <2>1, <2>2, <2>3, <1>0, OneFinds DEF Finds
<1>24. ASSUME NEW g \in Sessions, AttemptWait(g) PROVE FindsSockets
  <2>1. runner[g].t \in Sockets /\ IsSocket(socket[runner[g].t])
    BY <1>24, <1>0 DEF AttemptWait, Types, OwnSockets, SocketTypes
  <2>2. PICK u :
           /\ socket' = [socket EXCEPT ![runner[g].t] = u]
           /\ u \in {Taken(socket[runner[g].t]), Close(Taken(socket[runner[g].t]))}
    BY <1>24 DEF AttemptWait
  <2>3. IsSocket(Taken(socket[runner[g].t]))
    BY <2>1, TakenKept DEF Kept
  <2>4. u.found = "none"
    BY <2>1, <2>2, <2>3, TakenFinds, CloseFinds
  <2> QED BY <2>1, <2>2, <2>4, <1>0, OneFinds DEF Finds
<1>25. ASSUME NEW g \in Sessions, AttemptSuspend(g) PROVE FindsSockets
  BY <1>25 DEF AttemptSuspend, Quiet, FindsSockets, Finds
<1>26. ASSUME NEW g \in Sessions, AttemptRecord(g) PROVE FindsSockets
  BY <1>26 DEF AttemptRecord, Quiet, FindsSockets, Finds
<1>27. ASSUME NEW g \in Sessions, AttemptRetry(g) PROVE FindsSockets
  BY <1>27 DEF AttemptRetry, Quiet, FindsSockets, Finds
<1>28. ASSUME NEW g \in Sessions, AttemptInstall(g) PROVE FindsSockets
  <2>1. runner[g].t \in Sockets \cup {0}
    BY <1>28, Bounds DEF AttemptInstall, Types, ControlTypes, ClientTypes, IsClient, OwnSockets
  <2>2. CASE socket' = socket
    BY <2>2 DEF FindsSockets, Finds
  <2>3. CASE CloseSocket(runner[g].t)
    BY <2>1, <2>3, <1>0, CloseSocketFinds
  <2> QED BY <1>28, <2>2, <2>3 DEF AttemptInstall, Dropped
<1>29. ASSUME NEW g \in Sessions, AttemptSync(g) PROVE FindsSockets
  <2>0. runner[g].t \in Sockets /\ IsSocket(socket[runner[g].t])
    BY <1>29, <1>0, Bounds DEF AttemptSync, SocketTypes, Types, OwnSockets
  <2>1. PICK u : u = [socket[runner[g].t] EXCEPT !.monitor = "wait"]
    OBVIOUS
  <2>2. socket' = [socket EXCEPT ![runner[g].t] = u]
    BY <1>29, <2>1 DEF AttemptSync, Monitoring, Watched
  <2>3. Finds(socket[runner[g].t], u)
    BY <2>0, <2>1 DEF Finds, IsSocket, SocketFields
  <2> QED BY <2>0, <2>2, <2>3, <1>0, OneFinds
<1>30. ASSUME NEW g \in Sessions, ReconnectEnd(g) PROVE FindsSockets
  BY <1>30 DEF ReconnectEnd, Quiet, FindsSockets, Finds
<1>31. ASSUME NEW t \in Sockets, MonitorWait(t) PROVE FindsSockets
  <2>0. t \in Sockets /\ IsSocket(socket[t])
    BY <1>31, <1>0, Bounds DEF MonitorWait, SocketTypes, Types, OwnSockets
  <2>1. PICK u : u = [socket[t] EXCEPT !.monitor = Watched(t)]
    OBVIOUS
  <2>2. socket' = [socket EXCEPT ![t] = u]
    BY <1>31, <2>1 DEF MonitorWait, Monitoring, Watched
  <2>3. Finds(socket[t], u)
    BY <2>0, <2>1 DEF Finds, IsSocket, SocketFields
  <2> QED BY <2>0, <2>2, <2>3, <1>0, OneFinds
<1>32. ASSUME NEW t \in Sockets, MonitorSuspend(t) PROVE FindsSockets
  <2>0. t \in Sockets /\ IsSocket(socket[t])
    BY <1>32, <1>0, Bounds DEF MonitorSuspend, SocketTypes, Types, OwnSockets
  <2>1. PICK u : u = [socket[t] EXCEPT !.monitor = "record"]
    OBVIOUS
  <2>2. socket' = [socket EXCEPT ![t] = u]
    BY <1>32, <2>1 DEF MonitorSuspend, Monitoring, Watched
  <2>3. Finds(socket[t], u)
    BY <2>0, <2>1 DEF Finds, IsSocket, SocketFields
  <2> QED BY <2>0, <2>2, <2>3, <1>0, OneFinds
<1>33. ASSUME NEW t \in Sockets, MonitorRecord(t) PROVE FindsSockets
  <2>0. t \in Sockets /\ IsSocket(socket[t])
    BY <1>33, <1>0, Bounds DEF MonitorRecord, SocketTypes, Types, OwnSockets
  <2>1. PICK u : u = [socket[t] EXCEPT !.monitor = "start"]
    OBVIOUS
  <2>2. socket' = [socket EXCEPT ![t] = u]
    BY <1>33, <2>1 DEF MonitorRecord, Monitoring, Watched
  <2>3. Finds(socket[t], u)
    BY <2>0, <2>1 DEF Finds, IsSocket, SocketFields
  <2> QED BY <2>0, <2>2, <2>3, <1>0, OneFinds
<1>34. ASSUME NEW t \in Sockets, MonitorStart(t) PROVE FindsSockets
  <2>0. t \in Sockets /\ IsSocket(socket[t])
    BY <1>34, <1>0, Bounds DEF MonitorStart, SocketTypes, Types, OwnSockets
  <2>1. PICK u : u = [socket[t] EXCEPT !.monitor = "done"]
    OBVIOUS
  <2>2. socket' = [socket EXCEPT ![t] = u]
    BY <1>34, <2>1 DEF MonitorStart, Monitoring, Watched
  <2>3. Finds(socket[t], u)
    BY <2>0, <2>1 DEF Finds, IsSocket, SocketFields
  <2> QED BY <2>0, <2>2, <2>3, <1>0, OneFinds
<1>35. ASSUME NEW t \in Sockets, Receive(t) PROVE FindsSockets
  <2>1. socket'[t].found = socket[t].found
    BY <1>35, <1>0 DEF Receive, SocketTypes, IsSocket, SocketFields
  <2>2. \A v \in Sockets : v # t => socket'[v] = socket[v]
    BY <1>35, <1>0 DEF Receive, SocketTypes
  <2> QED BY <2>1, <2>2 DEF FindsSockets, Finds
<1>36. ASSUME NEW t \in Sockets, ReceiveFault(t) PROVE FindsSockets
  <2>1. IsSocket(socket[t])
    BY <1>0 DEF SocketTypes
  <2>2. PICK f : f = Found(t, socket[t], "fault")
    OBVIOUS
  <2>3. IsSocket(f) /\ f.found \in {socket[t].found, "fault"}
    BY <2>1, <2>2, FoundKept DEF Kept, Found, IsSocket, SocketFields
  <2>4. PICK c : c = Close(f)
    OBVIOUS
  <2>5. IsSocket(c) /\ c.found = f.found
    BY <2>3, <2>4, CloseKept, CloseFinds DEF Kept
  <2>6. \/ socket' = [socket EXCEPT ![t] = [f EXCEPT !.wire = Tail(@)]]
        \/ socket' = [socket EXCEPT ![t] = [c EXCEPT !.wire = <<>>]]
    BY <1>36, <2>2, <2>4 DEF ReceiveFault
  <2>7. socket'[t].found = f.found /\ \A v \in Sockets : v # t => socket'[v] = socket[v]
    BY <2>3, <2>5, <2>6, <1>0 DEF SocketTypes, IsSocket, SocketFields
  <2> QED BY <2>3, <2>7 DEF FindsSockets, Finds
<1>37. ASSUME NEW t \in Sockets, InstallSnapshot(t) PROVE FindsSockets
  <2>1. IsSocket(socket[t])
    BY <1>0 DEF SocketTypes
  <2>2. PICK err : /\ socket' = [socket EXCEPT ![t] = [Found(t, @, err) EXCEPT !.fetching = FALSE]]
                   /\ err = "cancelled" => socket[t].of \in cancelled
    BY <1>37 DEF InstallSnapshot
  <2>3. PICK f : f = Found(t, socket[t], err)
    OBVIOUS
  <2>4. PICK u : u = [f EXCEPT !.fetching = FALSE]
    OBVIOUS
  <2>5. socket' = [socket EXCEPT ![t] = u]
    BY <2>2, <2>3, <2>4
  <2>6. IsSocket(f) /\ f.found \in {socket[t].found, err}
    BY <2>1, <2>3, FoundKept DEF Kept, Found, IsSocket, SocketFields
  <2>7. u.found = f.found
    BY <2>4, <2>6 DEF IsSocket, SocketFields
  <2>8. Finds(socket[t], u)
    BY <2>2, <2>6, <2>7 DEF Finds
  <2> QED BY <2>5, <2>8, <1>0, OneFinds
<1>38. ASSUME NEW t \in Sockets, Finish(t) PROVE FindsSockets
  <2>0. t \in Sockets /\ IsSocket(socket[t])
    BY <1>38, <1>0, Bounds DEF Finish, SocketTypes, Types, OwnSockets
  <2>1. PICK u : u = [socket[t] EXCEPT !.st = "ended", !.wire = <<>>]
    OBVIOUS
  <2>2. socket' = [socket EXCEPT ![t] = u]
    BY <1>38, <2>1 DEF Finish
  <2>3. Finds(socket[t], u)
    BY <2>0, <2>1 DEF Finds, IsSocket, SocketFields
  <2> QED BY <2>0, <2>2, <2>3, <1>0, OneFinds
<1>39. ASSUME NEW t \in Sockets, ServeJoin(t) PROVE FindsSockets
  <2>1. \E messages, srv : Write(t, messages, srv)
    BY <1>39 DEF ServeJoin
  <2> QED BY <2>1, <1>0, WriteFinds
<1>40. ASSUME NEW t \in Sockets, ServeReplay(t) PROVE FindsSockets
  <2>1. \E messages, srv : Write(t, messages, srv)
    BY <1>40 DEF ServeReplay
  <2> QED BY <2>1, <1>0, WriteFinds
<1> QED
  BY <1>1, <1>2, <1>3, <1>4, <1>5, <1>6, <1>7, <1>8, <1>9, <1>10, <1>11, <1>12, <1>13,
     <1>14, <1>15, <1>16, <1>17, <1>18, <1>19, <1>20, <1>21, <1>22, <1>23, <1>24, <1>25,
     <1>26, <1>27, <1>28, <1>29, <1>30, <1>31, <1>32, <1>33, <1>34, <1>35, <1>36, <1>37,
     <1>38, <1>39, <1>40
     DEF Next, User, JoinStep, LeaveStep, AttemptStep, MonitorStep, ReadStep, ServiceStep, Network


(* A goroutine gives up as cancelled only for a session that is, or is no      *)
(* longer the client's.                                                        *)
JoinCancels == \A h \in Sessions : join'[h].err = "cancelled" => join[h].err = "cancelled" \/ Off(h)

RunnerCancels ==
    \A h \in Sessions :
        runner'[h].err = "cancelled" => runner[h].err = "cancelled" \/ h \in cancelled \/ client.machine # h

LEMMA ResumedError ==
    ASSUME Types, NEW g \in Sessions, AttemptResume(g)
    PROVE  (runner'[g].err = runner[g].err /\ runner'[g].pc = "dial") \/ runner'[g].err = "lost"
<1>0. DOMAIN runner = Sessions /\ DOMAIN runner[g] = {"pc", "t", "tok", "attempt", "err"}
  BY DEF Types, RunnerTypes
<1>1. CASE executor[g] # Paused
  BY <1>0, <1>1 DEF AttemptResume, AttemptFails
<1>2. CASE executor[g] = Paused
  <2>1. PICK t : runner' = [runner EXCEPT ![g].pc = "dial", ![g].t = t, ![g].tok = 0]
    BY <1>2 DEF AttemptResume
  <2> QED BY <1>0, <2>1
<1> QED BY <1>1, <1>2

LEMMA CancelledErrorsStep ==
    ASSUME ClientInv, CauseInv, Next
    PROVE  CancelledErrors'
<1> USE DEF CauseInv
<1>t. Types
  BY DEF ClientInv
<1>k. SocketsKept
  BY <1>t, SocketsKeptStep
<1>f. FindsSockets
  BY <1>t, FindsStep
<1>b. RunnerTypes /\ JoinTypes
  BY <1>t DEF Types
<1>z. 0 \notin cancelled
  BY DEF CancelledErrors
<1> USE <1>t
<1>l. \A h \in Sessions : Loops(h) /\ client.machine = h => h \in cancelled \/ (Current(h, state) /\ client.network = h)
  BY Bounds DEF ClientInv, HoldInv, Reconnecting, Left, ClosedCancelled, Current, Loops
<1>1. CASE Leave
  <2>1. 0 \notin cancelled' /\ cancelled \subseteq cancelled' /\ setupOff \subseteq setupOff'
    BY <1>1, <1>z, Bounds DEF Leave, Quiet, LeaveLocked
  <2>2. JoinCancels
    BY <1>1 DEF Leave, Quiet, JoinCancels
  <2>3. RunnerCancels
    BY <1>1 DEF Leave, Quiet, RunnerCancels
  <2>4. client'.machine = client.machine
    BY <1>1 DEF Leave, Quiet
  <2> QED BY <2>1, <2>2, <2>3, <2>4, <1>f, <1>k
     DEF CancelledErrors, Off, FindsSockets, Finds, SocketsKept, Kept, JoinCancels, RunnerCancels
<1>2. CASE RetryReconnect
  <2>1. 0 \notin cancelled' /\ cancelled \subseteq cancelled' /\ setupOff \subseteq setupOff'
    BY <1>2, <1>z, Bounds DEF RetryReconnect, Quiet, LeaveLocked
  <2>2. JoinCancels
    BY <1>2 DEF RetryReconnect, Quiet, JoinCancels
  <2>3. RunnerCancels
    BY <1>2, RetryClient DEF StartEffect, RunnerCancels
  <2>4. client'.machine = client.machine
    BY <1>2, RetryClient DEF DropTokenEffect, StartEffect
  <2> QED BY <2>1, <2>2, <2>3, <2>4, <1>f, <1>k
     DEF CancelledErrors, Off, FindsSockets, Finds, SocketsKept, Kept, JoinCancels, RunnerCancels
<1>3. CASE recordConflictResolution
  <2>1. 0 \notin cancelled' /\ cancelled \subseteq cancelled' /\ setupOff \subseteq setupOff'
    BY <1>3, <1>z, Bounds DEF recordConflictResolution, Quiet, LeaveLocked
  <2>2. JoinCancels
    BY <1>3 DEF recordConflictResolution, Quiet, JoinCancels
  <2>3. RunnerCancels
    BY <1>3 DEF recordConflictResolution, Quiet, RunnerCancels
  <2>4. client'.machine = client.machine
    BY <1>3 DEF recordConflictResolution, Quiet
  <2> QED BY <2>1, <2>2, <2>3, <2>4, <1>f, <1>k
     DEF CancelledErrors, Off, FindsSockets, Finds, SocketsKept, Kept, JoinCancels, RunnerCancels
<1>4. ASSUME NEW g \in Sessions, Reserve(g) PROVE CancelledErrors'
  <2>1. 0 \notin cancelled' /\ cancelled \subseteq cancelled' /\ setupOff \subseteq setupOff'
    BY <1>4, <1>z, Bounds DEF Reserve, Quiet, LeaveLocked
  <2>2. JoinCancels
    BY <1>4, <1>b DEF Reserve, Joining, JoinFails, NoJoin, JoinTypes, JoinOff, Off, JoinCancels
  <2>3. RunnerCancels
    BY <1>4 DEF Reserve, Quiet, RunnerCancels
  <2>4. client'.machine = client.machine
    BY <1>4 DEF Reserve, Quiet
  <2> QED BY <2>1, <2>2, <2>3, <2>4, <1>f, <1>k
     DEF CancelledErrors, Off, FindsSockets, Finds, SocketsKept, Kept, JoinCancels, RunnerCancels
<1>5. CASE LeaveClient
  <2>1. 0 \notin cancelled' /\ cancelled \subseteq cancelled' /\ setupOff \subseteq setupOff'
    BY <1>5, <1>z, Bounds DEF LeaveClient, Quiet, LeaveLocked
  <2>2. JoinCancels
    BY <1>5 DEF LeaveClient, Quiet, JoinCancels
  <2>3. RunnerCancels
    BY <1>5 DEF LeaveClient, Quiet, RunnerCancels
  <2>4. client'.machine = client.machine
    BY <1>5, LeaveLockedClient DEF LeaveClient, LeaveEffect
  <2> QED BY <2>1, <2>2, <2>3, <2>4, <1>f, <1>k
     DEF CancelledErrors, Off, FindsSockets, Finds, SocketsKept, Kept, JoinCancels, RunnerCancels
<1>6. CASE LeaveDrop
  <2>1. 0 \notin cancelled' /\ cancelled \subseteq cancelled' /\ setupOff \subseteq setupOff'
    BY <1>6, <1>z, Bounds DEF LeaveDrop, Quiet, LeaveLocked
  <2>2. JoinCancels
    BY <1>6 DEF LeaveDrop, Quiet, JoinCancels
  <2>3. RunnerCancels
    BY <1>6 DEF LeaveDrop, Quiet, RunnerCancels
  <2>4. client'.machine = client.machine
    BY <1>6 DEF LeaveDrop, Quiet
  <2> QED BY <2>1, <2>2, <2>3, <2>4, <1>f, <1>k
     DEF CancelledErrors, Off, FindsSockets, Finds, SocketsKept, Kept, JoinCancels, RunnerCancels
<1>7. CASE Expire
  <2>1. 0 \notin cancelled' /\ cancelled \subseteq cancelled' /\ setupOff \subseteq setupOff'
    BY <1>7, <1>z, Bounds DEF Expire, Quiet, LeaveLocked
  <2>2. JoinCancels
    BY <1>7 DEF Expire, Quiet, JoinCancels
  <2>3. RunnerCancels
    BY <1>7 DEF Expire, Quiet, RunnerCancels
  <2>4. client'.machine = client.machine
    BY <1>7, ExpireClient DEF SameButCause
  <2> QED BY <2>1, <2>2, <2>3, <2>4, <1>f, <1>k
     DEF CancelledErrors, Off, FindsSockets, Finds, SocketsKept, Kept, JoinCancels, RunnerCancels
<1>8. ASSUME NEW t \in Sockets, ServeRejection(t) PROVE CancelledErrors'
  <2>1. 0 \notin cancelled' /\ cancelled \subseteq cancelled' /\ setupOff \subseteq setupOff'
    BY <1>8, <1>z, Bounds DEF ServeRejection, Quiet, LeaveLocked
  <2>2. JoinCancels
    BY <1>8 DEF ServeRejection, Quiet, JoinCancels
  <2>3. RunnerCancels
    BY <1>8 DEF ServeRejection, Quiet, RunnerCancels
  <2>4. client'.machine = client.machine
    BY <1>8 DEF ServeRejection, Quiet
  <2> QED BY <2>1, <2>2, <2>3, <2>4, <1>f, <1>k
     DEF CancelledErrors, Off, FindsSockets, Finds, SocketsKept, Kept, JoinCancels, RunnerCancels
<1>9. ASSUME NEW t \in Sockets, NEW e \in {"lost", "rate"}, Lose(t, e) PROVE CancelledErrors'
  <2>1. 0 \notin cancelled' /\ cancelled \subseteq cancelled' /\ setupOff \subseteq setupOff'
    BY <1>9, <1>z, Bounds DEF Lose, Quiet, LeaveLocked
  <2>2. JoinCancels
    BY <1>9 DEF Lose, Quiet, JoinCancels
  <2>3. RunnerCancels
    BY <1>9 DEF Lose, Quiet, RunnerCancels
  <2>4. client'.machine = client.machine
    BY <1>9 DEF Lose, Quiet
  <2> QED BY <2>1, <2>2, <2>3, <2>4, <1>f, <1>k
     DEF CancelledErrors, Off, FindsSockets, Finds, SocketsKept, Kept, JoinCancels, RunnerCancels
<1>10. ASSUME NEW g \in Sessions, EnterJoin(g) PROVE CancelledErrors'
  <2>1. 0 \notin cancelled' /\ cancelled \subseteq cancelled' /\ setupOff \subseteq setupOff'
    BY <1>10, <1>z, Bounds DEF EnterJoin, Quiet, LeaveLocked
  <2>2. JoinCancels
    BY <1>10, <1>b DEF EnterJoin, Joining, JoinFails, NoJoin, JoinTypes, JoinOff, Off, JoinCancels
  <2>3. RunnerCancels
    BY <1>10 DEF EnterJoin, Quiet, RunnerCancels
  <2>4. \/ client'.machine = client.machine
        \/ (client'.machine = g /\ runner[g].err = "none" /\ runner' = runner)
    BY <1>10, EnterJoinClient DEF EnterJoin, EnterEffect, ClientInv, JoinInv, Untouched, Unknown
  <2> QED BY <2>1, <2>2, <2>3, <2>4, <1>f, <1>k
     DEF CancelledErrors, Off, FindsSockets, Finds, SocketsKept, Kept, JoinCancels, RunnerCancels
<1>11. ASSUME NEW g \in Sessions, JoinFetch(g) PROVE CancelledErrors'
  <2>1. 0 \notin cancelled' /\ cancelled \subseteq cancelled' /\ setupOff \subseteq setupOff'
    BY <1>11, <1>z, Bounds DEF JoinFetch, Quiet, LeaveLocked
  <2>2. JoinCancels
    BY <1>11, <1>b DEF JoinFetch, Joining, JoinFails, NoJoin, JoinTypes, JoinOff, Off, JoinCancels
  <2>3. RunnerCancels
    BY <1>11 DEF JoinFetch, Quiet, RunnerCancels
  <2>4. client'.machine = client.machine
    BY <1>11 DEF JoinFetch, Quiet
  <2> QED BY <2>1, <2>2, <2>3, <2>4, <1>f, <1>k
     DEF CancelledErrors, Off, FindsSockets, Finds, SocketsKept, Kept, JoinCancels, RunnerCancels
<1>12. ASSUME NEW g \in Sessions, JoinDial(g) PROVE CancelledErrors'
  <2>1. 0 \notin cancelled' /\ cancelled \subseteq cancelled' /\ setupOff \subseteq setupOff'
    BY <1>12, <1>z, Bounds DEF JoinDial, Quiet, LeaveLocked
  <2>2. JoinCancels
    BY <1>12, <1>b DEF JoinDial, Joining, JoinFails, NoJoin, JoinTypes, JoinOff, Off, JoinCancels
  <2>3. RunnerCancels
    BY <1>12 DEF JoinDial, Quiet, RunnerCancels
  <2>4. client'.machine = client.machine
    BY <1>12 DEF JoinDial, Quiet
  <2> QED BY <2>1, <2>2, <2>3, <2>4, <1>f, <1>k
     DEF CancelledErrors, Off, FindsSockets, Finds, SocketsKept, Kept, JoinCancels, RunnerCancels
<1>13. ASSUME NEW g \in Sessions, JoinWait(g) PROVE CancelledErrors'
  <2>1. 0 \notin cancelled' /\ cancelled \subseteq cancelled' /\ setupOff \subseteq setupOff'
    BY <1>13, <1>z, Bounds DEF JoinWait, Quiet, LeaveLocked
  <2>2. JoinCancels
    <3>1. join[g].t \in Sockets /\ socket[join[g].t].of = g /\ socket[join[g].t].err # "cancelled"
      BY <1>13 DEF JoinWait, Types, OwnSockets, SocketTypes, IsSocket
    <3>2. socket[join[g].t].found = "cancelled" => Off(g)
      BY <3>1 DEF CancelledErrors, Off
    <3>a. PICK outcome \in JoinOutcomes(g) :
           \/ Joining(g, "commit") \/ Joining(g, "refresh")
           \/ /\ outcome \in {"found", "ended", "cancelled"}
              /\ JoinFails(g, CASE outcome = "found" -> socket[join[g].t].found [] outcome = "ended" -> socket[join[g].t].err [] OTHER -> "cancelled")
      BY <1>13 DEF JoinWait
    <3>3. \/ Joining(g, "commit") \/ Joining(g, "refresh")
          \/ JoinFails(g, socket[join[g].t].found) \/ JoinFails(g, socket[join[g].t].err)
          \/ outcome = "cancelled" /\ JoinFails(g, "cancelled")
      <4>1. CASE outcome = "found"
        BY <3>a, <4>1
      <4>2. CASE outcome = "ended"
        BY <3>a, <4>2
      <4>3. CASE outcome = "cancelled"
        BY <3>a, <4>3
      <4> QED BY <3>a, <4>1, <4>2, <4>3
    <3>4. "cancelled" \in JoinOutcomes(g) => Off(g)
      BY DEF JoinOutcomes, JoinOff, Off, initialJoinOutcomeOnTransportEnd
    <3> QED BY <3>1, <3>2, <3>3, <3>4, <1>b DEF Joining, JoinFails, JoinTypes, JoinCancels
  <2>3. RunnerCancels
    BY <1>13 DEF JoinWait, Quiet, RunnerCancels
  <2>4. client'.machine = client.machine
    BY <1>13 DEF JoinWait, Quiet
  <2> QED BY <2>1, <2>2, <2>3, <2>4, <1>f, <1>k
     DEF CancelledErrors, Off, FindsSockets, Finds, SocketsKept, Kept, JoinCancels, RunnerCancels
<1>14. ASSUME NEW g \in Sessions, JoinRefresh(g) PROVE CancelledErrors'
  <2>1. 0 \notin cancelled' /\ cancelled \subseteq cancelled' /\ setupOff \subseteq setupOff'
    BY <1>14, <1>z, Bounds DEF JoinRefresh, Quiet, LeaveLocked
  <2>2. JoinCancels
    BY <1>14, <1>b DEF JoinRefresh, Joining, JoinFails, NoJoin, JoinTypes, JoinOff, Off, JoinCancels
  <2>3. RunnerCancels
    BY <1>14 DEF JoinRefresh, Quiet, RunnerCancels
  <2>4. client'.machine = client.machine
    BY <1>14 DEF JoinRefresh, Quiet
  <2> QED BY <2>1, <2>2, <2>3, <2>4, <1>f, <1>k
     DEF CancelledErrors, Off, FindsSockets, Finds, SocketsKept, Kept, JoinCancels, RunnerCancels
<1>15. ASSUME NEW g \in Sessions, JoinCommit(g) PROVE CancelledErrors'
  <2>1. 0 \notin cancelled' /\ cancelled \subseteq cancelled' /\ setupOff \subseteq setupOff'
    BY <1>15, <1>z, Bounds DEF JoinCommit, Quiet, LeaveLocked
  <2>2. JoinCancels
    BY <1>15, <1>b DEF JoinCommit, Joining, JoinFails, NoJoin, JoinTypes, JoinOff, Off, JoinCancels
  <2>3. RunnerCancels
    BY <1>15 DEF JoinCommit, Quiet, RunnerCancels
  <2>4. client'.machine = client.machine
    BY <1>15, JoinCommitClient DEF InstallEffect
  <2> QED BY <2>1, <2>2, <2>3, <2>4, <1>f, <1>k
     DEF CancelledErrors, Off, FindsSockets, Finds, SocketsKept, Kept, JoinCancels, RunnerCancels
<1>16. ASSUME NEW g \in Sessions, JoinSync(g) PROVE CancelledErrors'
  <2>1. 0 \notin cancelled' /\ cancelled \subseteq cancelled' /\ setupOff \subseteq setupOff'
    BY <1>16, <1>z, Bounds DEF JoinSync, Quiet, LeaveLocked
  <2>2. JoinCancels
    BY <1>16, <1>b DEF JoinSync, Joining, JoinFails, NoJoin, JoinTypes, JoinOff, Off, JoinCancels
  <2>3. RunnerCancels
    BY <1>16 DEF JoinSync, Quiet, RunnerCancels
  <2>4. client'.machine = client.machine
    BY <1>16 DEF JoinSync, Quiet
  <2> QED BY <2>1, <2>2, <2>3, <2>4, <1>f, <1>k
     DEF CancelledErrors, Off, FindsSockets, Finds, SocketsKept, Kept, JoinCancels, RunnerCancels
<1>17. ASSUME NEW g \in Sessions, JoinFailed(g) PROVE CancelledErrors'
  <2>1. 0 \notin cancelled' /\ cancelled \subseteq cancelled' /\ setupOff \subseteq setupOff'
    BY <1>17, <1>z, Bounds DEF JoinFailed, Quiet, LeaveLocked
  <2>2. JoinCancels
    BY <1>17, <1>b DEF JoinFailed, Joining, JoinFails, NoJoin, JoinTypes, JoinOff, Off, JoinCancels
  <2>3. RunnerCancels
    BY <1>17 DEF JoinFailed, Quiet, RunnerCancels
  <2>4. client'.machine = client.machine
    <3>1. client.machine = g
      BY <1>17 DEF JoinFailed, ClientInv, JoinInv, Entered, Inside
    <3> QED BY <1>17, <3>1, JoinFailedClient DEF FailEffect
  <2> QED BY <2>1, <2>2, <2>3, <2>4, <1>f, <1>k
     DEF CancelledErrors, Off, FindsSockets, Finds, SocketsKept, Kept, JoinCancels, RunnerCancels
<1>18. ASSUME NEW g \in Sessions, JoinActivate(g) PROVE CancelledErrors'
  <2>1. 0 \notin cancelled' /\ cancelled \subseteq cancelled' /\ setupOff \subseteq setupOff'
    BY <1>18, <1>z, Bounds DEF JoinActivate, Quiet, LeaveLocked
  <2>2. JoinCancels
    BY <1>18, <1>b DEF JoinActivate, Joining, JoinFails, NoJoin, JoinTypes, JoinOff, Off, JoinCancels
  <2>3. RunnerCancels
    BY <1>18 DEF JoinActivate, Quiet, RunnerCancels
  <2>4. client'.machine = client.machine
    BY <1>18 DEF JoinActivate, Quiet
  <2> QED BY <2>1, <2>2, <2>3, <2>4, <1>f, <1>k
     DEF CancelledErrors, Off, FindsSockets, Finds, SocketsKept, Kept, JoinCancels, RunnerCancels
<1>19. ASSUME NEW g \in Sessions, releaseReservation(g) PROVE CancelledErrors'
  <2>1. 0 \notin cancelled' /\ cancelled \subseteq cancelled' /\ setupOff \subseteq setupOff'
    BY <1>19, <1>z, Bounds DEF releaseReservation, Quiet, LeaveLocked
  <2>2. JoinCancels
    BY <1>19, <1>b DEF releaseReservation, Joining, JoinFails, NoJoin, JoinTypes, JoinOff, Off, JoinCancels
  <2>3. RunnerCancels
    BY <1>19 DEF releaseReservation, Quiet, RunnerCancels
  <2>4. client'.machine = client.machine
    BY <1>19 DEF releaseReservation, Quiet
  <2> QED BY <2>1, <2>2, <2>3, <2>4, <1>f, <1>k
     DEF CancelledErrors, Off, FindsSockets, Finds, SocketsKept, Kept, JoinCancels, RunnerCancels
<1>20. ASSUME NEW g \in Sessions, JoinLeave(g) PROVE CancelledErrors'
  <2>1. 0 \notin cancelled' /\ cancelled \subseteq cancelled' /\ setupOff \subseteq setupOff'
    BY <1>20, <1>z, Bounds DEF JoinLeave, Quiet, LeaveLocked
  <2>2. JoinCancels
    BY <1>20, <1>b DEF JoinLeave, Joining, JoinFails, NoJoin, JoinTypes, JoinOff, Off, JoinCancels
  <2>3. RunnerCancels
    BY <1>20 DEF JoinLeave, Quiet, RunnerCancels
  <2>4. client'.machine = client.machine
    BY <1>20, LeaveLockedClient DEF JoinLeave, LeaveEffect
  <2> QED BY <2>1, <2>2, <2>3, <2>4, <1>f, <1>k
     DEF CancelledErrors, Off, FindsSockets, Finds, SocketsKept, Kept, JoinCancels, RunnerCancels
<1>21. ASSUME NEW g \in Sessions, AttemptBegin(g) PROVE CancelledErrors'
  <2>1. 0 \notin cancelled' /\ cancelled \subseteq cancelled' /\ setupOff \subseteq setupOff'
    BY <1>21, <1>z, Bounds DEF AttemptBegin, Quiet, LeaveLocked
  <2>2. JoinCancels
    BY <1>21 DEF AttemptBegin, Quiet, JoinCancels
  <2>3. RunnerCancels
    <3>1. client.machine = g => g \in cancelled \/ (Current(g, state) /\ client.network = g)
      BY <1>21, <1>l DEF AttemptBegin, Loops
    <3> QED BY <1>21, <3>1, <1>b DEF AttemptBegin, AttemptFails, RunnerTypes, RunnerCancels
  <2>4. client'.machine = client.machine
    BY <1>21 DEF AttemptBegin, Quiet
  <2> QED BY <2>1, <2>2, <2>3, <2>4, <1>f, <1>k
     DEF CancelledErrors, Off, FindsSockets, Finds, SocketsKept, Kept, JoinCancels, RunnerCancels
<1>22. ASSUME NEW g \in Sessions, AttemptResume(g) PROVE CancelledErrors'
  <2>1. 0 \notin cancelled' /\ cancelled \subseteq cancelled' /\ setupOff \subseteq setupOff'
    BY <1>22, <1>z, Bounds DEF AttemptResume, Quiet, LeaveLocked
  <2>2. JoinCancels
    BY <1>22 DEF AttemptResume, Quiet, JoinCancels
  <2>3. RunnerCancels
    BY <1>22, ResumedError, ResumedRunner DEF RunnerCancels
  <2>4. client'.machine = client.machine
    BY <1>22 DEF AttemptResume, Quiet
  <2> QED BY <2>1, <2>2, <2>3, <2>4, <1>f, <1>k
     DEF CancelledErrors, Off, FindsSockets, Finds, SocketsKept, Kept, JoinCancels, RunnerCancels
<1>23. ASSUME NEW g \in Sessions, AttemptDial(g) PROVE CancelledErrors'
  <2>1. 0 \notin cancelled' /\ cancelled \subseteq cancelled' /\ setupOff \subseteq setupOff'
    BY <1>23, <1>z, Bounds DEF AttemptDial, Quiet, LeaveLocked
  <2>2. JoinCancels
    BY <1>23 DEF AttemptDial, Quiet, JoinCancels
  <2>3. RunnerCancels
    BY <1>23, <1>b DEF AttemptDial, Running, AttemptFails, RunnerTypes, RunnerCancels
  <2>4. client'.machine = client.machine
    BY <1>23 DEF AttemptDial, Quiet
  <2> QED BY <2>1, <2>2, <2>3, <2>4, <1>f, <1>k
     DEF CancelledErrors, Off, FindsSockets, Finds, SocketsKept, Kept, JoinCancels, RunnerCancels
<1>24. ASSUME NEW g \in Sessions, AttemptWait(g) PROVE CancelledErrors'
  <2>1. 0 \notin cancelled' /\ cancelled \subseteq cancelled' /\ setupOff \subseteq setupOff'
    BY <1>24, <1>z, Bounds DEF AttemptWait, Quiet, LeaveLocked
  <2>2. JoinCancels
    BY <1>24 DEF AttemptWait, Quiet, JoinCancels
  <2>3. RunnerCancels
    <3>1. runner[g].t \in Sockets /\ socket[runner[g].t].of = g /\ socket[runner[g].t].err # "cancelled"
      BY <1>24 DEF AttemptWait, Types, OwnSockets, SocketTypes, IsSocket
    <3>2. socket[runner[g].t].found = "cancelled" => g \in cancelled
      BY <3>1 DEF CancelledErrors
    <3>3. \/ Running(g, "install") \/ AttemptFails(g, "suspend", socket[runner[g].t].found)
          \/ AttemptFails(g, "suspend", socket[runner[g].t].err) \/ (g \in cancelled /\ AttemptFails(g, "suspend", "cancelled"))
      BY <1>24 DEF AttemptWait
    <3> QED BY <3>1, <3>2, <3>3, <1>b DEF Running, AttemptFails, RunnerTypes, RunnerCancels
  <2>4. client'.machine = client.machine
    BY <1>24 DEF AttemptWait, Quiet
  <2> QED BY <2>1, <2>2, <2>3, <2>4, <1>f, <1>k
     DEF CancelledErrors, Off, FindsSockets, Finds, SocketsKept, Kept, JoinCancels, RunnerCancels
<1>25. ASSUME NEW g \in Sessions, AttemptSuspend(g) PROVE CancelledErrors'
  <2>1. 0 \notin cancelled' /\ cancelled \subseteq cancelled' /\ setupOff \subseteq setupOff'
    BY <1>25, <1>z, Bounds DEF AttemptSuspend, Quiet, LeaveLocked
  <2>2. JoinCancels
    BY <1>25 DEF AttemptSuspend, Quiet, JoinCancels
  <2>3. RunnerCancels
    BY <1>25, <1>b DEF AttemptSuspend, Running, AttemptFails, RunnerTypes, RunnerCancels
  <2>4. client'.machine = client.machine
    BY <1>25, SuspendClient DEF AttemptSuspend, SameButCause
  <2> QED BY <2>1, <2>2, <2>3, <2>4, <1>f, <1>k
     DEF CancelledErrors, Off, FindsSockets, Finds, SocketsKept, Kept, JoinCancels, RunnerCancels
<1>26. ASSUME NEW g \in Sessions, AttemptRecord(g) PROVE CancelledErrors'
  <2>1. 0 \notin cancelled' /\ cancelled \subseteq cancelled' /\ setupOff \subseteq setupOff'
    BY <1>26, <1>z, Bounds DEF AttemptRecord, Quiet, LeaveLocked
  <2>2. JoinCancels
    BY <1>26 DEF AttemptRecord, Quiet, JoinCancels
  <2>3. RunnerCancels
    BY <1>26, <1>b DEF AttemptRecord, Running, AttemptFails, RunnerTypes, RunnerCancels
  <2>4. client'.machine = client.machine
    BY <1>26, RecordClient DEF AttemptRecord, SameButCause
  <2> QED BY <2>1, <2>2, <2>3, <2>4, <1>f, <1>k
     DEF CancelledErrors, Off, FindsSockets, Finds, SocketsKept, Kept, JoinCancels, RunnerCancels
<1>27. ASSUME NEW g \in Sessions, AttemptRetry(g) PROVE CancelledErrors'
  <2>1. 0 \notin cancelled' /\ cancelled \subseteq cancelled' /\ setupOff \subseteq setupOff'
    BY <1>27, <1>z, Bounds DEF AttemptRetry, Quiet, LeaveLocked
  <2>2. JoinCancels
    BY <1>27 DEF AttemptRetry, Quiet, JoinCancels
  <2>3. RunnerCancels
    BY <1>27, <1>b DEF AttemptRetry, Running, AttemptFails, RunnerTypes, RunnerCancels
  <2>4. client'.machine = client.machine
    BY <1>27 DEF AttemptRetry, Quiet
  <2> QED BY <2>1, <2>2, <2>3, <2>4, <1>f, <1>k
     DEF CancelledErrors, Off, FindsSockets, Finds, SocketsKept, Kept, JoinCancels, RunnerCancels
<1>28. ASSUME NEW g \in Sessions, AttemptInstall(g) PROVE CancelledErrors'
  <2>1. 0 \notin cancelled' /\ cancelled \subseteq cancelled' /\ setupOff \subseteq setupOff'
    BY <1>28, <1>z, Bounds DEF AttemptInstall, Quiet, LeaveLocked
  <2>2. JoinCancels
    BY <1>28 DEF AttemptInstall, Quiet, JoinCancels
  <2>3. RunnerCancels
    <3>1. client.machine = g => g \in cancelled \/ (Current(g, state) /\ client.network = g)
      BY <1>28, <1>l DEF AttemptInstall, Loops
    <3>2. CASE Current(g, state) /\ client.network = g
      BY <1>28, <3>2, <1>b DEF AttemptInstall, Running, RunnerTypes, RunnerCancels
    <3>3. CASE ~(Current(g, state) /\ client.network = g)
      BY <1>28, <3>1, <3>3, <1>b DEF AttemptInstall, AttemptFails, RunnerTypes, RunnerCancels
    <3> QED BY <3>2, <3>3 DEF RunnerCancels
  <2>4. client'.machine = client.machine
    BY <1>28, AttemptInstallClient DEF InstallEffect
  <2> QED BY <2>1, <2>2, <2>3, <2>4, <1>f, <1>k
     DEF CancelledErrors, Off, FindsSockets, Finds, SocketsKept, Kept, JoinCancels, RunnerCancels
<1>29. ASSUME NEW g \in Sessions, AttemptSync(g) PROVE CancelledErrors'
  <2>1. 0 \notin cancelled' /\ cancelled \subseteq cancelled' /\ setupOff \subseteq setupOff'
    BY <1>29, <1>z, Bounds DEF AttemptSync, Quiet, LeaveLocked
  <2>2. JoinCancels
    BY <1>29 DEF AttemptSync, Quiet, JoinCancels
  <2>3. RunnerCancels
    BY <1>29, <1>b DEF AttemptSync, Running, AttemptFails, RunnerTypes, RunnerCancels
  <2>4. client'.machine = client.machine
    BY <1>29 DEF AttemptSync, Quiet
  <2> QED BY <2>1, <2>2, <2>3, <2>4, <1>f, <1>k
     DEF CancelledErrors, Off, FindsSockets, Finds, SocketsKept, Kept, JoinCancels, RunnerCancels
<1>30. ASSUME NEW g \in Sessions, ReconnectEnd(g) PROVE CancelledErrors'
  <2>1. 0 \notin cancelled' /\ cancelled \subseteq cancelled' /\ setupOff \subseteq setupOff'
    BY <1>30, <1>z, Bounds DEF ReconnectEnd, Quiet, LeaveLocked
  <2>2. JoinCancels
    BY <1>30 DEF ReconnectEnd, Quiet, JoinCancels
  <2>3. RunnerCancels
    BY <1>30, <1>b DEF ReconnectEnd, NoRunner, RunnerTypes, RunnerCancels
  <2>4. client'.machine = client.machine
    BY <1>30, ReconnectEndClient DEF EndEffect
  <2> QED BY <2>1, <2>2, <2>3, <2>4, <1>f, <1>k
     DEF CancelledErrors, Off, FindsSockets, Finds, SocketsKept, Kept, JoinCancels, RunnerCancels
<1>31. ASSUME NEW t \in Sockets, MonitorWait(t) PROVE CancelledErrors'
  <2>1. 0 \notin cancelled' /\ cancelled \subseteq cancelled' /\ setupOff \subseteq setupOff'
    BY <1>31, <1>z, Bounds DEF MonitorWait, Quiet, LeaveLocked
  <2>2. JoinCancels
    BY <1>31 DEF MonitorWait, Quiet, JoinCancels
  <2>3. RunnerCancels
    BY <1>31 DEF MonitorWait, Quiet, RunnerCancels
  <2>4. client'.machine = client.machine
    BY <1>31 DEF MonitorWait, Quiet
  <2> QED BY <2>1, <2>2, <2>3, <2>4, <1>f, <1>k
     DEF CancelledErrors, Off, FindsSockets, Finds, SocketsKept, Kept, JoinCancels, RunnerCancels
<1>32. ASSUME NEW t \in Sockets, MonitorSuspend(t) PROVE CancelledErrors'
  <2>1. 0 \notin cancelled' /\ cancelled \subseteq cancelled' /\ setupOff \subseteq setupOff'
    BY <1>32, <1>z, Bounds DEF MonitorSuspend, Quiet, LeaveLocked
  <2>2. JoinCancels
    BY <1>32 DEF MonitorSuspend, Quiet, JoinCancels
  <2>3. RunnerCancels
    BY <1>32 DEF MonitorSuspend, Quiet, RunnerCancels
  <2>4. client'.machine = client.machine
    BY <1>32, SuspendClient DEF MonitorSuspend, SameButCause
  <2> QED BY <2>1, <2>2, <2>3, <2>4, <1>f, <1>k
     DEF CancelledErrors, Off, FindsSockets, Finds, SocketsKept, Kept, JoinCancels, RunnerCancels
<1>33. ASSUME NEW t \in Sockets, MonitorRecord(t) PROVE CancelledErrors'
  <2>1. 0 \notin cancelled' /\ cancelled \subseteq cancelled' /\ setupOff \subseteq setupOff'
    BY <1>33, <1>z, Bounds DEF MonitorRecord, Quiet, LeaveLocked
  <2>2. JoinCancels
    BY <1>33 DEF MonitorRecord, Quiet, JoinCancels
  <2>3. RunnerCancels
    BY <1>33 DEF MonitorRecord, Quiet, RunnerCancels
  <2>4. client'.machine = client.machine
    BY <1>33, RecordClient DEF MonitorRecord, SameButCause
  <2> QED BY <2>1, <2>2, <2>3, <2>4, <1>f, <1>k
     DEF CancelledErrors, Off, FindsSockets, Finds, SocketsKept, Kept, JoinCancels, RunnerCancels
<1>34. ASSUME NEW t \in Sockets, MonitorStart(t) PROVE CancelledErrors'
  <2>1. 0 \notin cancelled' /\ cancelled \subseteq cancelled' /\ setupOff \subseteq setupOff'
    BY <1>34, <1>z, Bounds DEF MonitorStart, Quiet, LeaveLocked
  <2>2. JoinCancels
    BY <1>34 DEF MonitorStart, Quiet, JoinCancels
  <2>3. RunnerCancels
    BY <1>34, StartClient, OwnedMonitor DEF MonitorStart, StartEffect, RunnerCancels
  <2>4. client'.machine = client.machine
    BY <1>34, StartClient, OwnedMonitor DEF MonitorStart, StartEffect
  <2> QED BY <2>1, <2>2, <2>3, <2>4, <1>f, <1>k
     DEF CancelledErrors, Off, FindsSockets, Finds, SocketsKept, Kept, JoinCancels, RunnerCancels
<1>35. ASSUME NEW t \in Sockets, Receive(t) PROVE CancelledErrors'
  <2>1. 0 \notin cancelled' /\ cancelled \subseteq cancelled' /\ setupOff \subseteq setupOff'
    BY <1>35, <1>z, Bounds DEF Receive, Quiet, LeaveLocked
  <2>2. JoinCancels
    BY <1>35 DEF Receive, Quiet, JoinCancels
  <2>3. RunnerCancels
    BY <1>35 DEF Receive, Quiet, RunnerCancels
  <2>4. client'.machine = client.machine
    BY <1>35, ReceiveClient DEF JoinedEffect
  <2> QED BY <2>1, <2>2, <2>3, <2>4, <1>f, <1>k
     DEF CancelledErrors, Off, FindsSockets, Finds, SocketsKept, Kept, JoinCancels, RunnerCancels
<1>36. ASSUME NEW t \in Sockets, ReceiveFault(t) PROVE CancelledErrors'
  <2>1. 0 \notin cancelled' /\ cancelled \subseteq cancelled' /\ setupOff \subseteq setupOff'
    BY <1>36, <1>z, Bounds DEF ReceiveFault, Quiet, LeaveLocked
  <2>2. JoinCancels
    BY <1>36 DEF ReceiveFault, Quiet, JoinCancels
  <2>3. RunnerCancels
    BY <1>36 DEF ReceiveFault, Quiet, RunnerCancels
  <2>4. client'.machine = client.machine
    BY <1>36 DEF ReceiveFault, Quiet
  <2> QED BY <2>1, <2>2, <2>3, <2>4, <1>f, <1>k
     DEF CancelledErrors, Off, FindsSockets, Finds, SocketsKept, Kept, JoinCancels, RunnerCancels
<1>37. ASSUME NEW t \in Sockets, InstallSnapshot(t) PROVE CancelledErrors'
  <2>1. 0 \notin cancelled' /\ cancelled \subseteq cancelled' /\ setupOff \subseteq setupOff'
    BY <1>37, <1>z, Bounds DEF InstallSnapshot, Quiet, LeaveLocked
  <2>2. JoinCancels
    BY <1>37 DEF InstallSnapshot, Quiet, JoinCancels
  <2>3. RunnerCancels
    BY <1>37 DEF InstallSnapshot, Quiet, RunnerCancels
  <2>4. client'.machine = client.machine
    BY <1>37 DEF InstallSnapshot, Quiet
  <2> QED BY <2>1, <2>2, <2>3, <2>4, <1>f, <1>k
     DEF CancelledErrors, Off, FindsSockets, Finds, SocketsKept, Kept, JoinCancels, RunnerCancels
<1>38. ASSUME NEW t \in Sockets, Finish(t) PROVE CancelledErrors'
  <2>1. 0 \notin cancelled' /\ cancelled \subseteq cancelled' /\ setupOff \subseteq setupOff'
    BY <1>38, <1>z, Bounds DEF Finish, Quiet, LeaveLocked
  <2>2. JoinCancels
    BY <1>38 DEF Finish, Quiet, JoinCancels
  <2>3. RunnerCancels
    BY <1>38 DEF Finish, Quiet, RunnerCancels
  <2>4. client'.machine = client.machine
    BY <1>38 DEF Finish, Quiet
  <2> QED BY <2>1, <2>2, <2>3, <2>4, <1>f, <1>k
     DEF CancelledErrors, Off, FindsSockets, Finds, SocketsKept, Kept, JoinCancels, RunnerCancels
<1>39. ASSUME NEW t \in Sockets, ServeJoin(t) PROVE CancelledErrors'
  <2>1. 0 \notin cancelled' /\ cancelled \subseteq cancelled' /\ setupOff \subseteq setupOff'
    BY <1>39, <1>z, Bounds DEF ServeJoin, Quiet, LeaveLocked
  <2>2. JoinCancels
    BY <1>39 DEF ServeJoin, Quiet, JoinCancels
  <2>3. RunnerCancels
    BY <1>39 DEF ServeJoin, Quiet, RunnerCancels
  <2>4. client'.machine = client.machine
    BY <1>39 DEF ServeJoin, Quiet
  <2> QED BY <2>1, <2>2, <2>3, <2>4, <1>f, <1>k
     DEF CancelledErrors, Off, FindsSockets, Finds, SocketsKept, Kept, JoinCancels, RunnerCancels
<1>40. ASSUME NEW t \in Sockets, ServeReplay(t) PROVE CancelledErrors'
  <2>1. 0 \notin cancelled' /\ cancelled \subseteq cancelled' /\ setupOff \subseteq setupOff'
    BY <1>40, <1>z, Bounds DEF ServeReplay, Quiet, LeaveLocked
  <2>2. JoinCancels
    BY <1>40 DEF ServeReplay, Quiet, JoinCancels
  <2>3. RunnerCancels
    BY <1>40 DEF ServeReplay, Quiet, RunnerCancels
  <2>4. client'.machine = client.machine
    BY <1>40 DEF ServeReplay, Quiet
  <2> QED BY <2>1, <2>2, <2>3, <2>4, <1>f, <1>k
     DEF CancelledErrors, Off, FindsSockets, Finds, SocketsKept, Kept, JoinCancels, RunnerCancels
<1> QED
  BY <1>1, <1>2, <1>3, <1>4, <1>5, <1>6, <1>7, <1>8, <1>9, <1>10, <1>11, <1>12, <1>13,
     <1>14, <1>15, <1>16, <1>17, <1>18, <1>19, <1>20, <1>21, <1>22, <1>23, <1>24, <1>25,
     <1>26, <1>27, <1>28, <1>29, <1>30, <1>31, <1>32, <1>33, <1>34, <1>35, <1>36, <1>37,
     <1>38, <1>39, <1>40
     DEF Next, User, JoinStep, LeaveStep, AttemptStep, MonitorStep, ReadStep, ServiceStep, Network


LEMMA DeniedEndsStep ==
    ASSUME ClientInv, CauseInv, Next
    PROVE  DeniedEnds'
<1>t. Types
  BY DEF ClientInv
<1>b. RunnerTypes
  BY <1>t DEF Types
<1> USE <1>t
<1>1. CASE Leave
  <2>1. runner' = runner
    BY <1>1 DEF Leave, Quiet
  <2> QED BY <2>1 DEF CauseInv, DeniedEnds
<1>2. CASE RetryReconnect
  <2>1. runner' = runner \/ StartEffect(client.machine)
    BY <1>2, RetryClient
  <2> QED BY <2>1 DEF StartEffect, CauseInv, DeniedEnds
<1>3. CASE recordConflictResolution
  <2>1. runner' = runner
    BY <1>3 DEF recordConflictResolution, Quiet
  <2> QED BY <2>1 DEF CauseInv, DeniedEnds
<1>4. ASSUME NEW g \in Sessions, Reserve(g) PROVE DeniedEnds'
  <2>1. runner' = runner
    BY <1>4 DEF Reserve, Quiet
  <2> QED BY <2>1 DEF CauseInv, DeniedEnds
<1>5. CASE LeaveClient
  <2>1. runner' = runner
    BY <1>5 DEF LeaveClient, Quiet
  <2> QED BY <2>1 DEF CauseInv, DeniedEnds
<1>6. CASE LeaveDrop
  <2>1. runner' = runner
    BY <1>6 DEF LeaveDrop, Quiet
  <2> QED BY <2>1 DEF CauseInv, DeniedEnds
<1>7. CASE Expire
  <2>1. runner' = runner
    BY <1>7 DEF Expire, Quiet
  <2> QED BY <2>1 DEF CauseInv, DeniedEnds
<1>8. ASSUME NEW t \in Sockets, ServeRejection(t) PROVE DeniedEnds'
  <2>1. runner' = runner
    BY <1>8 DEF ServeRejection, Quiet
  <2> QED BY <2>1 DEF CauseInv, DeniedEnds
<1>9. ASSUME NEW t \in Sockets, NEW e \in {"lost", "rate"}, Lose(t, e) PROVE DeniedEnds'
  <2>1. runner' = runner
    BY <1>9 DEF Lose, Quiet
  <2> QED BY <2>1 DEF CauseInv, DeniedEnds
<1>10. ASSUME NEW g \in Sessions, EnterJoin(g) PROVE DeniedEnds'
  <2>1. runner' = runner
    BY <1>10 DEF EnterJoin, Quiet
  <2> QED BY <2>1 DEF CauseInv, DeniedEnds
<1>11. ASSUME NEW g \in Sessions, JoinFetch(g) PROVE DeniedEnds'
  <2>1. runner' = runner
    BY <1>11 DEF JoinFetch, Quiet
  <2> QED BY <2>1 DEF CauseInv, DeniedEnds
<1>12. ASSUME NEW g \in Sessions, JoinDial(g) PROVE DeniedEnds'
  <2>1. runner' = runner
    BY <1>12 DEF JoinDial, Quiet
  <2> QED BY <2>1 DEF CauseInv, DeniedEnds
<1>13. ASSUME NEW g \in Sessions, JoinWait(g) PROVE DeniedEnds'
  <2>1. runner' = runner
    BY <1>13 DEF JoinWait, Quiet
  <2> QED BY <2>1 DEF CauseInv, DeniedEnds
<1>14. ASSUME NEW g \in Sessions, JoinRefresh(g) PROVE DeniedEnds'
  <2>1. runner' = runner
    BY <1>14 DEF JoinRefresh, Quiet
  <2> QED BY <2>1 DEF CauseInv, DeniedEnds
<1>15. ASSUME NEW g \in Sessions, JoinCommit(g) PROVE DeniedEnds'
  <2>1. runner' = runner
    BY <1>15 DEF JoinCommit, Quiet
  <2> QED BY <2>1 DEF CauseInv, DeniedEnds
<1>16. ASSUME NEW g \in Sessions, JoinSync(g) PROVE DeniedEnds'
  <2>1. runner' = runner
    BY <1>16 DEF JoinSync, Quiet
  <2> QED BY <2>1 DEF CauseInv, DeniedEnds
<1>17. ASSUME NEW g \in Sessions, JoinFailed(g) PROVE DeniedEnds'
  <2>1. runner' = runner
    BY <1>17 DEF JoinFailed, Quiet
  <2> QED BY <2>1 DEF CauseInv, DeniedEnds
<1>18. ASSUME NEW g \in Sessions, JoinActivate(g) PROVE DeniedEnds'
  <2>1. runner' = runner
    BY <1>18 DEF JoinActivate, Quiet
  <2> QED BY <2>1 DEF CauseInv, DeniedEnds
<1>19. ASSUME NEW g \in Sessions, releaseReservation(g) PROVE DeniedEnds'
  <2>1. runner' = runner
    BY <1>19 DEF releaseReservation, Quiet
  <2> QED BY <2>1 DEF CauseInv, DeniedEnds
<1>20. ASSUME NEW g \in Sessions, JoinLeave(g) PROVE DeniedEnds'
  <2>1. runner' = runner
    BY <1>20 DEF JoinLeave, Quiet
  <2> QED BY <2>1 DEF CauseInv, DeniedEnds
<1>21. ASSUME NEW g \in Sessions, AttemptBegin(g) PROVE DeniedEnds'
  BY <1>21, <1>b DEF AttemptBegin, Running, AttemptFails, NoRunner, RunnerTypes, CauseInv, DeniedEnds
<1>22. ASSUME NEW g \in Sessions, AttemptResume(g) PROVE DeniedEnds'
  BY <1>22, ResumedError, ResumedRunner DEF CauseInv, DeniedEnds
<1>23. ASSUME NEW g \in Sessions, AttemptDial(g) PROVE DeniedEnds'
  BY <1>23, <1>b DEF AttemptDial, Running, AttemptFails, NoRunner, RunnerTypes, CauseInv, DeniedEnds
<1>24. ASSUME NEW g \in Sessions, AttemptWait(g) PROVE DeniedEnds'
  BY <1>24, <1>b DEF AttemptWait, Running, AttemptFails, NoRunner, RunnerTypes, CauseInv, DeniedEnds
<1>25. ASSUME NEW g \in Sessions, AttemptSuspend(g) PROVE DeniedEnds'
  BY <1>25, <1>b DEF AttemptSuspend, Running, AttemptFails, NoRunner, RunnerTypes, CauseInv, DeniedEnds
<1>26. ASSUME NEW g \in Sessions, AttemptRecord(g) PROVE DeniedEnds'
  BY <1>26, <1>b DEF AttemptRecord, Running, AttemptFails, NoRunner, RunnerTypes, CauseInv, DeniedEnds
<1>27. ASSUME NEW g \in Sessions, AttemptRetry(g) PROVE DeniedEnds'
  BY <1>27, <1>b DEF AttemptRetry, Running, AttemptFails, NoRunner, RunnerTypes, CauseInv, DeniedEnds
<1>28. ASSUME NEW g \in Sessions, AttemptInstall(g) PROVE DeniedEnds'
  BY <1>28, <1>b DEF AttemptInstall, Running, AttemptFails, NoRunner, RunnerTypes, CauseInv, DeniedEnds
<1>29. ASSUME NEW g \in Sessions, AttemptSync(g) PROVE DeniedEnds'
  BY <1>29, <1>b DEF AttemptSync, Running, AttemptFails, NoRunner, RunnerTypes, CauseInv, DeniedEnds
<1>30. ASSUME NEW g \in Sessions, ReconnectEnd(g) PROVE DeniedEnds'
  BY <1>30, <1>b DEF ReconnectEnd, Running, AttemptFails, NoRunner, RunnerTypes, CauseInv, DeniedEnds
<1>31. ASSUME NEW t \in Sockets, MonitorWait(t) PROVE DeniedEnds'
  <2>1. runner' = runner
    BY <1>31 DEF MonitorWait, Quiet
  <2> QED BY <2>1 DEF CauseInv, DeniedEnds
<1>32. ASSUME NEW t \in Sockets, MonitorSuspend(t) PROVE DeniedEnds'
  <2>1. runner' = runner
    BY <1>32 DEF MonitorSuspend, Quiet
  <2> QED BY <2>1 DEF CauseInv, DeniedEnds
<1>33. ASSUME NEW t \in Sockets, MonitorRecord(t) PROVE DeniedEnds'
  <2>1. runner' = runner
    BY <1>33 DEF MonitorRecord, Quiet
  <2> QED BY <2>1 DEF CauseInv, DeniedEnds
<1>34. ASSUME NEW t \in Sockets, MonitorStart(t) PROVE DeniedEnds'
  <2>1. runner' = runner \/ StartEffect(socket[t].of)
    BY <1>34, StartClient, OwnedMonitor DEF MonitorStart
  <2> QED BY <2>1 DEF StartEffect, CauseInv, DeniedEnds
<1>35. ASSUME NEW t \in Sockets, Receive(t) PROVE DeniedEnds'
  <2>1. runner' = runner
    BY <1>35 DEF Receive, Quiet
  <2> QED BY <2>1 DEF CauseInv, DeniedEnds
<1>36. ASSUME NEW t \in Sockets, ReceiveFault(t) PROVE DeniedEnds'
  <2>1. runner' = runner
    BY <1>36 DEF ReceiveFault, Quiet
  <2> QED BY <2>1 DEF CauseInv, DeniedEnds
<1>37. ASSUME NEW t \in Sockets, InstallSnapshot(t) PROVE DeniedEnds'
  <2>1. runner' = runner
    BY <1>37 DEF InstallSnapshot, Quiet
  <2> QED BY <2>1 DEF CauseInv, DeniedEnds
<1>38. ASSUME NEW t \in Sockets, Finish(t) PROVE DeniedEnds'
  <2>1. runner' = runner
    BY <1>38 DEF Finish, Quiet
  <2> QED BY <2>1 DEF CauseInv, DeniedEnds
<1>39. ASSUME NEW t \in Sockets, ServeJoin(t) PROVE DeniedEnds'
  <2>1. runner' = runner
    BY <1>39 DEF ServeJoin, Quiet
  <2> QED BY <2>1 DEF CauseInv, DeniedEnds
<1>40. ASSUME NEW t \in Sockets, ServeReplay(t) PROVE DeniedEnds'
  <2>1. runner' = runner
    BY <1>40 DEF ServeReplay, Quiet
  <2> QED BY <2>1 DEF CauseInv, DeniedEnds
<1> QED
  BY <1>1, <1>2, <1>3, <1>4, <1>5, <1>6, <1>7, <1>8, <1>9, <1>10, <1>11, <1>12, <1>13,
     <1>14, <1>15, <1>16, <1>17, <1>18, <1>19, <1>20, <1>21, <1>22, <1>23, <1>24, <1>25,
     <1>26, <1>27, <1>28, <1>29, <1>30, <1>31, <1>32, <1>33, <1>34, <1>35, <1>36, <1>37,
     <1>38, <1>39, <1>40
     DEF Next, User, JoinStep, LeaveStep, AttemptStep, MonitorStep, ReadStep, ServiceStep, Network


(* The step of RateLimitStaysVisible. *)
RateStep ==
    (client.lastErr = "rate" /\ client'.machine = client.machine /\ client'.lastErr # "rate")
        => \/ client'.lastErr \in {"none", "auth"}
           \/ client.machine \in cancelled \cup setupOff
           \/ ~ client.rateLimited /\ \E g \in Sessions : ReconnectDenied(g)

(* What most steps do: nothing to the cause, and a refused loop stays refused. *)
LEMMA RateFrame ==
    ASSUME RateLimitBacked, SameCause, client'.machine = client.machine, Left => Left',
           cancelled \subseteq cancelled', setupOff \subseteq setupOff',
           client.rateLimited \/ Left' \/ \A h \in Sessions : ReconnectDenied(h) => ReconnectDenied(h)'
    PROVE  RateLimitBacked' /\ RateStep
<1>1. RateStep
  BY DEF RateStep, SameCause
<1>2. CASE client.rateLimited
  BY <1>1, <1>2 DEF RateLimitBacked, SameCause
<1>3. CASE Left'
  BY <1>1, <1>3 DEF RateLimitBacked
<1>4. CASE \A h \in Sessions : ReconnectDenied(h) => ReconnectDenied(h)'
  BY <1>1, <1>4 DEF RateLimitBacked, SameCause, Off
<1> QED BY <1>1, <1>2, <1>3, <1>4

(* A failure is recorded. *)
CauseRecorded(err) ==
    /\ client'.rateLimited = (err = "rate" \/ (client.rateLimited /\ err # "auth"))
    /\ client'.lastErr = IF client.rateLimited /\ err \notin {"auth", "cancelled"} THEN "rate" ELSE err

LEMMA RateRecorded ==
    ASSUME RateLimitBacked, NEW err, CauseRecorded(err), ~Left, err = "cancelled" => Off(client.machine)
    PROVE  RateLimitBacked' /\ RateStep
<1>1. RateLimitBacked'
  BY DEF RateLimitBacked, CauseRecorded
<1>2. RateStep
  BY DEF RateLimitBacked, RateStep, CauseRecorded, Off
<1> QED BY <1>1, <1>2

LEMMA RecordedCause ==
    ASSUME Types, NEW g \in Sessions, NEW err, recordConnectionFailure(g, err)
    PROVE  client' = client \/ (Current(g, state) /\ client'.machine = client.machine /\ CauseRecorded(err))
<1>1. ClosedSame
  BY AppliedState DEF recordConnectionFailure, Events
<1>2. client' = client \/ (Current(g, state') /\ client' = connectionErrorLocked(client, err))
  BY DEF recordConnectionFailure
<1> QED BY <1>1, <1>2, ErrorRecorded
   DEF CauseRecorded, Current, ClosedSame, Types, ClientTypes, SameButCause

LEMMA RateMonitorRecord ==
    ASSUME ClientInv, CauseInv, NEW t \in Sockets, MonitorRecord(t)
    PROVE  RateLimitBacked' /\ RateStep
<1>1. Types /\ RateLimitBacked
  BY DEF ClientInv, CauseInv
<1>2. /\ socket[t].of \in Sessions
      /\ socket[t].err # "cancelled"
      /\ recordConnectionFailure(socket[t].of, socket[t].err)
      /\ runner' = runner /\ cancelled' = cancelled /\ setupOff' = setupOff
  BY <1>1, OwnedMonitor DEF MonitorRecord, Types, SocketTypes, IsSocket
<1>3. ClosedSame
  BY <1>1, <1>2, AppliedState DEF recordConnectionFailure, Events
<1>4. CASE client' = client
  BY <1>1, <1>2, <1>3, <1>4, RateFrame, Bounds
     DEF SameCause, Left, ClosedSame, ReconnectDenied, Types, ClientTypes, IsClient
<1>5. CASE Current(socket[t].of, state) /\ client'.machine = client.machine /\ CauseRecorded(socket[t].err)
  <2>1. ~Left
    BY <1>2, <1>5, Bounds DEF Current, Left
  <2> QED BY <1>1, <1>2, <1>5, <2>1, RateRecorded
<1> QED BY <1>1, <1>2, <1>4, <1>5, RecordedCause

LEMMA RateAttemptRecord ==
    ASSUME ClientInv, CauseInv, NEW g \in Sessions, AttemptRecord(g)
    PROVE  RateLimitBacked' /\ RateStep
<1>1. Types /\ RateLimitBacked
  BY DEF ClientInv, CauseInv
<1>2. /\ recordConnectionFailure(g, runner[g].err)
      /\ cancelled' = cancelled
      /\ setupOff' = setupOff
      /\ runner[g].pc = "record"
      /\ runner'[g].err = runner[g].err /\ \A h \in Sessions : h # g => runner'[h] = runner[h]
  BY <1>1 DEF AttemptRecord, Running, Types, RunnerTypes
<1>3. ClosedSame
  BY <1>1, <1>2, AppliedState DEF recordConnectionFailure, Events
<1>4. CASE client' = client
  <2>1. \A h \in Sessions : ReconnectDenied(h) => ReconnectDenied(h)'
    BY <1>2, <1>4 DEF ReconnectDenied
  <2> QED BY <1>1, <1>2, <1>3, <1>4, <2>1, RateFrame, Bounds
          DEF SameCause, Left, ClosedSame, Types, ClientTypes, IsClient
<1>5. CASE Current(g, state) /\ client'.machine = client.machine /\ CauseRecorded(runner[g].err)
  <2>1. ~Left /\ client.machine = g
    BY <1>5, Bounds DEF Current, Left
  <2>2. runner[g].err = "cancelled" => Off(client.machine)
    BY <2>1 DEF CauseInv, CancelledErrors, Off
  <2> QED BY <1>1, <1>5, <2>1, <2>2, RateRecorded
<1> QED BY <1>1, <1>2, <1>4, <1>5, RecordedCause

LEMMA RateJoinFailed ==
    ASSUME ClientInv, CauseInv, NEW g \in Sessions, JoinFailed(g)
    PROVE  RateLimitBacked' /\ RateStep
<1>1. Types /\ RateLimitBacked
  BY DEF ClientInv, CauseInv
<1>2. client.machine = g /\ g # 0
  BY Bounds DEF ClientInv, JoinInv, Entered, Inside, JoinFailed
<1>3. ClosedSame /\ runner' = runner /\ cancelled \subseteq cancelled' /\ setupOff' = setupOff
  BY <1>1, AppliedState DEF JoinFailed, Events, ClosedSame
<1>4. FailEffect
  BY <1>1, <1>2, JoinFailedClient
<1>5. \/ SameCause
      \/ Current(g, state) /\ CauseRecorded(join[g].err)
  <2>1. CASE join[g].pc = "failed" /\ Current(g, state')
    <3>1. PICK c : c = connectionErrorLocked(client, join[g].err)
      OBVIOUS
    <3>2. client' = CleanedUp(c, g)
      BY <2>1, <3>1 DEF JoinFailed
    <3>3. IsClient(c) /\ SameButCause(client, c)
          /\ c.rateLimited = (join[g].err = "rate" \/ (client.rateLimited /\ join[g].err # "auth"))
          /\ c.lastErr = IF client.rateLimited /\ join[g].err \notin {"auth", "cancelled"} THEN "rate" ELSE join[g].err
      BY <1>1, <3>1, ErrorRecorded DEF Types, ClientTypes
    <3>4. client'.lastErr = c.lastErr /\ client'.rateLimited = c.rateLimited
      BY <3>2, <3>3 DEF CleanedUp, IsClient
    <3> QED BY <1>3, <2>1, <3>3, <3>4 DEF CauseRecorded, Current, ClosedSame
  <2>2. CASE ~(join[g].pc = "failed" /\ Current(g, state'))
    BY <1>1, <2>2 DEF JoinFailed, CleanedUp, SameCause, Types, ClientTypes, IsClient
  <2> QED BY <2>1, <2>2
<1>6. CASE SameCause
  <2>1. client'.machine = client.machine
    BY <1>4 DEF FailEffect
  <2> QED BY <1>1, <1>2, <1>3, <1>6, <2>1, RateFrame DEF Left, ClosedSame, ReconnectDenied
<1>7. CASE Current(g, state) /\ CauseRecorded(join[g].err)
  <2>1. ~Left
    BY <1>2, <1>7 DEF Current, Left
  <2>2. join[g].err = "cancelled" => Off(client.machine)
    BY <1>2 DEF CauseInv, CancelledErrors
  <2> QED BY <1>1, <1>7, <2>1, <2>2, RateRecorded
<1> QED BY <1>5, <1>6, <1>7

LEMMA RateReconnectEnd ==
    ASSUME ClientInv, CauseInv, NEW g \in Sessions, ReconnectEnd(g)
    PROVE  RateLimitBacked' /\ RateStep
<1>1. Types /\ RateLimitBacked
  BY DEF ClientInv, CauseInv
<1>2. state' = state /\ cancelled' = cancelled /\ setupOff' = setupOff /\ runner[g].pc = "end"
  BY DEF ReconnectEnd
<1>3. /\ \A h \in Sessions : h # g => runner'[h] = runner[h]
      /\ runner[g].err # "none" => runner'[g].pc = "gaveup"
  BY <1>1 DEF ReconnectEnd, NoRunner, Types, RunnerTypes
<1>4. client'.machine = client.machine
  BY <1>1, ReconnectEndClient DEF EndEffect
<1>5. \/ client' = client /\ ~Current(g, state)
      \/ Current(g, state) /\ SameCause /\ runner[g].err = "none"
      \/ Current(g, state) /\ CauseRecorded(runner[g].err)
  <2>1. CASE ~Current(g, state)
    BY <2>1 DEF ReconnectEnd
  <2>2. CASE Current(g, state)
    <3> DEFINE c == [client EXCEPT !.reconnecting = FALSE,
                                   !.token = IF runner[g].err = "auth" THEN 0 ELSE @,
                                   !.expired = IF runner[g].err = "auth" THEN FALSE ELSE @]
    <3>1. IsClient(c) /\ c.lastErr = client.lastErr /\ c.rateLimited = client.rateLimited
      BY <1>1, Bounds DEF Types, ClientTypes, IsClient
    <3>2. \/ runner[g].err = "none" /\ client' = c
          \/ client' = connectionErrorLocked(c, runner[g].err)
      BY <2>2 DEF ReconnectEnd
    <3> HIDE DEF c
    <3> QED BY <2>2, <3>1, <3>2, ErrorRecorded DEF CauseRecorded, SameCause
  <2> QED BY <2>1, <2>2
<1>6. CASE client' = client /\ ~Current(g, state)
  <2>1. CASE client.machine = g
    <3>1. Left'
      BY <1>2, <1>6, <2>1 DEF Current, Left
    <3> QED BY <1>1, <1>2, <1>4, <1>6, <3>1, RateFrame DEF SameCause
  <2>2. CASE client.machine # g
    <3>1. \A h \in Sessions : ReconnectDenied(h) => ReconnectDenied(h)'
      BY <1>2, <1>3, <1>4, <2>2 DEF ReconnectDenied
    <3>2. Left => Left'
      BY <1>2, <1>4 DEF Left
    <3> QED BY <1>1, <1>2, <1>4, <1>6, <3>1, <3>2, RateFrame DEF SameCause
  <2> QED BY <2>1, <2>2
<1>7. CASE Current(g, state) /\ SameCause /\ runner[g].err = "none"
  <2>1. client.machine = g
    BY <1>7 DEF Current
  <2>2. \A h \in Sessions : ReconnectDenied(h) => ReconnectDenied(h)'
    BY <1>3, <1>4, <1>7, <2>1 DEF ReconnectDenied
  <2>3. Left => Left'
    BY <1>2, <1>4 DEF Left
  <2> QED BY <1>1, <1>2, <1>4, <1>7, <2>2, <2>3, RateFrame
<1>8. CASE Current(g, state) /\ CauseRecorded(runner[g].err)
  <2>1. ~Left /\ client.machine = g
    BY <1>8, Bounds DEF Current, Left
  <2>2. runner[g].err = "cancelled" => Off(client.machine)
    BY <2>1 DEF CauseInv, CancelledErrors, Off
  <2> QED BY <1>1, <1>8, <2>1, <2>2, RateRecorded
<1> QED BY <1>5, <1>6, <1>7, <1>8

LEMMA RateAttemptInstall ==
    ASSUME ClientInv, CauseInv, NEW g \in Sessions, AttemptInstall(g)
    PROVE  RateLimitBacked' /\ RateStep
<1>1. Types /\ RateLimitBacked
  BY DEF ClientInv, CauseInv
<1>2. state' = state /\ cancelled' = cancelled /\ setupOff' = setupOff /\ runner[g].pc = "install"
  BY DEF AttemptInstall
<1>3. \A h \in Sessions : h # g => runner'[h] = runner[h]
  BY <1>1 DEF AttemptInstall, Running, AttemptFails, Types, RunnerTypes
<1>4. CASE client' = client
  <2>1. \A h \in Sessions : ReconnectDenied(h) => ReconnectDenied(h)'
    BY <1>2, <1>3, <1>4 DEF ReconnectDenied, CauseInv, DeniedEnds
  <2> QED BY <1>1, <1>2, <1>4, <2>1, RateFrame DEF SameCause, Left
<1>5. CASE client'.lastErr = "none"
  BY <1>5 DEF RateLimitBacked, RateStep
<1> QED BY <1>1, <1>4, <1>5, AttemptInstallClient

(* suspendCause: only a refusal clears the flag, and then a loop was refused. *)
LEMMA RateAttemptSuspend ==
    ASSUME ClientInv, CauseInv, NEW g \in Sessions, AttemptSuspend(g)
    PROVE  RateLimitBacked' /\ RateStep
<1>1. Types /\ RateLimitBacked
  BY DEF ClientInv, CauseInv
<1>2. state' = state /\ cancelled' = cancelled /\ setupOff' = setupOff /\ runner'[g].err = runner[g].err
      /\ runner[g].pc = "suspend" /\ \A h \in Sessions : h # g => runner'[h] = runner[h]
  BY <1>1 DEF AttemptSuspend, Running, Types, RunnerTypes
<1>3. client'.machine = client.machine /\ client'.lastErr = client.lastErr
      /\ client'.rateLimited = (runner[g].err = "rate" \/ (client.rateLimited /\ runner[g].err # "auth"))
  BY <1>1, SuspendClient DEF AttemptSuspend, SameButCause
<1>4. RateStep
  BY <1>3 DEF RateStep
<1>5. \A h \in Sessions : ReconnectDenied(h) => ReconnectDenied(h)'
  BY <1>2, <1>3 DEF ReconnectDenied
<1>6. client'.rateLimited \/ ~client.rateLimited \/ ReconnectDenied(g)'
  BY <1>2, <1>3 DEF ReconnectDenied
<1>7. RateLimitBacked'
  BY <1>1, <1>2, <1>3, <1>5, <1>6 DEF RateLimitBacked, Left, Off
<1> QED BY <1>4, <1>7

LEMMA RateMonitorSuspend ==
    ASSUME ClientInv, CauseInv, NEW t \in Sockets, MonitorSuspend(t)
    PROVE  RateLimitBacked' /\ RateStep
<1>1. Types /\ RateLimitBacked
  BY DEF ClientInv, CauseInv
<1>2. /\ state' = state
      /\ cancelled' = cancelled
      /\ setupOff' = setupOff
      /\ runner' = runner
      /\ socket[t].err # "auth"
  BY <1>1 DEF MonitorSuspend, Types, SocketTypes, IsSocket
<1>3. client'.machine = client.machine /\ client'.lastErr = client.lastErr
      /\ (client.rateLimited => client'.rateLimited)
  BY <1>1, <1>2, SuspendClient DEF MonitorSuspend, SameButCause
<1>4. RateStep
  BY <1>3 DEF RateStep
<1>5. RateLimitBacked'
  BY <1>1, <1>2, <1>3 DEF RateLimitBacked, Left, Off, ReconnectDenied
<1> QED BY <1>4, <1>5

LEMMA RateStart ==
    ASSUME ClientInv, CauseInv, NEW g \in Sessions, StartEffect(g), state' = state, cancelled' = cancelled,
           setupOff' = setupOff
    PROVE  RateLimitBacked' /\ RateStep
<1>1. client.machine = g /\ client'.machine = g /\ SameCause /\ state[g] # "closed" /\ ~client.reconnecting
      /\ \A h \in Sessions : h # g => runner'[h] = runner[h]
  BY DEF StartEffect, CanReconnect
<1>2. ~Loops(g)
  BY <1>1, Bounds DEF ClientInv, HoldInv, Reconnecting, Left
<1>3. \A h \in Sessions : ReconnectDenied(h) => ReconnectDenied(h)'
  BY <1>1, <1>2 DEF ReconnectDenied, Loops, CauseInv, DeniedEnds
<1>4. Left => Left'
  BY <1>1 DEF Left
<1> QED BY <1>1, <1>3, <1>4, RateFrame DEF CauseInv

LEMMA RateLimitStep ==
    ASSUME ClientInv, CauseInv, Next
    PROVE  RateLimitBacked' /\ RateStep
<1>t. Types
  BY DEF ClientInv
<1>b. RunnerTypes
  BY <1>t DEF Types
<1>d. DeniedEnds
  BY DEF CauseInv
<1>r. RateLimitBacked
  BY DEF CauseInv
<1>m. client.machine = 0 \/ client.machine \in Sessions
  BY <1>t, Bounds DEF Types, ClientTypes, IsClient
<1> USE <1>t
<1>1. CASE Leave
  <2>1. SameCause /\ client'.machine = client.machine
    BY <1>1 DEF Leave, Quiet, SameCause
  <2>2. ClosedSame
    BY <1>1 DEF Leave, Quiet, ClosedSame
  <2>3. cancelled' = cancelled /\ setupOff \subseteq setupOff'
    BY <1>1 DEF Leave, Quiet
  <2>4. \A h \in Sessions : ReconnectDenied(h) => ReconnectDenied(h)'
    <3>1. runner' = runner
      BY <1>1 DEF Leave, Quiet
    <3> QED BY <2>1, <3>1 DEF ReconnectDenied
  <2>5. Left => Left'
    BY <2>1, <2>2, <1>m DEF Left, ClosedSame
  <2> QED BY <2>1, <2>3, <2>4, <2>5, <1>r, RateFrame
<1>2. CASE RetryReconnect
  <2>1. state' = state /\ cancelled' = cancelled /\ setupOff' = setupOff /\ client.machine \in Sessions
    BY <1>2, RetryClient DEF RetryReconnect
  <2>2. CASE runner' = runner /\ client'.machine = client.machine /\ SameCause
    BY <2>1, <2>2, <1>r, RateFrame DEF Left, ReconnectDenied
  <2>3. CASE StartEffect(client.machine)
    BY <2>1, <2>3, RateStart
  <2> QED BY <1>2, <2>2, <2>3, RetryClient DEF SameCause, DropTokenEffect
<1>3. CASE recordConflictResolution
  <2>1. SameCause /\ client'.machine = client.machine
    BY <1>3 DEF recordConflictResolution, Quiet, SameCause
  <2>2. ClosedSame
    <3>1. client.network \in Sessions
      BY <1>3, Bounds DEF recordConflictResolution, Types, ClientTypes, IsClient
    <3> QED BY <1>3, <3>1, AppliedState DEF recordConflictResolution, Events
  <2>3. cancelled' = cancelled /\ setupOff \subseteq setupOff'
    BY <1>3 DEF recordConflictResolution, Quiet
  <2>4. \A h \in Sessions : ReconnectDenied(h) => ReconnectDenied(h)'
    <3>1. runner' = runner
      BY <1>3 DEF recordConflictResolution, Quiet
    <3> QED BY <2>1, <3>1 DEF ReconnectDenied
  <2>5. Left => Left'
    BY <2>1, <2>2, <1>m DEF Left, ClosedSame
  <2> QED BY <2>1, <2>3, <2>4, <2>5, <1>r, RateFrame
<1>4. ASSUME NEW g \in Sessions, Reserve(g) PROVE RateLimitBacked' /\ RateStep
  <2>1. SameCause /\ client'.machine = client.machine
    BY <1>4 DEF Reserve, Quiet, SameCause
  <2>2. ClosedSame
    BY <1>4 DEF Reserve, Quiet, ClosedSame
  <2>3. cancelled' = cancelled /\ setupOff \subseteq setupOff'
    BY <1>4 DEF Reserve, Quiet
  <2>4. \A h \in Sessions : ReconnectDenied(h) => ReconnectDenied(h)'
    <3>1. runner' = runner
      BY <1>4 DEF Reserve, Quiet
    <3> QED BY <2>1, <3>1 DEF ReconnectDenied
  <2>5. Left => Left'
    BY <2>1, <2>2, <1>m DEF Left, ClosedSame
  <2> QED BY <2>1, <2>3, <2>4, <2>5, <1>r, RateFrame
<1>5. CASE LeaveClient
  <2>1. LeaveLocked
    BY <1>5 DEF LeaveClient
  <2>2. Left' /\ client'.machine = client.machine
    BY <2>1, LeaveCloses DEF ClientInv
  <2>3. client'.lastErr = client.lastErr
    BY <2>1, LeaveLockedClient DEF LeaveEffect
  <2> QED BY <2>2, <2>3 DEF RateLimitBacked, RateStep
<1>6. CASE LeaveDrop
  <2>1. SameCause /\ client'.machine = client.machine
    BY <1>6 DEF LeaveDrop, Quiet, SameCause
  <2>2. ClosedSame
    BY <1>6 DEF LeaveDrop, Quiet, ClosedSame
  <2>3. cancelled' = cancelled /\ setupOff \subseteq setupOff'
    BY <1>6 DEF LeaveDrop, Quiet
  <2>4. \A h \in Sessions : ReconnectDenied(h) => ReconnectDenied(h)'
    <3>1. runner' = runner
      BY <1>6 DEF LeaveDrop, Quiet
    <3> QED BY <2>1, <3>1 DEF ReconnectDenied
  <2>5. Left => Left'
    BY <2>1, <2>2, <1>m DEF Left, ClosedSame
  <2> QED BY <2>1, <2>3, <2>4, <2>5, <1>r, RateFrame
<1>7. CASE Expire
  <2>1. SameCause /\ client'.machine = client.machine
    BY <1>7, ExpireClient DEF SameButCause
  <2>2. ClosedSame
    BY <1>7 DEF Expire, Quiet, ClosedSame
  <2>3. cancelled' = cancelled /\ setupOff \subseteq setupOff'
    BY <1>7 DEF Expire, Quiet
  <2>4. \A h \in Sessions : ReconnectDenied(h) => ReconnectDenied(h)'
    <3>1. runner' = runner
      BY <1>7 DEF Expire, Quiet
    <3> QED BY <2>1, <3>1 DEF ReconnectDenied
  <2>5. Left => Left'
    BY <2>1, <2>2, <1>m DEF Left, ClosedSame
  <2> QED BY <2>1, <2>3, <2>4, <2>5, <1>r, RateFrame
<1>8. ASSUME NEW t \in Sockets, ServeRejection(t) PROVE RateLimitBacked' /\ RateStep
  <2>1. SameCause /\ client'.machine = client.machine
    BY <1>8 DEF ServeRejection, Quiet, SameCause
  <2>2. ClosedSame
    BY <1>8 DEF ServeRejection, Quiet, ClosedSame
  <2>3. cancelled' = cancelled /\ setupOff \subseteq setupOff'
    BY <1>8 DEF ServeRejection, Quiet
  <2>4. \A h \in Sessions : ReconnectDenied(h) => ReconnectDenied(h)'
    <3>1. runner' = runner
      BY <1>8 DEF ServeRejection, Quiet
    <3> QED BY <2>1, <3>1 DEF ReconnectDenied
  <2>5. Left => Left'
    BY <2>1, <2>2, <1>m DEF Left, ClosedSame
  <2> QED BY <2>1, <2>3, <2>4, <2>5, <1>r, RateFrame
<1>9. ASSUME NEW t \in Sockets, NEW e \in {"lost", "rate"}, Lose(t, e) PROVE RateLimitBacked' /\ RateStep
  <2>1. SameCause /\ client'.machine = client.machine
    BY <1>9 DEF Lose, Quiet, SameCause
  <2>2. ClosedSame
    BY <1>9 DEF Lose, Quiet, ClosedSame
  <2>3. cancelled' = cancelled /\ setupOff \subseteq setupOff'
    BY <1>9 DEF Lose, Quiet
  <2>4. \A h \in Sessions : ReconnectDenied(h) => ReconnectDenied(h)'
    <3>1. runner' = runner
      BY <1>9 DEF Lose, Quiet
    <3> QED BY <2>1, <3>1 DEF ReconnectDenied
  <2>5. Left => Left'
    BY <2>1, <2>2, <1>m DEF Left, ClosedSame
  <2> QED BY <2>1, <2>3, <2>4, <2>5, <1>r, RateFrame
<1>10. ASSUME NEW g \in Sessions, EnterJoin(g) PROVE RateLimitBacked' /\ RateStep
  <2>1. runner' = runner /\ setupOff' = setupOff
    BY <1>10 DEF EnterJoin
  <2>2. CASE client' = client /\ state' = state /\ cancelled' = cancelled
    BY <2>1, <2>2, <1>r, RateFrame DEF SameCause, Left, ReconnectDenied
  <2>3. CASE EnterEffect(g)
    BY <2>3 DEF EnterEffect, RateLimitBacked, RateStep
  <2> QED BY <1>10, <2>2, <2>3, EnterJoinClient
<1>11. ASSUME NEW g \in Sessions, JoinFetch(g) PROVE RateLimitBacked' /\ RateStep
  <2>1. SameCause /\ client'.machine = client.machine
    BY <1>11 DEF JoinFetch, Quiet, SameCause
  <2>2. ClosedSame
    BY <1>11 DEF JoinFetch, Quiet, ClosedSame
  <2>3. cancelled' = cancelled /\ setupOff \subseteq setupOff'
    BY <1>11 DEF JoinFetch, Quiet
  <2>4. \A h \in Sessions : ReconnectDenied(h) => ReconnectDenied(h)'
    <3>1. runner' = runner
      BY <1>11 DEF JoinFetch, Quiet
    <3> QED BY <2>1, <3>1 DEF ReconnectDenied
  <2>5. Left => Left'
    BY <2>1, <2>2, <1>m DEF Left, ClosedSame
  <2> QED BY <2>1, <2>3, <2>4, <2>5, <1>r, RateFrame
<1>12. ASSUME NEW g \in Sessions, JoinDial(g) PROVE RateLimitBacked' /\ RateStep
  <2>1. SameCause /\ client'.machine = client.machine
    BY <1>12 DEF JoinDial, Quiet, SameCause
  <2>2. ClosedSame
    BY <1>12 DEF JoinDial, Quiet, ClosedSame
  <2>3. cancelled' = cancelled /\ setupOff \subseteq setupOff'
    BY <1>12 DEF JoinDial, Quiet
  <2>4. \A h \in Sessions : ReconnectDenied(h) => ReconnectDenied(h)'
    <3>1. runner' = runner
      BY <1>12 DEF JoinDial, Quiet
    <3> QED BY <2>1, <3>1 DEF ReconnectDenied
  <2>5. Left => Left'
    BY <2>1, <2>2, <1>m DEF Left, ClosedSame
  <2> QED BY <2>1, <2>3, <2>4, <2>5, <1>r, RateFrame
<1>13. ASSUME NEW g \in Sessions, JoinWait(g) PROVE RateLimitBacked' /\ RateStep
  <2>1. SameCause /\ client'.machine = client.machine
    BY <1>13 DEF JoinWait, Quiet, SameCause
  <2>2. ClosedSame
    BY <1>13 DEF JoinWait, Quiet, ClosedSame
  <2>3. cancelled' = cancelled /\ setupOff \subseteq setupOff'
    BY <1>13 DEF JoinWait, Quiet
  <2>4. \A h \in Sessions : ReconnectDenied(h) => ReconnectDenied(h)'
    <3>1. runner' = runner
      BY <1>13 DEF JoinWait, Quiet
    <3> QED BY <2>1, <3>1 DEF ReconnectDenied
  <2>5. Left => Left'
    BY <2>1, <2>2, <1>m DEF Left, ClosedSame
  <2> QED BY <2>1, <2>3, <2>4, <2>5, <1>r, RateFrame
<1>14. ASSUME NEW g \in Sessions, JoinRefresh(g) PROVE RateLimitBacked' /\ RateStep
  <2>1. SameCause /\ client'.machine = client.machine
    BY <1>14 DEF JoinRefresh, Quiet, SameCause
  <2>2. ClosedSame
    BY <1>14 DEF JoinRefresh, Quiet, ClosedSame
  <2>3. cancelled' = cancelled /\ setupOff \subseteq setupOff'
    BY <1>14 DEF JoinRefresh, Quiet
  <2>4. \A h \in Sessions : ReconnectDenied(h) => ReconnectDenied(h)'
    <3>1. runner' = runner
      BY <1>14 DEF JoinRefresh, Quiet
    <3> QED BY <2>1, <3>1 DEF ReconnectDenied
  <2>5. Left => Left'
    BY <2>1, <2>2, <1>m DEF Left, ClosedSame
  <2> QED BY <2>1, <2>3, <2>4, <2>5, <1>r, RateFrame
<1>15. ASSUME NEW g \in Sessions, JoinCommit(g) PROVE RateLimitBacked' /\ RateStep
  <2>1. SameCause /\ client'.machine = client.machine
    BY <1>15, JoinCommitClient DEF SameCause, InstallEffect
  <2>2. ClosedSame
    BY <1>15 DEF JoinCommit, Quiet, ClosedSame
  <2>3. cancelled' = cancelled /\ setupOff \subseteq setupOff'
    BY <1>15 DEF JoinCommit, Quiet
  <2>4. \A h \in Sessions : ReconnectDenied(h) => ReconnectDenied(h)'
    <3>1. runner' = runner
      BY <1>15 DEF JoinCommit, Quiet
    <3> QED BY <2>1, <3>1 DEF ReconnectDenied
  <2>5. Left => Left'
    BY <2>1, <2>2, <1>m DEF Left, ClosedSame
  <2> QED BY <2>1, <2>3, <2>4, <2>5, <1>r, RateFrame
<1>16. ASSUME NEW g \in Sessions, JoinSync(g) PROVE RateLimitBacked' /\ RateStep
  <2>1. SameCause /\ client'.machine = client.machine
    BY <1>16 DEF JoinSync, Quiet, SameCause
  <2>2. ClosedSame
    BY <1>16, SynchronizedState DEF JoinSync
  <2>3. cancelled' = cancelled /\ setupOff \subseteq setupOff'
    BY <1>16 DEF JoinSync, Quiet
  <2>4. \A h \in Sessions : ReconnectDenied(h) => ReconnectDenied(h)'
    <3>1. runner' = runner
      BY <1>16 DEF JoinSync, Quiet
    <3> QED BY <2>1, <3>1 DEF ReconnectDenied
  <2>5. Left => Left'
    BY <2>1, <2>2, <1>m DEF Left, ClosedSame
  <2> QED BY <2>1, <2>3, <2>4, <2>5, <1>r, RateFrame
<1>17. ASSUME NEW g \in Sessions, JoinFailed(g) PROVE RateLimitBacked' /\ RateStep
  BY <1>17, RateJoinFailed
<1>18. ASSUME NEW g \in Sessions, JoinActivate(g) PROVE RateLimitBacked' /\ RateStep
  <2>1. SameCause /\ client'.machine = client.machine
    BY <1>18 DEF JoinActivate, Quiet, SameCause
  <2>2. ClosedSame
    BY <1>18 DEF JoinActivate, Quiet, ClosedSame
  <2>3. cancelled' = cancelled /\ setupOff \subseteq setupOff'
    BY <1>18 DEF JoinActivate, Quiet
  <2>4. \A h \in Sessions : ReconnectDenied(h) => ReconnectDenied(h)'
    <3>1. runner' = runner
      BY <1>18 DEF JoinActivate, Quiet
    <3> QED BY <2>1, <3>1 DEF ReconnectDenied
  <2>5. Left => Left'
    BY <2>1, <2>2, <1>m DEF Left, ClosedSame
  <2> QED BY <2>1, <2>3, <2>4, <2>5, <1>r, RateFrame
<1>19. ASSUME NEW g \in Sessions, releaseReservation(g) PROVE RateLimitBacked' /\ RateStep
  <2>1. SameCause /\ client'.machine = client.machine
    BY <1>19 DEF releaseReservation, Quiet, SameCause
  <2>2. ClosedSame
    BY <1>19 DEF releaseReservation, Quiet, ClosedSame
  <2>3. cancelled' = cancelled /\ setupOff \subseteq setupOff'
    BY <1>19 DEF releaseReservation, Quiet
  <2>4. \A h \in Sessions : ReconnectDenied(h) => ReconnectDenied(h)'
    <3>1. runner' = runner
      BY <1>19 DEF releaseReservation, Quiet
    <3> QED BY <2>1, <3>1 DEF ReconnectDenied
  <2>5. Left => Left'
    BY <2>1, <2>2, <1>m DEF Left, ClosedSame
  <2> QED BY <2>1, <2>3, <2>4, <2>5, <1>r, RateFrame
<1>20. ASSUME NEW g \in Sessions, JoinLeave(g) PROVE RateLimitBacked' /\ RateStep
  <2>1. LeaveLocked
    BY <1>20 DEF JoinLeave
  <2>2. Left' /\ client'.machine = client.machine
    BY <2>1, LeaveCloses DEF ClientInv
  <2>3. client'.lastErr = client.lastErr
    BY <2>1, LeaveLockedClient DEF LeaveEffect
  <2> QED BY <2>2, <2>3 DEF RateLimitBacked, RateStep
<1>21. ASSUME NEW g \in Sessions, AttemptBegin(g) PROVE RateLimitBacked' /\ RateStep
  <2>1. SameCause /\ client'.machine = client.machine
    BY <1>21 DEF AttemptBegin, Quiet, SameCause
  <2>2. ClosedSame
    BY <1>21 DEF AttemptBegin, Quiet, ClosedSame
  <2>3. cancelled' = cancelled /\ setupOff \subseteq setupOff'
    BY <1>21 DEF AttemptBegin, Quiet
  <2>4. \A h \in Sessions : ReconnectDenied(h) => ReconnectDenied(h)'
    <3>1. runner[g].err = "auth" => runner'[g].err = "auth"
      BY <1>21, <1>b, <1>d DEF AttemptBegin, Running, AttemptFails, RunnerTypes, DeniedEnds
    <3>2. runner[g].pc # "gaveup" /\ \A h \in Sessions : h # g => runner'[h] = runner[h]
      BY <1>21, <1>b DEF AttemptBegin, Running, AttemptFails, RunnerTypes
    <3> QED BY <2>1, <3>1, <3>2 DEF ReconnectDenied
  <2>5. Left => Left'
    BY <2>1, <2>2, <1>m DEF Left, ClosedSame
  <2> QED BY <2>1, <2>3, <2>4, <2>5, <1>r, RateFrame
<1>22. ASSUME NEW g \in Sessions, AttemptResume(g) PROVE RateLimitBacked' /\ RateStep
  <2>1. SameCause /\ client'.machine = client.machine
    BY <1>22 DEF AttemptResume, Quiet, SameCause
  <2>2. ClosedSame
    BY <1>22 DEF AttemptResume, Quiet, ClosedSame
  <2>3. cancelled' = cancelled /\ setupOff \subseteq setupOff'
    BY <1>22 DEF AttemptResume, Quiet
  <2>4. \A h \in Sessions : ReconnectDenied(h) => ReconnectDenied(h)'
    BY <1>22, <2>1, <1>d, ResumedRunner DEF ReconnectDenied, DeniedEnds
  <2>5. Left => Left'
    BY <2>1, <2>2, <1>m DEF Left, ClosedSame
  <2> QED BY <2>1, <2>3, <2>4, <2>5, <1>r, RateFrame
<1>23. ASSUME NEW g \in Sessions, AttemptDial(g) PROVE RateLimitBacked' /\ RateStep
  <2>1. SameCause /\ client'.machine = client.machine
    BY <1>23 DEF AttemptDial, Quiet, SameCause
  <2>2. ClosedSame
    BY <1>23 DEF AttemptDial, Quiet, ClosedSame
  <2>3. cancelled' = cancelled /\ setupOff \subseteq setupOff'
    BY <1>23 DEF AttemptDial, Quiet
  <2>4. \A h \in Sessions : ReconnectDenied(h) => ReconnectDenied(h)'
    <3>1. runner[g].err = "auth" => runner'[g].err = "auth"
      BY <1>23, <1>b, <1>d DEF AttemptDial, Running, AttemptFails, RunnerTypes, DeniedEnds
    <3>2. runner[g].pc # "gaveup" /\ \A h \in Sessions : h # g => runner'[h] = runner[h]
      BY <1>23, <1>b DEF AttemptDial, Running, AttemptFails, RunnerTypes
    <3> QED BY <2>1, <3>1, <3>2 DEF ReconnectDenied
  <2>5. Left => Left'
    BY <2>1, <2>2, <1>m DEF Left, ClosedSame
  <2> QED BY <2>1, <2>3, <2>4, <2>5, <1>r, RateFrame
<1>24. ASSUME NEW g \in Sessions, AttemptWait(g) PROVE RateLimitBacked' /\ RateStep
  <2>1. SameCause /\ client'.machine = client.machine
    BY <1>24 DEF AttemptWait, Quiet, SameCause
  <2>2. ClosedSame
    BY <1>24 DEF AttemptWait, Quiet, ClosedSame
  <2>3. cancelled' = cancelled /\ setupOff \subseteq setupOff'
    BY <1>24 DEF AttemptWait, Quiet
  <2>4. \A h \in Sessions : ReconnectDenied(h) => ReconnectDenied(h)'
    <3>1. runner[g].err = "auth" => runner'[g].err = "auth"
      BY <1>24, <1>b, <1>d DEF AttemptWait, Running, AttemptFails, RunnerTypes, DeniedEnds
    <3>2. runner[g].pc # "gaveup" /\ \A h \in Sessions : h # g => runner'[h] = runner[h]
      BY <1>24, <1>b DEF AttemptWait, Running, AttemptFails, RunnerTypes
    <3> QED BY <2>1, <3>1, <3>2 DEF ReconnectDenied
  <2>5. Left => Left'
    BY <2>1, <2>2, <1>m DEF Left, ClosedSame
  <2> QED BY <2>1, <2>3, <2>4, <2>5, <1>r, RateFrame
<1>25. ASSUME NEW g \in Sessions, AttemptSuspend(g) PROVE RateLimitBacked' /\ RateStep
  BY <1>25, RateAttemptSuspend
<1>26. ASSUME NEW g \in Sessions, AttemptRecord(g) PROVE RateLimitBacked' /\ RateStep
  BY <1>26, RateAttemptRecord
<1>27. ASSUME NEW g \in Sessions, AttemptRetry(g) PROVE RateLimitBacked' /\ RateStep
  <2>1. SameCause /\ client'.machine = client.machine
    BY <1>27 DEF AttemptRetry, Quiet, SameCause
  <2>2. ClosedSame
    BY <1>27 DEF AttemptRetry, Quiet, ClosedSame
  <2>3. cancelled' = cancelled /\ setupOff \subseteq setupOff'
    BY <1>27 DEF AttemptRetry, Quiet
  <2>4. \A h \in Sessions : ReconnectDenied(h) => ReconnectDenied(h)'
    <3>1. runner[g].err = "auth" => runner'[g].err = "auth"
      BY <1>27, <1>b, <1>d DEF AttemptRetry, Running, AttemptFails, RunnerTypes, DeniedEnds
    <3>2. runner[g].pc # "gaveup" /\ \A h \in Sessions : h # g => runner'[h] = runner[h]
      BY <1>27, <1>b DEF AttemptRetry, Running, AttemptFails, RunnerTypes
    <3> QED BY <2>1, <3>1, <3>2 DEF ReconnectDenied
  <2>5. Left => Left'
    BY <2>1, <2>2, <1>m DEF Left, ClosedSame
  <2> QED BY <2>1, <2>3, <2>4, <2>5, <1>r, RateFrame
<1>28. ASSUME NEW g \in Sessions, AttemptInstall(g) PROVE RateLimitBacked' /\ RateStep
  BY <1>28, RateAttemptInstall
<1>29. ASSUME NEW g \in Sessions, AttemptSync(g) PROVE RateLimitBacked' /\ RateStep
  <2>1. SameCause /\ client'.machine = client.machine
    BY <1>29 DEF AttemptSync, Quiet, SameCause
  <2>2. ClosedSame
    BY <1>29, SynchronizedState DEF AttemptSync
  <2>3. cancelled' = cancelled /\ setupOff \subseteq setupOff'
    BY <1>29 DEF AttemptSync, Quiet
  <2>4. \A h \in Sessions : ReconnectDenied(h) => ReconnectDenied(h)'
    <3>1. runner[g].err = "auth" => runner'[g].err = "auth"
      BY <1>29, <1>b, <1>d DEF AttemptSync, Running, AttemptFails, RunnerTypes, DeniedEnds
    <3>2. runner[g].pc # "gaveup" /\ \A h \in Sessions : h # g => runner'[h] = runner[h]
      BY <1>29, <1>b DEF AttemptSync, Running, AttemptFails, RunnerTypes
    <3> QED BY <2>1, <3>1, <3>2 DEF ReconnectDenied
  <2>5. Left => Left'
    BY <2>1, <2>2, <1>m DEF Left, ClosedSame
  <2> QED BY <2>1, <2>3, <2>4, <2>5, <1>r, RateFrame
<1>30. ASSUME NEW g \in Sessions, ReconnectEnd(g) PROVE RateLimitBacked' /\ RateStep
  BY <1>30, RateReconnectEnd
<1>31. ASSUME NEW t \in Sockets, MonitorWait(t) PROVE RateLimitBacked' /\ RateStep
  <2>1. SameCause /\ client'.machine = client.machine
    BY <1>31 DEF MonitorWait, Quiet, SameCause
  <2>2. ClosedSame
    BY <1>31 DEF MonitorWait, Quiet, ClosedSame
  <2>3. cancelled' = cancelled /\ setupOff \subseteq setupOff'
    BY <1>31 DEF MonitorWait, Quiet
  <2>4. \A h \in Sessions : ReconnectDenied(h) => ReconnectDenied(h)'
    <3>1. runner' = runner
      BY <1>31 DEF MonitorWait, Quiet
    <3> QED BY <2>1, <3>1 DEF ReconnectDenied
  <2>5. Left => Left'
    BY <2>1, <2>2, <1>m DEF Left, ClosedSame
  <2> QED BY <2>1, <2>3, <2>4, <2>5, <1>r, RateFrame
<1>32. ASSUME NEW t \in Sockets, MonitorSuspend(t) PROVE RateLimitBacked' /\ RateStep
  BY <1>32, RateMonitorSuspend
<1>33. ASSUME NEW t \in Sockets, MonitorRecord(t) PROVE RateLimitBacked' /\ RateStep
  BY <1>33, RateMonitorRecord
<1>34. ASSUME NEW t \in Sockets, MonitorStart(t) PROVE RateLimitBacked' /\ RateStep
  <2>1. state' = state /\ cancelled' = cancelled /\ setupOff' = setupOff /\ socket[t].of \in Sessions
    BY <1>34, OwnedMonitor DEF MonitorStart
  <2>2. CASE client' = client /\ runner' = runner
    BY <2>1, <2>2, <1>r, RateFrame DEF SameCause, Left, ReconnectDenied
  <2>3. CASE StartEffect(socket[t].of)
    BY <2>1, <2>3, RateStart
  <2> QED BY <1>34, <2>1, <2>2, <2>3, StartClient DEF MonitorStart
<1>35. ASSUME NEW t \in Sockets, Receive(t) PROVE RateLimitBacked' /\ RateStep
  <2>1. SameCause /\ client'.machine = client.machine
    BY <1>35, ReceiveClient DEF SameCause, JoinedEffect
  <2>2. ClosedSame
    BY <1>35, ReceiveState
  <2>3. cancelled' = cancelled /\ setupOff \subseteq setupOff'
    BY <1>35 DEF Receive, Quiet
  <2>4. \A h \in Sessions : ReconnectDenied(h) => ReconnectDenied(h)'
    <3>1. runner' = runner
      BY <1>35 DEF Receive, Quiet
    <3> QED BY <2>1, <3>1 DEF ReconnectDenied
  <2>5. Left => Left'
    BY <2>1, <2>2, <1>m DEF Left, ClosedSame
  <2> QED BY <2>1, <2>3, <2>4, <2>5, <1>r, RateFrame
<1>36. ASSUME NEW t \in Sockets, ReceiveFault(t) PROVE RateLimitBacked' /\ RateStep
  <2>1. SameCause /\ client'.machine = client.machine
    BY <1>36 DEF ReceiveFault, Quiet, SameCause
  <2>2. ClosedSame
    BY <1>36 DEF ReceiveFault, Quiet, ClosedSame
  <2>3. cancelled' = cancelled /\ setupOff \subseteq setupOff'
    BY <1>36 DEF ReceiveFault, Quiet
  <2>4. \A h \in Sessions : ReconnectDenied(h) => ReconnectDenied(h)'
    <3>1. runner' = runner
      BY <1>36 DEF ReceiveFault, Quiet
    <3> QED BY <2>1, <3>1 DEF ReconnectDenied
  <2>5. Left => Left'
    BY <2>1, <2>2, <1>m DEF Left, ClosedSame
  <2> QED BY <2>1, <2>3, <2>4, <2>5, <1>r, RateFrame
<1>37. ASSUME NEW t \in Sockets, InstallSnapshot(t) PROVE RateLimitBacked' /\ RateStep
  <2>1. SameCause /\ client'.machine = client.machine
    BY <1>37 DEF InstallSnapshot, Quiet, SameCause
  <2>2. ClosedSame
    BY <1>37 DEF InstallSnapshot, Quiet, ClosedSame
  <2>3. cancelled' = cancelled /\ setupOff \subseteq setupOff'
    BY <1>37 DEF InstallSnapshot, Quiet
  <2>4. \A h \in Sessions : ReconnectDenied(h) => ReconnectDenied(h)'
    <3>1. runner' = runner
      BY <1>37 DEF InstallSnapshot, Quiet
    <3> QED BY <2>1, <3>1 DEF ReconnectDenied
  <2>5. Left => Left'
    BY <2>1, <2>2, <1>m DEF Left, ClosedSame
  <2> QED BY <2>1, <2>3, <2>4, <2>5, <1>r, RateFrame
<1>38. ASSUME NEW t \in Sockets, Finish(t) PROVE RateLimitBacked' /\ RateStep
  <2>1. SameCause /\ client'.machine = client.machine
    BY <1>38 DEF Finish, Quiet, SameCause
  <2>2. ClosedSame
    BY <1>38 DEF Finish, Quiet, ClosedSame
  <2>3. cancelled' = cancelled /\ setupOff \subseteq setupOff'
    BY <1>38 DEF Finish, Quiet
  <2>4. \A h \in Sessions : ReconnectDenied(h) => ReconnectDenied(h)'
    <3>1. runner' = runner
      BY <1>38 DEF Finish, Quiet
    <3> QED BY <2>1, <3>1 DEF ReconnectDenied
  <2>5. Left => Left'
    BY <2>1, <2>2, <1>m DEF Left, ClosedSame
  <2> QED BY <2>1, <2>3, <2>4, <2>5, <1>r, RateFrame
<1>39. ASSUME NEW t \in Sockets, ServeJoin(t) PROVE RateLimitBacked' /\ RateStep
  <2>1. SameCause /\ client'.machine = client.machine
    BY <1>39 DEF ServeJoin, Quiet, SameCause
  <2>2. ClosedSame
    BY <1>39 DEF ServeJoin, Quiet, ClosedSame
  <2>3. cancelled' = cancelled /\ setupOff \subseteq setupOff'
    BY <1>39 DEF ServeJoin, Quiet
  <2>4. \A h \in Sessions : ReconnectDenied(h) => ReconnectDenied(h)'
    <3>1. runner' = runner
      BY <1>39 DEF ServeJoin, Quiet
    <3> QED BY <2>1, <3>1 DEF ReconnectDenied
  <2>5. Left => Left'
    BY <2>1, <2>2, <1>m DEF Left, ClosedSame
  <2> QED BY <2>1, <2>3, <2>4, <2>5, <1>r, RateFrame
<1>40. ASSUME NEW t \in Sockets, ServeReplay(t) PROVE RateLimitBacked' /\ RateStep
  <2>1. SameCause /\ client'.machine = client.machine
    BY <1>40 DEF ServeReplay, Quiet, SameCause
  <2>2. ClosedSame
    BY <1>40 DEF ServeReplay, Quiet, ClosedSame
  <2>3. cancelled' = cancelled /\ setupOff \subseteq setupOff'
    BY <1>40 DEF ServeReplay, Quiet
  <2>4. \A h \in Sessions : ReconnectDenied(h) => ReconnectDenied(h)'
    <3>1. runner' = runner
      BY <1>40 DEF ServeReplay, Quiet
    <3> QED BY <2>1, <3>1 DEF ReconnectDenied
  <2>5. Left => Left'
    BY <2>1, <2>2, <1>m DEF Left, ClosedSame
  <2> QED BY <2>1, <2>3, <2>4, <2>5, <1>r, RateFrame
<1> QED
  BY <1>1, <1>2, <1>3, <1>4, <1>5, <1>6, <1>7, <1>8, <1>9, <1>10, <1>11, <1>12, <1>13,
     <1>14, <1>15, <1>16, <1>17, <1>18, <1>19, <1>20, <1>21, <1>22, <1>23, <1>24, <1>25,
     <1>26, <1>27, <1>28, <1>29, <1>30, <1>31, <1>32, <1>33, <1>34, <1>35, <1>36, <1>37,
     <1>38, <1>39, <1>40
     DEF Next, User, JoinStep, LeaveStep, AttemptStep, MonitorStep, ReadStep, ServiceStep, Network


LEMMA CauseInvStep == ASSUME ClientInv, CauseInv, [Next]_vars PROVE CauseInv' /\ (RateStep \/ UNCHANGED vars)
<1>1. CASE Next
  BY <1>1, CancelledErrorsStep, DeniedEndsStep, RateLimitStep DEF CauseInv
<1>2. CASE UNCHANGED vars
  BY <1>2 DEF vars, CauseInv, CancelledErrors, DeniedEnds, RateLimitBacked, ReconnectDenied, Left, Off
<1> QED BY <1>1, <1>2

(* A rate-limited close stays the cause on display until the session recovers,  *)
(* fails for good or is left (connectionErrorLocked), however many attempts of  *)
(* however many sessions fail meanwhile for other reasons, unless a reconnect   *)
(* loop of an earlier session was refused (suspendCause).                       *)
THEOREM RateLimitStaysVisibleTheorem == Spec => RateLimitStaysVisible
<1>1. ClientInv /\ CauseInv /\ [Next]_vars => CauseInv' /\ [RateStep]_vars
  BY CauseInvStep
<1>2. Init => CauseInv
  BY CauseInvInit
<1>3. Spec => [][RateStep]_vars
  BY <1>1, <1>2, ClientInvHolds, PTL DEF Spec
<1>4. [RateStep]_vars => [(client.lastErr = "rate" /\ client'.machine = client.machine /\ client'.lastErr # "rate")
          => \/ client'.lastErr \in {"none", "auth"}
             \/ client.machine \in cancelled \cup setupOff
             \/ ~ client.rateLimited /\ \E g \in Sessions : ReconnectDenied(g)]_vars
  BY DEF RateStep
<1> QED BY <1>3, <1>4, PTL DEF RateLimitStaysVisible

=================================================================================
