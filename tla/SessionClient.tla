------------------------------- MODULE SessionClient -------------------------------
(***************************************************************************)
(* The life of a session on the desktop: the controller that lets one join  *)
(* or leave at a time, the session client that joins, loses connections,    *)
(* reconnects with rotated credentials and leaves, the sockets it opens,    *)
(* and the service as far as these can see it.                              *)
(*                                                                         *)
(* Goroutines run between each other's lock sections: the join, the leave,  *)
(* one monitor per installed socket, the reconnect loop, and the read loop  *)
(* of every socket, which calls the receive callbacks.  What the executor   *)
(* does with edits is in NetworkExecutor; here it is linked to a socket,    *)
(* suspended or terminated.                                                 *)
(***************************************************************************)
EXTENDS Integers, Sequences, FiniteSets

CONSTANTS
    MaxSessions,    \* bound: joins the user starts
    MaxSockets,     \* bound: connections, enough for every attempt (see README)
    MaxFaults,      \* bound: failed requests, lost sockets, compactions, conflicts, further joins
    MaxAttempts     \* ReconnectPolicy.MaxAttempts

ASSUME SessionClientAssumption ==
    /\ MaxSessions \in Nat \ {0} /\ MaxSockets \in Nat \ {0}
    /\ MaxFaults \in Nat /\ MaxAttempts \in Nat \ {0}

Sessions == 1..MaxSessions
Sockets  == 1..MaxSockets

(* Resumption credentials are named after the socket that delivered them,   *)
(* invitations after their session; 0 is the empty credential.              *)
Invitation(g) == -g

(* An executor without a socket to send to. *)
Absent     == 0
Paused     == -1
Terminated == -2

VARIABLES
    ctl,        \* Controller
    client,     \* SessionClient, under its mutex
    state,      \* the StateMachine of each session
    executor,   \* its NetworkExecutor: its socket, or Absent, Paused or Terminated
    cancelled,  \* sessions whose reconnectContext is cancelled
    setupOff,   \* sessions whose setup the controller has cancelled
    join,       \* the goroutine of each Controller.Join
    leaver,     \* the goroutine of Controller.Leave
    runner,     \* the goroutine of each runReconnect
    socket,     \* the transports, and the service's side of each
    valid,      \* credentials the service accepts
    faults      \* bound

vars == <<ctl, client, state, executor, cancelled, setupOff, join, leaver, runner, socket, valid, faults>>

NoSocket == [of |-> 0, kind |-> "join", st |-> "unused", err |-> "none", wire |-> << >>, srv |-> "none",
             tok |-> 0, ready |-> FALSE, snapshot |-> FALSE, found |-> "none", fetching |-> FALSE,
             monitor |-> "none"]

NoJoin == [pc |-> "idle", t |-> 0, tok |-> 0, fallbacks |-> 0, err |-> "none"]
NoRunner == [pc |-> "idle", t |-> 0, tok |-> 0, attempt |-> 0, err |-> "none"]

Init ==
    /\ ctl = [active |-> FALSE, inflight |-> FALSE, leaving |-> FALSE, reservation |-> 0]
    /\ client = [machine |-> 0, joining |-> FALSE, transport |-> 0, network |-> 0, reconnecting |-> FALSE,
                 context |-> 0, token |-> 0, expired |-> FALSE, lastErr |-> "none", rateLimited |-> FALSE]
    /\ state = [g \in Sessions |-> "disconnected"]
    /\ executor = [g \in Sessions |-> Absent]
    /\ cancelled = {}
    /\ setupOff = {}
    /\ join = [g \in Sessions |-> NoJoin]
    /\ leaver = [pc |-> "idle", network |-> 0, transport |-> 0]
    /\ runner = [g \in Sessions |-> NoRunner]
    /\ socket = [t \in Sockets |-> NoSocket]
    /\ valid = {}
    /\ faults = 0

-----------------------------------------------------------------------------------
(* The state machine. *)
Transitions ==
    [disconnected  |-> [connect |-> "connecting", close |-> "closed"],
     connecting    |-> [connected |-> "synchronizing", connection_lost |-> "disconnected", close |-> "closed"],
     synchronizing |-> [synchronized |-> "caught_up", read_only |-> "read_only", conflict |-> "conflict",
                        connection_lost |-> "reconnecting", close |-> "closed"],
     caught_up     |-> [conflict |-> "conflict", read_only |-> "read_only",
                        connection_lost |-> "reconnecting", close |-> "closed"],
     reconnecting  |-> [connected |-> "synchronizing", close |-> "closed"],
     read_only     |-> [connection_lost |-> "reconnecting", close |-> "closed"],
     conflict      |-> [resolved |-> "caught_up", connection_lost |-> "reconnecting", close |-> "closed"],
     closed        |-> [none |-> "closed"]]

Reduce(s, event) ==
    IF event \in DOMAIN Transitions[s] THEN Transitions[s][event] ELSE s

Apply(g, event) == [state EXCEPT ![g] = Reduce(@, event)]

(* A fence: the session is still the client's, and was not left. *)
Current(g, states) == client.machine = g /\ states[g] # "closed"

-----------------------------------------------------------------------------------
(* Records of what happened.  An error is "rate" (the service closed the    *)
(* socket for its rate), "auth" (denied, or an incompatible protocol: both  *)
(* are permanent), "cancelled", or one of the others.                       *)
(* Mutant: forgets that the session was rate limited. *)
connectionErrorLocked_Forgets(c, err) == [c EXCEPT !.rateLimited = err = "rate", !.lastErr = err]

connectionErrorLocked(c, err) ==
    CASE err = "rate" -> [c EXCEPT !.rateLimited = TRUE, !.lastErr = "rate"]
      [] err = "auth" -> [c EXCEPT !.rateLimited = FALSE, !.lastErr = "auth"]
      [] c.rateLimited /\ err \notin {"rate", "auth", "cancelled"} -> [c EXCEPT !.lastErr = "rate"]
      [] OTHER -> [c EXCEPT !.lastErr = err]

(* suspendCause classifies without asking whose session it is. *)
SuspendCause(err) == [client EXCEPT !.rateLimited = connectionErrorLocked(client, err).rateLimited]

recordConnectionFailure(g, err) ==
    /\ state' = Apply(g, "connection_lost")
    /\ client' = IF Current(g, state') THEN connectionErrorLocked(client, err) ELSE client

(* Mutant: records the credential whatever became of the session. *)
recordJoined_Unfenced(g, t) ==
    /\ state' = Apply(g, "connected")
    /\ client' = [client EXCEPT !.token = t, !.expired = FALSE]

recordJoined(g, t) ==
    /\ state' = Apply(g, "connected")
    /\ client' = IF Current(g, state') THEN [client EXCEPT !.token = t, !.expired = FALSE] ELSE client

(* recordSynchronized: the state of a session that was left stays closed. *)
recordSynchronized(g) ==
    state' = IF state[g] = "connecting" THEN [state EXCEPT ![g] = "caught_up"] ELSE Apply(g, "synchronized")

Suspended(g) == [executor EXCEPT ![g] = IF @ \in Sockets THEN Paused ELSE @]

(* A fault of the network or of the service, within the bound. *)
Fault == faults < MaxFaults /\ faults' = faults + 1

-----------------------------------------------------------------------------------
(* Sockets.  Close lets one message that was already read reach its callback. *)
Close(s) ==
    IF s.st # "open" THEN s
    ELSE [s EXCEPT !.st = "closing", !.err = "lost",
                   !.wire = IF @ = << >> THEN @ ELSE SubSeq(@, 1, 1)]

CloseSocket(t) == socket' = IF t = 0 THEN socket ELSE [socket EXCEPT ![t] = Close(@)]

Unused == {t \in Sockets : socket[t].of = 0}
Fresh(t) == t \in Unused /\ \A u \in Unused : t <= u

Dialled(g, kind, tok) == [NoSocket EXCEPT !.of = g, !.kind = kind, !.tok = tok, !.st = "open", !.srv = "join"]
Refused(g, kind) == [NoSocket EXCEPT !.of = g, !.kind = kind, !.st = "ended", !.err = "lost"]

(* The connection breaks, or the service closes it for its rate. *)
Lose(t, err) ==
    /\ socket[t].st = "open" /\ ~ socket[t].fetching
    /\ Fault
    /\ socket' = [socket EXCEPT ![t].st = "ended", ![t].err = err, ![t].wire = << >>]
    /\ UNCHANGED <<ctl, client, state, executor, cancelled, setupOff, join, leaver, runner, valid>>

(* The loops of a socket that was closed on this side return. *)
Finish(t) ==
    /\ socket[t].st = "closing" /\ ~ socket[t].fetching
    /\ socket' = [socket EXCEPT ![t].st = "ended", ![t].wire = << >>]
    /\ UNCHANGED <<ctl, client, state, executor, cancelled, setupOff, join, leaver, runner, valid, faults>>

-----------------------------------------------------------------------------------
(* The service's side of a socket, which need not have noticed its end. *)
Write(t, messages, srv) ==
    socket' = [socket EXCEPT ![t].srv = srv, ![t].tok = 0,
                             ![t].wire = IF socket[t].st = "open" THEN @ \o messages ELSE @]

Quiet == UNCHANGED <<ctl, client, state, executor, cancelled, setupOff, join, leaver, runner>>

(* rotateResumptionToken, and the joined message that carries the new one. *)
ServeJoin(t) ==
    /\ socket[t].srv = "join"
    /\ IF socket[t].tok \in valid
       THEN /\ valid' = (valid \ {socket[t].tok}) \cup {t}
            /\ Write(t, <<"joined">>, IF socket[t].st = "open" THEN "joined" ELSE "closed")
       ELSE valid' = valid /\ Write(t, <<"close">>, "closed")
    /\ Quiet /\ UNCHANGED faults

(* Replay ends at the client's revision, or needs a snapshot. *)
ServeReplay(t) ==
    /\ socket[t].srv = "joined" /\ socket[t].st = "open"
    /\ \/ Write(t, <<"complete">>, "live") /\ UNCHANGED faults
       \/ Write(t, <<"snapshot", "close">>, "closed") /\ Fault
    /\ Quiet /\ UNCHANGED valid

ServeRejection(t) ==
    /\ socket[t].srv = "live" /\ socket[t].st = "open"
    /\ Write(t, <<"rejected">>, "live")
    /\ Fault
    /\ Quiet /\ UNCHANGED valid

Expire ==
    /\ client.token # 0 /\ ~ client.expired
    /\ Fault
    /\ client' = [client EXCEPT !.expired = TRUE]
    /\ valid' = valid \ {client.token}
    /\ UNCHANGED <<ctl, state, executor, cancelled, setupOff, join, leaver, runner, socket>>

-----------------------------------------------------------------------------------
(* The receive callbacks, called by the read loop one message at a time.    *)
(* What they put into the channels of an attempt that is over stays unread. *)
Awaited(t) ==
    \E g \in Sessions : \/ join[g].pc = "wait" /\ join[g].t = t
                        \/ runner[g].pc = "wait" /\ runner[g].t = t

Found(t, s, err) == [s EXCEPT !.found = IF @ = "none" /\ Awaited(t) THEN err ELSE @]

Taken(s) == [s EXCEPT !.ready = FALSE, !.snapshot = FALSE, !.found = "none"]

Reading(t) ==
    /\ socket[t].st \in {"open", "closing"} /\ ~ socket[t].fetching
    /\ socket[t].wire # << >>

(* joinSession's callback does nothing once the session was left. *)
Deaf(t) == socket[t].kind = "join" /\ socket[t].of \in cancelled

Receive(t) ==
    LET s == [socket[t] EXCEPT !.wire = Tail(@)]
        g == s.of
        message == Head(socket[t].wire)
    IN  /\ Reading(t)
        /\ \/ /\ message = "close" \/ Deaf(t)
              /\ socket' = [socket EXCEPT ![t] = IF message = "close" THEN [s EXCEPT !.st = "ended", !.err = "lost"] ELSE s]
              /\ UNCHANGED <<client, state, executor, faults>>
           \/ /\ message = "joined" /\ ~ Deaf(t)
              /\ recordJoined(g, t)
              /\ executor' = IF s.kind = "join" THEN [executor EXCEPT ![g] = t] ELSE executor
              /\ socket' = [socket EXCEPT ![t] = s]
              /\ UNCHANGED faults
           \/ /\ message = "rejected" /\ ~ Deaf(t)
              /\ state' = IF state[g] \in {"synchronizing", "caught_up"} THEN Apply(g, "conflict") ELSE state
              /\ socket' = [socket EXCEPT ![t] = s]
              /\ UNCHANGED <<client, executor, faults>>
           \/ /\ message = "complete" /\ ~ Deaf(t)
              /\ socket' = [socket EXCEPT ![t] = [s EXCEPT !.ready = Awaited(t)]]
              /\ UNCHANGED <<client, state, executor, faults>>
           \/ /\ message = "snapshot" /\ ~ Deaf(t)
              /\ socket' = [socket EXCEPT ![t] = IF s.kind = "join" THEN [s EXCEPT !.snapshot = Awaited(t)]
                                                 ELSE [s EXCEPT !.fetching = TRUE]]
              /\ UNCHANGED <<client, state, executor, faults>>
    /\ UNCHANGED <<ctl, cancelled, setupOff, join, leaver, runner, valid>>

(* A replay that ends elsewhere, or an operation that does not fit: the     *)
(* second also closes the socket.                                           *)
ReceiveFault(t) ==
    /\ Reading(t) /\ ~ Deaf(t)
    /\ executor[socket[t].of] # Absent
    /\ Fault
    /\ LET s == Found(t, socket[t], "fault") IN
        \/ /\ Head(s.wire) = "complete"
           /\ socket' = [socket EXCEPT ![t] = [s EXCEPT !.wire = Tail(@)]]
        \/ /\ Head(s.wire) = "rejected"
           /\ socket' = [socket EXCEPT ![t] = [Close(s) EXCEPT !.wire = << >>]]
    /\ Quiet /\ UNCHANGED valid

(* installReconnectSnapshot, inside the callback. *)
InstallSnapshot(t) ==
    /\ socket[t].fetching
    /\ LET failed == \/ socket[t].of \in cancelled \/ client.token \notin valid
           err == IF socket[t].of \in cancelled THEN "cancelled" ELSE "auth"
       IN  \/ /\ socket' = [socket EXCEPT ![t] = [Found(t, @, IF failed THEN err ELSE "fallback") EXCEPT !.fetching = FALSE]]
              /\ UNCHANGED faults
           \/ /\ Fault
              /\ socket' = [socket EXCEPT ![t] = [Found(t, @, "lost") EXCEPT !.fetching = FALSE]]
    /\ Quiet /\ UNCHANGED valid

-----------------------------------------------------------------------------------
(* Controller.Join and joinSession. *)
JoinOff(g) == g \in cancelled \/ g \in setupOff

Joining(g, pc) ==
    join' = [join EXCEPT ![g] = IF pc = "done" THEN [NoJoin EXCEPT !.pc = pc] ELSE [@ EXCEPT !.pc = pc]]
JoinFails(g, err) == join' = [join EXCEPT ![g].pc = "failed", ![g].err = err]

(* The user joins; reserve refuses while a join or a leave is under way. *)
Reserve(g) ==
    /\ ~ ctl.active /\ ~ ctl.inflight /\ ~ ctl.leaving
    /\ join[g].pc = "idle" /\ \A h \in Sessions : h < g => join[h].pc # "idle"
    /\ ctl' = [ctl EXCEPT !.active = TRUE, !.inflight = TRUE, !.reservation = g]
    /\ join' = [join EXCEPT ![g].pc = "enter", ![g].tok = Invitation(g)]
    /\ valid' = valid \cup {Invitation(g)}
    /\ IF g = 1 THEN UNCHANGED faults ELSE Fault
    /\ UNCHANGED <<client, state, executor, cancelled, setupOff, leaver, runner, socket>>

EnterJoin(g) ==
    /\ join[g].pc = "enter"
    /\ IF client.joining \/ client.transport # 0
       THEN /\ Joining(g, "release")
            /\ UNCHANGED <<client, state, cancelled>>
       ELSE /\ client' = [client EXCEPT !.machine = g, !.joining = TRUE, !.token = 0, !.expired = FALSE,
                                        !.lastErr = "none", !.rateLimited = FALSE, !.reconnecting = FALSE,
                                        !.context = g]
            /\ state' = Apply(g, "connect")
            /\ cancelled' = cancelled \cup ({client.context} \ {0})
            /\ Joining(g, "fetch")
    /\ UNCHANGED <<ctl, executor, setupOff, leaver, runner, socket, valid, faults>>

JoinFetch(g) ==
    /\ join[g].pc = "fetch"
    /\ \/ ~ JoinOff(g) /\ Joining(g, "dial") /\ UNCHANGED faults
       \/ JoinOff(g) /\ JoinFails(g, "cancelled") /\ UNCHANGED faults
       \/ Fault /\ JoinFails(g, "lost")
    /\ UNCHANGED <<ctl, client, state, executor, cancelled, setupOff, leaver, runner, socket, valid>>

JoinDial(g) ==
    /\ join[g].pc = "dial"
    /\ \E t \in Sockets :
        /\ Fresh(t)
        /\ \/ /\ ~ JoinOff(g) /\ join[g].tok \in valid
              /\ socket' = [socket EXCEPT ![t] = Dialled(g, "join", join[g].tok)]
              /\ join' = [join EXCEPT ![g].pc = "wait", ![g].t = t]
              /\ UNCHANGED faults
           \/ /\ JoinOff(g) \/ join[g].tok \notin valid
              /\ socket' = [socket EXCEPT ![t] = Refused(g, "join")]
              /\ JoinFails(g, IF JoinOff(g) THEN "cancelled" ELSE "auth")
              /\ UNCHANGED faults
           \/ /\ Fault
              /\ socket' = [socket EXCEPT ![t] = Refused(g, "join")]
              /\ JoinFails(g, "lost")
    /\ UNCHANGED <<ctl, client, state, executor, cancelled, setupOff, leaver, runner, valid>>

(* What a socket that ended during the join leaves to report. *)
initialJoinOutcomeOnTransportEnd(s) ==
    CASE s.snapshot -> "snapshot"
      [] ~ s.snapshot /\ s.found # "none" -> "found"
      [] ~ s.snapshot /\ s.found = "none" /\ s.ready -> "ready"
      [] OTHER -> "ended"

(* The select: any channel that has something, or the cancellation. *)
JoinOutcomes(g) ==
    LET s == socket[join[g].t]
    IN  (IF s.ready THEN {"ready"} ELSE {}) \cup (IF s.found # "none" THEN {"found"} ELSE {})
        \cup (IF s.snapshot THEN {"snapshot"} ELSE {}) \cup (IF JoinOff(g) THEN {"cancelled"} ELSE {})
        \cup (IF s.st = "ended" THEN {initialJoinOutcomeOnTransportEnd(s)} ELSE {})

JoinWait(g) ==
    /\ join[g].pc = "wait"
    /\ LET t == join[g].t
           s == socket[t]
       IN  \E outcome \in JoinOutcomes(g) :
              \/ outcome = "ready" /\ Joining(g, "commit") /\ socket' = [socket EXCEPT ![t] = Taken(@)]
              \/ outcome \in {"found", "ended", "cancelled"} /\ socket' = [socket EXCEPT ![t] = Close(Taken(@))]
                 /\ JoinFails(g, CASE outcome = "found" -> s.found [] outcome = "ended" -> s.err [] OTHER -> "cancelled")
              \/ outcome = "snapshot" /\ socket' = [socket EXCEPT ![t] = Close(Taken(@))] /\ Joining(g, "refresh")
    /\ UNCHANGED <<ctl, client, state, executor, cancelled, setupOff, leaver, runner, valid, faults>>

(* refreshSnapshot: with the credential that came with the joined message. *)
JoinRefresh(g) ==
    /\ join[g].pc = "refresh"
    /\ LET exhausted == join[g].fallbacks >= MaxAttempts
           changed == ~ Current(g, state) \/ JoinOff(g)
           denied == client.token = 0 \/ client.expired \/ client.token \notin valid
       IN  \/ /\ exhausted \/ changed \/ denied
              /\ JoinFails(g, IF ~ exhausted /\ ~ changed THEN "auth" ELSE "changed")
              /\ UNCHANGED faults
           \/ /\ ~ exhausted /\ ~ changed /\ ~ denied
              /\ join' = [join EXCEPT ![g].pc = "dial", ![g].tok = client.token, ![g].fallbacks = @ + 1]
              /\ UNCHANGED faults
           \/ /\ ~ exhausted /\ ~ changed /\ Fault /\ JoinFails(g, "lost")
    /\ UNCHANGED <<ctl, client, state, executor, cancelled, setupOff, leaver, runner, socket, valid>>

(* The session is installed unless it was left meanwhile. *)
JoinCommit(g) ==
    /\ join[g].pc = "commit"
    /\ IF ~ Current(g, state) \/ ~ client.joining \/ JoinOff(g)
       THEN /\ CloseSocket(join[g].t)
            /\ executor' = [executor EXCEPT ![g] = Terminated]
            /\ Joining(g, "cleanup")
            /\ UNCHANGED client
       ELSE /\ client' = [client EXCEPT !.transport = join[g].t, !.network = g, !.joining = FALSE]
            /\ Joining(g, "sync")
            /\ UNCHANGED <<socket, executor>>
    /\ UNCHANGED <<ctl, state, cancelled, setupOff, leaver, runner, valid, faults>>

JoinSync(g) ==
    /\ join[g].pc = "sync"
    /\ recordSynchronized(g)
    /\ socket' = [socket EXCEPT ![join[g].t].monitor = "wait"]
    /\ Joining(g, "activate")
    /\ UNCHANGED <<ctl, client, executor, cancelled, setupOff, leaver, runner, valid, faults>>

(* The deferred cleanup of a join that failed; nobody knows its executor. *)
CleanedUp(c, g) ==
    IF c.machine # g THEN c
    ELSE [c EXCEPT !.joining = FALSE, !.context = 0, !.token = 0, !.expired = FALSE]

JoinFailed(g) ==
    /\ join[g].pc \in {"failed", "cleanup"}
    /\ state' = IF join[g].pc = "failed" THEN Apply(g, "connection_lost") ELSE state
    /\ client' = CleanedUp(IF join[g].pc = "failed" /\ Current(g, state')
                           THEN connectionErrorLocked(client, join[g].err) ELSE client, g)
    /\ cancelled' = IF client.machine = g THEN cancelled \cup {g} ELSE cancelled
    /\ executor' = [executor EXCEPT ![g] = Absent]
    /\ Joining(g, "release")
    /\ UNCHANGED <<ctl, setupOff, leaver, runner, socket, valid, faults>>

(* activate, or give back a session that the controller no longer wants. *)
JoinActivate(g) ==
    /\ join[g].pc = "activate"
    /\ IF ctl.active /\ ctl.reservation = g
       THEN ctl' = [ctl EXCEPT !.inflight = FALSE] /\ Joining(g, "done")
       ELSE ctl' = ctl /\ Joining(g, "leave")
    /\ UNCHANGED <<client, state, executor, cancelled, setupOff, leaver, runner, socket, valid, faults>>

releaseReservation(g) ==
    /\ join[g].pc = "release"
    /\ ctl' = [ctl EXCEPT !.inflight = FALSE,
                          !.active = IF ctl.reservation = g THEN FALSE ELSE @,
                          !.reservation = IF @ = g THEN 0 ELSE @]
    /\ Joining(g, "done")
    /\ UNCHANGED <<client, state, executor, cancelled, setupOff, leaver, runner, socket, valid, faults>>

-----------------------------------------------------------------------------------
(* Leaving.  SessionClient.Leave under the mutex, and what follows it. *)
LeaveLocked ==
    /\ client' = [client EXCEPT !.transport = 0, !.network = 0, !.joining = FALSE, !.rateLimited = FALSE,
                                !.token = 0, !.expired = FALSE, !.reconnecting = FALSE, !.context = 0]
    /\ cancelled' = cancelled \cup ({client.context} \ {0})
    /\ state' = IF client.machine = 0 THEN state ELSE Apply(client.machine, "close")

Dropped(g, t) ==
    /\ executor' = IF g = 0 THEN executor ELSE [executor EXCEPT ![g] = Terminated]
    /\ CloseSocket(t)

Leave ==
    /\ ctl.active
    /\ ctl' = [ctl EXCEPT !.active = FALSE, !.leaving = TRUE, !.reservation = 0]
    /\ setupOff' = IF ctl.inflight THEN setupOff \cup {ctl.reservation} ELSE setupOff
    /\ leaver' = [leaver EXCEPT !.pc = "client"]
    /\ UNCHANGED <<client, state, executor, cancelled, join, runner, socket, valid, faults>>

LeaveClient ==
    /\ leaver.pc = "client"
    /\ LeaveLocked
    /\ leaver' = [pc |-> "drop", network |-> client.network, transport |-> client.transport]
    /\ UNCHANGED <<ctl, executor, setupOff, join, runner, socket, valid, faults>>

LeaveDrop ==
    /\ leaver.pc = "drop"
    /\ Dropped(leaver.network, leaver.transport)
    /\ leaver' = [pc |-> "idle", network |-> 0, transport |-> 0]
    /\ ctl' = [ctl EXCEPT !.leaving = FALSE]
    /\ UNCHANGED <<client, state, cancelled, setupOff, join, runner, valid, faults>>

(* The join gives its session back: Leave, then the reservation. *)
JoinLeave(g) ==
    /\ join[g].pc = "leave"
    /\ LeaveLocked
    /\ Dropped(client.network, client.transport)
    /\ Joining(g, "release")
    /\ UNCHANGED <<ctl, setupOff, leaver, runner, valid, faults>>

-----------------------------------------------------------------------------------
(* monitorTransportResult, once the socket of the session has ended. *)
Monitoring(t, pc) == socket' = [socket EXCEPT ![t].monitor = pc]

MonitorWait(t) ==
    /\ socket[t].monitor = "wait" /\ socket[t].st = "ended"
    /\ LET g == socket[t].of
       IN  Monitoring(t, IF Current(g, state) /\ client.transport = t /\ client.network = g
                         THEN "suspend" ELSE "done")
    /\ UNCHANGED <<ctl, client, state, executor, cancelled, setupOff, join, leaver, runner, valid, faults>>

MonitorSuspend(t) ==
    /\ socket[t].monitor = "suspend"
    /\ executor' = Suspended(socket[t].of)
    /\ client' = SuspendCause(socket[t].err)
    /\ Monitoring(t, "record")
    /\ UNCHANGED <<ctl, state, cancelled, setupOff, join, leaver, runner, valid, faults>>

MonitorRecord(t) ==
    /\ socket[t].monitor = "record"
    /\ recordConnectionFailure(socket[t].of, socket[t].err)
    /\ Monitoring(t, "start")
    /\ UNCHANGED <<ctl, executor, cancelled, setupOff, join, leaver, runner, valid, faults>>

CanReconnect(g) ==
    /\ client.machine = g /\ client.network = g /\ client.context # 0
    /\ state[g] = "reconnecting"

startReconnect(g) ==
    IF CanReconnect(g) /\ ~ client.reconnecting
    THEN /\ client' = [client EXCEPT !.reconnecting = TRUE]
         /\ runner' = [runner EXCEPT ![g] = [NoRunner EXCEPT !.pc = "begin", !.attempt = 1]]
    ELSE UNCHANGED <<client, runner>>

MonitorStart(t) ==
    /\ socket[t].monitor = "start"
    /\ startReconnect(socket[t].of)
    /\ Monitoring(t, "done")
    /\ UNCHANGED <<ctl, state, executor, cancelled, setupOff, join, leaver, valid, faults>>

(* The user asks for another reconnect. *)
RetryReconnect ==
    /\ client.machine # 0 /\ state[client.machine] = "reconnecting" /\ ~ client.reconnecting
    /\ IF client.token = 0 \/ client.expired
       THEN client' = [client EXCEPT !.token = 0, !.expired = FALSE] /\ UNCHANGED runner
       ELSE CanReconnect(client.machine) /\ startReconnect(client.machine)
    /\ UNCHANGED <<ctl, state, executor, cancelled, setupOff, join, leaver, socket, valid, faults>>

(* The last draft of a conflict was resolved. *)
recordConflictResolution ==
    /\ client.network # 0 /\ state[client.network] = "conflict"
    /\ state' = Apply(client.network, "resolved")
    /\ UNCHANGED <<ctl, client, executor, cancelled, setupOff, join, leaver, runner, socket, valid, faults>>

-----------------------------------------------------------------------------------
(* runReconnect: ReconnectPolicy.Reconnect around reconnectAttempt. *)
Running(g, pc) == runner' = [runner EXCEPT ![g].pc = pc]
AttemptFails(g, pc, err) == runner' = [runner EXCEPT ![g].pc = pc, ![g].err = err]

AttemptBegin(g) ==
    /\ runner[g].pc = "begin"
    /\ CASE g \in cancelled -> AttemptFails(g, "end", "cancelled")
         [] g \notin cancelled /\ ~ (Current(g, state) /\ client.network = g) -> AttemptFails(g, "retry", "cancelled")
         [] g \notin cancelled /\ Current(g, state) /\ client.network = g /\ (client.token = 0 \/ client.expired) ->
               AttemptFails(g, "end", "auth")
         [] OTHER -> runner' = [runner EXCEPT ![g].pc = "resume", ![g].tok = client.token]
    /\ UNCHANGED <<ctl, client, state, executor, cancelled, setupOff, join, leaver, socket, valid, faults>>

(* Resume refuses an executor that is not suspended. *)
AttemptResume(g) ==
    /\ runner[g].pc = "resume"
    /\ IF executor[g] # Paused
       THEN AttemptFails(g, "retry", "lost") /\ UNCHANGED <<executor, socket>>
       ELSE \E t \in Sockets :
              /\ Fresh(t)
              /\ executor' = [executor EXCEPT ![g] = t]
              /\ socket' = [socket EXCEPT ![t].of = g, ![t].kind = "reconnect", ![t].tok = runner[g].tok]
              /\ runner' = [runner EXCEPT ![g].pc = "dial", ![g].t = t, ![g].tok = 0]
    /\ UNCHANGED <<ctl, client, state, cancelled, setupOff, join, leaver, valid, faults>>

AttemptDial(g) ==
    /\ runner[g].pc = "dial"
    /\ LET t == runner[g].t
           tok == socket[t].tok
       IN  \/ /\ g \notin cancelled /\ tok \in valid
              /\ socket' = [socket EXCEPT ![t] = Dialled(g, "reconnect", tok)]
              /\ Running(g, "wait")
              /\ UNCHANGED faults
           \/ /\ g \in cancelled \/ tok \notin valid
              /\ socket' = [socket EXCEPT ![t] = Refused(g, "reconnect")]
              /\ AttemptFails(g, "suspend", IF g \in cancelled THEN "cancelled" ELSE "auth")
              /\ UNCHANGED faults
           \/ /\ Fault
              /\ socket' = [socket EXCEPT ![t] = Refused(g, "reconnect")]
              /\ AttemptFails(g, "suspend", "lost")
    /\ UNCHANGED <<ctl, client, state, executor, cancelled, setupOff, join, leaver, valid>>

AttemptWait(g) ==
    /\ runner[g].pc = "wait"
    /\ LET t == runner[g].t
           s == socket[t]
       IN  /\ \/ s.ready /\ Running(g, "install")
              \/ s.found # "none" /\ AttemptFails(g, "suspend", s.found)
              \/ s.st = "ended" /\ AttemptFails(g, "suspend", s.err)
              \/ g \in cancelled /\ AttemptFails(g, "suspend", "cancelled")
           /\ socket' = [socket EXCEPT ![t] = IF runner'[g].pc = "install" THEN Taken(@) ELSE Close(Taken(@))]
    /\ UNCHANGED <<ctl, client, state, executor, cancelled, setupOff, join, leaver, valid, faults>>

AttemptSuspend(g) ==
    /\ runner[g].pc = "suspend"
    /\ executor' = Suspended(g)
    /\ client' = SuspendCause(runner[g].err)
    /\ Running(g, "record")
    /\ UNCHANGED <<ctl, state, cancelled, setupOff, join, leaver, socket, valid, faults>>

AttemptRecord(g) ==
    /\ runner[g].pc = "record"
    /\ recordConnectionFailure(g, runner[g].err)
    /\ Running(g, "retry")
    /\ UNCHANGED <<ctl, executor, cancelled, setupOff, join, leaver, socket, valid, faults>>

(* Permanent errors and the last attempt end the loop; the wait ends it     *)
(* when the session is left.                                                *)
AttemptRetry(g) ==
    /\ runner[g].pc = "retry"
    /\ IF runner[g].err = "auth" \/ runner[g].attempt >= MaxAttempts THEN Running(g, "end")
       ELSE IF g \in cancelled THEN AttemptFails(g, "end", "cancelled")
       ELSE runner' = [runner EXCEPT ![g].pc = "begin", ![g].attempt = @ + 1]
    /\ UNCHANGED <<ctl, client, state, executor, cancelled, setupOff, join, leaver, socket, valid, faults>>

AttemptInstall(g) ==
    /\ runner[g].pc = "install"
    /\ IF Current(g, state) /\ client.network = g
       THEN /\ client' = [client EXCEPT !.transport = runner[g].t, !.lastErr = "none", !.rateLimited = FALSE]
            /\ Running(g, "sync")
            /\ UNCHANGED <<socket, executor>>
       ELSE /\ CloseSocket(runner[g].t)
            /\ executor' = Suspended(g)
            /\ AttemptFails(g, "retry", "cancelled")
            /\ UNCHANGED client
    /\ UNCHANGED <<ctl, state, cancelled, setupOff, join, leaver, valid, faults>>

(* Mutant: nobody watches the new socket. *)
AttemptSync_NoMonitor(g) ==
    /\ runner[g].pc = "sync"
    /\ recordSynchronized(g)
    /\ AttemptFails(g, "end", "none")
    /\ UNCHANGED <<ctl, client, executor, cancelled, setupOff, join, leaver, socket, valid, faults>>

AttemptSync(g) ==
    /\ runner[g].pc = "sync"
    /\ recordSynchronized(g)
    /\ Monitoring(runner[g].t, "wait")
    /\ AttemptFails(g, "end", "none")
    /\ UNCHANGED <<ctl, client, executor, cancelled, setupOff, join, leaver, valid, faults>>

ReconnectEnd(g) ==
    /\ runner[g].pc = "end"
    /\ LET err == runner[g].err
           c == [client EXCEPT !.reconnecting = FALSE,
                               !.token = IF err = "auth" THEN 0 ELSE @,
                               !.expired = IF err = "auth" THEN FALSE ELSE @]
       IN  client' = IF ~ Current(g, state) THEN client
                     ELSE IF err = "none" THEN c ELSE connectionErrorLocked(c, err)
    /\ runner' = [runner EXCEPT ![g] = [NoRunner EXCEPT !.pc = IF runner[g].err = "none" THEN "idle" ELSE "gaveup"]]
    /\ UNCHANGED <<ctl, state, executor, cancelled, setupOff, join, leaver, socket, valid, faults>>

-----------------------------------------------------------------------------------
User == Leave \/ RetryReconnect \/ recordConflictResolution \/ \E g \in Sessions : Reserve(g)

JoinStep(g) ==
    \/ EnterJoin(g) \/ JoinFetch(g) \/ JoinDial(g) \/ JoinWait(g) \/ JoinRefresh(g) \/ JoinCommit(g)
    \/ JoinSync(g) \/ JoinFailed(g) \/ JoinActivate(g) \/ releaseReservation(g) \/ JoinLeave(g)

LeaveStep == LeaveClient \/ LeaveDrop

AttemptStep(g) ==
    \/ AttemptBegin(g) \/ AttemptResume(g) \/ AttemptDial(g) \/ AttemptWait(g) \/ AttemptSuspend(g)
    \/ AttemptRecord(g) \/ AttemptRetry(g) \/ AttemptInstall(g) \/ AttemptSync(g) \/ ReconnectEnd(g)

MonitorStep(t) == MonitorWait(t) \/ MonitorSuspend(t) \/ MonitorRecord(t) \/ MonitorStart(t)

ReadStep(t) == Receive(t) \/ ReceiveFault(t) \/ InstallSnapshot(t) \/ Finish(t)

ServiceStep(t) == ServeJoin(t) \/ ServeReplay(t)

Network ==
    \/ Expire
    \/ \E t \in Sockets : ServeRejection(t) \/ \E err \in {"lost", "rate"} : Lose(t, err)

Next ==
    \/ User \/ LeaveStep \/ Network
    \/ \E g \in Sessions : JoinStep(g) \/ AttemptStep(g)
    \/ \E t \in Sockets : MonitorStep(t) \/ ReadStep(t) \/ ServiceStep(t)

Spec == Init /\ [][Next]_vars

(* Goroutines run, and the service answers what reaches it. *)
FairSpec ==
    /\ Spec
    /\ WF_vars(LeaveStep)
    /\ \A g \in Sessions : WF_vars(JoinStep(g)) /\ WF_vars(AttemptStep(g))
    /\ \A t \in Sockets : WF_vars(MonitorStep(t)) /\ WF_vars(ReadStep(t)) /\ WF_vars(ServiceStep(t))

-----------------------------------------------------------------------------------
(* Nobody is at work on session g's connection. *)
Idle(g) ==
    /\ runner[g].pc \in {"idle", "gaveup"}
    /\ \A t \in Sockets : socket[t].of = g => socket[t].monitor \in {"none", "wait", "done"}
                                              /\ ~ (socket[t].monitor = "wait" /\ socket[t].st = "ended")

(* What the client holds belongs to its session, and to no other: its       *)
(* socket, executor and credential, and a reconnect loop only while the     *)
(* session says so - whatever goroutines of sessions that were left still   *)
(* do.  A session that was left keeps nothing, and no executor goes back    *)
(* to work for it.                                                          *)
SessionsNeverMix ==
    LET g == client.machine
        left == g = 0 \/ state[g] = "closed"
    IN  /\ left => client.transport = 0 /\ client.network = 0 /\ client.token = 0 /\ ~ client.reconnecting
        /\ client.network # 0 => client.network = g /\ executor[g] # Absent
        /\ client.transport # 0 => socket[client.transport].of = g /\ client.network = g
        /\ client.token > 0 => socket[client.token].of = g
        /\ ~ left => client.reconnecting = (runner[g].pc \notin {"idle", "gaveup"})
        /\ \A h \in Sessions :
              ( /\ state[h] = "closed" /\ leaver.pc = "idle"
                /\ join[h].pc = "done" /\ runner[h].pc \in {"idle", "gaveup"} ) => executor[h] \notin Sockets

(* A reconnect loop was refused for good: of the client's session, or of one *)
(* that was left and whose loop has failed since.                           *)
ReconnectDenied(g) ==
    runner[g].err = "auth" \/ (g # client.machine /\ runner[g].pc = "gaveup")

(* A rate-limited close stays the visible cause until the session recovers, *)
(* fails for good, or is left (the comment of connectionErrorLocked),       *)
(* whatever its later attempts fail for - unless the loop of an earlier     *)
(* session is refused meanwhile, which clears the flag of this one.         *)
RateLimitStaysVisible ==
    [][(client.lastErr = "rate" /\ client'.machine = client.machine /\ client'.lastErr # "rate")
          => \/ client'.lastErr \in {"none", "auth"}
             \/ client.machine \in cancelled \cup setupOff
             \/ ~ client.rateLimited /\ \E g \in Sessions : ReconnectDenied(g)]_vars

(* A session always comes to rest: left, refused, in step with an open      *)
(* socket that its executor uses, or disconnected with the cause on display.*)
Settled ==
    LET g == client.machine
    IN  \/ g = 0
        \/ state[g] \in {"closed", "disconnected"}
        \/ /\ state[g] \in {"caught_up", "conflict"}
           /\ client.transport # 0 /\ socket[client.transport].st = "open" /\ executor[g] = client.transport
        \/ /\ state[g] = "reconnecting" /\ Idle(g) /\ client.lastErr # "none"

SessionSettles == []<>Settled

(* A session that lost its connection is being reconnected, or its          *)
(* reconnect gave up: "the session reconnects with backoff".                *)
LostSessionIsRetried ==
    LET g == client.network
    IN  (g # 0 /\ state[g] = "reconnecting" /\ Idle(g)) => runner[g].pc = "gaveup"
====================================================================================
