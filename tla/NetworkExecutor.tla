------------------------------ MODULE NetworkExecutor ------------------------------
(***************************************************************************)
(* The client's executor: an edit is admitted with a ticket, waits for its  *)
(* turn, is projected as pending, sent, and resolved by the server, by a    *)
(* failed send or by a lost connection; what is not acknowledged is kept as *)
(* a draft that the user discards or has rebuilt as a new edit.             *)
(*                                                                         *)
(* Edits are identities.  Whether one passes local validation, and whether  *)
(* the server takes it, is a choice; tiles are Projection's business and    *)
(* revisions Delivery's.  One action is one critical section of the code,   *)
(* so that goroutines interleave between them.                              *)
(***************************************************************************)
EXTENDS Integers, Sequences, FiniteSets

CONSTANTS
    Edits,          \* edits made by gestures
    Rebuilds,       \* identities for edits rebuilt from a draft
    SyncEdits,      \* edits submitted with Execute; the others with ExecuteAsync
    CancelEdits,    \* edits whose context may be cancelled
    BulkEdits,      \* edits sent as a bulk body, whose send can fail after it arrived
    None,
    MaxAdmission,   \* maxLocalAdmissionCount
    MaxBreaks,      \* bound: connections lost
    MaxResumes      \* bound: reconnect attempts

Ops == Edits \cup Rebuilds

ASSUME ExecutorAssumption ==
    /\ Edits \cap Rebuilds = {}
    /\ None \notin Ops
    /\ SyncEdits \subseteq Edits
    /\ CancelEdits \subseteq Ops
    /\ BulkEdits \subseteq Ops
    /\ MaxAdmission \in Nat \ {0}
    /\ MaxBreaks \in Nat
    /\ MaxResumes \in Nat

VARIABLES
    \* one goroutine per edit
    pc, ticket,
    via,            \* the transport captured when the edit was projected
    wake,           \* the turn whose end a sleeping goroutine waits for
    answer,         \* the edit's result channel
    outcome,        \* what its completion reports
    calling,        \* the edit whose callback this goroutine is running, or None
    origin,         \* the draft a rebuilt edit comes from
    \* guarded by the executor's mutex
    status,         \* "live", "suspended" or "terminated"
    conn,           \* the bound transport
    projected,      \* projection.Pending
    pending,        \* edits with a waiter
    accepted,       \* edits known to be accepted, retained or as receipts
    drafts,         \* conflicts: [op, code]
    shown,          \* the conflicts last published, which the user sees
    claims,         \* conflictRebuilds
    \* guarded by publication.mu
    nextDispatch, dispatchTurn, interruptedBefore,
    closed,         \* admissionErr # nil
    queued,         \* queuedAdmission
    localAdmissions, pendingAdmission,
    completion,     \* tickets with a recorded completion
    completionTurn, completionRunning,
    \* the connection and the server
    link,           \* "up", "notice" (told to fetch a snapshot) or "down"
    up, down, log, acked,
    \* observations
    admitted,       \* the transport bound when the edit was admitted
    sent,           \* edits handed to a transport: [op, via]
    called,         \* callbacks made, in order
    discarded,      \* drafts the user discarded
    late,           \* edits whose send failed although they arrived
    breaks

worker      == <<ticket, via, wake, answer, outcome, calling, origin>>
authority   == <<projected, pending, accepted, drafts, shown>>
admission   == <<nextDispatch, dispatchTurn, interruptedBefore, closed, queued, localAdmissions,
                 pendingAdmission>>
completions == <<completion, completionTurn, completionRunning>>
network     == <<link, up, down, log, acked>>
observed    == <<admitted, sent, called, discarded, late, breaks>>
vars == <<pc, ticket, via, wake, answer, outcome, calling, origin, status, conn, projected, pending,
          accepted, drafts, shown, claims, nextDispatch, dispatchTurn, interruptedBefore, closed, queued,
          localAdmissions, pendingAdmission, completion, completionTurn, completionRunning, link, up,
          down, log, acked, admitted, sent, called, discarded, late, breaks>>

PerOp(value) == [op \in Ops |-> value]

Init ==
    /\ pc = PerOp("new")
    /\ ticket = PerOp(0)
    /\ via = PerOp(0)
    /\ wake = PerOp(0)
    /\ answer = PerOp("none")
    /\ outcome = PerOp("none")
    /\ calling = PerOp(None)
    /\ origin = PerOp(None)
    /\ status = "live"
    /\ conn = 1
    /\ projected = << >>
    /\ pending = {}
    /\ accepted = {}
    /\ drafts = {}
    /\ shown = {}
    /\ claims = {}
    /\ nextDispatch = 0
    /\ dispatchTurn = 0
    /\ interruptedBefore = 0
    /\ closed = FALSE
    /\ queued = {}
    /\ localAdmissions = 0
    /\ pendingAdmission = {}
    /\ completion = {}
    /\ completionTurn = 0
    /\ completionRunning = FALSE
    /\ link = "up"
    /\ up = << >>
    /\ down = << >>
    /\ log = << >>
    /\ acked = 0
    /\ admitted = PerOp(0)
    /\ sent = {}
    /\ called = << >>
    /\ discarded = {}
    /\ late = {}
    /\ breaks = 0

-----------------------------------------------------------------------------------
(* Drafts. *)
Projected == {projected[i] : i \in 1..Len(projected)}

DraftOf(op) == {d \in drafts : d.op = op}

RetainConflict(op, code, kept) ==
    IF \E d \in kept : d.op = op THEN kept ELSE kept \cup {[op |-> op, code |-> code]}

RetainUnsent(op) ==
    IF op \in accepted THEN drafts ELSE RetainConflict(op, "submission_failed", drafts)

(* publishCaptureLocked, at the end of every section that publishes. *)
Publish == shown' = drafts'

(* The pending edits but `op`, which is among them once at most: the ones     *)
(* behind it move up.                                                         *)
Without(s, op) ==
    IF \E i \in 1..Len(s) : s[i] = op
      THEN LET at == CHOOSE i \in 1..Len(s) : s[i] = op
           IN  [i \in 1..(Len(s) - 1) |-> IF i < at THEN s[i] ELSE s[i + 1]]
      ELSE s

Goto(op, label) == pc' = [pc EXCEPT ![op] = label]

-----------------------------------------------------------------------------------
(* Admission: the first half of ExecuteAsync and of Execute. *)
Used == localAdmissions + Cardinality(pendingAdmission)

Full == Used >= MaxAdmission

ReserveAdmission(op) ==
    /\ \/ pc[op] = "new" /\ op \in Edits
       \/ pc[op] = "reserve"
    /\ IF closed \/ Full
         THEN /\ Goto(op, "refused")
              /\ outcome' = [outcome EXCEPT ![op] = "error"]
              /\ UNCHANGED <<ticket, via, wake, answer, calling, origin, admission, admitted>>
         ELSE /\ ticket' = [ticket EXCEPT ![op] = nextDispatch]
              /\ nextDispatch' = nextDispatch + 1
              /\ localAdmissions' = localAdmissions + 1
              /\ queued' = queued \cup {op}
              /\ admitted' = [admitted EXCEPT ![op] = conn]
              /\ Goto(op, "wait")
              /\ UNCHANGED <<via, wake, answer, outcome, calling, origin, dispatchTurn,
                             interruptedBefore, closed, pendingAdmission>>
    /\ UNCHANGED <<status, conn, authority, claims, completions, network, sent, called, discarded, late, breaks>>

(* refuseAdmission: the edit never had a ticket.  A rebuild then ends. *)
RefuseAdmission(op) ==
    /\ pc[op] = "refused"
    /\ drafts' = RetainUnsent(op)
    /\ Publish
    /\ Goto(op, IF op \in Rebuilds THEN "unclaim" ELSE "done")
    /\ UNCHANGED <<worker, status, conn, projected, pending, accepted, claims, admission, completions,
                   network, observed>>

(* waitDispatchTurn reads the turn and the wake channel together, and then *)
(* sleeps until that channel is closed.                                    *)
WaitDispatchTurn(op) ==
    /\ \/ /\ pc[op] = "wait"
          /\ IF ticket[op] = dispatchTurn
               THEN Goto(op, "turn") /\ UNCHANGED wake
               ELSE Goto(op, "sleep") /\ wake' = [wake EXCEPT ![op] = dispatchTurn]
       \/ /\ pc[op] = "sleep"
          /\ dispatchTurn # wake[op]
          /\ Goto(op, "wait")
          /\ UNCHANGED wake
    /\ UNCHANGED <<ticket, via, answer, outcome, calling, origin, status, conn, authority, claims,
                   admission, completions, network, observed>>

-----------------------------------------------------------------------------------
(* executeAdmitted up to the send.  A cancelled, terminated, suspended or   *)
(* interrupted edit is refused; one that local validation refuses is        *)
(* retained at once; the others are projected, and the transport captured.  *)
Interrupted_Never(op) == FALSE

Interrupted(op) == ticket[op] < interruptedBefore

Dispatch(op) ==
    /\ pc[op] = "turn"
    /\ \/ /\ status # "live" \/ Interrupted(op) \/ op \in CancelEdits
          /\ Goto(op, "refuse")
          /\ outcome' = [outcome EXCEPT ![op] = "error"]
          /\ UNCHANGED <<via, authority>>
       \/ /\ status = "live" /\ ~Interrupted(op)
          /\ drafts' = RetainUnsent(op)
          /\ Goto(op, "refuse")
          /\ outcome' = [outcome EXCEPT ![op] = "error"]
          /\ UNCHANGED <<via, projected, pending, accepted, shown>>
       \/ /\ status = "live" /\ ~Interrupted(op)
          /\ projected' = Append(projected, op)
          /\ pending' = pending \cup {op}
          /\ via' = [via EXCEPT ![op] = conn]
          /\ Goto(op, "send")
          /\ UNCHANGED <<outcome, accepted, drafts>>
          /\ Publish
    /\ UNCHANGED <<ticket, wake, answer, calling, origin, status, conn, claims, admission, completions,
                   network, observed>>

(* refuseAdmitted: an interruption has already kept the edits it found. *)
RefuseAdmitted(op) ==
    /\ pc[op] = "refuse"
    /\ drafts' = IF Interrupted(op) THEN drafts ELSE RetainUnsent(op)
    /\ Publish
    /\ Goto(op, "finish")
    /\ UNCHANGED <<worker, status, conn, projected, pending, accepted, claims, admission, completions,
                   network, observed>>

(* The transport takes the edit or fails.  A dead transport fails; a bulk   *)
(* body may have been written when its sender is told of a failure.         *)
Alive(op) == via[op] = conn /\ link # "down"

Deliver(op) == up' = IF link = "up" THEN Append(up, [op |-> op, via |-> via[op]]) ELSE up

SendOperation(op) ==
    /\ pc[op] = "send"
    /\ \/ /\ Alive(op)
          /\ Deliver(op)
          /\ sent' = sent \cup {[op |-> op, via |-> via[op]]}
          /\ Goto(op, "finishsent")
          /\ UNCHANGED <<outcome, late>>
       \/ /\ Alive(op) /\ link = "up" /\ op \in BulkEdits
          /\ Deliver(op)
          /\ sent' = sent \cup {[op |-> op, via |-> via[op]]}
          /\ late' = late \cup {op}
          /\ outcome' = [outcome EXCEPT ![op] = "error"]
          /\ Goto(op, "failpending")
       \/ /\ outcome' = [outcome EXCEPT ![op] = "error"]
          /\ Goto(op, "failpending")
          /\ UNCHANGED <<up, sent, late>>
    /\ UNCHANGED <<ticket, via, wake, answer, calling, origin, status, conn, authority, claims, admission,
                   completions, link, down, log, acked, admitted, called, discarded, breaks>>

(* failPending: only an edit that still has its waiter is rolled back. *)
FailPending(op) ==
    /\ pc[op] = "failpending"
    /\ Goto(op, "finish")
    /\ IF op \in pending
         THEN /\ pending' = pending \ {op}
              /\ pendingAdmission' = pendingAdmission \ {op}
              /\ projected' = Without(projected, op)
              /\ drafts' = RetainUnsent(op)
              /\ Publish
              /\ answer' = [answer EXCEPT ![op] = "error"]
         ELSE UNCHANGED <<pending, pendingAdmission, projected, drafts, shown, answer>>
    /\ UNCHANGED <<ticket, via, wake, outcome, calling, origin, status, conn, accepted, claims,
                   nextDispatch, dispatchTurn, interruptedBefore, closed, queued, localAdmissions,
                   completions, network, observed>>

(* finishAdmission: the edit leaves the queue, keeps its share of the budget *)
(* only while it has a waiter, and passes the turn on.                       *)
Share_Always(op) == IF pc[op] = "finishsent" THEN {op} ELSE {}

Share(op) == IF pc[op] = "finishsent" /\ op \in pending THEN {op} ELSE {}

PassTurn_WhenSent(op) ==
    IF ticket[op] = dispatchTurn /\ Share(op) # {} THEN dispatchTurn + 1 ELSE dispatchTurn

PassTurn(op) == IF ticket[op] = dispatchTurn THEN dispatchTurn + 1 ELSE dispatchTurn

FinishAdmission(op) ==
    /\ pc[op] \in {"finish", "finishsent"}
    /\ queued' = queued \ {op}
    /\ localAdmissions' = localAdmissions - 1
    /\ pendingAdmission' = pendingAdmission \cup Share(op)
    /\ dispatchTurn' = PassTurn(op)
    /\ Goto(op, IF pc[op] = "finish" \/ op \in SyncEdits THEN "record" ELSE "await")
    /\ UNCHANGED <<worker, status, conn, projected, pending, accepted, drafts, claims, nextDispatch,
                   interruptedBefore, closed, completions, network, observed>>
    /\ Publish

(* The end of executeAdmitted: the result, or the end of the context. *)
Await(op) ==
    /\ pc[op] = "await"
    /\ \/ /\ answer[op] # "none"
          /\ outcome' = [outcome EXCEPT ![op] = answer[op]]
       \/ /\ op \in CancelEdits
          /\ outcome' = [outcome EXCEPT ![op] = "error"]
    /\ Goto(op, IF op \in SyncEdits THEN "done" ELSE "record")
    /\ UNCHANGED <<ticket, via, wake, answer, calling, origin, status, conn, authority, claims, admission,
                   completions, network, observed>>

-----------------------------------------------------------------------------------
(* Completions.  Execute records a skip and goes on to wait for its result. *)
AfterRecord(op) == IF op \in SyncEdits /\ outcome[op] = "none" THEN "await" ELSE "done"

RecordCompletion(op) ==
    /\ pc[op] = "record"
    /\ completion' = completion \cup {ticket[op]}
    /\ completionRunning' = TRUE
    /\ Goto(op, IF completionRunning THEN AfterRecord(op) ELSE "drain")
    /\ UNCHANGED <<worker, status, conn, authority, claims, admission, completionTurn, network, observed>>

(* One turn of drainCompletions.  The ticket tells the edit. *)
Holder(t) == CHOOSE op \in Ops : ticket[op] = t /\ admitted[op] # 0

DrainCompletions_AnyOrder(op) ==
    /\ pc[op] = "drain"
    /\ IF completion = {}
         THEN /\ completionRunning' = FALSE
              /\ Goto(op, AfterRecord(op))
              /\ UNCHANGED <<completion, completionTurn, calling>>
         ELSE \E t \in completion :
              /\ completion' = completion \ {t}
              /\ completionTurn' = completionTurn + 1
              /\ IF Holder(t) \in SyncEdits
                   THEN UNCHANGED <<pc, calling>>
                   ELSE Goto(op, "call") /\ calling' = [calling EXCEPT ![op] = Holder(t)]
              /\ UNCHANGED completionRunning
    /\ UNCHANGED <<ticket, via, wake, answer, outcome, origin, status, conn, authority, claims, admission,
                   network, observed>>

DrainCompletions(op) ==
    /\ pc[op] = "drain"
    /\ IF completionTurn \notin completion
         THEN /\ completionRunning' = FALSE
              /\ Goto(op, AfterRecord(op))
              /\ UNCHANGED <<completion, completionTurn, calling>>
         ELSE /\ completion' = completion \ {completionTurn}
              /\ completionTurn' = completionTurn + 1
              /\ IF Holder(completionTurn) \in SyncEdits
                   THEN UNCHANGED <<pc, calling>>
                   ELSE Goto(op, "call") /\ calling' = [calling EXCEPT ![op] = Holder(completionTurn)]
              /\ UNCHANGED completionRunning
    /\ UNCHANGED <<ticket, via, wake, answer, outcome, origin, status, conn, authority, claims, admission,
                   network, observed>>

(* The callback runs outside every lock.  A rebuilt edit's callback gives up *)
(* the claim and then, if the edit was accepted, dismisses the draft.        *)
Call(op) ==
    /\ pc[op] = "call"
    /\ called' = Append(called, calling[op])
    /\ IF calling[op] \in Rebuilds
         THEN /\ claims' = claims \ {origin[calling[op]]}
              /\ Goto(op, IF outcome[calling[op]] = "accepted" THEN "dismiss" ELSE "drain")
         ELSE Goto(op, "drain") /\ UNCHANGED claims
    /\ UNCHANGED <<worker, status, conn, authority, admission, completions, network, admitted, sent,
                   discarded, late, breaks>>

DismissConflict(op) ==
    /\ pc[op] = "dismiss"
    /\ drafts' = drafts \ DraftOf(origin[calling[op]])
    /\ Publish
    /\ discarded' = discarded \cup {origin[calling[op]]}
    /\ Goto(op, "drain")
    /\ UNCHANGED <<worker, status, conn, projected, pending, accepted, claims, admission, completions,
                   network, admitted, sent, called, late, breaks>>

-----------------------------------------------------------------------------------
(* What the user does with a draft. *)
DiscardConflict(op) ==
    /\ op \notin claims
    /\ DraftOf(op) # {}
    /\ \E d \in shown : d.op = op
    /\ drafts' = drafts \ DraftOf(op)
    /\ Publish
    /\ discarded' = discarded \cup {op}
    /\ UNCHANGED <<pc, worker, status, conn, projected, pending, accepted, claims, admission, completions,
                   network, admitted, sent, called, late, breaks>>

RebuildConflict_NoClaimCheck(op, rebuilt) ==
    /\ \E d \in shown : d.op = op
    /\ rebuilt \in Rebuilds
    /\ pc[rebuilt] = "new"
    /\ claims' = claims \cup {op}
    /\ origin' = [origin EXCEPT ![rebuilt] = op]
    /\ Goto(rebuilt, "build")
    /\ UNCHANGED <<ticket, via, wake, answer, outcome, calling, status, conn, authority, admission,
                   completions, network, observed>>

RebuildConflict(op, rebuilt) ==
    /\ op \notin claims
    /\ \E d \in shown : d.op = op
    /\ rebuilt \in Rebuilds
    /\ pc[rebuilt] = "new"
    /\ claims' = claims \cup {op}
    /\ origin' = [origin EXCEPT ![rebuilt] = op]
    /\ Goto(rebuilt, "build")
    /\ UNCHANGED <<ticket, via, wake, answer, outcome, calling, status, conn, authority, admission,
                   completions, network, observed>>

(* BuildConflictRebuild needs the draft and an empty projection, and may     *)
(* find the intent in the document already.                                  *)
BuildConflictRebuild(op) ==
    /\ pc[op] = "build"
    /\ \/ /\ DraftOf(origin[op]) # {}
          /\ projected = << >>
          /\ Goto(op, "reserve")
          /\ UNCHANGED outcome
       \/ /\ Goto(op, "drop")
          /\ outcome' = [outcome EXCEPT ![op] = "error"]
    /\ UNCHANGED <<ticket, via, wake, answer, calling, origin, status, conn, authority, claims, admission,
                   completions, network, observed>>

(* A rebuild that was never admitted ends here, with the same callback. *)
Unclaim(op) ==
    /\ pc[op] \in {"unclaim", "drop"}
    /\ claims' = claims \ {origin[op]}
    /\ Goto(op, IF pc[op] = "unclaim" THEN "done" ELSE "dropped")
    /\ UNCHANGED <<worker, status, conn, authority, admission, completions, network, observed>>

-----------------------------------------------------------------------------------
(* clearPendingLocked: admission closes, every ticket given out so far is    *)
(* interrupted, and what is pending or queued is kept.                       *)
Kept(code, ops, kept) ==
    kept \cup {[op |-> op, code |-> code] : op \in {o \in ops : ~\E d \in kept : d.op = o}}

Interruption_PendingOnly == Kept("delivery_unconfirmed", Projected, drafts)

Interruption_AllQueued ==
    Kept("submission_failed", queued, Kept("delivery_unconfirmed", Projected, drafts))

Interruption ==
    Kept("submission_failed", queued \ accepted, Kept("delivery_unconfirmed", Projected, drafts))

InterruptionMark == nextDispatch

ClearPending ==
    /\ closed' = TRUE
    /\ interruptedBefore' = InterruptionMark
    /\ queued' = {}
    /\ drafts' = Interruption
    /\ Publish
    /\ pendingAdmission' = pendingAdmission \ pending
    /\ answer' = [op \in Ops |-> IF op \in pending THEN "error" ELSE answer[op]]
    /\ pending' = {}
    /\ projected' = << >>

Suspend ==
    /\ status = "live"
    /\ link = "down"
    /\ status' = "suspended"
    /\ ClearPending
    /\ UNCHANGED <<pc, ticket, via, wake, outcome, calling, origin, conn, accepted, claims, nextDispatch,
                   dispatchTurn, localAdmissions, completions, network, observed>>

(* Leaving the session, or a message that cannot be decoded. *)
Terminate ==
    /\ status # "terminated"
    /\ breaks < MaxBreaks
    /\ breaks' = breaks + 1
    /\ status' = "terminated"
    /\ ClearPending
    /\ link' = "down"
    /\ down' = << >>
    /\ UNCHANGED <<pc, ticket, via, wake, outcome, calling, origin, conn, accepted, claims, nextDispatch,
                   dispatchTurn, localAdmissions, completions, up, log, acked, admitted, sent, called,
                   discarded, late>>

(* A reconnect attempt binds a new transport and joins with the acknowledged *)
(* revision: it is answered with the rows after it, or told to fetch a       *)
(* snapshot.                                                                 *)
Rows == [i \in 1..(Len(log) - acked) |-> [op |-> log[acked + i], kind |-> "accepted"]]

Resume ==
    /\ status = "suspended"
    /\ conn <= MaxResumes
    /\ status' = "live"
    /\ conn' = conn + 1
    /\ closed' = FALSE
    /\ \/ link' = "up" /\ down' = Rows
       \/ link' = "notice" /\ down' = << >>
    /\ UNCHANGED <<pc, worker, authority, claims, nextDispatch, dispatchTurn, interruptedBefore, queued,
                   localAdmissions, pendingAdmission, completions, up, log, acked, observed>>

(* ReplaceAcknowledgedSnapshot refuses while an edit is pending.  Installed  *)
(* or not, this attempt is over.                                             *)
ReplaceAcknowledgedSnapshot ==
    /\ link = "notice"
    /\ acked' = IF pending = {} /\ projected = << >> THEN Len(log) ELSE acked
    /\ link' = "down"
    /\ UNCHANGED <<pc, worker, status, conn, projected, pending, accepted, drafts, claims, admission,
                   completions, up, down, log, observed>>
    /\ IF acked' > acked THEN Publish ELSE UNCHANGED shown

-----------------------------------------------------------------------------------
(* Receive.  An edit that is already known to be accepted changes nothing.   *)
Resolve(op, result) ==
    /\ projected' = Without(projected, op)
    /\ pending' = pending \ {op}
    /\ pendingAdmission' = pendingAdmission \ {op}
    /\ answer' = IF op \in pending THEN [answer EXCEPT ![op] = result] ELSE answer

Unconfirmed(op) == {d \in drafts : d.op = op /\ d.code = "delivery_unconfirmed"}

ReceiveAccepted ==
    /\ status # "terminated"
    /\ down # << >>
    /\ Head(down).kind = "accepted"
    /\ LET op == Head(down).op IN
         IF op \in accepted
           THEN UNCHANGED <<authority, pendingAdmission, answer, acked>>
           ELSE /\ acked' = acked + 1
                /\ accepted' = accepted \cup {op}
                /\ drafts' = drafts \ Unconfirmed(op)
                /\ Publish
                /\ Resolve(op, "accepted")
    /\ down' = Tail(down)
    /\ UNCHANGED <<pc, ticket, via, wake, outcome, calling, origin, status, conn, claims, nextDispatch,
                   dispatchTurn, interruptedBefore, closed, queued, localAdmissions, completions, link, up,
                   log, observed>>

(* A rejection of an edit that is not pending is an integrity fault: the     *)
(* executor suspends itself and the connection is closed.                    *)
ReceiveRejected ==
    /\ status # "terminated"
    /\ down # << >>
    /\ Head(down).kind = "rejected"
    /\ LET op == Head(down).op IN
         IF op \in Projected
           THEN /\ drafts' = RetainConflict(op, "rejected", drafts)
                /\ Publish
                /\ Resolve(op, "error")
                /\ down' = Tail(down)
                /\ UNCHANGED <<status, closed, interruptedBefore, queued, link>>
           ELSE /\ link' = "down"
                /\ down' = << >>
                /\ IF status = "live"
                     THEN status' = "suspended" /\ ClearPending
                     ELSE UNCHANGED <<status, closed, interruptedBefore, queued, drafts, shown,
                                      pendingAdmission, answer, pending, projected>>
    /\ UNCHANGED <<pc, ticket, via, wake, outcome, calling, origin, conn, accepted, claims, nextDispatch,
                   dispatchTurn, localAdmissions, completions, up, log, acked, observed>>

-----------------------------------------------------------------------------------
(* The server takes the edits in the order they arrive.  An acceptance goes  *)
(* to whichever connection is open, a rejection to the one that submitted.   *)
ServerTake ==
    /\ up # << >>
    /\ up' = Tail(up)
    /\ \/ /\ log' = Append(log, Head(up).op)
          /\ down' = IF link = "up" THEN Append(down, [op |-> Head(up).op, kind |-> "accepted"]) ELSE down
       \/ /\ down' = IF link = "up" /\ Head(up).via = conn
                       THEN Append(down, [op |-> Head(up).op, kind |-> "rejected"]) ELSE down
          /\ UNCHANGED log
    /\ UNCHANGED <<pc, worker, status, conn, authority, claims, admission, completions, link, acked, observed>>

(* The connection is lost, with any suffix of what was sent. *)
Break ==
    /\ link # "down"
    /\ breaks < MaxBreaks
    /\ breaks' = breaks + 1
    /\ link' = "down"
    /\ down' = << >>
    /\ \E n \in 0..Len(up) : up' = SubSeq(up, 1, n)
    /\ UNCHANGED <<pc, worker, status, conn, authority, claims, admission, completions, log, acked, admitted,
                   sent, called, discarded, late>>

-----------------------------------------------------------------------------------
Step(op) ==
    \/ RefuseAdmission(op) \/ WaitDispatchTurn(op) \/ Dispatch(op) \/ RefuseAdmitted(op)
    \/ SendOperation(op) \/ FailPending(op) \/ FinishAdmission(op) \/ Await(op)
    \/ RecordCompletion(op) \/ DrainCompletions(op) \/ Call(op) \/ DismissConflict(op)
    \/ BuildConflictRebuild(op) \/ Unclaim(op)

User ==
    \/ \E op \in Ops : ReserveAdmission(op) \/ DiscardConflict(op)
    \/ \E op \in Ops, rebuilt \in Rebuilds : RebuildConflict(op, rebuilt)
    \/ Terminate

Connection == Suspend \/ Resume \/ ReplaceAcknowledgedSnapshot \/ ReceiveAccepted \/ ReceiveRejected

Next == (\E op \in Ops : Step(op)) \/ User \/ Connection \/ ServerTake \/ Break

Spec == Init /\ [][Next]_vars

(* Goroutines run, callbacks return, the server answers what it has read, the *)
(* read loop delivers, and the monitor of a lost transport suspends.  Nobody  *)
(* is obliged to edit, to discard, to rebuild or to reconnect; an edit that   *)
(* was rebuilt is submitted by its goroutine.                                 *)
FairSpec ==
    /\ Spec
    /\ \A op \in Ops : WF_vars(Step(op)) /\ WF_vars(pc[op] = "reserve" /\ ReserveAdmission(op))
    /\ WF_vars(Suspend)
    /\ WF_vars(ReplaceAcknowledgedSnapshot)
    /\ WF_vars(ReceiveAccepted \/ ReceiveRejected)
    /\ WF_vars(ServerTake)

-----------------------------------------------------------------------------------
Labels == {"new", "build", "reserve", "refused", "wait", "sleep", "turn", "refuse", "send", "failpending",
           "finish", "finishsent", "await", "record", "drain", "call", "dismiss", "unclaim", "drop", "dropped",
           "done"}

Holding == {"wait", "sleep", "turn", "refuse", "send", "failpending", "finish", "finishsent"}

TypeOK ==
    /\ pc \in [Ops -> Labels]
    /\ ticket \in [Ops -> Nat]
    /\ via \in [Ops -> Nat]
    /\ wake \in [Ops -> Nat]
    /\ answer \in [Ops -> {"none", "accepted", "error"}]
    /\ outcome \in [Ops -> {"none", "accepted", "error"}]
    /\ calling \in [Ops -> Ops \cup {None}]
    /\ origin \in [Ops -> Ops \cup {None}]
    /\ status \in {"live", "suspended", "terminated"}
    /\ conn \in Nat
    /\ projected \in Seq(Ops)
    /\ pending \subseteq Ops
    /\ accepted \subseteq Ops
    /\ drafts \subseteq [op : Ops, code : {"submission_failed", "delivery_unconfirmed", "rejected"}]
    /\ shown \subseteq [op : Ops, code : {"submission_failed", "delivery_unconfirmed", "rejected"}]
    /\ claims \subseteq Ops
    /\ nextDispatch \in Nat /\ dispatchTurn \in 0..nextDispatch /\ interruptedBefore \in 0..nextDispatch
    /\ closed \in BOOLEAN
    /\ queued \subseteq Ops
    /\ localAdmissions \in Nat
    /\ pendingAdmission \subseteq Ops
    /\ completion \subseteq 0..nextDispatch
    /\ completionTurn \in 0..nextDispatch
    /\ completionRunning \in BOOLEAN
    /\ link \in {"up", "notice", "down"}
    /\ up \in Seq([op : Ops, via : Nat])
    /\ down \in Seq([op : Ops, kind : {"accepted", "rejected"}])
    /\ log \in Seq(Ops)
    /\ acked \in 0..Len(log)
    /\ admitted \in [Ops -> Nat]
    /\ sent \subseteq [op : Ops, via : Nat]
    /\ called \in Seq(Ops)
    /\ discarded \subseteq Ops
    /\ late \subseteq Ops
    /\ breaks \in 0..MaxBreaks

(* No intent is lost: an edit the user made is held by its goroutine before   *)
(* its turn, pending, kept as a draft, known to be accepted, or was discarded *)
(* by the user.  Drafts are the only copy when a connection is lost between   *)
(* any two steps of the goroutine.                                            *)
IntentKept ==
    \A op \in Ops :
        \/ pc[op] \in {"new", "build", "reserve", "refused", "drop", "dropped"}
        \/ pc[op] \in {"wait", "sleep", "turn", "refuse"} /\ ~Interrupted(op)
        \/ op \in Projected
        \/ DraftOf(op) # {}
        \/ op \in accepted
        \/ op \in discarded

(* An edit admitted on one connection is never sent through another: a lost   *)
(* connection turns it into a draft, and only the user decides to send it     *)
(* again.  No edit is handed to a transport twice.                            *)
SentOnItsConnection ==
    /\ \A s \in sent : s.via = admitted[s.op]
    /\ \A s, t \in sent : s.op = t.op => s = t

(* A draft is about an edit whose fate is open: the executor keeps none of an *)
(* edit it knows was accepted, unless the send reported a failure after the   *)
(* edit had arrived.                                                          *)
DraftsAreOpen == \A d \in drafts : d.op \in accepted => d.op \in late

(* The admission budget neither leaks nor is spent twice, and a projected      *)
(* edit keeps its waiter, whichever of the answer, the interruption and the    *)
(* goroutine's own cleanup comes first.                                        *)
BudgetExact ==
    /\ localAdmissions = Cardinality({op \in Ops : pc[op] \in Holding})
    /\ pendingAdmission = {op \in pending : pc[op] \notin Holding}
    /\ Used <= MaxAdmission
    /\ Projected = pending /\ Len(projected) = Cardinality(pending)

(* Callbacks come in the order of admission, once for each edit.              *)
CallbacksInOrder ==
    \A i, j \in 1..Len(called) : i < j => ticket[called[i]] < ticket[called[j]]

(* A draft is being rebuilt at most once at a time, and its claim is held     *)
(* exactly as long: a lost claim would let a discard or a second rebuild race *)
(* with the first, a leaked one would keep the draft for ever.                *)
Ended(op) ==
    \/ \E i \in 1..Len(called) : called[i] = op
    \/ pc[op] = "dropped"
    \/ pc[op] = "done" /\ admitted[op] = 0

OneRebuildPerDraft ==
    \A op \in Ops :
        Cardinality({r \in Rebuilds : origin[r] = op /\ ~Ended(r)}) = IF op \in claims THEN 1 ELSE 0

(* A draft the user discarded does not return. *)
DiscardedStaysDiscarded == \A op \in discarded : DraftOf(op) = {}

(* An edit that was given a ticket is reported to its caller, whatever        *)
(* happens to the connection and to the edits before it.                      *)
EveryEditReported ==
    \A op \in Ops \ SyncEdits :
        (pc[op] = "wait") ~> (\E i \in 1..Len(called) : called[i] = op)
===================================================================================
