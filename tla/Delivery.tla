--------------------------------- MODULE Delivery ---------------------------------
(***************************************************************************)
(* How an accepted operation reaches the editors: the owner's publication  *)
(* to bounded subscriber queues, the join handshake with its paged replay  *)
(* from the store, the loop of a websocket connection, and the client's    *)
(* acknowledged revision across broken connections and snapshot refreshes. *)
(*                                                                         *)
(* The document itself is DocumentOwner's business: here it is the number  *)
(* of revisions the owner has accepted.                                    *)
(***************************************************************************)
EXTENDS Integers, Sequences, FiniteSets

CONSTANTS
    Clients, None,
    QueueDepth,         \* limits.DurableQueueDepth
    PageLimit,          \* entries of a replay page
    MaxRevision,        \* bound: operations accepted
    MaxBreaks,          \* bound: connections lost
    MaxUnpublished      \* bound: revisions the owner adopts without publishing

ASSUME DeliveryAssumption ==
    /\ None \notin Clients
    /\ QueueDepth \in Nat \ {0}
    /\ PageLimit \in Nat \ {0}
    /\ MaxRevision \in Nat
    /\ MaxBreaks \in Nat
    /\ MaxUnpublished \in Nat

VARIABLES
    \* the owner and its store
    head,           \* the owner's revision
    base,           \* the store's snapshot; replay rows start after it
    serving,        \* the owner's run loop is alive
    \* the server's side of a connection
    phase,
    queue,          \* the subscription's channel, of [revision, author]
    open,           \* the subscription is registered with the owner
    boundary,       \* the revision the join was answered with
    floor,          \* the snapshot the replay pages are pinned to, or None
    sent,           \* replay cursor, then sentRevision
    target,         \* the revision flushThrough has to reach
    inbound,        \* the client's submission has not been handled yet
    wire,           \* messages written and not yet received
    \* the client
    acked,          \* acknowledged revision
    stale,          \* told to fetch a snapshot, and fetching it
    waiting,        \* a submission of this connection has no answer yet
    \* observations
    ended,          \* why the server ended the connection
    faulted,        \* the client met a message its revision cannot take
    breaks, unpublished

owner   == <<head, base, serving>>
session == <<boundary, floor, target>>
client  == <<acked, stale, faulted>>
vars    == <<head, base, serving, phase, queue, open, boundary, floor, sent, target, inbound,
             wire, acked, stale, waiting, ended, faulted, breaks, unpublished>>

PerClient(value) == [c \in Clients |-> value]

Init ==
    /\ head = 0
    /\ base = 0
    /\ serving = TRUE
    /\ phase = PerClient("offline")
    /\ queue = PerClient(<< >>)
    /\ open = PerClient(FALSE)
    /\ boundary = PerClient(0)
    /\ floor = PerClient(None)
    /\ sent = PerClient(0)
    /\ target = PerClient(0)
    /\ inbound = PerClient(FALSE)
    /\ wire = PerClient(<< >>)
    /\ acked = PerClient(0)
    /\ stale = PerClient(FALSE)
    /\ waiting = PerClient(FALSE)
    /\ ended = PerClient("not")
    /\ faulted = FALSE
    /\ breaks = 0
    /\ unpublished = 0

-----------------------------------------------------------------------------------
(* Messages.  "at" is what the connection has sent when it writes one. *)
Message(kind, revision, author, at) ==
    [kind |-> kind, revision |-> revision, author |-> author, at |-> at]

Write(c, message) == wire' = [wire EXCEPT ![c] = Append(@, message)]

(* The handler returns: its deferred cancel removes the subscription. *)
End(c, reason) ==
    /\ phase' = [phase EXCEPT ![c] = "ended"]
    /\ ended' = [ended EXCEPT ![c] = reason]
    /\ open' = [open EXCEPT ![c] = FALSE]
    /\ queue' = [queue EXCEPT ![c] = << >>]

-----------------------------------------------------------------------------------
(* publishSharedDurable: a subscriber whose queue is full is closed instead *)
(* of holding up the owner; what it has buffered stays readable.            *)
Room(c) == Len(queue[c]) < QueueDepth

Publish_KeepsFull(author) ==
    /\ queue' = [c \in Clients |->
                   IF open[c] /\ Room(c)
                     THEN Append(queue[c], [revision |-> head + 1, author |-> author])
                     ELSE queue[c]]
    /\ UNCHANGED open

Publish_DropsOldest(author) ==
    /\ queue' = [c \in Clients |->
                   IF open[c]
                     THEN Append(IF Room(c) THEN queue[c] ELSE Tail(queue[c]),
                                 [revision |-> head + 1, author |-> author])
                     ELSE queue[c]]
    /\ UNCHANGED open

Publish(author) ==
    /\ queue' = [c \in Clients |->
                   IF open[c] /\ Room(c)
                     THEN Append(queue[c], [revision |-> head + 1, author |-> author])
                     ELSE queue[c]]
    /\ open' = [c \in Clients |-> open[c] /\ Room(c)]

(* An operation of some other connection, perhaps of one already gone. *)
Accept ==
    /\ serving
    /\ head < MaxRevision
    /\ head' = head + 1
    /\ Publish(None)
    /\ UNCHANGED <<base, serving, phase, session, sent, inbound, wire, client, waiting, ended,
                   breaks, unpublished>>

(* The owner reloads a revision found in the store (DocumentOwner).  *)
Adopt ==
    /\ serving
    /\ head < MaxRevision
    /\ unpublished < MaxUnpublished
    /\ head' = head + 1
    /\ unpublished' = unpublished + 1
    /\ UNCHANGED <<base, serving, phase, queue, open, session, sent, inbound, wire, client,
                   waiting, ended, breaks>>

(* A snapshot is saved: the rows it covers can no longer be replayed. *)
Compact ==
    /\ base' \in (base + 1)..head
    /\ UNCHANGED <<head, serving, phase, queue, open, session, sent, inbound, wire, client,
                   waiting, ended, breaks, unpublished>>

(* closeDurable *)
CloseOwner ==
    /\ serving
    /\ serving' = FALSE
    /\ open' = PerClient(FALSE)
    /\ UNCHANGED <<head, base, phase, queue, session, sent, inbound, wire, client, waiting,
                   ended, breaks, unpublished>>

-----------------------------------------------------------------------------------
(* A join subscribes before it asks the owner for the revision to replay    *)
(* to, so nothing falls between the replay and the first event.             *)
Join(c) ==
    /\ phase[c] = "offline"
    /\ serving
    /\ phase' = [phase EXCEPT ![c] = "subscribed"]
    /\ open' = [open EXCEPT ![c] = TRUE]
    /\ queue' = [queue EXCEPT ![c] = << >>]
    /\ sent' = [sent EXCEPT ![c] = acked[c]]
    /\ UNCHANGED <<owner, session, inbound, wire, client, waiting, ended, breaks, unpublished>>

Joined(c) ==
    /\ phase[c] = "subscribed"
    /\ IF serving
         THEN /\ phase' = [phase EXCEPT ![c] = "replay"]
              /\ boundary' = [boundary EXCEPT ![c] = head]
              /\ floor' = [floor EXCEPT ![c] = None]
              /\ Write(c, Message("joined", head, None, sent[c]))
              /\ UNCHANGED <<queue, open, ended>>
         ELSE /\ End(c, "closed")
              /\ UNCHANGED <<boundary, floor, wire>>
    /\ UNCHANGED <<owner, sent, target, inbound, client, waiting, breaks, unpublished>>

(* LoadReplayPage: the rows after the cursor, none when they are compacted. *)
PageEnd(c) == IF sent[c] + PageLimit < boundary[c] THEN sent[c] + PageLimit ELSE boundary[c]

NeedsSnapshot(c) == (floor[c] # None /\ floor[c] # base) \/ sent[c] < base

(* One turn of writePagedReplay.  *)
ReplayPage(c) ==
    /\ phase[c] = "replay"
    /\ IF NeedsSnapshot(c)
         THEN /\ Write(c, Message("snapshot", 0, None, sent[c]))
              /\ End(c, "snapshot")
              /\ UNCHANGED <<sent, floor>>
         ELSE LET last == PageEnd(c)
                  rows == [i \in 1..(last - sent[c]) |->
                              Message("accepted", sent[c] + i, None, sent[c] + i)]
                  done == Message("complete", boundary[c], None, last)
              IN  /\ wire' = [wire EXCEPT ![c] =
                        IF last = boundary[c] THEN Append(@ \o rows, done) ELSE @ \o rows]
                  /\ phase' = [phase EXCEPT ![c] = IF last = boundary[c] THEN "loop" ELSE "replay"]
                  /\ sent' = [sent EXCEPT ![c] = last]
                  /\ floor' = [floor EXCEPT ![c] = base]
                  /\ UNCHANGED <<queue, open, ended>>
    /\ UNCHANGED <<owner, boundary, target, inbound, client, waiting, breaks, unpublished>>

-----------------------------------------------------------------------------------
Flushing_Never(c) == FALSE

Flushing_OffByOne(c) == phase[c] \in {"reject", "duplicate"} /\ sent[c] <= target[c]

Flushing(c) == phase[c] \in {"reject", "duplicate"} /\ sent[c] < target[c]

(* The durable case of the loop and of flushThrough, with writeAccepted. *)
Deliver_NoSkip(c) ==
    /\ phase[c] = "loop" \/ Flushing(c)
    /\ IF queue[c] = << >>
         THEN /\ ~ open[c]
              /\ End(c, "slow")
              /\ UNCHANGED <<sent, wire>>
         ELSE LET event == Head(queue[c])
              IN  IF event.revision > sent[c] + 1
                    THEN End(c, "gap") /\ UNCHANGED <<sent, wire>>
                    ELSE /\ queue' = [queue EXCEPT ![c] = Tail(@)]
                         /\ sent' = [sent EXCEPT ![c] = event.revision]
                         /\ Write(c, Message("accepted", event.revision, event.author,
                                               event.revision))
                         /\ UNCHANGED <<phase, open, ended>>
    /\ UNCHANGED <<owner, session, inbound, client, waiting, breaks, unpublished>>

Deliver_IgnoresClose(c) ==
    /\ phase[c] = "loop" \/ Flushing(c)
    /\ queue[c] # << >>
    /\ Head(queue[c]).revision <= sent[c] + 1
    /\ queue' = [queue EXCEPT ![c] = Tail(@)]
    /\ IF Head(queue[c]).revision = sent[c] + 1
         THEN /\ sent' = [sent EXCEPT ![c] = @ + 1]
              /\ Write(c, Message("accepted", sent[c] + 1, Head(queue[c]).author, sent[c] + 1))
         ELSE UNCHANGED <<sent, wire>>
    /\ UNCHANGED <<owner, phase, open, session, inbound, client, waiting, ended, breaks, unpublished>>

Deliver(c) ==
    /\ phase[c] = "loop" \/ Flushing(c)
    /\ IF queue[c] = << >>
         THEN /\ ~ open[c]
              /\ End(c, "slow")
              /\ UNCHANGED <<sent, wire>>
         ELSE LET event == Head(queue[c])
              IN  IF event.revision > sent[c] + 1
                    THEN End(c, "gap") /\ UNCHANGED <<sent, wire>>
                    ELSE /\ queue' = [queue EXCEPT ![c] = Tail(@)]
                         /\ IF event.revision = sent[c] + 1
                              THEN /\ sent' = [sent EXCEPT ![c] = event.revision]
                                   /\ Write(c, Message("accepted", event.revision, event.author,
                                                         event.revision))
                              ELSE UNCHANGED <<sent, wire>>
                         /\ UNCHANGED <<phase, open, ended>>
    /\ UNCHANGED <<owner, session, inbound, client, waiting, breaks, unpublished>>

(* handleClientMessage for a submission: the owner accepts it, refuses it,  *)
(* or knows it already, at whatever revision.                               *)
Handle(c) ==
    /\ phase[c] = "loop"
    /\ inbound[c]
    /\ inbound' = [inbound EXCEPT ![c] = FALSE]
    /\ \/ /\ serving
          /\ head < MaxRevision
          /\ head' = head + 1
          /\ Publish(c)
          /\ UNCHANGED <<phase, target>>
       \/ /\ phase' = [phase EXCEPT ![c] = "refused"]
          /\ UNCHANGED <<head, queue, open, target>>
       \/ /\ serving
          /\ \E revision \in 1..head : target' = [target EXCEPT ![c] = revision]
          /\ phase' = [phase EXCEPT ![c] = "duplicate"]
          /\ UNCHANGED <<head, queue, open>>
    /\ UNCHANGED <<base, serving, boundary, floor, sent, wire, client, waiting, ended, breaks,
                   unpublished>>

(* A refusal is answered at the owner's current revision, read afterwards. *)
ReadAuthority(c) ==
    /\ phase[c] = "refused"
    /\ IF serving
         THEN /\ phase' = [phase EXCEPT ![c] = "reject"]
              /\ target' = [target EXCEPT ![c] = head]
              /\ UNCHANGED <<queue, open, ended>>
         ELSE End(c, "closed") /\ UNCHANGED target
    /\ UNCHANGED <<owner, boundary, floor, sent, inbound, wire, client, waiting, breaks, unpublished>>

Answer(c) ==
    /\ phase[c] \in {"reject", "duplicate"}
    /\ ~ Flushing(c)
    /\ Write(c, Message(IF phase[c] = "reject" THEN "rejected" ELSE "accepted", target[c], c, sent[c]))
    /\ phase' = [phase EXCEPT ![c] = "loop"]
    /\ UNCHANGED <<owner, queue, open, session, sent, inbound, client, waiting, ended, breaks,
                   unpublished>>

-----------------------------------------------------------------------------------
(* An editor may submit from the moment a transport is bound, during the    *)
(* replay and until it notices that the connection has ended.               *)
Submit(c) ==
    /\ phase[c] # "offline"
    /\ ~ waiting[c]
    /\ waiting' = [waiting EXCEPT ![c] = TRUE]
    /\ inbound' = [inbound EXCEPT ![c] = TRUE]
    /\ UNCHANGED <<owner, phase, queue, open, session, sent, wire, client, ended, breaks,
                   unpublished>>

(* The revision the client can take a message at: an acceptance it has or   *)
(* the next one, a rejection and the end of a replay exactly where it is.   *)
(* A repeated acceptance is recognised by the receipt the client keeps of   *)
(* it.  The receipt is not modelled: an operation is never sent again once  *)
(* its connection is suspended, so the answer to a duplicate submission     *)
(* names an acceptance this client was sent, as an event, before it.        *)
Fits(message, revision) ==
    /\ message.kind = "accepted" => message.revision <= revision + 1
    /\ message.kind \in {"rejected", "complete"} => message.revision = revision

(* NetworkExecutor.Receive and the receive function of the reconnect. *)
Receive(c) ==
    /\ wire[c] # << >>
    /\ LET message == Head(wire[c])
       IN  /\ wire' = [wire EXCEPT ![c] = Tail(@)]
           /\ faulted' = (faulted \/ ~ Fits(message, acked[c]))
           /\ acked' = [acked EXCEPT ![c] =
                IF message.kind = "accepted" /\ message.revision = @ + 1 THEN @ + 1 ELSE @]
           /\ stale' = [stale EXCEPT ![c] = @ \/ message.kind = "snapshot"]
           /\ waiting' = [waiting EXCEPT ![c] = @ /\ message.author # c]
    /\ UNCHANGED <<owner, phase, queue, open, session, sent, inbound, ended, breaks, unpublished>>

(* The connection is gone, and the variables of its handler with it. *)
Leave(c) ==
    /\ phase' = [phase EXCEPT ![c] = "offline"]
    /\ wire' = [wire EXCEPT ![c] = << >>]
    /\ inbound' = [inbound EXCEPT ![c] = FALSE]
    /\ waiting' = [waiting EXCEPT ![c] = FALSE]
    /\ stale' = [stale EXCEPT ![c] = FALSE]
    /\ ended' = [ended EXCEPT ![c] = "not"]
    /\ boundary' = [boundary EXCEPT ![c] = 0]
    /\ floor' = [floor EXCEPT ![c] = None]
    /\ sent' = [sent EXCEPT ![c] = 0]
    /\ target' = [target EXCEPT ![c] = 0]

(* The client has read, and dealt with, everything before the close.  A     *)
(* snapshot it was told to fetch may be unavailable, and is not installed   *)
(* over a pending edit: the reconnect starts again without it.              *)
Closed(c) ==
    /\ phase[c] = "ended"
    /\ wire[c] = << >>
    /\ stale[c] => (~ serving \/ waiting[c])
    /\ Leave(c)
    /\ UNCHANGED <<owner, queue, open, acked, faulted, breaks, unpublished>>

(* The connection is lost with what is on it, or the snapshot with it. *)
Break(c) ==
    /\ phase[c] # "offline"
    /\ breaks < MaxBreaks
    /\ breaks' = breaks + 1
    /\ Leave(c)
    /\ open' = [open EXCEPT ![c] = FALSE]
    /\ queue' = [queue EXCEPT ![c] = << >>]
    /\ UNCHANGED <<owner, acked, faulted, unpublished>>

(* installReconnectSnapshot: the owner's document, at its revision. *)
Refresh(c) ==
    /\ stale[c]
    /\ serving
    /\ ~ waiting[c]
    /\ acked' = [acked EXCEPT ![c] = head]
    /\ stale' = [stale EXCEPT ![c] = FALSE]
    /\ UNCHANGED <<owner, phase, queue, open, session, sent, inbound, wire, waiting, ended,
                   faulted, breaks, unpublished>>

ServerStep(c) == Joined(c) \/ ReplayPage(c) \/ ReadAuthority(c) \/ Answer(c)

ClientStep(c) == Join(c) \/ Receive(c) \/ Closed(c) \/ Refresh(c)

Next ==
    \/ Accept \/ Adopt \/ Compact \/ CloseOwner
    \/ \E c \in Clients : \/ ServerStep(c) \/ ClientStep(c)
                          \/ Deliver(c) \/ Handle(c) \/ Submit(c) \/ Break(c)

(* A connection's goroutine and a client keep running; the client retries   *)
(* a lost connection; select takes a ready case at random, so neither       *)
(* events nor messages are passed over forever.                             *)
Fairness ==
    \A c \in Clients : /\ WF_vars(ServerStep(c)) /\ WF_vars(ClientStep(c))
                       /\ SF_vars(Deliver(c)) /\ SF_vars(Handle(c))

Spec == Init /\ [][Next]_vars

FairSpec == Spec /\ Fairness

-----------------------------------------------------------------------------------
Phases == {"offline", "subscribed", "replay", "loop", "refused", "reject", "duplicate", "ended"}

Messages == [kind : {"joined", "accepted", "rejected", "complete", "snapshot"}, revision : Nat,
             author : Clients \cup {None}, at : Nat]

TypeOK ==
    /\ head \in Nat /\ base \in Nat /\ breaks \in Nat /\ unpublished \in Nat
    /\ serving \in BOOLEAN /\ faulted \in BOOLEAN
    /\ phase \in [Clients -> Phases]
    /\ queue \in [Clients -> Seq([revision : Nat, author : Clients \cup {None}])]
    /\ \A c \in Clients : Len(queue[c]) <= QueueDepth
    /\ open \in [Clients -> BOOLEAN]
    /\ boundary \in [Clients -> Nat] /\ sent \in [Clients -> Nat]
    /\ target \in [Clients -> Nat] /\ acked \in [Clients -> Nat]
    /\ floor \in [Clients -> Nat \cup {None}]
    /\ inbound \in [Clients -> BOOLEAN] /\ stale \in [Clients -> BOOLEAN]
    /\ waiting \in [Clients -> BOOLEAN]
    /\ wire \in [Clients -> Seq(Messages)]
    /\ ended \in [Clients -> {"not", "snapshot", "closed", "slow", "gap"}]

(* What a client receives fits its revision, message by message: no         *)
(* acceptance is skipped, a replay ends where the client is, and a          *)
(* rejection carries the revision the client holds when it arrives - with   *)
(* connections breaking, queues overflowing and the store compacting at any *)
(* moment, and even when the owner fails to publish a revision.             *)
NoIntegrityFault == ~ faulted

(* What the wire holds takes the client, step by step, from the revision    *)
(* it has acknowledged to the one the connection has sent; a repeated       *)
(* acceptance stays behind it.                                              *)
Follows(message, revision) ==
    /\ message.kind = "accepted" =>
          \/ message.revision = revision + 1 /\ message.at = revision + 1
          \/ message.revision <= revision /\ message.at = revision
    /\ message.kind \in {"rejected", "complete"} => message.revision = revision
    /\ message.kind # "accepted" => message.at = revision

InOrder(revision, messages) ==
    \A i \in DOMAIN messages :
        Follows(messages[i], IF i = 1 THEN revision ELSE messages[i - 1].at)

EndOf(revision, messages) ==
    IF messages = << >> THEN revision ELSE messages[Len(messages)].at

WireInOrder ==
    \A c \in Clients :
        /\ InOrder(acked[c], wire[c])
        /\ phase[c] \notin {"offline", "ended"} => EndOf(acked[c], wire[c]) = sent[c]

(* An open subscription holds every revision the connection still has to    *)
(* send: the events that arrived during the join are not lost to the gap    *)
(* between replay and loop.                                                 *)
SubscriptionCovers ==
    unpublished = 0 =>
        \A c \in Clients :
            (open[c] /\ phase[c] # "subscribed") =>
                LET from == IF phase[c] = "replay" THEN boundary[c] ELSE sent[c]
                IN  \A r \in (from + 1)..head : \E i \in DOMAIN queue[c] : queue[c][i].revision = r

(* writeAccepted never meets a revision gap while the owner publishes every *)
(* revision: a consumer that fell behind is told so instead.                *)
GapOnlyIfUnpublished ==
    \A c \in Clients : ended[c] = "gap" => unpublished > 0

(* A client's acknowledged revision never moves back, not even when a       *)
(* reconnect replays or a snapshot is installed.                            *)
AcknowledgedNeverRegresses == [][\A c \in Clients : acked'[c] >= acked[c]]_acked

(* Every client is brought to every accepted revision: through its queue,   *)
(* a replay or a snapshot, as long as the owner serves, publishes what it   *)
(* adopts, and its editor does not submit just as a reconnect is about to   *)
(* install the snapshot.                                                    *)
EveryoneCatchesUp ==
    \A c \in Clients : \A r \in 1..MaxRevision :
        (head >= r) ~> \/ acked[c] >= r
                       \/ ~ serving \/ (stale[c] /\ waiting[c]) \/ unpublished > 0

(* Every submission is answered or its connection is given up: while the    *)
(* owner publishes what it adopts, flushThrough does not wait forever for a *)
(* revision that will not come.                                             *)
SubmissionsAnswered == \A c \in Clients : waiting[c] ~> (~ waiting[c] \/ unpublished > 0)
===================================================================================
