-------------------------------- MODULE EditorView --------------------------------
(***************************************************************************)
(* The map the user sees.  The executor's goroutines project, send, accept, *)
(* reject and roll back edits, and accumulate what has to be redrawn; the   *)
(* UI thread edits the same tiles in gestures, submits them, and installs   *)
(* the accumulated redraws between gestures.                                *)
(*                                                                         *)
(* Executor sections run under its mutex and are atomic; TakePresentation-  *)
(* Update takes only publication.mu, under which a section installs what it *)
(* accumulated in one piece.  The sequence number of an update is left out: *)
(* a section that makes an update ready has raised it.                      *)
(***************************************************************************)
EXTENDS Projection

CONSTANTS
    TileStates,     \* the tile states that edits use
    InitialTiles,
    MaxEdits,       \* bound: gestures
    MaxRemote,      \* bound: revisions that are not this client's
    MaxSuspends     \* bound: connections lost

ASSUME EditorViewAssumption ==
    /\ None \notin Coords
    /\ TileStates \subseteq Seq(StableIDs)
    /\ ValidSnapshot(InitialTiles)
    /\ InitialTiles \in [DOMAIN InitialTiles -> Seq(StableIDs)]
    /\ \A C \in SUBSET Coords : None \notin [C -> Seq(StableIDs)]
    /\ MaxEdits \in Nat /\ MaxRemote \in Nat /\ MaxSuspends \in Nat

VARIABLES
    \* the executor, under its mutex
    authority,      \* Acknowledged.Tiles
    owners,         \* authorityOwners
    revision,
    verified,       \* the oldest revision whose hash is still known
    pending,        \* projection.Pending
    suspended,
    \* publication.mu
    queue,          \* admitted edits, the first one at its turn: localAdmissions of them
    pub,            \* the accumulator
    published,      \* the last capture
    \* the UI thread
    dmm,            \* the tiles the user sees
    view,           \* the editor's own copy of the authority
    gesture,        \* pendingChanges: tile -> its state before the gesture
    \* bounds
    edits, remote, suspends

executor == <<authority, owners, revision, verified, pending, suspended>>
editor   == <<dmm, view, gesture, edits>>
vars == <<authority, owners, revision, verified, pending, suspended, queue, pub, published, dmm, view,
          gesture, edits, remote, suspends>>

Total(tiles) == TileView(NoOverlay, tiles)

Drained == [authoritative |-> Nothing, display |-> Nothing, replacement |-> None, ready |-> FALSE]

(* AttachCollaborationExecutor *)
Init ==
    /\ authority = InitialTiles
    /\ owners = IndexState(InitialTiles)
    /\ revision = 0
    /\ verified = 0
    /\ pending = << >>
    /\ suspended = FALSE
    /\ queue = << >>
    /\ pub = Drained
    /\ published = [tiles |-> InitialTiles, revision |-> 0, hasPending |-> FALSE]
    /\ dmm = Total(InitialTiles)
    /\ view = [tiles |-> InitialTiles, revision |-> 0, fault |-> FALSE]
    /\ gesture = Nothing
    /\ edits = 0
    /\ remote = 0
    /\ suspends = 0

-----------------------------------------------------------------------------------
(* Publication. *)
PublishCapture ==
    published' = [tiles |-> authority', revision |-> revision',
                  hasPending |-> pending' # << >> \/ queue' # << >>]

(* beginPublicationLocked, from the pending edits before to those after. *)
Accumulated(tiles, index, next, changes, explicit, force) ==
    [authoritative |-> Over(AfterTiles(changes), pub.authoritative),
     display |-> Over(Redraw(tiles, index, pending, next, changes, explicit, force), pub.display),
     replacement |-> IF pub.replacement = None THEN None ELSE tiles,
     ready |-> TRUE]

Begin(changes, explicit, force) ==
    /\ pub' = Accumulated(authority', owners', pending', changes, explicit, force)
    /\ PublishCapture

BeginReplacement ==
    /\ pub' = [Drained EXCEPT !.replacement = authority', !.ready = TRUE]
    /\ PublishCapture

-----------------------------------------------------------------------------------
(* The UI thread. *)

(* installPresentationUpdate and installPresentationReplacement: an update    *)
(* that goes back, or whose recovered authority is not the one announced,     *)
(* faults the editor, which then shows no further update.                     *)
Recovered(update) == Over(update.authoritative, update.replacement)

Refuses(update) ==
    \/ published.revision < view.revision
    \/ update.replacement # None /\ Recovered(update) # published.tiles

Installed(update) ==
    IF Refuses(update) THEN [view EXCEPT !.fault = TRUE]
    ELSE [view EXCEPT !.revision = published.revision,
                      !.tiles = IF update.replacement = None THEN Over(update.authoritative, view.tiles)
                                ELSE Recovered(update)]

Redrawn(update) ==
    IF Refuses(update) THEN dmm
    ELSE [c \in Coords |-> IF c \in DOMAIN update.display THEN update.display[c]
                           ELSE IF update.replacement = None THEN dmm[c] ELSE TileOf(Recovered(update), c)]

(* TakePresentationUpdate gives nothing while an edit is being admitted. *)
Takes_WhenReady(update) == update.ready

Takes(update) == update.ready /\ queue = << >>

(* ProcessCollaborationUpdates, when no gesture is open. *)
Process(update) ==
    IF Takes(update)
      THEN dmm' = Redrawn(update) /\ view' = Installed(update) /\ pub' = Drained
      ELSE pub' = update /\ UNCHANGED <<dmm, view>>

(* Every frame does this, and so does the callback of every edit. *)
Frame ==
    /\ ~view.fault /\ gesture = Nothing /\ Takes(pub)
    /\ Process(pub)
    /\ UNCHANGED <<executor, queue, published, gesture, edits, remote, suspends>>

(* BeginTileChange captures each tile before the gesture changes it. *)
OpenGesture(after) ==
    /\ ~view.fault /\ gesture = Nothing
    /\ edits < MaxEdits
    /\ ValidSnapshot(Over(after, dmm))
    /\ gesture' = [c \in DOMAIN after |-> dmm[c]]
    /\ dmm' = Over(after, dmm)
    /\ edits' = edits + 1
    /\ UNCHANGED <<executor, queue, pub, published, view, remote, suspends>>

Intent ==
    {[coord |-> c, before |-> gesture[c], after |-> dmm[c]] :
        c \in {d \in DOMAIN gesture : gesture[d] # dmm[d]}}

Reserve_Quiet == UNCHANGED published

(* publishAdmissionMetadataLocked *)
Reserve == published' = [published EXCEPT !.hasPending = TRUE]

(* commitOperation and ExecuteAsync: an edit that changes something is        *)
(* admitted, or refused at once while admission is closed.  The refusal       *)
(* publishes what is really there and the editor takes it up.                 *)
Commit ==
    /\ ~view.fault /\ gesture # Nothing
    /\ gesture' = Nothing
    /\ IF Intent = {}
         THEN UNCHANGED <<queue, pub, published, dmm, view>>
         ELSE IF suspended
           THEN /\ Process(Accumulated(authority, owners, pending, {}, Touched(Intent), TRUE))
                /\ UNCHANGED queue
                /\ published' = [published EXCEPT !.hasPending = pending # << >> \/ queue # << >>]
           ELSE /\ queue' = Append(queue, [id |-> edits, changes |-> Intent, base |-> published.revision,
                                           phase |-> "queued", interrupted |-> FALSE])
                /\ Reserve
                /\ UNCHANGED <<pub, dmm, view>>
    /\ UNCHANGED <<executor, edits, remote, suspends>>

-----------------------------------------------------------------------------------
(* Goroutines of admitted edits. *)
Advance(phase) == queue' = [queue EXCEPT ![1].phase = phase]

(* The pending edits but the one with this ID, which is among them once at    *)
(* most: those behind it move up.                                             *)
WithoutID(id) ==
    IF \E i \in 1..Len(pending) : pending[i].id = id
      THEN LET at == CHOOSE i \in 1..Len(pending) : pending[i].id = id
           IN  [i \in 1..(Len(pending) - 1) |-> IF i < at THEN pending[i] ELSE pending[i + 1]]
      ELSE pending

(* submitProjectionLocked *)
Projects(op) ==
    /\ ~suspended /\ ~op.interrupted
    /\ op.base >= verified
    /\ LET overlay == Overlay(NoOverlay, authority, owners, pending)
       IN  Fits(TileView(overlay, authority), OwnerView(overlay, owners), op.changes)

Dispatch ==
    /\ queue # << >> /\ Head(queue).phase = "queued"
    /\ LET op == Head(queue) IN
         IF Projects(op)
           THEN /\ pending' = Append(pending, op)
                /\ Advance("sending")
                /\ UNCHANGED <<authority, owners, revision, verified, suspended>>
                /\ Begin({}, {}, FALSE)
           ELSE /\ Advance("refused")
                /\ UNCHANGED <<executor, pub, published>>
    /\ UNCHANGED <<editor, remote, suspends>>

(* refuseAdmitted redraws the tiles in any case: the editor already shows the *)
(* edit.                                                                      *)
RefuseAdmitted_IfChanged ==
    /\ queue # << >> /\ Head(queue).phase = "refused"
    /\ Advance("finish")
    /\ UNCHANGED <<executor, editor, remote, suspends>>
    /\ Begin({}, Touched(Head(queue).changes), FALSE)

RefuseAdmitted ==
    /\ queue # << >> /\ Head(queue).phase = "refused"
    /\ Advance("finish")
    /\ UNCHANGED <<executor, editor, remote, suspends>>
    /\ Begin({}, Touched(Head(queue).changes), TRUE)

FailPending ==
    /\ queue # << >> /\ Head(queue).phase = "sending"
    /\ Advance("finish")
    /\ pending' = WithoutID(Head(queue).id)
    /\ UNCHANGED <<authority, owners, revision, verified, suspended>>
    /\ IF Len(pending') < Len(pending) THEN Begin({}, {}, FALSE) ELSE UNCHANGED <<pub, published>>
    /\ UNCHANGED <<editor, remote, suspends>>

FinishAdmission ==
    /\ queue # << >> /\ Head(queue).phase \in {"sending", "finish"}
    /\ queue' = Tail(queue)
    /\ UNCHANGED <<executor, pub, editor, remote, suspends>>
    /\ PublishCapture

-----------------------------------------------------------------------------------
(* Answers of the server and other users' edits.  What the server accepts     *)
(* fits the revision before it (module Engine).                               *)
Applies(changes) ==
    changes # {} /\ Fits(Total(authority), OwnerView(NoOverlay, owners), changes)

Acknowledge(changes) ==
    /\ authority' = Install(authority, changes)
    /\ owners' = AuthorityOwners(owners, authority, changes)
    /\ revision' = revision + 1

ReceiveAccepted(i) ==
    /\ Applies(pending[i].changes)
    /\ Acknowledge(pending[i].changes)
    /\ pending' = WithoutID(pending[i].id)
    /\ UNCHANGED <<verified, suspended, queue>>
    /\ Begin(pending[i].changes, {}, FALSE)
    /\ UNCHANGED <<editor, remote, suspends>>

ReceiveRemote(changes) ==
    /\ remote < MaxRemote
    /\ remote' = remote + 1
    /\ Applies(changes)
    /\ Acknowledge(changes)
    /\ UNCHANGED <<pending, verified, suspended, queue>>
    /\ Begin(changes, {}, FALSE)
    /\ UNCHANGED <<editor, suspends>>

ReceiveRejected(i) ==
    /\ pending' = WithoutID(pending[i].id)
    /\ UNCHANGED <<authority, owners, revision, verified, suspended, queue>>
    /\ Begin({}, Touched(pending[i].changes), FALSE)
    /\ UNCHANGED <<editor, remote, suspends>>

(* A lost connection rolls speculation back and refuses what is queued. *)
Suspend ==
    /\ ~suspended
    /\ suspends < MaxSuspends
    /\ suspends' = suspends + 1
    /\ suspended' = TRUE
    /\ pending' = << >>
    /\ queue' = [i \in 1..Len(queue) |-> [queue[i] EXCEPT !.interrupted = TRUE]]
    /\ UNCHANGED <<authority, owners, revision, verified>>
    /\ Begin({}, {}, FALSE)
    /\ UNCHANGED <<editor, remote>>

Resume ==
    /\ suspended
    /\ suspended' = FALSE
    /\ UNCHANGED <<authority, owners, revision, verified, pending, queue, pub, published, editor, remote, suspends>>

(* The snapshot of a reconnect, with edits the client has not seen. *)
ReplaceAcknowledgedSnapshot(changes) ==
    /\ suspends > 0
    /\ remote < MaxRemote
    /\ remote' = remote + 1
    /\ pending = << >>
    /\ Applies(changes)
    /\ authority' = Install(authority, changes)
    /\ owners' = IndexState(authority')
    /\ revision' = revision + 1
    /\ verified' = revision'
    /\ UNCHANGED <<pending, suspended, queue>>
    /\ BeginReplacement
    /\ UNCHANGED <<editor, suspends>>

-----------------------------------------------------------------------------------
Drafts == UNION {[C -> TileStates] : C \in (SUBSET Coords) \ {{}}}

(* What another user may do to the current authority. *)
Changes(after) == {[coord |-> c, before |-> TileOf(authority, c), after |-> after[c]] : c \in DOMAIN after}

UI == \/ Frame \/ Commit
      \/ \E after \in Drafts : OpenGesture(after)

Goroutine == Dispatch \/ RefuseAdmitted \/ FailPending \/ FinishAdmission

Network ==
    \/ \E i \in 1..Len(pending) : ReceiveAccepted(i) \/ ReceiveRejected(i)
    \/ \E after \in Drafts : ReceiveRemote(Changes(after)) \/ ReplaceAcknowledgedSnapshot(Changes(after))
    \/ Suspend \/ Resume

Next == UI \/ Goroutine \/ Network

Spec == Init /\ [][Next]_vars

(* Frames are drawn, users finish gestures, and the goroutine at its turn runs. *)
FairSpec == Spec /\ WF_vars(Frame) /\ WF_vars(Commit) /\ WF_vars(Goroutine)

-----------------------------------------------------------------------------------
Edit == [id : 1..MaxEdits,
         changes : SUBSET [coord : Coords, before : Seq(StableIDs), after : Seq(StableIDs)],
         base : 0..(MaxEdits + MaxRemote),
         phase : {"queued", "refused", "sending", "finish"},
         interrupted : BOOLEAN]

TypeOK ==
    /\ ValidSnapshot(authority)
    /\ revision \in 0..(MaxEdits + MaxRemote)
    /\ verified \in 0..revision
    /\ \A i \in 1..Len(pending) : pending[i] \in Edit
    /\ \A i \in 1..Len(queue) : queue[i] \in Edit
    /\ suspended \in BOOLEAN
    /\ DOMAIN pub.authoritative \subseteq Coords /\ DOMAIN pub.display \subseteq Coords
    /\ pub.ready \in BOOLEAN
    /\ published.hasPending \in BOOLEAN /\ published.revision \in 0..revision
    /\ dmm \in [Coords -> Seq(StableIDs)]
    /\ view.fault \in BOOLEAN
    /\ DOMAIN gesture \subseteq Coords
    /\ edits \in 0..MaxEdits /\ remote \in 0..MaxRemote /\ suspends \in 0..MaxSuspends

(* The owner index that admits edits is the one the tiles imply, through      *)
(* moves, swaps and replacements, and the sparse overlay over it shows what   *)
(* the whole snapshot with the pending edits shows, also where a remote edit  *)
(* hides one edit and, through it, others.                                    *)
OverlayAgrees ==
    /\ owners = IndexState(authority)
    /\ TileView(Overlay(NoOverlay, authority, owners, pending), authority) = Visible(authority, pending)

(* Nothing is missing from the accumulator, and the editor never refuses it:  *)
(* between gestures, with no edit being admitted, installing it gives exactly *)
(* the projection and the acknowledged table, whatever order edits were made, *)
(* answered, refused, rolled back and replaced in.                            *)
DrainShowsProjection ==
    /\ ~view.fault
    /\ (gesture = Nothing /\ queue = << >>) =>
          /\ (IF pub.ready THEN Redrawn(pub) ELSE dmm) = Visible(authority, pending)
          /\ (IF pub.ready THEN Installed(pub) ELSE view).tiles = authority

(* No older redraw covers a newer edit: while an edit waits for its turn, its *)
(* tiles change on the screen only under the user's hands.                    *)
EditStaysOnScreen ==
    [][\A i \in 1..Len(queue) : \A x \in queue[i].changes :
          (queue[i].phase = "queued" /\ gesture' = Nothing) => dmm'[x.coord] = dmm[x.coord]]_vars

(* The lock-free question "is anything unacknowledged", which detaching and   *)
(* undo rely on, is never answered with no while an edit is on its way, and   *)
(* the capture it comes with is the current authority.                        *)
CaptureIsCurrent ==
    /\ ~published.hasPending => queue = << >> /\ pending = << >>
    /\ published.tiles = authority

(* In the end the user sees the projection. *)
ViewConverges == <>[](dmm = Visible(authority, pending))
===================================================================================
