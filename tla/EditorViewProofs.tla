---------------------------- MODULE EditorViewProofs ----------------------------
(***************************************************************************)
(* Theorems about EditorView, for any map, edits and bounds: the capture    *)
(* that is read without the executor's mutex, the redraws that wait for     *)
(* admitted edits, the sparse overlay over the maintained owner index, and  *)
(* the accumulator that brings the screen to the projection.                *)
(***************************************************************************)
EXTENDS EditorView, EngineProofs

(* What the capture needs: it is a record, so that a section that changes   *)
(* one field of it changes only that one.                                   *)
CaptureInv ==
    /\ CaptureIsCurrent
    /\ published = [tiles |-> published.tiles, revision |-> published.revision,
                    hasPending |-> published.hasPending]

LEMMA CaptureInit == ASSUME Init PROVE CaptureInv
BY DEF Init, CaptureInv, CaptureIsCurrent

(* A section that ends in PublishCapture leaves a capture of what it left. *)
LEMMA Captured == ASSUME PublishCapture PROVE CaptureInv'
BY DEF PublishCapture, CaptureInv, CaptureIsCurrent

(* One that publishes nothing changes neither the table nor, from nothing    *)
(* admitted or pending, the edits on their way.                              *)
LEMMA CaptureKept ==
    ASSUME CaptureInv, published' = published, authority' = authority,
           queue = <<>> /\ pending = <<>> => queue' = <<>> /\ pending' = <<>>
    PROVE  CaptureInv'
BY DEF CaptureInv, CaptureIsCurrent

(* Only hasPending is published when an edit is admitted or refused. *)
LEMMA CaptureMarked ==
    ASSUME CaptureInv, NEW p, published' = [published EXCEPT !.hasPending = p],
           authority' = authority, ~p => queue' = <<>> /\ pending' = <<>>
    PROVE  CaptureInv'
BY DEF CaptureInv, CaptureIsCurrent

LEMMA CaptureStep == ASSUME CaptureInv, [Next]_vars PROVE CaptureInv'
<1> USE DEF executor, editor
<1>1. CASE Frame
  BY <1>1, CaptureKept DEF Frame
<1>2. ASSUME NEW after \in Drafts, OpenGesture(after) PROVE CaptureInv'
  BY <1>2, CaptureKept DEF OpenGesture
<1>3. CASE Commit
  <2>1. CASE Intent = {}
    BY <1>3, <2>1, CaptureKept DEF Commit
  <2>2. CASE Intent # {} /\ suspended
    <3>1. published' = [published EXCEPT !.hasPending = pending # << >> \/ queue # << >>]
          /\ queue' = queue /\ pending' = pending /\ authority' = authority
      BY <1>3, <2>2 DEF Commit
    <3> QED BY <3>1, CaptureMarked
  <2>3. CASE Intent # {} /\ ~suspended
    <3>1. published' = [published EXCEPT !.hasPending = TRUE] /\ authority' = authority
      BY <1>3, <2>3 DEF Commit, Reserve
    <3> QED BY <3>1, CaptureMarked
  <2> QED BY <2>1, <2>2, <2>3
<1>4. CASE Dispatch
  <2>1. CASE Projects(Head(queue))
    BY <1>4, <2>1, Captured DEF Dispatch, Begin
  <2>2. CASE ~Projects(Head(queue))
    BY <1>4, <2>2, CaptureKept DEF Dispatch
  <2> QED BY <2>1, <2>2
<1>5. CASE RefuseAdmitted
  BY <1>5, Captured DEF RefuseAdmitted, Begin
<1>6. CASE FailPending
  <2>1. CASE Len(pending') < Len(pending)
    BY <1>6, <2>1, Captured DEF FailPending, Begin
  <2>2. CASE ~(Len(pending') < Len(pending))
    BY <1>6, <2>2, CaptureKept DEF FailPending
  <2> QED BY <2>1, <2>2
<1>7. CASE FinishAdmission
  BY <1>7, Captured DEF FinishAdmission
<1>8. ASSUME NEW i \in 1..Len(pending), ReceiveAccepted(i) PROVE CaptureInv'
  BY <1>8, Captured DEF ReceiveAccepted, Begin
<1>9. ASSUME NEW i \in 1..Len(pending), ReceiveRejected(i) PROVE CaptureInv'
  BY <1>9, Captured DEF ReceiveRejected, Begin
<1>10. ASSUME NEW after \in Drafts, ReceiveRemote(Changes(after)) PROVE CaptureInv'
  BY <1>10, Captured DEF ReceiveRemote, Begin
<1>11. ASSUME NEW after \in Drafts, ReplaceAcknowledgedSnapshot(Changes(after)) PROVE CaptureInv'
  BY <1>11, Captured DEF ReplaceAcknowledgedSnapshot, BeginReplacement
<1>12. CASE Suspend
  BY <1>12, Captured DEF Suspend, Begin
<1>13. CASE Resume
  BY <1>13, CaptureKept DEF Resume
<1>14. CASE UNCHANGED vars
  BY <1>14, CaptureKept DEF vars
<1> QED
  BY <1>1, <1>2, <1>3, <1>4, <1>5, <1>6, <1>7, <1>8, <1>9, <1>10, <1>11, <1>12, <1>13, <1>14
     DEF Next, UI, Goroutine, Network

(* HasUnacknowledgedOperations and the snapshot read beside it, both without *)
(* the executor's mutex: no edit on its way is ever missed, and the snapshot *)
(* is the acknowledged table.                                                *)
THEOREM CaptureIsCurrentTheorem == Spec => []CaptureIsCurrent
<1>1. CaptureInv => CaptureIsCurrent
  BY DEF CaptureInv
<1> QED BY CaptureInit, CaptureStep, <1>1, PTL DEF Spec

-----------------------------------------------------------------------------------
(* Where the tiles on the screen come from: a redraw, which is taken only     *)
(* with no edit in the queue, or a gesture, which is then open.               *)
LEMMA DmmMoves ==
    ASSUME [Next]_vars
    PROVE  dmm' = dmm \/ queue = <<>> \/ gesture' # Nothing
<1> USE DEF executor, editor
<1>1. CASE Frame
  BY <1>1 DEF Frame, Takes
<1>2. ASSUME NEW after \in Drafts, OpenGesture(after) PROVE gesture' # Nothing
  <2>1. DOMAIN after # {}
    <3>1. PICK C \in (SUBSET Coords) \ {{}} : after \in [C -> TileStates]
      BY <1>2 DEF Drafts
    <3> QED BY <3>1
  <2>2. DOMAIN gesture' = DOMAIN after
    BY <1>2 DEF OpenGesture
  <2> QED BY <2>1, <2>2 DEF Nothing
<1>3. CASE Commit
  <2>1. CASE dmm' = dmm
    BY <2>1
  <2>2. CASE dmm' # dmm
    <3>1. Process(Accumulated(authority, owners, pending, {}, Touched(Intent), TRUE))
      BY <1>3, <2>2 DEF Commit
    <3> QED BY <3>1, <2>2 DEF Process, Takes
  <2> QED BY <2>1, <2>2
<1> QED
  BY <1>1, <1>2, <1>3
     DEF Next, UI, Goroutine, Network, vars, Dispatch, RefuseAdmitted, FailPending, FinishAdmission,
         ReceiveAccepted, ReceiveRejected, ReceiveRemote, ReplaceAcknowledgedSnapshot, Suspend, Resume

(* TakePresentationUpdate waits for the queue, so that whatever goroutine     *)
(* publishes a redraw, no tile of an edit that waits for its turn changes     *)
(* unless the user is changing tiles.                                         *)
THEOREM EditStaysOnScreenTheorem == Spec => EditStaysOnScreen
<1>1. ASSUME [Next]_vars, NEW i \in 1..Len(queue), NEW x \in queue[i].changes, gesture' = Nothing
      PROVE  dmm'[x.coord] = dmm[x.coord]
  <2>1. queue # <<>>
    BY <1>1
  <2> QED BY <1>1, <2>1, DmmMoves
<1>2. ASSUME [Next]_vars
      PROVE  [\A i \in 1..Len(queue) : \A x \in queue[i].changes :
                (queue[i].phase = "queued" /\ gesture' = Nothing) => dmm'[x.coord] = dmm[x.coord]]_vars
  BY <1>1, <1>2
<1> QED BY <1>2, PTL DEF Spec, EditStaysOnScreen

-----------------------------------------------------------------------------------
(* The projection.  What a reader of an overlay sees is all that an edit      *)
(* looks at and all that it changes, so the overlay, the overlay with the old *)
(* values under a new authority, and the copy of the whole snapshot are the   *)
(* same fold of the edits over what is seen at first.                         *)

Sees(overlay, tiles, index) == [tile |-> TileView(overlay, tiles), owner |-> OwnerView(overlay, index)]

Edited(seen, changes) ==
    IF Fits(seen.tile, seen.owner, changes)
      THEN [tile  |-> [c \in Coords |-> IF c \in Touched(changes) THEN After(changes, c) ELSE seen.tile[c]],
            owner |-> [s \in StableIDs |-> IF s \in DOMAIN MovedOwners(changes) THEN MovedOwners(changes)[s]
                                           ELSE seen.owner[s]]]
      ELSE seen

Run(seen, ops, n, f) ==
    f = [i \in 0..n |-> IF i = 0 THEN seen ELSE Edited(f[i - 1], ops[i].changes)]

Folded(seen, ops) == (CHOOSE f : Run(seen, ops, Len(ops), f))[Len(ops)]

LEMMA OverlaySees ==
    ASSUME NEW overlay, NEW tiles, NEW index, NEW changes
    PROVE  Sees(OverlayApply(overlay, tiles, index, changes), tiles, index)
             = Edited(Sees(overlay, tiles, index), changes)
<1> DEFINE seen == Sees(overlay, tiles, index)
           next == OverlayApply(overlay, tiles, index, changes)
<1>1. seen.tile = TileView(overlay, tiles) /\ seen.owner = OwnerView(overlay, index)
  BY DEF Sees
<1>2. CASE ~ Fits(TileView(overlay, tiles), OwnerView(overlay, index), changes)
  <2>1. next = overlay
    BY <1>2 DEF OverlayApply
  <2> QED BY <2>1, <1>1, <1>2 DEF Edited
<1>3. CASE Fits(TileView(overlay, tiles), OwnerView(overlay, index), changes)
  <2>1. /\ next.tiles = Over(AfterTiles(changes), overlay.tiles)
        /\ next.owners = Over(MovedOwners(changes), overlay.owners)
    BY <1>3 DEF OverlayApply
  <2>2. TileView(next, tiles)
          = [c \in Coords |-> IF c \in Touched(changes) THEN After(changes, c) ELSE seen.tile[c]]
    <3>1. ASSUME NEW c \in Coords
          PROVE  TileView(next, tiles)[c]
                   = IF c \in Touched(changes) THEN After(changes, c) ELSE seen.tile[c]
      <4>1. DOMAIN AfterTiles(changes) = Touched(changes)
        BY DEF AfterTiles
      <4>2. c \in Touched(changes) => AfterTiles(changes)[c] = After(changes, c)
        BY DEF AfterTiles
      <4> QED BY <4>1, <4>2, <2>1, <1>1 DEF TileView, Over
    <3> HIDE DEF next, seen
    <3> QED BY <3>1 DEF TileView
  <2>3. OwnerView(next, index)
          = [s \in StableIDs |-> IF s \in DOMAIN MovedOwners(changes) THEN MovedOwners(changes)[s]
                                 ELSE seen.owner[s]]
    <3>1. ASSUME NEW s \in StableIDs
          PROVE  OwnerView(next, index)[s]
                   = IF s \in DOMAIN MovedOwners(changes) THEN MovedOwners(changes)[s] ELSE seen.owner[s]
      BY <2>1, <1>1 DEF OwnerView, Over
    <3> HIDE DEF next, seen
    <3> QED BY <3>1 DEF OwnerView
  <2> QED BY <2>2, <2>3, <1>1, <1>3 DEF Edited, Sees
<1> QED BY <1>2, <1>3

(* The maintained index loses and gains what the overlay buries and gives. *)
LEMMA OwnersMove ==
    ASSUME NEW index, NEW changes
    PROVE  OwnerView(NoOverlay, UpdateIdentityOwners(index, changes))
             = [s \in StableIDs |-> IF s \in DOMAIN MovedOwners(changes) THEN MovedOwners(changes)[s]
                                    ELSE OwnerView(NoOverlay, index)[s]]
<1> DEFINE removed == UNION {IDs(x.before) : x \in changes}
           added == UNION {IDs(x.after) : x \in changes}
           next == UpdateIdentityOwners(index, changes)
<1>1. DOMAIN next = (DOMAIN index \ removed) \cup added
  BY DEF UpdateIdentityOwners
<1>2. DOMAIN MovedOwners(changes) = removed \cup added
  <2>1. UNION {IDs(x.before) \cup IDs(x.after) : x \in changes} = removed \cup added
    OBVIOUS
  <2> QED BY <2>1 DEF MovedOwners
<1>3. ASSUME NEW s \in added
      PROVE  MovedOwners(changes)[s] = next[s]
  <2>1. \E x \in changes : s \in IDs(x.after)
    OBVIOUS
  <2>2. next[s] = (CHOOSE x \in changes : s \in IDs(x.after)).coord
    BY <1>1 DEF UpdateIdentityOwners
  <2>3. MovedOwners(changes)[s] = (CHOOSE x \in changes : s \in IDs(x.after)).coord
    BY <1>2, <2>1 DEF MovedOwners
  <2> QED BY <2>2, <2>3
<1>4. ASSUME NEW s \in removed \ added
      PROVE  MovedOwners(changes)[s] = None
  <2>1. ~ \E x \in changes : s \in IDs(x.after)
    BY <1>4
  <2> QED BY <1>2, <2>1 DEF MovedOwners
<1>5. ASSUME NEW s \in DOMAIN next, s \notin added
      PROVE  next[s] = index[s]
  BY <1>1, <1>5 DEF UpdateIdentityOwners
<1>6. ASSUME NEW s \in StableIDs, NEW any
      PROVE  OwnerView(NoOverlay, any)[s] = IF s \in DOMAIN any THEN any[s] ELSE None
  BY DEF OwnerView, NoOverlay, Nothing
<1>7. ASSUME NEW s \in StableIDs
      PROVE  OwnerView(NoOverlay, next)[s]
               = IF s \in DOMAIN MovedOwners(changes) THEN MovedOwners(changes)[s]
                 ELSE OwnerView(NoOverlay, index)[s]
  <2> HIDE DEF removed, added, next
  <2>1. CASE s \in added
    BY <2>1, <1>1, <1>2, <1>3, <1>6
  <2>2. CASE s \in removed \ added
    BY <2>2, <1>1, <1>2, <1>4, <1>6
  <2>3. CASE s \notin removed \cup added
    BY <2>3, <1>1, <1>2, <1>5, <1>6
  <2> QED BY <2>1, <2>2, <2>3
<1> HIDE DEF next
<1> QED BY <1>7 DEF OwnerView, next

LEMMA TilesMove ==
    ASSUME NEW tiles, NEW changes
    PROVE  TileView(NoOverlay, Install(tiles, changes))
             = [c \in Coords |-> IF c \in Touched(changes) THEN After(changes, c)
                                 ELSE TileView(NoOverlay, tiles)[c]]
<1>1. ASSUME NEW c \in Coords, NEW any
      PROVE  TileView(NoOverlay, any)[c] = TileOf(any, c)
  BY DEF TileView, NoOverlay, Nothing
<1>2. ASSUME NEW c \in Coords
      PROVE  TileOf(Install(tiles, changes), c)
               = IF c \in Touched(changes) THEN After(changes, c) ELSE TileOf(tiles, c)
  BY DEF TileOf, Install
<1>3. ASSUME NEW c \in Coords
      PROVE  TileView(NoOverlay, Install(tiles, changes))[c]
               = IF c \in Touched(changes) THEN After(changes, c) ELSE TileView(NoOverlay, tiles)[c]
  BY <1>1, <1>2
<1> QED BY <1>3 DEF TileView

LEMMA IndexSees ==
    ASSUME NEW now, NEW changes
    PROVE  Sees(NoOverlay, IndexApply(now, changes).tiles, IndexApply(now, changes).owners)
             = Edited(Sees(NoOverlay, now.tiles, now.owners), changes)
<1>1. /\ Sees(NoOverlay, now.tiles, now.owners).tile = TileView(NoOverlay, now.tiles)
      /\ Sees(NoOverlay, now.tiles, now.owners).owner = OwnerView(NoOverlay, now.owners)
  BY DEF Sees
<1>2. CASE ~ Fits(TileView(NoOverlay, now.tiles), OwnerView(NoOverlay, now.owners), changes)
  BY <1>1, <1>2 DEF IndexApply, Edited
<1>3. CASE Fits(TileView(NoOverlay, now.tiles), OwnerView(NoOverlay, now.owners), changes)
  <2>1. /\ IndexApply(now, changes).tiles = Install(now.tiles, changes)
        /\ IndexApply(now, changes).owners = UpdateIdentityOwners(now.owners, changes)
    BY <1>3 DEF IndexApply
  <2> QED BY <2>1, <1>1, <1>3, OwnersMove, TilesMove DEF Edited, Sees
<1> QED BY <1>2, <1>3

LEMMA RunExists ==
    ASSUME NEW seen, NEW ops, NEW n \in Nat
    PROVE  \E f : Run(seen, ops, n, f)
<1> DEFINE S == {k \in Nat : \E f : Run(seen, ops, k, f)}
<1>1. 0 \in S
  <2>1. Run(seen, ops, 0, [i \in 0..0 |-> seen])
    BY DEF Run
  <2> QED BY <2>1
<1>2. ASSUME NEW k \in Nat, k \in S
      PROVE  k + 1 \in S
  <2>1. PICK f : Run(seen, ops, k, f)
    BY <1>2
  <2> DEFINE g == [i \in 0..(k + 1) |-> IF i <= k THEN f[i] ELSE Edited(f[k], ops[k + 1].changes)]
  <2>2. ASSUME NEW i \in 0..(k + 1)
        PROVE  g[i] = IF i = 0 THEN seen ELSE Edited(g[i - 1], ops[i].changes)
    <3>1. CASE i <= k
      BY <3>1, <2>1 DEF Run
    <3>2. CASE i = k + 1
      BY <3>2
    <3> QED BY <3>1, <3>2
  <2>3. Run(seen, ops, k + 1, g)
    BY <2>2 DEF Run
  <2> QED BY <2>3
<1> HIDE DEF S
<1>3. n \in S
  BY <1>1, <1>2, Induction
<1> QED BY <1>3 DEF S

(* Two runs agree as far as their edits do. *)
LEMMA RunsAgree ==
    ASSUME NEW seen, NEW ops, NEW others, NEW m \in Nat, NEW n \in Nat, n <= m,
           NEW f, Run(seen, ops, m, f), NEW g, Run(seen, others, n, g),
           \A i \in 1..n : ops[i].changes = others[i].changes
    PROVE  \A i \in 0..n : f[i] = g[i]
<1> DEFINE S == {k \in Nat : k <= n => f[k] = g[k]}
<1>1. 0 \in S
  BY DEF Run
<1>2. ASSUME NEW k \in Nat, k \in S
      PROVE  k + 1 \in S
  <2>1. CASE k + 1 <= n
    <3>1. f[k + 1] = Edited(f[k], ops[k + 1].changes)
      BY <2>1 DEF Run
    <3>2. g[k + 1] = Edited(g[k], others[k + 1].changes)
      BY <2>1 DEF Run
    <3>3. f[k] = g[k] /\ ops[k + 1].changes = others[k + 1].changes
      BY <1>2, <2>1
    <3> QED BY <3>1, <3>2, <3>3
  <2>2. CASE ~ (k + 1 <= n)
    BY <2>2
  <2> QED BY <2>1, <2>2
<1> HIDE DEF S
<1>3. \A i \in Nat : i \in S
  BY <1>1, <1>2, Induction
<1> QED BY <1>3 DEF S

LEMMA FoldedRuns ==
    ASSUME NEW seen, NEW ops, Len(ops) \in Nat
    PROVE  \E f : Run(seen, ops, Len(ops), f) /\ Folded(seen, ops) = f[Len(ops)]
<1>1. Run(seen, ops, Len(ops), CHOOSE f : Run(seen, ops, Len(ops), f))
  BY RunExists
<1> QED BY <1>1 DEF Folded

(* What only the run says, the fold says as well. *)
LEMMA FoldedIs ==
    ASSUME NEW seen, NEW ops, Len(ops) \in Nat, NEW f, Run(seen, ops, Len(ops), f)
    PROVE  Folded(seen, ops) = f[Len(ops)]
<1>1. PICK g : Run(seen, ops, Len(ops), g) /\ Folded(seen, ops) = g[Len(ops)]
  BY FoldedRuns
<1>2. Len(ops) <= Len(ops) /\ \A i \in 1..Len(ops) : ops[i].changes = ops[i].changes
  OBVIOUS
<1>3. \A i \in 0..Len(ops) : f[i] = g[i]
  BY <1>1, <1>2, RunsAgree
<1> QED BY <1>1, <1>3

LEMMA FoldedNothing ==
    ASSUME NEW seen
    PROVE  Folded(seen, <<>>) = seen
<1>1. Len(<<>>) = 0
  OBVIOUS
<1>2. PICK f : Run(seen, <<>>, Len(<<>>), f) /\ Folded(seen, <<>>) = f[Len(<<>>)]
  BY <1>1, FoldedRuns
<1> QED BY <1>1, <1>2 DEF Run

(* One more edit is applied to what is seen with the others. *)
LEMMA FoldedAppend ==
    ASSUME NEW seen, NEW ops, Len(ops) \in Nat, NEW more, Len(more) = Len(ops) + 1,
           \A i \in 1..Len(ops) : more[i] = ops[i]
    PROVE  Folded(seen, more) = Edited(Folded(seen, ops), more[Len(more)].changes)
<1>1. PICK f : Run(seen, more, Len(more), f) /\ Folded(seen, more) = f[Len(more)]
  BY FoldedRuns
<1>2. PICK g : Run(seen, ops, Len(ops), g) /\ Folded(seen, ops) = g[Len(ops)]
  BY FoldedRuns
<1>3. \A i \in 0..Len(ops) : f[i] = g[i]
  <2>1. /\ Len(more) \in Nat /\ Len(ops) <= Len(more)
        /\ \A i \in 1..Len(ops) : more[i].changes = ops[i].changes
    OBVIOUS
  <2>2. PICK m, n : m = Len(more) /\ n = Len(ops)
    OBVIOUS
  <2>3. /\ m \in Nat /\ n \in Nat /\ n <= m
        /\ Run(seen, more, m, f) /\ Run(seen, ops, n, g)
        /\ \A i \in 1..n : more[i].changes = ops[i].changes
    BY <2>1, <2>2, <1>1, <1>2
  <2>4. \A i \in 0..n : f[i] = g[i]
    BY ONLY <2>3, RunsAgree
  <2> QED BY <2>2, <2>4
<1>4. f[Len(more)] = Edited(f[Len(ops)], more[Len(more)].changes)
  BY <1>1 DEF Run
<1> QED BY <1>1, <1>2, <1>3, <1>4

(* An edit that touches no tile shows none. *)
LEMMA FoldedUntouched ==
    ASSUME NEW seen, NEW ops, Len(ops) \in Nat, NEW c \in Coords, c \notin TouchedBy(ops)
    PROVE  Folded(seen, ops).tile[c] = seen.tile[c]
<1>1. PICK f : Run(seen, ops, Len(ops), f) /\ Folded(seen, ops) = f[Len(ops)]
  BY FoldedRuns
<1> DEFINE S == {k \in Nat : k <= Len(ops) => f[k].tile[c] = seen.tile[c]}
<1>2. 0 \in S
  BY <1>1 DEF Run
<1>3. ASSUME NEW k \in Nat, k \in S
      PROVE  k + 1 \in S
  <2>1. CASE k + 1 <= Len(ops)
    <3>1. f[k + 1] = Edited(f[k], ops[k + 1].changes)
      BY <2>1, <1>1 DEF Run
    <3>2. c \notin Touched(ops[k + 1].changes)
      BY <2>1 DEF TouchedBy
    <3>3. Edited(f[k], ops[k + 1].changes).tile[c] = f[k].tile[c]
      BY <3>2 DEF Edited
    <3> QED BY <3>1, <3>3, <1>3, <2>1
  <2>2. CASE ~ (k + 1 <= Len(ops))
    BY <2>2
  <2> QED BY <2>1, <2>2
<1> HIDE DEF S
<1>4. Len(ops) \in S
  BY <1>2, <1>3, Induction
<1> QED BY <1>1, <1>4 DEF S

(* The sparse overlay. *)
OverlayRun(start, tiles, index, ops, n, f) ==
    f = [i \in 0..n |-> IF i = 0 THEN start ELSE OverlayApply(f[i - 1], tiles, index, ops[i].changes)]

LEMMA OverlayRunExists ==
    ASSUME NEW start, NEW tiles, NEW index, NEW ops, NEW n \in Nat
    PROVE  \E f : OverlayRun(start, tiles, index, ops, n, f)
<1> DEFINE S == {k \in Nat : \E f : OverlayRun(start, tiles, index, ops, k, f)}
<1>1. 0 \in S
  <2>1. OverlayRun(start, tiles, index, ops, 0, [i \in 0..0 |-> start])
    BY DEF OverlayRun
  <2> QED BY <2>1
<1>2. ASSUME NEW k \in Nat, k \in S
      PROVE  k + 1 \in S
  <2>1. PICK f : OverlayRun(start, tiles, index, ops, k, f)
    BY <1>2
  <2> DEFINE g == [i \in 0..(k + 1) |-> IF i <= k THEN f[i]
                                        ELSE OverlayApply(f[k], tiles, index, ops[k + 1].changes)]
  <2>2. ASSUME NEW i \in 0..(k + 1)
        PROVE  g[i] = IF i = 0 THEN start ELSE OverlayApply(g[i - 1], tiles, index, ops[i].changes)
    <3>1. CASE i <= k
      BY <3>1, <2>1 DEF OverlayRun
    <3>2. CASE i = k + 1
      BY <3>2
    <3> QED BY <3>1, <3>2
  <2>3. OverlayRun(start, tiles, index, ops, k + 1, g)
    BY <2>2 DEF OverlayRun
  <2> QED BY <2>3
<1> HIDE DEF S
<1>3. n \in S
  BY <1>1, <1>2, Induction
<1> QED BY <1>3 DEF S

(* What is seen through the overlay is the fold of the edits. *)
LEMMA OverlayFolds ==
    ASSUME NEW start, NEW tiles, NEW index, NEW ops, Len(ops) \in Nat
    PROVE  Sees(Overlay(start, tiles, index, ops), tiles, index)
             = Folded(Sees(start, tiles, index), ops)
<1> DEFINE A == CHOOSE f : f = [i \in 0..Len(ops) |->
                    IF i = 0 THEN start ELSE OverlayApply(f[i - 1], tiles, index, ops[i].changes)]
           seen == Sees(start, tiles, index)
           g == [i \in 0..Len(ops) |-> Sees(A[i], tiles, index)]
<1>1. Overlay(start, tiles, index, ops) = A[Len(ops)]
  BY DEF Overlay
<1>2. OverlayRun(start, tiles, index, ops, Len(ops), A)
  BY OverlayRunExists DEF OverlayRun
<1> HIDE DEF A
<1>3. ASSUME NEW i \in 0..Len(ops)
      PROVE  g[i] = IF i = 0 THEN seen ELSE Edited(g[i - 1], ops[i].changes)
  <2>1. CASE i = 0
    BY <2>1, <1>2 DEF OverlayRun
  <2>2. CASE i # 0
    <3>1. i - 1 \in 0..Len(ops) /\ A[i] = OverlayApply(A[i - 1], tiles, index, ops[i].changes)
      BY <2>2, <1>2 DEF OverlayRun
    <3>2. g[i] = Sees(A[i], tiles, index) /\ g[i - 1] = Sees(A[i - 1], tiles, index)
      BY <3>1
    <3> QED BY <3>1, <3>2, <2>2, OverlaySees
  <2> QED BY <2>1, <2>2
<1>4. Run(seen, ops, Len(ops), g)
  BY <1>3 DEF Run
<1>5. Folded(seen, ops) = g[Len(ops)]
  <2> HIDE DEF g, seen
  <2> QED BY <1>4, FoldedIs
<1> QED BY <1>1, <1>5

(* The copy of the snapshot. *)
VisibleRun(tiles, ops, n, f) ==
    f = [i \in 0..n |-> IF i = 0 THEN [tiles |-> tiles, owners |-> IndexState(tiles)]
                        ELSE IndexApply(f[i - 1], ops[i].changes)]

LEMMA VisibleRunExists ==
    ASSUME NEW tiles, NEW ops, NEW n \in Nat
    PROVE  \E f : VisibleRun(tiles, ops, n, f)
<1> DEFINE S == {k \in Nat : \E f : VisibleRun(tiles, ops, k, f)}
           first == [tiles |-> tiles, owners |-> IndexState(tiles)]
<1>1. 0 \in S
  <2>1. VisibleRun(tiles, ops, 0, [i \in 0..0 |-> first])
    BY DEF VisibleRun
  <2> QED BY <2>1
<1>2. ASSUME NEW k \in Nat, k \in S
      PROVE  k + 1 \in S
  <2>1. PICK f : VisibleRun(tiles, ops, k, f)
    BY <1>2
  <2> DEFINE g == [i \in 0..(k + 1) |-> IF i <= k THEN f[i] ELSE IndexApply(f[k], ops[k + 1].changes)]
  <2>2. ASSUME NEW i \in 0..(k + 1)
        PROVE  g[i] = IF i = 0 THEN first ELSE IndexApply(g[i - 1], ops[i].changes)
    <3>1. CASE i <= k
      BY <3>1, <2>1 DEF VisibleRun
    <3>2. CASE i = k + 1
      BY <3>2
    <3> QED BY <3>1, <3>2
  <2>3. VisibleRun(tiles, ops, k + 1, g)
    BY <2>2 DEF VisibleRun
  <2> QED BY <2>3
<1> HIDE DEF S
<1>3. n \in S
  BY <1>1, <1>2, Induction
<1> QED BY <1>3 DEF S

LEMMA VisibleFolds ==
    ASSUME NEW tiles, NEW ops, Len(ops) \in Nat
    PROVE  Visible(tiles, ops) = Folded(Sees(NoOverlay, tiles, IndexState(tiles)), ops).tile
<1> DEFINE A == CHOOSE f : f = [i \in 0..Len(ops) |->
                    IF i = 0 THEN [tiles |-> tiles, owners |-> IndexState(tiles)]
                             ELSE IndexApply(f[i - 1], ops[i].changes)]
           seen == Sees(NoOverlay, tiles, IndexState(tiles))
           g == [i \in 0..Len(ops) |-> Sees(NoOverlay, A[i].tiles, A[i].owners)]
<1>1. Visible(tiles, ops) = TileView(NoOverlay, A[Len(ops)].tiles)
  BY DEF Visible
<1>2. VisibleRun(tiles, ops, Len(ops), A)
  <2>1. \E f : VisibleRun(tiles, ops, Len(ops), f)
    BY VisibleRunExists
  <2>2. A = CHOOSE f : VisibleRun(tiles, ops, Len(ops), f)
    BY DEF VisibleRun
  <2> QED BY <2>1, <2>2
<1> HIDE DEF A
<1>3. ASSUME NEW i \in 0..Len(ops)
      PROVE  g[i] = IF i = 0 THEN seen ELSE Edited(g[i - 1], ops[i].changes)
  <2>1. CASE i = 0
    <3>1. A[i] = [tiles |-> tiles, owners |-> IndexState(tiles)]
      BY <2>1, <1>2 DEF VisibleRun
    <3> QED BY <3>1, <2>1
  <2>2. CASE i # 0
    <3>1. i - 1 \in 0..Len(ops) /\ A[i] = IndexApply(A[i - 1], ops[i].changes)
      BY <2>2, <1>2 DEF VisibleRun
    <3>2. /\ g[i] = Sees(NoOverlay, A[i].tiles, A[i].owners)
          /\ g[i - 1] = Sees(NoOverlay, A[i - 1].tiles, A[i - 1].owners)
      BY <3>1
    <3> QED BY <3>1, <3>2, <2>2, IndexSees
  <2> QED BY <2>1, <2>2
<1>4. Run(seen, ops, Len(ops), g)
  BY <1>3 DEF Run
<1>5. Folded(seen, ops) = g[Len(ops)]
  <2> HIDE DEF g, seen
  <2> QED BY <1>4, FoldedIs
<1>6. g[Len(ops)].tile = TileView(NoOverlay, A[Len(ops)].tiles)
  BY DEF Sees
<1> QED BY <1>1, <1>5, <1>6

(* So a sparse overlay over the index of the table shows what the whole      *)
(* snapshot with the same edits shows.                                       *)
LEMMA OverlayShows ==
    ASSUME NEW tiles, NEW index, index = IndexState(tiles), NEW ops, Len(ops) \in Nat
    PROVE  TileView(Overlay(NoOverlay, tiles, index, ops), tiles) = Visible(tiles, ops)
<1>1. Sees(Overlay(NoOverlay, tiles, index, ops), tiles, index).tile
        = Folded(Sees(NoOverlay, tiles, index), ops).tile
  BY OverlayFolds
<1> QED BY <1>1, VisibleFolds DEF Sees

-----------------------------------------------------------------------------------
(* What the shapes of the state are, and the maintained owner index with the  *)
(* table it is maintained with.                                               *)
Change == [coord : Coords, before : Seq(StableIDs), after : Seq(StableIDs)]

Table(tiles) == DOMAIN tiles \subseteq Coords /\ tiles \in [DOMAIN tiles -> Seq(StableIDs)]

IsSequence(s) == Len(s) \in Nat /\ s = [i \in 1..Len(s) |-> s[i]]

(* An admitted edit changes something at each tile it names. *)
Admitted(e) ==
    /\ e = [id |-> e.id, changes |-> e.changes, base |-> e.base, phase |-> e.phase,
            interrupted |-> e.interrupted]
    /\ e.changes \subseteq Change
    /\ \A x \in e.changes : x.before # x.after

AuthoritySound ==
    /\ Table(authority)
    /\ ValidSnapshot(authority)
    /\ owners = IndexState(authority)

(* Edits that are projected. *)
SoundEdits(ops) == IsSequence(ops) /\ \A i \in 1..Len(ops) : ops[i].changes \subseteq Change

EditsSound ==
    /\ SoundEdits(pending)
    /\ IsSequence(queue) /\ \A i \in 1..Len(queue) : Admitted(queue[i])

SoundUpdate(update) ==
    /\ update = [authoritative |-> update.authoritative, display |-> update.display,
                 replacement |-> update.replacement, ready |-> update.ready]
    /\ Table(update.authoritative) /\ Table(update.display)
    /\ update.replacement = None \/ Table(update.replacement)
    /\ update.ready \in BOOLEAN

ScreenSound ==
    /\ dmm \in [Coords -> Seq(StableIDs)]
    /\ Table(gesture)
    /\ DOMAIN view = {"tiles", "revision", "fault"}
    /\ view.fault \in BOOLEAN

ShapeInv == AuthoritySound /\ EditsSound /\ SoundUpdate(pub) /\ ScreenSound

LEMMA TouchedCoords ==
    ASSUME NEW changes, changes \subseteq Change
    PROVE  Touched(changes) \subseteq Coords
BY DEF Touched, Change

LEMMA TouchedByCoords ==
    ASSUME NEW ops, \A i \in 1..Len(ops) : ops[i].changes \subseteq Change
    PROVE  TouchedBy(ops) \subseteq Coords
<1>1. ASSUME NEW c \in TouchedBy(ops)
      PROVE  c \in Coords
  <2>1. PICK i \in 1..Len(ops) : c \in Touched(ops[i].changes)
    BY DEF TouchedBy
  <2>2. ops[i].changes \subseteq Change
    OBVIOUS
  <2> QED BY <2>1, <2>2, TouchedCoords
<1> QED BY <1>1

LEMMA AfterIs ==
    ASSUME NEW changes, NEW x \in changes, Distinct(changes)
    PROVE  After(changes, x.coord) = x.after
BY DEF After, Distinct

LEMMA AfterTyped ==
    ASSUME NEW changes, changes \subseteq Change, NEW c \in Touched(changes)
    PROVE  After(changes, c) \in Seq(StableIDs)
<1>1. \E x \in changes : x.coord = c
  BY DEF Touched
<1>2. PICK x : x = (CHOOSE y \in changes : y.coord = c) /\ x \in changes
  BY <1>1
<1>3. After(changes, c) = x.after
  BY <1>2 DEF After
<1> QED BY <1>2, <1>3 DEF Change

LEMMA TileTyped ==
    ASSUME NEW tiles, Table(tiles), NEW c
    PROVE  TileOf(tiles, c) \in Seq(StableIDs)
BY DEF Table, TileOf

LEMMA AfterTilesTable ==
    ASSUME NEW changes, changes \subseteq Change
    PROVE  Table(AfterTiles(changes))
<1>1. DOMAIN AfterTiles(changes) = Touched(changes)
  BY DEF AfterTiles
<1>2. \A c \in Touched(changes) : AfterTiles(changes)[c] \in Seq(StableIDs)
  BY AfterTyped DEF AfterTiles
<1>3. AfterTiles(changes) = [c \in Touched(changes) |-> AfterTiles(changes)[c]]
  BY DEF AfterTiles
<1> QED BY <1>1, <1>2, <1>3, TouchedCoords DEF Table

LEMMA OverTable ==
    ASSUME NEW f, NEW g, Table(f), Table(g)
    PROVE  Table(Over(f, g))
<1>1. DOMAIN Over(f, g) = DOMAIN f \cup DOMAIN g
  BY DEF Over
<1>2. \A x \in DOMAIN Over(f, g) : Over(f, g)[x] \in Seq(StableIDs)
  BY <1>1 DEF Over, Table
<1>3. Over(f, g) = [x \in DOMAIN Over(f, g) |-> Over(f, g)[x]]
  BY DEF Over
<1> QED BY <1>1, <1>2, <1>3 DEF Table

LEMMA InstallTable ==
    ASSUME NEW tiles, Table(tiles), NEW changes, changes \subseteq Change
    PROVE  Table(Install(tiles, changes))
<1>1. DOMAIN Install(tiles, changes) = DOMAIN tiles \cup Touched(changes)
  BY DEF Install
<1>2. \A c \in DOMAIN Install(tiles, changes) : Install(tiles, changes)[c] \in Seq(StableIDs)
  BY <1>1, AfterTyped DEF Install, Table
<1>3. Install(tiles, changes) = [c \in DOMAIN Install(tiles, changes) |-> Install(tiles, changes)[c]]
  BY DEF Install
<1> QED BY <1>1, <1>2, <1>3, TouchedCoords DEF Table

LEMMA NothingTable == Table(Nothing)
BY DEF Table, Nothing

LEMMA TotalTyped ==
    ASSUME NEW tiles, Table(tiles)
    PROVE  /\ Total(tiles) \in [Coords -> Seq(StableIDs)]
           /\ \A c \in Coords : Total(tiles)[c] = TileOf(tiles, c)
BY TileTyped DEF Total, TileView, NoOverlay, Nothing

(* What is seen stays well-formed. *)
LEMMA FoldedTyped ==
    ASSUME NEW seen, NEW ops, Len(ops) \in Nat, seen.tile \in [Coords -> Seq(StableIDs)],
           \A i \in 1..Len(ops) : ops[i].changes \subseteq Change
    PROVE  Folded(seen, ops).tile \in [Coords -> Seq(StableIDs)]
<1>1. PICK f : Run(seen, ops, Len(ops), f) /\ Folded(seen, ops) = f[Len(ops)]
  BY FoldedRuns
<1> DEFINE S == {k \in Nat : k <= Len(ops) => f[k].tile \in [Coords -> Seq(StableIDs)]}
<1>2. 0 \in S
  BY <1>1 DEF Run
<1>3. ASSUME NEW k \in Nat, k \in S
      PROVE  k + 1 \in S
  <2>1. CASE k + 1 <= Len(ops)
    <3>1. f[k + 1] = Edited(f[k], ops[k + 1].changes)
      BY <2>1, <1>1 DEF Run
    <3>2. ops[k + 1].changes \subseteq Change
      BY <2>1
    <3>3. f[k].tile \in [Coords -> Seq(StableIDs)]
      BY <1>3, <2>1
    <3>4. Edited(f[k], ops[k + 1].changes).tile \in [Coords -> Seq(StableIDs)]
      <4>1. [c \in Coords |-> IF c \in Touched(ops[k + 1].changes) THEN After(ops[k + 1].changes, c)
                              ELSE f[k].tile[c]] \in [Coords -> Seq(StableIDs)]
        BY <3>2, <3>3, AfterTyped
      <4> QED BY <4>1, <3>3 DEF Edited
    <3> QED BY <3>1, <3>4
  <2>2. CASE ~ (k + 1 <= Len(ops))
    BY <2>2
  <2> QED BY <2>1, <2>2
<1> HIDE DEF S
<1>4. Len(ops) \in S
  BY <1>2, <1>3, Induction
<1> QED BY <1>1, <1>4 DEF S

LEMMA VisibleTyped ==
    ASSUME NEW tiles, Table(tiles), NEW ops, Len(ops) \in Nat,
           \A i \in 1..Len(ops) : ops[i].changes \subseteq Change
    PROVE  Visible(tiles, ops) \in [Coords -> Seq(StableIDs)]
<1> DEFINE seen == Sees(NoOverlay, tiles, IndexState(tiles))
<1>1. seen.tile = Total(tiles)
  BY DEF Sees, Total
<1>2. seen.tile \in [Coords -> Seq(StableIDs)]
  BY <1>1, TotalTyped
<1> HIDE DEF seen
<1>3. Folded(seen, ops).tile \in [Coords -> Seq(StableIDs)]
  BY <1>2, FoldedTyped
<1> QED BY <1>3, VisibleFolds DEF seen

(* What the server accepts keeps the table valid, and the index that is      *)
(* maintained, the one the new table implies.                                *)
LEMMA AuthorityStep ==
    ASSUME NEW tiles, Table(tiles), ValidSnapshot(tiles), NEW changes, changes \subseteq Change,
           Fits(Total(tiles), OwnerView(NoOverlay, IndexState(tiles)), changes)
    PROVE  /\ Table(Install(tiles, changes))
           /\ ValidSnapshot(Install(tiles, changes))
           /\ AuthorityOwners(IndexState(tiles), tiles, changes) = UpdateIdentityOwners(IndexState(tiles), changes)
           /\ UpdateIdentityOwners(IndexState(tiles), changes) = IndexState(Install(tiles, changes))
           /\ \A x \in changes : TileOf(tiles, x.coord) = x.before
<1> DEFINE index == IndexState(tiles)
           d == [tiles |-> tiles, owners |-> index]
<1>1. \A x \in changes : x.coord \in Coords /\ TileOf(tiles, x.coord) = x.before
  BY TotalTyped DEF Fits
<1>2. PlaceObjections(d, changes) = {}
  <2>1. Distinct(changes)
    BY DEF Fits
  <2> QED BY <1>1, <2>1 DEF PlaceObjections, Objection, Tile
<1>3. ASSUME NEW x \in changes, NEW s \in IDs(x.after), s \in DOMAIN index
      PROVE  index[s] \in Touched(changes)
  <2>1. s \in StableIDs
    BY DEF IDs, Change
  <2>2. OwnerView(NoOverlay, index)[s] = index[s]
    BY <2>1, <1>3 DEF OwnerView, NoOverlay, Nothing
  <2>3. index[s] \in Touched(changes) \cup {None}
    BY <2>2 DEF Fits
  <2>4. index[s] \in Coords
    BY <1>3, IndexNames DEF Table
  <2> QED BY <2>3, <2>4, EditorViewAssumption
<1>4. IdentityObjections(d, changes) = {}
  <2>1. ~ \E x \in changes : Repeats(x.after)
    BY DEF Fits
  <2>2. ~ \E x, y \in changes : x # y /\ IDs(x.after) \cap IDs(y.after) # {}
    BY DEF Fits
  <2>3. ~ \E x \in changes : \E s \in IDs(x.after) : s \in DOMAIN d.owners /\ d.owners[s] \notin Touched(changes)
    BY <1>3
  <2> QED BY <2>1, <2>2, <2>3 DEF IdentityObjections, Objection
<1>5. /\ ValidSnapshot(Install(tiles, changes))
      /\ UpdateIdentityOwners(index, changes) = IndexState(Install(tiles, changes))
  <2>1. d.tiles = tiles /\ d.owners = index
    OBVIOUS
  <2> HIDE DEF d, index
  <2>2. ValidSnapshot(d.tiles) /\ d.owners = IndexState(d.tiles)
    BY <2>1 DEF index
  <2> QED BY <2>1, <2>2, <1>2, <1>4, IdentityStep
<1>6. AuthorityOwners(index, tiles, changes) = UpdateIdentityOwners(index, changes)
  <2> DEFINE removed == UNION {IDs(x.before) : x \in changes}
             added == UNION {IDs(x.after) : x \in changes}
             given == [s \in added |-> (CHOOSE x \in changes : s \in IDs(x.after)).coord]
             left == [s \in DOMAIN index \ removed |-> index[s]]
  <2>1. UNION {IDs(TileOf(tiles, x.coord)) : x \in changes} = removed
    BY <1>1
  <2>2. AuthorityOwners(index, tiles, changes) = Over(given, left)
    BY <2>1 DEF AuthorityOwners
  <2>3. Over(given, left) = [s \in (DOMAIN index \ removed) \cup added |->
                               IF s \in added THEN given[s] ELSE left[s]]
    <3>1. DOMAIN given = added /\ DOMAIN left = DOMAIN index \ removed
      OBVIOUS
    <3>2. DOMAIN given \cup DOMAIN left = (DOMAIN index \ removed) \cup added
      BY <3>1
    <3> HIDE DEF given, left, added, removed
    <3> QED BY <3>1, <3>2 DEF Over
  <2>4. ASSUME NEW s \in (DOMAIN index \ removed) \cup added
        PROVE  (IF s \in added THEN given[s] ELSE left[s])
                 = IF s \in added THEN (CHOOSE x \in changes : s \in IDs(x.after)).coord ELSE index[s]
    OBVIOUS
  <2>5. UpdateIdentityOwners(index, changes)
          = [s \in (DOMAIN index \ removed) \cup added |->
               IF s \in added THEN (CHOOSE x \in changes : s \in IDs(x.after)).coord ELSE index[s]]
    BY DEF UpdateIdentityOwners
  <2> QED BY <2>2, <2>3, <2>4, <2>5
<1> QED BY <1>1, <1>5, <1>6, InstallTable

(* Sequences. *)
LEMMA SequenceIs ==
    ASSUME NEW n \in Nat, NEW s, s = [i \in 1..n |-> s[i]]
    PROVE  Len(s) = n /\ IsSequence(s)
<1> DEFINE T == {s[i] : i \in 1..n}
<1>1. s \in Seq(T) /\ Len(s) = n
  <2>1. \A i \in 1..n : s[i] \in T
    OBVIOUS
  <2> HIDE DEF T
  <2>2. [i \in 1..n |-> s[i]] \in Seq(T) /\ Len([i \in 1..n |-> s[i]]) = n
    BY <2>1
  <2> QED BY <2>2
<1> QED BY <1>1 DEF IsSequence

LEMMA SequenceForm ==
    ASSUME NEW T, NEW s \in Seq(T)
    PROVE  IsSequence(s)
<1>1. PICK n \in Nat : s \in [1..n -> T]
  OBVIOUS
<1>2. s = [i \in 1..n |-> s[i]]
  BY <1>1
<1> QED BY <1>2, SequenceIs

LEMMA SequenceOver ==
    ASSUME NEW s, IsSequence(s), NEW T, \A i \in 1..Len(s) : s[i] \in T
    PROVE  s \in Seq(T)
<1>1. [i \in 1..Len(s) |-> s[i]] \in Seq(T)
  BY DEF IsSequence
<1> QED BY <1>1 DEF IsSequence

LEMMA AppendIs ==
    ASSUME NEW s, IsSequence(s), NEW e
    PROVE  /\ IsSequence(Append(s, e))
           /\ Len(Append(s, e)) = Len(s) + 1
           /\ \A i \in 1..Len(s) : Append(s, e)[i] = s[i]
           /\ Append(s, e)[Len(s) + 1] = e
<1> DEFINE T == {s[i] : i \in 1..Len(s)} \cup {e}
<1>1. s \in Seq(T)
  <2>1. \A i \in 1..Len(s) : s[i] \in T
    OBVIOUS
  <2> HIDE DEF T
  <2> QED BY <2>1, SequenceOver
<1>2. e \in T
  OBVIOUS
<1> HIDE DEF T
<1>3. Append(s, e) \in Seq(T) /\ Len(Append(s, e)) = Len(s) + 1
  BY <1>1, <1>2
<1>4. IsSequence(Append(s, e))
  BY <1>3, SequenceForm
<1> QED BY <1>1, <1>2, <1>3, <1>4

LEMMA TailIs ==
    ASSUME NEW s, IsSequence(s), s # <<>>
    PROVE  /\ Len(s) > 0 /\ Head(s) = s[1]
           /\ IsSequence(Tail(s))
           /\ Len(Tail(s)) = Len(s) - 1
           /\ \A i \in 1..Len(Tail(s)) : Tail(s)[i] = s[i + 1]
<1> DEFINE T == {s[i] : i \in 1..Len(s)}
<1>1. s \in Seq(T)
  <2>1. \A i \in 1..Len(s) : s[i] \in T
    OBVIOUS
  <2> HIDE DEF T
  <2> QED BY <2>1, SequenceOver
<1> HIDE DEF T
<1>2. Tail(s) \in Seq(T) /\ Len(Tail(s)) = Len(s) - 1 /\ Len(s) > 0 /\ Head(s) = s[1]
  BY <1>1
<1>3. IsSequence(Tail(s))
  BY <1>2, SequenceForm
<1> QED BY <1>1, <1>2, <1>3

LEMMA EmptyIs == IsSequence(<<>>) /\ Len(<<>>) = 0
BY DEF IsSequence

LEMMA WithoutIs ==
    ASSUME IsSequence(pending), NEW id
    PROVE  /\ IsSequence(WithoutID(id))
           /\ \A i \in 1..Len(WithoutID(id)) : \E j \in 1..Len(pending) : WithoutID(id)[i] = pending[j]
           /\ Len(WithoutID(id)) = Len(pending) => WithoutID(id) = pending
           /\ Len(WithoutID(id)) <= Len(pending)
<1>1. CASE ~ \E i \in 1..Len(pending) : pending[i].id = id
  BY <1>1 DEF WithoutID, IsSequence
<1>2. CASE \E i \in 1..Len(pending) : pending[i].id = id
  <2>1. PICK at : at = (CHOOSE i \in 1..Len(pending) : pending[i].id = id) /\ at \in 1..Len(pending)
    BY <1>2
  <2> DEFINE n == Len(pending) - 1
  <2>2. n \in Nat
    BY <2>1 DEF IsSequence
  <2>3. WithoutID(id) = [i \in 1..n |-> IF i < at THEN pending[i] ELSE pending[i + 1]]
    BY <1>2, <2>1 DEF WithoutID
  <2>4. WithoutID(id) = [i \in 1..n |-> WithoutID(id)[i]]
    BY <2>3
  <2>5. Len(WithoutID(id)) = n /\ IsSequence(WithoutID(id))
    <3> HIDE DEF n
    <3> QED BY <2>2, <2>4, SequenceIs
  <2>6. ASSUME NEW i \in 1..n
        PROVE  \E j \in 1..Len(pending) : WithoutID(id)[i] = pending[j]
    <3>1. i \in 1..Len(pending) /\ i + 1 \in 1..Len(pending)
      BY DEF IsSequence
    <3> QED BY <2>3, <3>1
  <2>7. Len(pending) \in Nat
    BY DEF IsSequence
  <2>8. n # Len(pending) /\ n <= Len(pending)
    BY <2>7
  <2> HIDE DEF n
  <2> QED BY <2>5, <2>6, <2>8
<1> QED BY <1>1, <1>2

LEMMA AdvanceIs ==
    ASSUME IsSequence(queue), queue # <<>>, Admitted(Head(queue)), NEW phase, Advance(phase)
    PROVE  /\ IsSequence(queue') /\ Len(queue') = Len(queue)
           /\ 1 \in 1..Len(queue)
           /\ Admitted(queue'[1]) /\ queue'[1].changes = queue[1].changes /\ queue'[1].phase = phase
           /\ \A i \in 2..Len(queue) : queue'[i] = queue[i]
<1> DEFINE e == queue[1]
<1>1. Len(queue) \in Nat /\ 1 \in 1..Len(queue) /\ Head(queue) = e
  BY TailIs DEF IsSequence
<1>2. DOMAIN queue = 1..Len(queue)
  BY DEF IsSequence
<1>3. queue' = [queue EXCEPT ![1] = [e EXCEPT !.phase = phase]]
  BY DEF Advance
<1>4. queue' = [i \in 1..Len(queue) |-> queue'[i]]
  BY <1>2, <1>3
<1>5. Len(queue') = Len(queue) /\ IsSequence(queue')
  BY <1>1, <1>4, SequenceIs
<1>6. e = [id |-> e.id, changes |-> e.changes, base |-> e.base, phase |-> e.phase,
           interrupted |-> e.interrupted]
  BY <1>1 DEF Admitted
<1>7. PICK i, c, b, p, t : e = [id |-> i, changes |-> c, base |-> b, phase |-> p, interrupted |-> t]
  BY <1>6
<1>8. queue'[1] = [id |-> i, changes |-> c, base |-> b, phase |-> phase, interrupted |-> t]
  BY <1>1, <1>2, <1>3, <1>7
<1>9. e.changes = c /\ queue'[1].changes = c /\ queue'[1].phase = phase
  BY <1>7, <1>8
<1>10. Admitted(queue'[1])
  BY <1>8, <1>9, <1>1 DEF Admitted
<1> QED BY <1>1, <1>2, <1>3, <1>5, <1>9, <1>10

LEMMA DrainedSound ==
    /\ SoundUpdate(Drained)
    /\ Drained.replacement = None /\ ~Drained.ready
    /\ Drained.authoritative = Nothing /\ Drained.display = Nothing
BY NothingTable DEF SoundUpdate, Drained

LEMMA RedrawTable ==
    ASSUME NEW tiles, Table(tiles), NEW index, NEW previous, SoundEdits(previous), NEW next, SoundEdits(next),
           NEW changes, changes \subseteq Change, NEW explicit, explicit \subseteq Coords, NEW force
    PROVE  Table(Redraw(tiles, index, previous, next, changes, explicit, force))
<1> DEFINE before == TileView(Overlay(Previously(changes), tiles, index, previous), tiles)
           after == TileView(Overlay(NoOverlay, tiles, index, next), tiles)
           coords == Touched(changes) \cup explicit \cup TouchedBy(previous) \cup TouchedBy(next)
           D == {d \in coords : force \/ before[d] # after[d]}
           r == Redraw(tiles, index, previous, next, changes, explicit, force)
<1>1. coords \subseteq Coords
  BY TouchedCoords, TouchedByCoords DEF SoundEdits
<1>2. after \in [Coords -> Seq(StableIDs)]
  <2>1. Len(next) \in Nat
    BY DEF SoundEdits, IsSequence
  <2>2. after = Folded(Sees(NoOverlay, tiles, index), next).tile
    <3>1. after = Sees(Overlay(NoOverlay, tiles, index, next), tiles, index).tile
      BY DEF Sees
    <3> QED BY <2>1, <3>1, OverlayFolds
  <2>3. Sees(NoOverlay, tiles, index).tile \in [Coords -> Seq(StableIDs)]
    BY TotalTyped DEF Sees, Total
  <2> HIDE DEF after
  <2> QED BY <2>1, <2>2, <2>3, FoldedTyped DEF SoundEdits
<1>3. r = [c \in D |-> after[c]]
  BY DEF Redraw
<1>4. D \subseteq Coords
  BY <1>1
<1> HIDE DEF D, after, r
<1> QED BY <1>2, <1>3, <1>4 DEF Table, r

LEMMA AccumulatedSound ==
    ASSUME SoundUpdate(pub), SoundEdits(pending),
           NEW tiles, Table(tiles), NEW index, NEW next, SoundEdits(next),
           NEW changes, changes \subseteq Change, NEW explicit, explicit \subseteq Coords, NEW force
    PROVE  /\ SoundUpdate(Accumulated(tiles, index, next, changes, explicit, force))
           /\ Accumulated(tiles, index, next, changes, explicit, force).ready = TRUE
<1> DEFINE u == Accumulated(tiles, index, next, changes, explicit, force)
<1>1. /\ u.authoritative = Over(AfterTiles(changes), pub.authoritative)
      /\ u.display = Over(Redraw(tiles, index, pending, next, changes, explicit, force), pub.display)
      /\ u.replacement = (IF pub.replacement = None THEN None ELSE tiles)
      /\ u.ready = TRUE
      /\ u = [authoritative |-> u.authoritative, display |-> u.display,
              replacement |-> u.replacement, ready |-> u.ready]
  BY DEF Accumulated
<1> HIDE DEF u
<1>2. Table(u.authoritative)
  BY <1>1, AfterTilesTable, OverTable DEF SoundUpdate
<1>3. Table(u.display)
  <2>1. Table(Redraw(tiles, index, pending, next, changes, explicit, force))
    BY RedrawTable
  <2> QED BY <2>1, <1>1, OverTable DEF SoundUpdate
<1>4. u.replacement = None \/ Table(u.replacement)
  BY <1>1
<1>5. SoundUpdate(u) /\ u.ready = TRUE
  BY <1>1, <1>2, <1>3, <1>4 DEF SoundUpdate
<1> QED BY <1>5 DEF u

LEMMA InstalledIs ==
    ASSUME ScreenSound, NEW update, NEW v, v = Installed(update)
    PROVE  /\ DOMAIN v = {"tiles", "revision", "fault"}
           /\ Refuses(update) => v.tiles = view.tiles /\ v.revision = view.revision /\ v.fault = TRUE
           /\ ~Refuses(update) =>
                /\ v.tiles = (IF update.replacement = None THEN Over(update.authoritative, view.tiles)
                              ELSE Recovered(update))
                /\ v.revision = published.revision
                /\ v.fault = view.fault
<1>1. DOMAIN view = {"tiles", "revision", "fault"}
  BY DEF ScreenSound
<1>2. CASE Refuses(update)
  <2>1. v = [view EXCEPT !.fault = TRUE]
    BY <1>2 DEF Installed
  <2> QED BY <1>1, <1>2, <2>1
<1>3. CASE ~Refuses(update)
  <2>1. PICK y : y = IF update.replacement = None THEN Over(update.authoritative, view.tiles)
                     ELSE Recovered(update)
    OBVIOUS
  <2>2. v = [view EXCEPT !.revision = published.revision, !.tiles = y]
    BY <1>3, <2>1 DEF Installed
  <2> QED BY <1>1, <1>3, <2>1, <2>2
<1> QED BY <1>2, <1>3

LEMMA RedrawnTyped ==
    ASSUME ScreenSound, NEW update, SoundUpdate(update)
    PROVE  Redrawn(update) \in [Coords -> Seq(StableIDs)]
<1>1. update.replacement # None => Table(Recovered(update))
  BY OverTable DEF SoundUpdate, Recovered
<1>2. \A c \in DOMAIN update.display : update.display[c] \in Seq(StableIDs)
  BY DEF SoundUpdate, Table
<1>3. \A c \in Coords : update.replacement # None => TileOf(Recovered(update), c) \in Seq(StableIDs)
  BY <1>1, TileTyped
<1>4. \A c \in Coords : dmm[c] \in Seq(StableIDs)
  BY DEF ScreenSound
<1>5. ASSUME NEW c \in Coords
      PROVE  (IF c \in DOMAIN update.display THEN update.display[c]
              ELSE IF update.replacement = None THEN dmm[c] ELSE TileOf(Recovered(update), c)) \in Seq(StableIDs)
  BY <1>2, <1>3, <1>4
<1>6. dmm \in [Coords -> Seq(StableIDs)]
  BY DEF ScreenSound
<1> QED BY <1>5, <1>6 DEF Redrawn

LEMMA ProcessSound ==
    ASSUME ScreenSound, NEW update, SoundUpdate(update), Process(update), Table(gesture')
    PROVE  SoundUpdate(pub') /\ ScreenSound'
<1>1. CASE Takes(update)
  <2>1. dmm' = Redrawn(update) /\ view' = Installed(update) /\ pub' = Drained
    BY <1>1 DEF Process
  <2>2. DOMAIN view' = {"tiles", "revision", "fault"} /\ view'.fault \in BOOLEAN
    <3>1. CASE Refuses(update)
      BY <3>1, <2>1, InstalledIs
    <3>2. CASE ~Refuses(update)
      <4>1. DOMAIN view' = {"tiles", "revision", "fault"} /\ view'.fault = view.fault
        BY <3>2, <2>1, InstalledIs
      <4> QED BY <4>1 DEF ScreenSound
    <3> QED BY <3>1, <3>2
  <2> QED BY <2>1, <2>2, RedrawnTyped, DrainedSound DEF ScreenSound
<1>2. CASE ~Takes(update)
  BY <1>2 DEF Process, ScreenSound
<1> QED BY <1>1, <1>2

LEMMA ShapeInit == ASSUME Init PROVE ShapeInv
<1>1. Table(InitialTiles) /\ ValidSnapshot(InitialTiles)
  BY EditorViewAssumption DEF Table, ValidSnapshot
<1>2. AuthoritySound
  BY <1>1 DEF Init, AuthoritySound
<1>3. EditsSound
  BY EmptyIs DEF Init, EditsSound, SoundEdits
<1>4. SoundUpdate(pub)
  BY DrainedSound DEF Init
<1>5. ScreenSound
  <2>1. dmm \in [Coords -> Seq(StableIDs)]
    BY <1>1, TotalTyped DEF Init
  <2>2. Table(gesture)
    BY NothingTable DEF Init
  <2> QED BY <2>1, <2>2 DEF Init, ScreenSound
<1> QED BY <1>2, <1>3, <1>4, <1>5 DEF ShapeInv

(* Sections of the executor change the screen only by what they publish. *)
LEMMA BeginSound ==
    ASSUME ShapeInv, Table(authority'), SoundEdits(pending'),
           NEW changes, changes \subseteq Change, NEW explicit, explicit \subseteq Coords, NEW force,
           Begin(changes, explicit, force)
    PROVE  SoundUpdate(pub')
<1>1. PICK t, x, n : t = authority' /\ x = owners' /\ n = pending'
  OBVIOUS
<1>2. pub' = Accumulated(t, x, n, changes, explicit, force)
  BY <1>1 DEF Begin
<1>3. Table(t) /\ SoundEdits(n) /\ SoundUpdate(pub) /\ SoundEdits(pending)
  BY <1>1 DEF ShapeInv, EditsSound
<1>4. SoundUpdate(Accumulated(t, x, n, changes, explicit, force))
  BY <1>3, AccumulatedSound
<1> QED BY <1>2, <1>4

LEMMA WithoutSound ==
    ASSUME SoundEdits(pending), NEW id, pending' = WithoutID(id)
    PROVE  SoundEdits(pending') /\ TouchedBy(pending') \subseteq TouchedBy(pending)
<1>1. /\ IsSequence(pending')
      /\ \A i \in 1..Len(pending') : \E j \in 1..Len(pending) : pending'[i] = pending[j]
  BY WithoutIs DEF SoundEdits
<1> QED BY <1>1 DEF SoundEdits, TouchedBy

LEMMA AdvanceSound ==
    ASSUME EditsSound, queue # <<>>, NEW phase, Advance(phase)
    PROVE  /\ IsSequence(queue') /\ Len(queue') = Len(queue)
           /\ \A i \in 1..Len(queue') : Admitted(queue'[i])
<1>1. IsSequence(queue) /\ Admitted(Head(queue))
  BY TailIs DEF EditsSound, IsSequence
<1>2. /\ IsSequence(queue') /\ Len(queue') = Len(queue) /\ Admitted(queue'[1])
      /\ \A i \in 2..Len(queue) : queue'[i] = queue[i]
  BY <1>1, AdvanceIs
<1>3. ASSUME NEW i \in 1..Len(queue')
      PROVE  Admitted(queue'[i])
  <2>1. CASE i = 1
    BY <2>1, <1>2
  <2>2. CASE i # 1
    <3>1. Len(queue) \in Nat
      BY DEF EditsSound, IsSequence
    <3>2. i \in 2..Len(queue) /\ i \in 1..Len(queue)
      BY <1>2, <2>2, <3>1
    <3> QED BY <3>2, <1>2 DEF EditsSound
  <2> QED BY <2>1, <2>2
<1> QED BY <1>2, <1>3

(* What the gesture in hand makes of the tiles is an edit. *)
LEMMA IntentSound ==
    ASSUME ScreenSound
    PROVE  Intent \subseteq Change /\ \A x \in Intent : x.before # x.after
<1>1. ASSUME NEW x \in Intent
      PROVE  x \in Change /\ x.before # x.after
  <2>1. PICK c \in DOMAIN gesture :
           gesture[c] # dmm[c] /\ x = [coord |-> c, before |-> gesture[c], after |-> dmm[c]]
    BY DEF Intent
  <2>2. c \in Coords /\ gesture[c] \in Seq(StableIDs) /\ dmm[c] \in Seq(StableIDs)
    BY DEF ScreenSound, Table
  <2> QED BY <2>1, <2>2 DEF Change
<1> QED BY <1>1

LEMMA RemoteSound ==
    ASSUME AuthoritySound, NEW after \in Drafts
    PROVE  Changes(after) \subseteq Change
<1>1. PICK C \in (SUBSET Coords) \ {{}} : after \in [C -> TileStates]
  BY DEF Drafts
<1>2. ASSUME NEW x \in Changes(after)
      PROVE  x \in Change
  <2>1. PICK c \in DOMAIN after : x = [coord |-> c, before |-> TileOf(authority, c), after |-> after[c]]
    BY DEF Changes
  <2>2. c \in Coords /\ after[c] \in Seq(StableIDs)
    BY <1>1, EditorViewAssumption
  <2>3. TileOf(authority, c) \in Seq(StableIDs)
    BY TileTyped DEF AuthoritySound
  <2> QED BY <2>1, <2>2, <2>3 DEF Change
<1> QED BY <1>2

LEMMA AcknowledgeSound ==
    ASSUME AuthoritySound, NEW changes, changes \subseteq Change, Applies(changes), Acknowledge(changes)
    PROVE  AuthoritySound' /\ owners' = UpdateIdentityOwners(owners, changes)
<1>1. Fits(Total(authority), OwnerView(NoOverlay, IndexState(authority)), changes)
  BY DEF AuthoritySound, Applies
<1>2. /\ Table(Install(authority, changes))
      /\ ValidSnapshot(Install(authority, changes))
      /\ AuthorityOwners(IndexState(authority), authority, changes) = UpdateIdentityOwners(IndexState(authority), changes)
      /\ UpdateIdentityOwners(IndexState(authority), changes) = IndexState(Install(authority, changes))
  BY <1>1, AuthorityStep DEF AuthoritySound
<1>3. authority' = Install(authority, changes) /\ owners' = AuthorityOwners(owners, authority, changes)
  BY DEF Acknowledge
<1> QED BY <1>2, <1>3 DEF AuthoritySound

LEMMA NothingChanges == {} \subseteq Change /\ {} \subseteq Coords
OBVIOUS

LEMMA ShapeFrame == ASSUME ShapeInv, Frame PROVE ShapeInv'
<1>1. Process(pub) /\ UNCHANGED <<executor, queue, gesture>>
  BY DEF Frame
<1>2. SoundUpdate(pub') /\ ScreenSound'
  BY <1>1, ProcessSound DEF ShapeInv, ScreenSound
<1> QED BY <1>1, <1>2 DEF ShapeInv, AuthoritySound, EditsSound, executor

LEMMA ShapeOpen == ASSUME ShapeInv, NEW after \in Drafts, OpenGesture(after) PROVE ShapeInv'
<1>1. PICK C \in (SUBSET Coords) \ {{}} : after \in [C -> TileStates]
  BY DEF Drafts
<1>2. /\ gesture' = [c \in DOMAIN after |-> dmm[c]] /\ dmm' = Over(after, dmm)
      /\ UNCHANGED <<executor, queue, pub, view>>
  BY DEF OpenGesture
<1>3. dmm \in [Coords -> Seq(StableIDs)]
  BY DEF ShapeInv, ScreenSound
<1>4. Table(after)
  BY <1>1, EditorViewAssumption DEF Table
<1>5. dmm' \in [Coords -> Seq(StableIDs)]
  <2>1. DOMAIN dmm' = Coords
    BY <1>1, <1>2, <1>3 DEF Over
  <2>2. Table(dmm)
    BY <1>3 DEF Table
  <2>3. Table(dmm')
    BY <1>2, <1>4, <2>2, OverTable
  <2> QED BY <2>1, <2>3 DEF Table
<1>6. Table(gesture')
  BY <1>1, <1>2, <1>3 DEF Table
<1> QED BY <1>2, <1>5, <1>6 DEF ShapeInv, AuthoritySound, EditsSound, ScreenSound, executor

LEMMA ShapeCommit == ASSUME ShapeInv, Commit PROVE ShapeInv'
<1>1. gesture' = Nothing /\ UNCHANGED executor
  BY DEF Commit
<1>2. Table(gesture')
  BY <1>1, NothingTable
<1>3. AuthoritySound'
  BY <1>1 DEF ShapeInv, AuthoritySound, executor
<1>4. CASE UNCHANGED <<queue, pub, dmm, view>>
  BY <1>1, <1>2, <1>3, <1>4 DEF ShapeInv, EditsSound, ScreenSound, executor
<1>5. CASE Intent # {} /\ suspended
  <2>1. /\ Process(Accumulated(authority, owners, pending, {}, Touched(Intent), TRUE))
        /\ UNCHANGED queue
    BY <1>5 DEF Commit
  <2>2. Touched(Intent) \subseteq Coords
    BY IntentSound, TouchedCoords DEF ShapeInv
  <2>3. SoundUpdate(Accumulated(authority, owners, pending, {}, Touched(Intent), TRUE))
    BY <2>2, NothingChanges, AccumulatedSound DEF ShapeInv, AuthoritySound, EditsSound
  <2>4. SoundUpdate(pub') /\ ScreenSound'
    BY <1>2, <2>1, <2>3, ProcessSound DEF ShapeInv
  <2> QED BY <1>1, <1>3, <2>1, <2>4 DEF ShapeInv, EditsSound, executor
<1>6. CASE Intent # {} /\ ~suspended
  <2> DEFINE e == [id |-> edits, changes |-> Intent, base |-> published.revision,
                   phase |-> "queued", interrupted |-> FALSE]
  <2>1. queue' = Append(queue, e) /\ UNCHANGED <<pub, dmm, view>>
    BY <1>6 DEF Commit
  <2>2. Admitted(e)
    BY IntentSound DEF Admitted, ShapeInv
  <2> HIDE DEF e
  <2>3. /\ IsSequence(queue') /\ Len(queue') = Len(queue) + 1 /\ Len(queue) \in Nat
        /\ \A i \in 1..Len(queue) : queue'[i] = queue[i]
        /\ queue'[Len(queue) + 1] = e
    BY <2>1, AppendIs DEF ShapeInv, EditsSound, IsSequence
  <2>4. \A i \in 1..Len(queue') : Admitted(queue'[i])
    <3>1. ASSUME NEW i \in 1..Len(queue')
          PROVE  Admitted(queue'[i])
      <4>1. i \in 1..Len(queue) \/ i = Len(queue) + 1
        BY <2>3
      <4> QED BY <4>1, <2>2, <2>3 DEF ShapeInv, EditsSound
    <3> QED BY <3>1
  <2> QED BY <1>1, <1>2, <1>3, <2>1, <2>3, <2>4 DEF ShapeInv, EditsSound, ScreenSound, executor
<1>7. Intent = {} => UNCHANGED <<queue, pub, dmm, view>>
  BY DEF Commit
<1> QED BY <1>4, <1>5, <1>6, <1>7

LEMMA AdmittedHead ==
    ASSUME EditsSound, queue # <<>>
    PROVE  /\ Admitted(Head(queue)) /\ Head(queue) = queue[1] /\ 1 \in 1..Len(queue)
           /\ Len(queue) \in Nat
           /\ Head(queue).changes \subseteq Change /\ Touched(Head(queue).changes) \subseteq Coords
<1>1. Admitted(Head(queue)) /\ Head(queue) = queue[1] /\ 1 \in 1..Len(queue) /\ Len(queue) \in Nat
  BY TailIs DEF EditsSound, IsSequence
<1> QED BY <1>1, TouchedCoords DEF Admitted

LEMMA AppendSound ==
    ASSUME SoundEdits(pending), NEW op, op.changes \subseteq Change, pending' = Append(pending, op)
    PROVE  /\ SoundEdits(pending') /\ Len(pending) \in Nat /\ Len(pending') = Len(pending) + 1
           /\ \A i \in 1..Len(pending) : pending'[i] = pending[i]
           /\ pending'[Len(pending')] = op
<1>1. /\ IsSequence(pending') /\ Len(pending') = Len(pending) + 1 /\ Len(pending) \in Nat
      /\ \A i \in 1..Len(pending) : pending'[i] = pending[i]
      /\ pending'[Len(pending) + 1] = op
  BY AppendIs DEF SoundEdits, IsSequence
<1>2. ASSUME NEW i \in 1..Len(pending')
      PROVE  pending'[i].changes \subseteq Change
  <2>1. i \in 1..Len(pending) \/ i = Len(pending) + 1
    BY <1>1
  <2> QED BY <2>1, <1>1 DEF SoundEdits
<1> QED BY <1>1, <1>2 DEF SoundEdits

LEMMA ShapeDispatch == ASSUME ShapeInv, Dispatch PROVE ShapeInv'
<1>1. /\ queue # <<>> /\ UNCHANGED <<authority, owners, dmm, view, gesture>>
      /\ Advance("sending") \/ Advance("refused")
  BY DEF Dispatch, executor, editor
<1>2. IsSequence(queue') /\ \A i \in 1..Len(queue') : Admitted(queue'[i])
  BY <1>1, AdvanceSound DEF ShapeInv
<1>3. AuthoritySound' /\ ScreenSound'
  BY <1>1 DEF ShapeInv, AuthoritySound, ScreenSound
<1>4. CASE Projects(Head(queue))
  <2>1. pending' = Append(pending, Head(queue)) /\ Begin({}, {}, FALSE)
    BY <1>4 DEF Dispatch
  <2>2. Head(queue).changes \subseteq Change
    BY <1>1, AdmittedHead DEF ShapeInv
  <2>3. SoundEdits(pending')
    BY <2>1, <2>2, AppendSound DEF ShapeInv, EditsSound
  <2>4. SoundUpdate(pub')
    BY <2>1, <2>3, <1>3, NothingChanges, BeginSound DEF AuthoritySound
  <2> QED BY <1>2, <1>3, <2>3, <2>4 DEF ShapeInv, EditsSound
<1>5. CASE ~Projects(Head(queue))
  <2>1. UNCHANGED <<pending, pub>>
    BY <1>5 DEF Dispatch, executor
  <2> QED BY <1>2, <1>3, <2>1 DEF ShapeInv, EditsSound
<1> QED BY <1>4, <1>5

LEMMA ShapeRefuse == ASSUME ShapeInv, RefuseAdmitted PROVE ShapeInv'
<1>1. /\ queue # <<>> /\ Advance("finish") /\ UNCHANGED <<authority, owners, pending, dmm, view, gesture>>
      /\ Begin({}, Touched(Head(queue).changes), TRUE)
  BY DEF RefuseAdmitted, executor, editor
<1>2. IsSequence(queue') /\ \A i \in 1..Len(queue') : Admitted(queue'[i])
  BY <1>1, AdvanceSound DEF ShapeInv
<1>3. AuthoritySound' /\ ScreenSound' /\ SoundEdits(pending')
  BY <1>1 DEF ShapeInv, AuthoritySound, ScreenSound, EditsSound
<1>4. Touched(Head(queue).changes) \subseteq Coords
  BY <1>1, AdmittedHead DEF ShapeInv
<1>5. SoundUpdate(pub')
  BY <1>1, <1>3, <1>4, NothingChanges, BeginSound DEF AuthoritySound
<1> QED BY <1>2, <1>3, <1>5 DEF ShapeInv, EditsSound

LEMMA ShapeFail == ASSUME ShapeInv, FailPending PROVE ShapeInv'
<1>1. /\ queue # <<>> /\ Advance("finish") /\ UNCHANGED <<authority, owners, dmm, view, gesture>>
      /\ pending' = WithoutID(Head(queue).id)
      /\ Begin({}, {}, FALSE) \/ UNCHANGED pub
  BY DEF FailPending, executor, editor
<1>2. IsSequence(queue') /\ \A i \in 1..Len(queue') : Admitted(queue'[i])
  BY <1>1, AdvanceSound DEF ShapeInv
<1>3. SoundEdits(pending')
  BY <1>1, WithoutSound DEF ShapeInv, EditsSound
<1>4. AuthoritySound' /\ ScreenSound'
  BY <1>1 DEF ShapeInv, AuthoritySound, ScreenSound
<1>5. SoundUpdate(pub')
  BY <1>1, <1>3, <1>4, NothingChanges, BeginSound DEF AuthoritySound, ShapeInv
<1> QED BY <1>2, <1>3, <1>4, <1>5 DEF ShapeInv, EditsSound

LEMMA ShapeFinish == ASSUME ShapeInv, FinishAdmission PROVE ShapeInv'
<1>1. /\ queue # <<>>
      /\ queue' = Tail(queue)
      /\ UNCHANGED <<authority, owners, pending, pub, dmm, view, gesture>>
  BY DEF FinishAdmission, executor, editor
<1>2. /\ Len(queue) \in Nat /\ IsSequence(queue') /\ Len(queue') = Len(queue) - 1 /\ Len(queue) > 0
      /\ \A i \in 1..Len(queue') : queue'[i] = queue[i + 1]
  BY <1>1, TailIs DEF ShapeInv, EditsSound, IsSequence
<1>3. ASSUME NEW i \in 1..Len(queue')
      PROVE  Admitted(queue'[i])
  <2>1. i + 1 \in 1..Len(queue)
    BY <1>2
  <2> QED BY <2>1, <1>2 DEF ShapeInv, EditsSound
<1> QED BY <1>1, <1>2, <1>3 DEF ShapeInv, AuthoritySound, EditsSound, ScreenSound

LEMMA ShapeAccepted ==
    ASSUME ShapeInv, NEW i \in 1..Len(pending), ReceiveAccepted(i)
    PROVE  ShapeInv'
<1>1. PICK changes : changes = pending[i].changes
  OBVIOUS
<1>2. /\ Applies(changes) /\ Acknowledge(changes) /\ pending' = WithoutID(pending[i].id)
      /\ Begin(changes, {}, FALSE) /\ UNCHANGED <<queue, dmm, view, gesture>>
  BY <1>1 DEF ReceiveAccepted, editor
<1>3. changes \subseteq Change
  BY <1>1 DEF ShapeInv, EditsSound, SoundEdits
<1>4. AuthoritySound'
  BY <1>2, <1>3, AcknowledgeSound DEF ShapeInv
<1>5. SoundEdits(pending')
  BY <1>2, WithoutSound DEF ShapeInv, EditsSound
<1>6. SoundUpdate(pub')
  BY <1>2, <1>3, <1>4, <1>5, NothingChanges, BeginSound DEF AuthoritySound
<1> QED BY <1>2, <1>4, <1>5, <1>6 DEF ShapeInv, EditsSound, ScreenSound

LEMMA ShapeRemote ==
    ASSUME ShapeInv, NEW after \in Drafts, ReceiveRemote(Changes(after))
    PROVE  ShapeInv'
<1>1. PICK changes : changes = Changes(after)
  OBVIOUS
<1>2. /\ Applies(changes) /\ Acknowledge(changes)
      /\ Begin(changes, {}, FALSE) /\ UNCHANGED <<pending, queue, dmm, view, gesture>>
  BY <1>1 DEF ReceiveRemote, editor
<1>3. changes \subseteq Change
  BY <1>1, RemoteSound DEF ShapeInv
<1>4. AuthoritySound'
  BY <1>2, <1>3, AcknowledgeSound DEF ShapeInv
<1>5. SoundEdits(pending')
  BY <1>2 DEF ShapeInv, EditsSound
<1>6. SoundUpdate(pub')
  BY <1>2, <1>3, <1>4, <1>5, NothingChanges, BeginSound DEF AuthoritySound
<1> QED BY <1>2, <1>4, <1>5, <1>6 DEF ShapeInv, EditsSound, ScreenSound

LEMMA ShapeRejected ==
    ASSUME ShapeInv, NEW i \in 1..Len(pending), ReceiveRejected(i)
    PROVE  ShapeInv'
<1>1. /\ pending' = WithoutID(pending[i].id) /\ Begin({}, Touched(pending[i].changes), FALSE)
      /\ UNCHANGED <<authority, owners, queue, dmm, view, gesture>>
  BY DEF ReceiveRejected, editor
<1>2. Touched(pending[i].changes) \subseteq Coords
  BY TouchedCoords DEF ShapeInv, EditsSound, SoundEdits
<1>3. SoundEdits(pending')
  BY <1>1, WithoutSound DEF ShapeInv, EditsSound
<1>4. AuthoritySound'
  BY <1>1 DEF ShapeInv, AuthoritySound
<1>5. SoundUpdate(pub')
  BY <1>1, <1>2, <1>3, <1>4, NothingChanges, BeginSound DEF AuthoritySound
<1> QED BY <1>1, <1>3, <1>4, <1>5 DEF ShapeInv, EditsSound, ScreenSound

LEMMA InterruptedIs ==
    ASSUME EditsSound, queue' = [i \in 1..Len(queue) |-> [queue[i] EXCEPT !.interrupted = TRUE]]
    PROVE  /\ IsSequence(queue') /\ Len(queue') = Len(queue)
           /\ \A i \in 1..Len(queue) :
                 /\ Admitted(queue'[i])
                 /\ queue'[i].changes = queue[i].changes /\ queue'[i].phase = queue[i].phase
<1>1. Len(queue) \in Nat
  BY DEF EditsSound, IsSequence
<1>2. queue' = [i \in 1..Len(queue) |-> queue'[i]]
  OBVIOUS
<1>3. ASSUME NEW i \in 1..Len(queue)
      PROVE  /\ Admitted(queue'[i])
             /\ queue'[i].changes = queue[i].changes /\ queue'[i].phase = queue[i].phase
  <2>1. PICK e : e = queue[i]
    OBVIOUS
  <2>2. Admitted(e) /\ queue'[i] = [e EXCEPT !.interrupted = TRUE]
    BY <2>1 DEF EditsSound
  <2>3. PICK d, c, b, p, t : e = [id |-> d, changes |-> c, base |-> b, phase |-> p, interrupted |-> t]
    BY <2>2 DEF Admitted
  <2>4. queue'[i] = [id |-> d, changes |-> c, base |-> b, phase |-> p, interrupted |-> TRUE]
    BY <2>2, <2>3
  <2>5. e.changes = c /\ e.phase = p /\ queue'[i].changes = c /\ queue'[i].phase = p
    BY <2>3, <2>4
  <2>6. Admitted(queue'[i])
    BY <2>2, <2>4, <2>5 DEF Admitted
  <2> QED BY <2>1, <2>5, <2>6
<1> QED BY <1>1, <1>2, <1>3, SequenceIs

LEMMA ShapeSuspend == ASSUME ShapeInv, Suspend PROVE ShapeInv'
<1>1. /\ pending' = <<>> /\ Begin({}, {}, FALSE) /\ UNCHANGED <<authority, owners, dmm, view, gesture>>
      /\ queue' = [i \in 1..Len(queue) |-> [queue[i] EXCEPT !.interrupted = TRUE]]
  BY DEF Suspend, editor
<1>2. IsSequence(queue') /\ \A i \in 1..Len(queue') : Admitted(queue'[i])
  BY <1>1, InterruptedIs DEF ShapeInv
<1>3. SoundEdits(pending')
  BY <1>1, EmptyIs DEF SoundEdits
<1>4. AuthoritySound'
  BY <1>1 DEF ShapeInv, AuthoritySound
<1>5. SoundUpdate(pub')
  BY <1>1, <1>3, <1>4, NothingChanges, BeginSound DEF AuthoritySound
<1> QED BY <1>1, <1>2, <1>3, <1>4, <1>5 DEF ShapeInv, EditsSound, ScreenSound

LEMMA ReplacementIs ==
    ASSUME BeginReplacement
    PROVE  /\ pub' = [authoritative |-> Nothing, display |-> Nothing, replacement |-> authority', ready |-> TRUE]
           /\ PublishCapture
BY DEF BeginReplacement, Drained

LEMMA ShapeReplace ==
    ASSUME ShapeInv, NEW after \in Drafts, ReplaceAcknowledgedSnapshot(Changes(after))
    PROVE  ShapeInv'
<1>1. PICK changes : changes = Changes(after)
  OBVIOUS
<1>2. /\ Applies(changes) /\ authority' = Install(authority, changes) /\ owners' = IndexState(authority')
      /\ BeginReplacement /\ UNCHANGED <<pending, queue, dmm, view, gesture>>
  BY <1>1 DEF ReplaceAcknowledgedSnapshot, editor
<1>3. changes \subseteq Change
  BY <1>1, RemoteSound DEF ShapeInv
<1>4. AuthoritySound'
  <2>1. Fits(Total(authority), OwnerView(NoOverlay, IndexState(authority)), changes)
    BY <1>2 DEF ShapeInv, AuthoritySound, Applies
  <2>2. Table(Install(authority, changes)) /\ ValidSnapshot(Install(authority, changes))
    BY <1>3, <2>1, AuthorityStep DEF ShapeInv, AuthoritySound
  <2> QED BY <2>2, <1>2 DEF AuthoritySound
<1>5. SoundUpdate(pub')
  <2>1. pub' = [authoritative |-> Nothing, display |-> Nothing, replacement |-> authority', ready |-> TRUE]
    BY <1>2, ReplacementIs
  <2>2. /\ pub'.authoritative = Nothing /\ pub'.display = Nothing /\ pub'.replacement = authority'
        /\ pub'.ready = TRUE
    BY <2>1
  <2> QED BY <2>1, <2>2, <1>4, NothingTable DEF SoundUpdate, AuthoritySound
<1> QED BY <1>2, <1>4, <1>5 DEF ShapeInv, EditsSound, SoundEdits, ScreenSound

LEMMA ShapeStep == ASSUME ShapeInv, [Next]_vars PROVE ShapeInv'
<1>1. CASE Resume
  BY <1>1 DEF Resume, ShapeInv, AuthoritySound, EditsSound, SoundEdits, ScreenSound, editor
<1>2. CASE UNCHANGED vars
  BY <1>2 DEF vars, ShapeInv, AuthoritySound, EditsSound, SoundEdits, ScreenSound
<1> QED
  BY <1>1, <1>2, ShapeFrame, ShapeOpen, ShapeCommit, ShapeDispatch, ShapeRefuse, ShapeFail, ShapeFinish,
     ShapeAccepted, ShapeRemote, ShapeRejected, ShapeSuspend, ShapeReplace
     DEF Next, UI, Goroutine, Network

LEMMA ShapeInvHolds == Spec => []ShapeInv
BY ShapeInit, ShapeStep, PTL DEF Spec

(* The owner index that admits edits is the one the acknowledged tiles       *)
(* imply, and the sparse overlay over it shows what the whole snapshot with   *)
(* the pending edits shows, whatever is pending, fits or is hidden.           *)
THEOREM OverlayAgreesTheorem == Spec => []OverlayAgrees
<1>1. ShapeInv => OverlayAgrees
  BY OverlayShows DEF ShapeInv, AuthoritySound, EditsSound, SoundEdits, IsSequence, OverlayAgrees
<1> QED BY ShapeInvHolds, <1>1, PTL

-----------------------------------------------------------------------------------
(* The accumulator.  Tiles of edits that wait for their turn, or that are     *)
(* refused and not yet redrawn: only they may be shown other than projected.  *)
Awaiting ==
    UNION {Touched(queue[i].changes) : i \in {j \in 1..Len(queue) : queue[j].phase \in {"queued", "refused"}}}

(* What a tile will show once an update is installed and the open gesture is  *)
(* taken back.                                                                *)
Shown(update, tiles, held, screen, c) ==
    IF c \in DOMAIN update.display THEN update.display[c]
    ELSE IF update.replacement # None THEN TileOf(tiles, c)
    ELSE IF c \in DOMAIN held THEN held[c] ELSE screen[c]

Complete(update, tiles, ops, held, screen, waiting) ==
    \A c \in Coords \ waiting : Shown(update, tiles, held, screen, c) = Visible(tiles, ops)[c]

(* The accumulated table.  A replacement covers what is pending since then.  *)
Consistent(update, tiles, base, ops) ==
    /\ update.replacement = None => Over(update.authoritative, base) = tiles
    /\ update.replacement # None =>
          /\ update.replacement = tiles
          /\ TouchedBy(ops) \subseteq DOMAIN update.display
    /\ \A c \in DOMAIN update.authoritative : c \in DOMAIN tiles /\ tiles[c] = update.authoritative[c]

RevisionInv ==
    /\ ~view.fault
    /\ revision \in Nat /\ published.revision = revision
    /\ view.revision \in Nat /\ view.revision <= revision

DrainInv ==
    /\ Complete(pub, authority, pending, gesture, dmm, Awaiting)
    /\ Consistent(pub, authority, view.tiles, pending)
    /\ ~pub.ready => pub = Drained /\ view.tiles = authority
    /\ RevisionInv

(* An edit of the authority, or none, as one step of the table and its index. *)
Moves(tiles, index, changes, table, next) ==
    /\ Table(tiles) /\ ValidSnapshot(tiles) /\ index = IndexState(tiles)
    /\ Table(table) /\ next = IndexState(table)
    /\ changes \subseteq Change
    /\ Fits(Total(tiles), OwnerView(NoOverlay, index), changes)
    /\ table = Install(tiles, changes)
    /\ next = UpdateIdentityOwners(index, changes)

LEMMA NothingMoves ==
    ASSUME NEW tiles, Table(tiles), ValidSnapshot(tiles), NEW index, index = IndexState(tiles)
    PROVE  Moves(tiles, index, {}, tiles, index)
<1>1. Fits(Total(tiles), OwnerView(NoOverlay, index), {})
  BY DEF Fits, Distinct
<1>2. Install(tiles, {}) = tiles
  <2>1. DOMAIN tiles \cup Touched({}) = DOMAIN tiles /\ Touched({}) = {}
    BY DEF Touched
  <2>2. tiles = [c \in DOMAIN tiles |-> tiles[c]]
    BY DEF Table
  <2> QED BY <2>1, <2>2 DEF Install
<1>3. UpdateIdentityOwners(index, {}) = index
  <2>1. index = [s \in DOMAIN index |-> index[s]]
    BY DEF IndexState
  <2>2. /\ UNION {IDs(x.before) : x \in {}} = {} /\ UNION {IDs(x.after) : x \in {}} = {}
        /\ (DOMAIN index \ {}) \cup {} = DOMAIN index
    OBVIOUS
  <2> QED BY <2>1, <2>2 DEF UpdateIdentityOwners
<1> QED BY <1>1, <1>2, <1>3 DEF Moves

(* The before-values of the edit, over the new authority, are the old view.  *)
LEMMA PreviousView ==
    ASSUME NEW tiles, NEW index, NEW changes, NEW table, NEW next, Moves(tiles, index, changes, table, next)
    PROVE  Sees(Previously(changes), table, next) = Sees(NoOverlay, tiles, index)
<1> DEFINE old == Previously(changes)
           removed == UNION {IDs(x.before) : x \in changes}
           added == UNION {IDs(x.after) : x \in changes}
<1>1. /\ DOMAIN old.tiles = Touched(changes)
      /\ \A c \in Touched(changes) : old.tiles[c] = (CHOOSE x \in changes : x.coord = c).before
  BY DEF Previously
<1>2. \A x \in changes : x.coord \in Coords /\ TileOf(tiles, x.coord) = x.before
  BY TotalTyped DEF Moves, Fits
<1>3. ASSUME NEW c \in Coords
      PROVE  TileView(old, table)[c] = TileView(NoOverlay, tiles)[c]
  <2>1. TileView(NoOverlay, tiles)[c] = TileOf(tiles, c)
    BY TotalTyped DEF Moves, Total
  <2>2. CASE c \in Touched(changes)
    <3>1. \E x \in changes : x.coord = c
      BY <2>2 DEF Touched
    <3>2. PICK x : x = (CHOOSE y \in changes : y.coord = c) /\ x \in changes /\ x.coord = c
      BY <3>1
    <3>3. TileView(old, table)[c] = x.before
      BY <3>2, <2>2, <1>1 DEF TileView
    <3> QED BY <3>2, <3>3, <1>2, <2>1
  <2>3. CASE c \notin Touched(changes)
    <3>1. TileView(old, table)[c] = TileOf(table, c)
      BY <2>3, <1>1 DEF TileView
    <3>2. TileOf(table, c) = TileOf(tiles, c)
      BY <2>3 DEF Moves, Install, TileOf
    <3> QED BY <3>1, <3>2, <2>1
  <2> QED BY <2>2, <2>3
<1>4. DOMAIN old.owners = removed \cup added
  <2>1. UNION {IDs(x.before) \cup IDs(x.after) : x \in changes} = removed \cup added
    OBVIOUS
  <2> QED BY <2>1 DEF Previously
<1>5. /\ DOMAIN index = Occupied(tiles)
      /\ \A c \in DOMAIN tiles : \A s \in IDs(tiles[c]) : s \in Occupied(tiles) /\ index[s] = c
      /\ \A s \in Occupied(tiles) : index[s] \in DOMAIN tiles /\ s \in IDs(tiles[index[s]])
  BY IndexNames DEF Moves
<1>6. ASSUME NEW s \in removed
      PROVE  s \in DOMAIN index /\ old.owners[s] = index[s]
  <2>1. \E x \in changes : s \in IDs(x.before)
    OBVIOUS
  <2>2. PICK x : x = (CHOOSE y \in changes : s \in IDs(y.before)) /\ x \in changes /\ s \in IDs(x.before)
    BY <2>1
  <2>3. old.owners[s] = x.coord
    BY <2>1, <2>2, <1>4 DEF Previously
  <2>4. x.coord \in DOMAIN tiles /\ tiles[x.coord] = x.before
    BY <2>2, <1>2 DEF TileOf, IDs
  <2> QED BY <2>2, <2>3, <2>4, <1>5
<1>7. ASSUME NEW s \in added \ removed, s \in StableIDs
      PROVE  s \notin DOMAIN index /\ old.owners[s] = None
  <2>1. ~ \E x \in changes : s \in IDs(x.before)
    BY <1>7
  <2>2. old.owners[s] = None
    BY <2>1, <1>4 DEF Previously
  <2>3. ASSUME s \in DOMAIN index
        PROVE  FALSE
    <3>1. PICK x \in changes : s \in IDs(x.after)
      BY <1>7
    <3>2. OwnerView(NoOverlay, index)[s] = index[s]
      BY <2>3, <1>7 DEF OwnerView, NoOverlay, Nothing
    <3>3. index[s] \in Touched(changes) \cup {None}
      BY <3>1, <3>2 DEF Moves, Fits
    <3>4. index[s] \in DOMAIN tiles /\ s \in IDs(tiles[index[s]])
      BY <2>3, <1>5
    <3>5. index[s] # None
      BY <3>4, EditorViewAssumption DEF Moves, Table
    <3>6. PICK y \in changes : y.coord = index[s]
      BY <3>3, <3>5 DEF Touched
    <3>7. y.before = tiles[index[s]]
      BY <3>4, <3>6, <1>2 DEF TileOf
    <3> QED BY <3>4, <3>6, <3>7, <2>1
  <2> QED BY <2>2, <2>3
<1>8. ASSUME NEW s \in StableIDs
      PROVE  OwnerView(old, next)[s] = OwnerView(NoOverlay, index)[s]
  <2>1. OwnerView(NoOverlay, index)[s] = IF s \in DOMAIN index THEN index[s] ELSE None
    BY DEF OwnerView, NoOverlay, Nothing
  <2>2. CASE s \in removed
    BY <2>1, <2>2, <1>4, <1>6 DEF OwnerView
  <2>3. CASE s \in added \ removed
    BY <2>1, <2>3, <1>4, <1>7 DEF OwnerView
  <2>4. CASE s \notin removed \cup added
    <3>1. OwnerView(old, next)[s] = IF s \in DOMAIN next THEN next[s] ELSE None
      BY <2>4, <1>4 DEF OwnerView
    <3>2. DOMAIN next = (DOMAIN index \ removed) \cup added
      BY DEF Moves, UpdateIdentityOwners
    <3>3. s \in DOMAIN next => next[s] = index[s]
      BY <2>4, <3>2 DEF Moves, UpdateIdentityOwners
    <3> QED BY <3>1, <3>2, <3>3, <2>1, <2>4
  <2> QED BY <2>2, <2>3, <2>4
<1>9. TileView(old, table) = TileView(NoOverlay, tiles)
  <2> HIDE DEF old
  <2> QED BY <1>3 DEF TileView
<1>10. OwnerView(old, next) = OwnerView(NoOverlay, index)
  <2> HIDE DEF old
  <2> QED BY <1>8 DEF OwnerView
<1> QED BY <1>9, <1>10 DEF Sees


(* What a publication redraws, from the pending edits before to those after,  *)
(* and that what it leaves out did not change.                               *)
Publishes(tiles, index, changes, table, next, previous, ops, explicit, force, redraw) ==
    /\ Moves(tiles, index, changes, table, next)
    /\ SoundEdits(previous) /\ SoundEdits(ops)
    /\ explicit \subseteq Coords
    /\ redraw = Redraw(table, next, previous, ops, changes, explicit, force)

LEMMA RedrawIs ==
    ASSUME NEW tiles, NEW index, NEW changes, NEW table, NEW next, NEW previous, NEW ops, NEW explicit,
           NEW force, NEW redraw,
           Publishes(tiles, index, changes, table, next, previous, ops, explicit, force, redraw)
    PROVE  /\ DOMAIN redraw \subseteq Coords
           /\ \A c \in DOMAIN redraw : redraw[c] = Visible(table, ops)[c]
           /\ \A c \in Coords \ DOMAIN redraw : Visible(table, ops)[c] = Visible(tiles, previous)[c]
           /\ \A c \in explicit \cup TouchedBy(ops) :
                 Visible(tiles, previous)[c] # Visible(table, ops)[c] => c \in DOMAIN redraw
<1> USE DEF Publishes
<1> DEFINE before == TileView(Overlay(Previously(changes), table, next, previous), table)
           after == TileView(Overlay(NoOverlay, table, next, ops), table)
           coords == Touched(changes) \cup explicit \cup TouchedBy(previous) \cup TouchedBy(ops)
<1>1. Len(previous) \in Nat /\ Len(ops) \in Nat
  BY DEF SoundEdits, IsSequence
<1>2. after = Visible(table, ops)
  BY <1>1, OverlayShows DEF Moves
<1>3. before = Visible(tiles, previous)
  <2>1. before = Folded(Sees(Previously(changes), table, next), previous).tile
    <3>1. PICK old : old = Previously(changes)
      OBVIOUS
    <3>2. Sees(Overlay(old, table, next, previous), table, next) = Folded(Sees(old, table, next), previous)
      BY <1>1, OverlayFolds
    <3>3. before = Sees(Overlay(old, table, next, previous), table, next).tile
      BY <3>1 DEF Sees
    <3> HIDE DEF before
    <3> QED BY <3>1, <3>2, <3>3
  <2>2. Visible(tiles, previous) = Folded(Sees(NoOverlay, tiles, index), previous).tile
    BY <1>1, VisibleFolds DEF Moves
  <2> QED BY <2>1, <2>2, PreviousView
<1>4. coords \subseteq Coords
  BY TouchedCoords, TouchedByCoords DEF SoundEdits, Moves
<1>5. redraw = [c \in {d \in coords : force \/ before[d] # after[d]} |-> after[c]]
  BY DEF Redraw
<1> HIDE DEF before, after
<1>6. /\ DOMAIN redraw = {d \in coords : force \/ before[d] # after[d]}
      /\ \A c \in DOMAIN redraw : redraw[c] = after[c]
  BY <1>5
<1>7. ASSUME NEW c \in Coords \ coords
      PROVE  Visible(table, ops)[c] = Visible(tiles, previous)[c]
  <2>1. Visible(table, ops)[c] = TileOf(table, c)
    <3>1. Folded(Sees(NoOverlay, table, next), ops).tile[c] = Sees(NoOverlay, table, next).tile[c]
      BY <1>1, FoldedUntouched
    <3>2. Visible(table, ops) = Folded(Sees(NoOverlay, table, next), ops).tile
      BY <1>1, VisibleFolds DEF Moves
    <3> QED BY <3>1, <3>2, TotalTyped DEF Sees, Total, Moves
  <2>2. Visible(tiles, previous)[c] = TileOf(tiles, c)
    <3>1. Folded(Sees(NoOverlay, tiles, index), previous).tile[c] = Sees(NoOverlay, tiles, index).tile[c]
      BY <1>1, FoldedUntouched
    <3>2. Visible(tiles, previous) = Folded(Sees(NoOverlay, tiles, index), previous).tile
      BY <1>1, VisibleFolds DEF Moves
    <3> QED BY <3>1, <3>2, TotalTyped DEF Sees, Total, Moves
  <2>3. TileOf(table, c) = TileOf(tiles, c)
    BY DEF Moves, Install, TileOf
  <2> QED BY <2>1, <2>2, <2>3
<1>8. ASSUME NEW c \in Coords \ DOMAIN redraw
      PROVE  Visible(table, ops)[c] = Visible(tiles, previous)[c]
  BY <1>2, <1>3, <1>6, <1>7
<1> QED BY <1>2, <1>3, <1>4, <1>6, <1>8

(* A forced publication redraws the tiles it is told to.                     *)
LEMMA RedrawForced ==
    ASSUME NEW tiles, NEW index, NEW changes, NEW table, NEW next, NEW previous, NEW ops, NEW explicit,
           NEW redraw,
           Publishes(tiles, index, changes, table, next, previous, ops, explicit, TRUE, redraw)
    PROVE  explicit \subseteq DOMAIN redraw
<1> DEFINE before == TileView(Overlay(Previously(changes), table, next, previous), table)
           after == TileView(Overlay(NoOverlay, table, next, ops), table)
           coords == Touched(changes) \cup explicit \cup TouchedBy(previous) \cup TouchedBy(ops)
<1>1. redraw = [c \in {d \in coords : TRUE \/ before[d] # after[d]} |-> after[c]]
  BY DEF Redraw, Publishes
<1> HIDE DEF before, after
<1> QED BY <1>1

LEMMA UntouchedIs ==
    ASSUME NEW tiles, Table(tiles), NEW ops, SoundEdits(ops), NEW c \in Coords, c \notin TouchedBy(ops)
    PROVE  Visible(tiles, ops)[c] = TileOf(tiles, c)
<1>1. Len(ops) \in Nat
  BY DEF SoundEdits, IsSequence
<1>2. Folded(Sees(NoOverlay, tiles, IndexState(tiles)), ops).tile[c]
        = Sees(NoOverlay, tiles, IndexState(tiles)).tile[c]
  BY <1>1, FoldedUntouched
<1> QED BY <1>1, <1>2, VisibleFolds, TotalTyped DEF Sees, Total

LEMMA TableIsNotNone == \A tiles : Table(tiles) => tiles # None
BY EditorViewAssumption DEF Table

(* The authority that the accumulator adds up to follows the authority.      *)
LEMMA OverInstall ==
    ASSUME NEW f, NEW g, NEW changes
    PROVE  Over(Over(AfterTiles(changes), f), g) = Install(Over(f, g), changes)
<1>1. DOMAIN AfterTiles(changes) = Touched(changes)
  BY DEF AfterTiles
<1>2. \A c \in Touched(changes) : AfterTiles(changes)[c] = After(changes, c)
  BY DEF AfterTiles
<1>3. DOMAIN Over(AfterTiles(changes), f) = Touched(changes) \cup DOMAIN f
  BY <1>1 DEF Over
<1>4. \A c \in Touched(changes) \cup DOMAIN f :
         Over(AfterTiles(changes), f)[c] = IF c \in Touched(changes) THEN After(changes, c) ELSE f[c]
  BY <1>1, <1>2 DEF Over
<1>5. PICK h : h = Over(AfterTiles(changes), f)
  OBVIOUS
<1>6. Over(h, g) = [c \in (Touched(changes) \cup DOMAIN f) \cup DOMAIN g |->
                      IF c \in Touched(changes) \cup DOMAIN f THEN h[c] ELSE g[c]]
  BY <1>3, <1>5 DEF Over
<1>7. Over(h, g) = [c \in (Touched(changes) \cup DOMAIN f) \cup DOMAIN g |->
                      IF c \in Touched(changes) THEN After(changes, c) ELSE IF c \in DOMAIN f THEN f[c] ELSE g[c]]
  BY <1>4, <1>5, <1>6
<1>8. DOMAIN Over(f, g) = DOMAIN f \cup DOMAIN g
      /\ \A c \in DOMAIN f \cup DOMAIN g : Over(f, g)[c] = IF c \in DOMAIN f THEN f[c] ELSE g[c]
  BY DEF Over
<1>9. Install(Over(f, g), changes)
        = [c \in (DOMAIN f \cup DOMAIN g) \cup Touched(changes) |->
             IF c \in Touched(changes) THEN After(changes, c) ELSE Over(f, g)[c]]
  BY <1>8 DEF Install
<1>10. (DOMAIN f \cup DOMAIN g) \cup Touched(changes) = (Touched(changes) \cup DOMAIN f) \cup DOMAIN g
  OBVIOUS
<1> QED BY <1>5, <1>7, <1>8, <1>9, <1>10

(* beginPublicationLocked keeps the accumulator complete, as long as a tile  *)
(* that no longer waits is redrawn.                                          *)
LEMMA AccumulatedComplete ==
    ASSUME SoundUpdate(pub), SoundEdits(pending),
           NEW tiles, NEW index, NEW changes, NEW table, NEW next, Moves(tiles, index, changes, table, next),
           NEW ops, SoundEdits(ops), NEW explicit, explicit \subseteq Coords, NEW force,
           NEW held, NEW screen, NEW base, NEW waiting, NEW left,
           Complete(pub, tiles, pending, held, screen, waiting),
           Consistent(pub, tiles, base, pending),
           NEW redraw, redraw = Redraw(table, next, pending, ops, changes, explicit, force),
           waiting \ left \subseteq DOMAIN redraw,
           TouchedBy(ops) \subseteq TouchedBy(pending) \cup DOMAIN redraw,
           NEW update, update = Accumulated(table, next, ops, changes, explicit, force)
    PROVE  /\ Complete(update, table, ops, held, screen, left)
           /\ Consistent(update, table, base, ops)
<1>1. /\ update.authoritative = Over(AfterTiles(changes), pub.authoritative)
      /\ update.display = Over(redraw, pub.display)
      /\ update.replacement = (IF pub.replacement = None THEN None ELSE table)
  BY DEF Accumulated
<1>2. /\ DOMAIN redraw \subseteq Coords
      /\ \A c \in DOMAIN redraw : redraw[c] = Visible(table, ops)[c]
      /\ \A c \in Coords \ DOMAIN redraw : Visible(table, ops)[c] = Visible(tiles, pending)[c]
  <2>1. Publishes(tiles, index, changes, table, next, pending, ops, explicit, force, redraw)
    BY DEF Publishes
  <2> QED BY <2>1, RedrawIs
<1>3. /\ DOMAIN update.display = DOMAIN redraw \cup DOMAIN pub.display
      /\ \A c \in DOMAIN redraw : update.display[c] = redraw[c]
      /\ \A c \in DOMAIN pub.display \ DOMAIN redraw : update.display[c] = pub.display[c]
  BY <1>1 DEF Over
<1>4. /\ table # None
      /\ update.replacement = None <=> pub.replacement = None
      /\ update.replacement # None => update.replacement = table
  BY <1>1, TableIsNotNone DEF Moves
<1>5. ASSUME pub.replacement # None
      PROVE  TouchedBy(pending) \subseteq DOMAIN pub.display /\ TouchedBy(ops) \subseteq DOMAIN update.display
  BY <1>3, <1>5 DEF Consistent
<1>6. ASSUME NEW c \in Coords \ left
      PROVE  Shown(update, table, held, screen, c) = Visible(table, ops)[c]
  <2>1. CASE c \in DOMAIN redraw
    BY <2>1, <1>2, <1>3 DEF Shown
  <2>2. CASE c \notin DOMAIN redraw
    <3>1. Visible(table, ops)[c] = Visible(tiles, pending)[c]
      BY <2>2, <1>2
    <3>2. Shown(pub, tiles, held, screen, c) = Visible(tiles, pending)[c]
      BY <2>2 DEF Complete
    <3>3. CASE c \in DOMAIN pub.display
      BY <2>2, <3>1, <3>2, <3>3, <1>3 DEF Shown
    <3>4. CASE c \notin DOMAIN pub.display /\ pub.replacement = None
      BY <2>2, <3>1, <3>2, <3>4, <1>3, <1>4 DEF Shown
    <3>5. CASE c \notin DOMAIN pub.display /\ pub.replacement # None
      <4>1. Shown(update, table, held, screen, c) = TileOf(table, c)
        BY <2>2, <3>5, <1>3, <1>4 DEF Shown
      <4>2. c \notin TouchedBy(ops)
        BY <2>2, <3>5, <1>3, <1>5
      <4>3. Visible(table, ops)[c] = TileOf(table, c)
        BY <4>2, UntouchedIs DEF Moves
      <4> QED BY <4>1, <4>3
    <3> QED BY <3>3, <3>4, <3>5
  <2> QED BY <2>1, <2>2
<1>7. ASSUME update.replacement = None
      PROVE  Over(update.authoritative, base) = table
  <2>1. Over(pub.authoritative, base) = tiles
    BY <1>4, <1>7 DEF Consistent
  <2> QED BY <2>1, <1>1, OverInstall DEF Moves
<1>8. ASSUME NEW c \in DOMAIN update.authoritative
      PROVE  c \in DOMAIN table /\ table[c] = update.authoritative[c]
  <2>1. DOMAIN AfterTiles(changes) = Touched(changes)
    BY DEF AfterTiles
  <2>2. DOMAIN table = DOMAIN tiles \cup Touched(changes)
    BY DEF Moves, Install
  <2>3. CASE c \in Touched(changes)
    <3>1. update.authoritative[c] = After(changes, c)
      BY <2>1, <2>3, <1>1 DEF Over, AfterTiles
    <3>2. table[c] = After(changes, c)
      BY <2>3 DEF Moves, Install
    <3> QED BY <3>1, <3>2, <2>2, <2>3
  <2>4. CASE c \notin Touched(changes)
    <3>1. c \in DOMAIN pub.authoritative /\ update.authoritative[c] = pub.authoritative[c]
      BY <2>1, <2>4, <1>1, <1>8 DEF Over
    <3>2. c \in DOMAIN tiles /\ tiles[c] = pub.authoritative[c]
      BY <3>1 DEF Consistent
    <3>3. table[c] = tiles[c]
      BY <2>4, <3>2 DEF Moves, Install
    <3> QED BY <3>1, <3>2, <3>3, <2>2
  <2> QED BY <2>3, <2>4
<1> QED BY <1>4, <1>5, <1>6, <1>7, <1>8 DEF Complete, Consistent

(* An update that is consistent is not refused, and installing it shows it.  *)
LEMMA InstallShows ==
    ASSUME NEW update, SoundUpdate(update), Table(authority), ScreenSound, RevisionInv,
           published.tiles = authority,
           Consistent(update, authority, view.tiles, pending)
    PROVE  /\ ~Refuses(update)
           /\ update.replacement # None => Recovered(update) = authority
           /\ Redrawn(update) = [c \in Coords |-> Shown(update, authority, Nothing, dmm, c)]
           /\ \A v : v = Installed(update) =>
                v.tiles = authority /\ v.revision = published.revision /\ v.fault = view.fault
<1>1. ASSUME update.replacement # None
      PROVE  Recovered(update) = authority
  <2>1. update.replacement = authority
    BY <1>1 DEF Consistent
  <2>2. Recovered(update) = Over(update.authoritative, authority)
    BY <2>1 DEF Recovered
  <2>3. DOMAIN update.authoritative \cup DOMAIN authority = DOMAIN authority
    BY DEF Consistent
  <2>4. \A c \in DOMAIN authority :
           (IF c \in DOMAIN update.authoritative THEN update.authoritative[c] ELSE authority[c]) = authority[c]
    BY DEF Consistent
  <2>5. authority = [c \in DOMAIN authority |-> authority[c]]
    BY DEF Table
  <2> QED BY <2>2, <2>3, <2>4, <2>5 DEF Over
<1>2. ~Refuses(update)
  <2>1. ~(published.revision < view.revision)
    BY DEF RevisionInv
  <2> QED BY <2>1, <1>1 DEF Refuses
<1>3. Redrawn(update) = [c \in Coords |-> Shown(update, authority, Nothing, dmm, c)]
  <2>1. Redrawn(update) = [c \in Coords |-> IF c \in DOMAIN update.display THEN update.display[c]
                             ELSE IF update.replacement = None THEN dmm[c] ELSE TileOf(Recovered(update), c)]
    BY <1>2 DEF Redrawn
  <2>2. ASSUME NEW c \in Coords
        PROVE  Shown(update, authority, Nothing, dmm, c)
                 = IF c \in DOMAIN update.display THEN update.display[c]
                   ELSE IF update.replacement = None THEN dmm[c] ELSE TileOf(Recovered(update), c)
    BY <1>1 DEF Shown, Nothing
  <2> QED BY <2>1, <2>2
<1>4. ASSUME NEW v, v = Installed(update)
      PROVE  v.tiles = authority /\ v.revision = published.revision /\ v.fault = view.fault
  <2>1. /\ v.tiles = (IF update.replacement = None THEN Over(update.authoritative, view.tiles) ELSE Recovered(update))
        /\ v.revision = published.revision /\ v.fault = view.fault
    BY <1>2, <1>4, InstalledIs
  <2> QED BY <2>1, <1>1 DEF Consistent
<1> QED BY <1>1, <1>2, <1>3, <1>4

(* The drained accumulator stands for the screen as it is. *)
LEMMA DrainedShows ==
    ASSUME NEW tiles, NEW held, NEW screen, NEW c
    PROVE  Shown(Drained, tiles, held, screen, c) = IF c \in DOMAIN held THEN held[c] ELSE screen[c]
BY DEF Shown, Drained, Nothing

LEMMA DrainedConsistent ==
    ASSUME NEW tiles, Table(tiles), NEW ops
    PROVE  Consistent(Drained, tiles, tiles, ops)
<1>1. Over(Nothing, tiles) = tiles
  <2>1. tiles = [c \in DOMAIN tiles |-> tiles[c]]
    BY DEF Table
  <2>2. DOMAIN Nothing = {} /\ {} \cup DOMAIN tiles = DOMAIN tiles
    BY DEF Nothing
  <2> QED BY <2>1, <2>2 DEF Over
<1>2. DOMAIN Nothing = {}
  BY DEF Nothing
<1> QED BY <1>1, <1>2, DrainedSound DEF Consistent

(* A section that publishes keeps the accumulator complete.                  *)
LEMMA BeginDrain ==
    ASSUME ShapeInv, ShapeInv', DrainInv,
           NEW changes, NEW explicit, explicit \subseteq Coords, NEW force,
           Begin(changes, explicit, force),
           Moves(authority, owners, changes, authority', owners'),
           revision' \in Nat, revision <= revision', UNCHANGED <<dmm, view, gesture>>,
           NEW redraw, redraw = Redraw(authority', owners', pending, pending', changes, explicit, force),
           Awaiting \ Awaiting' \subseteq DOMAIN redraw,
           TouchedBy(pending') \subseteq TouchedBy(pending) \cup DOMAIN redraw
    PROVE  DrainInv'
<1>1. PICK table, next, ops, left, update :
         table = authority' /\ next = owners' /\ ops = pending' /\ left = Awaiting' /\ update = pub'
  OBVIOUS
<1>2. PICK tiles, index, held, screen, base, waiting :
         tiles = authority /\ index = owners /\ held = gesture /\ screen = dmm /\ base = view.tiles
         /\ waiting = Awaiting
  OBVIOUS
<1>3. SoundUpdate(pub) /\ SoundEdits(pending) /\ SoundEdits(ops)
  BY <1>1 DEF ShapeInv, EditsSound
<1>4. Complete(pub, tiles, pending, held, screen, waiting) /\ Consistent(pub, tiles, base, pending)
  BY <1>2 DEF DrainInv
<1>5. /\ Moves(tiles, index, changes, table, next)
      /\ redraw = Redraw(table, next, pending, ops, changes, explicit, force)
  BY <1>1, <1>2
<1>6. /\ waiting \ left \subseteq DOMAIN redraw
      /\ TouchedBy(ops) \subseteq TouchedBy(pending) \cup DOMAIN redraw
  BY <1>1, <1>2
<1>7. update = Accumulated(table, next, ops, changes, explicit, force)
  BY <1>1 DEF Begin
<1>8. /\ Complete(update, table, ops, held, screen, left)
      /\ Consistent(update, table, base, ops)
  BY <1>3, <1>4, <1>5, <1>6, <1>7, AccumulatedComplete
<1>9. Complete(pub', authority', pending', gesture', dmm', Awaiting')
  BY <1>1, <1>2, <1>8
<1>10. view'.tiles = view.tiles
  OBVIOUS
<1>11. Consistent(pub', authority', view'.tiles, pending')
  BY <1>1, <1>2, <1>8, <1>10
<1>12. pub'.ready = TRUE
  BY <1>1, <1>7 DEF Accumulated
<1>13. RevisionInv'
  <2>1. published'.revision = revision'
    BY DEF Begin, PublishCapture
  <2> QED BY <2>1 DEF DrainInv, RevisionInv
<1> QED BY <1>9, <1>11, <1>12, <1>13 DEF DrainInv

-----------------------------------------------------------------------------------
(* How the tiles that wait for their turn change with the queue.             *)

LEMMA AwaitingAdvance ==
    ASSUME EditsSound, queue # <<>>, NEW phase, Advance(phase)
    PROVE  /\ Awaiting \ Awaiting' \subseteq Touched(Head(queue).changes)
           /\ phase = "refused" => Awaiting \subseteq Awaiting'
           /\ Head(queue).phase \notin {"queued", "refused"} => Awaiting \subseteq Awaiting'
<1>1. IsSequence(queue) /\ Admitted(Head(queue)) /\ Head(queue) = queue[1] /\ Len(queue) \in Nat
  BY TailIs DEF EditsSound, IsSequence
<1>2. /\ Len(queue') = Len(queue) /\ 1 \in 1..Len(queue)
      /\ queue'[1].changes = queue[1].changes /\ queue'[1].phase = phase
      /\ \A i \in 2..Len(queue) : queue'[i] = queue[i]
  BY <1>1, AdvanceIs
<1>3. ASSUME NEW c \in Awaiting, c \notin Touched(Head(queue).changes) \/ phase = "refused"
                              \/ Head(queue).phase \notin {"queued", "refused"}
      PROVE  c \in Awaiting'
  <2>1. PICK i \in 1..Len(queue) :
           queue[i].phase \in {"queued", "refused"} /\ c \in Touched(queue[i].changes)
    BY DEF Awaiting
  <2>2. queue'[i].changes = queue[i].changes /\ queue'[i].phase \in {"queued", "refused"}
    <3>1. CASE i = 1
      BY <3>1, <2>1, <1>1, <1>2, <1>3
    <3>2. CASE i # 1
      <4>1. i \in 2..Len(queue)
        BY <3>2, <1>1
      <4> QED BY <4>1, <1>2, <2>1
    <3> QED BY <3>1, <3>2
  <2>3. i \in 1..Len(queue')
    BY <1>2
  <2>4. c \in Touched(queue'[i].changes)
    BY <2>1, <2>2
  <2> QED BY <2>2, <2>3, <2>4 DEF Awaiting
<1> QED BY <1>3

LEMMA AwaitingTail ==
    ASSUME EditsSound, queue # <<>>, Head(queue).phase \in {"sending", "finish"}, queue' = Tail(queue)
    PROVE  Awaiting \subseteq Awaiting'
<1>1. /\ Len(queue) \in Nat /\ Len(queue') = Len(queue) - 1 /\ Len(queue) > 0 /\ Head(queue) = queue[1]
      /\ \A i \in 1..Len(queue') : queue'[i] = queue[i + 1]
  BY TailIs DEF EditsSound, IsSequence
<1>2. ASSUME NEW c \in Awaiting
      PROVE  c \in Awaiting'
  <2>1. PICK i \in 1..Len(queue) :
           queue[i].phase \in {"queued", "refused"} /\ c \in Touched(queue[i].changes)
    BY DEF Awaiting
  <2>2. i # 1
    BY <2>1, <1>1
  <2>3. i - 1 \in 1..Len(queue') /\ (i - 1) + 1 = i
    BY <2>2, <1>1
  <2>4. queue'[i - 1] = queue[i]
    BY <2>3, <1>1
  <2>5. queue'[i - 1].phase \in {"queued", "refused"} /\ c \in Touched(queue'[i - 1].changes)
    BY <2>1, <2>4
  <2> QED BY <2>3, <2>5 DEF Awaiting
<1> QED BY <1>2

LEMMA AwaitingInterrupted ==
    ASSUME EditsSound, queue' = [i \in 1..Len(queue) |-> [queue[i] EXCEPT !.interrupted = TRUE]]
    PROVE  Awaiting \subseteq Awaiting'
<1>1. /\ Len(queue') = Len(queue)
      /\ \A i \in 1..Len(queue) : queue'[i].changes = queue[i].changes /\ queue'[i].phase = queue[i].phase
  BY InterruptedIs
<1>2. ASSUME NEW c \in Awaiting
      PROVE  c \in Awaiting'
  <2>1. PICK i \in 1..Len(queue) :
           queue[i].phase \in {"queued", "refused"} /\ c \in Touched(queue[i].changes)
    BY DEF Awaiting
  <2>2. /\ i \in 1..Len(queue')
        /\ queue'[i].phase \in {"queued", "refused"}
        /\ c \in Touched(queue'[i].changes)
    BY <2>1, <1>1
  <2> QED BY <2>2 DEF Awaiting
<1> QED BY <1>2

LEMMA AwaitingAppend ==
    ASSUME EditsSound, NEW e, e.phase = "queued", queue' = Append(queue, e)
    PROVE  Awaiting \cup Touched(e.changes) \subseteq Awaiting'
<1>1. /\ Len(queue) \in Nat /\ Len(queue') = Len(queue) + 1
      /\ \A i \in 1..Len(queue) : queue'[i] = queue[i]
      /\ queue'[Len(queue) + 1] = e
  BY AppendIs DEF EditsSound, IsSequence
<1>2. ASSUME NEW c \in Awaiting
      PROVE  c \in Awaiting'
  <2>1. PICK i \in 1..Len(queue) :
           queue[i].phase \in {"queued", "refused"} /\ c \in Touched(queue[i].changes)
    BY DEF Awaiting
  <2>2. i \in 1..Len(queue')
    BY <1>1
  <2>3. queue'[i] = queue[i]
    BY <1>1
  <2>4. queue'[i].phase \in {"queued", "refused"} /\ c \in Touched(queue'[i].changes)
    BY <2>1, <2>3
  <2> QED BY <2>2, <2>4 DEF Awaiting
<1>3. ASSUME NEW c \in Touched(e.changes)
      PROVE  c \in Awaiting'
  <2>1. PICK n : n = Len(queue) + 1 /\ n \in 1..Len(queue')
    BY <1>1
  <2>2. queue'[n].phase \in {"queued", "refused"} /\ c \in Touched(queue'[n].changes)
    BY <2>1, <1>1
  <2> QED BY <2>1, <2>2 DEF Awaiting
<1> QED BY <1>2, <1>3

-----------------------------------------------------------------------------------
(* Every action keeps the accumulator complete. *)
LEMMA StillMoves ==
    ASSUME ShapeInv, UNCHANGED <<authority, owners>>
    PROVE  Moves(authority, owners, {}, authority', owners')
BY NothingMoves DEF ShapeInv, AuthoritySound

LEMMA AcknowledgeMoves ==
    ASSUME ShapeInv, NEW changes, changes \subseteq Change, Applies(changes), Acknowledge(changes)
    PROVE  Moves(authority, owners, changes, authority', owners')
<1>1. AuthoritySound' /\ owners' = UpdateIdentityOwners(owners, changes)
  BY AcknowledgeSound DEF ShapeInv
<1>2. authority' = Install(authority, changes)
  BY DEF Acknowledge
<1> QED BY <1>1, <1>2 DEF ShapeInv, AuthoritySound, Moves, Applies

(* Nothing that the screen is to show changes. *)
LEMMA DrainKept ==
    ASSUME DrainInv, UNCHANGED <<authority, revision, pending, pub, dmm, view, gesture>>,
           published'.revision = revision, Awaiting \subseteq Awaiting'
    PROVE  DrainInv'
<1>1. \A c \in Coords \ Awaiting' : c \in Coords \ Awaiting
  OBVIOUS
<1>2. Complete(pub', authority', pending', gesture', dmm', Awaiting')
  BY <1>1 DEF DrainInv, Complete
<1>3. Consistent(pub', authority', view'.tiles, pending')
  BY DEF DrainInv
<1> QED BY <1>2, <1>3 DEF DrainInv, RevisionInv

(* An edit that the projection takes on shows at every tile it names. *)
LEMMA ProjectedShows ==
    ASSUME AuthoritySound, EditsSound, NEW op, Admitted(op), Projects(op), NEW ops, ops = Append(pending, op),
           NEW c \in Touched(op.changes)
    PROVE  c \in Coords /\ Visible(authority, pending)[c] # Visible(authority, ops)[c]
<1> DEFINE seen == Sees(NoOverlay, authority, owners)
           F == Folded(seen, pending)
<1>1. /\ Len(pending) \in Nat /\ Len(ops) \in Nat /\ Len(ops) = Len(pending) + 1
      /\ \A i \in 1..Len(pending) : ops[i] = pending[i]
      /\ ops[Len(ops)] = op
  BY AppendIs DEF EditsSound, SoundEdits, IsSequence
<1>2. Visible(authority, pending) = F.tile /\ Visible(authority, ops) = Folded(seen, ops).tile
  BY <1>1, VisibleFolds DEF AuthoritySound
<1>3. Folded(seen, ops) = Edited(F, op.changes)
  <2> HIDE DEF seen
  <2>1. Folded(seen, ops) = Edited(Folded(seen, pending), ops[Len(ops)].changes)
    <3>1. PICK first, older, newer : first = seen /\ older = pending /\ newer = ops
      OBVIOUS
    <3>2. /\ Len(older) \in Nat /\ Len(newer) = Len(older) + 1
          /\ \A i \in 1..Len(older) : newer[i] = older[i]
      BY <3>1, <1>1
    <3>3. Folded(first, newer) = Edited(Folded(first, older), newer[Len(newer)].changes)
      BY ONLY <3>2, FoldedAppend
    <3> QED
      BY <3>1, <3>3
  <2> QED BY <1>1, <2>1
<1>4. Fits(F.tile, F.owner, op.changes)
  <2>1. PICK overlay : overlay = Overlay(NoOverlay, authority, owners, pending)
    OBVIOUS
  <2>2. Sees(overlay, authority, owners) = F
    BY <1>1, <2>1, OverlayFolds
  <2>3. Fits(TileView(overlay, authority), OwnerView(overlay, owners), op.changes)
    BY <2>1 DEF Projects
  <2>4. Sees(overlay, authority, owners).tile = TileView(overlay, authority)
        /\ Sees(overlay, authority, owners).owner = OwnerView(overlay, owners)
    BY DEF Sees
  <2> HIDE DEF F
  <2> QED BY <2>2, <2>3, <2>4
<1> HIDE DEF F, seen
<1>5. PICK x \in op.changes : x.coord = c
  BY DEF Touched
<1>6. c \in Coords /\ F.tile[c] = x.before /\ Distinct(op.changes)
  BY <1>4, <1>5 DEF Fits
<1>7. Edited(F, op.changes).tile[c] = After(op.changes, c)
  BY <1>4, <1>6 DEF Edited
<1>8. After(op.changes, c) = x.after
  BY <1>5, <1>6, AfterIs
<1>9. x.before # x.after
  BY <1>5 DEF Admitted
<1> QED BY <1>2, <1>3, <1>6, <1>7, <1>8, <1>9

LEMMA DrainDispatch == ASSUME ShapeInv, ShapeInv', DrainInv, Dispatch PROVE DrainInv'
<1>1. PICK op : op = Head(queue)
  OBVIOUS
<1>2. /\ queue # <<>> /\ UNCHANGED <<authority, owners, revision, dmm, view, gesture>>
      /\ Admitted(op) /\ op.changes \subseteq Change
  BY <1>1, AdmittedHead DEF Dispatch, executor, editor, ShapeInv
<1>3. CASE Projects(op)
  <2>1. pending' = Append(pending, op) /\ Begin({}, {}, FALSE) /\ Advance("sending")
    BY <1>1, <1>3 DEF Dispatch
  <2>2. PICK redraw : redraw = Redraw(authority', owners', pending, pending', {}, {}, FALSE)
    OBVIOUS
  <2>3. PICK tiles, index, ops, force :
           tiles = authority /\ index = owners /\ ops = pending' /\ force = FALSE
    OBVIOUS
  <2>4. Moves(tiles, index, {}, tiles, index)
    BY <1>2, <2>3, StillMoves
  <2>5. Publishes(tiles, index, {}, tiles, index, pending, ops, {}, force, redraw)
    BY <1>2, <2>2, <2>3, <2>4 DEF Publishes, ShapeInv, EditsSound
  <2>6. \A c \in {} \cup TouchedBy(ops) :
           Visible(tiles, pending)[c] # Visible(tiles, ops)[c] => c \in DOMAIN redraw
    BY <2>5, RedrawIs
  <2>7. /\ Len(pending) \in Nat /\ Len(ops) = Len(pending) + 1
        /\ \A i \in 1..Len(pending) : ops[i] = pending[i]
        /\ ops[Len(ops)] = op
    BY <2>1, <2>3, AppendIs DEF ShapeInv, EditsSound, SoundEdits, IsSequence
  <2>8. Touched(op.changes) \subseteq TouchedBy(ops)
    <3>1. Len(ops) \in 1..Len(ops)
      BY <2>7
    <3> QED BY <2>7, <3>1 DEF TouchedBy
  <2>9. Touched(op.changes) \subseteq DOMAIN redraw
    <3>1. \A c \in Touched(op.changes) : Visible(tiles, pending)[c] # Visible(tiles, ops)[c]
      BY <1>2, <1>3, <2>1, <2>3, ProjectedShows DEF ShapeInv
    <3> QED BY <2>6, <2>8, <3>1
  <2>10. TouchedBy(ops) \subseteq TouchedBy(pending) \cup Touched(op.changes)
    <3>1. ASSUME NEW c \in TouchedBy(ops)
          PROVE  c \in TouchedBy(pending) \cup Touched(op.changes)
      <4>1. PICK i \in 1..Len(ops) : c \in Touched(ops[i].changes)
        BY DEF TouchedBy
      <4>2. i \in 1..Len(pending) \/ i = Len(ops)
        BY <2>7
      <4> QED BY <4>1, <4>2, <2>7 DEF TouchedBy
    <3> QED BY <3>1
  <2>11. Awaiting \ Awaiting' \subseteq DOMAIN redraw
    BY <1>1, <1>2, <2>1, <2>9, AwaitingAdvance DEF ShapeInv
  <2>12. TouchedBy(pending') \subseteq TouchedBy(pending) \cup DOMAIN redraw
    BY <2>3, <2>9, <2>10
  <2>13. revision' \in Nat /\ revision <= revision'
    BY <1>2 DEF DrainInv, RevisionInv
  <2>14. Moves(authority, owners, {}, authority', owners')
    BY <1>2, StillMoves
  <2> QED BY <1>2, <2>1, <2>2, <2>11, <2>12, <2>13, <2>14, BeginDrain
<1>4. CASE ~Projects(op)
  <2>1. Advance("refused") /\ UNCHANGED <<pending, pub, published>>
    BY <1>1, <1>4 DEF Dispatch, executor
  <2>2. Awaiting \subseteq Awaiting'
    BY <1>2, <2>1, AwaitingAdvance DEF ShapeInv
  <2>3. published'.revision = revision
    BY <2>1 DEF DrainInv, RevisionInv
  <2> QED BY <1>2, <2>1, <2>2, <2>3, DrainKept
<1> QED BY <1>3, <1>4

LEMMA DrainRefuse == ASSUME ShapeInv, ShapeInv', DrainInv, RefuseAdmitted PROVE DrainInv'
<1>1. PICK explicit : explicit = Touched(Head(queue).changes)
  OBVIOUS
<1>2. /\ queue # <<>>
      /\ Advance("finish")
      /\ UNCHANGED <<authority, owners, revision, pending, dmm, view, gesture>>
      /\ Begin({}, explicit, TRUE)
  BY <1>1 DEF RefuseAdmitted, executor, editor
<1>3. explicit \subseteq Coords
  BY <1>1, <1>2, AdmittedHead DEF ShapeInv
<1>4. PICK redraw : redraw = Redraw(authority', owners', pending, pending', {}, explicit, TRUE)
  OBVIOUS
<1>5. Moves(authority, owners, {}, authority', owners')
  BY <1>2, StillMoves
<1>6. explicit \subseteq DOMAIN redraw
  <2>1. PICK tiles, index, ops : tiles = authority /\ index = owners /\ ops = pending
    OBVIOUS
  <2>2. Publishes(tiles, index, {}, tiles, index, ops, ops, explicit, TRUE, redraw)
    BY <1>2, <1>3, <1>4, <1>5, <2>1 DEF Publishes, ShapeInv, EditsSound
  <2> QED BY <2>2, RedrawForced
<1>7. Awaiting \ Awaiting' \subseteq DOMAIN redraw
  BY <1>1, <1>2, <1>6, AwaitingAdvance DEF ShapeInv
<1>8. revision' \in Nat /\ revision <= revision'
  BY <1>2 DEF DrainInv, RevisionInv
<1>9. TouchedBy(pending') \subseteq TouchedBy(pending) \cup DOMAIN redraw
  BY <1>2
<1> QED BY <1>2, <1>3, <1>4, <1>5, <1>7, <1>8, <1>9, BeginDrain

LEMMA DrainFail == ASSUME ShapeInv, ShapeInv', DrainInv, FailPending PROVE DrainInv'
<1>1. PICK id : id = Head(queue).id
  OBVIOUS
<1>2. /\ queue # <<>> /\ Head(queue).phase = "sending" /\ Advance("finish")
      /\ UNCHANGED <<authority, owners, revision, dmm, view, gesture>>
      /\ pending' = WithoutID(id)
      /\ IF Len(pending') < Len(pending) THEN Begin({}, {}, FALSE) ELSE UNCHANGED <<pub, published>>
  BY <1>1 DEF FailPending, executor, editor
<1>3. Awaiting \subseteq Awaiting'
  BY <1>2, AwaitingAdvance DEF ShapeInv
<1>4. CASE Len(pending') < Len(pending)
  <2>1. Begin({}, {}, FALSE)
    BY <1>2, <1>4
  <2>2. PICK redraw : redraw = Redraw(authority', owners', pending, pending', {}, {}, FALSE)
    OBVIOUS
  <2>3. Moves(authority, owners, {}, authority', owners')
    BY <1>2, StillMoves
  <2>4. Awaiting \ Awaiting' \subseteq DOMAIN redraw
    BY <1>3
  <2>5. TouchedBy(pending') \subseteq TouchedBy(pending) \cup DOMAIN redraw
    BY <1>2, WithoutSound DEF ShapeInv, EditsSound
  <2>6. revision' \in Nat /\ revision <= revision'
    BY <1>2 DEF DrainInv, RevisionInv
  <2> QED BY <1>2, <2>1, <2>2, <2>3, <2>4, <2>5, <2>6, BeginDrain
<1>5. CASE ~(Len(pending') < Len(pending))
  <2>1. UNCHANGED <<pub, published>>
    BY <1>2, <1>5
  <2>2. pending' = pending
    <3>1. /\ Len(pending') \in Nat /\ Len(pending) \in Nat /\ Len(pending') <= Len(pending)
          /\ Len(pending') = Len(pending) => pending' = pending
      BY <1>2, WithoutIs DEF ShapeInv, EditsSound, SoundEdits, IsSequence
    <3>2. PICK m, n : m = Len(pending') /\ n = Len(pending)
      OBVIOUS
    <3> QED BY <3>1, <3>2, <1>5
  <2>3. published'.revision = revision
    BY <2>1 DEF DrainInv, RevisionInv
  <2> QED BY <1>2, <1>3, <2>1, <2>2, <2>3, DrainKept
<1> QED BY <1>4, <1>5

LEMMA DrainFinish == ASSUME ShapeInv, DrainInv, FinishAdmission PROVE DrainInv'
<1>1. /\ queue # <<>> /\ Head(queue).phase \in {"sending", "finish"} /\ queue' = Tail(queue)
      /\ UNCHANGED <<authority, revision, pending, pub, dmm, view, gesture>>
      /\ published'.revision = revision'
  BY DEF FinishAdmission, executor, editor, PublishCapture
<1>2. Awaiting \subseteq Awaiting'
  BY <1>1, AwaitingTail DEF ShapeInv
<1> QED BY <1>1, <1>2, DrainKept

(* A revision that arrives, with what is pending afterwards. *)
LEMMA DrainAcknowledge ==
    ASSUME ShapeInv, ShapeInv', DrainInv, NEW changes, changes \subseteq Change, Applies(changes),
           Acknowledge(changes), Begin(changes, {}, FALSE), UNCHANGED <<queue, dmm, view, gesture>>,
           TouchedBy(pending') \subseteq TouchedBy(pending)
    PROVE  DrainInv'
<1>1. PICK redraw : redraw = Redraw(authority', owners', pending, pending', changes, {}, FALSE)
  OBVIOUS
<1>2. Moves(authority, owners, changes, authority', owners')
  BY AcknowledgeMoves
<1>3. Awaiting' = Awaiting
  BY DEF Awaiting
<1>4. Awaiting \ Awaiting' \subseteq DOMAIN redraw
  BY <1>3
<1>5. TouchedBy(pending') \subseteq TouchedBy(pending) \cup DOMAIN redraw
  OBVIOUS
<1>6. revision' \in Nat /\ revision <= revision'
  BY DEF Acknowledge, DrainInv, RevisionInv
<1> QED BY <1>1, <1>2, <1>4, <1>5, <1>6, BeginDrain

LEMMA DrainAccepted ==
    ASSUME ShapeInv, ShapeInv', DrainInv, NEW i \in 1..Len(pending), ReceiveAccepted(i)
    PROVE  DrainInv'
<1>1. PICK changes : changes = pending[i].changes
  OBVIOUS
<1>2. /\ Applies(changes) /\ Acknowledge(changes) /\ pending' = WithoutID(pending[i].id)
      /\ Begin(changes, {}, FALSE) /\ UNCHANGED <<queue, dmm, view, gesture>>
  BY <1>1 DEF ReceiveAccepted, editor
<1>3. changes \subseteq Change
  BY <1>1 DEF ShapeInv, EditsSound, SoundEdits
<1>4. TouchedBy(pending') \subseteq TouchedBy(pending)
  BY <1>2, WithoutSound DEF ShapeInv, EditsSound
<1> QED BY <1>2, <1>3, <1>4, DrainAcknowledge

LEMMA DrainRemote ==
    ASSUME ShapeInv, ShapeInv', DrainInv, NEW after \in Drafts, ReceiveRemote(Changes(after))
    PROVE  DrainInv'
<1>1. PICK changes : changes = Changes(after)
  OBVIOUS
<1>2. /\ Applies(changes) /\ Acknowledge(changes)
      /\ Begin(changes, {}, FALSE) /\ UNCHANGED <<pending, queue, dmm, view, gesture>>
  BY <1>1 DEF ReceiveRemote, editor
<1>3. changes \subseteq Change
  BY <1>1, RemoteSound DEF ShapeInv
<1>4. TouchedBy(pending') \subseteq TouchedBy(pending)
  BY <1>2
<1> QED BY <1>2, <1>3, <1>4, DrainAcknowledge

LEMMA DrainRejected ==
    ASSUME ShapeInv, ShapeInv', DrainInv, NEW i \in 1..Len(pending), ReceiveRejected(i)
    PROVE  DrainInv'
<1>1. PICK explicit : explicit = Touched(pending[i].changes)
  OBVIOUS
<1>2. /\ pending' = WithoutID(pending[i].id) /\ Begin({}, explicit, FALSE)
      /\ UNCHANGED <<authority, owners, revision, queue, dmm, view, gesture>>
  BY <1>1 DEF ReceiveRejected, editor
<1>3. explicit \subseteq Coords
  BY <1>1, TouchedCoords DEF ShapeInv, EditsSound, SoundEdits
<1>4. PICK redraw : redraw = Redraw(authority', owners', pending, pending', {}, explicit, FALSE)
  OBVIOUS
<1>5. Moves(authority, owners, {}, authority', owners')
  BY <1>2, StillMoves
<1>6. Awaiting' = Awaiting
  BY <1>2 DEF Awaiting
<1>7. Awaiting \ Awaiting' \subseteq DOMAIN redraw
  BY <1>6
<1>8. TouchedBy(pending') \subseteq TouchedBy(pending) \cup DOMAIN redraw
  BY <1>2, WithoutSound DEF ShapeInv, EditsSound
<1>9. revision' \in Nat /\ revision <= revision'
  BY <1>2 DEF DrainInv, RevisionInv
<1> QED BY <1>2, <1>3, <1>4, <1>5, <1>7, <1>8, <1>9, BeginDrain

LEMMA DrainSuspend == ASSUME ShapeInv, ShapeInv', DrainInv, Suspend PROVE DrainInv'
<1>1. /\ pending' = <<>> /\ Begin({}, {}, FALSE)
      /\ UNCHANGED <<authority, owners, revision, dmm, view, gesture>>
      /\ queue' = [i \in 1..Len(queue) |-> [queue[i] EXCEPT !.interrupted = TRUE]]
  BY DEF Suspend, editor
<1>2. PICK redraw : redraw = Redraw(authority', owners', pending, pending', {}, {}, FALSE)
  OBVIOUS
<1>3. Moves(authority, owners, {}, authority', owners')
  BY <1>1, StillMoves
<1>4. Awaiting \ Awaiting' \subseteq DOMAIN redraw
  BY <1>1, AwaitingInterrupted DEF ShapeInv
<1>5. TouchedBy(pending') \subseteq TouchedBy(pending) \cup DOMAIN redraw
  <2>1. Len(pending') = 0
    BY <1>1, EmptyIs
  <2>2. 1..0 = {}
    OBVIOUS
  <2> QED BY <2>1, <2>2 DEF TouchedBy
<1>6. revision' \in Nat /\ revision <= revision'
  BY <1>1 DEF DrainInv, RevisionInv
<1> QED BY <1>1, <1>2, <1>3, <1>4, <1>5, <1>6, BeginDrain

(* The snapshot of a reconnect stands for every tile. *)
LEMMA DrainReplace ==
    ASSUME ShapeInv, ShapeInv', DrainInv, NEW after \in Drafts, ReplaceAcknowledgedSnapshot(Changes(after))
    PROVE  DrainInv'
<1>1. /\ pending = <<>> /\ revision' = revision + 1
      /\ BeginReplacement /\ UNCHANGED <<pending, queue, dmm, view, gesture>>
  BY DEF ReplaceAcknowledgedSnapshot, editor
<1>2. PICK update, table, ops : update = pub' /\ table = authority' /\ ops = pending'
  OBVIOUS
<1>3. update = [authoritative |-> Nothing, display |-> Nothing, replacement |-> table, ready |-> TRUE]
  BY <1>1, <1>2, ReplacementIs
<1>4. /\ DOMAIN update.authoritative = {} /\ DOMAIN update.display = {} /\ update.replacement = table
      /\ update.ready = TRUE
  BY <1>3 DEF Nothing
<1>5. Table(table) /\ table # None /\ SoundEdits(ops)
  BY <1>2, TableIsNotNone DEF ShapeInv, AuthoritySound, EditsSound
<1>6. TouchedBy(ops) = {}
  <2>1. Len(ops) = 0
    BY <1>1, <1>2, EmptyIs
  <2>2. 1..0 = {}
    OBVIOUS
  <2> QED BY <2>1, <2>2 DEF TouchedBy
<1>7. ASSUME NEW c \in Coords
      PROVE  Shown(update, table, gesture', dmm', c) = Visible(table, ops)[c]
  <2>1. Shown(update, table, gesture', dmm', c) = TileOf(table, c)
    BY <1>4, <1>5 DEF Shown
  <2>2. Visible(table, ops)[c] = TileOf(table, c)
    BY <1>5, <1>6, UntouchedIs
  <2> QED BY <2>1, <2>2
<1>8. Complete(pub', authority', pending', gesture', dmm', Awaiting')
  BY <1>2, <1>7 DEF Complete
<1>9. Consistent(pub', authority', view'.tiles, pending')
  BY <1>2, <1>4, <1>5, <1>6 DEF Consistent
<1>10. RevisionInv'
  <2>1. published'.revision = revision' /\ view' = view
    BY <1>1 DEF BeginReplacement, PublishCapture
  <2> QED BY <2>1, <1>1 DEF DrainInv, RevisionInv
<1> QED BY <1>2, <1>4, <1>8, <1>9, <1>10 DEF DrainInv

(* A gesture holds what its tiles showed before it. *)
LEMMA DrainOpen ==
    ASSUME ShapeInv, DrainInv, NEW after \in Drafts, OpenGesture(after)
    PROVE  DrainInv'
<1>1. /\ gesture = Nothing /\ gesture' = [c \in DOMAIN after |-> dmm[c]] /\ dmm' = Over(after, dmm)
      /\ UNCHANGED <<authority, revision, pending, queue, pub, published, view>>
  BY DEF OpenGesture, executor
<1>2. PICK held, screen : held = gesture' /\ screen = dmm'
  OBVIOUS
<1>3. /\ DOMAIN held = DOMAIN after /\ \A c \in DOMAIN after : held[c] = dmm[c]
      /\ \A c \in Coords \ DOMAIN after : screen[c] = dmm[c]
  BY <1>1, <1>2 DEF Over, ShapeInv, ScreenSound
<1>4. \A c \in Coords : Shown(pub, authority, held, screen, c) = Shown(pub, authority, gesture, dmm, c)
  BY <1>1, <1>3 DEF Shown, Nothing
<1>5. Complete(pub, authority, pending, held, screen, Awaiting)
  BY <1>4 DEF DrainInv, Complete
<1>6. Awaiting' = Awaiting
  BY <1>1 DEF Awaiting
<1>7. Complete(pub', authority', pending', gesture', dmm', Awaiting')
  BY <1>1, <1>2, <1>5, <1>6
<1>8. Consistent(pub', authority', view'.tiles, pending')
  BY <1>1 DEF DrainInv
<1> QED BY <1>1, <1>7, <1>8 DEF DrainInv, RevisionInv

(* Between gestures an update that is ready and complete is installed, or    *)
(* kept while an edit is being admitted.                                     *)
LEMMA ProcessDrain ==
    ASSUME AuthoritySound, ScreenSound, RevisionInv, published.tiles = authority,
           NEW update, SoundUpdate(update), update.ready = TRUE,
           Complete(update, authority, pending, Nothing, dmm, Awaiting),
           Consistent(update, authority, view.tiles, pending),
           Process(update), gesture' = Nothing, UNCHANGED <<authority, revision, pending, queue>>,
           published'.revision = revision
    PROVE  DrainInv'
<1>1. Awaiting' = Awaiting
  BY DEF Awaiting
<1>2. CASE Takes(update)
  <2>1. dmm' = Redrawn(update) /\ view' = Installed(update) /\ pub' = Drained
    BY <1>2 DEF Process
  <2>2. /\ Redrawn(update) = [c \in Coords |-> Shown(update, authority, Nothing, dmm, c)]
        /\ view'.tiles = authority /\ view'.revision = published.revision /\ view'.fault = view.fault
    BY <2>1, InstallShows DEF AuthoritySound
  <2>3. PICK screen : screen = dmm'
    OBVIOUS
  <2>4. ASSUME NEW c \in Coords \ Awaiting
        PROVE  Shown(Drained, authority, Nothing, screen, c) = Visible(authority, pending)[c]
    <3>1. Shown(Drained, authority, Nothing, screen, c) = screen[c]
      BY DrainedShows DEF Nothing
    <3>2. screen[c] = Shown(update, authority, Nothing, dmm, c)
      BY <2>1, <2>2, <2>3
    <3> QED BY <3>1, <3>2 DEF Complete
  <2>5. Complete(pub', authority', pending', gesture', dmm', Awaiting')
    BY <1>1, <2>1, <2>3, <2>4 DEF Complete
  <2>6. Consistent(pub', authority', view'.tiles, pending')
    <3>1. Consistent(Drained, authority, authority, pending)
      BY DrainedConsistent DEF AuthoritySound
    <3> QED BY <3>1, <2>1, <2>2
  <2>7. RevisionInv'
    BY <2>2 DEF RevisionInv
  <2> QED BY <2>1, <2>2, <2>5, <2>6, <2>7 DEF DrainInv
<1>3. CASE ~Takes(update)
  <2>1. pub' = update /\ UNCHANGED <<dmm, view>>
    BY <1>3 DEF Process
  <2>2. Complete(pub', authority', pending', gesture', dmm', Awaiting')
    BY <1>1, <2>1
  <2>3. Consistent(pub', authority', view'.tiles, pending')
    BY <2>1
  <2> QED BY <2>1, <2>2, <2>3 DEF DrainInv, RevisionInv
<1> QED BY <1>2, <1>3

LEMMA DrainFrame == ASSUME ShapeInv, CaptureInv, DrainInv, Frame PROVE DrainInv'
<1>1. /\ gesture = Nothing /\ Takes(pub) /\ Process(pub)
      /\ UNCHANGED <<authority, revision, pending, queue, published, gesture>>
  BY DEF Frame, executor
<1>2. pub.ready = TRUE
  BY <1>1 DEF Takes, ShapeInv, SoundUpdate
<1>3. published.tiles = authority
  BY DEF CaptureInv, CaptureIsCurrent
<1>4. published'.revision = revision
  BY <1>1 DEF DrainInv, RevisionInv
<1>5. /\ Complete(pub, authority, pending, Nothing, dmm, Awaiting)
      /\ Consistent(pub, authority, view.tiles, pending) /\ RevisionInv
  BY <1>1 DEF DrainInv
<1>6. AuthoritySound /\ ScreenSound /\ SoundUpdate(pub)
  BY DEF ShapeInv
<1>7. gesture' = Nothing
  BY <1>1
<1> QED BY <1>1, <1>2, <1>3, <1>4, <1>5, <1>6, <1>7, ProcessDrain

(* A gesture that ends leaves the tiles it did not change. *)
LEMMA GestureEnds ==
    ASSUME NEW update, NEW tiles, NEW c, c \notin Touched(Intent) \/ c \in DOMAIN update.display
    PROVE  Shown(update, tiles, Nothing, dmm, c) = Shown(update, tiles, gesture, dmm, c)
<1>1. CASE c \in DOMAIN update.display
  BY <1>1 DEF Shown
<1>2. CASE c \notin Touched(Intent)
  <2>1. c \in DOMAIN gesture => gesture[c] = dmm[c]
    <3>1. ASSUME c \in DOMAIN gesture, gesture[c] # dmm[c]
          PROVE  FALSE
      <4>1. [coord |-> c, before |-> gesture[c], after |-> dmm[c]] \in Intent
        BY <3>1 DEF Intent
      <4>2. [coord |-> c, before |-> gesture[c], after |-> dmm[c]].coord = c
        OBVIOUS
      <4>3. c \in Touched(Intent)
        BY <4>1, <4>2 DEF Touched
      <4> QED BY <4>3, <1>2
    <3> QED BY <3>1
  <2> QED BY <2>1 DEF Shown, Nothing
<1> QED BY <1>1, <1>2

LEMMA DrainCommit == ASSUME ShapeInv, CaptureInv, DrainInv, Commit PROVE DrainInv'
<1>1. gesture' = Nothing /\ UNCHANGED <<authority, revision, pending>>
  BY DEF Commit, executor
<1>2. /\ Complete(pub, authority, pending, gesture, dmm, Awaiting)
      /\ Consistent(pub, authority, view.tiles, pending)
      /\ RevisionInv
  BY DEF DrainInv
<1>3. CASE Intent = {}
  <2>1. UNCHANGED <<queue, pub, published, dmm, view>>
    BY <1>3 DEF Commit
  <2>2. Touched(Intent) = {}
    BY <1>3 DEF Touched
  <2>3. Complete(pub, authority, pending, Nothing, dmm, Awaiting)
    BY <1>2, <2>2, GestureEnds DEF Complete
  <2>4. Awaiting' = Awaiting
    BY <2>1 DEF Awaiting
  <2>5. Complete(pub', authority', pending', gesture', dmm', Awaiting')
    BY <1>1, <2>1, <2>3, <2>4
  <2>6. Consistent(pub', authority', view'.tiles, pending')
    BY <1>1, <1>2, <2>1
  <2> QED BY <1>1, <2>1, <2>5, <2>6 DEF DrainInv, RevisionInv
<1>4. CASE Intent # {} /\ ~suspended
  <2>1. PICK e : e = [id |-> edits, changes |-> Intent, base |-> published.revision,
                      phase |-> "queued", interrupted |-> FALSE]
    OBVIOUS
  <2>2. queue' = Append(queue, e) /\ Reserve /\ UNCHANGED <<pub, dmm, view>>
    BY <1>4, <2>1 DEF Commit
  <2>3. e.phase = "queued" /\ e.changes = Intent
    BY <2>1
  <2>4. Awaiting \cup Touched(Intent) \subseteq Awaiting'
    BY <2>2, <2>3, AwaitingAppend DEF ShapeInv
  <2>5. PICK left : left = Awaiting'
    OBVIOUS
  <2>6. ASSUME NEW c \in Coords \ left
        PROVE  Shown(pub, authority, Nothing, dmm, c) = Visible(authority, pending)[c]
    <3>1. c \notin Touched(Intent) /\ c \in Coords \ Awaiting
      BY <2>4, <2>5
    <3> QED BY <3>1, <1>2, GestureEnds DEF Complete
  <2>7. Complete(pub, authority, pending, Nothing, dmm, left)
    BY <2>6 DEF Complete
  <2>8. Complete(pub', authority', pending', gesture', dmm', Awaiting')
    BY <1>1, <2>2, <2>5, <2>7
  <2>9. Consistent(pub', authority', view'.tiles, pending')
    BY <1>1, <1>2, <2>2
  <2>10. published'.revision = published.revision
    BY <2>2 DEF Reserve, CaptureInv
  <2> QED BY <1>1, <2>2, <2>8, <2>9, <2>10 DEF DrainInv, RevisionInv
<1>5. CASE Intent # {} /\ suspended
  <2>1. PICK explicit, update : explicit = Touched(Intent)
                                /\ update = Accumulated(authority, owners, pending, {}, explicit, TRUE)
    OBVIOUS
  <2>2. /\ Process(update) /\ UNCHANGED queue
        /\ published' = [published EXCEPT !.hasPending = pending # <<>> \/ queue # <<>>]
    BY <1>5, <2>1 DEF Commit
  <2>3. PICK tiles, index, ops, base, waiting :
           tiles = authority /\ index = owners /\ ops = pending /\ base = view.tiles /\ waiting = Awaiting
    OBVIOUS
  <2>4. Moves(tiles, index, {}, tiles, index)
    BY <2>3, NothingMoves DEF ShapeInv, AuthoritySound
  <2>5. explicit \subseteq Coords
    BY <2>1, IntentSound, TouchedCoords DEF ShapeInv
  <2>6. PICK redraw : redraw = Redraw(tiles, index, pending, ops, {}, explicit, TRUE)
    OBVIOUS
  <2>7. SoundUpdate(pub) /\ SoundEdits(pending) /\ SoundEdits(ops) /\ {} \subseteq Change
    BY <2>3 DEF ShapeInv, EditsSound
  <2>8. /\ waiting \ waiting \subseteq DOMAIN redraw
        /\ TouchedBy(ops) \subseteq TouchedBy(pending) \cup DOMAIN redraw
    BY <2>3
  <2>9. update = Accumulated(tiles, index, ops, {}, explicit, TRUE)
    BY <2>1, <2>3
  <2>10. /\ Complete(pub, tiles, pending, gesture, dmm, waiting)
         /\ Consistent(pub, tiles, base, pending)
    BY <1>2, <2>3
  <2>11. /\ Complete(update, tiles, ops, gesture, dmm, waiting)
         /\ Consistent(update, tiles, base, ops)
    <3>1. PICK force, held, screen : force = TRUE /\ held = gesture /\ screen = dmm
      OBVIOUS
    <3>2. /\ redraw = Redraw(tiles, index, pending, ops, {}, explicit, force)
          /\ update = Accumulated(tiles, index, ops, {}, explicit, force)
      BY <2>6, <2>9, <3>1
    <3>3. Complete(pub, tiles, pending, held, screen, waiting)
      BY <2>10, <3>1
    <3>4. /\ Complete(update, tiles, ops, held, screen, waiting)
          /\ Consistent(update, tiles, base, ops)
      BY <2>4, <2>5, <2>7, <2>8, <2>10, <3>2, <3>3, AccumulatedComplete
    <3> QED BY <3>1, <3>4
  <2>12. explicit \subseteq DOMAIN update.display
    <3>1. Publishes(tiles, index, {}, tiles, index, pending, ops, explicit, TRUE, redraw)
      BY <2>4, <2>5, <2>6, <2>7 DEF Publishes
    <3>2. explicit \subseteq DOMAIN redraw
      BY <3>1, RedrawForced
    <3>3. DOMAIN update.display = DOMAIN redraw \cup DOMAIN pub.display
      BY <2>6, <2>9 DEF Accumulated, Over
    <3> QED BY <3>2, <3>3
  <2>13. Complete(update, tiles, ops, Nothing, dmm, waiting)
    BY <2>1, <2>11, <2>12, GestureEnds DEF Complete
  <2>14. SoundUpdate(update) /\ update.ready = TRUE
    BY <2>3, <2>5, <2>7, <2>9, AccumulatedSound DEF ShapeInv, AuthoritySound
  <2>15. /\ Complete(update, authority, pending, Nothing, dmm, Awaiting)
         /\ Consistent(update, authority, view.tiles, pending)
    BY <2>3, <2>11, <2>13
  <2>16. published.tiles = authority
    BY DEF CaptureInv, CaptureIsCurrent
  <2>17. published'.revision = revision
    BY <2>2, <1>2 DEF CaptureInv, RevisionInv
  <2>18. AuthoritySound /\ ScreenSound
    BY DEF ShapeInv
  <2> QED BY <1>1, <1>2, <2>2, <2>14, <2>15, <2>16, <2>17, <2>18, ProcessDrain
<1> QED BY <1>3, <1>4, <1>5

LEMMA DrainInit == ASSUME Init PROVE DrainInv
<1>1. /\ authority = InitialTiles /\ pending = <<>> /\ pub = Drained /\ gesture = Nothing
      /\ dmm = Total(authority) /\ view.tiles = authority /\ view.fault = FALSE
      /\ revision = 0 /\ published.revision = 0 /\ view.revision = 0
  BY DEF Init
<1>2. Table(authority)
  BY ShapeInit DEF ShapeInv, AuthoritySound
<1>3. SoundEdits(pending) /\ TouchedBy(pending) = {}
  <2>1. Len(pending) = 0
    BY <1>1, EmptyIs
  <2>2. 1..0 = {}
    OBVIOUS
  <2> QED BY <2>1, <2>2, ShapeInit DEF TouchedBy, ShapeInv, EditsSound
<1>4. ASSUME NEW c \in Coords
      PROVE  Shown(Drained, authority, Nothing, dmm, c) = Visible(authority, pending)[c]
  <2>1. Shown(Drained, authority, Nothing, dmm, c) = dmm[c]
    BY DrainedShows DEF Nothing
  <2>2. dmm[c] = TileOf(authority, c)
    BY <1>1, <1>2, TotalTyped
  <2>3. Visible(authority, pending)[c] = TileOf(authority, c)
    BY <1>2, <1>3, UntouchedIs
  <2> QED BY <2>1, <2>2, <2>3
<1>5. Complete(pub, authority, pending, gesture, dmm, Awaiting)
  BY <1>1, <1>4 DEF Complete
<1>6. Consistent(pub, authority, view.tiles, pending)
  BY <1>1, <1>2, DrainedConsistent
<1> QED BY <1>1, <1>5, <1>6 DEF DrainInv, RevisionInv

LEMMA DrainStep == ASSUME ShapeInv, ShapeInv', CaptureInv, DrainInv, [Next]_vars PROVE DrainInv'
<1>1. CASE Resume \/ UNCHANGED vars
  <2>1. UNCHANGED <<authority, revision, pending, queue, pub, published, dmm, view, gesture>>
    BY <1>1 DEF Resume, vars, editor
  <2>2. Awaiting \subseteq Awaiting' /\ published'.revision = revision
    BY <2>1 DEF Awaiting, DrainInv, RevisionInv
  <2> QED BY <2>1, <2>2, DrainKept
<1> QED
  BY <1>1, DrainFrame, DrainOpen, DrainCommit, DrainDispatch, DrainRefuse, DrainFail, DrainFinish,
     DrainAccepted, DrainRemote, DrainRejected, DrainSuspend, DrainReplace
     DEF Next, UI, Goroutine, Network

(* Between gestures, with no edit being admitted, installing what has        *)
(* accumulated gives exactly the projection and the acknowledged table, and   *)
(* the editor never refuses it: whatever order edits were made, answered,     *)
(* refused, rolled back and replaced in (beginPublicationLocked,              *)
(* TakePresentationUpdate, installPresentationUpdate).                        *)
THEOREM DrainShowsProjectionTheorem == Spec => []DrainShowsProjection
<1>1. ASSUME ShapeInv, CaptureInv, DrainInv
      PROVE  DrainShowsProjection
  <2>1. ~view.fault /\ RevisionInv
    BY <1>1 DEF DrainInv, RevisionInv
  <2>2. ASSUME gesture = Nothing, queue = <<>>
        PROVE  /\ (IF pub.ready THEN Redrawn(pub) ELSE dmm) = Visible(authority, pending)
               /\ (IF pub.ready THEN Installed(pub) ELSE view).tiles = authority
    <3>1. Awaiting = {}
      <4>1. Len(queue) = 0
        BY <2>2, EmptyIs
      <4> QED BY <4>1 DEF Awaiting
    <3>2. \A c \in Coords : Shown(pub, authority, Nothing, dmm, c) = Visible(authority, pending)[c]
      BY <1>1, <2>2, <3>1 DEF DrainInv, Complete
    <3>3. Visible(authority, pending) \in [Coords -> Seq(StableIDs)]
      BY <1>1, VisibleTyped DEF ShapeInv, AuthoritySound, EditsSound, SoundEdits, IsSequence
    <3>4. CASE pub.ready
      <4>1. /\ Redrawn(pub) = [c \in Coords |-> Shown(pub, authority, Nothing, dmm, c)]
            /\ \A v : v = Installed(pub) => v.tiles = authority
        BY <1>1, <2>1, InstallShows DEF ShapeInv, AuthoritySound, CaptureInv, CaptureIsCurrent, DrainInv
      <4> QED BY <3>2, <3>3, <3>4, <4>1
    <3>5. CASE ~pub.ready
      <4>1. pub = Drained /\ view.tiles = authority
        BY <1>1, <3>5 DEF DrainInv
      <4>2. \A c \in Coords : dmm[c] = Visible(authority, pending)[c]
        <5>1. \A c \in Coords : Shown(Drained, authority, Nothing, dmm, c) = dmm[c]
          BY DrainedShows DEF Nothing
        <5> QED BY <5>1, <4>1, <3>2
      <4>3. dmm \in [Coords -> Seq(StableIDs)]
        BY <1>1 DEF ShapeInv, ScreenSound
      <4>4. dmm = Visible(authority, pending)
        BY <4>2, <4>3, <3>3
      <4> QED BY <4>1, <4>4, <3>5
    <3> QED BY <3>4, <3>5
  <2> QED BY <2>1, <2>2 DEF DrainShowsProjection
<1>2. Spec => [](ShapeInv /\ CaptureInv /\ DrainInv)
  <2>1. Init => ShapeInv /\ CaptureInv /\ DrainInv
    BY ShapeInit, CaptureInit, DrainInit
  <2>2. ShapeInv /\ CaptureInv /\ DrainInv /\ [Next]_vars => ShapeInv' /\ CaptureInv' /\ DrainInv'
    BY ShapeStep, CaptureStep, DrainStep
  <2> QED BY <2>1, <2>2, PTL DEF Spec
<1> QED BY <1>1, <1>2, PTL
=================================================================================
