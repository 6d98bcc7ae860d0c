-------------------------------- MODULE Projection --------------------------------
(***************************************************************************)
(* What the client shows: the acknowledged tile table with the edits that  *)
(* are pending on top.  The executor keeps it sparse (an overlay of tiles   *)
(* and of owners over the acknowledged index) and compares two overlays to  *)
(* find the tiles a publication has to redraw; Projection.Visible computes  *)
(* it from the whole snapshot.  An edit that does not fit is hidden, not    *)
(* dropped: the server decides about it.                                    *)
(*                                                                         *)
(* Edits are records with a set of changes, as in Engine.                   *)
(***************************************************************************)
EXTENDS Engine

(* f over g: the entries of f, and those of g where f has none. *)
Over(f, g) == [x \in DOMAIN f \cup DOMAIN g |-> IF x \in DOMAIN f THEN f[x] ELSE g[x]]

Nothing == [x \in {} |-> None]

AfterTiles(changes) == [c \in Touched(changes) |-> After(changes, c)]

(* The tiles and owners a reader of the overlay sees.  An owner that the     *)
(* overlay sets to None is a tombstone.                                      *)
TileView(overlay, tiles) ==
    [c \in Coords |-> IF c \in DOMAIN overlay.tiles THEN overlay.tiles[c] ELSE TileOf(tiles, c)]

OwnerView(overlay, owners) ==
    [s \in StableIDs |-> IF s \in DOMAIN overlay.owners THEN overlay.owners[s]
                         ELSE IF s \in DOMAIN owners THEN owners[s] ELSE None]

-----------------------------------------------------------------------------------
(* The checks of projectionOverlay.apply, of effectiveProjectionOverlay and  *)
(* of projectionIndex.apply: the values before, and identities that are new, *)
(* or that come from a tile this edit changes too.                           *)
Fits(tile, owner, changes) ==
    /\ Distinct(changes)
    /\ \A x \in changes : x.coord \in Coords /\ tile[x.coord] = x.before
    /\ \A x \in changes : ~Repeats(x.after)
    /\ \A x, y \in changes : x # y => IDs(x.after) \cap IDs(y.after) = {}
    /\ \A x \in changes : \A s \in IDs(x.after) : owner[s] \in Touched(changes) \cup {None}

(* Every identity leaves its old tile before any is given a new one. *)
MovedOwners(changes) ==
    [s \in UNION {IDs(x.before) \cup IDs(x.after) : x \in changes} |->
        IF \E x \in changes : s \in IDs(x.after)
        THEN (CHOOSE x \in changes : s \in IDs(x.after)).coord ELSE None]

OverlayApply(overlay, tiles, owners, changes) ==
    IF Fits(TileView(overlay, tiles), OwnerView(overlay, owners), changes)
      THEN [tiles  |-> Over(AfterTiles(changes), overlay.tiles),
            owners |-> Over(MovedOwners(changes), overlay.owners)]
      ELSE overlay

NoOverlay == [tiles |-> Nothing, owners |-> Nothing]

(* rebuildVisibleLocked, and effectiveProjectionOverlay from given overrides. *)
Overlay(start, tiles, owners, ops) ==
    LET after[i \in 0..Len(ops)] ==
          IF i = 0 THEN start ELSE OverlayApply(after[i - 1], tiles, owners, ops[i].changes)
    IN  after[Len(ops)]

-----------------------------------------------------------------------------------
(* Projection.Visible: the same on a copy of the whole snapshot, with indexes *)
(* built for the call.                                                        *)
IndexApply(view, changes) ==
    IF Fits(TileView(NoOverlay, view.tiles), OwnerView(NoOverlay, view.owners), changes)
      THEN [tiles  |-> Install(view.tiles, changes),
            owners |-> UpdateIdentityOwners(view.owners, changes)]
      ELSE view

Visible(tiles, ops) ==
    LET after[i \in 0..Len(ops)] ==
          IF i = 0 THEN [tiles |-> tiles, owners |-> IndexState(tiles)]
                   ELSE IndexApply(after[i - 1], ops[i].changes)
    IN  TileView(NoOverlay, after[Len(ops)].tiles)

-----------------------------------------------------------------------------------
(* applyAuthorityChanges: owners of the old payloads go first. *)
AuthorityOwners_AssignFirst(owners, tiles, changes) ==
    LET removed == UNION {IDs(TileOf(tiles, x.coord)) : x \in changes}
        added   == [s \in UNION {IDs(x.after) : x \in changes} |->
                       (CHOOSE x \in changes : s \in IDs(x.after)).coord]
        both    == Over(added, owners)
    IN  [s \in DOMAIN both \ removed |-> both[s]]

AuthorityOwners(owners, tiles, changes) ==
    Over([s \in UNION {IDs(x.after) : x \in changes} |->
             (CHOOSE x \in changes : s \in IDs(x.after)).coord],
         [s \in DOMAIN owners \ UNION {IDs(TileOf(tiles, x.coord)) : x \in changes} |-> owners[s]])

TouchedBy(ops) == UNION {Touched(ops[i].changes) : i \in 1..Len(ops)}

(* beginPublicationLocked runs when the authority has already changed, so it  *)
(* takes the old view from the changes' own before-values: a tile's old state *)
(* and the old owners of the identities they name.                            *)
Previously_Authority(changes) == NoOverlay

Previously(changes) ==
    [tiles  |-> [c \in Touched(changes) |-> (CHOOSE x \in changes : x.coord = c).before],
     owners |-> [s \in UNION {IDs(x.before) \cup IDs(x.after) : x \in changes} |->
                    IF \E x \in changes : s \in IDs(x.before)
                    THEN (CHOOSE x \in changes : s \in IDs(x.before)).coord ELSE None]]

(* The tiles to redraw, with their new states. *)
Redraw(tiles, owners, previous, next, changes, explicit, force) ==
    LET before == TileView(Overlay(Previously(changes), tiles, owners, previous), tiles)
        after  == TileView(Overlay(NoOverlay, tiles, owners, next), tiles)
        coords == Touched(changes) \cup explicit \cup TouchedBy(previous) \cup TouchedBy(next)
    IN  [c \in {d \in coords : force \/ before[d] # after[d]} |-> after[c]]
===================================================================================
