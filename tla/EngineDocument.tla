------------------------------ MODULE EngineDocument ------------------------------
(***************************************************************************)
(* One engine.Document in the hands of its owner: operations arrive from   *)
(* several actors against any revision they have seen, and an inverse is   *)
(* built in one turn of the owner and submitted in a later one             *)
(* (server.Hub.Inverse), with other actors' operations in between.         *)
(***************************************************************************)
EXTENDS Engine

CONSTANTS
    Shapes,         \* the edits tried: sets of <<coordinate, new tile state>>
    FirstTiles,     \* the tables a session may start from
    MaxRevision,    \* bound: operations accepted in a behaviour
    MaxLag          \* bound: revisions an editor's base may be behind

ASSUME EngineDocumentAssumption ==
    /\ MaxRevision \in Nat
    /\ MaxLag \in Nat
    /\ IsFiniteSet(Coords)
    /\ \A tiles \in FirstTiles : ValidSnapshot(tiles)

VARIABLES
    doc,            \* the document
    built           \* an inverse built and not yet submitted, or None

vars == <<doc, built>>

Init ==
    /\ \E tiles \in FirstTiles : doc = NewDocument(tiles, 0)
    /\ built = None

-----------------------------------------------------------------------------------
(* ApplyContext.  Wrong documents are turned away first; a known operation  *)
(* ID returns its original result or is refused for naming other content;   *)
(* neither changes the document, and nor does a rejection.                  *)
ApplyContext(op) ==
    \/ /\ \/ op.header = "wrong_document"
          \/ op.id \in DOMAIN doc.accepted
          \/ Validate(doc, op) # {}
       /\ UNCHANGED doc
    \/ /\ op.header # "wrong_document"
       /\ op.id \notin DOMAIN doc.accepted
       /\ Validate(doc, op) = {}
       /\ doc' = Accept(doc, op)

Bounded == doc.revision < MaxRevision

Bases == {r \in DOMAIN doc.hashes : doc.revision - r <= MaxLag}

(* What an editor that has seen revision `base` sends: its before-values    *)
(* are the tiles it saw there.                                              *)
Edit(base, shape) ==
    {[coord |-> w[1], before |-> TileOf(doc.hashes[base], w[1]), after |-> w[2]] : w \in shape}

Operation(id, actor, base, kind, changes, target) ==
    [id |-> id, actor |-> actor, header |-> "valid", base |-> base,
     baseHash |-> doc.hashes[base], kind |-> kind, changes |-> changes, inverseOf |-> target]

SubmitEdit(id, actor) ==
    /\ Bounded
    /\ \E base \in Bases, shape \in Shapes :
          ApplyContext(Operation(id, actor, base, "tile_change", Edit(base, shape), None))
    /\ UNCHANGED built

(* A client may also compose an inverse itself: right or wrong changes,     *)
(* any target, on any base.                                                 *)
SubmitInverse(id, actor) ==
    /\ Bounded
    /\ \E base \in Bases, target \in OperationIDs \cup {None} :
       \E undone \in DOMAIN doc.accepted :
          ApplyContext(Operation(id, actor, base, "inverse",
                                 Reversed(doc.accepted[undone].op.changes), target))
    /\ UNCHANGED built

(* Operations damaged in their header, base or change count. *)
SubmitMalformed(id, actor) ==
    /\ Bounded
    /\ \E shape \in Shapes :
       LET op == Operation(id, actor, doc.revision, "tile_change", Edit(doc.revision, shape), None) IN
          \/ \E code \in {"wrong_document", "wrong_environment", "invalid_operation"} :
                ApplyContext([op EXCEPT !.header = code])
          \/ ApplyContext([op EXCEPT !.base = doc.revision + 1])
          \/ ApplyContext([op EXCEPT !.base = 0])
          \/ ApplyContext([op EXCEPT !.inverseOf = id])
          \/ ApplyContext([op EXCEPT !.changes = {}])
    /\ UNCHANGED built

Resubmit(id) ==
    /\ id \in DOMAIN doc.accepted
    /\ ApplyContext(doc.accepted[id].op)
    /\ UNCHANGED built

(* The first turn of Hub.Inverse, under a fresh operation ID. *)
BuildInverse(actor, target, id) ==
    /\ built = None
    /\ Bounded
    /\ id \notin DOMAIN doc.accepted
    /\ BuildObjections(doc, actor, target) = {}
    /\ built' = InverseOperation(doc, actor, target, id)
    /\ UNCHANGED doc

(* The second turn. *)
SubmitBuilt ==
    /\ Bounded
    /\ built # None
    /\ ApplyContext(built)
    /\ built' = None

Next ==
    \/ \E id \in OperationIDs, actor \in Actors :
          \/ SubmitEdit(id, actor)
          \/ SubmitInverse(id, actor)
          \/ SubmitMalformed(id, actor)
          \/ \E target \in OperationIDs : BuildInverse(actor, target, id)
    \/ \E id \in OperationIDs : Resubmit(id)
    \/ SubmitBuilt

Spec == Init /\ [][Next]_vars

-----------------------------------------------------------------------------------
Changes == [coord : Coords, before : Seq(StableIDs), after : Seq(StableIDs)]

TypeOK ==
    /\ doc.revision \in 0..MaxRevision
    /\ DOMAIN doc.tiles \subseteq Coords
    /\ DOMAIN doc.hashes = 0..doc.revision
    /\ DOMAIN doc.accepted \subseteq OperationIDs
    /\ DOMAIN doc.owners \subseteq StableIDs
    /\ \A id \in DOMAIN doc.accepted : doc.accepted[id].op.changes \subseteq Changes
    /\ built = None \/ built.id \in OperationIDs

(* The incrementally maintained identity index is the one a scan of the     *)
(* whole map would build, and no stable ID is on two tiles or twice on one. *)
(* ApplyContext trusts this instead of revalidating the map.                *)
IdentityIndexExact ==
    /\ ValidSnapshot(doc.tiles)
    /\ doc.owners = IndexState(doc.tiles)

(* Every retained hash but the first is explained by exactly one accepted   *)
(* operation: its before-values held on the previous revision's table and   *)
(* its after-values turn that table into this one.                          *)
HistoryReplays ==
    /\ doc.tiles = doc.hashes[doc.revision]
    /\ \A r \in 1..doc.revision :
          /\ \E id \in DOMAIN doc.accepted : doc.accepted[id].revision = r
          /\ \A id \in DOMAIN doc.accepted : doc.accepted[id].revision = r =>
                LET changes == doc.accepted[id].op.changes IN
                /\ \A x \in changes : TileOf(doc.hashes[r - 1], x.coord) = x.before
                /\ doc.hashes[r] = Install(doc.hashes[r - 1], changes)

(* An operation is undone at most once, only by its own author, and undoing *)
(* it puts every tile it touched back to what it was just before it, even   *)
(* when other actors edited other tiles in between.                         *)
InverseRestores ==
    /\ \A target \in DOMAIN doc.inverted :
          LET undo == doc.accepted[doc.inverted[target]]
              done == doc.accepted[target]
          IN  /\ undo.op.actor = done.op.actor
              /\ done.op.kind = "tile_change"
              /\ undo.revision > done.revision
              /\ \A c \in Touched(done.op.changes) :
                    TileOf(doc.hashes[undo.revision], c) = TileOf(doc.hashes[done.revision - 1], c)
    /\ \A id \in DOMAIN doc.accepted :
          doc.accepted[id].op.kind = "inverse" =>
              doc.inverted[doc.accepted[id].op.inverseOf] = id

(* Recovery from a snapshot published at any retained revision, with the    *)
(* full history, passes every check of RestoreAt and rebuilds exactly the   *)
(* document the owner holds: history, hashes, undo records and index.       *)
RestoreAgrees ==
    \A r \in DOMAIN doc.hashes :
        Restore(doc.hashes[r], r, doc.accepted, doc.hashes, doc.revision) = {doc}

(* An inverse the engine built and nothing overtook is accepted when it is  *)
(* submitted, unless an identity it would bring back now lives elsewhere.   *)
BuiltInverseLands ==
    [][(SubmitBuilt /\ built.base = doc.revision) =>
          \/ doc'.revision = doc.revision + 1
          \/ \E x \in built.changes : \E s \in IDs(x.after) :
                s \in DOMAIN doc.owners /\ doc.owners[s] \notin Touched(built.changes)]_vars

===================================================================================
