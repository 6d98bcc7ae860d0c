---------------------------------- MODULE Engine ----------------------------------
(***************************************************************************)
(* The operation engine (internal/aphelion/collab/engine): the pure        *)
(* functions that decide whether an operation applies to a document and    *)
(* what the document becomes.  A document is the record                    *)
(*                                                                         *)
(*   revision   the current revision                                       *)
(*   tiles      the tile table, a function on the stored coordinates only: *)
(*              an absent tile reads as the empty state, but the canonical *)
(*              hash tells a stored empty tile from an absent one          *)
(*   hashes     every retained revision -> the canonical hash at it        *)
(*   accepted   operation ID -> [op, revision], normalised                 *)
(*   inverted   target operation ID -> ID of the inverse that undid it     *)
(*   owners     the identity index, stable ID -> coordinate                *)
(*                                                                         *)
(* A tile state is the sequence of the stable IDs of its prefabs (paths    *)
(* and variables ride along with the ID).  The canonical hash is           *)
(* collision-free here: it is the tile table itself.                       *)
(***************************************************************************)
EXTENDS Integers, Sequences, FiniteSets

CONSTANTS
    Coords,         \* the coordinates inside the document's dimensions
    StableIDs,      \* identities of prefabs
    Actors,
    OperationIDs,
    None            \* the nil InverseOf pointer, an empty reply slot

ASSUME NoneAssumption == None \notin OperationIDs

IDs(state) == {state[i] : i \in DOMAIN state}

(* Snapshot.Contains is membership in Coords; Snapshot.CellCount its size. *)
CellCount == Cardinality(Coords)

Repeats(state) == \E i, j \in DOMAIN state : i # j /\ state[i] = state[j]

(* model.Snapshot.Validate: unique coordinates (a function has no others), *)
(* all inside the document, and stable IDs unique over the whole map.      *)
ValidSnapshot(tiles) ==
    /\ DOMAIN tiles \subseteq Coords
    /\ \A c \in DOMAIN tiles : ~ Repeats(tiles[c])
    /\ \A c, d \in DOMAIN tiles : c # d => IDs(tiles[c]) \cap IDs(tiles[d]) = {}

Occupied(tiles) == UNION {IDs(tiles[c]) : c \in DOMAIN tiles}

(* indexState: the identity index computed from scratch. *)
IndexState(tiles) ==
    [s \in Occupied(tiles) |-> CHOOSE c \in DOMAIN tiles : s \in IDs(tiles[c])]

NewDocument(tiles, revision) ==
    [revision |-> revision,
     tiles    |-> tiles,
     hashes   |-> [r \in {revision} |-> tiles],
     accepted |-> [o \in {} |-> None],
     inverted |-> [o \in {} |-> None],
     owners   |-> IndexState(tiles)]

TileOf(tiles, c) == IF c \in DOMAIN tiles THEN tiles[c] ELSE << >>

Tile(doc, c) == TileOf(doc.tiles, c)

-----------------------------------------------------------------------------------
(* An operation's changes are a set of records [coord, before, after]:      *)
(* ApplyContext sorts them by coordinate, so the order they arrive in says  *)
(* nothing, and model.SameOperation (every field counts, the order of       *)
(* changes does not) is equality.  A coordinate named twice is two records. *)

Touched(changes) == {change.coord : change \in changes}

Distinct(changes) == \A x, y \in changes : x.coord = y.coord => x = y

-----------------------------------------------------------------------------------
(* Validation returns the codes a rejection may carry, {} when there is no  *)
(* objection.  Where the code loops over changes in coordinate order and    *)
(* stops at the first bad one, each bad change's code is possible.          *)

Objection(condition, code) == IF condition THEN {code} ELSE {}

(* validateContext up to the change count.  op.header stands for the        *)
(* protocol version, the identifiers and the environment hash.              *)
HeaderObjections(doc, op) ==
    IF op.header # "valid"
        THEN {op.header}
    ELSE IF op.base \notin DOMAIN doc.hashes
        THEN {"unknown_base_revision"}
    ELSE IF op.baseHash # doc.hashes[op.base]
        THEN {"base_hash_mismatch"}
    ELSE Objection(\/ op.kind = "tile_change" /\ op.inverseOf # None
                   \/ Cardinality(op.changes) \notin 1..CellCount,
                   "invalid_operation")

(* The changes that undo `changes`, one for one. *)
Reversed(changes) ==
    {[coord |-> change.coord, before |-> change.after, after |-> change.before] :
        change \in changes}

(* Mutant of InverseObjections: anybody may undo the operation. *)
InverseObjections_AnyAuthor(doc, op) ==
    IF op.kind = "tile_change"
        THEN {}
    ELSE IF op.inverseOf \notin DOMAIN doc.accepted
        THEN {"operation_not_found"}
    ELSE Objection(\/ doc.accepted[op.inverseOf].op.kind = "inverse"
                   \/ op.inverseOf \in DOMAIN doc.inverted
                   \/ op.changes # Reversed(doc.accepted[op.inverseOf].op.changes),
                   "invalid_operation")

(* validateInverseContext *)
InverseObjections(doc, op) ==
    IF op.kind = "tile_change"
        THEN {}
    ELSE IF op.inverseOf = None
        THEN {"invalid_operation"}
    ELSE IF op.inverseOf \notin DOMAIN doc.accepted
        THEN {"operation_not_found"}
    ELSE LET target == doc.accepted[op.inverseOf].op IN
         IF target.actor # op.actor
             THEN {"actor_mismatch"}
         ELSE IF target.kind = "inverse"
             THEN {"invalid_operation"}
         ELSE IF op.inverseOf \in DOMAIN doc.inverted
             THEN {"already_inverted"}
         ELSE Objection(op.changes # Reversed(target.changes), "invalid_operation")

(* Mutant of PlaceObjections: before-values left unchecked. *)
PlaceObjections_NoPrecondition(doc, changes) ==
    Objection(~ Distinct(changes), "invalid_operation") \cup
    Objection(\E x \in changes : x.coord \notin Coords, "out_of_bounds")

(* The first loop of validateChanges: coordinates and before-values. *)
PlaceObjections(doc, changes) ==
    Objection(~ Distinct(changes), "invalid_operation") \cup
    Objection(\E x \in changes : x.coord \notin Coords, "out_of_bounds") \cup
    Objection(\E x \in changes : x.coord \in Coords /\ Tile(doc, x.coord) # x.before,
              "precondition_failed")

(* The second loop: no stable ID twice among the after-values, and an ID    *)
(* owned by a tile may only reappear if that tile is changed as well.       *)
IdentityObjections(doc, changes) ==
    Objection(\/ \E x \in changes : Repeats(x.after)
              \/ \E x, y \in changes : x # y /\ IDs(x.after) \cap IDs(y.after) # {}
              \/ \E x \in changes : \E s \in IDs(x.after) :
                    s \in DOMAIN doc.owners /\ doc.owners[s] \notin Touched(changes),
              "invalid_operation")

ValidateChanges(doc, changes) ==
    IF PlaceObjections(doc, changes) # {}
        THEN PlaceObjections(doc, changes)
        ELSE IdentityObjections(doc, changes)

(* validateContext *)
Validate(doc, op) ==
    IF HeaderObjections(doc, op) # {}
        THEN HeaderObjections(doc, op)
    ELSE IF InverseObjections(doc, op) # {}
        THEN InverseObjections(doc, op)
        ELSE ValidateChanges(doc, op.changes)

-----------------------------------------------------------------------------------
(* The after-value at a touched coordinate; validation made it unique. *)
After(changes, c) == (CHOOSE x \in changes : x.coord = c).after

Install(tiles, changes) ==
    [c \in DOMAIN tiles \cup Touched(changes) |->
        IF c \in Touched(changes) THEN After(changes, c) ELSE tiles[c]]

(* Mutant of UpdateIdentityOwners: assigns first and deletes second. *)
UpdateIdentityOwners_AssignFirst(owners, changes) ==
    LET removed == UNION {IDs(x.before) : x \in changes}
        added   == UNION {IDs(x.after) : x \in changes}
    IN  [s \in (DOMAIN owners \cup added) \ removed |->
            IF s \in added THEN (CHOOSE x \in changes : s \in IDs(x.after)).coord
                           ELSE owners[s]]

(* updateIdentityOwners: every before-ID is deleted first, every after-ID   *)
(* is assigned second, so an ID may move between two changed tiles.         *)
UpdateIdentityOwners(owners, changes) ==
    LET removed == UNION {IDs(x.before) : x \in changes}
        added   == UNION {IDs(x.after) : x \in changes}
    IN  [s \in (DOMAIN owners \ removed) \cup added |->
            IF s \in added THEN (CHOOSE x \in changes : s \in IDs(x.after)).coord
                           ELSE owners[s]]

Extend(f, key, value) == [x \in DOMAIN f \cup {key} |-> IF x = key THEN value ELSE f[x]]

(* The part of ApplyContext after validation. *)
Accept(doc, op) ==
    LET next  == doc.revision + 1
        table == Install(doc.tiles, op.changes)
    IN  [revision |-> next,
         tiles    |-> table,
         hashes   |-> Extend(doc.hashes, next, table),
         accepted |-> Extend(doc.accepted, op.id, [op |-> op, revision |-> next]),
         inverted |-> IF op.inverseOf = None
                        THEN doc.inverted
                        ELSE Extend(doc.inverted, op.inverseOf, op.id),
         owners   |-> UpdateIdentityOwners(doc.owners, op.changes)]

-----------------------------------------------------------------------------------
(* Mutant of BuildObjections: does not look at the current tiles. *)
BuildObjections_NoCurrent(doc, actor, target) ==
    IF target \notin DOMAIN doc.accepted
        THEN {"operation_not_found"}
        ELSE Objection(\/ doc.accepted[target].op.actor # actor
                       \/ target \in DOMAIN doc.inverted
                       \/ doc.accepted[target].op.kind = "inverse", "invalid_operation")

(* BuildInverseContext: the codes it may reject with ... *)
BuildObjections(doc, actor, target) ==
    IF target \notin DOMAIN doc.accepted
        THEN {"operation_not_found"}
    ELSE LET prior == doc.accepted[target].op IN
         IF prior.actor # actor
             THEN {"actor_mismatch"}
         ELSE IF target \in DOMAIN doc.inverted
             THEN {"already_inverted"}
         ELSE IF prior.kind = "inverse"
             THEN {"invalid_operation"}
         ELSE Objection(\E x \in prior.changes : Tile(doc, x.coord) # x.after,
                        "precondition_failed")

(* ... and the operation it builds on the current revision. *)
InverseOperation(doc, actor, target, id) ==
    [id        |-> id,
     actor     |-> actor,
     header    |-> "valid",
     base      |-> doc.revision,
     baseHash  |-> doc.hashes[doc.revision],
     kind      |-> "inverse",
     changes   |-> Reversed(doc.accepted[target].op.changes),
     inverseOf |-> target]

-----------------------------------------------------------------------------------
(* RecoveryState.Restore: the document rebuilt from a snapshot (the table   *)
(* `tiles` at revision `from`), the complete accepted history and every     *)
(* retained hash: a set of one, or of none when a check of the rows fails.  *)

Entry(accepted, r) == accepted[CHOOSE id \in DOMAIN accepted : accepted[id].revision = r]

(* A row folded into the snapshot is validated against its own before-      *)
(* values, and recorded without being applied again.                        *)
Revalidates(partial, entry) ==
    LET before    == [c \in Touched(entry.op.changes) |->
                        (CHOOSE x \in entry.op.changes : x.coord = c).before]
        validator == [NewDocument(before, entry.revision - 1) EXCEPT
                        !.hashes = partial.hashes, !.accepted = partial.accepted,
                        !.inverted = partial.inverted]
    IN  /\ entry.op.base < entry.revision
        /\ ValidSnapshot(before)
        /\ Validate(validator, entry.op) = {}

(* Mutant of Recorded: forgets that the row undid another. *)
Recorded_NoUndo(partial, entry) ==
    [partial EXCEPT !.accepted = Extend(@, entry.op.id, entry)]

Recorded(partial, entry) ==
    [partial EXCEPT
        !.accepted = Extend(@, entry.op.id, entry),
        !.inverted = IF entry.op.inverseOf = None THEN @
                       ELSE Extend(@, entry.op.inverseOf, entry.op.id)]

(* The after-value of the last change at c among revisions up to r. *)
Writers(accepted, c, r) ==
    {id \in DOMAIN accepted : accepted[id].revision <= r /\ c \in Touched(accepted[id].op.changes)}

Latest(accepted, c, r) ==
    LET writers == Writers(accepted, c, r)
        last    == CHOOSE id \in writers :
                      \A other \in writers : accepted[other].revision <= accepted[id].revision
    IN  After(accepted[last].op.changes, c)

HistoryChains(accepted, from, entry) ==
    \A x \in entry.op.changes :
        Writers(accepted, x.coord, entry.revision - 1) # {} =>
            Latest(accepted, x.coord, entry.revision - 1) = x.before

ReplayStep(partial, accepted, hashes, from, entry) ==
    LET fresh == {p \in partial : entry.op.id \notin DOMAIN p.accepted} IN
    IF entry.revision <= from
      THEN {Recorded(p, entry) :
              p \in {q \in fresh : Revalidates(q, entry) /\ HistoryChains(accepted, from, entry)}}
      ELSE {Accept(p, entry.op) :
              p \in {q \in fresh : /\ Validate(q, entry.op) = {}
                                  /\ Accept(q, entry.op).tiles = hashes[entry.revision]}}

Restore(tiles, from, accepted, hashes, head) ==
    LET first   == CHOOSE r \in DOMAIN hashes : \A q \in DOMAIN hashes : r <= q
        opened  == [NewDocument(tiles, from) EXCEPT
                      !.hashes = [r \in {q \in DOMAIN hashes : q <= from} |-> hashes[r]]]
        replay[r \in first..head] ==
            IF r = first THEN {opened}
            ELSE ReplayStep(replay[r - 1], accepted, hashes, from, Entry(accepted, r))
        intact  == /\ hashes[from] = tiles
                   /\ \A r \in DOMAIN hashes : r <= head
                   /\ Cardinality(DOMAIN accepted) = head - first
                   /\ Cardinality(DOMAIN hashes) = Cardinality(DOMAIN accepted) + 1
                   /\ \A c \in Coords : Writers(accepted, c, from) # {} =>
                         c \in DOMAIN tiles /\ tiles[c] = Latest(accepted, c, from)
    IN  {rebuilt \in replay[head] : intact /\ rebuilt.tiles = hashes[head]}
===================================================================================
