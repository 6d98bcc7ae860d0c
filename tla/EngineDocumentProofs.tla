--------------------------- MODULE EngineDocumentProofs ---------------------------
(***************************************************************************)
(* Theorems about one engine document, for every set of coordinates,       *)
(* identities, actors, operations and edits and every bound: its identity  *)
(* index is exact, its retained history replays, an undo restores what it  *)
(* undid, an inverse that nothing overtook is accepted, and a recovery     *)
(* from its records rebuilds it.                                           *)
(***************************************************************************)
EXTENDS EngineDocument, EngineProofs

(* ApplyContext keeps the index exact whatever operation it is given. *)
LEMMA ApplyKeepsIndex ==
    ASSUME IdentityIndexExact, NEW op, ApplyContext(op)
    PROVE  IdentityIndexExact'
<1>1. CASE UNCHANGED doc
  BY <1>1 DEF IdentityIndexExact
<1>2. CASE Validate(doc, op) = {} /\ doc' = Accept(doc, op)
  <2>1. PlaceObjections(doc, op.changes) = {} /\ IdentityObjections(doc, op.changes) = {}
    BY <1>2 DEF Validate, ValidateChanges
  <2>2. /\ ValidSnapshot(Install(doc.tiles, op.changes))
        /\ UpdateIdentityOwners(doc.owners, op.changes) = IndexState(Install(doc.tiles, op.changes))
    BY <2>1, IdentityStep DEF IdentityIndexExact
  <2>3. /\ doc'.tiles = Install(doc.tiles, op.changes)
        /\ doc'.owners = UpdateIdentityOwners(doc.owners, op.changes)
    BY <1>2 DEF Accept
  <2> QED
    BY <2>2, <2>3 DEF IdentityIndexExact
<1> QED
  BY <1>1, <1>2 DEF ApplyContext

(* The identity index is exact in every reachable state: ApplyContext may    *)
(* trust it instead of revalidating the whole map after an edit.             *)
THEOREM IdentityIndexTheorem == Spec => []IdentityIndexExact
<1>1. Init => IdentityIndexExact
  BY EngineDocumentAssumption DEF Init, NewDocument, IdentityIndexExact
<1>2. IdentityIndexExact /\ [Next]_vars => IdentityIndexExact'
  <2> SUFFICES ASSUME IdentityIndexExact, [Next]_vars
               PROVE  IdentityIndexExact'
    OBVIOUS
  <2>1. CASE UNCHANGED vars
    BY <2>1 DEF vars, IdentityIndexExact
  <2>2. ASSUME NEW id, NEW actor, SubmitEdit(id, actor)
        PROVE  IdentityIndexExact'
    BY <2>2, ApplyKeepsIndex DEF SubmitEdit
  <2>3. ASSUME NEW id, NEW actor, SubmitInverse(id, actor)
        PROVE  IdentityIndexExact'
    BY <2>3, ApplyKeepsIndex DEF SubmitInverse
  <2>4. ASSUME NEW id, NEW actor, SubmitMalformed(id, actor)
        PROVE  IdentityIndexExact'
    BY <2>4, ApplyKeepsIndex DEF SubmitMalformed
  <2>5. ASSUME NEW id, Resubmit(id)
        PROVE  IdentityIndexExact'
    BY <2>5, ApplyKeepsIndex DEF Resubmit
  <2>6. ASSUME NEW id, NEW actor, NEW target, BuildInverse(actor, target, id)
        PROVE  IdentityIndexExact'
    BY <2>6 DEF BuildInverse, IdentityIndexExact
  <2>7. CASE SubmitBuilt
    BY <2>7, ApplyKeepsIndex DEF SubmitBuilt
  <2> QED
    BY <2>1, <2>2, <2>3, <2>4, <2>5, <2>6, <2>7 DEF Next
<1> QED
  BY <1>1, <1>2, PTL DEF Spec

-----------------------------------------------------------------------------------
(* The history.  What holds of the record of a document besides the          *)
(* properties the runs check, and is needed to carry them over a step.       *)

Kinds == {"tile_change", "inverse"}

WellFormed(op) == op.kind \in Kinds /\ op.id \in OperationIDs

(* Revisions are consecutive and every accepted operation has one of them. *)
RevisionsSound ==
    /\ doc.revision \in Nat
    /\ DOMAIN doc.hashes = 0..doc.revision
    /\ \A id \in DOMAIN doc.accepted : doc.accepted[id].revision \in 1..doc.revision

(* Every table the document went through was a valid map. *)
TablesSound == \A r \in DOMAIN doc.hashes : ValidSnapshot(doc.hashes[r])

(* What validation established of an accepted operation stays with it. *)
EntriesSound ==
    \A id \in DOMAIN doc.accepted :
        /\ WellFormed(doc.accepted[id].op)
        /\ doc.accepted[id].op.id = id
        /\ doc.accepted[id].op.changes # {}
        /\ Distinct(doc.accepted[id].op.changes)
        /\ \A x \in doc.accepted[id].op.changes : x.coord \in Coords

(* An undo record joins an operation and a later inverse of it. *)
UndoneBy(d, target, id) ==
    /\ target \in DOMAIN d.accepted
    /\ id \in DOMAIN d.accepted
    /\ d.accepted[id].op.actor = d.accepted[target].op.actor
    /\ d.accepted[target].op.kind = "tile_change"
    /\ d.accepted[id].revision > d.accepted[target].revision
    /\ d.accepted[id].op.changes = Reversed(d.accepted[target].op.changes)

UndoSound ==
    /\ \A target \in DOMAIN doc.inverted : UndoneBy(doc, target, doc.inverted[target])
    /\ \A id \in DOMAIN doc.accepted :
          doc.accepted[id].op.kind = "inverse" =>
              /\ doc.accepted[id].op.inverseOf \in DOMAIN doc.inverted
              /\ doc.inverted[doc.accepted[id].op.inverseOf] = id

HistoryInv ==
    /\ IdentityIndexExact
    /\ RevisionsSound
    /\ TablesSound
    /\ HistoryReplays
    /\ EntriesSound
    /\ UndoSound

(* What a rejection-free validateContext established, all of it. *)
LEMMA ValidHolds ==
    ASSUME NEW d, NEW op, WellFormed(op), Validate(d, op) = {}
    PROVE  /\ op.base \in DOMAIN d.hashes
           /\ op.kind = "tile_change" => op.inverseOf = None
           /\ op.kind = "inverse" =>
                 /\ op.inverseOf # None
                 /\ op.inverseOf \in DOMAIN d.accepted \ DOMAIN d.inverted
                 /\ d.accepted[op.inverseOf].op.actor = op.actor
                 /\ d.accepted[op.inverseOf].op.kind # "inverse"
                 /\ op.changes = Reversed(d.accepted[op.inverseOf].op.changes)
           /\ op.changes # {}
           /\ PlaceObjections(d, op.changes) = {}
           /\ IdentityObjections(d, op.changes) = {}
<1>1. /\ HeaderObjections(d, op) = {}
      /\ InverseObjections(d, op) = {}
      /\ ValidateChanges(d, op.changes) = {}
  BY DEF Validate
<1>2. /\ op.base \in DOMAIN d.hashes
      /\ Objection(\/ op.kind = "tile_change" /\ op.inverseOf # None
                   \/ Cardinality(op.changes) \notin 1..CellCount, "invalid_operation") = {}
  BY <1>1 DEF HeaderObjections
<1>3. /\ op.kind = "tile_change" => op.inverseOf = None
      /\ Cardinality(op.changes) \in 1..CellCount
  BY <1>2, NoObjection
<1>4. op.changes # {}
  BY <1>3, FS_EmptySet
<1>5. ASSUME op.kind = "inverse"
      PROVE  /\ op.inverseOf # None
             /\ op.inverseOf \in DOMAIN d.accepted \ DOMAIN d.inverted
             /\ d.accepted[op.inverseOf].op.actor = op.actor
             /\ d.accepted[op.inverseOf].op.kind # "inverse"
             /\ op.changes = Reversed(d.accepted[op.inverseOf].op.changes)
  <2>1. /\ op.inverseOf # None
        /\ op.inverseOf \in DOMAIN d.accepted \ DOMAIN d.inverted
        /\ d.accepted[op.inverseOf].op.actor = op.actor
        /\ d.accepted[op.inverseOf].op.kind # "inverse"
        /\ Objection(op.changes # Reversed(d.accepted[op.inverseOf].op.changes),
                     "invalid_operation") = {}
    BY <1>1, <1>5 DEF InverseObjections
  <2> QED
    BY <2>1, NoObjection
<1>6. PlaceObjections(d, op.changes) = {} /\ IdentityObjections(d, op.changes) = {}
  BY <1>1 DEF ValidateChanges
<1> QED
  BY <1>2, <1>3, <1>4, <1>5, <1>6

(* Reversing changes keeps one change per coordinate, on the same tiles. *)
LEMMA ReversedChanges ==
    ASSUME NEW changes, Distinct(changes)
    PROVE  /\ Distinct(Reversed(changes))
           /\ Touched(Reversed(changes)) = Touched(changes)
           /\ \A x \in changes : \E y \in Reversed(changes) :
                 y.coord = x.coord /\ y.before = x.after /\ y.after = x.before
           /\ \A y \in Reversed(changes) : \E x \in changes :
                 y.coord = x.coord /\ y.before = x.after /\ y.after = x.before
<1> DEFINE rev(x) == [coord |-> x.coord, before |-> x.after, after |-> x.before]
<1>1. \A x \in changes : rev(x) \in Reversed(changes)
  BY DEF Reversed
<1>2. \A y \in Reversed(changes) : \E x \in changes : y = rev(x)
  BY DEF Reversed
<1>3. \A x : rev(x).coord = x.coord /\ rev(x).before = x.after /\ rev(x).after = x.before
  OBVIOUS
<1> HIDE DEF rev
<1>4. Distinct(Reversed(changes))
  <2> SUFFICES ASSUME NEW y \in Reversed(changes), NEW z \in Reversed(changes), y.coord = z.coord
               PROVE  y = z
    BY DEF Distinct
  <2>1. PICK u \in changes : y = rev(u)
    BY <1>2
  <2>2. PICK v \in changes : z = rev(v)
    BY <1>2
  <2>3. u = v
    BY <2>1, <2>2, <1>3 DEF Distinct
  <2> QED
    BY <2>1, <2>2, <2>3
<1>5. Touched(Reversed(changes)) = Touched(changes)
  BY <1>1, <1>2, <1>3 DEF Touched
<1> QED
  BY <1>1, <1>2, <1>3, <1>4, <1>5

(* Installing the reversed changes puts the before-values back. *)
LEMMA UndoneTile ==
    ASSUME NEW table, NEW changes, Distinct(changes), NEW x \in changes
    PROVE  TileOf(Install(table, Reversed(changes)), x.coord) = x.before
<1>1. Distinct(Reversed(changes))
  BY ReversedChanges
<1>2. PICK y \in Reversed(changes) : y.coord = x.coord /\ y.after = x.before
  BY ReversedChanges
<1>3. /\ DOMAIN Install(table, Reversed(changes)) = DOMAIN table \cup Touched(Reversed(changes))
      /\ \A z \in Reversed(changes) : Install(table, Reversed(changes))[z.coord] = z.after
      /\ \A c \in DOMAIN table \ Touched(Reversed(changes)) :
            Install(table, Reversed(changes))[c] = table[c]
  BY <1>1, InstalledTable
<1>4. y.coord \in Touched(Reversed(changes))
  BY DEF Touched
<1> QED
  BY <1>2, <1>3, <1>4 DEF TileOf

(* The document after ApplyContext accepts an operation, field by field. *)
LEMMA AcceptedFields ==
    ASSUME NEW d, NEW op
    PROVE  /\ Accept(d, op).revision = d.revision + 1
           /\ Accept(d, op).tiles = Install(d.tiles, op.changes)
           /\ Accept(d, op).hashes = Extend(d.hashes, d.revision + 1, Install(d.tiles, op.changes))
           /\ Accept(d, op).accepted
                = Extend(d.accepted, op.id, [op |-> op, revision |-> d.revision + 1])
           /\ op.inverseOf = None => Accept(d, op).inverted = d.inverted
           /\ op.inverseOf # None => Accept(d, op).inverted = Extend(d.inverted, op.inverseOf, op.id)
BY DEF Accept

(* An accepted operation extends the history by one revision: the entries    *)
(* and hashes of the past stay, and the new one is explained by the          *)
(* operation.                                                                *)
LEMMA AcceptKeepsHistory ==
    ASSUME HistoryInv, NEW op, WellFormed(op),
           op.id \notin DOMAIN doc.accepted,
           Validate(doc, op) = {},
           doc' = Accept(doc, op)
    PROVE  HistoryInv' /\ doc'.revision = doc.revision + 1
<1> DEFINE next  == doc.revision + 1
           table == Install(doc.tiles, op.changes)
<1>1. /\ op.kind = "tile_change" => op.inverseOf = None
      /\ op.kind = "inverse" =>
            /\ op.inverseOf # None
            /\ op.inverseOf \in DOMAIN doc.accepted \ DOMAIN doc.inverted
            /\ doc.accepted[op.inverseOf].op.actor = op.actor
            /\ doc.accepted[op.inverseOf].op.kind # "inverse"
            /\ op.changes = Reversed(doc.accepted[op.inverseOf].op.changes)
      /\ op.changes # {}
      /\ PlaceObjections(doc, op.changes) = {}
      /\ IdentityObjections(doc, op.changes) = {}
  BY ValidHolds
<1>2. /\ Distinct(op.changes)
      /\ \A x \in op.changes : x.coord \in Coords /\ TileOf(doc.tiles, x.coord) = x.before
  BY <1>1, PlacesHold
<1>3. /\ doc'.revision = next
      /\ doc'.tiles = table
      /\ doc'.hashes = Extend(doc.hashes, next, table)
      /\ doc'.accepted = Extend(doc.accepted, op.id, [op |-> op, revision |-> next])
      /\ op.inverseOf = None => doc'.inverted = doc.inverted
      /\ op.inverseOf # None => doc'.inverted = Extend(doc.inverted, op.inverseOf, op.id)
  BY AcceptedFields
<1>4. doc.revision \in Nat /\ DOMAIN doc.hashes = 0..doc.revision
  BY DEF HistoryInv, RevisionsSound
<1>5. /\ DOMAIN doc'.hashes = 0..next
      /\ doc'.hashes[next] = table
      /\ \A r \in 0..doc.revision : doc'.hashes[r] = doc.hashes[r]
  <2>1. 0..next = 0..doc.revision \cup {next} /\ next \notin 0..doc.revision
    BY <1>4
  <2> QED
    BY <2>1, <1>3, <1>4 DEF Extend
<1>6. /\ DOMAIN doc'.accepted = DOMAIN doc.accepted \cup {op.id}
      /\ doc'.accepted[op.id].op = op
      /\ doc'.accepted[op.id].revision = next
      /\ \A id \in DOMAIN doc.accepted : doc'.accepted[id] = doc.accepted[id]
  BY <1>3 DEF Extend
<1> HIDE DEF next, table
<1>7. IdentityIndexExact'
  <2>1. /\ ValidSnapshot(table)
        /\ UpdateIdentityOwners(doc.owners, op.changes) = IndexState(table)
    BY <1>1, IdentityStep DEF HistoryInv, IdentityIndexExact, table
  <2>2. doc'.owners = UpdateIdentityOwners(doc.owners, op.changes)
    BY DEF Accept
  <2> QED
    BY <2>1, <2>2, <1>3 DEF IdentityIndexExact
<1>8. RevisionsSound'
  <2>1. next \in Nat /\ next > doc.revision /\ next \in 1..next
    BY <1>4 DEF next
  <2>2. ASSUME NEW id \in DOMAIN doc'.accepted
        PROVE  doc'.accepted[id].revision \in 1..next
    <3>1. CASE id = op.id
      BY <3>1, <2>1, <1>6
    <3>2. CASE id # op.id
      <4>1. doc'.accepted[id].revision \in 1..doc.revision
        BY <3>2, <1>6 DEF HistoryInv, RevisionsSound
      <4> QED
        BY <4>1, <1>4 DEF next
    <3> QED
      BY <3>1, <3>2
  <2> QED
    BY <2>1, <2>2, <1>3, <1>5 DEF RevisionsSound
<1>9. TablesSound'
  <2>1. ValidSnapshot(table)
    BY <1>7, <1>3 DEF IdentityIndexExact
  <2>2. \A r \in 0..next : r = next \/ r \in 0..doc.revision
    BY <1>4 DEF next
  <2> QED
    BY <2>1, <2>2, <1>4, <1>5 DEF TablesSound, HistoryInv
<1>10. HistoryReplays'
  <2>1. doc'.tiles = doc'.hashes[doc'.revision]
    BY <1>3, <1>5
  <2>2. ASSUME NEW r \in 1..next
        PROVE  /\ \E id \in DOMAIN doc'.accepted : doc'.accepted[id].revision = r
               /\ \A id \in DOMAIN doc'.accepted : doc'.accepted[id].revision = r =>
                     /\ \A x \in doc'.accepted[id].op.changes :
                           TileOf(doc'.hashes[r - 1], x.coord) = x.before
                     /\ doc'.hashes[r] = Install(doc'.hashes[r - 1], doc'.accepted[id].op.changes)
    <3>1. CASE r = next
      <4>1. r - 1 = doc.revision /\ doc'.hashes[r - 1] = doc.tiles
        <5>1. r - 1 = doc.revision
          BY <3>1, <1>4 DEF next
        <5>2. doc.tiles = doc.hashes[doc.revision]
          BY DEF HistoryInv, HistoryReplays
        <5>3. doc'.hashes[doc.revision] = doc.hashes[doc.revision]
          BY <1>4, <1>5
        <5> QED
          BY <5>1, <5>2, <5>3
      <4>2. \A id \in DOMAIN doc'.accepted : doc'.accepted[id].revision = r => id = op.id
        <5>1. \A id \in DOMAIN doc.accepted : doc.accepted[id].revision \in 1..doc.revision
          BY DEF HistoryInv, RevisionsSound
        <5>2. r \notin 1..doc.revision
          BY <3>1, <1>4 DEF next
        <5> QED
          BY <5>1, <5>2, <1>6
      <4>3. doc'.hashes[r] = Install(doc'.hashes[r - 1], op.changes)
        BY <3>1, <4>1, <1>5 DEF table
      <4> QED
        BY <3>1, <4>1, <4>2, <4>3, <1>2, <1>6
    <3>2. CASE r # next
      <4>1. r \in 1..doc.revision /\ r \in 0..doc.revision /\ r - 1 \in 0..doc.revision
        BY <3>2, <1>4 DEF next
      <4>2. doc'.hashes[r] = doc.hashes[r] /\ doc'.hashes[r - 1] = doc.hashes[r - 1]
        BY <4>1, <1>5
      <4>3. \A id \in DOMAIN doc'.accepted : doc'.accepted[id].revision = r =>
               id \in DOMAIN doc.accepted
        BY <3>2, <1>6
      <4>4. /\ \E id \in DOMAIN doc.accepted : doc.accepted[id].revision = r
            /\ \A id \in DOMAIN doc.accepted : doc.accepted[id].revision = r =>
                  /\ \A x \in doc.accepted[id].op.changes :
                        TileOf(doc.hashes[r - 1], x.coord) = x.before
                  /\ doc.hashes[r] = Install(doc.hashes[r - 1], doc.accepted[id].op.changes)
        BY <4>1 DEF HistoryInv, HistoryReplays
      <4> QED
        BY <4>2, <4>3, <4>4, <1>6
    <3> QED
      BY <3>1, <3>2
  <2> QED
    BY <2>1, <2>2, <1>3 DEF HistoryReplays
<1>11. EntriesSound'
  BY <1>1, <1>2, <1>6 DEF EntriesSound, HistoryInv
<1>12. UndoSound'
  <2>1. ASSUME NEW target \in DOMAIN doc.inverted
        PROVE  UndoneBy(doc', target, doc.inverted[target])
    BY <1>6 DEF HistoryInv, UndoSound, UndoneBy
  <2>2. CASE op.kind = "tile_change"
    BY <2>1, <2>2, <1>1, <1>3, <1>6 DEF HistoryInv, UndoSound
  <2>3. CASE op.kind = "inverse"
    <3>1. doc.accepted[op.inverseOf].op.kind = "tile_change"
      BY <2>3, <1>1 DEF HistoryInv, EntriesSound, WellFormed, Kinds
    <3>2. doc'.accepted[op.id].revision > doc'.accepted[op.inverseOf].revision
      <4>1. doc'.accepted[op.inverseOf].revision \in 1..doc.revision
        BY <2>3, <1>1, <1>6 DEF HistoryInv, RevisionsSound
      <4> QED
        BY <4>1, <1>4, <1>6 DEF next
    <3>3. UndoneBy(doc', op.inverseOf, op.id)
      BY <2>3, <3>1, <3>2, <1>1, <1>6 DEF UndoneBy
    <3>4. /\ DOMAIN doc'.inverted = DOMAIN doc.inverted \cup {op.inverseOf}
          /\ doc'.inverted[op.inverseOf] = op.id
          /\ \A target \in DOMAIN doc.inverted : doc'.inverted[target] = doc.inverted[target]
      BY <2>3, <1>1, <1>3 DEF Extend
    <3>5. \A target \in DOMAIN doc'.inverted : UndoneBy(doc', target, doc'.inverted[target])
      BY <2>1, <3>3, <3>4
    <3>6. ASSUME NEW id \in DOMAIN doc'.accepted, doc'.accepted[id].op.kind = "inverse"
          PROVE  /\ doc'.accepted[id].op.inverseOf \in DOMAIN doc'.inverted
                 /\ doc'.inverted[doc'.accepted[id].op.inverseOf] = id
      <4>1. CASE id = op.id
        BY <4>1, <3>4, <1>6
      <4>2. CASE id # op.id
        BY <3>6, <4>2, <3>4, <1>6 DEF HistoryInv, UndoSound
      <4> QED
        BY <4>1, <4>2
    <3> QED
      BY <3>5, <3>6 DEF UndoSound
  <2> QED
    BY <2>2, <2>3 DEF WellFormed, Kinds
<1> QED
  BY <1>3, <1>7, <1>8, <1>9, <1>10, <1>11, <1>12 DEF HistoryInv, next

(* ApplyContext either leaves the document alone or adds one revision to a   *)
(* sound history.                                                            *)
LEMMA ApplyKeepsHistory ==
    ASSUME HistoryInv, NEW op, WellFormed(op), ApplyContext(op)
    PROVE  HistoryInv' /\ (doc' = doc \/ doc'.revision = doc.revision + 1)
<1>1. CASE UNCHANGED doc
  BY <1>1 DEF HistoryInv, IdentityIndexExact, RevisionsSound, TablesSound, HistoryReplays,
              EntriesSound, UndoSound
<1>2. CASE /\ op.id \notin DOMAIN doc.accepted
           /\ Validate(doc, op) = {}
           /\ doc' = Accept(doc, op)
  BY <1>2, AcceptKeepsHistory
<1> QED
  BY <1>1, <1>2 DEF ApplyContext

-----------------------------------------------------------------------------------
(* The inverse under way.  While the document stays at the revision it was   *)
(* built on, everything BuildInverseContext looked at is as it was.          *)

StillCurrent(d, op) ==
    /\ op.header = "valid"
    /\ op.id \notin DOMAIN d.accepted
    /\ op.baseHash = d.hashes[d.revision]
    /\ op.inverseOf \in DOMAIN d.accepted \ DOMAIN d.inverted
    /\ d.accepted[op.inverseOf].op.actor = op.actor
    /\ d.accepted[op.inverseOf].op.kind # "inverse"
    /\ op.changes = Reversed(d.accepted[op.inverseOf].op.changes)
    /\ \A x \in d.accepted[op.inverseOf].op.changes : Tile(d, x.coord) = x.after

BuiltSound ==
    built # None =>
        /\ WellFormed(built)
        /\ built.kind = "inverse"
        /\ built.base \in 0..doc.revision
        /\ built.base = doc.revision => StillCurrent(doc, built)

EngineInv == HistoryInv /\ BuiltSound

(* A step that leaves `built` alone and at most adds a revision. *)
LEMMA BuiltWaits ==
    ASSUME EngineInv, HistoryInv', UNCHANGED built,
           doc' = doc \/ doc'.revision = doc.revision + 1
    PROVE  BuiltSound'
<1>1. CASE doc' = doc
  BY <1>1 DEF EngineInv, BuiltSound
<1>2. CASE doc'.revision = doc.revision + 1
  <2>1. doc.revision \in Nat
    BY DEF EngineInv, HistoryInv, RevisionsSound
  <2> QED
    BY <1>2, <2>1 DEF EngineInv, BuiltSound
<1> QED
  BY <1>1, <1>2

LEMMA EngineInvHolds == Spec => []EngineInv
<1>1. Init => EngineInv
  <2> SUFFICES ASSUME Init PROVE EngineInv
    OBVIOUS
  <2>1. PICK tiles \in FirstTiles : doc = NewDocument(tiles, 0)
    BY DEF Init
  <2>2. ValidSnapshot(tiles)
    BY EngineDocumentAssumption
  <2>3. /\ doc.revision = 0
        /\ doc.tiles = tiles
        /\ DOMAIN doc.hashes = {0}
        /\ doc.hashes[0] = tiles
        /\ DOMAIN doc.accepted = {}
        /\ DOMAIN doc.inverted = {}
        /\ doc.owners = IndexState(tiles)
    BY <2>1 DEF NewDocument
  <2>4. HistoryReplays
    BY <2>3 DEF HistoryReplays
  <2>5. RevisionsSound
    BY <2>3 DEF RevisionsSound
  <2> QED
    BY <2>2, <2>3, <2>4, <2>5
       DEF Init, EngineInv, HistoryInv, IdentityIndexExact, TablesSound,
           EntriesSound, UndoSound, BuiltSound
<1>2. EngineInv /\ [Next]_vars => EngineInv'
  <2> SUFFICES ASSUME EngineInv, [Next]_vars
               PROVE  EngineInv'
    OBVIOUS
  <2> USE DEF EngineInv
  <2>1. CASE UNCHANGED vars
    BY <2>1 DEF vars, HistoryInv, IdentityIndexExact, RevisionsSound, TablesSound,
                HistoryReplays, EntriesSound, UndoSound, BuiltSound
  <2>2. ASSUME NEW id \in OperationIDs, NEW actor, SubmitEdit(id, actor)
        PROVE  EngineInv'
    <3>1. PICK base, shape :
             ApplyContext(Operation(id, actor, base, "tile_change", Edit(base, shape), None))
      BY <2>2 DEF SubmitEdit
    <3>2. WellFormed(Operation(id, actor, base, "tile_change", Edit(base, shape), None))
      BY DEF Operation, WellFormed, Kinds
    <3> QED
      BY <2>2, <3>1, <3>2, ApplyKeepsHistory, BuiltWaits DEF SubmitEdit
  <2>3. ASSUME NEW id \in OperationIDs, NEW actor, SubmitInverse(id, actor)
        PROVE  EngineInv'
    <3>1. PICK base, target, changes :
             ApplyContext(Operation(id, actor, base, "inverse", changes, target))
      BY <2>3 DEF SubmitInverse
    <3>2. WellFormed(Operation(id, actor, base, "inverse", changes, target))
      BY DEF Operation, WellFormed, Kinds
    <3> QED
      BY <2>3, <3>1, <3>2, ApplyKeepsHistory, BuiltWaits DEF SubmitInverse
  <2>4. ASSUME NEW id \in OperationIDs, NEW actor, SubmitMalformed(id, actor)
        PROVE  EngineInv'
    <3>1. \E op : WellFormed(op) /\ ApplyContext(op)
      <4>1. PICK shape \in Shapes :
              LET op == Operation(id, actor, doc.revision, "tile_change",
                                  Edit(doc.revision, shape), None) IN
              \/ \E code : ApplyContext([op EXCEPT !.header = code])
              \/ ApplyContext([op EXCEPT !.base = doc.revision + 1])
              \/ ApplyContext([op EXCEPT !.base = 0])
              \/ ApplyContext([op EXCEPT !.inverseOf = id])
              \/ ApplyContext([op EXCEPT !.changes = {}])
        BY <2>4 DEF SubmitMalformed
      <4> DEFINE op == Operation(id, actor, doc.revision, "tile_change",
                                 Edit(doc.revision, shape), None)
      <4>2. /\ \A code : WellFormed([op EXCEPT !.header = code])
            /\ WellFormed([op EXCEPT !.base = doc.revision + 1])
            /\ WellFormed([op EXCEPT !.base = 0])
            /\ WellFormed([op EXCEPT !.inverseOf = id])
            /\ WellFormed([op EXCEPT !.changes = {}])
        BY DEF Operation, WellFormed, Kinds
      <4> HIDE DEF op
      <4> QED
        BY <4>1, <4>2 DEF op
    <3> QED
      BY <2>4, <3>1, ApplyKeepsHistory, BuiltWaits DEF SubmitMalformed
  <2>5. ASSUME NEW id, Resubmit(id)
        PROVE  EngineInv'
    <3>1. WellFormed(doc.accepted[id].op)
      BY <2>5 DEF Resubmit, HistoryInv, EntriesSound
    <3> QED
      BY <2>5, <3>1, ApplyKeepsHistory, BuiltWaits DEF Resubmit
  <2>6. ASSUME NEW id \in OperationIDs, NEW actor, NEW target, BuildInverse(actor, target, id)
        PROVE  EngineInv'
    <3>1. HistoryInv'
      BY <2>6 DEF BuildInverse, HistoryInv, IdentityIndexExact, RevisionsSound, TablesSound,
                  HistoryReplays, EntriesSound, UndoSound
    <3>2. /\ target \in DOMAIN doc.accepted \ DOMAIN doc.inverted
          /\ doc.accepted[target].op.actor = actor
          /\ doc.accepted[target].op.kind # "inverse"
          /\ Objection(\E x \in doc.accepted[target].op.changes : Tile(doc, x.coord) # x.after,
                       "precondition_failed") = {}
      BY <2>6 DEF BuildInverse, BuildObjections
    <3>3. \A x \in doc.accepted[target].op.changes : Tile(doc, x.coord) = x.after
      BY <3>2, NoObjection
    <3>4. /\ built'.header = "valid"
          /\ built'.id = id
          /\ built'.actor = actor
          /\ built'.kind = "inverse"
          /\ built'.base = doc.revision
          /\ built'.baseHash = doc.hashes[doc.revision]
          /\ built'.inverseOf = target
          /\ built'.changes = Reversed(doc.accepted[target].op.changes)
          /\ doc' = doc
          /\ id \notin DOMAIN doc.accepted
      BY <2>6 DEF BuildInverse, InverseOperation
    <3>5. StillCurrent(doc', built')
      BY <3>2, <3>3, <3>4 DEF StillCurrent
    <3>6. doc.revision \in 0..doc.revision
      BY DEF HistoryInv, RevisionsSound
    <3> QED
      BY <3>1, <3>4, <3>5, <3>6 DEF BuiltSound, WellFormed, Kinds
  <2>7. CASE SubmitBuilt
    <3>1. WellFormed(built)
      BY <2>7 DEF SubmitBuilt, BuiltSound
    <3> QED
      BY <2>7, <3>1, ApplyKeepsHistory DEF SubmitBuilt, BuiltSound
  <2> QED
    BY <2>1, <2>2, <2>3, <2>4, <2>5, <2>6, <2>7 DEF Next
<1> QED
  BY <1>1, <1>2, PTL DEF Spec

(* Every retained hash but the first is explained by exactly one accepted    *)
(* operation, whatever the actors submit and in whatever order: replaying    *)
(* the accepted operations reproduces every revision of the document.        *)
THEOREM HistoryReplaysTheorem == Spec => []HistoryReplays
<1>1. EngineInv => HistoryReplays
  BY DEF EngineInv, HistoryInv
<1> QED
  BY <1>1, EngineInvHolds, PTL

(* An undo puts every tile the operation touched back to what it was just    *)
(* before it, is its author's, and happens once.                             *)
THEOREM InverseRestoresTheorem == Spec => []InverseRestores
<1>1. EngineInv => InverseRestores
  <2> SUFFICES ASSUME EngineInv PROVE InverseRestores
    OBVIOUS
  <2> USE DEF EngineInv
  <2>1. ASSUME NEW target \in DOMAIN doc.inverted,
               NEW c \in Touched(doc.accepted[target].op.changes)
        PROVE  TileOf(doc.hashes[doc.accepted[doc.inverted[target]].revision], c)
                 = TileOf(doc.hashes[doc.accepted[target].revision - 1], c)
    <3> DEFINE id   == doc.inverted[target]
               undo == doc.accepted[id].op.changes
               done == doc.accepted[target].op.changes
               u    == doc.accepted[id].revision
               r    == doc.accepted[target].revision
    <3>1. UndoneBy(doc, target, id)
      BY DEF HistoryInv, UndoSound
    <3>2. /\ target \in DOMAIN doc.accepted
          /\ id \in DOMAIN doc.accepted
          /\ undo = Reversed(done)
      BY <3>1 DEF UndoneBy
    <3>3. u \in 1..doc.revision /\ r \in 1..doc.revision
      BY <3>2 DEF HistoryInv, RevisionsSound
    <3>4. Distinct(undo) /\ Distinct(done)
      BY <3>2 DEF HistoryInv, EntriesSound
    <3>5. /\ doc.hashes[u] = Install(doc.hashes[u - 1], undo)
          /\ \A x \in done : TileOf(doc.hashes[r - 1], x.coord) = x.before
      BY <3>2, <3>3 DEF HistoryInv, HistoryReplays
    <3> HIDE DEF id, undo, done, u, r
    <3>6. PICK x \in done : x.coord = c
      BY DEF Touched, done
    <3>7. TileOf(doc.hashes[u], c) = x.before
      BY <3>2, <3>4, <3>5, <3>6, UndoneTile
    <3> QED
      BY <3>5, <3>6, <3>7 DEF id, u, r
  <2>2. \A target \in DOMAIN doc.inverted : UndoneBy(doc, target, doc.inverted[target])
    BY DEF HistoryInv, UndoSound
  <2>3. \A id \in DOMAIN doc.accepted :
           doc.accepted[id].op.kind = "inverse" => doc.inverted[doc.accepted[id].op.inverseOf] = id
    BY DEF HistoryInv, UndoSound
  <2> QED
    BY <2>1, <2>2, <2>3 DEF InverseRestores, UndoneBy
<1> QED
  BY <1>1, EngineInvHolds, PTL

(* The changes of an accepted operation, reversed, are as many as a          *)
(* validator allows: at least one and at most one per tile.                  *)
LEMMA ReversedCount ==
    ASSUME NEW changes, Distinct(changes), changes # {},
           \A x \in changes : x.coord \in Coords
    PROVE  Cardinality(Reversed(changes)) \in 1..CellCount
<1> DEFINE undo  == Reversed(changes)
           place == [y \in undo |-> y.coord]
<1>1. /\ Distinct(undo)
      /\ undo # {}
      /\ \A y \in undo : y.coord \in Coords
  BY ReversedChanges
<1>2. place \in Injection(undo, Coords)
  BY <1>1 DEF Injection, IsInjective, Distinct
<1>3. IsFiniteSet(Coords)
  BY EngineDocumentAssumption
<1> HIDE DEF undo, place
<1>4. IsFiniteSet(undo) /\ Cardinality(undo) <= Cardinality(Coords)
  BY <1>2, <1>3, FS_Injection
<1>5. Cardinality(undo) \in Nat /\ Cardinality(Coords) \in Nat
  BY <1>3, <1>4, FS_CardinalityType
<1>6. Cardinality(undo) # 0
  BY <1>1, <1>4, FS_EmptySet
<1> QED
  BY <1>4, <1>5, <1>6 DEF CellCount, undo

LEMMA ObjectionNone ==
    ASSUME NEW condition \in BOOLEAN, NEW code, ~ condition
    PROVE  Objection(condition, code) = {}
BY DEF Objection

(* The only objection left to an inverse nothing overtook is about an        *)
(* identity that now lives on a tile the inverse does not touch.             *)
LEMMA CurrentInverseValid ==
    ASSUME EngineInv, built # None, built.base = doc.revision,
           ~ \E x \in built.changes : \E s \in IDs(x.after) :
                s \in DOMAIN doc.owners /\ doc.owners[s] \notin Touched(built.changes)
    PROVE  Validate(doc, built) = {}
<1> USE DEF EngineInv
<1> DEFINE target == built.inverseOf
           done   == doc.accepted[target].op.changes
           r      == doc.accepted[target].revision
           past   == doc.hashes[r - 1]
<1>1. StillCurrent(doc, built) /\ built.kind = "inverse"
  BY DEF BuiltSound
<1>2. /\ target \in DOMAIN doc.accepted
      /\ built.changes = Reversed(done)
      /\ \A x \in done : Tile(doc, x.coord) = x.after
  BY <1>1 DEF StillCurrent
<1>3. /\ Distinct(done)
      /\ done # {}
      /\ \A x \in done : x.coord \in Coords
  BY <1>2 DEF HistoryInv, EntriesSound
<1>4. r \in 1..doc.revision /\ DOMAIN doc.hashes = 0..doc.revision /\ doc.revision \in Nat
  BY <1>2 DEF HistoryInv, RevisionsSound
<1>5. /\ ValidSnapshot(past)
      /\ \A x \in done : TileOf(past, x.coord) = x.before
  <2>1. r - 1 \in DOMAIN doc.hashes
    BY <1>4
  <2> QED
    BY <2>1, <1>2, <1>4 DEF HistoryInv, TablesSound, HistoryReplays
<1>6. /\ Distinct(built.changes)
      /\ Touched(built.changes) = Touched(done)
      /\ \A y \in built.changes : \E x \in done :
            y.coord = x.coord /\ y.before = x.after /\ y.after = x.before
  <2>1. PICK changes, undo : changes = done /\ undo = Reversed(changes) /\ built.changes = undo
    BY <1>2
  <2>2. Distinct(changes)
    BY <2>1, <1>3
  <2>3. /\ Distinct(undo)
        /\ Touched(undo) = Touched(changes)
        /\ \A y \in undo : \E x \in changes :
              y.coord = x.coord /\ y.before = x.after /\ y.after = x.before
    BY ONLY <2>1, <2>2, ReversedChanges
  <2> QED
    BY <2>1, <2>3
<1>7. Cardinality(built.changes) \in 1..CellCount
  <2>1. PICK changes, undo : changes = done /\ undo = Reversed(changes) /\ built.changes = undo
    BY <1>2
  <2>2. Distinct(changes) /\ changes # {} /\ \A x \in changes : x.coord \in Coords
    BY <2>1, <1>3
  <2>3. Cardinality(undo) \in 1..CellCount
    BY ONLY <2>1, <2>2, ReversedCount
  <2> QED
    BY <2>1, <2>3
<1> HIDE DEF target, done, r, past
<1>8. HeaderObjections(doc, built) = {}
  <2>1. built.header = "valid" /\ built.baseHash = doc.hashes[built.base]
    BY <1>1 DEF StillCurrent
  <2>2. built.base \in DOMAIN doc.hashes
    BY <1>4
  <2>3. Objection(\/ built.kind = "tile_change" /\ built.inverseOf # None
                  \/ Cardinality(built.changes) \notin 1..CellCount, "invalid_operation") = {}
    BY <1>1, <1>7, ObjectionNone
  <2> QED
    BY <2>1, <2>2, <2>3 DEF HeaderObjections
<1>9. InverseObjections(doc, built) = {}
  <2>1. built.inverseOf # None
    BY <1>2, NoneAssumption DEF target, HistoryInv, EntriesSound, WellFormed
  <2>2. Objection(built.changes # Reversed(doc.accepted[built.inverseOf].op.changes),
                  "invalid_operation") = {}
    BY <1>2, ObjectionNone DEF done, target
  <2> QED
    BY <2>1, <2>2, <1>1 DEF InverseObjections, StillCurrent
<1>10. PlaceObjections(doc, built.changes) = {}
  <2>1. ~ \E y \in built.changes : y.coord \notin Coords
    BY <1>3, <1>6
  <2>2. ~ \E y \in built.changes : y.coord \in Coords /\ Tile(doc, y.coord) # y.before
    BY <1>2, <1>6
  <2>3. /\ Objection(~ Distinct(built.changes), "invalid_operation") = {}
        /\ Objection(\E y \in built.changes : y.coord \notin Coords, "out_of_bounds") = {}
        /\ Objection(\E y \in built.changes : y.coord \in Coords /\ Tile(doc, y.coord) # y.before,
                     "precondition_failed") = {}
    BY <2>1, <2>2, <1>6, ObjectionNone
  <2> QED
    BY <2>3 DEF PlaceObjections
<1>11. IdentityObjections(doc, built.changes) = {}
  <2>1. \A y \in built.changes :
           \/ y.after = << >>
           \/ y.coord \in DOMAIN past /\ y.after = past[y.coord]
    BY <1>5, <1>6 DEF TileOf
  <2>2. ~ Repeats(<< >>) /\ IDs(<< >>) = {}
    BY DEF Repeats, IDs
  <2>3. \A y \in built.changes : ~ Repeats(y.after)
    BY <2>1, <2>2, <1>5 DEF ValidSnapshot
  <2>4. ASSUME NEW y \in built.changes, NEW z \in built.changes, y # z
        PROVE  IDs(y.after) \cap IDs(z.after) = {}
    <3>1. y.coord # z.coord
      BY <2>4, <1>6 DEF Distinct
    <3> QED
      BY <3>1, <2>1, <2>2, <1>5 DEF ValidSnapshot
  <2> QED
    BY <2>3, <2>4, ObjectionNone DEF IdentityObjections
<1> QED
  BY <1>8, <1>9, <1>10, <1>11 DEF Validate, ValidateChanges

(* An inverse the engine built and nothing overtook is accepted, unless an   *)
(* identity it would bring back now lives elsewhere: the two turns of        *)
(* Hub.Inverse need no lock between them.                                    *)
THEOREM BuiltInverseLandsTheorem == Spec => BuiltInverseLands
<1>1. ASSUME EngineInv, SubmitBuilt, built.base = doc.revision,
             ~ \E x \in built.changes : \E s \in IDs(x.after) :
                  s \in DOMAIN doc.owners /\ doc.owners[s] \notin Touched(built.changes)
      PROVE  doc'.revision = doc.revision + 1
  <2>1. built # None /\ ApplyContext(built)
    BY <1>1 DEF SubmitBuilt
  <2>2. Validate(doc, built) = {}
    BY <1>1, <2>1, CurrentInverseValid
  <2>3. built.header # "wrong_document" /\ built.id \notin DOMAIN doc.accepted
    BY <1>1, <2>1 DEF EngineInv, BuiltSound, StillCurrent
  <2>4. doc' = Accept(doc, built)
    BY <2>1, <2>2, <2>3 DEF ApplyContext
  <2> QED
    BY <2>4, AcceptedFields
<1>2. EngineInv /\ [Next]_vars =>
        [(SubmitBuilt /\ built.base = doc.revision) =>
            \/ doc'.revision = doc.revision + 1
            \/ \E x \in built.changes : \E s \in IDs(x.after) :
                  s \in DOMAIN doc.owners /\ doc.owners[s] \notin Touched(built.changes)]_vars
  BY <1>1
<1> QED
  BY <1>2, EngineInvHolds, PTL DEF Spec, BuiltInverseLands
-----------------------------------------------------------------------------------
(* The records a recovery starts from.  The document, its maps and the        *)
(* entries are what their fields say, an entry keeps the header it was        *)
(* accepted with, no two entries share a revision, and an undo record names   *)
(* the operation that asked for it.                                           *)
EntrySound(entry, hashes) ==
    /\ entry = [op |-> entry.op, revision |-> entry.revision]
    /\ entry.op.header = "valid"
    /\ entry.op.base \in 0..(entry.revision - 1)
    /\ entry.op.baseHash = hashes[entry.op.base]
    /\ entry.op.inverseOf = None <=> entry.op.kind = "tile_change"
    /\ Cardinality(entry.op.changes) \in 1..CellCount

RecordsSound ==
    /\ doc = [revision |-> doc.revision, tiles |-> doc.tiles, hashes |-> doc.hashes,
              accepted |-> doc.accepted, inverted |-> doc.inverted, owners |-> doc.owners]
    /\ doc.hashes = [r \in DOMAIN doc.hashes |-> doc.hashes[r]]
    /\ doc.accepted = [id \in DOMAIN doc.accepted |-> doc.accepted[id]]
    /\ doc.inverted = [target \in DOMAIN doc.inverted |-> doc.inverted[target]]
    /\ \A id \in DOMAIN doc.accepted : EntrySound(doc.accepted[id], doc.hashes)
    /\ \A id, other \in DOMAIN doc.accepted :
          doc.accepted[id].revision = doc.accepted[other].revision => id = other
    /\ \A target \in DOMAIN doc.inverted : doc.accepted[doc.inverted[target]].op.inverseOf = target

(* What the header of a valid operation is. *)
LEMMA ValidHeader ==
    ASSUME NEW d, NEW op, Validate(d, op) = {}
    PROVE  /\ op.header = "valid"
           /\ op.base \in DOMAIN d.hashes /\ op.baseHash = d.hashes[op.base]
           /\ Cardinality(op.changes) \in 1..CellCount
<1>1. HeaderObjections(d, op) = {}
  BY DEF Validate
<1>2. /\ op.header = "valid"
      /\ op.base \in DOMAIN d.hashes /\ op.baseHash = d.hashes[op.base]
      /\ Objection(\/ op.kind = "tile_change" /\ op.inverseOf # None
                   \/ Cardinality(op.changes) \notin 1..CellCount, "invalid_operation") = {}
  BY <1>1 DEF HeaderObjections
<1> QED
  BY <1>2, NoObjection

LEMMA AcceptKeepsRecords ==
    ASSUME HistoryInv, RecordsSound, NEW op, WellFormed(op),
           op.id \notin DOMAIN doc.accepted,
           Validate(doc, op) = {},
           doc' = Accept(doc, op)
    PROVE  RecordsSound'
<1> DEFINE next == doc.revision + 1
           table == Install(doc.tiles, op.changes)
           entry == [op |-> op, revision |-> next]
<1>1. /\ op.kind = "tile_change" => op.inverseOf = None
      /\ op.kind = "inverse" => op.inverseOf # None /\ op.inverseOf \in DOMAIN doc.accepted \ DOMAIN doc.inverted
  BY ValidHolds
<1>2. /\ op.header = "valid"
      /\ op.base \in DOMAIN doc.hashes /\ op.baseHash = doc.hashes[op.base]
      /\ Cardinality(op.changes) \in 1..CellCount
  BY ValidHeader
<1>3. /\ doc'.hashes = Extend(doc.hashes, next, table)
      /\ doc'.accepted = Extend(doc.accepted, op.id, entry)
      /\ op.inverseOf = None => doc'.inverted = doc.inverted
      /\ op.inverseOf # None => doc'.inverted = Extend(doc.inverted, op.inverseOf, op.id)
  BY AcceptedFields
<1>4. doc' = [revision |-> doc'.revision, tiles |-> doc'.tiles, hashes |-> doc'.hashes,
              accepted |-> doc'.accepted, inverted |-> doc'.inverted, owners |-> doc'.owners]
  BY DEF Accept
<1>5. /\ doc.revision \in Nat /\ DOMAIN doc.hashes = 0..doc.revision
      /\ \A id \in DOMAIN doc.accepted : doc.accepted[id].revision \in 1..doc.revision
  BY DEF HistoryInv, RevisionsSound
<1>6. /\ entry.op = op /\ entry.revision = next /\ entry = [op |-> entry.op, revision |-> entry.revision]
      /\ next \in Nat /\ next > doc.revision
  BY <1>5
<1> HIDE DEF next, table, entry
<1>7. /\ DOMAIN doc'.accepted = DOMAIN doc.accepted \cup {op.id}
      /\ doc'.accepted[op.id] = entry
      /\ \A id \in DOMAIN doc.accepted : doc'.accepted[id] = doc.accepted[id]
      /\ doc'.accepted = [id \in DOMAIN doc'.accepted |-> doc'.accepted[id]]
  BY <1>3 DEF Extend
<1>8. /\ doc'.hashes = [r \in DOMAIN doc'.hashes |-> doc'.hashes[r]]
      /\ \A r \in 0..doc.revision : doc'.hashes[r] = doc.hashes[r]
  BY <1>3, <1>5, <1>6 DEF Extend
<1>9. doc'.inverted = [target \in DOMAIN doc'.inverted |-> doc'.inverted[target]]
  BY <1>3 DEF RecordsSound, Extend
<1>10. ASSUME NEW id \in DOMAIN doc'.accepted
       PROVE  EntrySound(doc'.accepted[id], doc'.hashes)
  <2>1. CASE id = op.id
    <3>1. op.base \in 0..(next - 1)
      BY <1>2, <1>5 DEF next
    <3>2. op.baseHash = doc'.hashes[op.base]
      BY <1>2, <1>5, <1>8
    <3>3. op.inverseOf = None <=> op.kind = "tile_change"
      BY <1>1 DEF WellFormed, Kinds
    <3>4. doc'.accepted[id] = entry
      BY <2>1, <1>7
    <3> QED
      BY <3>1, <3>2, <3>3, <3>4, <1>2, <1>6 DEF EntrySound
  <2>2. CASE id # op.id
    <3>1. id \in DOMAIN doc.accepted /\ doc'.accepted[id] = doc.accepted[id]
      BY <2>2, <1>7
    <3>2. PICK e : e = doc.accepted[id]
      OBVIOUS
    <3>3. EntrySound(e, doc.hashes) /\ e.revision \in 1..doc.revision
      BY <3>1, <3>2, <1>5 DEF RecordsSound
    <3>4. e.op.base \in 0..doc.revision
      BY <3>3, <1>5 DEF EntrySound
    <3>5. e.op.baseHash = doc'.hashes[e.op.base]
      BY <3>3, <3>4, <1>8 DEF EntrySound
    <3>6. doc'.accepted[id] = e
      BY <3>1, <3>2
    <3> QED
      BY <3>3, <3>5, <3>6 DEF EntrySound
  <2> QED
    BY <2>1, <2>2
<1>11. ASSUME NEW id \in DOMAIN doc'.accepted, NEW other \in DOMAIN doc'.accepted,
              doc'.accepted[id].revision = doc'.accepted[other].revision
       PROVE  id = other
  <2>1. \A i \in DOMAIN doc.accepted : doc'.accepted[i].revision \in 1..doc.revision
    BY <1>5, <1>7
  <2>2. doc'.accepted[op.id].revision = next /\ next \notin 1..doc.revision
    BY <1>5, <1>6, <1>7
  <2>3. CASE id = op.id \/ other = op.id
    BY <2>1, <2>2, <2>3, <1>7, <1>11
  <2>4. CASE id # op.id /\ other # op.id
    BY <2>4, <1>7, <1>11 DEF RecordsSound
  <2> QED
    BY <2>3, <2>4
<1>12. ASSUME NEW target \in DOMAIN doc'.inverted
       PROVE  doc'.accepted[doc'.inverted[target]].op.inverseOf = target
  <2>1. ASSUME target \in DOMAIN doc.inverted
        PROVE  doc'.accepted[doc.inverted[target]].op.inverseOf = target
    <3>1. doc.inverted[target] \in DOMAIN doc.accepted
      BY <2>1 DEF HistoryInv, UndoSound, UndoneBy
    <3>2. doc.accepted[doc.inverted[target]].op.inverseOf = target
      BY <2>1 DEF RecordsSound
    <3> QED
      BY <3>1, <3>2, <1>7
  <2>2. CASE op.inverseOf = None
    BY <2>1, <2>2, <1>3
  <2>3. CASE op.inverseOf # None /\ target = op.inverseOf
    BY <2>3, <1>3, <1>6, <1>7 DEF Extend
  <2>4. CASE op.inverseOf # None /\ target # op.inverseOf
    <3>1. target \in DOMAIN doc.inverted /\ doc'.inverted[target] = doc.inverted[target]
      BY <2>4, <1>3 DEF Extend
    <3> QED
      BY <3>1, <2>1
  <2> QED
    BY <2>2, <2>3, <2>4
<1> QED
  BY <1>4, <1>7, <1>8, <1>9, <1>10, <1>11, <1>12 DEF RecordsSound

(* Every step leaves the document alone or hands it one operation. *)
LEMMA NextApplies ==
    ASSUME EngineInv, [Next]_vars
    PROVE  UNCHANGED doc \/ \E op : WellFormed(op) /\ ApplyContext(op)
<1>1. CASE UNCHANGED vars
  BY <1>1 DEF vars
<1>2. ASSUME NEW id \in OperationIDs, NEW actor, SubmitEdit(id, actor)
      PROVE  \E op : WellFormed(op) /\ ApplyContext(op)
  <2>1. PICK base, shape :
           ApplyContext(Operation(id, actor, base, "tile_change", Edit(base, shape), None))
    BY <1>2 DEF SubmitEdit
  <2>2. WellFormed(Operation(id, actor, base, "tile_change", Edit(base, shape), None))
    BY DEF Operation, WellFormed, Kinds
  <2> QED
    BY <2>1, <2>2
<1>3. ASSUME NEW id \in OperationIDs, NEW actor, SubmitInverse(id, actor)
      PROVE  \E op : WellFormed(op) /\ ApplyContext(op)
  <2>1. PICK base, target, changes :
           ApplyContext(Operation(id, actor, base, "inverse", changes, target))
    BY <1>3 DEF SubmitInverse
  <2>2. WellFormed(Operation(id, actor, base, "inverse", changes, target))
    BY DEF Operation, WellFormed, Kinds
  <2> QED
    BY <2>1, <2>2
<1>4. ASSUME NEW id \in OperationIDs, NEW actor, SubmitMalformed(id, actor)
      PROVE  \E op : WellFormed(op) /\ ApplyContext(op)
  <2>1. PICK shape \in Shapes :
          LET op == Operation(id, actor, doc.revision, "tile_change",
                              Edit(doc.revision, shape), None) IN
          \/ \E code : ApplyContext([op EXCEPT !.header = code])
          \/ ApplyContext([op EXCEPT !.base = doc.revision + 1])
          \/ ApplyContext([op EXCEPT !.base = 0])
          \/ ApplyContext([op EXCEPT !.inverseOf = id])
          \/ ApplyContext([op EXCEPT !.changes = {}])
    BY <1>4 DEF SubmitMalformed
  <2> DEFINE op == Operation(id, actor, doc.revision, "tile_change",
                             Edit(doc.revision, shape), None)
  <2>2. /\ \A code : WellFormed([op EXCEPT !.header = code])
        /\ WellFormed([op EXCEPT !.base = doc.revision + 1])
        /\ WellFormed([op EXCEPT !.base = 0])
        /\ WellFormed([op EXCEPT !.inverseOf = id])
        /\ WellFormed([op EXCEPT !.changes = {}])
    BY DEF Operation, WellFormed, Kinds
  <2> HIDE DEF op
  <2> QED
    BY <2>1, <2>2 DEF op
<1>5. ASSUME NEW id, Resubmit(id)
      PROVE  \E op : WellFormed(op) /\ ApplyContext(op)
  <2>1. WellFormed(doc.accepted[id].op) /\ ApplyContext(doc.accepted[id].op)
    BY <1>5 DEF Resubmit, EngineInv, HistoryInv, EntriesSound
  <2> QED
    BY <2>1
<1>6. CASE SubmitBuilt
  <2>1. WellFormed(built) /\ ApplyContext(built)
    BY <1>6 DEF SubmitBuilt, EngineInv, BuiltSound
  <2> QED
    BY <2>1
<1>7. ASSUME NEW id, NEW actor, NEW target, BuildInverse(actor, target, id)
      PROVE  UNCHANGED doc
  BY <1>7 DEF BuildInverse
<1> QED
  BY <1>1, <1>2, <1>3, <1>4, <1>5, <1>6, <1>7 DEF Next

LEMMA RecordsSoundHolds == Spec => []RecordsSound
<1>1. ASSUME Init PROVE RecordsSound
  <2>1. PICK tiles \in FirstTiles : doc = NewDocument(tiles, 0)
    BY <1>1 DEF Init
  <2>2. /\ doc = [revision |-> doc.revision, tiles |-> doc.tiles, hashes |-> doc.hashes,
                  accepted |-> doc.accepted, inverted |-> doc.inverted, owners |-> doc.owners]
        /\ doc.hashes = [r \in {0} |-> tiles]
        /\ doc.accepted = [o \in {} |-> None] /\ doc.inverted = [o \in {} |-> None]
    BY <2>1 DEF NewDocument
  <2> QED
    BY <2>2 DEF RecordsSound
<1>2. ASSUME EngineInv, RecordsSound, [Next]_vars PROVE RecordsSound'
  <2>1. CASE UNCHANGED doc
    BY <2>1, <1>2 DEF RecordsSound, EntrySound
  <2>2. ASSUME NEW op, WellFormed(op), ApplyContext(op)
        PROVE  RecordsSound'
    <3>1. CASE UNCHANGED doc
      BY <3>1, <1>2 DEF RecordsSound, EntrySound
    <3>2. CASE op.id \notin DOMAIN doc.accepted /\ Validate(doc, op) = {} /\ doc' = Accept(doc, op)
      BY <3>2, <2>2, <1>2, AcceptKeepsRecords DEF EngineInv
    <3> QED
      BY <3>1, <3>2, <2>2 DEF ApplyContext
  <2> QED
    BY <2>1, <2>2, <1>2, NextApplies
<1> QED
  BY <1>1, <1>2, EngineInvHolds, PTL DEF Spec

-----------------------------------------------------------------------------------
(* Recovery.  The rows are read back in the order they were accepted in, and  *)
(* every check that RestoreAt makes on the way passes.                        *)
RecoveryInv == EngineInv /\ RecordsSound

(* The entry of a revision, which is the only one. *)
LEMMA EntryIs ==
    ASSUME RecoveryInv, NEW r \in 1..doc.revision
    PROVE  \E id \in DOMAIN doc.accepted :
              /\ doc.accepted[id].revision = r
              /\ Entry(doc.accepted, r) = doc.accepted[id]
              /\ \A other \in DOMAIN doc.accepted : doc.accepted[other].revision = r => other = id
<1>1. \E id \in DOMAIN doc.accepted : doc.accepted[id].revision = r
  BY DEF RecoveryInv, EngineInv, HistoryInv, HistoryReplays
<1>2. PICK id : id = (CHOOSE i \in DOMAIN doc.accepted : doc.accepted[i].revision = r)
                /\ id \in DOMAIN doc.accepted /\ doc.accepted[id].revision = r
  BY <1>1
<1>3. Entry(doc.accepted, r) = doc.accepted[id]
  BY <1>2 DEF Entry
<1>4. \A other \in DOMAIN doc.accepted : doc.accepted[other].revision = r => other = id
  BY <1>2 DEF RecoveryInv, RecordsSound
<1> QED
  BY <1>2, <1>3, <1>4

(* What is recorded up to a revision. *)
Kept(r) == {id \in DOMAIN doc.accepted : doc.accepted[id].revision <= r}

Undone(r) == {target \in DOMAIN doc.inverted : doc.accepted[doc.inverted[target]].revision <= r}

KeptEntries(r) == [id \in Kept(r) |-> doc.accepted[id]]

UndoneTargets(r) == [target \in Undone(r) |-> doc.inverted[target]]

LEMMA RecordedNext ==
    ASSUME RecoveryInv, NEW r \in Nat, NEW id \in DOMAIN doc.accepted,
           doc.accepted[id].revision = r + 1
    PROVE  /\ doc.accepted[id].op.id \notin Kept(r)
           /\ KeptEntries(r + 1) = Extend(KeptEntries(r), doc.accepted[id].op.id, doc.accepted[id])
           /\ doc.accepted[id].op.inverseOf = None => UndoneTargets(r + 1) = UndoneTargets(r)
           /\ doc.accepted[id].op.inverseOf # None =>
                UndoneTargets(r + 1)
                  = Extend(UndoneTargets(r), doc.accepted[id].op.inverseOf, doc.accepted[id].op.id)
<1> DEFINE op == doc.accepted[id].op
<1>1. /\ op.id = id
      /\ \A i \in DOMAIN doc.accepted : doc.accepted[i].revision \in Nat
      /\ \A i \in DOMAIN doc.accepted : doc.accepted[i].revision = r + 1 => i = id
  <2>1. \A i \in DOMAIN doc.accepted : doc.accepted[i].revision \in 1..doc.revision
    BY DEF RecoveryInv, EngineInv, HistoryInv, RevisionsSound
  <2> QED
    BY <2>1 DEF RecoveryInv, EngineInv, HistoryInv, EntriesSound, RecordsSound
<1>2. Kept(r + 1) = Kept(r) \cup {id} /\ id \notin Kept(r)
  BY <1>1 DEF Kept
<1>3. KeptEntries(r + 1) = Extend(KeptEntries(r), id, doc.accepted[id])
  <2>1. DOMAIN KeptEntries(r) = Kept(r) /\ \A i \in Kept(r) : KeptEntries(r)[i] = doc.accepted[i]
    BY DEF KeptEntries
  <2>2. Extend(KeptEntries(r), id, doc.accepted[id])
          = [i \in Kept(r) \cup {id} |-> IF i = id THEN doc.accepted[id] ELSE KeptEntries(r)[i]]
    BY <2>1 DEF Extend
  <2>3. \A i \in Kept(r) \cup {id} :
           (IF i = id THEN doc.accepted[id] ELSE KeptEntries(r)[i]) = doc.accepted[i]
    BY <2>1
  <2> QED
    BY <2>2, <2>3, <1>2 DEF KeptEntries
<1>4. /\ \A target \in DOMAIN doc.inverted :
            /\ doc.inverted[target] \in DOMAIN doc.accepted
            /\ target \in DOMAIN doc.accepted
            /\ doc.accepted[doc.inverted[target]].op.inverseOf = target
      /\ DOMAIN doc.accepted \subseteq OperationIDs
  BY DEF RecoveryInv, EngineInv, HistoryInv, EntriesSound, WellFormed, UndoSound, UndoneBy, RecordsSound
<1>5. \A target \in DOMAIN doc.inverted :
         doc.accepted[doc.inverted[target]].revision <= r + 1 <=>
            doc.accepted[doc.inverted[target]].revision <= r \/ doc.inverted[target] = id
  BY <1>1, <1>4
<1>6. ASSUME op.inverseOf = None
      PROVE  UndoneTargets(r + 1) = UndoneTargets(r)
  <2>1. \A target \in DOMAIN doc.inverted : doc.inverted[target] # id
    BY <1>4, <1>6, NoneAssumption
  <2>2. Undone(r + 1) = Undone(r)
    BY <2>1, <1>5 DEF Undone
  <2> QED
    BY <2>2 DEF UndoneTargets
<1>7. ASSUME op.inverseOf # None
      PROVE  UndoneTargets(r + 1) = Extend(UndoneTargets(r), op.inverseOf, id)
  <2>1. op.inverseOf \in DOMAIN doc.inverted /\ doc.inverted[op.inverseOf] = id
    <3>1. op.kind = "inverse"
      BY <1>7 DEF RecoveryInv, EngineInv, HistoryInv, EntriesSound, WellFormed, Kinds,
                  RecordsSound, EntrySound
    <3> QED
      BY <3>1 DEF RecoveryInv, EngineInv, HistoryInv, UndoSound
  <2>2. \A target \in DOMAIN doc.inverted : doc.inverted[target] = id <=> target = op.inverseOf
    BY <2>1, <1>4
  <2>3. Undone(r + 1) = Undone(r) \cup {op.inverseOf}
    <3>1. \A target \in DOMAIN doc.inverted :
             target \in Undone(r + 1) <=> target \in Undone(r) \/ target = op.inverseOf
      BY <2>2, <1>5 DEF Undone
    <3> QED
      BY <3>1, <2>1 DEF Undone
  <2>4. DOMAIN UndoneTargets(r) = Undone(r)
        /\ \A target \in Undone(r) : UndoneTargets(r)[target] = doc.inverted[target]
    BY DEF UndoneTargets
  <2>5. PICK key : key = op.inverseOf
    OBVIOUS
  <2>6. Extend(UndoneTargets(r), key, id)
          = [target \in Undone(r) \cup {key} |-> IF target = key THEN id ELSE UndoneTargets(r)[target]]
    BY <2>4 DEF Extend
  <2>7. \A target \in Undone(r) \cup {key} :
           (IF target = key THEN id ELSE UndoneTargets(r)[target]) = doc.inverted[target]
    BY <2>1, <2>4, <2>5
  <2> QED
    BY <2>3, <2>5, <2>6, <2>7 DEF UndoneTargets
<1> QED
  BY <1>1, <1>2, <1>3, <1>6, <1>7

(* The latest write up to a revision is what the table shows at it. *)
LEMMA LatestIs ==
    ASSUME RecoveryInv
    PROVE  \A r \in 0..doc.revision : \A c :
              Writers(doc.accepted, c, r) # {} =>
                 c \in DOMAIN doc.hashes[r] /\ Latest(doc.accepted, c, r) = doc.hashes[r][c]
<1> DEFINE S == {r \in Nat : r <= doc.revision =>
                    \A c : Writers(doc.accepted, c, r) # {} =>
                       c \in DOMAIN doc.hashes[r] /\ Latest(doc.accepted, c, r) = doc.hashes[r][c]}
<1>1. /\ doc.revision \in Nat
      /\ \A i \in DOMAIN doc.accepted : doc.accepted[i].revision \in 1..doc.revision
  BY DEF RecoveryInv, EngineInv, HistoryInv, RevisionsSound
<1>2. 0 \in S
  <2>1. \A c : Writers(doc.accepted, c, 0) = {}
    BY <1>1 DEF Writers
  <2> QED
    BY <2>1
<1>3. ASSUME NEW r \in Nat, r \in S
      PROVE  r + 1 \in S
  <2> SUFFICES ASSUME r + 1 <= doc.revision, NEW c, Writers(doc.accepted, c, r + 1) # {}
               PROVE  /\ c \in DOMAIN doc.hashes[r + 1]
                      /\ Latest(doc.accepted, c, r + 1) = doc.hashes[r + 1][c]
    OBVIOUS
  <2>1. r + 1 \in 1..doc.revision
    BY <1>1
  <2>2. PICK id \in DOMAIN doc.accepted :
           /\ doc.accepted[id].revision = r + 1
           /\ \A other \in DOMAIN doc.accepted : doc.accepted[other].revision = r + 1 => other = id
    BY <2>1, EntryIs
  <2>3. PICK changes : changes = doc.accepted[id].op.changes
    OBVIOUS
  <2>4. doc.hashes[r + 1] = Install(doc.hashes[r], changes)
    <3>1. doc.hashes[r + 1] = Install(doc.hashes[r + 1 - 1], changes)
      BY <2>1, <2>2, <2>3 DEF RecoveryInv, EngineInv, HistoryInv, HistoryReplays
    <3>2. r + 1 - 1 = r
      OBVIOUS
    <3> QED
      BY <3>1, <3>2
  <2>5. CASE c \in Touched(changes)
    <3>1. id \in Writers(doc.accepted, c, r + 1)
      BY <2>2, <2>3, <2>5 DEF Writers
    <3>2. PICK last : last = CHOOSE i \in Writers(doc.accepted, c, r + 1) :
                               \A other \in Writers(doc.accepted, c, r + 1) :
                                  doc.accepted[other].revision <= doc.accepted[i].revision
      OBVIOUS
    <3>3. /\ last \in Writers(doc.accepted, c, r + 1)
          /\ doc.accepted[id].revision <= doc.accepted[last].revision
      <4>1. \A other \in Writers(doc.accepted, c, r + 1) :
               doc.accepted[other].revision <= doc.accepted[id].revision
        BY <2>2 DEF Writers
      <4> QED
        BY <3>1, <3>2, <4>1
    <3>4. last = id
      <4>1. last \in DOMAIN doc.accepted /\ doc.accepted[last].revision <= r + 1
        BY <3>3 DEF Writers
      <4>2. doc.accepted[last].revision = r + 1
        BY <4>1, <3>3, <2>2, <1>1
      <4> QED
        BY <4>1, <4>2, <2>2
    <3>5. Latest(doc.accepted, c, r + 1) = After(changes, c)
      BY <3>2, <3>4, <2>3 DEF Latest
    <3> QED
      BY <3>5, <2>4, <2>5 DEF Install
  <2>6. CASE c \notin Touched(changes)
    <3>1. Writers(doc.accepted, c, r + 1) = Writers(doc.accepted, c, r)
      <4>1. \A i \in DOMAIN doc.accepted : c \in Touched(doc.accepted[i].op.changes) =>
               (doc.accepted[i].revision <= r + 1 <=> doc.accepted[i].revision <= r)
        BY <1>1, <2>2, <2>3, <2>6
      <4> QED
        BY <4>1 DEF Writers
    <3>2. Latest(doc.accepted, c, r + 1) = Latest(doc.accepted, c, r)
      BY <3>1 DEF Latest
    <3>3. c \in DOMAIN doc.hashes[r] /\ Latest(doc.accepted, c, r) = doc.hashes[r][c]
      BY <3>1, <1>1, <1>3
    <3> QED
      BY <3>2, <3>3, <2>4, <2>6 DEF Install
  <2> QED
    BY <2>5, <2>6
<1> HIDE DEF S
<1>4. \A r \in Nat : r \in S
  BY <1>2, <1>3, Induction
<1> QED
  BY <1>4, <1>1 DEF S

(* The objections of validateChanges, from what they object to. *)
LEMMA PlacesPass ==
    ASSUME NEW d, NEW changes, Distinct(changes),
           \A x \in changes : x.coord \in Coords /\ TileOf(d.tiles, x.coord) = x.before
    PROVE  PlaceObjections(d, changes) = {}
<1>1. ~ \E x \in changes : x.coord \notin Coords
  OBVIOUS
<1>2. ~ \E x \in changes : x.coord \in Coords /\ Tile(d, x.coord) # x.before
  BY DEF Tile
<1>3. /\ Objection(~ Distinct(changes), "invalid_operation") = {}
      /\ Objection(\E x \in changes : x.coord \notin Coords, "out_of_bounds") = {}
      /\ Objection(\E x \in changes : x.coord \in Coords /\ Tile(d, x.coord) # x.before,
                   "precondition_failed") = {}
  BY <1>1, <1>2, ObjectionNone
<1> QED
  BY <1>3 DEF PlaceObjections

LEMMA IdentitiesPass ==
    ASSUME NEW d, NEW changes,
           \A x \in changes : ~ Repeats(x.after),
           \A x, y \in changes : x # y => IDs(x.after) \cap IDs(y.after) = {},
           \A x \in changes : \A s \in IDs(x.after) :
              s \in DOMAIN d.owners => d.owners[s] \in Touched(changes)
    PROVE  IdentityObjections(d, changes) = {}
BY ObjectionNone DEF IdentityObjections

(* What an entry is and what it did to the map of its time. *)
Did(r, op) ==
    /\ r \in 0..doc.revision /\ r + 1 \in 0..doc.revision
    /\ Distinct(op.changes) /\ op.changes # {}
    /\ \A x \in op.changes : x.coord \in Coords /\ TileOf(doc.hashes[r], x.coord) = x.before
    /\ doc.hashes[r + 1] = Install(doc.hashes[r], op.changes)
    /\ ValidSnapshot(doc.hashes[r]) /\ ValidSnapshot(doc.hashes[r + 1])
    /\ \A x \in op.changes : ~ Repeats(x.after)
    /\ \A x, y \in op.changes : x # y => IDs(x.after) \cap IDs(y.after) = {}

LEMMA EntryDid ==
    ASSUME RecoveryInv, NEW r \in Nat, NEW id \in DOMAIN doc.accepted,
           doc.accepted[id].revision = r + 1,
           NEW op, op = doc.accepted[id].op
    PROVE  Did(r, op)
<1>1. /\ doc.revision \in Nat /\ DOMAIN doc.hashes = 0..doc.revision
      /\ r + 1 \in 1..doc.revision
  BY DEF RecoveryInv, EngineInv, HistoryInv, RevisionsSound
<1>2. r \in 0..doc.revision /\ r + 1 \in 0..doc.revision /\ r + 1 - 1 = r
  BY <1>1
<1>3. Distinct(op.changes) /\ op.changes # {} /\ \A x \in op.changes : x.coord \in Coords
  BY DEF RecoveryInv, EngineInv, HistoryInv, EntriesSound
<1>4. /\ \A x \in op.changes : TileOf(doc.hashes[r], x.coord) = x.before
      /\ doc.hashes[r + 1] = Install(doc.hashes[r], op.changes)
  <2>1. /\ \A x \in op.changes : TileOf(doc.hashes[r + 1 - 1], x.coord) = x.before
        /\ doc.hashes[r + 1] = Install(doc.hashes[r + 1 - 1], op.changes)
    BY <1>1 DEF RecoveryInv, EngineInv, HistoryInv, HistoryReplays
  <2> QED
    BY <2>1, <1>2
<1>5. ValidSnapshot(doc.hashes[r]) /\ ValidSnapshot(doc.hashes[r + 1])
  BY <1>1, <1>2 DEF RecoveryInv, EngineInv, HistoryInv, TablesSound
<1>6. PICK table : table = doc.hashes[r + 1] /\ ValidSnapshot(table)
  BY <1>5
<1>7. \A x \in op.changes : x.coord \in DOMAIN table /\ table[x.coord] = x.after
  <2>1. \A x \in op.changes : x.coord \in Touched(op.changes)
    BY DEF Touched
  <2>2. PICK tiles, changes : tiles = doc.hashes[r] /\ changes = op.changes
    OBVIOUS
  <2>3. Distinct(changes)
    BY <2>2, <1>3
  <2>4. /\ DOMAIN Install(tiles, changes) = DOMAIN tiles \cup Touched(changes)
        /\ \A x \in changes : Install(tiles, changes)[x.coord] = x.after
        /\ \A c \in DOMAIN tiles \ Touched(changes) : Install(tiles, changes)[c] = tiles[c]
    BY ONLY <2>3, InstalledTable
  <2>5. table = Install(tiles, changes)
    BY <2>2, <1>4, <1>6
  <2> QED
    BY <2>1, <2>2, <2>4, <2>5
<1>8. \A x, y \in op.changes : x # y => x.coord # y.coord
  BY <1>3 DEF Distinct
<1>9. /\ \A x \in op.changes : ~ Repeats(x.after)
      /\ \A x, y \in op.changes : x # y => IDs(x.after) \cap IDs(y.after) = {}
  <2>1. ASSUME NEW x \in op.changes
        PROVE  ~ Repeats(x.after)
    <3>1. x.coord \in DOMAIN table /\ table[x.coord] = x.after
      BY <1>7
    <3>2. ~ Repeats(table[x.coord])
      BY <3>1, <1>6 DEF ValidSnapshot
    <3> QED
      BY <3>1, <3>2
  <2>2. ASSUME NEW x \in op.changes, NEW y \in op.changes, x # y
        PROVE  IDs(x.after) \cap IDs(y.after) = {}
    <3>1. /\ x.coord \in DOMAIN table /\ table[x.coord] = x.after
          /\ y.coord \in DOMAIN table /\ table[y.coord] = y.after
          /\ x.coord # y.coord
      BY <2>2, <1>7, <1>8
    <3>2. IDs(table[x.coord]) \cap IDs(table[y.coord]) = {}
      BY <3>1, <1>6 DEF ValidSnapshot
    <3> QED
      BY <3>1, <3>2
  <2> QED
    BY <2>1, <2>2
<1> QED
  BY <1>2, <1>3, <1>4, <1>5, <1>9 DEF Did

(* A row passes validation again against any document that has the hashes    *)
(* from before it, the entries from before it and their undo records.        *)
LEMMA ValidAgain ==
    ASSUME RecoveryInv, NEW r \in Nat, NEW id \in DOMAIN doc.accepted,
           doc.accepted[id].revision = r + 1,
           NEW op, op = doc.accepted[id].op,
           NEW h \in Nat, r <= h,
           NEW d, d.hashes = [q \in 0..h |-> doc.hashes[q]],
           d.accepted = KeptEntries(r), d.inverted = UndoneTargets(r),
           PlaceObjections(d, op.changes) = {}, IdentityObjections(d, op.changes) = {}
    PROVE  Validate(d, op) = {}
<1>1. /\ doc.accepted[id] = [op |-> op, revision |-> r + 1]
      /\ op.header = "valid"
      /\ op.base \in 0..r /\ op.baseHash = doc.hashes[op.base]
      /\ op.inverseOf = None <=> op.kind = "tile_change"
      /\ Cardinality(op.changes) \in 1..CellCount
  <2>1. EntrySound(doc.accepted[id], doc.hashes)
    BY DEF RecoveryInv, RecordsSound
  <2>2. r + 1 - 1 = r
    OBVIOUS
  <2> QED
    BY <2>1, <2>2 DEF EntrySound
<1>2. op.id = id /\ WellFormed(op)
  BY DEF RecoveryInv, EngineInv, HistoryInv, EntriesSound
<1>3. HeaderObjections(d, op) = {}
  <2>1. op.base \in 0..h
    BY <1>1
  <2>2. op.base \in DOMAIN d.hashes /\ d.hashes[op.base] = doc.hashes[op.base]
    BY <2>1
  <2>3. Objection(\/ op.kind = "tile_change" /\ op.inverseOf # None
                  \/ Cardinality(op.changes) \notin 1..CellCount, "invalid_operation") = {}
    BY <1>1, ObjectionNone
  <2> QED
    BY <2>2, <2>3, <1>1 DEF HeaderObjections
<1>4. InverseObjections(d, op) = {}
  <2>1. CASE op.kind = "tile_change"
    BY <2>1 DEF InverseObjections
  <2>2. CASE op.kind # "tile_change"
    <3>1. PICK target : target = op.inverseOf
      OBVIOUS
    <3>2. op.kind = "inverse" /\ target # None
      BY <2>2, <3>1, <1>1, <1>2 DEF WellFormed, Kinds
    <3>3. target \in DOMAIN doc.inverted /\ doc.inverted[target] = id
      BY <3>1, <3>2 DEF RecoveryInv, EngineInv, HistoryInv, UndoSound
    <3>4. UndoneBy(doc, target, id)
      BY <3>3 DEF RecoveryInv, EngineInv, HistoryInv, UndoSound
    <3>5. /\ target \in DOMAIN doc.accepted /\ doc.accepted[target].revision \in Nat
          /\ doc.accepted[target].revision < r + 1
          /\ doc.accepted[target].op.actor = op.actor
          /\ doc.accepted[target].op.kind # "inverse"
          /\ op.changes = Reversed(doc.accepted[target].op.changes)
      BY <3>4 DEF UndoneBy, RecoveryInv, EngineInv, HistoryInv, RevisionsSound
    <3>6. target \in Kept(r) /\ target \notin Undone(r)
      BY <3>3, <3>5 DEF Kept, Undone
    <3>7. /\ target \in DOMAIN d.accepted /\ d.accepted[target] = doc.accepted[target]
          /\ target \notin DOMAIN d.inverted
      BY <3>6 DEF KeptEntries, UndoneTargets
    <3>8. Objection(op.changes # Reversed(d.accepted[target].op.changes), "invalid_operation") = {}
      BY <3>5, <3>7, ObjectionNone
    <3> QED
      BY <3>1, <3>2, <3>5, <3>7, <3>8 DEF InverseObjections
  <2> QED
    BY <2>1, <2>2
<1> QED
  BY <1>3, <1>4 DEF Validate, ValidateChanges

(* The document rebuilt so far: the table at revision m, and the records up  *)
(* to revision r.                                                            *)
Rebuilt(m, r) ==
    [revision |-> m, tiles |-> doc.hashes[m], hashes |-> [q \in 0..m |-> doc.hashes[q]],
     accepted |-> KeptEntries(r), inverted |-> UndoneTargets(r), owners |-> IndexState(doc.hashes[m])]

LEMMA RebuiltFields ==
    ASSUME NEW m, NEW r
    PROVE  /\ Rebuilt(m, r).revision = m /\ Rebuilt(m, r).tiles = doc.hashes[m]
           /\ Rebuilt(m, r).hashes = [q \in 0..m |-> doc.hashes[q]]
           /\ Rebuilt(m, r).accepted = KeptEntries(r)
           /\ Rebuilt(m, r).inverted = UndoneTargets(r)
           /\ Rebuilt(m, r).owners = IndexState(doc.hashes[m])
BY DEF Rebuilt

(* A row folded into the snapshot is recorded. *)
LEMMA FoldedStep ==
    ASSUME RecoveryInv, NEW from \in 0..doc.revision, NEW r \in Nat, r + 1 <= from,
           NEW id \in DOMAIN doc.accepted, doc.accepted[id].revision = r + 1,
           NEW entry, entry = doc.accepted[id]
    PROVE  ReplayStep({Rebuilt(from, r)}, doc.accepted, doc.hashes, from, entry) = {Rebuilt(from, r + 1)}
<1>1. PICK p : p = Rebuilt(from, r)
  OBVIOUS
<1>2. PICK op : op = entry.op
  OBVIOUS
<1>3. op = doc.accepted[id].op /\ entry.revision = r + 1 /\ doc.revision \in Nat
  BY <1>2 DEF RecoveryInv, EngineInv, HistoryInv, RevisionsSound
<1>4. /\ Distinct(op.changes)
      /\ \A x \in op.changes : x.coord \in Coords /\ TileOf(doc.hashes[r], x.coord) = x.before
      /\ ValidSnapshot(doc.hashes[r])
      /\ \A x \in op.changes : ~ Repeats(x.after)
      /\ \A x, y \in op.changes : x # y => IDs(x.after) \cap IDs(y.after) = {}
  <2>1. /\ RecoveryInv /\ r \in Nat /\ id \in DOMAIN doc.accepted
        /\ doc.accepted[id].revision = r + 1 /\ op = doc.accepted[id].op
    BY <1>3
  <2>2. Did(r, op)
    BY ONLY <2>1, EntryDid
  <2> QED
    BY <2>2 DEF Did
<1>5. /\ p.hashes = [q \in 0..from |-> doc.hashes[q]]
      /\ p.accepted = KeptEntries(r) /\ p.inverted = UndoneTargets(r)
  BY <1>1, RebuiltFields
<1>6. op.id \notin DOMAIN p.accepted
  BY <1>3, <1>5, RecordedNext DEF KeptEntries
<1>7. PICK before : before = [c \in Touched(op.changes) |-> (CHOOSE x \in op.changes : x.coord = c).before]
  OBVIOUS
<1>8. /\ DOMAIN before = Touched(op.changes)
      /\ \A x \in op.changes : x.coord \in DOMAIN before /\ before[x.coord] = x.before
      /\ \A c \in DOMAIN before : c \in Coords /\ before[c] = TileOf(doc.hashes[r], c)
  <2>1. ASSUME NEW x \in op.changes
        PROVE  x.coord \in DOMAIN before /\ before[x.coord] = x.before
    <3>1. PICK y : y = (CHOOSE z \in op.changes : z.coord = x.coord) /\ y \in op.changes /\ y.coord = x.coord
      OBVIOUS
    <3>2. y = x
      BY <3>1, <1>4 DEF Distinct
    <3> QED
      BY <3>1, <3>2, <1>7 DEF Touched
  <2>2. \A c \in Touched(op.changes) : \E x \in op.changes : x.coord = c
    BY DEF Touched
  <2> QED
    BY <2>1, <2>2, <1>4, <1>7
<1>9. ValidSnapshot(before)
  <2>1. PICK tiles : tiles = doc.hashes[r]
    OBVIOUS
  <2>2. ValidSnapshot(tiles) /\ \A c \in DOMAIN before : c \in Coords /\ before[c] = TileOf(tiles, c)
    BY <2>1, <1>4, <1>8
  <2>3. PICK empty : empty = <<>>
    OBVIOUS
  <2>4. ~ Repeats(empty) /\ IDs(empty) = {}
    BY <2>3 DEF Repeats, IDs
  <2>5. \A c \in DOMAIN before : before[c] = empty \/ (c \in DOMAIN tiles /\ before[c] = tiles[c])
    BY <2>2, <2>3 DEF TileOf
  <2>6. \A c \in DOMAIN before : ~ Repeats(before[c])
    BY <2>2, <2>4, <2>5 DEF ValidSnapshot
  <2>7. ASSUME NEW c \in DOMAIN before, NEW e \in DOMAIN before, c # e
        PROVE  IDs(before[c]) \cap IDs(before[e]) = {}
    <3>1. CASE before[c] = empty \/ before[e] = empty
      BY <3>1, <2>4
    <3>2. CASE ~ (before[c] = empty \/ before[e] = empty)
      BY <3>2, <2>2, <2>5, <2>7 DEF ValidSnapshot
    <3> QED
      BY <3>1, <3>2
  <2> QED
    BY <2>2, <2>6, <2>7 DEF ValidSnapshot
<1>10. PICK v : v = [NewDocument(before, entry.revision - 1) EXCEPT
                       !.hashes = p.hashes, !.accepted = p.accepted, !.inverted = p.inverted]
  OBVIOUS
<1>11. /\ v.tiles = before /\ v.owners = IndexState(before)
       /\ v.hashes = p.hashes /\ v.accepted = p.accepted /\ v.inverted = p.inverted
  BY <1>10 DEF NewDocument
<1>12. Validate(v, op) = {}
  <2>1. PlaceObjections(v, op.changes) = {}
    <3>1. \A x \in op.changes : x.coord \in Coords /\ TileOf(v.tiles, x.coord) = x.before
      BY <1>4, <1>8, <1>11 DEF TileOf
    <3> QED
      BY <3>1, <1>4, PlacesPass
  <2>2. IdentityObjections(v, op.changes) = {}
    <3>1. \A s \in DOMAIN v.owners : v.owners[s] \in Touched(op.changes)
      BY <1>8, <1>9, <1>11, IndexNames
    <3> QED
      BY <3>1, <1>4, IdentitiesPass
  <2>3. PICK h : h = from /\ h \in Nat /\ r <= h
    BY <1>3
  <2>4. /\ v.hashes = [q \in 0..h |-> doc.hashes[q]]
        /\ v.accepted = KeptEntries(r) /\ v.inverted = UndoneTargets(r)
    BY <2>3, <1>5, <1>11
  <2>5. RecoveryInv /\ r \in Nat /\ id \in DOMAIN doc.accepted
        /\ doc.accepted[id].revision = r + 1 /\ op = doc.accepted[id].op
    BY <1>3
  <2> QED
    BY ONLY <2>1, <2>2, <2>3, <2>4, <2>5, ValidAgain
<1>13. Revalidates(p, entry)
  <2>1. op.base < entry.revision
    <3>1. EntrySound(entry, doc.hashes)
      BY DEF RecoveryInv, RecordsSound
    <3> QED
      BY <3>1, <1>2, <1>3 DEF EntrySound
  <2> QED
    <3>1. before = [c \in Touched(entry.op.changes) |-> (CHOOSE x \in entry.op.changes : x.coord = c).before]
      BY <1>2, <1>7
    <3>2. Validate(v, entry.op) = {}
      BY <1>2, <1>12
    <3> QED
      BY <2>1, <3>1, <3>2, <1>2, <1>9, <1>10 DEF Revalidates
<1>14. HistoryChains(doc.accepted, from, entry)
  <2>1. r \in 0..doc.revision /\ entry.revision - 1 = r
    BY <1>3
  <2>2. ASSUME NEW x \in op.changes, Writers(doc.accepted, x.coord, r) # {}
        PROVE  Latest(doc.accepted, x.coord, r) = x.before
    BY <2>1, <2>2, <1>4, LatestIs DEF TileOf
  <2> QED
    BY <2>1, <2>2, <1>2 DEF HistoryChains
<1>15. Recorded(p, entry) = Rebuilt(from, r + 1)
  <2>1. /\ KeptEntries(r + 1) = Extend(KeptEntries(r), op.id, entry)
        /\ op.inverseOf = None => UndoneTargets(r + 1) = UndoneTargets(r)
        /\ op.inverseOf # None => UndoneTargets(r + 1) = Extend(UndoneTargets(r), op.inverseOf, op.id)
    BY <1>3, RecordedNext
  <2>2. PICK a, i, t, hs, os, undone :
           /\ a = KeptEntries(r) /\ i = UndoneTargets(r) /\ t = doc.hashes[from]
           /\ hs = [q \in 0..from |-> doc.hashes[q]] /\ os = IndexState(doc.hashes[from])
           /\ undone = UndoneTargets(r + 1)
    OBVIOUS
  <2>3. p = [revision |-> from, tiles |-> t, hashes |-> hs, accepted |-> a, inverted |-> i, owners |-> os]
    BY <2>2, <1>1 DEF Rebuilt
  <2>4. undone = IF op.inverseOf = None THEN i ELSE Extend(i, op.inverseOf, op.id)
    BY <2>1, <2>2
  <2>5. PICK added : added = Extend(a, op.id, entry)
    OBVIOUS
  <2>6. Recorded(p, entry) = [p EXCEPT !.accepted = added, !.inverted = undone]
    <3>1. p.accepted = a /\ p.inverted = i
      BY <2>2, <1>5
    <3>2. Recorded(p, entry) = [p EXCEPT
             !.accepted = Extend(p.accepted, entry.op.id, entry),
             !.inverted = IF entry.op.inverseOf = None THEN p.inverted
                           ELSE Extend(p.inverted, entry.op.inverseOf, entry.op.id)]
      BY DEF Recorded
    <3> QED
      BY <3>1, <3>2, <2>4, <2>5, <1>2
  <2>7. Recorded(p, entry)
          = [revision |-> from, tiles |-> t, hashes |-> hs, accepted |-> added,
             inverted |-> undone, owners |-> os]
    BY <2>3, <2>6
  <2> QED
    BY <2>1, <2>2, <2>5, <2>7 DEF Rebuilt
<1>16. entry.revision <= from
  BY <1>3
<1> QED
  BY <1>1, <1>2, <1>6, <1>13, <1>14, <1>15, <1>16 DEF ReplayStep

(* A row after the snapshot is accepted again, with the same outcome. *)
LEMMA AppliedPasses ==
    ASSUME RecoveryInv, NEW r \in Nat, NEW id \in DOMAIN doc.accepted,
           doc.accepted[id].revision = r + 1,
           NEW op, op = doc.accepted[id].op,
           NEW p, p = Rebuilt(r, r)
    PROVE  /\ PlaceObjections(p, op.changes) = {}
           /\ IdentityObjections(p, op.changes) = {}
           /\ Validate(p, op) = {}
<1>1. /\ Distinct(op.changes)
      /\ \A x \in op.changes : x.coord \in Coords /\ TileOf(doc.hashes[r], x.coord) = x.before
      /\ doc.hashes[r + 1] = Install(doc.hashes[r], op.changes)
      /\ ValidSnapshot(doc.hashes[r]) /\ ValidSnapshot(doc.hashes[r + 1])
      /\ \A x \in op.changes : ~ Repeats(x.after)
      /\ \A x, y \in op.changes : x # y => IDs(x.after) \cap IDs(y.after) = {}
  BY EntryDid DEF Did
<1>2. PICK tiles, table, changes :
         tiles = doc.hashes[r] /\ table = doc.hashes[r + 1] /\ changes = op.changes
  OBVIOUS
<1>3. /\ p.tiles = tiles /\ p.owners = IndexState(tiles)
      /\ p.hashes = [q \in 0..r |-> doc.hashes[q]]
      /\ p.accepted = KeptEntries(r) /\ p.inverted = UndoneTargets(r)
  BY <1>2, RebuiltFields
<1>4. /\ Distinct(changes) /\ table = Install(tiles, changes)
      /\ ValidSnapshot(tiles) /\ ValidSnapshot(table)
      /\ \A x \in changes : ~ Repeats(x.after)
      /\ \A x, y \in changes : x # y => IDs(x.after) \cap IDs(y.after) = {}
      /\ \A x \in changes : x.coord \in Coords /\ TileOf(p.tiles, x.coord) = x.before
  <2>1. Distinct(changes) /\ table = Install(tiles, changes)
    BY <1>1, <1>2
  <2>2. ValidSnapshot(tiles) /\ ValidSnapshot(table)
    BY <1>1, <1>2
  <2>3. /\ \A x \in changes : ~ Repeats(x.after)
        /\ \A x, y \in changes : x # y => IDs(x.after) \cap IDs(y.after) = {}
    BY <1>1, <1>2
  <2>4. \A x \in changes : x.coord \in Coords /\ TileOf(p.tiles, x.coord) = x.before
    BY <1>1, <1>2, <1>3
  <2> QED
    BY <2>1, <2>2, <2>3, <2>4
<1>5. PlaceObjections(p, changes) = {}
  BY <1>4, PlacesPass
<1>6. ASSUME NEW x \in changes, NEW s \in IDs(x.after), s \in DOMAIN p.owners,
             p.owners[s] \notin Touched(changes)
      PROVE  FALSE
  <2>1. /\ DOMAIN Install(tiles, changes) = DOMAIN tiles \cup Touched(changes)
        /\ \A y \in changes : Install(tiles, changes)[y.coord] = y.after
        /\ \A c \in DOMAIN tiles \ Touched(changes) : Install(tiles, changes)[c] = tiles[c]
    BY <1>4, InstalledTable
  <2>2. PICK c : c = p.owners[s] /\ c \in DOMAIN tiles /\ s \in IDs(tiles[c]) /\ c \notin Touched(changes)
    BY <1>3, <1>4, <1>6, IndexNames
  <2>3. s \in IDs(table[c]) /\ c \in DOMAIN table
    BY <2>1, <2>2, <1>4
  <2>4. x.coord \in Touched(changes)
    BY DEF Touched
  <2>5. s \in IDs(table[x.coord]) /\ x.coord \in DOMAIN table
    BY <2>1, <2>4, <1>4, <1>6
  <2> QED
    BY <2>2, <2>3, <2>4, <2>5, <1>4 DEF ValidSnapshot
<1>7. IdentityObjections(p, changes) = {}
  BY <1>4, <1>6, IdentitiesPass
<1>8. PlaceObjections(p, op.changes) = {} /\ IdentityObjections(p, op.changes) = {}
  BY <1>2, <1>5, <1>7
<1>9. PICK h : h = r /\ h \in Nat /\ r <= h
  OBVIOUS
<1>10. /\ p.hashes = [q \in 0..h |-> doc.hashes[q]]
       /\ p.accepted = KeptEntries(r) /\ p.inverted = UndoneTargets(r)
  BY <1>3, <1>9
<1>11. RecoveryInv /\ r \in Nat /\ id \in DOMAIN doc.accepted
       /\ doc.accepted[id].revision = r + 1 /\ op = doc.accepted[id].op
  OBVIOUS
<1>12. Validate(p, op) = {}
  BY ONLY <1>8, <1>9, <1>10, <1>11, ValidAgain
<1> QED
  BY <1>8, <1>12

LEMMA AppliedIs ==
    ASSUME RecoveryInv, NEW r \in Nat, NEW id \in DOMAIN doc.accepted,
           doc.accepted[id].revision = r + 1,
           NEW op, op = doc.accepted[id].op,
           NEW p, p = Rebuilt(r, r)
    PROVE  Accept(p, op) = Rebuilt(r + 1, r + 1)
<1>1. PlaceObjections(p, op.changes) = {} /\ IdentityObjections(p, op.changes) = {}
  BY AppliedPasses
<1>2. PICK tiles, table, changes :
         tiles = doc.hashes[r] /\ table = doc.hashes[r + 1] /\ changes = op.changes
  OBVIOUS
<1>3. /\ p.revision = r /\ p.tiles = tiles /\ p.owners = IndexState(tiles)
      /\ p.hashes = [q \in 0..r |-> doc.hashes[q]]
      /\ p.accepted = KeptEntries(r) /\ p.inverted = UndoneTargets(r)
  BY <1>2, RebuiltFields
<1>4. table = Install(tiles, changes) /\ ValidSnapshot(tiles)
  BY <1>2, EntryDid DEF Did
<1>5. UpdateIdentityOwners(p.owners, changes) = IndexState(table)
  <2>1. /\ ValidSnapshot(p.tiles) /\ p.owners = IndexState(p.tiles)
        /\ PlaceObjections(p, changes) = {} /\ IdentityObjections(p, changes) = {}
    BY <1>1, <1>2, <1>3, <1>4
  <2>2. UpdateIdentityOwners(p.owners, changes) = IndexState(Install(p.tiles, changes))
    BY ONLY <2>1, IdentityStep
  <2> QED
    BY <2>2, <1>3, <1>4
<1>6. Extend(p.hashes, r + 1, table) = [q \in 0..(r + 1) |-> doc.hashes[q]]
  <2>1. 0..(r + 1) = 0..r \cup {r + 1}
    OBVIOUS
  <2>2. Extend(p.hashes, r + 1, table)
          = [q \in 0..r \cup {r + 1} |-> IF q = r + 1 THEN table ELSE p.hashes[q]]
    BY <1>3 DEF Extend
  <2>3. \A q \in 0..r \cup {r + 1} : (IF q = r + 1 THEN table ELSE p.hashes[q]) = doc.hashes[q]
    BY <1>2, <1>3
  <2> QED
    BY <2>1, <2>2, <2>3
<1>7. PICK entry : entry = doc.accepted[id] /\ entry = [op |-> op, revision |-> r + 1]
  <2>1. EntrySound(doc.accepted[id], doc.hashes)
    BY DEF RecoveryInv, RecordsSound
  <2> QED
    BY <2>1 DEF EntrySound
<1>8. /\ KeptEntries(r + 1) = Extend(KeptEntries(r), op.id, entry)
      /\ op.inverseOf = None => UndoneTargets(r + 1) = UndoneTargets(r)
      /\ op.inverseOf # None => UndoneTargets(r + 1) = Extend(UndoneTargets(r), op.inverseOf, op.id)
  BY <1>7, RecordedNext
<1>9. PICK hs, a, i, os :
         /\ hs = [q \in 0..(r + 1) |-> doc.hashes[q]] /\ a = KeptEntries(r + 1)
         /\ i = UndoneTargets(r + 1) /\ os = IndexState(table)
  OBVIOUS
<1>10. /\ Extend(p.hashes, r + 1, table) = hs
       /\ Extend(p.accepted, op.id, [op |-> op, revision |-> r + 1]) = a
       /\ (IF op.inverseOf = None THEN p.inverted ELSE Extend(p.inverted, op.inverseOf, op.id)) = i
       /\ UpdateIdentityOwners(p.owners, op.changes) = os
       /\ Install(p.tiles, op.changes) = table
  BY <1>2, <1>3, <1>4, <1>5, <1>6, <1>7, <1>8, <1>9
<1>11. Accept(p, op) = [revision |-> r + 1, tiles |-> table, hashes |-> hs, accepted |-> a,
                        inverted |-> i, owners |-> os]
  BY <1>3, <1>10 DEF Accept
<1>12. Rebuilt(r + 1, r + 1) = [revision |-> r + 1, tiles |-> table, hashes |-> hs, accepted |-> a,
                                inverted |-> i, owners |-> os]
  BY <1>2, <1>9 DEF Rebuilt
<1> QED
  BY <1>11, <1>12

LEMMA AppliedStep ==
    ASSUME RecoveryInv, NEW from \in 0..doc.revision, NEW r \in Nat, from <= r,
           NEW id \in DOMAIN doc.accepted, doc.accepted[id].revision = r + 1,
           NEW entry, entry = doc.accepted[id]
    PROVE  ReplayStep({Rebuilt(r, r)}, doc.accepted, doc.hashes, from, entry) = {Rebuilt(r + 1, r + 1)}
<1>1. PICK p, op : p = Rebuilt(r, r) /\ op = entry.op
  OBVIOUS
<1>2. /\ RecoveryInv /\ r \in Nat /\ id \in DOMAIN doc.accepted
      /\ doc.accepted[id].revision = r + 1 /\ op = doc.accepted[id].op /\ p = Rebuilt(r, r)
  BY <1>1
<1>3. Validate(p, op) = {}
  BY ONLY <1>2, AppliedPasses
<1>4. Accept(p, op) = Rebuilt(r + 1, r + 1)
  BY ONLY <1>2, AppliedIs
<1>5. Accept(p, op).tiles = doc.hashes[entry.revision]
  <2>1. Rebuilt(r + 1, r + 1).tiles = doc.hashes[r + 1]
    BY DEF Rebuilt
  <2> QED
    BY <2>1, <1>2, <1>4
<1>6. op.id \notin DOMAIN p.accepted
  <2>1. Rebuilt(r, r).accepted = KeptEntries(r)
    BY DEF Rebuilt
  <2>2. op.id \notin Kept(r)
    BY <1>2, RecordedNext
  <2> QED
    BY <2>1, <2>2, <1>1 DEF KeptEntries
<1>7. ~ (entry.revision <= from)
  BY <1>2 DEF RecoveryInv, EngineInv, HistoryInv, RevisionsSound
<1> QED
  BY <1>1, <1>3, <1>4, <1>5, <1>6, <1>7 DEF ReplayStep

(* What has been rebuilt when the row of revision r has been read: the table *)
(* of the snapshot while the rows are folded into it, that of r afterwards.  *)
Stage(from, r) == IF r <= from THEN Rebuilt(from, r) ELSE Rebuilt(r, r)

LEMMA StageStep ==
    ASSUME RecoveryInv, NEW from \in 0..doc.revision, NEW r \in 1..doc.revision
    PROVE  ReplayStep({Stage(from, r - 1)}, doc.accepted, doc.hashes, from, Entry(doc.accepted, r))
             = {Stage(from, r)}
<1>1. doc.revision \in Nat
  BY DEF RecoveryInv, EngineInv, HistoryInv, RevisionsSound
<1>2. PICK id \in DOMAIN doc.accepted :
         doc.accepted[id].revision = r /\ Entry(doc.accepted, r) = doc.accepted[id]
  BY EntryIs
<1>3. PICK q, entry : q = r - 1 /\ entry = doc.accepted[id]
  OBVIOUS
<1>4. q \in Nat /\ q + 1 = r /\ r - 1 = q /\ from \in Nat
  BY <1>1, <1>3
<1>5. /\ RecoveryInv /\ from \in 0..doc.revision /\ q \in Nat /\ id \in DOMAIN doc.accepted
      /\ doc.accepted[id].revision = q + 1 /\ entry = doc.accepted[id]
  BY <1>2, <1>3, <1>4
<1>6. ReplayStep({Stage(from, q)}, doc.accepted, doc.hashes, from, entry) = {Stage(from, q + 1)}
  <2>1. CASE q + 1 <= from
    <3>1. ReplayStep({Rebuilt(from, q)}, doc.accepted, doc.hashes, from, entry) = {Rebuilt(from, q + 1)}
      BY ONLY <1>5, <2>1, FoldedStep
    <3>2. Stage(from, q) = Rebuilt(from, q) /\ Stage(from, q + 1) = Rebuilt(from, q + 1)
      BY <2>1, <1>4 DEF Stage
    <3> QED
      BY <3>1, <3>2
  <2>2. CASE ~ (q + 1 <= from)
    <3>1. from <= q
      BY <2>2, <1>4
    <3>2. ReplayStep({Rebuilt(q, q)}, doc.accepted, doc.hashes, from, entry) = {Rebuilt(q + 1, q + 1)}
      BY ONLY <1>5, <3>1, AppliedStep
    <3>3. Stage(from, q) = Rebuilt(q, q)
      <4>1. q <= from => from = q
        BY <3>1, <1>4
      <4> QED
        BY <4>1 DEF Stage
    <3>4. Stage(from, q + 1) = Rebuilt(q + 1, q + 1)
      BY <2>2 DEF Stage
    <3> QED
      BY <3>2, <3>3, <3>4
  <2> QED
    BY <2>1, <2>2
<1> QED
  BY <1>2, <1>3, <1>4, <1>6

(* At the head the rebuilt document is the owner's. *)
LEMMA StageAtHead ==
    ASSUME RecoveryInv, NEW from \in 0..doc.revision
    PROVE  Stage(from, doc.revision) = doc
<1>1. PICK n : n = doc.revision /\ n \in Nat
  BY DEF RecoveryInv, EngineInv, HistoryInv, RevisionsSound
<1>2. Stage(from, n) = Rebuilt(n, n)
  <2>1. n <= from => from = n
    BY <1>1
  <2> QED
    BY <2>1 DEF Stage
<1>3. Kept(n) = DOMAIN doc.accepted /\ Undone(n) = DOMAIN doc.inverted
  <2>1. \A id \in DOMAIN doc.accepted : doc.accepted[id].revision <= n
    BY <1>1 DEF RecoveryInv, EngineInv, HistoryInv, RevisionsSound
  <2>2. \A target \in DOMAIN doc.inverted : doc.inverted[target] \in DOMAIN doc.accepted
    BY DEF RecoveryInv, EngineInv, HistoryInv, UndoSound, UndoneBy
  <2> QED
    BY <2>1, <2>2 DEF Kept, Undone
<1>4. KeptEntries(n) = doc.accepted /\ UndoneTargets(n) = doc.inverted
  BY <1>3 DEF KeptEntries, UndoneTargets, RecoveryInv, RecordsSound
<1>5. doc.hashes = [q \in 0..n |-> doc.hashes[q]]
  BY <1>1 DEF RecoveryInv, EngineInv, HistoryInv, RevisionsSound, RecordsSound
<1>6. doc.tiles = doc.hashes[n] /\ doc.owners = IndexState(doc.hashes[n])
  BY <1>1 DEF RecoveryInv, EngineInv, HistoryInv, HistoryReplays, IdentityIndexExact
<1>7. doc = [revision |-> doc.revision, tiles |-> doc.tiles, hashes |-> doc.hashes,
             accepted |-> doc.accepted, inverted |-> doc.inverted, owners |-> doc.owners]
  BY DEF RecoveryInv, RecordsSound
<1>8. PICK t, hs, a, i, os :
         t = doc.tiles /\ hs = doc.hashes /\ a = doc.accepted /\ i = doc.inverted /\ os = doc.owners
  OBVIOUS
<1>9. doc = [revision |-> n, tiles |-> t, hashes |-> hs, accepted |-> a, inverted |-> i, owners |-> os]
  BY <1>1, <1>7, <1>8
<1>10. Rebuilt(n, n)
         = [revision |-> n, tiles |-> t, hashes |-> hs, accepted |-> a, inverted |-> i, owners |-> os]
  <2>1. /\ doc.hashes[n] = t /\ [q \in 0..n |-> doc.hashes[q]] = hs
        /\ KeptEntries(n) = a /\ UndoneTargets(n) = i /\ IndexState(doc.hashes[n]) = os
    BY <1>4, <1>5, <1>6, <1>8
  <2> QED
    BY <2>1 DEF Rebuilt
<1> QED
  BY <1>1, <1>2, <1>9, <1>10

(* There is one accepted operation for each revision but the first. *)
LEMMA AcceptedCount ==
    ASSUME RecoveryInv
    PROVE  /\ IsFiniteSet(DOMAIN doc.accepted)
           /\ Cardinality(DOMAIN doc.accepted) = doc.revision
           /\ Cardinality(DOMAIN doc.hashes) = doc.revision + 1
<1>1. PICK n, ids : n = doc.revision /\ ids = DOMAIN doc.accepted
  OBVIOUS
<1>2. n \in Nat /\ DOMAIN doc.hashes = 0..n
  BY <1>1 DEF RecoveryInv, EngineInv, HistoryInv, RevisionsSound
<1>3. PICK f : f = [r \in 1..n |-> CHOOSE id \in ids : doc.accepted[id].revision = r]
  OBVIOUS
<1>4. \A r \in 1..n : f[r] \in ids /\ doc.accepted[f[r]].revision = r
  BY <1>1, <1>3, EntryIs
<1>5. f \in Bijection(1..n, ids)
  <2>1. f \in [1..n -> ids]
    BY <1>3, <1>4
  <2>2. \A r, q \in 1..n : f[r] = f[q] => r = q
    BY <1>4
  <2>3. \A id \in ids : \E r \in 1..n : f[r] = id
    <3>1. ASSUME NEW id \in ids
          PROVE  doc.accepted[id].revision \in 1..n /\ f[doc.accepted[id].revision] = id
      <4>1. doc.accepted[id].revision \in 1..n
        BY <1>1 DEF RecoveryInv, EngineInv, HistoryInv, RevisionsSound
      <4> QED
        BY <4>1, <1>1, <1>4 DEF RecoveryInv, RecordsSound
    <3> QED
      BY <3>1
  <2>4. f \in Injection(1..n, ids)
    BY <2>1, <2>2 DEF Injection, IsInjective
  <2>5. f \in Surjection(1..n, ids)
    BY <2>1, <2>3 DEF Surjection
  <2> QED
    BY <2>4, <2>5 DEF Bijection
<1>6. IsFiniteSet(1..n) /\ Cardinality(1..n) = n
  <2>1. 1 \in Int /\ n \in Int /\ (1 > n => n = 0)
    BY <1>2
  <2> QED
    BY <1>2, <2>1, FS_Interval
<1>7. IsFiniteSet(ids) /\ Cardinality(ids) = n
  <2>1. ExistsBijection(1..n, ids)
    BY <1>5 DEF ExistsBijection
  <2> QED
    BY ONLY <2>1, <1>6, FS_Bijection
<1>8. Cardinality(0..n) = n + 1
  <2>1. 0 \in Int /\ n \in Int /\ ~ (0 > n) /\ n - 0 + 1 = n + 1
    BY <1>2
  <2> QED
    BY <2>1, FS_Interval
<1> QED
  BY <1>1, <1>2, <1>7, <1>8

(* Restore's replay is the stages one after the other, and its last checks   *)
(* find what the owner holds.                                                *)
LEMMA RestoreIs ==
    ASSUME RecoveryInv, NEW from \in 0..doc.revision
    PROVE  Restore(doc.hashes[from], from, doc.accepted, doc.hashes, doc.revision) = {doc}
<1> DEFINE first == CHOOSE r \in DOMAIN doc.hashes : \A q \in DOMAIN doc.hashes : r <= q
           opened == [NewDocument(doc.hashes[from], from) EXCEPT
                        !.hashes = [r \in {q \in DOMAIN doc.hashes : q <= from} |-> doc.hashes[r]]]
           replay[r \in first..doc.revision] ==
             IF r = first THEN {opened}
             ELSE ReplayStep(replay[r - 1], doc.accepted, doc.hashes, from, Entry(doc.accepted, r))
           intact ==
             /\ doc.hashes[from] = doc.hashes[from]
             /\ \A r \in DOMAIN doc.hashes : r <= doc.revision
             /\ Cardinality(DOMAIN doc.accepted) = doc.revision - first
             /\ Cardinality(DOMAIN doc.hashes) = Cardinality(DOMAIN doc.accepted) + 1
             /\ \A c \in Coords : Writers(doc.accepted, c, from) # {} =>
                   c \in DOMAIN doc.hashes[from] /\ doc.hashes[from][c] = Latest(doc.accepted, c, from)
<1>1. Restore(doc.hashes[from], from, doc.accepted, doc.hashes, doc.revision)
        = {rebuilt \in replay[doc.revision] : intact /\ rebuilt.tiles = doc.hashes[doc.revision]}
  BY DEF Restore
<1>2. doc.revision \in Nat /\ DOMAIN doc.hashes = 0..doc.revision /\ from \in Nat
  BY DEF RecoveryInv, EngineInv, HistoryInv, RevisionsSound
<1>3. first = 0
  <2>1. 0 \in DOMAIN doc.hashes /\ \A q \in DOMAIN doc.hashes : 0 <= q
    BY <1>2
  <2>2. first \in DOMAIN doc.hashes /\ \A q \in DOMAIN doc.hashes : first <= q
    BY <2>1
  <2> HIDE DEF first
  <2> QED
    BY <2>1, <2>2, <1>2
<1>4. opened = Stage(from, 0)
  <2>1. KeptEntries(0) = [o \in {} |-> None] /\ UndoneTargets(0) = [o \in {} |-> None]
    <3>1. \A id \in DOMAIN doc.accepted : doc.accepted[id].revision \in 1..doc.revision
      BY DEF RecoveryInv, EngineInv, HistoryInv, RevisionsSound
    <3>2. \A target \in DOMAIN doc.inverted : doc.inverted[target] \in DOMAIN doc.accepted
      BY DEF RecoveryInv, EngineInv, HistoryInv, UndoSound, UndoneBy
    <3>3. Kept(0) = {} /\ Undone(0) = {}
      BY <3>1, <3>2, <1>2 DEF Kept, Undone
    <3> QED
      BY <3>3 DEF KeptEntries, UndoneTargets
  <2>2. {q \in DOMAIN doc.hashes : q <= from} = 0..from
    BY <1>2
  <2>3. PICK none, hs, t, os, first_hash :
           /\ none = [o \in {} |-> None] /\ hs = [q \in 0..from |-> doc.hashes[q]]
           /\ t = doc.hashes[from] /\ os = IndexState(doc.hashes[from])
           /\ first_hash = [r \in {from} |-> doc.hashes[from]]
    OBVIOUS
  <2>4. NewDocument(doc.hashes[from], from)
          = [revision |-> from, tiles |-> t, hashes |-> first_hash, accepted |-> none, inverted |-> none, owners |-> os]
    BY <2>3 DEF NewDocument
  <2>5. opened = [NewDocument(doc.hashes[from], from) EXCEPT !.hashes = hs]
    BY <2>2, <2>3
  <2>6. opened = [revision |-> from, tiles |-> t, hashes |-> hs, accepted |-> none, inverted |-> none, owners |-> os]
    <3> HIDE DEF opened
    <3> QED
      BY <2>4, <2>5
  <2>7. Rebuilt(from, 0)
          = [revision |-> from, tiles |-> t, hashes |-> hs, accepted |-> none, inverted |-> none, owners |-> os]
    BY <2>1, <2>3 DEF Rebuilt
  <2>8. Stage(from, 0) = Rebuilt(from, 0)
    BY <1>2 DEF Stage
  <2> HIDE DEF opened
  <2> QED
    BY <2>6, <2>7, <2>8
<1>5. PICK N : N = doc.revision /\ N \in Nat
  BY <1>2
<1> DEFINE Body(f) == [r \in 0..N |->
             IF r = 0 THEN {Stage(from, 0)}
             ELSE ReplayStep(f[r - 1], doc.accepted, doc.hashes, from, Entry(doc.accepted, r))]
<1>6. replay = CHOOSE f : f = Body(f)
  <2> HIDE DEF first, opened
  <2> QED
    BY <1>3, <1>4, <1>5
<1>7. \A r \in 1..N :
         ReplayStep({Stage(from, r - 1)}, doc.accepted, doc.hashes, from, Entry(doc.accepted, r))
           = {Stage(from, r)}
  BY <1>5, StageStep
<1> HIDE DEF first, opened, replay, intact
<1>8. \E f : f = Body(f)
  <2>1. PICK stages : stages = [r \in 0..N |-> {Stage(from, r)}]
    OBVIOUS
  <2>2. \A r \in 1..N : r - 1 \in 0..N /\ stages[r - 1] = {Stage(from, r - 1)}
    BY <2>1, <1>5
  <2>3. Body(stages) = stages
    BY <2>1, <2>2, <1>7, <1>5
  <2> HIDE DEF Body
  <2> QED
    BY <2>3
<1>9. replay = Body(replay)
  <2> HIDE DEF Body
  <2> QED
    BY <1>6, <1>8
<1>10. replay[N] = {Stage(from, N)}
  <2> DEFINE S == {r \in Nat : r <= N => replay[r] = {Stage(from, r)}}
  <2>1. \A r \in 0..N : replay[r] =
           IF r = 0 THEN {Stage(from, 0)}
           ELSE ReplayStep(replay[r - 1], doc.accepted, doc.hashes, from, Entry(doc.accepted, r))
    BY <1>9
  <2> HIDE DEF Body
  <2>2. 0 \in S
    BY <2>1, <1>5
  <2>3. ASSUME NEW r \in Nat, r \in S
        PROVE  r + 1 \in S
    <3> SUFFICES ASSUME r + 1 <= N
                 PROVE  replay[r + 1] = {Stage(from, r + 1)}
      OBVIOUS
    <3>1. PICK n : n = r + 1 /\ n \in 1..N /\ n \in 0..N /\ n - 1 = r /\ n # 0
      BY <1>5
    <3>2. replay[r] = {Stage(from, r)}
      BY <2>3, <1>5
    <3>3. replay[n] = ReplayStep(replay[n - 1], doc.accepted, doc.hashes, from, Entry(doc.accepted, n))
      BY <2>1, <3>1
    <3> QED
      BY <3>1, <3>2, <3>3, <1>7
  <2> HIDE DEF S
  <2>4. N \in S
    BY <2>2, <2>3, <1>5, Induction
  <2> QED
    BY <2>4, <1>5 DEF S
<1>11. replay[doc.revision] = {doc}
  BY <1>5, <1>10, StageAtHead
<1>12. intact
  <2>1. \A r \in DOMAIN doc.hashes : r <= doc.revision
    BY <1>2
  <2>2. /\ Cardinality(DOMAIN doc.accepted) = doc.revision - first
        /\ Cardinality(DOMAIN doc.hashes) = Cardinality(DOMAIN doc.accepted) + 1
    BY <1>2, <1>3, AcceptedCount
  <2>3. \A c \in Coords : Writers(doc.accepted, c, from) # {} =>
           c \in DOMAIN doc.hashes[from] /\ doc.hashes[from][c] = Latest(doc.accepted, c, from)
    BY LatestIs
  <2> QED
    BY <2>1, <2>2, <2>3 DEF intact
<1>13. doc.tiles = doc.hashes[doc.revision]
  BY DEF RecoveryInv, EngineInv, HistoryInv, HistoryReplays
<1> QED
  BY <1>1, <1>11, <1>12, <1>13

(* RestoreAt accepts what a healthy store kept and rebuilds the document the *)
(* owner holds, from a snapshot published at any retained revision: every    *)
(* row passes its validation again or its fold, and every closing check.     *)
THEOREM RestoreAgreesTheorem == Spec => []RestoreAgrees
<1>1. RecoveryInv => RestoreAgrees
  <2> SUFFICES ASSUME RecoveryInv, NEW from \in DOMAIN doc.hashes
               PROVE  Restore(doc.hashes[from], from, doc.accepted, doc.hashes, doc.revision) = {doc}
    BY DEF RestoreAgrees
  <2>1. from \in 0..doc.revision
    BY DEF RecoveryInv, EngineInv, HistoryInv, RevisionsSound
  <2> QED
    BY <2>1, RestoreIs
<1> QED
  BY <1>1, EngineInvHolds, RecordsSoundHolds, PTL DEF RecoveryInv
===================================================================================
