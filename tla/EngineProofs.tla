-------------------------------- MODULE EngineProofs --------------------------------
(***************************************************************************)
(* Lemmas about the engine's functions, for the proofs about the modules   *)
(* built on them: what validation establishes, what an edit does to the    *)
(* tile table and to its identity index, and induction over a sequence.    *)
(***************************************************************************)
EXTENDS Engine, FiniteSetTheorems, WellFoundedInduction, TLAPS

(* Induction without an operator for the predicate: the set of the numbers  *)
(* that have it.  < on the naturals is well founded, as a set of pairs.      *)
Below == {pair \in Nat \X Nat : pair[1] < pair[2]}

LEMMA BelowWellFounded == IsWellFoundedOn(Below, Nat)
BY NatLessThanWellFounded DEF Below, OpToRel

LEMMA BelowIsLess ==
    ASSUME NEW m \in Nat, NEW n \in Nat, n < m
    PROVE  <<n, m>> \in Below
BY DEF Below

LEMMA LeastNatural ==
    ASSUME NEW S, S \subseteq Nat, S # {}
    PROVE  \E m \in S : \A n \in S : m <= n
<1>1. PICK m \in S : \A n \in S : ~ (<<n, m>> \in Below)
  BY BelowWellFounded, WFMin
<1>2. ASSUME NEW n \in S
      PROVE  m <= n
  <2>1. n \in Nat /\ m \in Nat
    OBVIOUS
  <2>2. ~ (<<n, m>> \in Below)
    BY <1>1
  <2>3. ~ (n < m)
    BY <2>1, <2>2, BelowIsLess
  <2> QED
    BY <2>1, <2>3
<1> QED
  BY <1>2

LEMMA Induction ==
    ASSUME NEW S, 0 \in S, \A n \in Nat : n \in S => n + 1 \in S
    PROVE  \A n \in Nat : n \in S
<1> DEFINE T == Nat \ S
<1>1. SUFFICES ASSUME T # {}
               PROVE  FALSE
  OBVIOUS
<1>2. PICK m \in T : \A n \in T : m <= n
  <2>1. T \subseteq Nat /\ T # {}
    BY <1>1
  <2> HIDE DEF T
  <2> QED
    BY <2>1, LeastNatural
<1>3. m # 0 /\ m \in Nat /\ m \notin S
  OBVIOUS
<1>4. m - 1 \in Nat /\ m - 1 + 1 = m
  BY <1>3
<1>5. m - 1 \in S
  BY <1>2, <1>3, <1>4
<1> QED
  BY <1>3, <1>4, <1>5

-----------------------------------------------------------------------------------
(* A set of objections is empty exactly when its condition is false. *)
LEMMA NoObjection ==
    ASSUME NEW condition \in BOOLEAN, NEW code, Objection(condition, code) = {}
    PROVE  ~ condition
BY DEF Objection

(* What the first loop of validateChanges establishes when it passes. *)
LEMMA PlacesHold ==
    ASSUME NEW d, NEW changes, PlaceObjections(d, changes) = {}
    PROVE  /\ Distinct(changes)
           /\ \A x \in changes : x.coord \in Coords /\ TileOf(d.tiles, x.coord) = x.before
<1>1. /\ Objection(~ Distinct(changes), "invalid_operation") = {}
      /\ Objection(\E x \in changes : x.coord \notin Coords, "out_of_bounds") = {}
      /\ Objection(\E x \in changes : x.coord \in Coords /\ Tile(d, x.coord) # x.before,
                   "precondition_failed") = {}
  BY DEF PlaceObjections
<1>2. Distinct(changes)
  BY <1>1, NoObjection DEF Distinct
<1>3. ~ \E x \in changes : x.coord \notin Coords
  BY <1>1, NoObjection
<1>4. ~ \E x \in changes : x.coord \in Coords /\ Tile(d, x.coord) # x.before
  BY <1>1, NoObjection
<1> QED
  BY <1>2, <1>3, <1>4 DEF Tile

(* What the second loop establishes when it passes. *)
LEMMA IdentitiesHold ==
    ASSUME NEW d, NEW changes, IdentityObjections(d, changes) = {}
    PROVE  /\ \A x \in changes : ~ Repeats(x.after)
           /\ \A x, y \in changes : x # y => IDs(x.after) \cap IDs(y.after) = {}
           /\ \A x \in changes : \A s \in IDs(x.after) :
                 s \in DOMAIN d.owners => d.owners[s] \in Touched(changes)
BY NoObjection DEF IdentityObjections

(* The table after an edit, coordinate by coordinate. *)
LEMMA InstalledTable ==
    ASSUME NEW tiles, NEW changes, Distinct(changes)
    PROVE  /\ DOMAIN Install(tiles, changes) = DOMAIN tiles \cup Touched(changes)
           /\ \A x \in changes : Install(tiles, changes)[x.coord] = x.after
           /\ \A c \in DOMAIN tiles \ Touched(changes) : Install(tiles, changes)[c] = tiles[c]
<1>1. ASSUME NEW x \in changes
      PROVE  After(changes, x.coord) = x.after
  <2>1. PICK y \in changes : y = CHOOSE z \in changes : z.coord = x.coord
    OBVIOUS
  <2>2. y.coord = x.coord
    BY <2>1
  <2> QED
    BY <2>1, <2>2 DEF Distinct, After
<1> QED
  BY <1>1 DEF Install, Touched

(* In a valid table the index names the one tile an identity is on. *)
LEMMA IndexNames ==
    ASSUME NEW tiles, ValidSnapshot(tiles)
    PROVE  /\ DOMAIN IndexState(tiles) = Occupied(tiles)
           /\ \A c \in DOMAIN tiles : \A s \in IDs(tiles[c]) :
                 s \in Occupied(tiles) /\ IndexState(tiles)[s] = c
           /\ \A s \in Occupied(tiles) :
                 /\ IndexState(tiles)[s] \in DOMAIN tiles
                 /\ s \in IDs(tiles[IndexState(tiles)[s]])
<1>1. DOMAIN IndexState(tiles) = Occupied(tiles)
  BY DEF IndexState
<1>2. ASSUME NEW s \in Occupied(tiles)
      PROVE  /\ IndexState(tiles)[s] \in DOMAIN tiles
             /\ s \in IDs(tiles[IndexState(tiles)[s]])
  <2>1. \E c \in DOMAIN tiles : s \in IDs(tiles[c])
    BY DEF Occupied
  <2> QED
    BY <2>1 DEF IndexState
<1>3. ASSUME NEW c \in DOMAIN tiles, NEW s \in IDs(tiles[c])
      PROVE  s \in Occupied(tiles) /\ IndexState(tiles)[s] = c
  <2>1. s \in Occupied(tiles)
    BY DEF Occupied
  <2>2. s \in IDs(tiles[IndexState(tiles)[s]]) /\ IndexState(tiles)[s] \in DOMAIN tiles
    BY <1>2, <2>1
  <2> QED
    BY <2>1, <2>2 DEF ValidSnapshot
<1> QED
  BY <1>1, <1>2, <1>3

(* An edit that passes validateChanges leaves the map valid, and updating    *)
(* the index by the edit gives what indexing the whole map again would give. *)
LEMMA IdentityStep ==
    ASSUME NEW d, NEW changes,
           ValidSnapshot(d.tiles),
           d.owners = IndexState(d.tiles),
           PlaceObjections(d, changes) = {},
           IdentityObjections(d, changes) = {}
    PROVE  /\ ValidSnapshot(Install(d.tiles, changes))
           /\ UpdateIdentityOwners(d.owners, changes) = IndexState(Install(d.tiles, changes))
<1> DEFINE tiles == d.tiles
           table == Install(tiles, changes)
           removed == UNION {IDs(x.before) : x \in changes}
           added == UNION {IDs(x.after) : x \in changes}
<1>1. /\ Distinct(changes)
      /\ \A x \in changes : x.coord \in Coords /\ TileOf(tiles, x.coord) = x.before
  BY PlacesHold
<1>2. /\ \A x \in changes : ~ Repeats(x.after)
      /\ \A x, y \in changes : x # y => IDs(x.after) \cap IDs(y.after) = {}
      /\ \A x \in changes : \A s \in IDs(x.after) :
            s \in DOMAIN d.owners => d.owners[s] \in Touched(changes)
  BY IdentitiesHold
<1>3. /\ DOMAIN table = DOMAIN tiles \cup Touched(changes)
      /\ \A x \in changes : table[x.coord] = x.after
      /\ \A c \in DOMAIN tiles \ Touched(changes) : table[c] = tiles[c]
  BY <1>1, InstalledTable
<1>4. /\ DOMAIN d.owners = Occupied(tiles)
      /\ \A c \in DOMAIN tiles : \A s \in IDs(tiles[c]) : s \in Occupied(tiles) /\ d.owners[s] = c
      /\ \A s \in Occupied(tiles) : d.owners[s] \in DOMAIN tiles /\ s \in IDs(tiles[d.owners[s]])
  BY IndexNames
<1>5. \A c \in Touched(changes) : \E x \in changes : x.coord = c
  BY DEF Touched
<1>6. \A x \in changes : x.coord \in Touched(changes)
  BY DEF Touched
<1> HIDE DEF table, tiles
<1>7. ValidSnapshot(table)
  <2>1. DOMAIN table \subseteq Coords
    BY <1>1, <1>3, <1>5 DEF ValidSnapshot, tiles
  <2>2. ASSUME NEW c \in DOMAIN table
        PROVE  ~ Repeats(table[c])
    <3>1. CASE c \in Touched(changes)
      BY <3>1, <1>2, <1>3, <1>5
    <3>2. CASE c \notin Touched(changes)
      BY <3>2, <1>3 DEF ValidSnapshot, tiles
    <3> QED
      BY <3>1, <3>2
  <2>3. ASSUME NEW c \in Touched(changes), NEW e \in DOMAIN tiles \ Touched(changes)
        PROVE  IDs(table[c]) \cap IDs(table[e]) = {}
    <3>1. PICK x \in changes : x.coord = c
      BY <1>5
    <3>2. ASSUME NEW s \in IDs(x.after), s \in IDs(tiles[e])
          PROVE  FALSE
      BY <3>2, <1>2, <1>4
    <3> QED
      BY <3>1, <3>2, <1>3
  <2>4. ASSUME NEW c \in DOMAIN table, NEW e \in DOMAIN table, c # e
        PROVE  IDs(table[c]) \cap IDs(table[e]) = {}
    <3>1. CASE c \in Touched(changes) /\ e \in Touched(changes)
      BY <2>4, <3>1, <1>2, <1>3, <1>5
    <3>2. CASE c \in Touched(changes) /\ e \notin Touched(changes)
      BY <3>2, <2>3, <1>3
    <3>3. CASE c \notin Touched(changes) /\ e \in Touched(changes)
      BY <3>3, <2>3, <1>3
    <3>4. CASE c \notin Touched(changes) /\ e \notin Touched(changes)
      BY <2>4, <3>4, <1>3 DEF ValidSnapshot, tiles
    <3> QED
      BY <3>1, <3>2, <3>3, <3>4
  <2> QED
    BY <2>1, <2>2, <2>4 DEF ValidSnapshot
<1>8. /\ DOMAIN IndexState(table) = Occupied(table)
      /\ \A c \in DOMAIN table : \A s \in IDs(table[c]) :
            s \in Occupied(table) /\ IndexState(table)[s] = c
  BY <1>7, IndexNames
<1>9. ASSUME NEW x \in changes, NEW s \in IDs(x.before)
      PROVE  s \in Occupied(tiles) /\ d.owners[s] = x.coord
  <2>1. x.coord \in DOMAIN tiles /\ x.before = tiles[x.coord]
    BY <1>1, <1>9 DEF TileOf, IDs
  <2> QED
    BY <2>1, <1>4
<1>10. ASSUME NEW s \in Occupied(tiles) \ removed
       PROVE  /\ d.owners[s] \in DOMAIN table \ Touched(changes)
              /\ s \in IDs(table[d.owners[s]])
  <2>1. d.owners[s] \in DOMAIN tiles /\ s \in IDs(tiles[d.owners[s]])
    BY <1>4
  <2>2. d.owners[s] \notin Touched(changes)
    BY <2>1, <1>1, <1>5 DEF TileOf
  <2> QED
    BY <2>1, <2>2, <1>3
<1>11. Occupied(table) = (Occupied(tiles) \ removed) \cup added
  <2>1. ASSUME NEW s \in Occupied(table)
        PROVE  s \in (Occupied(tiles) \ removed) \cup added
    <3>1. PICK c \in DOMAIN table : s \in IDs(table[c])
      BY DEF Occupied
    <3>2. CASE c \in Touched(changes)
      BY <3>1, <3>2, <1>3, <1>5
    <3>3. CASE c \notin Touched(changes)
      <4>1. s \in Occupied(tiles) /\ d.owners[s] = c
        BY <3>1, <3>3, <1>3, <1>4
      <4>2. s \notin removed
        BY <4>1, <3>3, <1>9, <1>6
      <4> QED
        BY <4>1, <4>2
    <3> QED
      BY <3>2, <3>3
  <2>2. ASSUME NEW s \in added
        PROVE  s \in Occupied(table)
    <3>1. PICK x \in changes : s \in IDs(x.after)
      OBVIOUS
    <3> QED
      BY <3>1, <1>3, <1>6, <1>8
  <2>3. ASSUME NEW s \in Occupied(tiles) \ removed
        PROVE  s \in Occupied(table)
    BY <1>10, <1>8
  <2> QED
    BY <2>1, <2>2, <2>3
<1>12. ASSUME NEW s \in Occupied(table)
       PROVE  UpdateIdentityOwners(d.owners, changes)[s] = IndexState(table)[s]
  <2>1. CASE s \in added
    <3>1. PICK x \in changes : s \in IDs(x.after) /\ x = CHOOSE y \in changes : s \in IDs(y.after)
      BY <2>1
    <3>2. UpdateIdentityOwners(d.owners, changes)[s] = x.coord
      BY <3>1, <2>1, <1>11, <1>4 DEF UpdateIdentityOwners
    <3>3. IndexState(table)[s] = x.coord
      BY <3>1, <1>3, <1>6, <1>8
    <3> QED
      BY <3>2, <3>3
  <2>2. CASE s \notin added
    <3>1. s \in Occupied(tiles) \ removed
      BY <2>2, <1>11
    <3>2. UpdateIdentityOwners(d.owners, changes)[s] = d.owners[s]
      BY <3>1, <2>2, <1>4 DEF UpdateIdentityOwners
    <3> QED
      BY <3>1, <3>2, <1>8, <1>10
  <2> QED
    BY <2>1, <2>2
<1>13. UpdateIdentityOwners(d.owners, changes) = IndexState(table)
  <2>1. DOMAIN UpdateIdentityOwners(d.owners, changes) = Occupied(table)
    BY <1>11, <1>4 DEF UpdateIdentityOwners
  <2>2. UpdateIdentityOwners(d.owners, changes)
          = [s \in DOMAIN UpdateIdentityOwners(d.owners, changes) |->
                UpdateIdentityOwners(d.owners, changes)[s]]
    BY DEF UpdateIdentityOwners
  <2>3. IndexState(table) = [s \in Occupied(table) |-> IndexState(table)[s]]
    BY DEF IndexState
  <2> QED
    BY <2>1, <2>2, <2>3, <1>12
<1> QED
  BY <1>7, <1>13 DEF table, tiles
===================================================================================
