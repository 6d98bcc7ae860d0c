-------------------------------- MODULE AcceptedLog -------------------------------
(***************************************************************************)
(* What a session promises its members: one log of accepted operations,    *)
(* and a document that only moves forward along it.  Every accepted        *)
(* operation takes the next revision, applies to the map the log describes *)
(* so far, and is never removed, reordered or applied a second time.  The  *)
(* document served while a server is up is some prefix of the log and      *)
(* never falls back; only stopping the server takes it away.               *)
(*                                                                         *)
(* An operation is [id, tile, before]: it writes its own ID to the tile,   *)
(* provided the tile still holds what operation `before` wrote.            *)
(***************************************************************************)
EXTENDS Naturals, Sequences

CONSTANTS OperationIDs, Tiles, None

Operations == [id : OperationIDs, tile : Tiles, before : OperationIDs \cup {None}]

(* The map a document holds: for each tile the last operation that wrote it. *)
Writers(accepted, tile) == {r \in DOMAIN accepted : accepted[r].tile = tile}

Current(accepted, tile) ==
    LET writers == Writers(accepted, tile)
    IN  IF writers = {} THEN None
        ELSE accepted[CHOOSE r \in writers : \A q \in writers : q <= r].id

MapHash(accepted) == [tile \in Tiles |-> Current(accepted, tile)]

Contains(accepted, id) == \E r \in DOMAIN accepted : accepted[r].id = id

PrefixOf(s, t) == Len(s) <= Len(t) /\ \A r \in DOMAIN s : s[r] = t[r]

VARIABLES log, document

Init == log = << >> /\ document = << >>

Accept(op) ==
    /\ ~ Contains(log, op.id)
    /\ Current(log, op.tile) = op.before
    /\ log' = Append(log, op)
    /\ UNCHANGED document

Serve ==
    /\ PrefixOf(document, document')
    /\ PrefixOf(document', log)
    /\ UNCHANGED log

Stop ==
    /\ document' = << >>
    /\ UNCHANGED log

Next == (\E op \in Operations : Accept(op)) \/ Serve \/ Stop

Spec == Init /\ [][Next]_<<log, document>>
===================================================================================
