------------------------------ MODULE DocumentOwner -------------------------------
(***************************************************************************)
(* server.DocumentOwner: the goroutine that owns a document, the session   *)
(* store it appends to, the snapshot saver it starts, and the crashes and  *)
(* recoveries between its lives.                                           *)
(*                                                                         *)
(* A store call may fail.  An append may fail before or after it has       *)
(* committed, and the owner has to find out which.  The engine's verdict   *)
(* (Engine.tla) is reduced to the precondition of AcceptedLog.             *)
(***************************************************************************)
EXTENDS Integers, Sequences, FiniteSets

CONSTANTS
    Clients,        \* connections; each has one request outstanding at most
    OperationIDs, Tiles, None,
    QueueSize,      \* documentRequestQueueSize
    Threshold,      \* SnapshotOperationThreshold; 0 turns it off
    Ticks,          \* TRUE iff SnapshotInterval > 0
    Faults,         \* the store calls that may fail
    MaxFaults,      \* bound: failing calls in a behaviour
    MaxLives        \* bound: owners started for the document

StoreCalls == {"lookup", "append", "resolve", "reconcile", "save"}

ASSUME OwnerAssumption ==
    /\ None \notin OperationIDs
    /\ QueueSize \in Nat \ {0}
    /\ Threshold \in Nat
    /\ Ticks \in BOOLEAN
    /\ Faults \subseteq StoreCalls
    /\ MaxFaults \in Nat
    /\ MaxLives \in Nat \ {0}

VARIABLES
    \* durable
    log,            \* the store's accepted operations, revision by revision
    base,           \* revision of the store's snapshot; replay starts after it
    \* the owner
    up,             \* the run loop is alive
    life,           \* owners started so far
    memory,         \* the document, as the operations applied to it
    inbox,          \* the request channel, [client, op]
    turn,           \* the submission being processed, or None
    since,          \* acceptedSinceSnapshot
    inFlight,       \* snapshotInFlight
    results,        \* the snapshotResults channel: None or [revision, failed]
    \* the saver goroutines; one may outlive its owner
    savers,
    \* observations
    recoveredAt,    \* revision this life of the owner started from
    published,      \* events given to subscribers in this life
    answer,         \* per client, the response to its last request
    faults          \* store calls that have failed

stored    == <<log, base>>
snapshots == <<since, inFlight, results, savers>>
observed  == <<recoveredAt, published>>
vars      == <<log, base, up, life, memory, inbox, turn, since, inFlight, results, savers,
               recoveredAt, published, answer, faults>>

Log == INSTANCE AcceptedLog WITH document <- memory

Init ==
    /\ log = << >>
    /\ base = 0
    /\ up = TRUE
    /\ life = 1
    /\ memory = << >>
    /\ inbox = << >>
    /\ turn = None
    /\ since = 0
    /\ inFlight = FALSE
    /\ results = None
    /\ savers = {}
    /\ recoveredAt = 0
    /\ published = << >>
    /\ answer = [c \in Clients |-> None]
    /\ faults = 0

-----------------------------------------------------------------------------------
(* Store queries. *)
Revision(id) == CHOOSE r \in DOMAIN log : log[r].id = id

(* RevisionHash: every revision's hash is retained, compacted or not. *)
HashMatches(document) ==
    /\ Len(document) <= Len(log)
    /\ Log!MapHash(document) = Log!MapHash(SubSeq(log, 1, Len(document)))

Fails(call) ==
    /\ call \in Faults
    /\ faults < MaxFaults
    /\ faults' = faults + 1

-----------------------------------------------------------------------------------
Waiting(c) ==
    \/ \E i \in DOMAIN inbox : inbox[i].client = c
    \/ turn # None /\ turn.client = c

(* owner.request: enqueue; the caller waits until the response arrives or   *)
(* the owner is done, whatever becomes of its own context.                  *)
Request(c, op) ==
    /\ up
    /\ ~ Waiting(c)
    /\ Len(inbox) < QueueSize
    /\ inbox' = Append(inbox, [client |-> c, op |-> op])
    /\ answer' = [answer EXCEPT ![c] = None]
    /\ UNCHANGED <<stored, up, life, memory, turn, snapshots, observed, faults>>

Take ==
    /\ up
    /\ turn = None
    /\ inbox # << >>
    /\ turn' = [client |-> Head(inbox).client, op |-> Head(inbox).op, at |-> "lookup",
                duplicate |-> FALSE, revision |-> 0, document |-> << >>]
    /\ inbox' = Tail(inbox)
    /\ UNCHANGED <<stored, up, life, memory, snapshots, observed, answer, faults>>

Respond(kind, revision) ==
    answer' = [answer EXCEPT ![turn.client] = [kind |-> kind, op |-> turn.op, revision |-> revision]]

(* A submission that ends with an error changes nothing in the owner. *)
Refuse ==
    /\ Respond("error", 0)
    /\ turn' = None
    /\ UNCHANGED <<stored, up, life, memory, inbox, snapshots, observed>>

Advance(fields) ==
    /\ turn' = fields
    /\ UNCHANGED <<up, life, memory, inbox, snapshots, observed, answer>>

Processing(stage) == up /\ turn # None /\ turn.at = stage

-----------------------------------------------------------------------------------
(* submit, first half: look the operation up, else apply it to a clone. *)
Lookup_NoClone ==
    /\ Processing("lookup")
    /\ \/ Fails("lookup") /\ Refuse
       \/ /\ Log!Contains(log, turn.op.id)
          /\ Advance([turn EXCEPT !.at = "reconcile", !.duplicate = TRUE])
          /\ UNCHANGED <<stored, faults>>
       \/ /\ ~ Log!Contains(log, turn.op.id)
          /\ Log!Current(memory, turn.op.tile) = turn.op.before
          /\ memory' = Append(memory, turn.op)
          /\ turn' = [turn EXCEPT !.at = "append"]
          /\ UNCHANGED <<stored, up, life, inbox, snapshots, observed, answer, faults>>

Lookup ==
    /\ Processing("lookup")
    /\ \/ Fails("lookup") /\ Refuse
       \/ /\ Log!Contains(log, turn.op.id)
          /\ Advance([turn EXCEPT !.at = "reconcile", !.duplicate = TRUE])
          /\ UNCHANGED <<stored, faults>>
       \/ /\ ~ Log!Contains(log, turn.op.id)
          /\ IF Log!Current(memory, turn.op.tile) = turn.op.before
               THEN /\ Advance([turn EXCEPT !.at = "append"])
                    /\ UNCHANGED stored
               ELSE Refuse
          /\ UNCHANGED faults

Candidate == Append(memory, turn.op)

(* MemoryStore.Append: a new ID at the next revision, and the store applies *)
(* the operation to its own copy to verify it.                              *)
Appends ==
    /\ ~ Log!Contains(log, turn.op.id)
    /\ Len(Candidate) = Len(log) + 1
    /\ Log!Current(log, turn.op.tile) = turn.op.before

Commit == log' = Append(log, turn.op) /\ UNCHANGED base

AppendOperation ==
    /\ Processing("append")
    /\ \/ /\ Appends
          /\ Commit
          /\ Advance([turn EXCEPT !.at = "finish", !.revision = Len(Candidate), !.document = Candidate])
          /\ UNCHANGED faults
       \/ /\ Appends
          /\ Fails("append")        \* committed, and the caller is told it failed
          /\ Commit
          /\ Advance([turn EXCEPT !.at = "resolve"])
       \/ /\ Fails("append")        \* not committed
          /\ Advance([turn EXCEPT !.at = "resolve"])
          /\ UNCHANGED stored
       \/ /\ ~ Appends
          /\ Advance([turn EXCEPT !.at = "resolve"])
          /\ UNCHANGED <<stored, faults>>

(* submit, second half: after a failed append ask the store what happened.  *)
Resolve_NoLookup ==
    /\ Processing("resolve")
    /\ Refuse
    /\ UNCHANGED faults

Resolve_AsDuplicate ==
    /\ Processing("resolve")
    /\ \/ Fails("resolve") /\ Refuse
       \/ ~ Log!Contains(log, turn.op.id) /\ Refuse /\ UNCHANGED faults
       \/ /\ Log!Contains(log, turn.op.id)
          /\ Advance([turn EXCEPT !.at = "reconcile", !.duplicate = TRUE])
          /\ UNCHANGED <<stored, faults>>

Resolve ==
    /\ Processing("resolve")
    /\ \/ Fails("resolve") /\ Refuse
       \/ ~ Log!Contains(log, turn.op.id) /\ Refuse /\ UNCHANGED faults
       \/ /\ Log!Contains(log, turn.op.id)
          /\ Advance([turn EXCEPT !.at = "reconcile"])
          /\ UNCHANGED <<stored, faults>>

(* reconcileStoredOperation: keep the document when it already has the      *)
(* stored operation, reload it from the store otherwise.                    *)
Reconciled_UpToPrior ==
    IF Revision(turn.op.id) = Len(memory) THEN memory ELSE SubSeq(log, 1, Revision(turn.op.id))

Reconciled ==
    IF Revision(turn.op.id) <= Len(memory) /\ HashMatches(memory) THEN memory ELSE log

Reconcile_NoCompare ==
    /\ Processing("reconcile")
    /\ \/ Fails("reconcile") /\ Refuse
       \/ /\ Advance([turn EXCEPT !.at = "finish", !.revision = Revision(turn.op.id),
                                  !.document = Reconciled])
          /\ UNCHANGED <<stored, faults>>

Reconcile ==
    /\ Processing("reconcile")
    /\ \/ Fails("reconcile") /\ Refuse
       \/ log[Revision(turn.op.id)] # turn.op /\ Refuse /\ UNCHANGED faults
       \/ /\ log[Revision(turn.op.id)] = turn.op
          /\ Advance([turn EXCEPT !.at = "finish", !.revision = Revision(turn.op.id),
                                  !.document = Reconciled])
          /\ UNCHANGED <<stored, faults>>

-----------------------------------------------------------------------------------
(* scheduleSnapshot captures the document for a saver goroutine. *)
Schedule(document) ==
    /\ inFlight' = TRUE
    /\ savers' = savers \cup {[life |-> life, content |-> document]}

(* The rest of the submit turn: adopt the document, publish an acceptance   *)
(* that is new, respond, and start a snapshot when enough has accumulated.  *)
Finish_PublishesDuplicates ==
    /\ Processing("finish")
    /\ memory' = turn.document
    /\ since' = since + 1
    /\ published' = Append(published, [op |-> turn.op, revision |-> turn.revision])
    /\ Respond(IF turn.duplicate THEN "duplicate" ELSE "accepted", turn.revision)
    /\ turn' = None
    /\ IF ~ inFlight /\ Threshold > 0 /\ since' >= Threshold
         THEN Schedule(turn.document)
         ELSE UNCHANGED <<inFlight, savers>>
    /\ UNCHANGED <<stored, up, life, inbox, results, recoveredAt, faults>>

Finish ==
    /\ Processing("finish")
    /\ memory' = turn.document
    /\ IF turn.duplicate
         THEN UNCHANGED <<since, published>>
         ELSE /\ since' = since + 1
              /\ published' = Append(published, [op |-> turn.op, revision |-> turn.revision])
    /\ Respond(IF turn.duplicate THEN "duplicate" ELSE "accepted", turn.revision)
    /\ turn' = None
    /\ IF ~ inFlight /\ Threshold > 0 /\ since' >= Threshold
         THEN Schedule(turn.document)
         ELSE UNCHANGED <<inFlight, savers>>
    /\ UNCHANGED <<stored, up, life, inbox, results, recoveredAt, faults>>

Tick ==
    /\ Ticks
    /\ up
    /\ turn = None
    /\ since > 0
    /\ ~ inFlight
    /\ Schedule(memory)
    /\ UNCHANGED <<stored, up, life, memory, inbox, turn, since, results, observed, answer, faults>>

(* SaveSnapshot accepts a table it retains the hash of, at or after the     *)
(* current snapshot, and drops the replay rows it covers.                   *)
Saves(content) == HashMatches(content) /\ Len(content) >= base

(* saveSnapshot's goroutine; its result is dropped when the owner is gone. *)
Save(saver) ==
    LET Deliver(failed) ==
            results' = IF saver.life = life /\ up
                         THEN [revision |-> Len(saver.content), failed |-> failed]
                         ELSE results
    IN  /\ saver \in savers
        /\ savers' = savers \ {saver}
        /\ \/ Saves(saver.content) /\ base' = Len(saver.content) /\ Deliver(FALSE) /\ UNCHANGED faults
           \/ ~ Saves(saver.content) /\ Deliver(TRUE) /\ UNCHANGED <<base, faults>>
           \/ Fails("save") /\ Deliver(TRUE) /\ UNCHANGED base
        /\ UNCHANGED <<log, up, life, memory, inbox, turn, since, inFlight, observed, answer>>

(* The snapshotResults case of the run loop; first, the one that forgets to *)
(* schedule the next snapshot.                                              *)
SnapshotDone_NoReschedule ==
    /\ up
    /\ turn = None
    /\ results # None
    /\ results' = None
    /\ since' = IF results.failed THEN since ELSE Len(memory) - results.revision
    /\ inFlight' = FALSE
    /\ UNCHANGED <<stored, up, life, memory, inbox, turn, savers, observed, answer, faults>>

SnapshotDone ==
    /\ up
    /\ turn = None
    /\ results # None
    /\ results' = None
    /\ since' = IF results.failed THEN since ELSE Len(memory) - results.revision
    /\ IF ~ results.failed /\ Threshold > 0 /\ since' >= Threshold
         THEN Schedule(memory)
         ELSE inFlight' = FALSE /\ UNCHANGED savers
    /\ UNCHANGED <<stored, up, life, memory, inbox, turn, observed, answer, faults>>

-----------------------------------------------------------------------------------
(* The owner ends, by Close or with its process, between any two steps.     *)
(* Callers see ErrDocumentClosed; a saver may still be running.             *)
Crash_KeepsInbox ==
    /\ up
    /\ up' = FALSE
    /\ memory' = << >>
    /\ turn' = None
    /\ results' = None
    /\ savers' \in {savers, {}}
    /\ UNCHANGED <<stored, life, inbox, since, inFlight, observed, answer, faults>>

Crash ==
    /\ up
    /\ up' = FALSE
    /\ memory' = << >>
    /\ inbox' = << >>
    /\ turn' = None
    /\ results' = None
    /\ savers' \in {savers, {}}
    /\ answer' = [c \in Clients |->
                    IF Waiting(c) THEN [kind |-> "closed", op |-> None, revision |-> 0] ELSE answer[c]]
    /\ UNCHANGED <<stored, life, since, inFlight, observed, faults>>

(* RecoverDocument: the document of the durable head. *)
Recover_NoReplay ==
    /\ ~ up
    /\ life < MaxLives
    /\ up' = TRUE
    /\ life' = life + 1
    /\ memory' = SubSeq(log, 1, base)
    /\ recoveredAt' = base
    /\ published' = << >>
    /\ since' = 0
    /\ inFlight' = FALSE
    /\ UNCHANGED <<stored, inbox, turn, results, savers, answer, faults>>

Recover ==
    /\ ~ up
    /\ life < MaxLives
    /\ up' = TRUE
    /\ life' = life + 1
    /\ memory' = log
    /\ recoveredAt' = Len(log)
    /\ published' = << >>
    /\ since' = 0
    /\ inFlight' = FALSE
    /\ UNCHANGED <<stored, inbox, turn, results, savers, answer, faults>>

Submission == Take \/ Lookup \/ AppendOperation \/ Resolve \/ Reconcile \/ Finish

Next ==
    \/ \E c \in Clients, op \in Log!Operations : Request(c, op)
    \/ Submission
    \/ Tick
    \/ SnapshotDone
    \/ \E saver \in savers : Save(saver)
    \/ Crash
    \/ Recover

(* The run loop keeps running, its select picks among the ready cases at    *)
(* random, so a result that is ready at every turn is received, and a       *)
(* saver goroutine finishes.                                                *)
Fairness ==
    /\ WF_vars(Submission)
    /\ SF_vars(SnapshotDone)
    /\ WF_vars(\E saver \in savers : Save(saver))

Spec == Init /\ [][Next]_vars

FairSpec == Spec /\ Fairness

-----------------------------------------------------------------------------------
Answers == [kind : {"accepted", "duplicate", "error"}, op : Log!Operations, revision : Nat]
             \cup {None, [kind |-> "closed", op |-> None, revision |-> 0]}

Turns == [client : Clients, op : Log!Operations, duplicate : BOOLEAN, revision : Nat,
          at : {"lookup", "append", "resolve", "reconcile", "finish"},
          document : Seq(Log!Operations)]

(* The nil submission is none of them. *)
ASSUME TurnAssumption == None \notin Turns

TypeOK ==
    /\ log \in Seq(Log!Operations) /\ memory \in Seq(Log!Operations)
    /\ base \in Nat /\ recoveredAt \in Nat /\ faults \in 0..MaxFaults /\ life \in 1..MaxLives
    /\ since \in Nat
    /\ up \in BOOLEAN /\ inFlight \in BOOLEAN
    /\ inbox \in Seq([client : Clients, op : Log!Operations])
    /\ turn \in Turns \cup {None}
    /\ results \in [revision : Nat, failed : BOOLEAN] \cup {None}
    /\ savers \subseteq [life : 1..MaxLives, content : Seq(Log!Operations)]
    /\ published \in Seq([op : Log!Operations, revision : Nat])
    /\ answer \in [Clients -> Answers]

(* The document in memory is always a prefix of the durable log, so every   *)
(* revision a reader can be shown is one that survives a crash - whatever   *)
(* failed in between.                                                       *)
MemoryIsDurable == Log!PrefixOf(memory, log)

(* An acknowledgement, first or repeated, names the revision at which the   *)
(* store holds exactly that operation, also after the owner has died and    *)
(* been recovered.                                                          *)
AnswersAreDurable ==
    \A c \in Clients :
        (answer[c] # None /\ answer[c].kind \in {"accepted", "duplicate"}) =>
            /\ answer[c].revision \in DOMAIN log
            /\ log[answer[c].revision] = answer[c].op

(* Subscribers see durable operations only, each at its own revision, in    *)
(* revision order, none twice, and never one the owner's own document does  *)
(* not have yet.                                                            *)
PublishedInOrder ==
    /\ \A i \in DOMAIN published :
          /\ published[i].revision \in DOMAIN log
          /\ log[published[i].revision] = published[i].op
          /\ published[i].revision > recoveredAt
          /\ up => published[i].revision <= Len(memory)
    /\ \A i, j \in DOMAIN published : i < j => published[i].revision < published[j].revision

(* Compaction never outruns a reader: a snapshot, stored or still in the    *)
(* hands of a saver, describes a prefix of the durable log that the living  *)
(* owner also has, so since never goes negative and replay from the         *)
(* snapshot can reach the head.                                             *)
SnapshotsBehind ==
    /\ base <= Len(log)
    /\ up => base <= Len(memory)
    /\ \A saver \in savers : Log!PrefixOf(saver.content, log)
    /\ results # None => results.revision <= Len(memory)

(* "publishes accepted revisions from the document loop after durable       *)
(* append" (docs/agent/architecture.md): between two turns, every revision  *)
(* the owner has taken on in this life has been given to the subscribers.   *)
PublishesEveryRevision ==
    (up /\ turn = None) =>
        \A r \in (recoveredAt + 1)..Len(memory) :
            \E i \in DOMAIN published : published[i].revision = r

(* A submission answered with an error is not in the log at that moment:    *)
(* the caller may treat the operation as not having happened.               *)
RefusedIsNotDurable ==
    [][\A c \in Clients :
          (answer'[c] # answer[c] /\ answer'[c] # None /\ answer'[c].kind = "error") =>
              \A r \in DOMAIN log' : log'[r] # answer'[c].op]_vars

(* The store's snapshot never moves backwards, even when a saver left over  *)
(* from an earlier owner finishes after a newer snapshot was stored.        *)
SnapshotNeverRegresses == [][base' >= base]_base

(* The owner and its store implement the accepted log of the session: an    *)
(* operation is accepted once and against the map its predecessors left,    *)
(* and the document served never falls back while the owner lives - not     *)
(* even when a resubmission makes it reload from the store.                 *)
ImplementsAcceptedLog == Log!Spec

(* Nobody waits forever: every request is answered, if only with closed. *)
EveryRequestAnswered == \A c \in Clients : Waiting(c) ~> ~ Waiting(c)

(* With a threshold set, a backlog of unsnapshotted operations is taken     *)
(* down by snapshots, unless the owner ends first.                          *)
BacklogIsCompacted == (since >= Threshold) ~> (since < Threshold \/ ~ up)
===================================================================================
