---------------------------- MODULE DocumentOwnerProofs ---------------------------
(***************************************************************************)
(* The durability invariants of DocumentOwner, for any number of clients,  *)
(* operations, tiles, failing store calls and restarts.                    *)
(***************************************************************************)
EXTENDS DocumentOwner, SequenceTheorems, TLAPS

(* What a submission knows at each of its stages.  A submission that was    *)
(* not in the store when it was looked up is not in memory either, until    *)
(* it finishes; that is why a resolved append is new to the subscribers.    *)
TurnReady ==
    turn # None =>
        /\ up
        /\ turn.at \in {"append", "resolve"} => ~ Log!Contains(memory, turn.op.id)
        /\ turn.at = "reconcile" =>
              /\ Log!Contains(log, turn.op.id)
              /\ turn.duplicate \/ ~ Log!Contains(memory, turn.op.id)
        /\ turn.at = "finish" =>
              /\ Log!PrefixOf(turn.document, log)
              /\ Len(turn.document) >= Len(memory)
              /\ turn.revision \in DOMAIN turn.document
              /\ log[turn.revision] = turn.op
              /\ turn.duplicate \/ turn.revision > Len(memory)

SnapshotsReady ==
    /\ SnapshotsBehind
    /\ up => \A saver \in savers : Len(saver.content) <= Len(memory)
    /\ ~ up => results = None

OwnerInv ==
    /\ TypeOK
    /\ MemoryIsDurable
    /\ ~ up => memory = << >>
    /\ up => recoveredAt <= Len(memory)
    /\ recoveredAt <= Len(log)
    /\ TurnReady
    /\ AnswersAreDurable
    /\ PublishedInOrder
    /\ SnapshotsReady

-----------------------------------------------------------------------------------
(* The store's log only ever grows at its end. *)
LogGrows == log' = log \/ \E op \in Log!Operations : log' = Append(log, op)

LEMMA PrefixKept ==
    ASSUME log \in Seq(Log!Operations), LogGrows,
           NEW s \in Seq(Log!Operations), Log!PrefixOf(s, log)
    PROVE  Log!PrefixOf(s, log')
BY DEF LogGrows, Log!PrefixOf

LEMMA EntryKept ==
    ASSUME log \in Seq(Log!Operations), LogGrows, NEW r \in DOMAIN log
    PROVE  r \in DOMAIN log' /\ log'[r] = log[r]
BY DEF LogGrows

(* A stored ID has a revision, and the entry there carries the ID. *)
LEMMA RevisionFound ==
    ASSUME NEW id, Log!Contains(log, id)
    PROVE  Revision(id) \in DOMAIN log /\ log[Revision(id)].id = id
BY DEF Revision, Log!Contains

(* A scheduled capture is a saver like any other. *)
LEMMA TypeSchedule ==
    ASSUME TypeOK, NEW document \in Seq(Log!Operations), Schedule(document)
    PROVE  inFlight' \in BOOLEAN /\ savers' \subseteq [life : 1..MaxLives, content : Seq(Log!Operations)]
<1>1. [life |-> life, content |-> document] \in [life : 1..MaxLives, content : Seq(Log!Operations)]
  BY DEF TypeOK
<1> QED
  BY <1>1 DEF TypeOK, Schedule

(* Types of the steps of a submission. *)
LEMMA TypeSubmission ==
    ASSUME TypeOK, TurnReady, Submission
    PROVE  TypeOK'
<1> USE DEF TypeOK
<1>1. CASE Take
  <2>1. Head(inbox) \in [client : Clients, op : Log!Operations]
        /\ Tail(inbox) \in Seq([client : Clients, op : Log!Operations])
    BY <1>1, HeadTailProperties DEF Take
  <2>2. turn' \in Turns
    BY <1>1, <2>1 DEF Take, Turns
  <2> QED
    BY <1>1, <2>1, <2>2 DEF Take, stored, snapshots, observed
<1>2. ASSUME Refuse, turn \in Turns, faults' \in 0..MaxFaults
      PROVE  TypeOK'
  <2>1. [kind |-> "error", op |-> turn.op, revision |-> 0] \in Answers
    BY <1>2 DEF Turns, Answers
  <2>2. answer' \in [Clients -> Answers]
    BY <1>2, <2>1 DEF Refuse, Respond, Turns
  <2> QED
    BY <1>2, <2>2 DEF Refuse, stored, snapshots, observed
<1>3. ASSUME NEW fields \in Turns, Advance(fields), faults' \in 0..MaxFaults,
             log' \in Seq(Log!Operations), base' = base
      PROVE  TypeOK'
  BY <1>3 DEF Advance, snapshots, observed
<1>4. ASSUME NEW call, Fails(call)
      PROVE  faults' \in 0..MaxFaults
  BY <1>4, OwnerAssumption DEF Fails
<1>5. CASE Lookup
  <2>1. turn \in Turns
    BY <1>5 DEF Lookup, Processing
  <2>2. /\ [turn EXCEPT !.at = "reconcile", !.duplicate = TRUE] \in Turns
        /\ [turn EXCEPT !.at = "append"] \in Turns
    BY <2>1 DEF Turns
  <2>3. CASE Refuse /\ (Fails("lookup") \/ UNCHANGED faults)
    BY <1>2, <1>4, <2>1, <2>3
  <2>4. CASE Advance([turn EXCEPT !.at = "reconcile", !.duplicate = TRUE]) /\ UNCHANGED <<stored, faults>>
    BY <1>3, <2>2, <2>4 DEF stored
  <2>5. CASE Advance([turn EXCEPT !.at = "append"]) /\ UNCHANGED <<stored, faults>>
    BY <1>3, <2>2, <2>5 DEF stored
  <2> QED
    BY <1>5, <2>3, <2>4, <2>5 DEF Lookup, stored
<1>6. CASE AppendOperation
  <2>1. turn \in Turns
    BY <1>6 DEF AppendOperation, Processing
  <2>2. Candidate \in Seq(Log!Operations) /\ Len(Candidate) \in Nat
        /\ Append(log, turn.op) \in Seq(Log!Operations)
    BY <2>1 DEF Candidate, Turns
  <2>3. /\ [turn EXCEPT !.at = "resolve"] \in Turns
        /\ [turn EXCEPT !.at = "finish", !.revision = Len(Candidate), !.document = Candidate] \in Turns
    BY <2>1, <2>2 DEF Turns
  <2>4. CASE /\ Advance([turn EXCEPT !.at = "resolve"])
             /\ Fails("append") \/ UNCHANGED faults
             /\ Commit \/ UNCHANGED stored
    BY <1>3, <1>4, <2>2, <2>3, <2>4 DEF Commit, stored
  <2>5. CASE /\ Advance([turn EXCEPT !.at = "finish", !.revision = Len(Candidate), !.document = Candidate])
             /\ Commit
             /\ UNCHANGED faults
    BY <1>3, <2>2, <2>3, <2>5 DEF Commit
  <2> QED
    BY <1>6, <2>4, <2>5 DEF AppendOperation, stored
<1>7. CASE Resolve
  <2>1. turn \in Turns
    BY <1>7 DEF Resolve, Processing
  <2>2. [turn EXCEPT !.at = "reconcile"] \in Turns
    BY <2>1 DEF Turns
  <2>3. CASE Refuse /\ (Fails("resolve") \/ UNCHANGED faults)
    BY <1>2, <1>4, <2>1, <2>3
  <2>4. CASE Advance([turn EXCEPT !.at = "reconcile"]) /\ UNCHANGED <<stored, faults>>
    BY <1>3, <2>2, <2>4 DEF stored
  <2> QED
    BY <1>7, <2>3, <2>4 DEF Resolve
<1>8. CASE Reconcile
  <2>1. turn \in Turns
    BY <1>8 DEF Reconcile, Processing
  <2>2. CASE Refuse /\ (Fails("reconcile") \/ UNCHANGED faults)
    BY <1>2, <1>4, <2>1, <2>2
  <2>3. CASE /\ Advance([turn EXCEPT !.at = "finish", !.revision = Revision(turn.op.id),
                                     !.document = Reconciled])
             /\ UNCHANGED <<stored, faults>>
             /\ Revision(turn.op.id) \in Nat
    <3>1. Reconciled \in Seq(Log!Operations)
      BY DEF Reconciled
    <3>2. [turn EXCEPT !.at = "finish", !.revision = Revision(turn.op.id),
                       !.document = Reconciled] \in Turns
      BY <2>1, <2>3, <3>1 DEF Turns
    <3> QED
      BY <1>3, <2>3, <3>2 DEF stored
  <2>4. Revision(turn.op.id) \in Nat
    <3>1. Log!Contains(log, turn.op.id)
      BY <1>8 DEF Reconcile, Processing, TurnReady
    <3> QED
      BY <3>1, RevisionFound
  <2> QED
    BY <1>8, <2>2, <2>3, <2>4 DEF Reconcile
<1>9. CASE Finish
  <2>1. turn \in Turns
    BY <1>9 DEF Finish, Processing
  <2>2. /\ [kind |-> "duplicate", op |-> turn.op, revision |-> turn.revision] \in Answers
        /\ [kind |-> "accepted", op |-> turn.op, revision |-> turn.revision] \in Answers
    BY <2>1 DEF Turns, Answers
  <2>3. answer' \in [Clients -> Answers]
    BY <1>9, <2>1, <2>2 DEF Finish, Respond, Turns
  <2>4. since' \in Nat /\ published' \in Seq([op : Log!Operations, revision : Nat])
    <3>1. [op |-> turn.op, revision |-> turn.revision] \in [op : Log!Operations, revision : Nat]
      BY <2>1 DEF Turns
    <3>2. Append(published, [op |-> turn.op, revision |-> turn.revision])
              \in Seq([op : Log!Operations, revision : Nat])
      BY <3>1, AppendProperties
    <3>3. CASE turn.duplicate
      BY <1>9, <3>3 DEF Finish
    <3>4. CASE ~ turn.duplicate
      <4>1. /\ since' = since + 1
            /\ published' = Append(published, [op |-> turn.op, revision |-> turn.revision])
        BY <1>9, <3>4, Zenon DEF Finish
      <4> QED
        BY <3>2, <4>1
    <3> QED
      BY <3>3, <3>4
  <2>5. inFlight' \in BOOLEAN /\ savers' \subseteq [life : 1..MaxLives, content : Seq(Log!Operations)]
    <3>1. turn.document \in Seq(Log!Operations)
      BY <2>1 DEF Turns
    <3>2. CASE Schedule(turn.document)
      BY <3>1, <3>2, TypeSchedule
    <3>3. CASE UNCHANGED <<inFlight, savers>>
      BY <3>3
    <3> QED
      BY <1>9, <3>2, <3>3 DEF Finish
  <2>6. memory' \in Seq(Log!Operations)
    BY <1>9, <2>1 DEF Finish, Turns
  <2> QED
    BY <1>9, <2>3, <2>4, <2>5, <2>6 DEF Finish, stored
<1> QED
  BY <1>1, <1>5, <1>6, <1>7, <1>8, <1>9 DEF Submission

(* Types of the other steps. *)
LEMMA TypeStep ==
    ASSUME OwnerInv, [Next]_vars
    PROVE  TypeOK'
<1> USE DEF TypeOK, OwnerInv
<1>1. ASSUME NEW c \in Clients, NEW op \in Log!Operations, Request(c, op)
      PROVE  TypeOK'
  <2>1. None \in Answers
    BY DEF Answers
  <2>2. answer' \in [Clients -> Answers]
    BY <1>1, <2>1 DEF Request
  <2>3. inbox' \in Seq([client : Clients, op : Log!Operations])
    BY <1>1 DEF Request
  <2> QED
    BY <1>1, <2>2, <2>3 DEF Request, stored, snapshots, observed
<1>2. CASE Submission
  BY <1>2, TypeSubmission
<1>3. CASE Tick
  BY <1>3 DEF Tick, Schedule, stored, observed
<1>4. CASE SnapshotDone
  <2>1. since' \in Nat
    BY <1>4 DEF SnapshotDone, SnapshotsReady, SnapshotsBehind
  <2>2. inFlight' \in BOOLEAN /\ savers' \subseteq [life : 1..MaxLives, content : Seq(Log!Operations)]
    <3>1. CASE Schedule(memory)
      BY <3>1, TypeSchedule
    <3>2. CASE inFlight' = FALSE /\ UNCHANGED savers
      BY <3>2
    <3> QED
      BY <1>4, <3>1, <3>2 DEF SnapshotDone
  <2> QED
    BY <1>4, <2>1, <2>2 DEF SnapshotDone, stored, observed
<1>5. ASSUME NEW saver \in savers, Save(saver)
      PROVE  TypeOK'
  <2>1. saver.content \in Seq(Log!Operations) /\ Len(saver.content) \in Nat
    OBVIOUS
  <2>2. base' \in Nat /\ faults' \in 0..MaxFaults
    BY SMTT(40), <1>5, <2>1, OwnerAssumption DEF Save, Fails
  <2>3. results' \in [revision : Nat, failed : BOOLEAN] \cup {None}
    <3>1. \E failed \in BOOLEAN :
             results' \in {results, [revision |-> Len(saver.content), failed |-> failed]}
      BY <1>5, Zenon DEF Save
    <3> QED
      BY <2>1, <3>1
  <2> QED
    BY <1>5, <2>2, <2>3 DEF Save, observed
<1>6. CASE Crash
  <2>1. [kind |-> "closed", op |-> None, revision |-> 0] \in Answers
    BY DEF Answers
  <2>2. answer' \in [Clients -> Answers]
    BY <1>6, <2>1 DEF Crash
  <2>3. inbox' \in Seq([client : Clients, op : Log!Operations])
    BY <1>6 DEF Crash
  <2>4. memory' \in Seq(Log!Operations)
    BY <1>6 DEF Crash
  <2>5. savers' \subseteq [life : 1..MaxLives, content : Seq(Log!Operations)]
    BY <1>6 DEF Crash
  <2> QED
    BY <1>6, <2>2, <2>3, <2>4, <2>5 DEF Crash, stored, observed
<1>7. CASE Recover
  <2>1. published' \in Seq([op : Log!Operations, revision : Nat])
    BY <1>7 DEF Recover
  <2>2. life' \in 1..MaxLives
    BY <1>7, OwnerAssumption DEF Recover
  <2>3. recoveredAt' \in Nat /\ memory' \in Seq(Log!Operations)
    BY <1>7 DEF Recover
  <2> QED
    BY <1>7, <2>1, <2>2, <2>3 DEF Recover, stored
<1>8. CASE UNCHANGED vars
  BY <1>8 DEF vars
<1> QED
  BY <1>1, <1>2, <1>3, <1>4, <1>5, <1>6, <1>7, <1>8 DEF Next

-----------------------------------------------------------------------------------
(* Only Commit writes the log, and it appends one operation. *)
LEMMA LogStep ==
    ASSUME TypeOK, [Next]_vars
    PROVE  LogGrows
<1> USE DEF TypeOK, LogGrows
<1>1. CASE AppendOperation
  <2>1. turn.op \in Log!Operations
    BY <1>1 DEF AppendOperation, Processing, Turns
  <2>2. log' = log \/ log' = Append(log, turn.op)
    BY <1>1, Zenon DEF AppendOperation, Commit, stored
  <2> QED
    BY <2>1, <2>2
<1>2. CASE Take \/ Lookup \/ Resolve \/ Reconcile \/ Finish
  BY <1>2, Zenon DEF Take, Lookup, Resolve, Reconcile, Finish, Refuse, stored
<1> QED
  BY <1>1, <1>2, Zenon DEF Next, Submission, Request, Tick, SnapshotDone, Save, Crash, Recover, stored, vars

(* Acknowledgements stay true while the log grows; errors and closures      *)
(* claim nothing.                                                           *)
LEMMA AnswersKept ==
    ASSUME TypeOK, LogGrows, AnswersAreDurable,
           \A c \in Clients : \/ answer'[c] = answer[c]
                              \/ answer'[c] = None
                              \/ answer'[c].kind \in {"error", "closed"}
    PROVE  AnswersAreDurable'
<1> SUFFICES ASSUME NEW c \in Clients, answer'[c] # None, answer'[c].kind \in {"accepted", "duplicate"}
             PROVE  answer'[c].revision \in DOMAIN log' /\ log'[answer'[c].revision] = answer'[c].op
  BY DEF AnswersAreDurable
<1>1. answer'[c] = answer[c]
  OBVIOUS
<1>2. answer[c].revision \in DOMAIN log /\ log[answer[c].revision] = answer[c].op
  BY <1>1 DEF AnswersAreDurable
<1>3. log \in Seq(Log!Operations)
  BY DEF TypeOK
<1> QED
  BY <1>1, <1>2, <1>3, EntryKept

(* The steps of a submission before its last only move the turn on.         *)
LEMMA Undisturbed ==
    ASSUME OwnerInv, LogGrows,
           UNCHANGED <<base, up, memory, savers, results, recoveredAt, published>>
    PROVE  /\ MemoryIsDurable'
           /\ (~ up => memory = << >>)'
           /\ (up => recoveredAt <= Len(memory))'
           /\ (recoveredAt <= Len(log))'
           /\ PublishedInOrder'
           /\ SnapshotsReady'
<1> USE DEF OwnerInv
<1>1. log \in Seq(Log!Operations) /\ memory \in Seq(Log!Operations)
  BY DEF TypeOK
<1>2. MemoryIsDurable'
  <2>1. Log!PrefixOf(memory, log')
    BY <1>1, PrefixKept DEF MemoryIsDurable
  <2> QED
    BY <2>1 DEF MemoryIsDurable, Log!PrefixOf
<1>3. Len(log) \in Nat /\ Len(log') \in Nat /\ Len(log) <= Len(log')
  BY <1>1 DEF LogGrows
<1>4. (recoveredAt <= Len(log))'
  BY <1>3 DEF TypeOK
<1>5. PublishedInOrder'
  <2>1. ASSUME NEW i \in DOMAIN published
        PROVE  /\ published[i].revision \in DOMAIN log'
               /\ log'[published[i].revision] = published[i].op
               /\ published[i].revision > recoveredAt
               /\ up => published[i].revision <= Len(memory)
    BY <1>1, <2>1, EntryKept DEF PublishedInOrder
  <2> QED
    BY <2>1 DEF PublishedInOrder
<1>6. SnapshotsReady'
  <2>1. \A saver \in savers : Log!PrefixOf(saver.content, log')
    BY <1>1, PrefixKept DEF TypeOK, SnapshotsReady, SnapshotsBehind
  <2>2. base <= Len(log')
    BY <1>3 DEF TypeOK, SnapshotsReady, SnapshotsBehind
  <2> QED
    BY <2>1, <2>2 DEF SnapshotsReady, SnapshotsBehind, Log!PrefixOf
<1> QED
  BY <1>2, <1>4, <1>5, <1>6

(* What the document has, the store has. *)
LEMMA MemoryInLog ==
    ASSUME MemoryIsDurable, NEW id, Log!Contains(memory, id)
    PROVE  Log!Contains(log, id)
BY DEF MemoryIsDurable, Log!PrefixOf, Log!Contains

(* An error ends the turn and leaves the rest alone. *)
LEMMA RefuseStep ==
    ASSUME OwnerInv, turn \in Turns, Refuse
    PROVE  TurnReady' /\ AnswersAreDurable'
<1>1. LogGrows
  BY DEF Refuse, stored, LogGrows
<1>2. \A c \in Clients : answer'[c] = answer[c] \/ answer'[c].kind \in {"error", "closed"}
  BY DEF Refuse, Respond, OwnerInv, TypeOK
<1>3. AnswersAreDurable'
  BY <1>1, <1>2, AnswersKept DEF OwnerInv
<1> QED
  BY <1>3 DEF Refuse, TurnReady

(* Every step of a submission but the last keeps TurnReady and the answers. *)
LEMMA AdvanceStep ==
    ASSUME OwnerInv, Take \/ Lookup \/ AppendOperation \/ Resolve \/ Reconcile, LogGrows
    PROVE  TurnReady' /\ AnswersAreDurable'
<1> USE DEF OwnerInv
<1>0. /\ log \in Seq(Log!Operations)
      /\ memory \in Seq(Log!Operations)
      /\ turn # None => turn \in Turns
  BY DEF TypeOK
<1>1. ASSUME UNCHANGED answer
      PROVE  AnswersAreDurable'
  BY <1>1, AnswersKept
<1>2. CASE Take
  BY <1>1, <1>2 DEF Take, TurnReady
<1>3. CASE Lookup
  <2>1. turn \in Turns /\ up
    BY <1>0, <1>3 DEF Lookup, Processing
  <2>2. CASE Refuse
    BY <2>1, <2>2, RefuseStep
  <2>3. CASE /\ Log!Contains(log, turn.op.id)
             /\ Advance([turn EXCEPT !.at = "reconcile", !.duplicate = TRUE])
             /\ UNCHANGED <<stored, faults>>
    BY <1>1, <2>1, <2>3 DEF Advance, TurnReady, Turns, Log!Contains, stored
  <2>4. CASE /\ ~ Log!Contains(log, turn.op.id)
             /\ Advance([turn EXCEPT !.at = "append"])
             /\ UNCHANGED <<stored, faults>>
    <3>1. ~ Log!Contains(memory, turn.op.id)
      BY <2>4, MemoryInLog
    <3> QED
      BY <1>1, <2>1, <2>4, <3>1 DEF Advance, TurnReady, Turns, Log!Contains
  <2> QED
    BY <1>3, <2>2, <2>3, <2>4 DEF Lookup, stored
<1>4. CASE AppendOperation
  <2>1. turn \in Turns /\ up /\ turn.op \in Log!Operations /\ ~ Log!Contains(memory, turn.op.id)
    BY <1>0, <1>4 DEF AppendOperation, Processing, TurnReady, Turns
  <2>2. CASE Advance([turn EXCEPT !.at = "resolve"])
    BY <1>1, <2>1, <2>2 DEF Advance, TurnReady, Turns, Log!Contains
  <2>3. CASE /\ Appends
             /\ Commit
             /\ Advance([turn EXCEPT !.at = "finish", !.revision = Len(Candidate), !.document = Candidate])
    <3>1. Len(memory) = Len(log) /\ Len(Candidate) = Len(log) + 1
      BY <1>0, <2>1, <2>3 DEF Appends, Candidate
    <3>2. log' = Append(log, turn.op)
      BY <2>3 DEF Commit
    <3>3. Log!PrefixOf(Candidate, log') /\ Candidate[Len(Candidate)] = turn.op
      BY <1>0, <2>1, <3>1, <3>2 DEF MemoryIsDurable, Log!PrefixOf, Candidate
    <3>4. /\ Len(Candidate) \in DOMAIN Candidate
          /\ log'[Len(Candidate)] = turn.op
          /\ Len(Candidate) > Len(memory)
      BY <1>0, <2>1, <3>1, <3>2 DEF Candidate
    <3>5. turn' = [turn EXCEPT !.at = "finish", !.revision = Len(Candidate), !.document = Candidate]
          /\ UNCHANGED <<up, memory, answer>>
      BY <2>3 DEF Advance
    <3>6. /\ turn'.at = "finish" /\ turn'.revision = Len(Candidate)
          /\ turn'.document = Candidate /\ turn'.op = turn.op
      BY <2>1, <3>5 DEF Turns
    <3>7. TurnReady'
      BY <2>1, <3>1, <3>3, <3>4, <3>5, <3>6 DEF TurnReady, Log!PrefixOf
    <3> QED
      BY <1>1, <3>5, <3>7
  <2> QED
    BY <1>4, <2>2, <2>3, Zenon DEF AppendOperation
<1>5. CASE Resolve
  <2>1. turn \in Turns /\ up /\ ~ Log!Contains(memory, turn.op.id)
    BY <1>0, <1>5 DEF Resolve, Processing, TurnReady
  <2>2. CASE Refuse
    BY <2>1, <2>2, RefuseStep
  <2>3. CASE /\ Log!Contains(log, turn.op.id)
             /\ Advance([turn EXCEPT !.at = "reconcile"])
             /\ UNCHANGED <<stored, faults>>
    BY <1>1, <2>1, <2>3 DEF Advance, TurnReady, Turns, Log!Contains, stored
  <2> QED
    BY <1>5, <2>2, <2>3 DEF Resolve
<1>6. CASE Reconcile
  <2>1. /\ turn \in Turns /\ up
        /\ Log!Contains(log, turn.op.id)
        /\ turn.duplicate \/ ~ Log!Contains(memory, turn.op.id)
    BY <1>0, <1>6 DEF Reconcile, Processing, TurnReady
  <2>2. CASE Refuse
    BY <2>1, <2>2, RefuseStep
  <2>3. CASE /\ log[Revision(turn.op.id)] = turn.op
             /\ Advance([turn EXCEPT !.at = "finish", !.revision = Revision(turn.op.id),
                                     !.document = Reconciled])
             /\ UNCHANGED <<stored, faults>>
    <3> DEFINE r == Revision(turn.op.id)
    <3>1. r \in DOMAIN log /\ log[r].id = turn.op.id
      BY <2>1, RevisionFound
    <3>2. Len(memory) <= Len(log) /\ \A i \in DOMAIN memory : memory[i] = log[i]
      BY <1>0 DEF MemoryIsDurable, Log!PrefixOf
    <3>3. turn.duplicate \/ r > Len(memory)
      <4> SUFFICES ASSUME r <= Len(memory)
                   PROVE  Log!Contains(memory, turn.op.id)
        BY <1>0, <2>1, <3>1
      <4>1. r \in DOMAIN memory
        BY <1>0, <3>1
      <4> QED
        BY <3>1, <3>2, <4>1 DEF Log!Contains
    <3>4. /\ Log!PrefixOf(Reconciled, log)
          /\ Len(Reconciled) >= Len(memory)
          /\ r \in DOMAIN Reconciled
      <4>1. CASE r <= Len(memory) /\ Reconciled = memory
        BY <1>0, <3>1, <4>1 DEF MemoryIsDurable
      <4>2. CASE Reconciled = log
        BY <1>0, <3>1, <3>2, <4>2 DEF Log!PrefixOf
      <4> QED
        BY <4>1, <4>2 DEF Reconciled
    <3> HIDE DEF r
    <3>5. /\ turn' = [turn EXCEPT !.at = "finish", !.revision = r, !.document = Reconciled]
          /\ UNCHANGED <<up, memory, answer, log>>
      BY <2>3 DEF Advance, stored, r
    <3>6. /\ turn'.at = "finish" /\ turn'.revision = r /\ turn'.duplicate = turn.duplicate
          /\ turn'.document = Reconciled /\ turn'.op = turn.op
      BY <2>1, <3>5 DEF Turns
    <3>7. log[r] = turn.op
      BY <2>3 DEF r
    <3>8. TurnReady'
      BY <2>1, <3>3, <3>4, <3>5, <3>6, <3>7 DEF TurnReady, Log!PrefixOf
    <3> QED
      BY <1>1, <3>5, <3>8
  <2> QED
    BY <1>6, <2>2, <2>3 DEF Reconcile
<1> QED
  BY <1>2, <1>3, <1>4, <1>5, <1>6

(* The last step of a submission: the adopted document takes the place of   *)
(* a prefix of it, and what is published is new.                            *)
LEMMA FinishStep ==
    ASSUME OwnerInv, Finish, TypeOK'
    PROVE  OwnerInv'
<1> USE DEF OwnerInv
<1>0. /\ log \in Seq(Log!Operations) /\ memory \in Seq(Log!Operations)
      /\ turn \in Turns /\ turn # None /\ up /\ turn.at = "finish"
      /\ log' = log /\ base' = base /\ up' = up /\ results' = results
      /\ recoveredAt' = recoveredAt /\ memory' = turn.document /\ turn' = None
  BY DEF TypeOK, Finish, Processing, stored
<1>1. /\ Log!PrefixOf(memory', log) /\ Len(memory') >= Len(memory)
      /\ turn.revision \in DOMAIN memory' /\ log[turn.revision] = turn.op
      /\ turn.duplicate \/ turn.revision > Len(memory)
      /\ memory' \in Seq(Log!Operations)
  BY <1>0 DEF TurnReady, Turns
<1>2. turn.revision \in 1..Len(memory') /\ Len(memory') <= Len(log) /\ turn.revision \in DOMAIN log
  BY <1>0, <1>1 DEF Log!PrefixOf
<1>3. MemoryIsDurable'
  BY <1>0, <1>1 DEF MemoryIsDurable, Log!PrefixOf
<1>4. recoveredAt' <= Len(memory') /\ recoveredAt' <= Len(log')
  BY <1>0, <1>1 DEF TypeOK
<1>5. TurnReady'
  BY <1>0 DEF TurnReady
<1>6. AnswersAreDurable'
  <2> SUFFICES ASSUME NEW c \in Clients, answer'[c] # None, answer'[c].kind \in {"accepted", "duplicate"}
               PROVE  answer'[c].revision \in DOMAIN log /\ log[answer'[c].revision] = answer'[c].op
    BY <1>0 DEF AnswersAreDurable
  <2>1. CASE c = turn.client
    <3>1. answer'[c].revision = turn.revision /\ answer'[c].op = turn.op
      BY <2>1 DEF Finish, Respond, TypeOK
    <3> QED
      BY <1>1, <1>2, <3>1
  <2>2. CASE c # turn.client
    <3>1. answer'[c] = answer[c]
      BY <2>2 DEF Finish, Respond, TypeOK
    <3> QED
      BY <3>1 DEF AnswersAreDurable
  <2> QED
    BY <2>1, <2>2
<1>7. PublishedInOrder'
  <2>1. CASE turn.duplicate
    <3>1. published' = published
      BY <2>1, Zenon DEF Finish
    <3>2. \A i \in DOMAIN published : published[i].revision <= Len(memory')
      BY <1>0, <1>1 DEF PublishedInOrder
    <3> QED
      BY <1>0, <3>1, <3>2 DEF PublishedInOrder
  <2>2. CASE ~ turn.duplicate
    <3> DEFINE event == [op |-> turn.op, revision |-> turn.revision]
    <3>1. published' = Append(published, event)
      BY <2>2, Zenon DEF Finish
    <3>2. /\ published \in Seq([op : Log!Operations, revision : Nat])
          /\ event \in [op : Log!Operations, revision : Nat]
          /\ event.revision = turn.revision /\ event.op = turn.op
      BY <1>0 DEF TypeOK, Turns
    <3>3. turn.revision > Len(memory) /\ turn.revision > recoveredAt
      BY <1>0, <1>1, <1>2, <2>2 DEF TypeOK
    <3> HIDE DEF event
    <3>4. /\ DOMAIN published' = 1..(Len(published) + 1)
          /\ DOMAIN published = 1..Len(published)
          /\ \A i \in 1..Len(published) : published'[i] = published[i]
          /\ published'[Len(published) + 1] = event
          /\ Len(published) \in Nat
      BY <3>1, <3>2
    <3>5. \A i \in 1..Len(published) :
              /\ published[i].revision \in DOMAIN log
              /\ log[published[i].revision] = published[i].op
              /\ published[i].revision > recoveredAt
              /\ published[i].revision <= Len(memory)
      BY <1>0, <3>4 DEF PublishedInOrder
    <3>6. ASSUME NEW i \in DOMAIN published'
          PROVE  /\ published'[i].revision \in DOMAIN log
                 /\ log[published'[i].revision] = published'[i].op
                 /\ published'[i].revision > recoveredAt
                 /\ published'[i].revision <= Len(memory')
      <4>1. CASE i \in 1..Len(published)
        BY <1>0, <1>1, <3>4, <3>5, <4>1
      <4>2. CASE i = Len(published) + 1
        BY <1>1, <1>2, <3>2, <3>3, <3>4, <4>2
      <4> QED
        BY <3>4, <4>1, <4>2
    <3>7. ASSUME NEW i \in DOMAIN published', NEW j \in DOMAIN published', i < j
          PROVE  published'[i].revision < published'[j].revision
      <4>1. CASE j \in 1..Len(published)
        BY <3>4, <3>7, <4>1 DEF PublishedInOrder
      <4>2. CASE j = Len(published) + 1
        <5>1. i \in 1..Len(published) /\ published'[i] = published[i]
          BY <3>4, <3>7, <4>2
        <5> QED
          BY <1>0, <1>2, <3>2, <3>3, <3>4, <3>5, <4>2, <5>1
      <4> QED
        BY <3>4, <4>1, <4>2
    <3> QED
      BY <1>0, <3>6, <3>7 DEF PublishedInOrder
  <2> QED
    BY <2>1, <2>2
<1>8. SnapshotsReady'
  <2>1. \A saver \in savers : Log!PrefixOf(saver.content, log) /\ Len(saver.content) <= Len(memory')
    BY SMTT(40), <1>0, <1>1 DEF SnapshotsReady, SnapshotsBehind, TypeOK
  <2>2. \A saver \in savers' : saver \in savers \/ saver.content = memory'
    <3>1. CASE Schedule(turn.document)
      BY <1>0, <3>1 DEF Schedule
    <3>2. CASE UNCHANGED savers
      BY <3>2
    <3> QED
      BY <3>1, <3>2, Zenon DEF Finish
  <2>3. \A saver \in savers' : Log!PrefixOf(saver.content, log) /\ Len(saver.content) <= Len(memory')
    BY <1>1, <2>1, <2>2
  <2>4. base <= Len(log) /\ base <= Len(memory')
    BY <1>0, <1>1 DEF SnapshotsReady, SnapshotsBehind, TypeOK
  <2>5. results # None => results.revision <= Len(memory')
    <3>1. results # None => results.revision \in Nat
      BY DEF TypeOK
    <3>2. results # None => results.revision <= Len(memory)
      BY DEF SnapshotsReady, SnapshotsBehind
    <3> QED
      BY <1>0, <1>1, <3>1, <3>2
  <2> QED
    BY <1>0, <2>3, <2>4, <2>5 DEF SnapshotsReady, SnapshotsBehind, Log!PrefixOf
<1> QED
  BY <1>0, <1>3, <1>4, <1>5, <1>6, <1>7, <1>8

-----------------------------------------------------------------------------------
(* The steps outside a submission. *)
LEMMA SnapshotStep ==
    ASSUME OwnerInv, TypeOK', Tick \/ SnapshotDone \/ \E saver \in savers : Save(saver)
    PROVE  OwnerInv'
<1> USE DEF OwnerInv
<1>0. /\ log \in Seq(Log!Operations) /\ memory \in Seq(Log!Operations)
      /\ UNCHANGED <<log, up, memory, turn, recoveredAt, published, answer>>
  BY Zenon DEF TypeOK, Tick, SnapshotDone, Save, stored, observed
<1>1. /\ MemoryIsDurable' /\ TurnReady' /\ AnswersAreDurable' /\ PublishedInOrder'
      /\ (~ up => memory = << >>)'
      /\ (up => recoveredAt <= Len(memory))' /\ (recoveredAt <= Len(log))'
  BY <1>0 DEF MemoryIsDurable, TurnReady, AnswersAreDurable, PublishedInOrder, Log!PrefixOf, Log!Contains
<1>2. ASSUME NEW saver \in savers
      PROVE  Log!PrefixOf(saver.content, log) /\ (up => Len(saver.content) <= Len(memory))
  BY <1>2 DEF SnapshotsReady, SnapshotsBehind
<1>3. ASSUME up, Schedule(memory), base' = base, results' \in {None, results}
      PROVE  SnapshotsReady'
  <2>1. \A saver \in savers' : Log!PrefixOf(saver.content, log) /\ Len(saver.content) <= Len(memory)
    BY <1>0, <1>2, <1>3 DEF Schedule, MemoryIsDurable
  <2> QED
    BY <1>0, <1>3, <2>1 DEF SnapshotsReady, SnapshotsBehind, Log!PrefixOf
<1>4. CASE Tick
  BY <1>1, <1>3, <1>4 DEF Tick, stored
<1>5. CASE SnapshotDone
  <2>1. CASE Schedule(memory)
    BY <1>1, <1>3, <1>5, <2>1 DEF SnapshotDone, stored
  <2>2. CASE UNCHANGED savers
    BY <1>0, <1>1, <1>5, <2>2 DEF SnapshotDone, stored, SnapshotsReady, SnapshotsBehind, Log!PrefixOf
  <2> QED
    BY <1>5, <2>1, <2>2 DEF SnapshotDone
<1>6. ASSUME NEW saver \in savers, Save(saver)
      PROVE  OwnerInv'
  <2>1. savers' \subseteq savers /\ base' \in {base, Len(saver.content)}
    BY <1>6, Zenon DEF Save
  <2>2. Len(saver.content) <= Len(log) /\ (up => Len(saver.content) <= Len(memory))
    BY <1>2 DEF Log!PrefixOf
  <2>3. \/ results' = results
        \/ up /\ results'.revision = Len(saver.content)
    BY <1>6 DEF Save
  <2>4. base' <= Len(log) /\ (up => base' <= Len(memory))
    BY <2>1, <2>2 DEF SnapshotsReady, SnapshotsBehind
  <2>5. /\ results' # None => results'.revision <= Len(memory)
        /\ ~ up => results' = None
    BY <2>2, <2>3 DEF SnapshotsReady, SnapshotsBehind
  <2>6. SnapshotsReady'
    BY <1>0, <1>2, <2>1, <2>4, <2>5 DEF SnapshotsReady, SnapshotsBehind, Log!PrefixOf
  <2> QED
    BY <1>0, <1>1, <2>6
<1> QED
  BY <1>4, <1>5, <1>6

LEMMA LifeStep ==
    ASSUME OwnerInv, TypeOK', Crash \/ Recover
    PROVE  OwnerInv'
<1> USE DEF OwnerInv
<1>0. /\ log \in Seq(Log!Operations) /\ LogGrows /\ log' = log /\ base' = base
  BY DEF TypeOK, Crash, Recover, stored, LogGrows
<1>1. CASE Crash
  <2>1. AnswersAreDurable'
    <3>1. \A c \in Clients : answer'[c] = answer[c] \/ answer'[c].kind \in {"error", "closed"}
      BY <1>1 DEF Crash
    <3> QED
      BY <1>0, <3>1, AnswersKept
  <2>2. MemoryIsDurable' /\ TurnReady'
    BY <1>0, <1>1 DEF Crash, MemoryIsDurable, TurnReady, Log!PrefixOf
  <2>3. up' = FALSE /\ UNCHANGED <<published, recoveredAt>> /\ results' = None /\ savers' \subseteq savers
    BY <1>1 DEF Crash, observed
  <2>4. PublishedInOrder'
    BY <1>0, <2>3 DEF PublishedInOrder
  <2>5. SnapshotsReady'
    BY <1>0, <2>3 DEF SnapshotsReady, SnapshotsBehind, Log!PrefixOf
  <2> QED
    BY <1>0, <1>1, <2>1, <2>2, <2>3, <2>4, <2>5 DEF Crash
<1>2. CASE Recover
  <2>1. /\ memory' = log /\ recoveredAt' = Len(log) /\ published' = << >>
        /\ UNCHANGED <<turn, results, savers, answer>> /\ ~ up
    BY <1>2 DEF Recover
  <2>2. MemoryIsDurable' /\ recoveredAt' <= Len(memory') /\ recoveredAt' <= Len(log')
    BY <1>0, <2>1 DEF MemoryIsDurable, Log!PrefixOf
  <2>3. turn' = None /\ results' = None
    BY <2>1 DEF TurnReady, SnapshotsReady
  <2>4. AnswersAreDurable'
    BY <1>0, <2>1, AnswersKept
  <2>5. PublishedInOrder'
    BY <2>1 DEF PublishedInOrder
  <2>6. \A saver \in savers : Log!PrefixOf(saver.content, log) /\ Len(saver.content) <= Len(log)
    BY DEF SnapshotsReady, SnapshotsBehind, Log!PrefixOf
  <2>7. SnapshotsReady'
    BY <1>0, <2>1, <2>3, <2>6 DEF SnapshotsReady, SnapshotsBehind, Log!PrefixOf
  <2> QED
    BY <1>2, <2>2, <2>3, <2>4, <2>5, <2>7 DEF TurnReady, Recover
<1> QED
  BY <1>1, <1>2

LEMMA OwnerInit ==
    ASSUME Init
    PROVE  OwnerInv
<1>1. TypeOK
  <2>1. None \in Answers
    BY DEF Answers
  <2>2. /\ << >> \in Seq(Log!Operations)
        /\ << >> \in Seq([client : Clients, op : Log!Operations])
        /\ << >> \in Seq([op : Log!Operations, revision : Nat])
    BY EmptySeq
  <2>3. 1 \in 1..MaxLives /\ 0 \in 0..MaxFaults
    BY OwnerAssumption
  <2> QED
    BY <2>1, <2>2, <2>3 DEF Init, TypeOK
<1>2. MemoryIsDurable /\ TurnReady /\ SnapshotsReady
  BY DEF Init, MemoryIsDurable, TurnReady, SnapshotsReady, SnapshotsBehind, Log!PrefixOf
<1>3. AnswersAreDurable /\ PublishedInOrder
  BY DEF Init, AnswersAreDurable, PublishedInOrder
<1> QED
  BY <1>1, <1>2, <1>3 DEF Init, OwnerInv

LEMMA OwnerStep ==
    ASSUME OwnerInv, [Next]_vars
    PROVE  OwnerInv'
<1>0. TypeOK' /\ LogGrows
  BY TypeStep, LogStep DEF OwnerInv
<1>1. ASSUME NEW c \in Clients, NEW op \in Log!Operations, Request(c, op)
      PROVE  OwnerInv'
  <2>1. UNCHANGED <<log, base, up, memory, turn, savers, results, recoveredAt, published>>
    BY <1>1 DEF Request, stored, snapshots, observed
  <2>2. AnswersAreDurable'
    <3>1. \A d \in Clients : answer'[d] = answer[d] \/ answer'[d] = None
      BY <1>1 DEF Request, OwnerInv, TypeOK
    <3> QED
      BY <1>0, <3>1, AnswersKept DEF OwnerInv
  <2>3. TurnReady'
    BY <2>1 DEF OwnerInv, TurnReady, Log!PrefixOf, Log!Contains
  <2> QED
    BY <1>0, <2>1, <2>2, <2>3, Undisturbed DEF OwnerInv
<1>2. CASE Take \/ Lookup \/ AppendOperation \/ Resolve \/ Reconcile
  <2>1. UNCHANGED <<base, up, memory, savers, results, recoveredAt, published>>
    BY <1>2, Zenon DEF Take, Lookup, AppendOperation, Resolve, Reconcile, Refuse, Advance, Commit,
                       stored, snapshots, observed
  <2> QED
    BY <1>0, <1>2, <2>1, Undisturbed, AdvanceStep DEF OwnerInv
<1>3. CASE Finish
  BY <1>0, <1>3, FinishStep
<1>4. CASE Tick \/ SnapshotDone \/ \E saver \in savers : Save(saver)
  BY <1>0, <1>4, SnapshotStep
<1>5. CASE Crash \/ Recover
  BY <1>0, <1>5, LifeStep
<1>6. CASE UNCHANGED vars
  <2>1. TurnReady' /\ AnswersAreDurable'
    BY <1>6 DEF vars, OwnerInv, TurnReady, AnswersAreDurable, Log!PrefixOf, Log!Contains
  <2> QED
    BY <1>0, <1>6, <2>1, Undisturbed DEF OwnerInv, vars
<1> QED
  BY <1>1, <1>2, <1>3, <1>4, <1>5, <1>6 DEF Next, Submission

(* The strengthened invariant holds throughout. *)
THEOREM OwnerInvTheorem == Spec => []OwnerInv
<1>1. Init => OwnerInv
  BY OwnerInit
<1>2. OwnerInv /\ [Next]_vars => OwnerInv'
  BY OwnerStep
<1> QED
  BY <1>1, <1>2, PTL DEF Spec

(* The document an owner serves is a prefix of the durable log through      *)
(* every failing store call, crash and recovery.                            *)
THEOREM MemoryIsDurableTheorem == Spec => []MemoryIsDurable
<1>1. OwnerInv => MemoryIsDurable
  BY DEF OwnerInv
<1> QED
  BY <1>1, OwnerInvTheorem, PTL

(* A client that was told "accepted" or "duplicate" can rely on the         *)
(* revision it was given, also across restarts.                             *)
THEOREM AnswersAreDurableTheorem == Spec => []AnswersAreDurable
<1>1. OwnerInv => AnswersAreDurable
  BY DEF OwnerInv
<1> QED
  BY <1>1, OwnerInvTheorem, PTL

(* Subscribers receive durable operations in strictly increasing order.     *)
THEOREM PublishedInOrderTheorem == Spec => []PublishedInOrder
<1>1. OwnerInv => PublishedInOrder
  BY DEF OwnerInv
<1> QED
  BY <1>1, OwnerInvTheorem, PTL

(* No snapshot gets ahead of the log or of the living owner's document.     *)
THEOREM SnapshotsBehindTheorem == Spec => []SnapshotsBehind
<1>1. OwnerInv => SnapshotsBehind
  BY DEF OwnerInv, SnapshotsReady
<1> QED
  BY <1>1, OwnerInvTheorem, PTL

-----------------------------------------------------------------------------------
(* An append is an acceptance, adopting a document moves it forward, a      *)
(* recovery serves the whole log, and the end of the owner stops it.        *)
LEMMA LogRefines ==
    ASSUME OwnerInv, [Next]_vars
    PROVE  [Log!Next]_<<log, memory>>
<1> USE DEF OwnerInv
<1>0. log \in Seq(Log!Operations) /\ memory \in Seq(Log!Operations)
  BY DEF TypeOK
<1>1. CASE AppendOperation
  <2>1. turn.op \in Log!Operations /\ memory' = memory
    BY <1>1 DEF AppendOperation, Processing, TypeOK, Turns, Advance
  <2>2. CASE UNCHANGED log
    BY <2>1, <2>2
  <2>3. CASE Appends /\ Commit
    <3>1. Log!Accept(turn.op)
      BY <2>1, <2>3 DEF Appends, Commit, Log!Accept
    <3> QED
      BY <2>1, <3>1 DEF Log!Next
  <2> QED
    BY <1>1, <2>2, <2>3, Zenon DEF AppendOperation, stored
<1>2. CASE Finish
  <2>1. /\ turn \in Turns /\ turn # None /\ turn.at = "finish"
        /\ memory' = turn.document /\ log' = log
    BY <1>2 DEF Finish, Processing, TypeOK, stored
  <2>2. Log!PrefixOf(memory', log) /\ Len(memory) <= Len(memory') /\ memory' \in Seq(Log!Operations)
    BY <2>1 DEF TurnReady, Turns
  <2>3. Log!PrefixOf(memory, memory')
    BY <1>0, <2>2 DEF MemoryIsDurable, Log!PrefixOf
  <2> QED
    BY <2>1, <2>2, <2>3 DEF Log!Next, Log!Serve
<1>3. CASE Recover
  <2>1. memory = << >> /\ memory' = log /\ log' = log
    BY <1>3 DEF Recover, stored
  <2> QED
    BY <1>0, <2>1 DEF Log!Next, Log!Serve, Log!PrefixOf
<1>4. CASE Crash
  BY <1>4 DEF Crash, stored, Log!Next, Log!Stop
<1>5. ASSUME ~ AppendOperation, ~ Finish, ~ Recover, ~ Crash
      PROVE  UNCHANGED <<log, memory>>
  BY <1>5, Zenon DEF Next, Submission, Request, Take, Lookup, Resolve, Reconcile,
                     Tick, SnapshotDone, Save, Refuse, Advance, stored, vars
<1> QED
  BY <1>1, <1>2, <1>3, <1>4, <1>5

(* The owner and its store implement the accepted log: each operation is    *)
(* accepted once, at the next revision, against the map its predecessors    *)
(* left, and the document served never falls back, whichever calls fail     *)
(* and however often the owner restarts.                                    *)
THEOREM ImplementsAcceptedLogTheorem == Spec => ImplementsAcceptedLog
<1>1. Init => Log!Init
  BY DEF Init, Log!Init
<1>2. OwnerInv /\ [Next]_vars => [Log!Next]_<<log, memory>>
  BY LogRefines
<1> QED
  BY <1>1, <1>2, OwnerInvTheorem, PTL DEF Spec, ImplementsAcceptedLog, Log!Spec

(* The stored snapshot never moves backwards, whoever saves it.             *)
THEOREM SnapshotNeverRegressesTheorem == Spec => SnapshotNeverRegresses
<1>1. OwnerInv /\ [Next]_vars => [base' >= base]_base
  <2> SUFFICES ASSUME OwnerInv, [Next]_vars, base' # base
               PROVE  base' >= base
    OBVIOUS
  <2>1. \E saver \in savers : Saves(saver.content) /\ base' = Len(saver.content)
    BY Zenon DEF Next, Submission, Request, Take, Lookup, AppendOperation, Resolve, Reconcile, Finish,
                 Tick, SnapshotDone, Save, Crash, Recover, Refuse, Advance, Commit, stored, vars
  <2> QED
    BY <2>1 DEF Saves
<1> QED
  BY <1>1, OwnerInvTheorem, PTL DEF Spec, SnapshotNeverRegresses

-----------------------------------------------------------------------------------
(* When only appends and snapshots fail.  The store answers a lookup, so the *)
(* owner always finds out what became of an append that was reported as      *)
(* failed, and its document never falls behind the log for longer than a     *)
(* submission takes.                                                         *)

StoreAnswers == Faults \subseteq {"append", "save"}

(* The log is ahead of memory by nothing, or by the submission in progress. *)
UpToDate == Len(log) = Len(memory)

OneAhead == Len(log) = Len(memory) + 1 /\ log[Len(log)] = turn.op

MemoryFollowsLog ==
    up => /\ (turn = None \/ turn.at \in {"lookup", "append"}) => UpToDate
          /\ (turn # None /\ turn.at \in {"lookup", "append", "resolve"}) => turn.duplicate = FALSE
          /\ (turn # None /\ turn.at = "resolve") => UpToDate \/ OneAhead
          /\ (turn # None /\ turn.at = "reconcile") =>
                IF turn.duplicate THEN UpToDate ELSE OneAhead
          /\ (turn # None /\ turn.at = "finish") =>
                /\ Len(turn.document) = Len(log)
                /\ IF turn.duplicate THEN UpToDate ELSE OneAhead /\ turn.revision = Len(log)

AllPublished ==
    up => \A r \in (recoveredAt + 1)..Len(memory) :
              \E i \in DOMAIN published : published[i].revision = r

(* MemoryStore.Append refuses an ID it has. *)
IDsUnique == \A r, q \in DOMAIN log : log[r].id = log[q].id => r = q

PublishInv == MemoryFollowsLog /\ AllPublished

LEMMA IDsStep ==
    ASSUME TypeOK, IDsUnique, [Next]_vars
    PROVE  IDsUnique'
<1>0. log \in Seq(Log!Operations)
  BY DEF TypeOK
<1>1. CASE log' = log
  BY <1>1 DEF IDsUnique
<1>2. CASE AppendOperation /\ log' = Append(log, turn.op) /\ ~ Log!Contains(log, turn.op.id)
  <2>1. turn.op \in Log!Operations
    BY <1>2 DEF AppendOperation, Processing, TypeOK, Turns
  <2> QED
    BY <1>0, <1>2, <2>1 DEF IDsUnique, Log!Contains
<1>3. CASE AppendOperation
  BY <1>1, <1>2, <1>3, Zenon DEF AppendOperation, Appends, Commit, stored
<1>4. CASE Take \/ Lookup \/ Resolve \/ Reconcile \/ Finish
  BY <1>1, <1>4, Zenon DEF Take, Lookup, Resolve, Reconcile, Finish, Refuse, stored
<1> QED
  BY <1>1, <1>3, <1>4, Zenon
     DEF Next, Submission, Request, Tick, SnapshotDone, Save, Crash, Recover, stored, vars

(* An operation the document does not have yet, in a log one entry longer.  *)
LEMMA AheadRevision ==
    ASSUME TypeOK, MemoryIsDurable, OneAhead, ~ Log!Contains(memory, turn.op.id)
    PROVE  Revision(turn.op.id) = Len(log) /\ log[Revision(turn.op.id)] = turn.op
<1>0. log \in Seq(Log!Operations) /\ memory \in Seq(Log!Operations)
  BY DEF TypeOK
<1>1. Len(log) \in DOMAIN log /\ log[Len(log)].id = turn.op.id
  BY <1>0 DEF OneAhead
<1>2. Revision(turn.op.id) \in DOMAIN log /\ log[Revision(turn.op.id)].id = turn.op.id
  BY <1>1, RevisionFound DEF Log!Contains
<1>3. Revision(turn.op.id) \notin DOMAIN memory
  BY <1>2 DEF MemoryIsDurable, Log!PrefixOf, Log!Contains
<1> QED
  BY <1>0, <1>2, <1>3 DEF OneAhead

(* In a log as long as the document, the store knows what memory knows. *)
LEMMA UpToDateContains ==
    ASSUME TypeOK, MemoryIsDurable, UpToDate, NEW id, Log!Contains(log, id)
    PROVE  Log!Contains(memory, id)
<1>0. log \in Seq(Log!Operations) /\ memory \in Seq(Log!Operations)
  BY DEF TypeOK
<1> QED
  BY <1>0 DEF MemoryIsDurable, UpToDate, Log!PrefixOf, Log!Contains

(* A step that touches neither log, memory nor turn keeps them in step. *)
LEMMA FollowsUndisturbed ==
    ASSUME PublishInv, UNCHANGED <<log, memory, turn, up, recoveredAt, published>>
    PROVE  PublishInv'
BY DEF PublishInv, MemoryFollowsLog, AllPublished, UpToDate, OneAhead

LEMMA PublishedUndisturbed ==
    ASSUME AllPublished, UNCHANGED <<memory, up, recoveredAt, published>>
    PROVE  AllPublished'
BY DEF AllPublished

LEMMA RefuseKeeps ==
    ASSUME up, UpToDate, AllPublished, Refuse
    PROVE  PublishInv'
<1>1. AllPublished'
  BY PublishedUndisturbed DEF Refuse, observed
<1> QED
  BY <1>1 DEF Refuse, stored, PublishInv, MemoryFollowsLog, UpToDate

(* The stages of a submission, each under StoreAnswers. *)
LEMMA SubmissionFollows ==
    ASSUME OwnerInv, PublishInv, StoreAnswers,
           Take \/ Lookup \/ AppendOperation \/ Resolve \/ Reconcile
    PROVE  PublishInv'
<1> USE DEF OwnerInv, PublishInv
<1>0. /\ log \in Seq(Log!Operations) /\ memory \in Seq(Log!Operations)
      /\ ~ Fails("lookup") /\ ~ Fails("resolve") /\ ~ Fails("reconcile")
  BY DEF TypeOK, StoreAnswers, Fails
<1>1. CASE Take
  <2>1. AllPublished'
    BY <1>1, PublishedUndisturbed DEF Take, observed
  <2>2. turn' # None => turn'.at = "lookup" /\ turn'.duplicate = FALSE
    BY <1>1 DEF Take
  <2> QED
    BY <1>1, <2>1, <2>2 DEF Take, stored, MemoryFollowsLog, UpToDate
<1>2. CASE Lookup
  <2>1. turn \in Turns /\ turn # None /\ up /\ turn.at = "lookup" /\ UpToDate
    BY <1>2 DEF Lookup, Processing, TypeOK, MemoryFollowsLog
  <2>2. CASE Refuse
    BY <2>1, <2>2, RefuseKeeps
  <2>3. CASE Advance([turn EXCEPT !.at = "reconcile", !.duplicate = TRUE]) /\ UNCHANGED stored
    <3>1. turn'.at = "reconcile" /\ turn'.duplicate
      BY <2>1, <2>3 DEF Advance, Turns
    <3>2. AllPublished'
      BY <2>3, PublishedUndisturbed DEF Advance, observed
    <3> QED
      BY <2>1, <2>3, <3>1, <3>2, OwnerAssumption
         DEF Advance, stored, MemoryFollowsLog, UpToDate, Turns
  <2>4. CASE Advance([turn EXCEPT !.at = "append"]) /\ UNCHANGED stored
    <3>1. turn'.at = "append" /\ turn'.duplicate = FALSE
      BY <2>1, <2>4 DEF Advance, Turns, MemoryFollowsLog
    <3>2. AllPublished'
      BY <2>4, PublishedUndisturbed DEF Advance, observed
    <3> QED
      BY <2>1, <2>4, <3>1, <3>2 DEF Advance, stored, MemoryFollowsLog, UpToDate
  <2> QED
    BY <1>0, <1>2, <2>2, <2>3, <2>4 DEF Lookup, stored
<1>3. CASE AppendOperation
  <2>1. turn \in Turns /\ up /\ turn.at = "append" /\ UpToDate /\ turn # None
    BY <1>3 DEF AppendOperation, Processing, TypeOK, MemoryFollowsLog
  <2>2. /\ turn.op \in Log!Operations
        /\ Len(Candidate) = Len(memory) + 1
        /\ Len(Append(log, turn.op)) = Len(log) + 1
        /\ Append(log, turn.op)[Len(log) + 1] = turn.op
    BY <2>1, <1>0 DEF Candidate, Turns
  <2>3. turn' \in Turns
    <3>1. /\ [turn EXCEPT !.at = "resolve"] \in Turns
          /\ [turn EXCEPT !.at = "finish", !.revision = Len(Candidate), !.document = Candidate]
               \in Turns
      <4>1. Candidate \in Seq(Log!Operations) /\ Len(Candidate) \in Nat
        BY <1>0, <2>2 DEF Candidate
      <4> QED
        BY <2>1, <4>1 DEF Turns
    <3> QED
      BY <1>3, <3>1 DEF AppendOperation, Advance
  <2>4. CASE Advance([turn EXCEPT !.at = "finish", !.revision = Len(Candidate), !.document = Candidate])
               /\ Commit
    <3>1. /\ turn'.at = "finish" /\ turn'.revision = Len(Candidate) /\ turn'.document = Candidate
          /\ turn'.op = turn.op /\ turn'.duplicate = turn.duplicate
      BY <2>1, <2>4 DEF Advance, Turns
    <3>2. AllPublished'
      BY <2>4, PublishedUndisturbed DEF Advance, observed
    <3>3. turn.duplicate = FALSE
      BY <2>1 DEF MemoryFollowsLog
    <3>4. up' = up /\ memory' = memory /\ log' = Append(log, turn.op) /\ turn' # None
      BY <2>3, <2>4, TurnAssumption DEF Advance, Commit, TypeOK
    <3>5. OneAhead' /\ turn'.revision = Len(log') /\ Len(turn'.document) = Len(log')
      BY <1>0, <2>1, <2>2, <3>1, <3>4 DEF UpToDate, OneAhead
    <3> QED
      BY <3>1, <3>2, <3>3, <3>4, <3>5 DEF MemoryFollowsLog
  <2>5. CASE Advance([turn EXCEPT !.at = "resolve"]) /\ (Commit \/ UNCHANGED stored)
    <3>1. turn'.at = "resolve" /\ turn'.op = turn.op /\ turn'.duplicate = FALSE
      BY <2>1, <2>5 DEF Advance, Turns, MemoryFollowsLog
    <3>2. AllPublished'
      BY <2>5, PublishedUndisturbed DEF Advance, observed
    <3>3. up' = up /\ memory' = memory /\ turn' # None /\ log' \in {log, Append(log, turn.op)}
      BY <2>3, <2>5, TurnAssumption DEF Advance, Commit, stored
    <3>4. UpToDate' \/ OneAhead'
      BY <1>0, <2>1, <2>2, <3>1, <3>3 DEF UpToDate, OneAhead
    <3> QED
      BY <3>1, <3>2, <3>3, <3>4 DEF MemoryFollowsLog
  <2> QED
    BY <1>3, <2>4, <2>5 DEF AppendOperation, stored
<1>4. CASE Resolve
  <2>1. turn \in Turns /\ up /\ turn.at = "resolve" /\ turn # None /\ (UpToDate \/ OneAhead)
    BY <1>4 DEF Resolve, Processing, TypeOK, MemoryFollowsLog
  <2>2. ~ Log!Contains(memory, turn.op.id)
    BY <2>1 DEF TurnReady
  <2>3. CASE Refuse /\ ~ Log!Contains(log, turn.op.id)
    <3>1. UpToDate
      BY <1>0, <2>1, <2>3 DEF OneAhead, Log!Contains
    <3> QED
      BY <2>1, <2>3, <3>1, RefuseKeeps
  <2>4. CASE /\ Log!Contains(log, turn.op.id)
             /\ Advance([turn EXCEPT !.at = "reconcile"])
             /\ UNCHANGED stored
    <3>1. OneAhead
      BY <2>1, <2>2, <2>4, UpToDateContains
    <3>2. turn'.at = "reconcile" /\ turn'.op = turn.op /\ turn'.duplicate = turn.duplicate
      BY <2>1, <2>4 DEF Advance, Turns
    <3>3. AllPublished'
      BY <2>4, PublishedUndisturbed DEF Advance, observed
    <3>4. turn.duplicate = FALSE
      BY <2>1 DEF MemoryFollowsLog
    <3>5. turn' \in Turns
      BY <2>1, <2>4 DEF Advance, Turns
    <3>6. up' = up /\ memory' = memory /\ log' = log /\ turn' # None
      BY <2>4, <3>5, TurnAssumption DEF Advance, stored
    <3> QED
      BY <3>1, <3>2, <3>3, <3>4, <3>6 DEF MemoryFollowsLog, OneAhead
  <2> QED
    BY <1>0, <1>4, <2>3, <2>4 DEF Resolve
<1>5. CASE Reconcile
  <2>1. turn \in Turns /\ up /\ turn.at = "reconcile" /\ turn # None
        /\ IF turn.duplicate THEN UpToDate ELSE OneAhead
    BY <1>5 DEF Reconcile, Processing, TypeOK, MemoryFollowsLog
  <2>2. ~ turn.duplicate => /\ Revision(turn.op.id) = Len(log)
                            /\ log[Revision(turn.op.id)] = turn.op
    BY <2>1, AheadRevision DEF TurnReady
  <2>3. CASE Refuse /\ log[Revision(turn.op.id)] # turn.op
    BY <2>1, <2>2, <2>3, RefuseKeeps
  <2>4. CASE /\ Advance([turn EXCEPT !.at = "finish", !.revision = Revision(turn.op.id),
                                     !.document = Reconciled])
             /\ UNCHANGED stored
    <3>1. /\ turn'.at = "finish" /\ turn'.revision = Revision(turn.op.id)
          /\ turn'.document = Reconciled
          /\ turn'.op = turn.op /\ turn'.duplicate = turn.duplicate
      BY <2>1, <2>4 DEF Advance, Turns
    <3>2. AllPublished'
      BY <2>4, PublishedUndisturbed DEF Advance, observed
    <3>3. Len(Reconciled) = Len(log)
      BY <1>0, <2>1, <2>2 DEF Reconciled, UpToDate, OneAhead
    <3>4. up' = up /\ memory' = memory /\ log' = log /\ turn' # None
      <4>1. Revision(turn.op.id) \in Nat
        <5>1. Log!Contains(log, turn.op.id)
          BY <2>1 DEF TurnReady
        <5> QED
          BY <5>1, <1>0, RevisionFound
      <4>2. turn' \in Turns
        BY <1>0, <2>1, <2>4, <4>1 DEF Advance, Turns, Reconciled
      <4> QED
        BY <2>4, <4>2, TurnAssumption DEF Advance, stored
    <3>5. CASE turn.duplicate
      BY <2>1, <3>1, <3>2, <3>3, <3>4, <3>5 DEF MemoryFollowsLog, UpToDate
    <3>6. CASE ~ turn.duplicate
      BY <2>1, <2>2, <3>1, <3>2, <3>3, <3>4, <3>6 DEF MemoryFollowsLog, OneAhead
    <3> QED
      BY <3>5, <3>6
  <2> QED
    BY <1>0, <1>5, <2>3, <2>4 DEF Reconcile
<1> QED
  BY <1>1, <1>2, <1>3, <1>4, <1>5

(* The last stage adopts and publishes in one turn. *)
LEMMA FinishFollows ==
    ASSUME OwnerInv, PublishInv, Finish
    PROVE  PublishInv'
<1> USE DEF OwnerInv, PublishInv
<1>0. /\ log \in Seq(Log!Operations) /\ memory \in Seq(Log!Operations)
      /\ published \in Seq([op : Log!Operations, revision : Nat])
      /\ recoveredAt \in Nat
      /\ turn \in Turns /\ up /\ turn.at = "finish" /\ turn # None
  BY DEF TypeOK, Finish, Processing
<1>1. /\ Len(turn.document) = Len(log)
      /\ IF turn.duplicate THEN UpToDate ELSE OneAhead /\ turn.revision = Len(log)
  BY <1>0 DEF MemoryFollowsLog
<1>2. memory' = turn.document /\ log' = log /\ turn' = None /\ up' = up /\ recoveredAt' = recoveredAt
  BY DEF Finish, stored
<1>3. MemoryFollowsLog'
  BY <1>1, <1>2 DEF MemoryFollowsLog, UpToDate
<1>4. CASE turn.duplicate
  <2>1. published' = published /\ Len(memory') = Len(memory)
    BY <1>1, <1>2, <1>4 DEF Finish, UpToDate
  <2> QED
    BY <1>2, <1>3, <2>1 DEF AllPublished
<1>5. CASE ~ turn.duplicate
  <2> DEFINE event == [op |-> turn.op, revision |-> turn.revision]
  <2>1. published' = Append(published, event)
    BY <1>5, Zenon DEF Finish
  <2>2. event \in [op : Log!Operations, revision : Nat] /\ event.revision = Len(memory) + 1
        /\ Len(memory') = Len(memory) + 1
    BY <1>0, <1>1, <1>2, <1>5 DEF Turns, OneAhead
  <2> HIDE DEF event
  <2>3. /\ \A i \in DOMAIN published : i \in DOMAIN published' /\ published'[i] = published[i]
        /\ Len(published) + 1 \in DOMAIN published' /\ published'[Len(published) + 1] = event
    BY <1>0, <2>1, <2>2
  <2>4. ASSUME NEW r \in (recoveredAt + 1)..Len(memory')
        PROVE  \E i \in DOMAIN published' : published'[i].revision = r
    <3>1. CASE r = Len(memory) + 1
      BY <2>2, <2>3, <3>1
    <3>2. CASE r # Len(memory) + 1
      <4>1. r \in (recoveredAt + 1)..Len(memory)
        BY <1>0, <2>2, <3>2
      <4>2. PICK i \in DOMAIN published : published[i].revision = r
        BY <1>0, <4>1 DEF AllPublished
      <4> QED
        BY <2>3, <4>2
    <3> QED
      BY <3>1, <3>2
  <2> QED
    BY <1>2, <1>3, <2>4 DEF AllPublished
<1> QED
  BY <1>4, <1>5

LEMMA PublishStep ==
    ASSUME OwnerInv, PublishInv, StoreAnswers, [Next]_vars
    PROVE  PublishInv'
<1>1. ASSUME NEW c \in Clients, NEW op \in Log!Operations, Request(c, op)
      PROVE  PublishInv'
  BY <1>1, FollowsUndisturbed DEF Request, stored, observed
<1>2. CASE Submission
  BY <1>2, SubmissionFollows, FinishFollows DEF Submission
<1>3. CASE Tick \/ SnapshotDone
  BY <1>3, FollowsUndisturbed DEF Tick, SnapshotDone, stored, observed
<1>4. ASSUME NEW saver \in savers, Save(saver)
      PROVE  PublishInv'
  BY <1>4, FollowsUndisturbed DEF Save, observed
<1>5. CASE Crash
  BY <1>5 DEF Crash, PublishInv, MemoryFollowsLog, AllPublished
<1>6. CASE Recover
  <2>1. up' /\ memory' = log /\ log' = log /\ recoveredAt' = Len(log) /\ turn' = None
    BY <1>6 DEF Recover, stored, OwnerInv, TurnReady
  <2>2. Len(log) \in Nat
    BY DEF OwnerInv, TypeOK
  <2>3. (Len(log) + 1)..Len(log) = {}
    BY <2>2
  <2> QED
    BY <2>1, <2>3 DEF PublishInv, MemoryFollowsLog, AllPublished, UpToDate
<1>7. CASE UNCHANGED vars
  BY <1>7, FollowsUndisturbed DEF vars
<1> QED
  BY <1>1, <1>2, <1>3, <1>4, <1>5, <1>6, <1>7 DEF Next

LEMMA PublishInvHolds ==
    ASSUME StoreAnswers
    PROVE  Spec => [](OwnerInv /\ PublishInv /\ IDsUnique)
<1>1. Init => OwnerInv /\ PublishInv /\ IDsUnique
  <2> SUFFICES ASSUME Init PROVE PublishInv /\ IDsUnique
    BY OwnerInit
  <2>1. /\ log = << >> /\ memory = << >> /\ turn = None /\ recoveredAt = 0
    BY DEF Init
  <2>2. (0 + 1)..Len(<< >>) = {} /\ DOMAIN << >> = {}
    OBVIOUS
  <2> QED
    BY <2>1, <2>2 DEF PublishInv, MemoryFollowsLog, AllPublished, UpToDate, IDsUnique
<1>2. OwnerInv /\ PublishInv /\ IDsUnique /\ [Next]_vars => (OwnerInv /\ PublishInv /\ IDsUnique)'
  BY OwnerStep, PublishStep, IDsStep DEF OwnerInv
<1> QED
  BY <1>1, <1>2, PTL DEF Spec

(* As long as the store answers what it is asked after a failed append,      *)
(* every revision the owner takes on in a life has been given to the         *)
(* subscribers when the turn ends: an append that committed and was          *)
(* reported as failed is published like any other.  (When those lookups can  *)
(* fail too, this is false; see the run owner_unpublished.)                  *)
THEOREM PublishesEveryRevisionTheorem ==
    ASSUME StoreAnswers
    PROVE  Spec => []PublishesEveryRevision
<1>1. PublishInv => PublishesEveryRevision
  BY DEF PublishInv, AllPublished, PublishesEveryRevision
<1> QED
  BY <1>1, PublishInvHolds, PTL

(* Under the same condition, a submission answered with an error is not in   *)
(* the log at that moment: the caller may treat it as not having happened.   *)
THEOREM RefusedIsNotDurableTheorem ==
    ASSUME StoreAnswers
    PROVE  Spec => RefusedIsNotDurable
<1> DEFINE Step == \A c \in Clients :
                      (answer'[c] # answer[c] /\ answer'[c] # None /\ answer'[c].kind = "error") =>
                          \A r \in DOMAIN log' : log'[r] # answer'[c].op
<1>1. ASSUME OwnerInv, PublishInv, IDsUnique, [Next]_vars
      PROVE  Step
  <2> SUFFICES ASSUME NEW c \in Clients, answer'[c] # answer[c], answer'[c] # None,
                      answer'[c].kind = "error"
               PROVE  \A r \in DOMAIN log' : log'[r] # answer'[c].op
    OBVIOUS
  <2>0. /\ answer \in [Clients -> Answers]
        /\ log \in Seq(Log!Operations)
        /\ ~ Fails("lookup") /\ ~ Fails("resolve") /\ ~ Fails("reconcile")
    BY <1>1 DEF OwnerInv, TypeOK, StoreAnswers, Fails
  <2>1. ASSUME turn \in Turns, Refuse, \A r \in DOMAIN log : log[r] # turn.op
        PROVE  \A r \in DOMAIN log' : log'[r] # answer'[c].op
    <3>1. log' = log /\ answer' = [answer EXCEPT ![turn.client] =
                                     [kind |-> "error", op |-> turn.op, revision |-> 0]]
      BY <2>1 DEF Refuse, Respond, stored
    <3>2. answer'[c].op = turn.op
      BY <2>0, <2>1, <3>1 DEF Turns
    <3> QED
      BY <2>1, <3>1, <3>2
  <2>2. ASSUME NEW d \in Clients, NEW op \in Log!Operations, Request(d, op)
        PROVE  FALSE
    BY <2>0, <2>2 DEF Request
  <2>3. CASE Lookup
    <3>1. turn \in Turns
      BY <1>1, <2>3 DEF Lookup, Processing, OwnerInv, TypeOK
    <3>2. Refuse /\ ~ Log!Contains(log, turn.op.id)
      BY <2>0, <2>3 DEF Lookup, Advance
    <3> QED
      BY <2>1, <3>1, <3>2 DEF Log!Contains
  <2>4. CASE Resolve
    <3>1. turn \in Turns
      BY <1>1, <2>4 DEF Resolve, Processing, OwnerInv, TypeOK
    <3>2. Refuse /\ ~ Log!Contains(log, turn.op.id)
      BY <2>0, <2>4 DEF Resolve, Advance
    <3> QED
      BY <2>1, <3>1, <3>2 DEF Log!Contains
  <2>5. CASE Reconcile
    <3>1. turn \in Turns /\ Log!Contains(log, turn.op.id)
      BY <1>1, <2>5 DEF Reconcile, Processing, OwnerInv, TypeOK, TurnReady
    <3>2. Refuse /\ log[Revision(turn.op.id)] # turn.op
      BY <2>0, <2>5 DEF Reconcile, Advance
    <3>3. Revision(turn.op.id) \in DOMAIN log /\ log[Revision(turn.op.id)].id = turn.op.id
      BY <3>1, RevisionFound
    <3>4. \A r \in DOMAIN log : log[r] # turn.op
      BY <1>1, <3>2, <3>3 DEF IDsUnique
    <3> QED
      BY <2>1, <3>1, <3>2, <3>4
  <2>6. CASE Finish
    <3>1. turn \in Turns
      BY <1>1, <2>6 DEF Finish, Processing, OwnerInv, TypeOK
    <3>2. \E kind \in {"duplicate", "accepted"} : Respond(kind, turn.revision)
      BY <2>6 DEF Finish
    <3>3. answer'[c] = answer[c] \/ answer'[c].kind \in {"duplicate", "accepted"}
      BY <2>0, <3>1, <3>2 DEF Respond, Turns
    <3> QED
      BY <3>3
  <2>7. CASE Crash
    BY <2>0, <2>7 DEF Crash
  <2>8. CASE Take \/ AppendOperation
    BY <2>8 DEF Take, AppendOperation, Advance
  <2>9. CASE Tick \/ SnapshotDone \/ Recover \/ UNCHANGED vars
    BY <2>9 DEF Tick, SnapshotDone, Recover, vars
  <2>10. ASSUME NEW saver \in savers, Save(saver)
         PROVE  FALSE
    BY <2>10 DEF Save
  <2> QED
    BY <1>1, <2>2, <2>3, <2>4, <2>5, <2>6, <2>7, <2>8, <2>9, <2>10 DEF Next, Submission
<1>2. OwnerInv /\ PublishInv /\ IDsUnique /\ [Next]_vars => [Step]_vars
  BY <1>1
<1> QED
  BY <1>2, PublishInvHolds, PTL DEF Spec, RefusedIsNotDurable
===================================================================================
