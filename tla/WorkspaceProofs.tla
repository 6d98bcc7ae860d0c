------------------------------- MODULE WorkspaceProofs ------------------------------
(***************************************************************************)
(* Theorems about a map tab attached to a session, for any number of files, *)
(* commands and disturbances: nothing waits for an answer nobody will give, *)
(* a label without a star is true, a tab that closes by itself is saved,    *)
(* what other programs wrote is replaced only with the user's agreement,    *)
(* and the undo history tells what the session shows.                       *)
(***************************************************************************)
EXTENDS Workspace, TLAPS

Operations == [kind : {"edit", "undo", "redo"}, edit : Nat, gen : Nat]

Results == [outcome : {"saved", "conflict", "error", "declined"}, ver : Nat]

WaitClosures == [kind : {"waited"}]

InverseClosures == [kind : {"inverse"}, ok : BOOLEAN]

OutcomeClosures == [kind : {"outcome"}, op : Operations, ok : BOOLEAN]

SaveClosures == [kind : {"saved"}, request : Requests, result : Results]

Closures == WaitClosures \cup InverseClosures \cup OutcomeClosures \cup SaveClosures

Documents == [rev : Nat, content : SUBSET Int, taken : SUBSET Int]

Views == [gen : Nat, rev : Nat, gesture : {"none", "stroke", "move"}, since : Nat]

Stacks == [undo : Seq(Commands), redo : Seq(Commands), queued : Seq(Commands), busy : BOOLEAN,
           balance : Int, mark : Nat]

Tabs == [path : Paths, disk : Nat, hash : SUBSET Int, gen : Nat, rev : Nat, conflict : BOOLEAN]

Dialogs == [kind : {"replace", "conflict", "close"}, path : Paths, ver : Nat]

Contents == [ver : Nat, content : SUBSET Int, origin : {"none", "saved", "failed", "outside"}]

Bounds == [edits : Nat, commands : Int, disturbances : Nat, versions : Nat]

(* The types of the state. *)
SessionTypes ==
    /\ exec \in Documents
    /\ inflight \in Seq(Operations)
    /\ used \in Bounds
    /\ view \in Views

HistoryTypes ==
    /\ stack \in Stacks
    /\ step \in Steps \cup {None}

DiskTypes ==
    /\ ws \in Tabs
    /\ job \in Jobs \cup {None}
    /\ worker \in Workers \cup {None}
    /\ files \in [Paths -> Contents]
    /\ dialogs \subseteq Dialogs
    /\ agreed \subseteq Nat

WorkspaceTypes == SessionTypes /\ HistoryTypes /\ DiskTypes /\ later \in Seq(Closures)

-----------------------------------------------------------------------------------
(* The closures and operations a step of the history waits for. *)
HistoryClosure(c) == c.kind \in {"waited", "inverse"} \/ (c.kind = "outcome" /\ c.op.kind # "edit")

HistoryOperation(op) == op.kind # "edit"

SentByStep(op) == op.kind = step.direction /\ op.edit = step.command.id /\ op.gen = step.command.gen

(* Each of them belongs to the step under way, at the point it has reached. *)
ClosuresBelong ==
    \A i \in 1 .. Len(later) : HistoryClosure(later[i]) =>
        /\ step # None
        /\ later[i].kind = "waited" => step.pc = "waited"
        /\ later[i].kind = "inverse" => step.pc = "prepared"
        /\ later[i].kind = "outcome" => step.pc = "sent" /\ SentByStep(later[i].op)

OperationsBelong ==
    \A i \in 1 .. Len(inflight) : HistoryOperation(inflight[i]) =>
        step # None /\ step.pc = "sent" /\ SentByStep(inflight[i])

(* There is one of them at most, *)
OneHistoryClosure ==
    \A i, j \in 1 .. Len(later) : HistoryClosure(later[i]) /\ HistoryClosure(later[j]) => i = j

OneHistoryOperation ==
    \A i, j \in 1 .. Len(inflight) : HistoryOperation(inflight[i]) /\ HistoryOperation(inflight[j]) => i = j

OneOrTheOther ==
    \A i \in 1 .. Len(inflight), j \in 1 .. Len(later) :
        ~(HistoryOperation(inflight[i]) /\ HistoryClosure(later[j]))

(* and exactly one when no goroutine has yet to answer. *)
StepIsAnswered ==
    step # None =>
        \/ step.pc \in {"wait", "inverse"}
        \/ \E i \in 1 .. Len(later) : HistoryClosure(later[i])
        \/ \E i \in 1 .. Len(inflight) : HistoryOperation(inflight[i])

BusyIsStep == stack.busy <=> step # None

Tokens ==
    /\ ClosuresBelong /\ OperationsBelong
    /\ OneHistoryClosure /\ OneHistoryOperation /\ OneOrTheOther
    /\ StepIsAnswered /\ BusyIsStep

(* The result of a save, in a closure. *)
NoSaved == \A i \in 1 .. Len(later) : later[i].kind # "saved"

(* A save has a worker or a result, one of them, and the tab knows of it as   *)
(* long as it is open.                                                        *)
OneSaved == \A i, j \in 1 .. Len(later) : later[i].kind = "saved" /\ later[j].kind = "saved" => i = j

WorkerOrSaved == worker # None => NoSaved

SaveIsKnown == tab = "open" /\ job = None => worker = None /\ NoSaved

SaveIsAnswered == job # None => worker # None \/ ~NoSaved

ClosedHasNone == tab # "open" => job = None /\ dialogs = {}

SaveTokens == OneSaved /\ WorkerOrSaved /\ SaveIsKnown /\ SaveIsAnswered /\ ClosedHasNone

(* The save of request r is under way, or its result is. *)
Held(r) ==
    \/ worker # None /\ worker.request = r
    \/ \E i \in 1 .. Len(later) : later[i].kind = "saved" /\ later[i].request = r

(* It has replaced the file with version v, as far as it knows. *)
Wrote(r, v) ==
    \/ worker # None /\ worker.pc = "verify" /\ worker.request = r /\ worker.seen = v
    \/ \E i \in 1 .. Len(later) :
          /\ later[i].kind = "saved" /\ later[i].request = r
          /\ later[i].result.outcome = "saved" /\ later[i].result.ver = v

(* The document of attachment gen had this content at revision rev. *)
Captured(gen, rev, content) ==
    /\ gen <= view.gen
    /\ gen = view.gen => rev <= exec.rev /\ (rev = exec.rev => exec.content = content)

Captures ==
    /\ Captured(ws.gen, ws.rev, ws.hash)
    /\ \A r \in Requests : Held(r) => Captured(r.gen, r.rev, r.content)
(* Updates of one field, and of two. *)
LEMMA DocumentField ==
    ASSUME NEW d \in Documents, NEW rev \in Nat, NEW content \in SUBSET Int
    PROVE  /\ [d EXCEPT !.rev = rev] \in Documents
           /\ [d EXCEPT !.content = content] \in Documents
BY DEF Documents

LEMMA DocumentFields ==
    ASSUME NEW d \in Documents, NEW rev \in Nat, NEW content \in SUBSET Int
    PROVE  [d EXCEPT !.rev = rev, !.content = content] \in Documents
<1>1. PICK e \in Documents : e = [d EXCEPT !.rev = rev]
  BY DocumentField
<1>2. [d EXCEPT !.rev = rev, !.content = content] = [e EXCEPT !.content = content]
  BY <1>1
<1> QED
  BY <1>2, DocumentField

LEMMA ViewField ==
    ASSUME NEW v \in Views, NEW gen \in Nat, NEW gesture \in {"none", "stroke", "move"}
    PROVE  /\ [v EXCEPT !.gen = gen] \in Views
           /\ [v EXCEPT !.gesture = gesture] \in Views
BY DEF Views

LEMMA ViewFields ==
    ASSUME NEW v \in Views
    PROVE  [v EXCEPT !.gen = @ + 1, !.gesture = "none"] \in Views
<1>1. v.gen + 1 \in Nat
  BY DEF Views
<1>2. PICK u \in Views : u = [v EXCEPT !.gen = v.gen + 1]
  BY <1>1, ViewField
<1>3. [v EXCEPT !.gen = v.gen + 1, !.gesture = "none"] = [u EXCEPT !.gesture = "none"]
  BY <1>2
<1> QED
  BY <1>3, ViewField

LEMMA BoundField ==
    ASSUME NEW u \in Bounds, NEW n \in Nat
    PROVE  /\ [u EXCEPT !.disturbances = n] \in Bounds
           /\ [u EXCEPT !.versions = n] \in Bounds
BY DEF Bounds

LEMMA BoundFields ==
    ASSUME NEW u \in Bounds, NEW m \in Nat, NEW n \in Nat
    PROVE  /\ [u EXCEPT !.disturbances = m, !.versions = n] \in Bounds
           /\ [u EXCEPT !.versions = n, !.disturbances = m] \in Bounds
<1>1. PICK v \in Bounds : v = [u EXCEPT !.disturbances = m]
  BY BoundField
<1>2. [u EXCEPT !.disturbances = m, !.versions = n] = [v EXCEPT !.versions = n]
  BY <1>1
<1>3. PICK w \in Bounds : w = [u EXCEPT !.versions = n]
  BY BoundField
<1>4. [u EXCEPT !.versions = n, !.disturbances = m] = [w EXCEPT !.disturbances = m]
  BY <1>3
<1> QED
  BY <1>2, <1>4, BoundField

(* What the operators of the specification return. *)
LEMMA SpendTypes ==
    ASSUME used \in Bounds, NEW b \in {"edits", "commands", "disturbances", "versions"}, Spend(b)
    PROVE  used' \in Bounds
BY DEF Bounds, Spend

LEMMA CommandTypes == ASSUME used \in Bounds, Command PROVE used' \in Bounds
BY SpendTypes DEF Command

LEMMA DisturbTypes == ASSUME used \in Bounds, Disturb PROVE used' \in Bounds
BY SpendTypes DEF Disturb

LEMMA SaveUsedTypes ==
    ASSUME used \in Bounds, NEW w, NEW s, NEW j, NEW path, NEW expected, NEW rebind, NEW closing,
           SaveAtPath(w, s, j, path, expected, rebind, closing)
    PROVE  used' \in Bounds
BY CommandTypes DEF SaveAtPath

LEMMA RefreshedTypes == ASSUME view \in Views, exec \in Documents PROVE Refreshed(view) \in Views
BY DEF Refreshed, Views, Documents

LEMMA OperationTypes ==
    ASSUME view \in Views, NEW kind \in {"edit", "undo", "redo"}, NEW edit \in Nat
    PROVE  Operation(kind, edit) \in Operations
BY DEF Operation, Operations, Views

LEMMA ExecTypes ==
    ASSUME WorkspaceTypes, Next
    PROVE  exec' \in Documents
<1> USE DEF history, saving, disk
<1>1. ASSUME NEW accepted \in BOOLEAN, Settle(accepted) PROVE exec' \in Documents
  <2>1. exec \in Documents /\ inflight \in Seq(Operations) /\ inflight # <<>>
    BY <1>1 DEF Settle, WorkspaceTypes, SessionTypes, HasUnacknowledgedOperations
  <2>2. Head(inflight) \in Operations
    BY <2>1
  <2>3. PICK op \in Operations : op = Head(inflight)
    BY <2>2
  <2>4. op.edit \in Int /\ exec.rev + 1 \in Nat /\ exec.content \in SUBSET Int
    BY <2>1 DEF Operations, Documents
  <2>5. PICK c \in SUBSET Int :
           c = IF op.kind = "undo" THEN exec.content \ {op.edit} ELSE exec.content \cup {op.edit}
    BY <2>4
  <2>6. exec' = exec \/ exec' = [exec EXCEPT !.rev = exec.rev + 1, !.content = c]
    BY <1>1, <2>3, <2>5 DEF Settle
  <2> QED
    BY <2>1, <2>4, <2>6, DocumentFields
<1>2. ASSUME NEW overwritten \in {{}} \cup {{e} : e \in 1 .. used.edits}, RemoteEdit(overwritten)
      PROVE  exec' \in Documents
  BY <1>2 DEF RemoteEdit, WorkspaceTypes, SessionTypes, Documents, Remote, Bounds
<1>3. ASSUME NEW path \in Paths, NEW deleted \in BOOLEAN, OutsideWrite(path, deleted)
      PROVE  exec' \in Documents
  BY <1>3 DEF OutsideWrite, WorkspaceTypes, SessionTypes
<1>4. ASSUME NEW kind \in {"stroke", "move"}, BeginGesture(kind) PROVE exec' \in Documents
  BY <1>4 DEF BeginGesture, WorkspaceTypes, SessionTypes
<1>5. ASSUME NEW changed \in BOOLEAN, CommitOperation(changed) PROVE exec' \in Documents
  BY <1>5 DEF CommitOperation, WorkspaceTypes, SessionTypes
<1>6. ASSUME NEW content \in {exec.content, {}}, Reattach(content) PROVE exec' \in Documents
  BY <1>6 DEF Reattach, WorkspaceTypes, SessionTypes, Documents
<1>7. ASSUME NEW direction \in {"undo", "redo"}, BeginHistoryStep(direction) PROVE exec' \in Documents
  BY <1>7 DEF BeginHistoryStep, WorkspaceTypes, SessionTypes
<1>8. CASE Save
  BY <1>8 DEF Save, WorkspaceTypes, SessionTypes
<1>9. ASSUME NEW path \in Paths, SaveAs(path) PROVE exec' \in Documents
  BY <1>9 DEF SaveAs, WorkspaceTypes, SessionTypes
<1>10. ASSUME NEW d \in dialogs, ConfirmReplace(d) PROVE exec' \in Documents
  BY <1>10 DEF ConfirmReplace, WorkspaceTypes, SessionTypes
<1>11. ASSUME NEW d \in dialogs, ConfirmOverwrite(d) PROVE exec' \in Documents
  BY <1>11 DEF ConfirmOverwrite, WorkspaceTypes, SessionTypes
<1>12. ASSUME NEW d \in dialogs, CancelDialog(d) PROVE exec' \in Documents
  BY <1>12 DEF CancelDialog, WorkspaceTypes, SessionTypes
<1>13. CASE CloseTab
  BY <1>13 DEF CloseTab, WorkspaceTypes, SessionTypes
<1>14. ASSUME NEW d \in dialogs, CloseSaving(d) PROVE exec' \in Documents
  BY <1>14 DEF CloseSaving, WorkspaceTypes, SessionTypes
<1>15. ASSUME NEW d \in dialogs, CloseDiscarding(d) PROVE exec' \in Documents
  BY <1>15 DEF CloseDiscarding, WorkspaceTypes, SessionTypes
<1>16. CASE HistoryWaitOver
  BY <1>16 DEF HistoryWaitOver, WorkspaceTypes, SessionTypes
<1>17. CASE PrepareHistoryInverse
  BY <1>17 DEF PrepareHistoryInverse, WorkspaceTypes, SessionTypes
<1>18. ASSUME NEW outcome \in {"ok", "error", "declined"}, WorkerStage(outcome) PROVE exec' \in Documents
  BY <1>18 DEF WorkerStage, WorkspaceTypes, SessionTypes
<1>19. CASE WorkerCheck
  BY <1>19 DEF WorkerCheck, WorkspaceTypes, SessionTypes
<1>20. ASSUME NEW outcome \in {"replaced", "refused", "unsynced"}, WorkerReplace(outcome)
       PROVE  exec' \in Documents
  BY <1>20 DEF WorkerReplace, WorkspaceTypes, SessionTypes
<1>21. CASE WorkerVerify
  BY <1>21 DEF WorkerVerify, WorkspaceTypes, SessionTypes
<1>22. ASSUME NEW read \in BOOLEAN, WorkerCaptureConflict(read) PROVE exec' \in Documents
  BY <1>22 DEF WorkerCaptureConflict, WorkspaceTypes, SessionTypes
<1>23. CASE ProcessCollaborationUpdates
  BY <1>23 DEF ProcessCollaborationUpdates, WorkspaceTypes, SessionTypes
<1>24. CASE RunHistoryWaited
  BY <1>24 DEF RunHistoryWaited, WorkspaceTypes, SessionTypes
<1>25. CASE RunHistoryInverse
  BY <1>25 DEF RunHistoryInverse, WorkspaceTypes, SessionTypes
<1>26. CASE RunEditOutcome
  BY <1>26 DEF RunEditOutcome, WorkspaceTypes, SessionTypes
<1>27. CASE RunHistoryOutcome
  BY <1>27 DEF RunHistoryOutcome, WorkspaceTypes, SessionTypes
<1>28. CASE FinishSave
  BY <1>28 DEF FinishSave, WorkspaceTypes, SessionTypes
<1> QED
  BY <1>1, <1>2, <1>3, <1>4, <1>5, <1>6, <1>7, <1>8, <1>9, <1>10, <1>11, <1>12, <1>13,
     <1>14, <1>15, <1>16, <1>17, <1>18, <1>19, <1>20, <1>21, <1>22, <1>23, <1>24, <1>25,
     <1>26, <1>27, <1>28
     DEF Next, Environment, User, Background, UIThread

LEMMA UsedTypes ==
    ASSUME WorkspaceTypes, Next
    PROVE  used' \in Bounds
<1> USE DEF history, saving, disk
<1>1. ASSUME NEW accepted \in BOOLEAN, Settle(accepted) PROVE used' \in Bounds
  BY <1>1, CommandTypes, DisturbTypes, SaveUsedTypes DEF Settle, WorkspaceTypes, SessionTypes
<1>2. ASSUME NEW overwritten \in {{}} \cup {{e} : e \in 1 .. used.edits}, RemoteEdit(overwritten)
      PROVE  used' \in Bounds
  BY <1>2, CommandTypes, DisturbTypes, SaveUsedTypes DEF RemoteEdit, WorkspaceTypes, SessionTypes
<1>3. ASSUME NEW path \in Paths, NEW deleted \in BOOLEAN, OutsideWrite(path, deleted)
      PROVE  used' \in Bounds
  <2>1. used \in Bounds /\ used.disturbances + 1 \in Nat /\ used.versions + 1 \in Nat
    BY DEF WorkspaceTypes, SessionTypes, Bounds
  <2> QED
    BY <1>3, <2>1, BoundFields DEF OutsideWrite
<1>4. ASSUME NEW kind \in {"stroke", "move"}, BeginGesture(kind) PROVE used' \in Bounds
  BY <1>4, CommandTypes, DisturbTypes, SaveUsedTypes DEF BeginGesture, WorkspaceTypes, SessionTypes
<1>5. ASSUME NEW changed \in BOOLEAN, CommitOperation(changed) PROVE used' \in Bounds
  BY <1>5, SpendTypes DEF CommitOperation, WorkspaceTypes, SessionTypes, Bounds
<1>6. ASSUME NEW content \in {exec.content, {}}, Reattach(content) PROVE used' \in Bounds
  BY <1>6, CommandTypes, DisturbTypes, SaveUsedTypes DEF Reattach, WorkspaceTypes, SessionTypes
<1>7. ASSUME NEW direction \in {"undo", "redo"}, BeginHistoryStep(direction) PROVE used' \in Bounds
  BY <1>7, CommandTypes DEF BeginHistoryStep, WorkspaceTypes, SessionTypes
<1>8. CASE Save
  BY <1>8, CommandTypes, DisturbTypes, SaveUsedTypes DEF Save, WorkspaceTypes, SessionTypes
<1>9. ASSUME NEW path \in Paths, SaveAs(path) PROVE used' \in Bounds
  BY <1>9, CommandTypes, DisturbTypes, SaveUsedTypes DEF SaveAs, WorkspaceTypes, SessionTypes
<1>10. ASSUME NEW d \in dialogs, ConfirmReplace(d) PROVE used' \in Bounds
  BY <1>10, CommandTypes, DisturbTypes, SaveUsedTypes DEF ConfirmReplace, WorkspaceTypes, SessionTypes
<1>11. ASSUME NEW d \in dialogs, ConfirmOverwrite(d) PROVE used' \in Bounds
  BY <1>11, CommandTypes, DisturbTypes, SaveUsedTypes DEF ConfirmOverwrite, WorkspaceTypes, SessionTypes
<1>12. ASSUME NEW d \in dialogs, CancelDialog(d) PROVE used' \in Bounds
  BY <1>12, CommandTypes, DisturbTypes, SaveUsedTypes DEF CancelDialog, WorkspaceTypes, SessionTypes
<1>13. CASE CloseTab
  BY <1>13, CommandTypes, DisturbTypes, SaveUsedTypes DEF CloseTab, WorkspaceTypes, SessionTypes
<1>14. ASSUME NEW d \in dialogs, CloseSaving(d) PROVE used' \in Bounds
  BY <1>14, CommandTypes, DisturbTypes, SaveUsedTypes DEF CloseSaving, WorkspaceTypes, SessionTypes
<1>15. ASSUME NEW d \in dialogs, CloseDiscarding(d) PROVE used' \in Bounds
  BY <1>15, CommandTypes, DisturbTypes, SaveUsedTypes DEF CloseDiscarding, WorkspaceTypes, SessionTypes
<1>16. CASE HistoryWaitOver
  BY <1>16, CommandTypes, DisturbTypes, SaveUsedTypes DEF HistoryWaitOver, WorkspaceTypes, SessionTypes
<1>17. CASE PrepareHistoryInverse
  BY <1>17, CommandTypes, DisturbTypes, SaveUsedTypes
     DEF PrepareHistoryInverse, WorkspaceTypes, SessionTypes
<1>18. ASSUME NEW outcome \in {"ok", "error", "declined"}, WorkerStage(outcome) PROVE used' \in Bounds
  BY <1>18, CommandTypes, DisturbTypes, SaveUsedTypes DEF WorkerStage, WorkspaceTypes, SessionTypes
<1>19. CASE WorkerCheck
  BY <1>19, CommandTypes, DisturbTypes, SaveUsedTypes DEF WorkerCheck, WorkspaceTypes, SessionTypes
<1>20. ASSUME NEW outcome \in {"replaced", "refused", "unsynced"}, WorkerReplace(outcome)
       PROVE  used' \in Bounds
  <2>1. used \in Bounds /\ {used.disturbances, used.versions} \subseteq Nat
    BY DEF WorkspaceTypes, SessionTypes, Bounds
  <2>2. PICK m \in Nat : m = IF outcome = "replaced" THEN used.disturbances ELSE used.disturbances + 1
    BY <2>1
  <2>3. PICK n \in Nat : n = IF outcome = "refused" THEN used.versions ELSE used.versions + 1
    BY <2>1
  <2>4. used' = [used EXCEPT !.versions = n, !.disturbances = m]
    BY <1>20, <2>2, <2>3 DEF WorkerReplace
  <2> QED
    BY <2>1, <2>4, BoundFields
<1>21. CASE WorkerVerify
  BY <1>21, CommandTypes, DisturbTypes, SaveUsedTypes DEF WorkerVerify, WorkspaceTypes, SessionTypes
<1>22. ASSUME NEW read \in BOOLEAN, WorkerCaptureConflict(read) PROVE used' \in Bounds
  BY <1>22, CommandTypes, DisturbTypes, SaveUsedTypes
     DEF WorkerCaptureConflict, WorkspaceTypes, SessionTypes
<1>23. CASE ProcessCollaborationUpdates
  BY <1>23, CommandTypes, DisturbTypes, SaveUsedTypes
     DEF ProcessCollaborationUpdates, WorkspaceTypes, SessionTypes
<1>24. CASE RunHistoryWaited
  BY <1>24, CommandTypes, DisturbTypes, SaveUsedTypes DEF RunHistoryWaited, WorkspaceTypes, SessionTypes
<1>25. CASE RunHistoryInverse
  BY <1>25, CommandTypes, DisturbTypes, SaveUsedTypes DEF RunHistoryInverse, WorkspaceTypes, SessionTypes
<1>26. CASE RunEditOutcome
  BY <1>26, CommandTypes, DisturbTypes, SaveUsedTypes DEF RunEditOutcome, WorkspaceTypes, SessionTypes
<1>27. CASE RunHistoryOutcome
  BY <1>27, CommandTypes, DisturbTypes, SaveUsedTypes DEF RunHistoryOutcome, WorkspaceTypes, SessionTypes
<1>28. CASE FinishSave
  <2>1. used \in Bounds
    BY DEF WorkspaceTypes, SessionTypes
  <2> QED
    BY <2>1, <1>28, SaveUsedTypes DEF FinishSave, FinishSaved, FinishFailed, Dispose
<1> QED
  BY <1>1, <1>2, <1>3, <1>4, <1>5, <1>6, <1>7, <1>8, <1>9, <1>10, <1>11, <1>12, <1>13,
     <1>14, <1>15, <1>16, <1>17, <1>18, <1>19, <1>20, <1>21, <1>22, <1>23, <1>24, <1>25,
     <1>26, <1>27, <1>28
     DEF Next, Environment, User, Background, UIThread

LEMMA ViewTypes ==
    ASSUME WorkspaceTypes, Next
    PROVE  view' \in Views
<1> USE DEF history, saving, disk
<1>1. ASSUME NEW accepted \in BOOLEAN, Settle(accepted) PROVE view' \in Views
  BY <1>1, RefreshedTypes DEF Settle, WorkspaceTypes, SessionTypes
<1>2. ASSUME NEW overwritten \in {{}} \cup {{e} : e \in 1 .. used.edits}, RemoteEdit(overwritten)
      PROVE  view' \in Views
  BY <1>2, RefreshedTypes DEF RemoteEdit, WorkspaceTypes, SessionTypes
<1>3. ASSUME NEW path \in Paths, NEW deleted \in BOOLEAN, OutsideWrite(path, deleted)
      PROVE  view' \in Views
  BY <1>3, RefreshedTypes DEF OutsideWrite, WorkspaceTypes, SessionTypes
<1>4. ASSUME NEW kind \in {"stroke", "move"}, BeginGesture(kind) PROVE view' \in Views
  BY <1>4 DEF BeginGesture, WorkspaceTypes, SessionTypes, Views
<1>5. ASSUME NEW changed \in BOOLEAN, CommitOperation(changed) PROVE view' \in Views
  BY <1>5 DEF CommitOperation, WorkspaceTypes, SessionTypes, Views
<1>6. ASSUME NEW content \in {exec.content, {}}, Reattach(content) PROVE view' \in Views
  BY <1>6 DEF Reattach, WorkspaceTypes, SessionTypes, Views, Documents, Bounds
<1>7. ASSUME NEW direction \in {"undo", "redo"}, BeginHistoryStep(direction) PROVE view' \in Views
  BY <1>7, RefreshedTypes DEF BeginHistoryStep, WorkspaceTypes, SessionTypes
<1>8. CASE Save
  BY <1>8, RefreshedTypes DEF Save, WorkspaceTypes, SessionTypes
<1>9. ASSUME NEW path \in Paths, SaveAs(path) PROVE view' \in Views
  BY <1>9, RefreshedTypes DEF SaveAs, WorkspaceTypes, SessionTypes
<1>10. ASSUME NEW d \in dialogs, ConfirmReplace(d) PROVE view' \in Views
  BY <1>10, RefreshedTypes DEF ConfirmReplace, WorkspaceTypes, SessionTypes
<1>11. ASSUME NEW d \in dialogs, ConfirmOverwrite(d) PROVE view' \in Views
  BY <1>11, RefreshedTypes DEF ConfirmOverwrite, WorkspaceTypes, SessionTypes
<1>12. ASSUME NEW d \in dialogs, CancelDialog(d) PROVE view' \in Views
  BY <1>12, RefreshedTypes DEF CancelDialog, WorkspaceTypes, SessionTypes
<1>13. CASE CloseTab
  BY <1>13, ViewFields DEF CloseTab, Dispose, WorkspaceTypes, SessionTypes
<1>14. ASSUME NEW d \in dialogs, CloseSaving(d) PROVE view' \in Views
  BY <1>14, RefreshedTypes DEF CloseSaving, WorkspaceTypes, SessionTypes
<1>15. ASSUME NEW d \in dialogs, CloseDiscarding(d) PROVE view' \in Views
  BY <1>15, ViewFields DEF CloseDiscarding, Dispose, WorkspaceTypes, SessionTypes
<1>16. CASE HistoryWaitOver
  BY <1>16, RefreshedTypes DEF HistoryWaitOver, WorkspaceTypes, SessionTypes
<1>17. CASE PrepareHistoryInverse
  BY <1>17, RefreshedTypes DEF PrepareHistoryInverse, WorkspaceTypes, SessionTypes
<1>18. ASSUME NEW outcome \in {"ok", "error", "declined"}, WorkerStage(outcome) PROVE view' \in Views
  BY <1>18, RefreshedTypes DEF WorkerStage, WorkspaceTypes, SessionTypes
<1>19. CASE WorkerCheck
  BY <1>19, RefreshedTypes DEF WorkerCheck, WorkspaceTypes, SessionTypes
<1>20. ASSUME NEW outcome \in {"replaced", "refused", "unsynced"}, WorkerReplace(outcome)
       PROVE  view' \in Views
  BY <1>20, RefreshedTypes DEF WorkerReplace, WorkspaceTypes, SessionTypes
<1>21. CASE WorkerVerify
  BY <1>21, RefreshedTypes DEF WorkerVerify, WorkspaceTypes, SessionTypes
<1>22. ASSUME NEW read \in BOOLEAN, WorkerCaptureConflict(read) PROVE view' \in Views
  BY <1>22, RefreshedTypes DEF WorkerCaptureConflict, WorkspaceTypes, SessionTypes
<1>23. CASE ProcessCollaborationUpdates
  BY <1>23, RefreshedTypes DEF ProcessCollaborationUpdates, WorkspaceTypes, SessionTypes
<1>24. CASE RunHistoryWaited
  BY <1>24, RefreshedTypes DEF RunHistoryWaited, WorkspaceTypes, SessionTypes
<1>25. CASE RunHistoryInverse
  BY <1>25, RefreshedTypes DEF RunHistoryInverse, WorkspaceTypes, SessionTypes
<1>26. CASE RunEditOutcome
  BY <1>26, RefreshedTypes DEF RunEditOutcome, WorkspaceTypes, SessionTypes
<1>27. CASE RunHistoryOutcome
  BY <1>27, RefreshedTypes DEF RunHistoryOutcome, WorkspaceTypes, SessionTypes
<1>28. CASE FinishSave
  BY <1>28, ViewFields DEF FinishSave, FinishSaved, FinishFailed, Dispose, WorkspaceTypes, SessionTypes
<1> QED
  BY <1>1, <1>2, <1>3, <1>4, <1>5, <1>6, <1>7, <1>8, <1>9, <1>10, <1>11, <1>12, <1>13,
     <1>14, <1>15, <1>16, <1>17, <1>18, <1>19, <1>20, <1>21, <1>22, <1>23, <1>24, <1>25,
     <1>26, <1>27, <1>28
     DEF Next, Environment, User, Background, UIThread
(* A stack with some fields changed is a stack with those fields. *)
IsStack(t, u, r, q, b, n, m) ==
    /\ t \in Stacks
    /\ t.undo = u /\ t.redo = r /\ t.queued = q /\ t.busy = b /\ t.balance = n /\ t.mark = m

LEMMA StackUndo ==
    ASSUME NEW s \in Stacks, NEW u \in Seq(Commands)
    PROVE  IsStack([s EXCEPT !.undo = u], u, s.redo, s.queued, s.busy, s.balance, s.mark)
BY DEF Stacks, IsStack

LEMMA StackRedo ==
    ASSUME NEW s \in Stacks, NEW r \in Seq(Commands)
    PROVE  IsStack([s EXCEPT !.redo = r], s.undo, r, s.queued, s.busy, s.balance, s.mark)
BY DEF Stacks, IsStack

LEMMA StackQueued ==
    ASSUME NEW s \in Stacks, NEW q \in Seq(Commands)
    PROVE  IsStack([s EXCEPT !.queued = q], s.undo, s.redo, q, s.busy, s.balance, s.mark)
BY DEF Stacks, IsStack

LEMMA StackBusy ==
    ASSUME NEW s \in Stacks, NEW b \in BOOLEAN
    PROVE  IsStack([s EXCEPT !.busy = b], s.undo, s.redo, s.queued, b, s.balance, s.mark)
BY DEF Stacks, IsStack

LEMMA StackBalance ==
    ASSUME NEW s \in Stacks, NEW n \in Int
    PROVE  IsStack([s EXCEPT !.balance = n], s.undo, s.redo, s.queued, s.busy, n, s.mark)
BY DEF Stacks, IsStack

LEMMA StackMark ==
    ASSUME NEW s \in Stacks, NEW m \in Nat
    PROVE  IsStack([s EXCEPT !.mark = m], s.undo, s.redo, s.queued, s.busy, s.balance, m)
BY DEF Stacks, IsStack

LEMMA StackPushed ==
    ASSUME NEW s \in Stacks, NEW u \in Seq(Commands), NEW r \in Seq(Commands), NEW n \in Int
    PROVE  IsStack([s EXCEPT !.undo = u, !.redo = r, !.balance = n], u, r, s.queued, s.busy, n, s.mark)
<1>1. PICK s1 \in Stacks :
         s1 = [s EXCEPT !.undo = u] /\ IsStack(s1, u, s.redo, s.queued, s.busy, s.balance, s.mark)
  <2>1. IsStack([s EXCEPT !.undo = u], u, s.redo, s.queued, s.busy, s.balance, s.mark)
    BY StackUndo
  <2> QED
    BY <2>1 DEF IsStack
<1>2. PICK s2 \in Stacks :
         s2 = [s1 EXCEPT !.redo = r] /\ IsStack(s2, s1.undo, r, s1.queued, s1.busy, s1.balance, s1.mark)
  <2>1. IsStack([s1 EXCEPT !.redo = r], s1.undo, r, s1.queued, s1.busy, s1.balance, s1.mark)
    BY StackRedo
  <2> QED
    BY <2>1 DEF IsStack
<1>3. [s EXCEPT !.undo = u, !.redo = r, !.balance = n] = [s2 EXCEPT !.balance = n]
  BY <1>1, <1>2
<1>4. IsStack([s2 EXCEPT !.balance = n], s2.undo, s2.redo, s2.queued, s2.busy, n, s2.mark)
  BY StackBalance
<1> QED
  BY <1>1, <1>2, <1>3, <1>4 DEF IsStack

LEMMA StackMoved ==
    ASSUME NEW s \in Stacks, NEW r \in Seq(Commands), NEW u \in Seq(Commands), NEW n \in Int
    PROVE  IsStack([s EXCEPT !.redo = r, !.undo = u, !.balance = n], u, r, s.queued, s.busy, n, s.mark)
<1>1. PICK s1 \in Stacks :
         s1 = [s EXCEPT !.redo = r] /\ IsStack(s1, s.undo, r, s.queued, s.busy, s.balance, s.mark)
  <2>1. IsStack([s EXCEPT !.redo = r], s.undo, r, s.queued, s.busy, s.balance, s.mark)
    BY StackRedo
  <2> QED
    BY <2>1 DEF IsStack
<1>2. PICK s2 \in Stacks :
         s2 = [s1 EXCEPT !.undo = u] /\ IsStack(s2, u, s1.redo, s1.queued, s1.busy, s1.balance, s1.mark)
  <2>1. IsStack([s1 EXCEPT !.undo = u], u, s1.redo, s1.queued, s1.busy, s1.balance, s1.mark)
    BY StackUndo
  <2> QED
    BY <2>1 DEF IsStack
<1>3. [s EXCEPT !.redo = r, !.undo = u, !.balance = n] = [s2 EXCEPT !.balance = n]
  BY <1>1, <1>2
<1>4. IsStack([s2 EXCEPT !.balance = n], s2.undo, s2.redo, s2.queued, s2.busy, n, s2.mark)
  BY StackBalance
<1> QED
  BY <1>1, <1>2, <1>3, <1>4 DEF IsStack

LEMMA StackFlushed ==
    ASSUME NEW s \in Stacks, NEW u \in Seq(Commands), NEW r \in Seq(Commands), NEW n \in Int, NEW q \in Seq(Commands)
    PROVE  IsStack([s EXCEPT !.undo = u, !.redo = r, !.balance = n, !.queued = q], u, r, q, s.busy, n, s.mark)
<1>1. PICK s1 \in Stacks :
         s1 = [s EXCEPT !.undo = u] /\ IsStack(s1, u, s.redo, s.queued, s.busy, s.balance, s.mark)
  <2>1. IsStack([s EXCEPT !.undo = u], u, s.redo, s.queued, s.busy, s.balance, s.mark)
    BY StackUndo
  <2> QED
    BY <2>1 DEF IsStack
<1>2. PICK s2 \in Stacks :
         s2 = [s1 EXCEPT !.redo = r] /\ IsStack(s2, s1.undo, r, s1.queued, s1.busy, s1.balance, s1.mark)
  <2>1. IsStack([s1 EXCEPT !.redo = r], s1.undo, r, s1.queued, s1.busy, s1.balance, s1.mark)
    BY StackRedo
  <2> QED
    BY <2>1 DEF IsStack
<1>3. PICK s3 \in Stacks :
         s3 = [s2 EXCEPT !.balance = n] /\ IsStack(s3, s2.undo, s2.redo, s2.queued, s2.busy, n, s2.mark)
  <2>1. IsStack([s2 EXCEPT !.balance = n], s2.undo, s2.redo, s2.queued, s2.busy, n, s2.mark)
    BY StackBalance
  <2> QED
    BY <2>1 DEF IsStack
<1>4. [s EXCEPT !.undo = u, !.redo = r, !.balance = n, !.queued = q] = [s3 EXCEPT !.queued = q]
  BY <1>1, <1>2, <1>3
<1>5. IsStack([s3 EXCEPT !.queued = q], s3.undo, s3.redo, q, s3.busy, s3.balance, s3.mark)
  BY StackQueued
<1> QED
  BY <1>1, <1>2, <1>3, <1>4, <1>5 DEF IsStack

LEMMA StackDisposed ==
    ASSUME NEW s \in Stacks, NEW u \in Seq(Commands), NEW r \in Seq(Commands), NEW q \in Seq(Commands)
    PROVE  IsStack([s EXCEPT !.undo = u, !.redo = r, !.queued = q], u, r, q, s.busy, s.balance, s.mark)
<1>1. PICK s1 \in Stacks :
         s1 = [s EXCEPT !.undo = u] /\ IsStack(s1, u, s.redo, s.queued, s.busy, s.balance, s.mark)
  <2>1. IsStack([s EXCEPT !.undo = u], u, s.redo, s.queued, s.busy, s.balance, s.mark)
    BY StackUndo
  <2> QED
    BY <2>1 DEF IsStack
<1>2. PICK s2 \in Stacks :
         s2 = [s1 EXCEPT !.redo = r] /\ IsStack(s2, s1.undo, r, s1.queued, s1.busy, s1.balance, s1.mark)
  <2>1. IsStack([s1 EXCEPT !.redo = r], s1.undo, r, s1.queued, s1.busy, s1.balance, s1.mark)
    BY StackRedo
  <2> QED
    BY <2>1 DEF IsStack
<1>3. [s EXCEPT !.undo = u, !.redo = r, !.queued = q] = [s2 EXCEPT !.queued = q]
  BY <1>1, <1>2
<1>4. IsStack([s2 EXCEPT !.queued = q], s2.undo, s2.redo, q, s2.busy, s2.balance, s2.mark)
  BY StackQueued
<1> QED
  BY <1>1, <1>2, <1>3, <1>4 DEF IsStack

LEMMA StackBalanced ==
    ASSUME NEW s \in Stacks, NEW n \in Int, NEW m \in Nat
    PROVE  IsStack([s EXCEPT !.balance = n, !.mark = m], s.undo, s.redo, s.queued, s.busy, n, m)
<1>1. PICK s1 \in Stacks :
         s1 = [s EXCEPT !.balance = n] /\ IsStack(s1, s.undo, s.redo, s.queued, s.busy, n, s.mark)
  <2>1. IsStack([s EXCEPT !.balance = n], s.undo, s.redo, s.queued, s.busy, n, s.mark)
    BY StackBalance
  <2> QED
    BY <2>1 DEF IsStack
<1>2. [s EXCEPT !.balance = n, !.mark = m] = [s1 EXCEPT !.mark = m]
  BY <1>1
<1>3. IsStack([s1 EXCEPT !.mark = m], s1.undo, s1.redo, s1.queued, s1.busy, s1.balance, m)
  BY StackMark
<1> QED
  BY <1>1, <1>2, <1>3 DEF IsStack

(* What the operators on the command stack return. *)
LEMMA PushBusy ==
    ASSUME NEW s \in Stacks, NEW c \in Commands, s.busy
    PROVE  IsStack(Push(s, c), s.undo, s.redo, Append(s.queued, c), s.busy, s.balance, s.mark)
<1>1. Append(s.queued, c) \in Seq(Commands)
  BY DEF Stacks
<1> QED
  BY <1>1, StackQueued DEF Push

LEMMA PushIdle ==
    ASSUME NEW s \in Stacks, NEW c \in Commands, ~s.busy
    PROVE  IsStack(Push(s, c), Append(s.undo, c), <<>>, s.queued, s.busy, s.balance + 1, s.mark)
<1>1. Append(s.undo, c) \in Seq(Commands) /\ s.balance + 1 \in Int
  BY DEF Stacks
<1>2. <<>> \in Seq(Commands)
  OBVIOUS
<1> QED
  BY <1>1, <1>2, StackPushed DEF Push

LEMMA FlushQueuedResult ==
    ASSUME NEW s \in Stacks
    PROVE  IsStack(FlushQueued(s), s.undo \o s.queued, IF s.queued = <<>> THEN s.redo ELSE <<>>, <<>>,
                   s.busy, s.balance + Len(s.queued), s.mark)
<1>1. /\ s.undo \in Seq(Commands) /\ s.queued \in Seq(Commands) /\ s.redo \in Seq(Commands)
      /\ s.balance \in Int
  BY DEF Stacks
<1>2. <<>> \in Seq(Commands) /\ s.undo \o s.queued \in Seq(Commands) /\ s.balance + Len(s.queued) \in Int
  BY <1>1
<1>3. CASE s.queued = <<>>
  <2>1. s.undo \o s.queued = s.undo /\ s.balance + Len(s.queued) = s.balance
    BY <1>1, <1>3
  <2> QED
    BY <1>3, <2>1 DEF FlushQueued, IsStack
<1>4. CASE s.queued # <<>>
  BY <1>2, <1>4, StackFlushed DEF FlushQueued
<1> QED
  BY <1>3, <1>4

LEMMA ForceBalanceResult ==
    ASSUME NEW s \in Stacks
    PROVE  IsStack(ForceBalance(s), s.undo, s.redo, s.queued, s.busy, 0, AppliedCommandId(s))
<1>1. s.undo \in Seq(Commands)
  BY DEF Stacks
<1>2. s.undo # <<>> => Last(s.undo) \in Commands
  BY <1>1 DEF Last
<1>3. AppliedCommandId(s) \in Nat
  BY <1>2 DEF AppliedCommandId, Commands
<1>4. PICK m \in Nat : m = AppliedCommandId(s)
  BY <1>3
<1>5. IsStack([s EXCEPT !.balance = 0, !.mark = m], s.undo, s.redo, s.queued, s.busy, 0, m)
  <2>1. 0 \in Int
    OBVIOUS
  <2> QED
    BY <2>1, StackBalanced
<1> QED
  BY <1>4, <1>5 DEF ForceBalance

(* What a completed step moves between the two halves of the history. *)
Moves(s, h, ok, undo, redo) ==
    IF /\ ok
       /\ IF h.direction = "undo" THEN s.undo # <<>> /\ Last(s.undo) = h.command
                                  ELSE s.redo # <<>> /\ Last(s.redo) = h.command
    THEN IF h.direction = "undo" THEN undo = Front(s.undo) /\ redo = Append(s.redo, h.command)
                                 ELSE redo = Front(s.redo) /\ undo = Append(s.undo, h.command)
    ELSE undo = s.undo /\ redo = s.redo

LEMMA FrontTypes ==
    ASSUME NEW S, NEW s \in Seq(S), s # <<>>
    PROVE  Front(s) \in Seq(S)
BY DEF Front

LEMMA CompletedElsewhere ==
    ASSUME NEW s \in Stacks, NEW h \in Steps, NEW ok \in BOOLEAN, ~(tab = "open" /\ ws.path = h.id)
    PROVE  IsStack(Completed(s, h, ok), s.undo, s.redo, s.queued, FALSE, s.balance, s.mark)
BY StackBusy DEF Completed

LEMMA CompletedHere ==
    ASSUME NEW s \in Stacks, NEW h \in Steps, NEW ok \in BOOLEAN, tab = "open", ws.path = h.id
    PROVE  \E undo, redo \in Seq(Commands), n \in Int :
              /\ Moves(s, h, ok, undo, redo)
              /\ IsStack(Completed(s, h, ok), undo \o s.queued,
                         IF s.queued = <<>> THEN redo ELSE <<>>, <<>>, FALSE, n, s.mark)
<1> DEFINE from == IF h.direction = "undo" THEN s.undo ELSE s.redo
           go   == ok /\ from # <<>> /\ Last(from) = h.command
           after == IF go
                    THEN IF h.direction = "undo"
                         THEN [s EXCEPT !.undo = Front(@), !.redo = Append(@, h.command), !.balance = @ - 1]
                         ELSE [s EXCEPT !.redo = Front(@), !.undo = Append(@, h.command), !.balance = @ + 1]
                    ELSE s
<1>1. /\ s.undo \in Seq(Commands) /\ s.redo \in Seq(Commands) /\ s.queued \in Seq(Commands)
      /\ s.balance - 1 \in Int /\ s.balance + 1 \in Int /\ s.balance \in Int /\ h.command \in Commands
  BY DEF Stacks, Steps
<1>2. Append(s.undo, h.command) \in Seq(Commands) /\ Append(s.redo, h.command) \in Seq(Commands)
  BY <1>1
<1>3. \E undo, redo \in Seq(Commands), n \in Int :
         /\ Moves(s, h, ok, undo, redo)
         /\ IsStack(after, undo, redo, s.queued, s.busy, n, s.mark)
  <2>1. CASE go /\ h.direction = "undo"
    <3>1. Front(s.undo) \in Seq(Commands)
      BY <2>1, <1>1, FrontTypes
    <3>2. IsStack(after, Front(s.undo), Append(s.redo, h.command), s.queued, s.busy, s.balance - 1, s.mark)
      BY <3>1, <2>1, <1>1, <1>2, StackPushed
    <3>3. Moves(s, h, ok, Front(s.undo), Append(s.redo, h.command))
      BY <2>1 DEF Moves
    <3> QED
      BY <3>1, <3>2, <3>3, <1>1, <1>2
  <2>2. CASE go /\ h.direction # "undo"
    <3>1. Front(s.redo) \in Seq(Commands)
      BY <2>2, <1>1, FrontTypes
    <3>2. IsStack(after, Append(s.undo, h.command), Front(s.redo), s.queued, s.busy, s.balance + 1, s.mark)
      BY <3>1, <2>2, <1>1, <1>2, StackMoved
    <3>3. Moves(s, h, ok, Append(s.undo, h.command), Front(s.redo))
      BY <2>2 DEF Moves
    <3> QED
      BY <3>1, <3>2, <3>3, <1>1, <1>2
  <2>3. CASE ~go
    <3>1. Moves(s, h, ok, s.undo, s.redo)
      BY <2>3 DEF Moves
    <3>2. IsStack(after, s.undo, s.redo, s.queued, s.busy, s.balance, s.mark)
      BY <2>3 DEF IsStack
    <3> QED
      BY <3>1, <3>2, <1>1
  <2> QED
    BY <2>1, <2>2, <2>3
<1>4. PICK moved \in Stacks : moved = after
  BY <1>3 DEF IsStack
<1>5. PICK undo \in Seq(Commands), redo \in Seq(Commands), n \in Int :
         /\ Moves(s, h, ok, undo, redo)
         /\ IsStack(moved, undo, redo, s.queued, s.busy, n, s.mark)
  BY <1>3, <1>4
<1>6. Completed(s, h, ok) = FlushQueued([moved EXCEPT !.busy = FALSE])
  BY <1>4 DEF Completed
<1>7. PICK idle \in Stacks :
         idle = [moved EXCEPT !.busy = FALSE] /\ IsStack(idle, undo, redo, s.queued, FALSE, n, s.mark)
  <2>1. IsStack([moved EXCEPT !.busy = FALSE], moved.undo, moved.redo, moved.queued, FALSE, moved.balance,
                moved.mark)
    BY StackBusy
  <2> QED
    BY <2>1, <1>5 DEF IsStack
<1>8. IsStack(FlushQueued(idle), undo \o s.queued, IF s.queued = <<>> THEN redo ELSE <<>>, <<>>, FALSE,
              n + Len(s.queued), s.mark)
  <2>1. IsStack(FlushQueued(idle), idle.undo \o idle.queued, IF idle.queued = <<>> THEN idle.redo ELSE <<>>, <<>>,
                   idle.busy, idle.balance + Len(idle.queued), idle.mark)
    BY FlushQueuedResult
  <2>2. /\ idle.undo = undo /\ idle.redo = redo /\ idle.queued = s.queued /\ idle.busy = FALSE
        /\ idle.balance = n /\ idle.mark = s.mark
    BY <1>7 DEF IsStack
  <2> QED
    BY <2>1, <2>2
<1>9. n + Len(s.queued) \in Int
  BY <1>1
<1> QED
  BY <1>5, <1>6, <1>7, <1>8, <1>9

LEMMA CompletedTypes ==
    ASSUME NEW s \in Stacks, NEW h \in Steps, NEW ok \in BOOLEAN
    PROVE  Completed(s, h, ok) \in Stacks /\ Completed(s, h, ok).busy = FALSE
<1>1. CASE tab = "open" /\ ws.path = h.id
  BY <1>1, CompletedHere DEF IsStack
<1>2. CASE ~(tab = "open" /\ ws.path = h.id)
  BY <1>2, CompletedElsewhere DEF IsStack
<1> QED
  BY <1>1, <1>2

LEMMA StepPc ==
    ASSUME NEW h \in Steps, NEW pc \in {"wait", "waited", "inverse", "prepared", "sent"}
    PROVE  /\ [h EXCEPT !.pc = pc] \in Steps
           /\ [h EXCEPT !.pc = pc].pc = pc
           /\ [h EXCEPT !.pc = pc].direction = h.direction
           /\ [h EXCEPT !.pc = pc].command = h.command
           /\ [h EXCEPT !.pc = pc].id = h.id
BY DEF Steps

LEMMA NotNone ==
    /\ \A x \in Steps : x # None
    /\ \A x \in Jobs : x # None
    /\ \A x \in Workers : x # None
    /\ \A x \in Nat : x # None
BY WorkspaceAssumption

LEMMA ClosureKinds ==
    ASSUME NEW c \in Closures
    PROVE  /\ c.kind = "outcome" => c.op \in Operations /\ c.ok \in BOOLEAN
           /\ c.kind = "inverse" => c.ok \in BOOLEAN
           /\ c.kind = "saved" => c.request \in Requests /\ c.result \in Results
BY DEF Closures, WaitClosures, InverseClosures, OutcomeClosures, SaveClosures

LEMMA ClosureForms ==
    /\ [kind |-> "waited"] \in Closures
    /\ \A ok \in BOOLEAN : [kind |-> "inverse", ok |-> ok] \in Closures
    /\ \A op \in Operations, ok \in BOOLEAN : [kind |-> "outcome", op |-> op, ok |-> ok] \in Closures
    /\ \A q \in Requests, r \in Results : [kind |-> "saved", request |-> q, result |-> r] \in Closures
BY DEF Closures, WaitClosures, InverseClosures, OutcomeClosures, SaveClosures

(* The first of a sequence, and the others. *)
LEMMA HeadTail ==
    ASSUME NEW S, NEW s \in Seq(S), s # <<>>
    PROVE  /\ Head(s) = s[1] /\ Head(s) \in S /\ 1 \in 1 .. Len(s) /\ Len(s) \in Nat
           /\ Tail(s) \in Seq(S) /\ Len(Tail(s)) = Len(s) - 1
           /\ \A i \in 1 .. Len(Tail(s)) : i + 1 \in 1 .. Len(s) /\ Tail(s)[i] = s[i + 1]
           /\ \A i \in 1 .. Len(s) : i # 1 => i - 1 \in 1 .. Len(Tail(s)) /\ Tail(s)[i - 1] = s[i]
OBVIOUS

LEMMA AppendOne ==
    ASSUME NEW S, NEW s \in Seq(S), NEW x \in S
    PROVE  /\ Append(s, x) \in Seq(S) /\ Len(Append(s, x)) = Len(s) + 1 /\ Len(s) \in Nat
           /\ \A i \in 1 .. Len(s) : i \in 1 .. Len(Append(s, x)) /\ Append(s, x)[i] = s[i]
           /\ Len(s) + 1 \in 1 .. Len(Append(s, x))
           /\ Append(s, x)[Len(s) + 1] = x
           /\ \A i \in 1 .. Len(Append(s, x)) : i \in 1 .. Len(s) \/ i = Len(s) + 1
OBVIOUS

(* A closure of the history finds its step. *)
LEMMA ClosureHasStep ==
    ASSUME WorkspaceTypes, Tokens, later # <<>>, HistoryClosure(Head(later))
    PROVE  step \in Steps
<1>1. later \in Seq(Closures)
  BY DEF WorkspaceTypes
<1>2. Head(later) = later[1] /\ 1 \in 1 .. Len(later)
  BY <1>1, HeadTail
<1> QED
  BY <1>2 DEF Tokens, ClosuresBelong, WorkspaceTypes, HistoryTypes

LEMMA WaitedHasStep ==
    ASSUME WorkspaceTypes, Tokens, Run("waited")
    PROVE  step \in Steps
BY ClosureHasStep DEF Run, HistoryClosure

LEMMA InverseHasStep ==
    ASSUME WorkspaceTypes, Tokens, Run("inverse")
    PROVE  step \in Steps /\ Head(later).ok \in BOOLEAN
<1>1. step \in Steps
  BY ClosureHasStep DEF Run, HistoryClosure
<1>2. Head(later) \in Closures /\ Head(later).kind = "inverse"
  BY HeadTail DEF Run, WorkspaceTypes
<1> QED
  BY <1>1, <1>2, ClosureKinds

LEMMA OutcomeRuns ==
    ASSUME WorkspaceTypes, Run("outcome")
    PROVE  Head(later) \in Closures /\ Head(later).op \in Operations /\ Head(later).ok \in BOOLEAN
<1>1. Head(later) \in Closures /\ Head(later).kind = "outcome"
  BY HeadTail DEF Run, WorkspaceTypes
<1> QED
  BY <1>1, ClosureKinds

LEMMA OutcomeHasStep ==
    ASSUME WorkspaceTypes, Tokens, RunHistoryOutcome
    PROVE  step \in Steps
BY ClosureHasStep DEF Run, RunHistoryOutcome, HistoryClosure

LEMMA BusyStack == ASSUME NEW s \in Stacks PROVE [s EXCEPT !.busy = TRUE] \in Stacks
BY StackBusy DEF IsStack

LEMMA CompleteTypes ==
    ASSUME stack \in Stacks, step \in Steps, NEW ok \in BOOLEAN, Complete(ok)
    PROVE  stack' \in Stacks /\ step' = None /\ stack'.busy = FALSE
BY CompletedTypes DEF Complete

LEMMA ProceedTypes ==
    ASSUME WorkspaceTypes, NEW h \in Steps, Proceed(h)
    PROVE  stack' \in Stacks /\ step' \in Steps \cup {None} /\ inflight' \in Seq(Operations)
<1>0. stack \in Stacks /\ inflight \in Seq(Operations) /\ view \in Views
  BY DEF WorkspaceTypes, HistoryTypes, SessionTypes
<1>1. h.command.id \in Nat
  BY DEF Steps, Commands
<1>2. Operation("redo", h.command.id) \in Operations
  BY <1>0, <1>1, OperationTypes
<1>3. Append(inflight, Operation("redo", h.command.id)) \in Seq(Operations)
  BY <1>0, <1>2, AppendOne
<1>4. Completed(stack, h, FALSE) \in Stacks
  BY <1>0, CompletedTypes
<1>5. [stack EXCEPT !.busy = TRUE] \in Stacks
  BY <1>0, BusyStack
<1>6. [h EXCEPT !.pc = "inverse"] \in Steps /\ [h EXCEPT !.pc = "sent"] \in Steps
  BY StepPc
<1> QED
  BY <1>0, <1>3, <1>4, <1>5, <1>6 DEF Proceed

(* The step an undo or redo begins. *)
LEMMA BeginStep ==
    ASSUME WorkspaceTypes, NEW direction \in {"undo", "redo"}, BeginHistoryStep(direction)
    PROVE  \E h \in Steps :
              /\ h.direction = direction /\ h.id = ws.path /\ h.pc = "wait" /\ h.command.gen = view.gen
              /\ IF direction = "undo" THEN stack.undo # <<>> /\ h.command = Last(stack.undo)
                                       ELSE stack.redo # <<>> /\ h.command = Last(stack.redo)
              /\ IF inflight # <<>>
                 THEN step' = h /\ stack' = [stack EXCEPT !.busy = TRUE] /\ inflight' = inflight
                 ELSE Proceed(h)
<1> DEFINE commands == IF direction = "undo" THEN stack.undo ELSE stack.redo
           h == [direction |-> direction, command |-> Last(commands), id |-> ws.path, pc |-> "wait"]
<1>1. commands \in Seq(Commands) /\ commands # <<>> /\ ws.path \in Paths
  BY DEF BeginHistoryStep, WorkspaceTypes, HistoryTypes, DiskTypes, Stacks, Tabs
<1>2. Last(commands) \in Commands
  BY <1>1 DEF Last
<1>3. h \in Steps
  BY <1>1, <1>2 DEF Steps
<1>4. /\ h.direction = direction /\ h.id = ws.path /\ h.pc = "wait" /\ h.command = Last(commands)
      /\ h.command.gen = view.gen
  BY DEF BeginHistoryStep, Attached
<1>5. IF inflight # <<>>
      THEN step' = h /\ stack' = [stack EXCEPT !.busy = TRUE] /\ inflight' = inflight
      ELSE Proceed(h)
  BY DEF BeginHistoryStep, HasUnacknowledgedOperations
<1> HIDE DEF h
<1> QED
  BY <1>1, <1>3, <1>4, <1>5

LEMMA InflightTypes ==
    ASSUME WorkspaceTypes, Tokens, Next
    PROVE  inflight' \in Seq(Operations)
<1> USE DEF history, saving, disk
<1>1. ASSUME NEW accepted \in BOOLEAN, Settle(accepted) PROVE inflight' \in Seq(Operations)
  <2>1. inflight \in Seq(Operations) /\ inflight # <<>> /\ inflight' = Tail(inflight)
    BY <1>1 DEF Settle, WorkspaceTypes, SessionTypes, HasUnacknowledgedOperations
  <2> QED
    BY <2>1, HeadTail
<1>2. ASSUME NEW overwritten \in {{}} \cup {{e} : e \in 1 .. used.edits}, RemoteEdit(overwritten)
      PROVE  inflight' \in Seq(Operations)
  BY <1>2 DEF RemoteEdit, WorkspaceTypes, SessionTypes
<1>3. ASSUME NEW path \in Paths, NEW deleted \in BOOLEAN, OutsideWrite(path, deleted)
      PROVE  inflight' \in Seq(Operations)
  BY <1>3 DEF OutsideWrite, WorkspaceTypes, SessionTypes
<1>4. ASSUME NEW kind \in {"stroke", "move"}, BeginGesture(kind) PROVE inflight' \in Seq(Operations)
  BY <1>4 DEF BeginGesture, WorkspaceTypes, SessionTypes
<1>5. ASSUME NEW changed \in BOOLEAN, CommitOperation(changed) PROVE inflight' \in Seq(Operations)
  <2>1. inflight \in Seq(Operations) /\ view \in Views /\ used.edits + 1 \in Nat
    BY DEF WorkspaceTypes, SessionTypes, Bounds
  <2>2. Append(inflight, Operation("edit", used.edits + 1)) \in Seq(Operations)
    BY <2>1, OperationTypes, AppendOne
  <2> QED
    BY <1>5, <2>1, <2>2 DEF CommitOperation
<1>6. ASSUME NEW content \in {exec.content, {}}, Reattach(content) PROVE inflight' \in Seq(Operations)
  BY <1>6 DEF Reattach, WorkspaceTypes, SessionTypes
<1>7. ASSUME NEW direction \in {"undo", "redo"}, BeginHistoryStep(direction)
      PROVE  inflight' \in Seq(Operations)
  <2>1. inflight \in Seq(Operations)
    BY DEF WorkspaceTypes, SessionTypes
  <2> QED
    BY <1>7, <2>1, BeginStep, ProceedTypes
<1>8. CASE Save
  BY <1>8 DEF Save, WorkspaceTypes, SessionTypes
<1>9. ASSUME NEW path \in Paths, SaveAs(path) PROVE inflight' \in Seq(Operations)
  BY <1>9 DEF SaveAs, WorkspaceTypes, SessionTypes
<1>10. ASSUME NEW d \in dialogs, ConfirmReplace(d) PROVE inflight' \in Seq(Operations)
  BY <1>10 DEF ConfirmReplace, WorkspaceTypes, SessionTypes
<1>11. ASSUME NEW d \in dialogs, ConfirmOverwrite(d) PROVE inflight' \in Seq(Operations)
  BY <1>11 DEF ConfirmOverwrite, WorkspaceTypes, SessionTypes
<1>12. ASSUME NEW d \in dialogs, CancelDialog(d) PROVE inflight' \in Seq(Operations)
  BY <1>12 DEF CancelDialog, WorkspaceTypes, SessionTypes
<1>13. CASE CloseTab
  BY <1>13 DEF CloseTab, WorkspaceTypes, SessionTypes
<1>14. ASSUME NEW d \in dialogs, CloseSaving(d) PROVE inflight' \in Seq(Operations)
  BY <1>14 DEF CloseSaving, WorkspaceTypes, SessionTypes
<1>15. ASSUME NEW d \in dialogs, CloseDiscarding(d) PROVE inflight' \in Seq(Operations)
  BY <1>15 DEF CloseDiscarding, WorkspaceTypes, SessionTypes
<1>16. CASE HistoryWaitOver
  BY <1>16 DEF HistoryWaitOver, WorkspaceTypes, SessionTypes
<1>17. CASE PrepareHistoryInverse
  BY <1>17 DEF PrepareHistoryInverse, WorkspaceTypes, SessionTypes
<1>18. ASSUME NEW outcome \in {"ok", "error", "declined"}, WorkerStage(outcome)
       PROVE  inflight' \in Seq(Operations)
  BY <1>18 DEF WorkerStage, WorkspaceTypes, SessionTypes
<1>19. CASE WorkerCheck
  BY <1>19 DEF WorkerCheck, WorkspaceTypes, SessionTypes
<1>20. ASSUME NEW outcome \in {"replaced", "refused", "unsynced"}, WorkerReplace(outcome)
       PROVE  inflight' \in Seq(Operations)
  BY <1>20 DEF WorkerReplace, WorkspaceTypes, SessionTypes
<1>21. CASE WorkerVerify
  BY <1>21 DEF WorkerVerify, WorkspaceTypes, SessionTypes
<1>22. ASSUME NEW read \in BOOLEAN, WorkerCaptureConflict(read) PROVE inflight' \in Seq(Operations)
  BY <1>22 DEF WorkerCaptureConflict, WorkspaceTypes, SessionTypes
<1>23. CASE ProcessCollaborationUpdates
  BY <1>23 DEF ProcessCollaborationUpdates, WorkspaceTypes, SessionTypes
<1>24. CASE RunHistoryWaited
  BY <1>24, WaitedHasStep, ProceedTypes DEF RunHistoryWaited, WorkspaceTypes, SessionTypes
<1>25. CASE RunHistoryInverse
  <2>1. inflight \in Seq(Operations) /\ view \in Views /\ step.command.id \in Nat
    BY <1>25, InverseHasStep DEF WorkspaceTypes, SessionTypes, Steps, Commands, RunHistoryInverse
  <2>2. Append(inflight, Operation("undo", step.command.id)) \in Seq(Operations)
    BY <2>1, OperationTypes, AppendOne
  <2> QED
    BY <1>25, <2>1, <2>2 DEF RunHistoryInverse
<1>26. CASE RunEditOutcome
  BY <1>26 DEF RunEditOutcome, WorkspaceTypes, SessionTypes
<1>27. CASE RunHistoryOutcome
  BY <1>27 DEF RunHistoryOutcome, WorkspaceTypes, SessionTypes
<1>28. CASE FinishSave
  BY <1>28 DEF FinishSave, WorkspaceTypes, SessionTypes
<1> QED
  BY <1>1, <1>2, <1>3, <1>4, <1>5, <1>6, <1>7, <1>8, <1>9, <1>10, <1>11, <1>12, <1>13,
     <1>14, <1>15, <1>16, <1>17, <1>18, <1>19, <1>20, <1>21, <1>22, <1>23, <1>24, <1>25,
     <1>26, <1>27, <1>28
     DEF Next, Environment, User, Background, UIThread

LEMMA HistoryTypesStep ==
    ASSUME WorkspaceTypes, Tokens, Next
    PROVE  stack' \in Stacks /\ step' \in Steps \cup {None}
<1> USE DEF history, saving, disk
<1>1. ASSUME NEW accepted \in BOOLEAN, Settle(accepted)
      PROVE  stack' \in Stacks /\ step' \in Steps \cup {None}
  BY <1>1 DEF Settle, WorkspaceTypes, HistoryTypes
<1>2. ASSUME NEW overwritten \in {{}} \cup {{e} : e \in 1 .. used.edits}, RemoteEdit(overwritten)
      PROVE  stack' \in Stacks /\ step' \in Steps \cup {None}
  BY <1>2 DEF RemoteEdit, WorkspaceTypes, HistoryTypes
<1>3. ASSUME NEW path \in Paths, NEW deleted \in BOOLEAN, OutsideWrite(path, deleted)
      PROVE  stack' \in Stacks /\ step' \in Steps \cup {None}
  BY <1>3 DEF OutsideWrite, WorkspaceTypes, HistoryTypes
<1>4. ASSUME NEW kind \in {"stroke", "move"}, BeginGesture(kind)
      PROVE  stack' \in Stacks /\ step' \in Steps \cup {None}
  BY <1>4 DEF BeginGesture, WorkspaceTypes, HistoryTypes
<1>5. ASSUME NEW changed \in BOOLEAN, CommitOperation(changed)
      PROVE  stack' \in Stacks /\ step' \in Steps \cup {None}
  BY <1>5 DEF CommitOperation, WorkspaceTypes, HistoryTypes
<1>6. ASSUME NEW content \in {exec.content, {}}, Reattach(content)
      PROVE  stack' \in Stacks /\ step' \in Steps \cup {None}
  BY <1>6 DEF Reattach, WorkspaceTypes, HistoryTypes
<1>7. ASSUME NEW direction \in {"undo", "redo"}, BeginHistoryStep(direction)
      PROVE  stack' \in Stacks /\ step' \in Steps \cup {None}
  <2>1. stack \in Stacks
    BY DEF WorkspaceTypes, HistoryTypes
  <2> QED
    BY <1>7, <2>1, BeginStep, ProceedTypes, BusyStack
<1>8. CASE Save
  BY <1>8 DEF Save, WorkspaceTypes, HistoryTypes
<1>9. ASSUME NEW path \in Paths, SaveAs(path) PROVE stack' \in Stacks /\ step' \in Steps \cup {None}
  BY <1>9 DEF SaveAs, WorkspaceTypes, HistoryTypes
<1>10. ASSUME NEW d \in dialogs, ConfirmReplace(d) PROVE stack' \in Stacks /\ step' \in Steps \cup {None}
  BY <1>10 DEF ConfirmReplace, WorkspaceTypes, HistoryTypes
<1>11. ASSUME NEW d \in dialogs, ConfirmOverwrite(d)
       PROVE  stack' \in Stacks /\ step' \in Steps \cup {None}
  BY <1>11 DEF ConfirmOverwrite, WorkspaceTypes, HistoryTypes
<1>12. ASSUME NEW d \in dialogs, CancelDialog(d) PROVE stack' \in Stacks /\ step' \in Steps \cup {None}
  BY <1>12 DEF CancelDialog, WorkspaceTypes, HistoryTypes
<1>13. CASE CloseTab
  <2>1. stack \in Stacks /\ step \in Steps \cup {None} /\ <<>> \in Seq(Commands)
    BY DEF WorkspaceTypes, HistoryTypes
  <2>2. [stack EXCEPT !.undo = <<>>, !.redo = <<>>, !.queued = <<>>] \in Stacks
    BY <2>1, StackDisposed DEF IsStack
  <2> QED
    BY <1>13, <2>1, <2>2 DEF CloseTab, Dispose
<1>14. ASSUME NEW d \in dialogs, CloseSaving(d) PROVE stack' \in Stacks /\ step' \in Steps \cup {None}
  BY <1>14 DEF CloseSaving, WorkspaceTypes, HistoryTypes
<1>15. ASSUME NEW d \in dialogs, CloseDiscarding(d)
       PROVE  stack' \in Stacks /\ step' \in Steps \cup {None}
  <2>1. stack \in Stacks /\ step \in Steps \cup {None} /\ <<>> \in Seq(Commands)
    BY DEF WorkspaceTypes, HistoryTypes
  <2> QED
    BY <1>15, <2>1, StackDisposed DEF CloseDiscarding, Dispose, IsStack
<1>16. CASE HistoryWaitOver
  BY <1>16, StepPc DEF HistoryWaitOver, WorkspaceTypes, HistoryTypes
<1>17. CASE PrepareHistoryInverse
  BY <1>17, StepPc DEF PrepareHistoryInverse, WorkspaceTypes, HistoryTypes
<1>18. ASSUME NEW outcome \in {"ok", "error", "declined"}, WorkerStage(outcome)
       PROVE  stack' \in Stacks /\ step' \in Steps \cup {None}
  BY <1>18 DEF WorkerStage, WorkspaceTypes, HistoryTypes
<1>19. CASE WorkerCheck
  BY <1>19 DEF WorkerCheck, WorkspaceTypes, HistoryTypes
<1>20. ASSUME NEW outcome \in {"replaced", "refused", "unsynced"}, WorkerReplace(outcome)
       PROVE  stack' \in Stacks /\ step' \in Steps \cup {None}
  BY <1>20 DEF WorkerReplace, WorkspaceTypes, HistoryTypes
<1>21. CASE WorkerVerify
  BY <1>21 DEF WorkerVerify, WorkspaceTypes, HistoryTypes
<1>22. ASSUME NEW read \in BOOLEAN, WorkerCaptureConflict(read)
       PROVE  stack' \in Stacks /\ step' \in Steps \cup {None}
  BY <1>22 DEF WorkerCaptureConflict, WorkspaceTypes, HistoryTypes
<1>23. CASE ProcessCollaborationUpdates
  BY <1>23 DEF ProcessCollaborationUpdates, WorkspaceTypes, HistoryTypes
<1>24. CASE RunHistoryWaited
  BY <1>24, WaitedHasStep, ProceedTypes, CompleteTypes DEF RunHistoryWaited, WorkspaceTypes, HistoryTypes
<1>25. CASE RunHistoryInverse
  BY <1>25, InverseHasStep, CompleteTypes, StepPc DEF RunHistoryInverse, WorkspaceTypes, HistoryTypes
<1>26. CASE RunEditOutcome
  <2>1. stack \in Stacks /\ step \in Steps \cup {None} /\ view.gen \in Nat
    BY DEF WorkspaceTypes, HistoryTypes, SessionTypes, Views
  <2>2. Head(later).op.edit \in Nat
    BY <1>26, OutcomeRuns DEF RunEditOutcome, Operations
  <2>3. PICK c \in Commands : c = [id |-> Head(later).op.edit, gen |-> view.gen]
    BY <2>1, <2>2 DEF Commands
  <2>4. Push(stack, c) \in Stacks
    BY <2>1, PushBusy, PushIdle DEF IsStack
  <2> QED
    BY <1>26, <2>1, <2>3, <2>4 DEF RunEditOutcome
<1>27. CASE RunHistoryOutcome
  <2>1. step \in Steps /\ stack \in Stacks
    BY <1>27, OutcomeHasStep DEF WorkspaceTypes, HistoryTypes
  <2>2. Head(later).ok \in BOOLEAN
    BY <1>27, OutcomeRuns DEF RunHistoryOutcome
  <2>3. PICK ok \in BOOLEAN : Complete(ok)
    BY <1>27, <2>2 DEF RunHistoryOutcome
  <2> QED
    BY <2>1, <2>3, CompleteTypes
<1>28. CASE FinishSave
  <2>1. stack \in Stacks /\ step \in Steps \cup {None} /\ <<>> \in Seq(Commands)
    BY DEF WorkspaceTypes, HistoryTypes
  <2>2. ForceBalance(stack) \in Stacks
    BY <2>1, ForceBalanceResult DEF IsStack
  <2>3. [stack EXCEPT !.undo = <<>>, !.redo = <<>>, !.queued = <<>>] \in Stacks
    BY <2>1, StackDisposed DEF IsStack
  <2> QED
    BY <1>28, <2>1, <2>2, <2>3 DEF FinishSave, FinishSaved, FinishFailed, Dispose
<1> QED
  BY <1>1, <1>2, <1>3, <1>4, <1>5, <1>6, <1>7, <1>8, <1>9, <1>10, <1>11, <1>12, <1>13,
     <1>14, <1>15, <1>16, <1>17, <1>18, <1>19, <1>20, <1>21, <1>22, <1>23, <1>24, <1>25,
     <1>26, <1>27, <1>28
     DEF Next, Environment, User, Background, UIThread
(* The worker and its request. *)
LEMMA RequestTypes ==
    ASSUME WorkspaceTypes, NEW w \in Tabs, NEW path \in Paths, NEW expected \in Nat, NEW rebind \in BOOLEAN
    PROVE  Request(w, path, expected, rebind) \in Requests
BY DEF Request, Requests, Tabs, WorkspaceTypes, SessionTypes, Views, Documents

LEMMA JobField ==
    ASSUME NEW j \in Jobs
    PROVE  /\ [j EXCEPT !.closing = TRUE] \in Jobs
           /\ [j EXCEPT !.repeat = TRUE] \in Jobs
BY DEF Jobs

LEMMA JobForms == \A closing \in BOOLEAN : [closing |-> closing, repeat |-> FALSE] \in Jobs
BY DEF Jobs

LEMMA WorkerForms ==
    \A q \in Requests : [pc |-> "stage", request |-> q, seen |-> None] \in Workers
BY DEF Workers

LEMMA WorkerPc ==
    ASSUME NEW w \in Workers, NEW pc \in {"stage", "check", "replace", "verify", "conflict"}
    PROVE  /\ [w EXCEPT !.pc = pc] \in Workers
           /\ [w EXCEPT !.pc = pc].pc = pc
           /\ [w EXCEPT !.pc = pc].request = w.request
           /\ [w EXCEPT !.pc = pc].seen = w.seen
BY DEF Workers

LEMMA WorkerSeen ==
    ASSUME NEW w \in Workers, NEW seen \in Nat
    PROVE  /\ [w EXCEPT !.seen = seen] \in Workers
           /\ [w EXCEPT !.seen = seen].pc = w.pc
           /\ [w EXCEPT !.seen = seen].request = w.request
           /\ [w EXCEPT !.seen = seen].seen = seen
BY DEF Workers

LEMMA WorkerFields ==
    ASSUME NEW w \in Workers, NEW pc \in {"stage", "check", "replace", "verify", "conflict"}, NEW seen \in Nat
    PROVE  /\ [w EXCEPT !.pc = pc, !.seen = seen] \in Workers
           /\ [w EXCEPT !.pc = pc, !.seen = seen].pc = pc
           /\ [w EXCEPT !.pc = pc, !.seen = seen].request = w.request
           /\ [w EXCEPT !.pc = pc, !.seen = seen].seen = seen
<1>1. PICK v \in Workers : v = [w EXCEPT !.pc = pc]
  BY WorkerPc
<1>2. [w EXCEPT !.pc = pc, !.seen = seen] = [v EXCEPT !.seen = seen]
  BY <1>1
<1>3. v.pc = pc /\ v.request = w.request
  BY <1>1, WorkerPc
<1> QED
  BY <1>1, <1>2, <1>3, WorkerSeen

LEMMA WorkerIs ==
    ASSUME WorkspaceTypes, NEW pc, Working(pc)
    PROVE  worker \in Workers /\ worker.request \in Requests /\ worker.pc = pc
           /\ worker.request.path \in Paths /\ worker.seen \in Nat \cup {None}
BY DEF Working, WorkspaceTypes, DiskTypes, Workers, Requests

(* What saveAtPath does to the active save and its worker. *)
LEMMA SaveAtPathTypes ==
    ASSUME WorkspaceTypes, NEW w \in Tabs, NEW s, NEW j \in Jobs \cup {None}, NEW path \in Paths,
           NEW expected \in Nat, NEW rebind \in BOOLEAN, NEW closing \in BOOLEAN,
           SaveAtPath(w, s, j, path, expected, rebind, closing)
    PROVE  job' \in Jobs \cup {None} /\ worker' \in Workers \cup {None}
<1>1. Request(w, path, expected, rebind) \in Requests
  BY RequestTypes
<1>2. PICK q \in Requests : q = Request(w, path, expected, rebind)
  BY <1>1
<1>3. /\ [pc |-> "stage", request |-> q, seen |-> None] \in Workers
      /\ [closing |-> closing, repeat |-> FALSE] \in Jobs
  BY WorkerForms, JobForms
<1>4. j # None => [j EXCEPT !.closing = TRUE] \in Jobs /\ [j EXCEPT !.repeat = TRUE] \in Jobs
  BY JobField
<1>5. worker \in Workers \cup {None}
  BY DEF WorkspaceTypes, DiskTypes
<1> QED
  BY <1>2, <1>3, <1>4, <1>5 DEF SaveAtPath

LEMMA FileTypes ==
    ASSUME NEW version \in Nat, NEW content \in SUBSET Int, NEW origin \in {"none", "saved", "failed", "outside"}
    PROVE  File(version, content, origin) \in Contents
BY DEF File, Contents

LEMMA FileIs ==
    ASSUME WorkspaceTypes, NEW p \in Paths
    PROVE  files[p] \in Contents /\ files[p].ver \in Nat
BY DEF WorkspaceTypes, DiskTypes, Contents

LEMMA DialogTypes ==
    ASSUME WorkspaceTypes, NEW d \in dialogs
    PROVE  d.kind \in {"replace", "conflict", "close"} /\ d.path \in Paths /\ d.ver \in Nat
BY DEF WorkspaceTypes, DiskTypes, Dialogs

LEMMA TabTypes ==
    ASSUME WorkspaceTypes
    PROVE  ws \in Tabs /\ ws.path \in Paths /\ ws.disk \in Nat /\ job \in Jobs \cup {None}
           /\ worker \in Workers \cup {None}
BY DEF WorkspaceTypes, DiskTypes, Tabs

LEMMA SavedRuns ==
    ASSUME WorkspaceTypes, Run("saved")
    PROVE  /\ Head(later) \in Closures /\ Head(later).request \in Requests /\ Head(later).result \in Results
           /\ Head(later).result.ver \in Nat /\ Head(later).request.path \in Paths
<1>1. Head(later) \in Closures /\ Head(later).kind = "saved"
  BY HeadTail DEF Run, WorkspaceTypes
<1>2. Head(later).request \in Requests /\ Head(later).result \in Results
  BY <1>1, ClosureKinds
<1> QED
  BY <1>1, <1>2 DEF Results, Requests

LEMMA SavedWorkspaceTypes ==
    ASSUME NEW request \in Requests, NEW version \in Nat
    PROVE  /\ SavedWorkspace(request, version) \in Tabs
           /\ SavedWorkspace(request, version).path = request.path
           /\ SavedWorkspace(request, version).disk = version
           /\ SavedWorkspace(request, version).hash = request.content
           /\ SavedWorkspace(request, version).gen = request.gen
           /\ SavedWorkspace(request, version).rev = request.rev
BY DEF SavedWorkspace, Tabs, Requests

LEMMA SaveTypes ==
    ASSUME WorkspaceTypes, Next
    PROVE  job' \in Jobs \cup {None} /\ worker' \in Workers \cup {None}
<1> USE DEF history, saving, disk
<1>1. ASSUME NEW accepted \in BOOLEAN, Settle(accepted)
      PROVE  job' \in Jobs \cup {None} /\ worker' \in Workers \cup {None}
  BY <1>1, TabTypes DEF Settle
<1>2. ASSUME NEW overwritten \in {{}} \cup {{e} : e \in 1 .. used.edits}, RemoteEdit(overwritten)
      PROVE  job' \in Jobs \cup {None} /\ worker' \in Workers \cup {None}
  BY <1>2, TabTypes DEF RemoteEdit
<1>3. ASSUME NEW path \in Paths, NEW deleted \in BOOLEAN, OutsideWrite(path, deleted)
      PROVE  job' \in Jobs \cup {None} /\ worker' \in Workers \cup {None}
  BY <1>3, TabTypes DEF OutsideWrite
<1>4. ASSUME NEW kind \in {"stroke", "move"}, BeginGesture(kind)
      PROVE  job' \in Jobs \cup {None} /\ worker' \in Workers \cup {None}
  BY <1>4, TabTypes DEF BeginGesture
<1>5. ASSUME NEW changed \in BOOLEAN, CommitOperation(changed)
      PROVE  job' \in Jobs \cup {None} /\ worker' \in Workers \cup {None}
  BY <1>5, TabTypes DEF CommitOperation
<1>6. ASSUME NEW content \in {exec.content, {}}, Reattach(content)
      PROVE  job' \in Jobs \cup {None} /\ worker' \in Workers \cup {None}
  BY <1>6, TabTypes DEF Reattach
<1>7. ASSUME NEW direction \in {"undo", "redo"}, BeginHistoryStep(direction)
      PROVE  job' \in Jobs \cup {None} /\ worker' \in Workers \cup {None}
  BY <1>7, TabTypes DEF BeginHistoryStep
<1>8. CASE Save
  BY <1>8, TabTypes, SaveAtPathTypes DEF Save
<1>9. ASSUME NEW path \in Paths, SaveAs(path)
      PROVE  job' \in Jobs \cup {None} /\ worker' \in Workers \cup {None}
  BY <1>9, TabTypes, SaveAtPathTypes DEF SaveAs
<1>10. ASSUME NEW d \in dialogs, ConfirmReplace(d)
       PROVE  job' \in Jobs \cup {None} /\ worker' \in Workers \cup {None}
  BY <1>10, TabTypes, DialogTypes, SaveAtPathTypes DEF ConfirmReplace
<1>11. ASSUME NEW d \in dialogs, ConfirmOverwrite(d)
       PROVE  job' \in Jobs \cup {None} /\ worker' \in Workers \cup {None}
  BY <1>11, TabTypes, DialogTypes, SaveAtPathTypes DEF ConfirmOverwrite
<1>12. ASSUME NEW d \in dialogs, CancelDialog(d)
       PROVE  job' \in Jobs \cup {None} /\ worker' \in Workers \cup {None}
  BY <1>12, TabTypes DEF CancelDialog
<1>13. CASE CloseTab
  BY <1>13, TabTypes DEF CloseTab, Dispose
<1>14. ASSUME NEW d \in dialogs, CloseSaving(d)
       PROVE  job' \in Jobs \cup {None} /\ worker' \in Workers \cup {None}
  BY <1>14, TabTypes, SaveAtPathTypes DEF CloseSaving
<1>15. ASSUME NEW d \in dialogs, CloseDiscarding(d)
       PROVE  job' \in Jobs \cup {None} /\ worker' \in Workers \cup {None}
  BY <1>15, TabTypes DEF CloseDiscarding, Dispose
<1>16. CASE HistoryWaitOver
  BY <1>16, TabTypes DEF HistoryWaitOver
<1>17. CASE PrepareHistoryInverse
  BY <1>17, TabTypes DEF PrepareHistoryInverse
<1>18. ASSUME NEW outcome \in {"ok", "error", "declined"}, WorkerStage(outcome)
       PROVE  job' \in Jobs \cup {None} /\ worker' \in Workers \cup {None}
  <2>1. 0 \in Nat
    OBVIOUS
  <2> QED
    BY <2>1, <1>18, TabTypes, WorkerIs, WorkerPc DEF WorkerStage, Deliver
<1>19. CASE WorkerCheck
  <2>1. worker \in Workers /\ job \in Jobs \cup {None} /\ files[worker.request.path].ver \in Nat
    BY <1>19, TabTypes, WorkerIs, FileIs DEF WorkerCheck
  <2>2. PICK pc \in {"replace", "conflict"} :
           worker' = [worker EXCEPT !.pc = pc, !.seen = files[worker.request.path].ver]
    BY <1>19 DEF WorkerCheck
  <2>3. PICK n \in Nat : n = files[worker.request.path].ver
    BY <2>1
  <2>4. [worker EXCEPT !.pc = pc, !.seen = n] \in Workers
    <3>1. pc \in {"stage", "check", "replace", "verify", "conflict"}
      BY <2>2
    <3> QED
      BY <2>1, <3>1, WorkerFields
  <2> QED
    BY <1>19, <2>1, <2>2, <2>3, <2>4 DEF WorkerCheck
<1>20. ASSUME NEW outcome \in {"replaced", "refused", "unsynced"}, WorkerReplace(outcome)
       PROVE  job' \in Jobs \cup {None} /\ worker' \in Workers \cup {None}
  <2>1. used.versions + 1 \in Nat
    BY DEF WorkspaceTypes, SessionTypes, Bounds
  <2>2. worker \in Workers /\ job \in Jobs \cup {None}
    BY <1>20, TabTypes, WorkerIs DEF WorkerReplace
  <2>3. PICK n \in Nat : n = used.versions + 1
    BY <2>1
  <2>4. [worker EXCEPT !.pc = "verify", !.seen = n] \in Workers
    BY <2>2, WorkerFields
  <2> QED
    BY <1>20, <2>2, <2>3, <2>4 DEF WorkerReplace, Deliver
<1>21. CASE WorkerVerify
  <2>1. 0 \in Nat
    OBVIOUS
  <2> QED
    BY <2>1, <1>21, TabTypes, WorkerIs, WorkerPc DEF WorkerVerify, Deliver
<1>22. ASSUME NEW read \in BOOLEAN, WorkerCaptureConflict(read)
       PROVE  job' \in Jobs \cup {None} /\ worker' \in Workers \cup {None}
  BY <1>22, TabTypes DEF WorkerCaptureConflict, Deliver
<1>23. CASE ProcessCollaborationUpdates
  BY <1>23, TabTypes DEF ProcessCollaborationUpdates
<1>24. CASE RunHistoryWaited
  BY <1>24, TabTypes DEF RunHistoryWaited
<1>25. CASE RunHistoryInverse
  BY <1>25, TabTypes DEF RunHistoryInverse
<1>26. CASE RunEditOutcome
  BY <1>26, TabTypes DEF RunEditOutcome
<1>27. CASE RunHistoryOutcome
  BY <1>27, TabTypes DEF RunHistoryOutcome
<1>28. CASE FinishSave
  <2>1. Head(later).request \in Requests /\ Head(later).result \in Results /\ Head(later).result.ver \in Nat
    BY <1>28, SavedRuns DEF FinishSave
  <2>2. PICK request \in Requests, result \in Results :
           request = Head(later).request /\ result = Head(later).result /\ result.ver \in Nat
    BY <2>1
  <2>3. PICK w \in Tabs : w = SavedWorkspace(request, result.ver) /\ w.path \in Paths /\ w.disk \in Nat
    BY <2>2, SavedWorkspaceTypes DEF Requests
  <2>4. \/ UNCHANGED <<job, worker>>
        \/ FinishSaved(job, request, result.ver)
        \/ FinishFailed(request, result)
    BY <1>28, <2>2 DEF FinishSave
  <2>5. ASSUME FinishSaved(job, request, result.ver)
        PROVE  job' \in Jobs \cup {None} /\ worker' \in Workers \cup {None}
    BY <2>3, <2>5, TabTypes, SaveAtPathTypes DEF FinishSaved, Dispose
  <2> QED
    BY <2>4, <2>5, TabTypes DEF FinishFailed
<1> QED
  BY <1>1, <1>2, <1>3, <1>4, <1>5, <1>6, <1>7, <1>8, <1>9, <1>10, <1>11, <1>12, <1>13,
     <1>14, <1>15, <1>16, <1>17, <1>18, <1>19, <1>20, <1>21, <1>22, <1>23, <1>24, <1>25,
     <1>26, <1>27, <1>28
     DEF Next, Environment, User, Background, UIThread
LEMMA ConflictFlag == ASSUME NEW w \in Tabs PROVE [w EXCEPT !.conflict = TRUE] \in Tabs
BY DEF Tabs

LEMMA DialogForms ==
    ASSUME NEW kind \in {"replace", "conflict", "close"}, NEW path \in Paths, NEW ver \in Nat
    PROVE  [kind |-> kind, path |-> path, ver |-> ver] \in Dialogs
BY DEF Dialogs

LEMMA WsTypes ==
    ASSUME WorkspaceTypes, Next
    PROVE  ws' \in Tabs
<1> USE DEF history, saving, disk
<1>1. ASSUME NEW accepted \in BOOLEAN, Settle(accepted) PROVE ws' \in Tabs
  BY <1>1, TabTypes DEF Settle
<1>2. ASSUME NEW overwritten \in {{}} \cup {{e} : e \in 1 .. used.edits}, RemoteEdit(overwritten)
      PROVE  ws' \in Tabs
  BY <1>2, TabTypes DEF RemoteEdit
<1>3. ASSUME NEW path \in Paths, NEW deleted \in BOOLEAN, OutsideWrite(path, deleted) PROVE ws' \in Tabs
  BY <1>3, TabTypes DEF OutsideWrite
<1>4. ASSUME NEW kind \in {"stroke", "move"}, BeginGesture(kind) PROVE ws' \in Tabs
  BY <1>4, TabTypes DEF BeginGesture
<1>5. ASSUME NEW changed \in BOOLEAN, CommitOperation(changed) PROVE ws' \in Tabs
  BY <1>5, TabTypes DEF CommitOperation
<1>6. ASSUME NEW content \in {exec.content, {}}, Reattach(content) PROVE ws' \in Tabs
  BY <1>6, TabTypes DEF Reattach
<1>7. ASSUME NEW direction \in {"undo", "redo"}, BeginHistoryStep(direction) PROVE ws' \in Tabs
  BY <1>7, TabTypes DEF BeginHistoryStep
<1>8. CASE Save
  BY <1>8, TabTypes DEF Save
<1>9. ASSUME NEW path \in Paths, SaveAs(path) PROVE ws' \in Tabs
  BY <1>9, TabTypes DEF SaveAs
<1>10. ASSUME NEW d \in dialogs, ConfirmReplace(d) PROVE ws' \in Tabs
  BY <1>10, TabTypes DEF ConfirmReplace
<1>11. ASSUME NEW d \in dialogs, ConfirmOverwrite(d) PROVE ws' \in Tabs
  BY <1>11, TabTypes DEF ConfirmOverwrite
<1>12. ASSUME NEW d \in dialogs, CancelDialog(d) PROVE ws' \in Tabs
  BY <1>12, TabTypes DEF CancelDialog
<1>13. CASE CloseTab
  BY <1>13, TabTypes DEF CloseTab
<1>14. ASSUME NEW d \in dialogs, CloseSaving(d) PROVE ws' \in Tabs
  BY <1>14, TabTypes DEF CloseSaving
<1>15. ASSUME NEW d \in dialogs, CloseDiscarding(d) PROVE ws' \in Tabs
  BY <1>15, TabTypes DEF CloseDiscarding
<1>16. CASE HistoryWaitOver
  BY <1>16, TabTypes DEF HistoryWaitOver
<1>17. CASE PrepareHistoryInverse
  BY <1>17, TabTypes DEF PrepareHistoryInverse
<1>18. ASSUME NEW outcome \in {"ok", "error", "declined"}, WorkerStage(outcome) PROVE ws' \in Tabs
  BY <1>18, TabTypes DEF WorkerStage
<1>19. CASE WorkerCheck
  BY <1>19, TabTypes DEF WorkerCheck
<1>20. ASSUME NEW outcome \in {"replaced", "refused", "unsynced"}, WorkerReplace(outcome)
       PROVE  ws' \in Tabs
  BY <1>20, TabTypes DEF WorkerReplace
<1>21. CASE WorkerVerify
  BY <1>21, TabTypes DEF WorkerVerify
<1>22. ASSUME NEW read \in BOOLEAN, WorkerCaptureConflict(read) PROVE ws' \in Tabs
  BY <1>22, TabTypes DEF WorkerCaptureConflict
<1>23. CASE ProcessCollaborationUpdates
  BY <1>23, TabTypes DEF ProcessCollaborationUpdates
<1>24. CASE RunHistoryWaited
  BY <1>24, TabTypes DEF RunHistoryWaited
<1>25. CASE RunHistoryInverse
  BY <1>25, TabTypes DEF RunHistoryInverse
<1>26. CASE RunEditOutcome
  BY <1>26, TabTypes DEF RunEditOutcome
<1>27. CASE RunHistoryOutcome
  BY <1>27, TabTypes DEF RunHistoryOutcome
<1>28. CASE FinishSave
  <2>1. Head(later).request \in Requests /\ Head(later).result \in Results /\ Head(later).result.ver \in Nat
    BY <1>28, SavedRuns DEF FinishSave
  <2>2. PICK request \in Requests, result \in Results :
           request = Head(later).request /\ result = Head(later).result /\ result.ver \in Nat
    BY <2>1
  <2>3. \/ UNCHANGED ws
        \/ FinishSaved(job, request, result.ver)
        \/ FinishFailed(request, result)
    BY <1>28, <2>2 DEF FinishSave
  <2>4. SavedWorkspace(request, result.ver) \in Tabs
    BY <2>2, SavedWorkspaceTypes
  <2> QED
    BY <2>3, <2>4, TabTypes, ConflictFlag DEF FinishSaved, FinishFailed
<1> QED
  BY <1>1, <1>2, <1>3, <1>4, <1>5, <1>6, <1>7, <1>8, <1>9, <1>10, <1>11, <1>12, <1>13,
     <1>14, <1>15, <1>16, <1>17, <1>18, <1>19, <1>20, <1>21, <1>22, <1>23, <1>24, <1>25,
     <1>26, <1>27, <1>28
     DEF Next, Environment, User, Background, UIThread

LEMMA DialogsTypes ==
    ASSUME WorkspaceTypes, Next
    PROVE  dialogs' \subseteq Dialogs
<1> USE DEF history, saving, disk
<1>1. ASSUME NEW accepted \in BOOLEAN, Settle(accepted) PROVE dialogs' \subseteq Dialogs
  BY <1>1 DEF Settle, WorkspaceTypes, DiskTypes
<1>2. ASSUME NEW overwritten \in {{}} \cup {{e} : e \in 1 .. used.edits}, RemoteEdit(overwritten)
      PROVE  dialogs' \subseteq Dialogs
  BY <1>2 DEF RemoteEdit, WorkspaceTypes, DiskTypes
<1>3. ASSUME NEW path \in Paths, NEW deleted \in BOOLEAN, OutsideWrite(path, deleted)
      PROVE  dialogs' \subseteq Dialogs
  BY <1>3 DEF OutsideWrite, WorkspaceTypes, DiskTypes
<1>4. ASSUME NEW kind \in {"stroke", "move"}, BeginGesture(kind) PROVE dialogs' \subseteq Dialogs
  BY <1>4 DEF BeginGesture, WorkspaceTypes, DiskTypes
<1>5. ASSUME NEW changed \in BOOLEAN, CommitOperation(changed) PROVE dialogs' \subseteq Dialogs
  BY <1>5 DEF CommitOperation, WorkspaceTypes, DiskTypes
<1>6. ASSUME NEW content \in {exec.content, {}}, Reattach(content) PROVE dialogs' \subseteq Dialogs
  BY <1>6 DEF Reattach, WorkspaceTypes, DiskTypes
<1>7. ASSUME NEW direction \in {"undo", "redo"}, BeginHistoryStep(direction)
      PROVE  dialogs' \subseteq Dialogs
  BY <1>7 DEF BeginHistoryStep, WorkspaceTypes, DiskTypes
<1>8. CASE Save
  BY <1>8 DEF Save, WorkspaceTypes, DiskTypes
<1>9. ASSUME NEW path \in Paths, SaveAs(path) PROVE dialogs' \subseteq Dialogs
  <2>1. dialogs \subseteq Dialogs
    BY DEF WorkspaceTypes, DiskTypes
  <2>2. [kind |-> "replace", path |-> path, ver |-> files[path].ver] \in Dialogs
    BY <1>9, FileIs, DialogForms
  <2> QED
    BY <1>9, <2>1, <2>2 DEF SaveAs
<1>10. ASSUME NEW d \in dialogs, ConfirmReplace(d) PROVE dialogs' \subseteq Dialogs
  BY <1>10 DEF ConfirmReplace, WorkspaceTypes, DiskTypes
<1>11. ASSUME NEW d \in dialogs, ConfirmOverwrite(d) PROVE dialogs' \subseteq Dialogs
  BY <1>11 DEF ConfirmOverwrite, WorkspaceTypes, DiskTypes
<1>12. ASSUME NEW d \in dialogs, CancelDialog(d) PROVE dialogs' \subseteq Dialogs
  BY <1>12 DEF CancelDialog, WorkspaceTypes, DiskTypes
<1>13. CASE CloseTab
  <2>1. dialogs \subseteq Dialogs /\ [kind |-> "close", path |-> ws.path, ver |-> 0] \in Dialogs
    BY TabTypes, DialogForms DEF WorkspaceTypes, DiskTypes
  <2> QED
    BY <1>13, <2>1 DEF CloseTab, Dispose
<1>14. ASSUME NEW d \in dialogs, CloseSaving(d) PROVE dialogs' \subseteq Dialogs
  BY <1>14 DEF CloseSaving, WorkspaceTypes, DiskTypes
<1>15. ASSUME NEW d \in dialogs, CloseDiscarding(d) PROVE dialogs' \subseteq Dialogs
  BY <1>15 DEF CloseDiscarding, Dispose
<1>16. CASE HistoryWaitOver
  BY <1>16 DEF HistoryWaitOver, WorkspaceTypes, DiskTypes
<1>17. CASE PrepareHistoryInverse
  BY <1>17 DEF PrepareHistoryInverse, WorkspaceTypes, DiskTypes
<1>18. ASSUME NEW outcome \in {"ok", "error", "declined"}, WorkerStage(outcome)
       PROVE  dialogs' \subseteq Dialogs
  BY <1>18 DEF WorkerStage, WorkspaceTypes, DiskTypes
<1>19. CASE WorkerCheck
  BY <1>19 DEF WorkerCheck, WorkspaceTypes, DiskTypes
<1>20. ASSUME NEW outcome \in {"replaced", "refused", "unsynced"}, WorkerReplace(outcome)
       PROVE  dialogs' \subseteq Dialogs
  BY <1>20 DEF WorkerReplace, WorkspaceTypes, DiskTypes
<1>21. CASE WorkerVerify
  BY <1>21 DEF WorkerVerify, WorkspaceTypes, DiskTypes
<1>22. ASSUME NEW read \in BOOLEAN, WorkerCaptureConflict(read) PROVE dialogs' \subseteq Dialogs
  BY <1>22 DEF WorkerCaptureConflict, WorkspaceTypes, DiskTypes
<1>23. CASE ProcessCollaborationUpdates
  BY <1>23 DEF ProcessCollaborationUpdates, WorkspaceTypes, DiskTypes
<1>24. CASE RunHistoryWaited
  BY <1>24 DEF RunHistoryWaited, WorkspaceTypes, DiskTypes
<1>25. CASE RunHistoryInverse
  BY <1>25 DEF RunHistoryInverse, WorkspaceTypes, DiskTypes
<1>26. CASE RunEditOutcome
  BY <1>26 DEF RunEditOutcome, WorkspaceTypes, DiskTypes
<1>27. CASE RunHistoryOutcome
  BY <1>27 DEF RunHistoryOutcome, WorkspaceTypes, DiskTypes
<1>28. CASE FinishSave
  <2>1. Head(later).request \in Requests /\ Head(later).result \in Results /\ Head(later).result.ver \in Nat
    BY <1>28, SavedRuns DEF FinishSave
  <2>2. PICK request \in Requests, result \in Results :
           request = Head(later).request /\ result = Head(later).result /\ result.ver \in Nat
    BY <2>1
  <2>3. dialogs \subseteq Dialogs
    BY DEF WorkspaceTypes, DiskTypes
  <2>4. [kind |-> "conflict", path |-> ws.path, ver |-> result.ver] \in Dialogs
    BY <2>2, TabTypes, DialogForms
  <2> QED
    BY <1>28, <2>2, <2>3, <2>4 DEF FinishSave, FinishSaved, FinishFailed, Dispose
<1> QED
  BY <1>1, <1>2, <1>3, <1>4, <1>5, <1>6, <1>7, <1>8, <1>9, <1>10, <1>11, <1>12, <1>13,
     <1>14, <1>15, <1>16, <1>17, <1>18, <1>19, <1>20, <1>21, <1>22, <1>23, <1>24, <1>25,
     <1>26, <1>27, <1>28
     DEF Next, Environment, User, Background, UIThread

LEMMA AgreedTypes ==
    ASSUME WorkspaceTypes, Next
    PROVE  agreed' \subseteq Nat
<1> USE DEF history, saving, disk
<1>1. ASSUME NEW accepted \in BOOLEAN, Settle(accepted) PROVE agreed' \subseteq Nat
  BY <1>1 DEF Settle, WorkspaceTypes, DiskTypes
<1>2. ASSUME NEW overwritten \in {{}} \cup {{e} : e \in 1 .. used.edits}, RemoteEdit(overwritten)
      PROVE  agreed' \subseteq Nat
  BY <1>2 DEF RemoteEdit, WorkspaceTypes, DiskTypes
<1>3. ASSUME NEW path \in Paths, NEW deleted \in BOOLEAN, OutsideWrite(path, deleted)
      PROVE  agreed' \subseteq Nat
  BY <1>3 DEF OutsideWrite, WorkspaceTypes, DiskTypes
<1>4. ASSUME NEW kind \in {"stroke", "move"}, BeginGesture(kind) PROVE agreed' \subseteq Nat
  BY <1>4 DEF BeginGesture, WorkspaceTypes, DiskTypes
<1>5. ASSUME NEW changed \in BOOLEAN, CommitOperation(changed) PROVE agreed' \subseteq Nat
  BY <1>5 DEF CommitOperation, WorkspaceTypes, DiskTypes
<1>6. ASSUME NEW content \in {exec.content, {}}, Reattach(content) PROVE agreed' \subseteq Nat
  BY <1>6 DEF Reattach, WorkspaceTypes, DiskTypes
<1>7. ASSUME NEW direction \in {"undo", "redo"}, BeginHistoryStep(direction) PROVE agreed' \subseteq Nat
  BY <1>7 DEF BeginHistoryStep, WorkspaceTypes, DiskTypes
<1>8. CASE Save
  BY <1>8 DEF Save, WorkspaceTypes, DiskTypes
<1>9. ASSUME NEW path \in Paths, SaveAs(path) PROVE agreed' \subseteq Nat
  BY <1>9 DEF SaveAs, WorkspaceTypes, DiskTypes
<1>10. ASSUME NEW d \in dialogs, ConfirmReplace(d) PROVE agreed' \subseteq Nat
  BY <1>10, DialogTypes DEF ConfirmReplace, WorkspaceTypes, DiskTypes
<1>11. ASSUME NEW d \in dialogs, ConfirmOverwrite(d) PROVE agreed' \subseteq Nat
  BY <1>11, DialogTypes DEF ConfirmOverwrite, WorkspaceTypes, DiskTypes
<1>12. ASSUME NEW d \in dialogs, CancelDialog(d) PROVE agreed' \subseteq Nat
  BY <1>12 DEF CancelDialog, WorkspaceTypes, DiskTypes
<1>13. CASE CloseTab
  BY <1>13 DEF CloseTab, WorkspaceTypes, DiskTypes
<1>14. ASSUME NEW d \in dialogs, CloseSaving(d) PROVE agreed' \subseteq Nat
  BY <1>14 DEF CloseSaving, WorkspaceTypes, DiskTypes
<1>15. ASSUME NEW d \in dialogs, CloseDiscarding(d) PROVE agreed' \subseteq Nat
  BY <1>15 DEF CloseDiscarding, WorkspaceTypes, DiskTypes
<1>16. CASE HistoryWaitOver
  BY <1>16 DEF HistoryWaitOver, WorkspaceTypes, DiskTypes
<1>17. CASE PrepareHistoryInverse
  BY <1>17 DEF PrepareHistoryInverse, WorkspaceTypes, DiskTypes
<1>18. ASSUME NEW outcome \in {"ok", "error", "declined"}, WorkerStage(outcome)
       PROVE  agreed' \subseteq Nat
  BY <1>18 DEF WorkerStage, WorkspaceTypes, DiskTypes
<1>19. CASE WorkerCheck
  BY <1>19 DEF WorkerCheck, WorkspaceTypes, DiskTypes
<1>20. ASSUME NEW outcome \in {"replaced", "refused", "unsynced"}, WorkerReplace(outcome)
       PROVE  agreed' \subseteq Nat
  BY <1>20 DEF WorkerReplace, WorkspaceTypes, DiskTypes
<1>21. CASE WorkerVerify
  BY <1>21 DEF WorkerVerify, WorkspaceTypes, DiskTypes
<1>22. ASSUME NEW read \in BOOLEAN, WorkerCaptureConflict(read) PROVE agreed' \subseteq Nat
  BY <1>22 DEF WorkerCaptureConflict, WorkspaceTypes, DiskTypes
<1>23. CASE ProcessCollaborationUpdates
  BY <1>23 DEF ProcessCollaborationUpdates, WorkspaceTypes, DiskTypes
<1>24. CASE RunHistoryWaited
  BY <1>24 DEF RunHistoryWaited, WorkspaceTypes, DiskTypes
<1>25. CASE RunHistoryInverse
  BY <1>25 DEF RunHistoryInverse, WorkspaceTypes, DiskTypes
<1>26. CASE RunEditOutcome
  BY <1>26 DEF RunEditOutcome, WorkspaceTypes, DiskTypes
<1>27. CASE RunHistoryOutcome
  BY <1>27 DEF RunHistoryOutcome, WorkspaceTypes, DiskTypes
<1>28. CASE FinishSave
  BY <1>28 DEF FinishSave, WorkspaceTypes, DiskTypes
<1> QED
  BY <1>1, <1>2, <1>3, <1>4, <1>5, <1>6, <1>7, <1>8, <1>9, <1>10, <1>11, <1>12, <1>13,
     <1>14, <1>15, <1>16, <1>17, <1>18, <1>19, <1>20, <1>21, <1>22, <1>23, <1>24, <1>25,
     <1>26, <1>27, <1>28
     DEF Next, Environment, User, Background, UIThread

LEMMA FileChange ==
    ASSUME WorkspaceTypes, NEW p \in Paths, NEW f \in Contents
    PROVE  [files EXCEPT ![p] = f] \in [Paths -> Contents]
BY DEF WorkspaceTypes, DiskTypes

LEMMA MarkFailed ==
    ASSUME WorkspaceTypes, NEW p \in Paths
    PROVE  [files EXCEPT ![p].origin = "failed"] \in [Paths -> Contents]
<1>1. [files[p] EXCEPT !.origin = "failed"] \in Contents
  BY FileIs DEF Contents
<1> QED
  BY <1>1 DEF WorkspaceTypes, DiskTypes

LEMMA FilesTypes ==
    ASSUME WorkspaceTypes, Next
    PROVE  files' \in [Paths -> Contents]
<1> USE DEF history, saving, disk
<1>1. ASSUME NEW accepted \in BOOLEAN, Settle(accepted) PROVE files' \in [Paths -> Contents]
  BY <1>1 DEF Settle, WorkspaceTypes, DiskTypes
<1>2. ASSUME NEW overwritten \in {{}} \cup {{e} : e \in 1 .. used.edits}, RemoteEdit(overwritten)
      PROVE  files' \in [Paths -> Contents]
  BY <1>2 DEF RemoteEdit, WorkspaceTypes, DiskTypes
<1>3. ASSUME NEW path \in Paths, NEW deleted \in BOOLEAN, OutsideWrite(path, deleted)
      PROVE  files' \in [Paths -> Contents]
  <2>1. NoFile \in Contents /\ used.versions + 1 \in Nat
    BY DEF NoFile, File, Contents, WorkspaceTypes, SessionTypes, Bounds
  <2>2. File(used.versions + 1, OutsideContent, "outside") \in Contents
    BY <2>1, FileTypes DEF OutsideContent
  <2> QED
    BY <1>3, <2>1, <2>2, FileChange DEF OutsideWrite
<1>4. ASSUME NEW kind \in {"stroke", "move"}, BeginGesture(kind) PROVE files' \in [Paths -> Contents]
  BY <1>4 DEF BeginGesture, WorkspaceTypes, DiskTypes
<1>5. ASSUME NEW changed \in BOOLEAN, CommitOperation(changed) PROVE files' \in [Paths -> Contents]
  BY <1>5 DEF CommitOperation, WorkspaceTypes, DiskTypes
<1>6. ASSUME NEW content \in {exec.content, {}}, Reattach(content) PROVE files' \in [Paths -> Contents]
  BY <1>6 DEF Reattach, WorkspaceTypes, DiskTypes
<1>7. ASSUME NEW direction \in {"undo", "redo"}, BeginHistoryStep(direction)
      PROVE  files' \in [Paths -> Contents]
  BY <1>7 DEF BeginHistoryStep, WorkspaceTypes, DiskTypes
<1>8. CASE Save
  BY <1>8 DEF Save, WorkspaceTypes, DiskTypes
<1>9. ASSUME NEW path \in Paths, SaveAs(path) PROVE files' \in [Paths -> Contents]
  BY <1>9 DEF SaveAs, WorkspaceTypes, DiskTypes
<1>10. ASSUME NEW d \in dialogs, ConfirmReplace(d) PROVE files' \in [Paths -> Contents]
  BY <1>10 DEF ConfirmReplace, WorkspaceTypes, DiskTypes
<1>11. ASSUME NEW d \in dialogs, ConfirmOverwrite(d) PROVE files' \in [Paths -> Contents]
  BY <1>11 DEF ConfirmOverwrite, WorkspaceTypes, DiskTypes
<1>12. ASSUME NEW d \in dialogs, CancelDialog(d) PROVE files' \in [Paths -> Contents]
  BY <1>12 DEF CancelDialog, WorkspaceTypes, DiskTypes
<1>13. CASE CloseTab
  BY <1>13 DEF CloseTab, WorkspaceTypes, DiskTypes
<1>14. ASSUME NEW d \in dialogs, CloseSaving(d) PROVE files' \in [Paths -> Contents]
  BY <1>14 DEF CloseSaving, WorkspaceTypes, DiskTypes
<1>15. ASSUME NEW d \in dialogs, CloseDiscarding(d) PROVE files' \in [Paths -> Contents]
  BY <1>15 DEF CloseDiscarding, WorkspaceTypes, DiskTypes
<1>16. CASE HistoryWaitOver
  BY <1>16 DEF HistoryWaitOver, WorkspaceTypes, DiskTypes
<1>17. CASE PrepareHistoryInverse
  BY <1>17 DEF PrepareHistoryInverse, WorkspaceTypes, DiskTypes
<1>18. ASSUME NEW outcome \in {"ok", "error", "declined"}, WorkerStage(outcome)
       PROVE  files' \in [Paths -> Contents]
  BY <1>18 DEF WorkerStage, WorkspaceTypes, DiskTypes
<1>19. CASE WorkerCheck
  BY <1>19 DEF WorkerCheck, WorkspaceTypes, DiskTypes
<1>20. ASSUME NEW outcome \in {"replaced", "refused", "unsynced"}, WorkerReplace(outcome)
       PROVE  files' \in [Paths -> Contents]
  <2>1. worker.request.path \in Paths /\ worker.request.content \in SUBSET Int /\ used.versions + 1 \in Nat
    BY <1>20, WorkerIs DEF WorkerReplace, Requests, WorkspaceTypes, SessionTypes, Bounds
  <2>2. PICK origin \in {"saved", "failed"} :
           files' = files \/ files' = [files EXCEPT ![worker.request.path] = File(used.versions + 1, worker.request.content, origin)]
    BY <1>20 DEF WorkerReplace
  <2>3. File(used.versions + 1, worker.request.content, origin) \in Contents
    BY <2>1, FileTypes
  <2> QED
    BY <2>1, <2>2, <2>3, FileChange DEF WorkspaceTypes, DiskTypes
<1>21. CASE WorkerVerify
  BY <1>21 DEF WorkerVerify, WorkspaceTypes, DiskTypes
<1>22. ASSUME NEW read \in BOOLEAN, WorkerCaptureConflict(read) PROVE files' \in [Paths -> Contents]
  BY <1>22 DEF WorkerCaptureConflict, WorkspaceTypes, DiskTypes
<1>23. CASE ProcessCollaborationUpdates
  BY <1>23 DEF ProcessCollaborationUpdates, WorkspaceTypes, DiskTypes
<1>24. CASE RunHistoryWaited
  BY <1>24 DEF RunHistoryWaited, WorkspaceTypes, DiskTypes
<1>25. CASE RunHistoryInverse
  BY <1>25 DEF RunHistoryInverse, WorkspaceTypes, DiskTypes
<1>26. CASE RunEditOutcome
  BY <1>26 DEF RunEditOutcome, WorkspaceTypes, DiskTypes
<1>27. CASE RunHistoryOutcome
  BY <1>27 DEF RunHistoryOutcome, WorkspaceTypes, DiskTypes
<1>28. CASE FinishSave
  <2>1. Head(later).request \in Requests /\ Head(later).result \in Results /\ Head(later).result.ver \in Nat
    BY <1>28, SavedRuns DEF FinishSave
  <2>2. PICK request \in Requests, result \in Results :
           request = Head(later).request /\ result = Head(later).result /\ result.ver \in Nat
    BY <2>1
  <2>3. files' = files \/ files' = [files EXCEPT ![request.path].origin = "failed"]
    BY <1>28, <2>2 DEF FinishSave, FinishFailed
  <2>4. request.path \in Paths
    BY DEF Requests
  <2> QED
    BY <2>3, <2>4, MarkFailed DEF WorkspaceTypes, DiskTypes
<1> QED
  BY <1>1, <1>2, <1>3, <1>4, <1>5, <1>6, <1>7, <1>8, <1>9, <1>10, <1>11, <1>12, <1>13,
     <1>14, <1>15, <1>16, <1>17, <1>18, <1>19, <1>20, <1>21, <1>22, <1>23, <1>24, <1>25,
     <1>26, <1>27, <1>28
     DEF Next, Environment, User, Background, UIThread

LEMMA LaterTypes ==
    ASSUME WorkspaceTypes, Next
    PROVE  later' \in Seq(Closures)
<1> USE DEF history, saving, disk
<1>1. ASSUME NEW accepted \in BOOLEAN, Settle(accepted) PROVE later' \in Seq(Closures)
  <2>1. later \in Seq(Closures) /\ Head(inflight) \in Operations
    BY <1>1, HeadTail DEF Settle, HasUnacknowledgedOperations, WorkspaceTypes, SessionTypes
  <2>2. [kind |-> "outcome", op |-> Head(inflight), ok |-> accepted] \in Closures
    BY <2>1, ClosureForms
  <2>3. Append(later, [kind |-> "outcome", op |-> Head(inflight), ok |-> accepted]) \in Seq(Closures)
    BY <2>1, <2>2, AppendOne
  <2> QED
    BY <1>1, <2>3 DEF Settle
<1>2. ASSUME NEW overwritten \in {{}} \cup {{e} : e \in 1 .. used.edits}, RemoteEdit(overwritten)
      PROVE  later' \in Seq(Closures)
  BY <1>2 DEF RemoteEdit, WorkspaceTypes
<1>3. ASSUME NEW path \in Paths, NEW deleted \in BOOLEAN, OutsideWrite(path, deleted)
      PROVE  later' \in Seq(Closures)
  BY <1>3 DEF OutsideWrite, WorkspaceTypes
<1>4. ASSUME NEW kind \in {"stroke", "move"}, BeginGesture(kind) PROVE later' \in Seq(Closures)
  BY <1>4 DEF BeginGesture, WorkspaceTypes
<1>5. ASSUME NEW changed \in BOOLEAN, CommitOperation(changed) PROVE later' \in Seq(Closures)
  BY <1>5 DEF CommitOperation, WorkspaceTypes
<1>6. ASSUME NEW content \in {exec.content, {}}, Reattach(content) PROVE later' \in Seq(Closures)
  BY <1>6 DEF Reattach, WorkspaceTypes
<1>7. ASSUME NEW direction \in {"undo", "redo"}, BeginHistoryStep(direction)
      PROVE  later' \in Seq(Closures)
  BY <1>7 DEF BeginHistoryStep, WorkspaceTypes
<1>8. CASE Save
  BY <1>8 DEF Save, WorkspaceTypes
<1>9. ASSUME NEW path \in Paths, SaveAs(path) PROVE later' \in Seq(Closures)
  BY <1>9 DEF SaveAs, WorkspaceTypes
<1>10. ASSUME NEW d \in dialogs, ConfirmReplace(d) PROVE later' \in Seq(Closures)
  BY <1>10 DEF ConfirmReplace, WorkspaceTypes
<1>11. ASSUME NEW d \in dialogs, ConfirmOverwrite(d) PROVE later' \in Seq(Closures)
  BY <1>11 DEF ConfirmOverwrite, WorkspaceTypes
<1>12. ASSUME NEW d \in dialogs, CancelDialog(d) PROVE later' \in Seq(Closures)
  BY <1>12 DEF CancelDialog, WorkspaceTypes
<1>13. CASE CloseTab
  BY <1>13 DEF CloseTab, WorkspaceTypes
<1>14. ASSUME NEW d \in dialogs, CloseSaving(d) PROVE later' \in Seq(Closures)
  BY <1>14 DEF CloseSaving, WorkspaceTypes
<1>15. ASSUME NEW d \in dialogs, CloseDiscarding(d) PROVE later' \in Seq(Closures)
  BY <1>15 DEF CloseDiscarding, WorkspaceTypes
<1>16. CASE HistoryWaitOver
  <2>1. later \in Seq(Closures)
    BY DEF WorkspaceTypes
  <2>2. Append(later, [kind |-> "waited"]) \in Seq(Closures)
    BY <2>1, ClosureForms, AppendOne
  <2> QED
    BY <1>16, <2>2 DEF HistoryWaitOver
<1>17. CASE PrepareHistoryInverse
  <2>1. later \in Seq(Closures)
    BY DEF WorkspaceTypes
  <2>2. PICK ok \in BOOLEAN : later' = Append(later, [kind |-> "inverse", ok |-> ok])
    <3>1. (step.command.id \in exec.content) \in BOOLEAN
      OBVIOUS
    <3>2. later' = Append(later, [kind |-> "inverse", ok |-> step.command.id \in exec.content])
      BY <1>17 DEF PrepareHistoryInverse
    <3> QED
      BY <3>1, <3>2, Zenon
  <2>3. Append(later, [kind |-> "inverse", ok |-> ok]) \in Seq(Closures)
    BY <2>1, ClosureForms, AppendOne
  <2> QED
    BY <2>2, <2>3
<1>18. ASSUME NEW outcome \in {"ok", "error", "declined"}, WorkerStage(outcome)
       PROVE  later' \in Seq(Closures)
  <2>1. later \in Seq(Closures) /\ worker.request \in Requests
    BY <1>18, WorkerIs DEF WorkerStage, WorkspaceTypes
  <2>2. later' = later \/ \E r \in Results : later' = Append(later, [kind |-> "saved", request |-> worker.request, result |-> r])
    <3>1. outcome # "ok" => Result(outcome, 0) \in Results
      BY DEF Result, Results
    <3> QED
      BY <1>18, <3>1 DEF WorkerStage, Deliver
  <2>3. ASSUME NEW r \in Results
        PROVE  Append(later, [kind |-> "saved", request |-> worker.request, result |-> r]) \in Seq(Closures)
    BY <2>1, ClosureForms, AppendOne
  <2> QED
    BY <2>1, <2>2, <2>3
<1>19. CASE WorkerCheck
  BY <1>19 DEF WorkerCheck, WorkspaceTypes
<1>20. ASSUME NEW outcome \in {"replaced", "refused", "unsynced"}, WorkerReplace(outcome)
       PROVE  later' \in Seq(Closures)
  <2>1. later \in Seq(Closures) /\ worker.request \in Requests
    BY <1>20, WorkerIs DEF WorkerReplace, WorkspaceTypes
  <2>2. later' = later \/ \E r \in Results : later' = Append(later, [kind |-> "saved", request |-> worker.request, result |-> r])
    <3>1. Result("error", 0) \in Results
      BY DEF Result, Results
    <3> QED
      BY <1>20, <3>1 DEF WorkerReplace, Deliver
  <2>3. ASSUME NEW r \in Results
        PROVE  Append(later, [kind |-> "saved", request |-> worker.request, result |-> r]) \in Seq(Closures)
    BY <2>1, ClosureForms, AppendOne
  <2> QED
    BY <2>1, <2>2, <2>3
<1>21. CASE WorkerVerify
  <2>1. later \in Seq(Closures) /\ worker.request \in Requests
    BY <1>21, WorkerIs DEF WorkerVerify, WorkspaceTypes
  <2>2. later' = later \/ \E r \in Results : later' = Append(later, [kind |-> "saved", request |-> worker.request, result |-> r])
    <3>1. files[worker.request.path].ver \in Nat
      BY <1>21, WorkerIs, FileIs DEF WorkerVerify
    <3>2. \A v \in Nat : Result("saved", v) \in Results
      BY DEF Result, Results
    <3> QED
      BY <1>21, <3>1, <3>2 DEF WorkerVerify, Deliver
  <2>3. ASSUME NEW r \in Results
        PROVE  Append(later, [kind |-> "saved", request |-> worker.request, result |-> r]) \in Seq(Closures)
    BY <2>1, ClosureForms, AppendOne
  <2> QED
    BY <2>1, <2>2, <2>3
<1>22. ASSUME NEW read \in BOOLEAN, WorkerCaptureConflict(read) PROVE later' \in Seq(Closures)
  <2>1. later \in Seq(Closures) /\ worker.request \in Requests
    BY <1>22, WorkerIs DEF WorkerCaptureConflict, WorkspaceTypes
  <2>2. later' = later \/ \E r \in Results : later' = Append(later, [kind |-> "saved", request |-> worker.request, result |-> r])
    <3>1. files[worker.request.path].ver \in Nat
      BY <1>22, WorkerIs, FileIs DEF WorkerCaptureConflict
    <3>2. \A v \in Nat : Result("conflict", v) \in Results /\ Result("error", 0) \in Results
      BY DEF Result, Results
    <3> QED
      BY <1>22, <3>1, <3>2 DEF WorkerCaptureConflict, Deliver
  <2>3. ASSUME NEW r \in Results
        PROVE  Append(later, [kind |-> "saved", request |-> worker.request, result |-> r]) \in Seq(Closures)
    BY <2>1, ClosureForms, AppendOne
  <2> QED
    BY <2>1, <2>2, <2>3
<1>23. CASE ProcessCollaborationUpdates
  BY <1>23 DEF ProcessCollaborationUpdates, WorkspaceTypes
<1>24. CASE RunHistoryWaited
  <2>1. later \in Seq(Closures) /\ later # <<>> /\ later' = Tail(later)
    BY <1>24 DEF RunHistoryWaited, Run, WorkspaceTypes
  <2> QED
    BY <2>1, HeadTail
<1>25. CASE RunHistoryInverse
  <2>1. later \in Seq(Closures) /\ later # <<>> /\ later' = Tail(later)
    BY <1>25 DEF RunHistoryInverse, Run, WorkspaceTypes
  <2> QED
    BY <2>1, HeadTail
<1>26. CASE RunEditOutcome
  <2>1. later \in Seq(Closures) /\ later # <<>> /\ later' = Tail(later)
    BY <1>26 DEF RunEditOutcome, Run, WorkspaceTypes
  <2> QED
    BY <2>1, HeadTail
<1>27. CASE RunHistoryOutcome
  <2>1. later \in Seq(Closures) /\ later # <<>> /\ later' = Tail(later)
    BY <1>27 DEF RunHistoryOutcome, Run, WorkspaceTypes
  <2> QED
    BY <2>1, HeadTail
<1>28. CASE FinishSave
  <2>1. later \in Seq(Closures) /\ later # <<>> /\ later' = Tail(later)
    BY <1>28 DEF FinishSave, Run, WorkspaceTypes
  <2> QED
    BY <2>1, HeadTail
<1> QED
  BY <1>1, <1>2, <1>3, <1>4, <1>5, <1>6, <1>7, <1>8, <1>9, <1>10, <1>11, <1>12, <1>13,
     <1>14, <1>15, <1>16, <1>17, <1>18, <1>19, <1>20, <1>21, <1>22, <1>23, <1>24, <1>25,
     <1>26, <1>27, <1>28
     DEF Next, Environment, User, Background, UIThread

(* Types are kept. *)
LEMMA TypesStep ==
    ASSUME WorkspaceTypes, Tokens, Next
    PROVE  WorkspaceTypes'
<1>1. SessionTypes'
  BY ExecTypes, InflightTypes, UsedTypes, ViewTypes DEF SessionTypes
<1>2. HistoryTypes'
  BY HistoryTypesStep DEF HistoryTypes
<1>3. DiskTypes'
  BY WsTypes, SaveTypes, FilesTypes, DialogsTypes, AgreedTypes DEF DiskTypes
<1> QED
  BY <1>1, <1>2, <1>3, LaterTypes DEF WorkspaceTypes

LEMMA TypesInit == ASSUME Init PROVE WorkspaceTypes
<1>1. SessionTypes
  BY DEF Init, SessionTypes, Documents, Bounds, Views
<1>2. HistoryTypes
  BY DEF Init, HistoryTypes, EmptyStack, Stacks
<1>3. ws \in Tabs /\ job = None /\ worker = None /\ dialogs = {} /\ agreed = {}
  BY WorkspaceAssumption DEF Init, Tabs
<1>4. files \in [Paths -> Contents]
  <2>1. File(1, {}, "saved") \in Contents /\ NoFile \in Contents
    BY DEF File, NoFile, Contents
  <2> QED
    BY <2>1 DEF Init
<1>5. later \in Seq(Closures)
  BY DEF Init
<1> QED
  BY <1>1, <1>2, <1>3, <1>4, <1>5 DEF WorkspaceTypes, DiskTypes
-----------------------------------------------------------------------------------
(* Nothing waits for an answer nobody will give. *)

(* The step keeps what it waits for, at another place perhaps. *)
LEMMA TokensCarried ==
    ASSUME Tokens, step' = step, stack'.busy <=> stack.busy, NEW m \in {0, 1}, NEW n \in {0, 1},
           \A i \in 1 .. Len(later') : HistoryClosure(later'[i]) =>
               i + m \in 1 .. Len(later) /\ later[i + m] = later'[i],
           \A i \in 1 .. Len(later) : HistoryClosure(later[i]) =>
               i - m \in 1 .. Len(later') /\ later'[i - m] = later[i],
           \A i \in 1 .. Len(inflight') : HistoryOperation(inflight'[i]) =>
               i + n \in 1 .. Len(inflight) /\ inflight[i + n] = inflight'[i],
           \A i \in 1 .. Len(inflight) : HistoryOperation(inflight[i]) =>
               i - n \in 1 .. Len(inflight') /\ inflight'[i - n] = inflight[i]
    PROVE  Tokens'
<1>1. ClosuresBelong'
  BY DEF Tokens, ClosuresBelong, SentByStep
<1>2. OperationsBelong'
  BY DEF Tokens, OperationsBelong, SentByStep
<1>3. OneHistoryClosure'
  <2> SUFFICES ASSUME NEW i \in 1 .. Len(later'), NEW j \in 1 .. Len(later'),
                      HistoryClosure(later'[i]), HistoryClosure(later'[j])
               PROVE  i = j
    BY DEF OneHistoryClosure
  <2>1. i + m = j + m
    BY DEF Tokens, OneHistoryClosure
  <2> QED
    BY <2>1
<1>4. OneHistoryOperation'
  <2> SUFFICES ASSUME NEW i \in 1 .. Len(inflight'), NEW j \in 1 .. Len(inflight'),
                      HistoryOperation(inflight'[i]), HistoryOperation(inflight'[j])
               PROVE  i = j
    BY DEF OneHistoryOperation
  <2>1. i + n = j + n
    BY DEF Tokens, OneHistoryOperation
  <2> QED
    BY <2>1
<1>5. OneOrTheOther'
  <2> SUFFICES ASSUME NEW i \in 1 .. Len(inflight'), NEW j \in 1 .. Len(later'),
                      HistoryOperation(inflight'[i]), HistoryClosure(later'[j])
               PROVE  FALSE
    BY DEF OneOrTheOther
  <2>1. i + n \in 1 .. Len(inflight) /\ HistoryOperation(inflight[i + n])
    OBVIOUS
  <2>2. j + m \in 1 .. Len(later) /\ HistoryClosure(later[j + m])
    OBVIOUS
  <2> QED
    BY <2>1, <2>2 DEF Tokens, OneOrTheOther
<1>6. StepIsAnswered'
  <2>1. ASSUME NEW i \in 1 .. Len(later), HistoryClosure(later[i])
        PROVE  \E j \in 1 .. Len(later') : HistoryClosure(later'[j])
    BY <2>1
  <2>2. ASSUME NEW i \in 1 .. Len(inflight), HistoryOperation(inflight[i])
        PROVE  \E j \in 1 .. Len(inflight') : HistoryOperation(inflight'[j])
    BY <2>2
  <2> QED
    BY <2>1, <2>2 DEF Tokens, StepIsAnswered
<1> QED
  BY <1>1, <1>2, <1>3, <1>4, <1>5, <1>6 DEF Tokens, BusyIsStep

NoTokens ==
    /\ \A i \in 1 .. Len(later) : ~HistoryClosure(later[i])
    /\ \A i \in 1 .. Len(inflight) : ~HistoryOperation(inflight[i])

LEMMA TokensNone ==
    ASSUME NoTokens', step' = None \/ step'.pc \in {"wait", "inverse"}, stack'.busy <=> step' # None
    PROVE  Tokens'
BY DEF NoTokens, Tokens, ClosuresBelong, OperationsBelong, OneHistoryClosure, OneHistoryOperation,
       OneOrTheOther, StepIsAnswered, BusyIsStep

LEMMA TokensClosure ==
    ASSUME NEW l \in Seq(Closures), NEW c \in Closures, later' = Append(l, c), HistoryClosure(c),
           \A i \in 1 .. Len(l) : ~HistoryClosure(l[i]),
           \A i \in 1 .. Len(inflight') : ~HistoryOperation(inflight'[i]),
           step' # None, stack'.busy,
           c.kind = "waited" => step'.pc = "waited",
           c.kind = "inverse" => step'.pc = "prepared",
           c.kind = "outcome" => /\ step'.pc = "sent" /\ c.op.kind = step'.direction
                                 /\ c.op.edit = step'.command.id /\ c.op.gen = step'.command.gen
    PROVE  Tokens'
<1>1. /\ Len(l) + 1 \in 1 .. Len(later') /\ later'[Len(l) + 1] = c
      /\ \A i \in 1 .. Len(later') : HistoryClosure(later'[i]) => i = Len(l) + 1
  BY AppendOne
<1> QED
  BY <1>1 DEF Tokens, ClosuresBelong, OperationsBelong, OneHistoryClosure, OneHistoryOperation,
       OneOrTheOther, StepIsAnswered, BusyIsStep, SentByStep

LEMMA TokensOperation ==
    ASSUME NEW l \in Seq(Operations), NEW op \in Operations, inflight' = Append(l, op), HistoryOperation(op),
           \A i \in 1 .. Len(l) : ~HistoryOperation(l[i]),
           \A i \in 1 .. Len(later') : ~HistoryClosure(later'[i]),
           step' # None, stack'.busy, step'.pc = "sent", op.kind = step'.direction,
           op.edit = step'.command.id, op.gen = step'.command.gen
    PROVE  Tokens'
<1>1. /\ Len(l) + 1 \in 1 .. Len(inflight') /\ inflight'[Len(l) + 1] = op
      /\ \A i \in 1 .. Len(inflight') : HistoryOperation(inflight'[i]) => i = Len(l) + 1
  BY AppendOne
<1> QED
  BY <1>1 DEF Tokens, ClosuresBelong, OperationsBelong, OneHistoryClosure, OneHistoryOperation,
       OneOrTheOther, StepIsAnswered, BusyIsStep, SentByStep

LEMMA NoTokensYet ==
    ASSUME Tokens, step = None \/ step.pc \in {"wait", "inverse"}
    PROVE  NoTokens
BY DEF Tokens, ClosuresBelong, OperationsBelong, NoTokens, HistoryClosure

LEMMA NoTokensLeft ==
    ASSUME WorkspaceTypes, Tokens, later # <<>>, HistoryClosure(Head(later))
    PROVE  /\ \A i \in 1 .. Len(Tail(later)) : ~HistoryClosure(Tail(later)[i])
           /\ \A i \in 1 .. Len(inflight) : ~HistoryOperation(inflight[i])
<1>1. later \in Seq(Closures)
  BY DEF WorkspaceTypes
<1>2. 1 \in 1 .. Len(later) /\ HistoryClosure(later[1]) /\ Len(Tail(later)) \in Nat
  BY <1>1, HeadTail
<1>3. ASSUME NEW i \in 1 .. Len(Tail(later)), HistoryClosure(Tail(later)[i])
      PROVE  FALSE
  <2>1. i + 1 \in 1 .. Len(later) /\ HistoryClosure(later[i + 1])
    BY <1>1, <1>3, HeadTail
  <2>2. i + 1 = 1
    BY <2>1, <1>2 DEF Tokens, OneHistoryClosure
  <2> QED
    BY <2>2, <1>2
<1> QED
  BY <1>2, <1>3 DEF Tokens, OneOrTheOther

LEMMA TokensProceed ==
    ASSUME WorkspaceTypes, NEW h \in Steps, Proceed(h), h.command.gen = view.gen,
           \A i \in 1 .. Len(inflight) : ~HistoryOperation(inflight[i]),
           \A i \in 1 .. Len(later') : ~HistoryClosure(later'[i])
    PROVE  Tokens'
<1>0. stack \in Stacks /\ inflight \in Seq(Operations) /\ view \in Views
  BY DEF WorkspaceTypes, HistoryTypes, SessionTypes
<1>1. [stack EXCEPT !.busy = TRUE].busy
  BY <1>0, StackBusy DEF IsStack
<1>2. CASE h.direction = "undo"
  <2>1. step' = [h EXCEPT !.pc = "inverse"] /\ stack'.busy /\ inflight' = inflight
    BY <1>1, <1>2 DEF Proceed
  <2>2. step' # None /\ step'.pc = "inverse"
    BY <2>1, StepPc, NotNone
  <2> QED
    BY <2>1, <2>2, TokensNone DEF NoTokens
<1>3. CASE h.direction # "undo" /\ h.command.id \in exec.taken \cup exec.content
  <2>1. step' = None /\ stack' = Completed(stack, h, FALSE) /\ inflight' = inflight
    BY <1>3 DEF Proceed
  <2>2. ~stack'.busy
    BY <1>0, <2>1, CompletedTypes
  <2> QED
    BY <2>1, <2>2, TokensNone DEF NoTokens
<1>4. CASE h.direction # "undo" /\ h.command.id \notin exec.taken \cup exec.content
  <2>1. h.direction = "redo" /\ h.command.id \in Nat
    BY <1>4 DEF Steps, Commands
  <2>2. PICK op \in Operations : op = Operation("redo", h.command.id)
    BY <1>0, <2>1, OperationTypes
  <2>3. op.kind = "redo" /\ op.edit = h.command.id /\ op.gen = view.gen
    BY <2>2 DEF Operation
  <2>4. step' = [h EXCEPT !.pc = "sent"] /\ stack'.busy /\ inflight' = Append(inflight, op)
    BY <1>1, <1>4, <2>2 DEF Proceed
  <2>5. step' \in Steps /\ step'.pc = "sent" /\ step'.direction = "redo" /\ step'.command = h.command
    BY <2>1, <2>4, StepPc
  <2>6. step' # None /\ HistoryOperation(op)
    BY <2>3, <2>5, NotNone DEF HistoryOperation
  <2> QED
    BY <1>0, <2>3, <2>4, <2>5, <2>6, TokensOperation DEF NoTokens
<1> QED
  BY <1>2, <1>3, <1>4

LEMMA TokensComplete ==
    ASSUME WorkspaceTypes, step \in Steps, NEW ok \in BOOLEAN, Complete(ok), inflight' = inflight,
           \A i \in 1 .. Len(inflight) : ~HistoryOperation(inflight[i]),
           \A i \in 1 .. Len(later') : ~HistoryClosure(later'[i])
    PROVE  Tokens'
<1>1. step' = None /\ ~stack'.busy
  BY CompleteTypes DEF WorkspaceTypes, HistoryTypes
<1> QED
  BY <1>1, TokensNone DEF NoTokens

(* An action that leaves the history and its messages alone, *)
LEMMA TokensUnchanged ==
    ASSUME WorkspaceTypes, Tokens, UNCHANGED <<later, inflight, step>>, stack'.busy <=> stack.busy
    PROVE  Tokens'
<1>1. Len(later) \in Nat /\ Len(inflight) \in Nat
  BY DEF WorkspaceTypes, SessionTypes
<1>2. /\ \A i \in 1 .. Len(later) : i + 0 = i /\ i - 0 = i
      /\ \A i \in 1 .. Len(inflight) : i + 0 = i /\ i - 0 = i
  BY <1>1
<1> QED
  BY <1>2, TokensCarried

(* one that adds another closure, *)
LEMMA TokensOtherClosure ==
    ASSUME WorkspaceTypes, Tokens, UNCHANGED <<inflight, step>>, stack'.busy <=> stack.busy,
           NEW c \in Closures, ~HistoryClosure(c), later' = Append(later, c)
    PROVE  Tokens'
<1>1. later \in Seq(Closures) /\ Len(inflight) \in Nat /\ Len(later) \in Nat
  BY DEF WorkspaceTypes, SessionTypes
<1>2. /\ \A i \in 1 .. Len(later) : i + 0 = i /\ i - 0 = i
      /\ \A i \in 1 .. Len(inflight) : i + 0 = i /\ i - 0 = i
  BY <1>1
<1>3. /\ \A i \in 1 .. Len(later') : HistoryClosure(later'[i]) =>
             i \in 1 .. Len(later) /\ later[i] = later'[i]
      /\ \A i \in 1 .. Len(later) : i \in 1 .. Len(later') /\ later'[i] = later[i]
  BY <1>1, AppendOne
<1>4. /\ \A i \in 1 .. Len(later') : HistoryClosure(later'[i]) =>
             i + 0 \in 1 .. Len(later) /\ later[i + 0] = later'[i]
      /\ \A i \in 1 .. Len(later) : HistoryClosure(later[i]) =>
             i - 0 \in 1 .. Len(later') /\ later'[i - 0] = later[i]
  BY <1>2, <1>3
<1> QED
  BY <1>2, <1>4, TokensCarried

(* and one that runs another closure. *)
LEMMA TokensOtherRun ==
    ASSUME WorkspaceTypes, Tokens, UNCHANGED <<inflight, step>>, stack'.busy <=> stack.busy,
           later # <<>>, ~HistoryClosure(Head(later)), later' = Tail(later)
    PROVE  Tokens'
<1>1. later \in Seq(Closures) /\ Len(inflight) \in Nat
  BY DEF WorkspaceTypes, SessionTypes
<1>2. \A i \in 1 .. Len(inflight) : i + 0 = i /\ i - 0 = i
  BY <1>1
<1>3. /\ \A i \in 1 .. Len(later') : i + 1 \in 1 .. Len(later) /\ later[i + 1] = later'[i]
      /\ \A i \in 1 .. Len(later) : i # 1 => i - 1 \in 1 .. Len(later') /\ later'[i - 1] = later[i]
      /\ ~HistoryClosure(later[1])
  BY <1>1, HeadTail
<1> QED
  BY <1>2, <1>3, TokensCarried
(* Only an undo prepares an inverse. *)
PreparedIsUndo == step # None /\ step.pc \in {"inverse", "prepared"} => step.direction = "undo"

LEMMA ProceedPrepares ==
    ASSUME NEW h \in Steps, Proceed(h)
    PROVE  PreparedIsUndo'
<1>1. /\ [h EXCEPT !.pc = "inverse"].direction = h.direction
      /\ [h EXCEPT !.pc = "sent"].pc = "sent"
  BY StepPc
<1>2. \/ step' = None
      \/ step' = [h EXCEPT !.pc = "sent"]
      \/ step' = [h EXCEPT !.pc = "inverse"] /\ h.direction = "undo"
  BY DEF Proceed
<1> QED
  BY <1>1, <1>2 DEF PreparedIsUndo

LEMMA PreparedIsUndoStep ==
    ASSUME WorkspaceTypes, Tokens, PreparedIsUndo, Next
    PROVE  PreparedIsUndo'
<1> USE DEF history, saving, disk
<1>1. ASSUME NEW accepted \in BOOLEAN, Settle(accepted) PROVE PreparedIsUndo'
  BY <1>1 DEF Settle, PreparedIsUndo
<1>2. ASSUME NEW overwritten \in {{}} \cup {{e} : e \in 1 .. used.edits}, RemoteEdit(overwritten)
      PROVE  PreparedIsUndo'
  BY <1>2 DEF RemoteEdit, PreparedIsUndo
<1>3. ASSUME NEW path \in Paths, NEW deleted \in BOOLEAN, OutsideWrite(path, deleted)
      PROVE  PreparedIsUndo'
  BY <1>3 DEF OutsideWrite, PreparedIsUndo
<1>4. ASSUME NEW kind \in {"stroke", "move"}, BeginGesture(kind) PROVE PreparedIsUndo'
  BY <1>4 DEF BeginGesture, PreparedIsUndo
<1>5. ASSUME NEW changed \in BOOLEAN, CommitOperation(changed) PROVE PreparedIsUndo'
  BY <1>5 DEF CommitOperation, PreparedIsUndo
<1>6. ASSUME NEW content \in {exec.content, {}}, Reattach(content) PROVE PreparedIsUndo'
  BY <1>6 DEF Reattach, PreparedIsUndo
<1>7. ASSUME NEW direction \in {"undo", "redo"}, BeginHistoryStep(direction) PROVE PreparedIsUndo'
  <2>1. PICK h \in Steps : /\ h.pc = "wait"
                          /\ IF inflight # <<>>
                             THEN step' = h /\ stack' = [stack EXCEPT !.busy = TRUE] /\ inflight' = inflight
                             ELSE Proceed(h)
    BY <1>7, BeginStep
  <2> QED
    BY <2>1, ProceedPrepares DEF PreparedIsUndo
<1>8. CASE Save
  BY <1>8 DEF Save, PreparedIsUndo
<1>9. ASSUME NEW path \in Paths, SaveAs(path) PROVE PreparedIsUndo'
  BY <1>9 DEF SaveAs, PreparedIsUndo
<1>10. ASSUME NEW d \in dialogs, ConfirmReplace(d) PROVE PreparedIsUndo'
  BY <1>10 DEF ConfirmReplace, PreparedIsUndo
<1>11. ASSUME NEW d \in dialogs, ConfirmOverwrite(d) PROVE PreparedIsUndo'
  BY <1>11 DEF ConfirmOverwrite, PreparedIsUndo
<1>12. ASSUME NEW d \in dialogs, CancelDialog(d) PROVE PreparedIsUndo'
  BY <1>12 DEF CancelDialog, PreparedIsUndo
<1>13. CASE CloseTab
  BY <1>13 DEF CloseTab, PreparedIsUndo
<1>14. ASSUME NEW d \in dialogs, CloseSaving(d) PROVE PreparedIsUndo'
  BY <1>14 DEF CloseSaving, PreparedIsUndo
<1>15. ASSUME NEW d \in dialogs, CloseDiscarding(d) PROVE PreparedIsUndo'
  BY <1>15 DEF CloseDiscarding, PreparedIsUndo
<1>16. CASE HistoryWaitOver
  BY <1>16, StepPc DEF HistoryWaitOver, PreparedIsUndo, WorkspaceTypes, HistoryTypes
<1>17. CASE PrepareHistoryInverse
  BY <1>17, StepPc DEF PrepareHistoryInverse, PreparedIsUndo, WorkspaceTypes, HistoryTypes
<1>18. ASSUME NEW outcome \in {"ok", "error", "declined"}, WorkerStage(outcome) PROVE PreparedIsUndo'
  BY <1>18 DEF WorkerStage, PreparedIsUndo
<1>19. CASE WorkerCheck
  BY <1>19 DEF WorkerCheck, PreparedIsUndo
<1>20. ASSUME NEW outcome \in {"replaced", "refused", "unsynced"}, WorkerReplace(outcome)
       PROVE  PreparedIsUndo'
  BY <1>20 DEF WorkerReplace, PreparedIsUndo
<1>21. CASE WorkerVerify
  BY <1>21 DEF WorkerVerify, PreparedIsUndo
<1>22. ASSUME NEW read \in BOOLEAN, WorkerCaptureConflict(read) PROVE PreparedIsUndo'
  BY <1>22 DEF WorkerCaptureConflict, PreparedIsUndo
<1>23. CASE ProcessCollaborationUpdates
  BY <1>23 DEF ProcessCollaborationUpdates, PreparedIsUndo
<1>24. CASE RunHistoryWaited
  BY <1>24, WaitedHasStep, ProceedPrepares DEF RunHistoryWaited, Complete, PreparedIsUndo
<1>25. CASE RunHistoryInverse
  BY <1>25, InverseHasStep, StepPc DEF RunHistoryInverse, Complete, PreparedIsUndo
<1>26. CASE RunEditOutcome
  BY <1>26 DEF RunEditOutcome, PreparedIsUndo
<1>27. CASE RunHistoryOutcome
  BY <1>27 DEF RunHistoryOutcome, Complete, PreparedIsUndo
<1>28. CASE FinishSave
  BY <1>28 DEF FinishSave, PreparedIsUndo
<1> QED
  BY <1>1, <1>2, <1>3, <1>4, <1>5, <1>6, <1>7, <1>8, <1>9, <1>10, <1>11, <1>12, <1>13,
     <1>14, <1>15, <1>16, <1>17, <1>18, <1>19, <1>20, <1>21, <1>22, <1>23, <1>24, <1>25,
     <1>26, <1>27, <1>28
     DEF Next, Environment, User, Background, UIThread

LEMMA DisposedBusy ==
    ASSUME WorkspaceTypes, NEW how, Dispose(how)
    PROVE  stack'.busy <=> stack.busy
<1>1. stack \in Stacks /\ <<>> \in Seq(Commands)
  BY DEF WorkspaceTypes, HistoryTypes
<1>2. [stack EXCEPT !.undo = <<>>, !.redo = <<>>, !.queued = <<>>].busy = stack.busy
  <2>1. IsStack([stack EXCEPT !.undo = <<>>, !.redo = <<>>, !.queued = <<>>], <<>>, <<>>, <<>>,
                stack.busy, stack.balance, stack.mark)
    BY <1>1, StackDisposed
  <2> QED
    BY <2>1 DEF IsStack
<1> QED
  BY <1>2 DEF Dispose

LEMMA TokensStep ==
    ASSUME WorkspaceTypes, Tokens, PreparedIsUndo, Next
    PROVE  Tokens'
<1> USE DEF history, saving, disk
<1>1. ASSUME NEW accepted \in BOOLEAN, Settle(accepted) PROVE Tokens'
  <2> DEFINE op == Head(inflight)
               c == [kind |-> "outcome", op |-> op, ok |-> accepted]
  <2>1. /\ inflight \in Seq(Operations)
        /\ inflight # <<>>
        /\ inflight' = Tail(inflight)
        /\ later \in Seq(Closures)
        /\ Len(later) \in Nat
    BY <1>1 DEF Settle, HasUnacknowledgedOperations, WorkspaceTypes, SessionTypes
  <2>2. /\ op \in Operations /\ op = inflight[1] /\ 1 \in 1 .. Len(inflight)
        /\ \A i \in 1 .. Len(inflight') : i + 1 \in 1 .. Len(inflight) /\ inflight[i + 1] = inflight'[i]
        /\ \A i \in 1 .. Len(inflight) : i # 1 => i - 1 \in 1 .. Len(inflight') /\ inflight'[i - 1] = inflight[i]
    BY <2>1, HeadTail
  <2>3. c \in Closures /\ c.kind = "outcome" /\ c.op = op /\ later' = Append(later, c)
    BY <1>1, <2>2, ClosureForms DEF Settle
  <2>4. UNCHANGED <<step, stack>>
    BY <1>1 DEF Settle
  <2> HIDE DEF op, c
  <2>5. CASE HistoryOperation(op)
    <3>1. step # None /\ step.pc = "sent" /\ SentByStep(op)
      BY <2>2, <2>5 DEF Tokens, OperationsBelong
    <3>2. \A i \in 1 .. Len(later) : ~HistoryClosure(later[i])
      BY <2>2, <2>5 DEF Tokens, OneOrTheOther
    <3>3. ASSUME NEW i \in 1 .. Len(inflight'), HistoryOperation(inflight'[i]) PROVE FALSE
      <4>1. i + 1 \in 1 .. Len(inflight) /\ HistoryOperation(inflight[i + 1])
        BY <2>2, <3>3
      <4>2. i + 1 = 1
        BY <2>2, <2>5, <4>1 DEF Tokens, OneHistoryOperation
      <4> QED
        BY <2>1, <2>2, <4>2
    <3>4. HistoryClosure(c)
      BY <2>3, <2>5 DEF HistoryClosure, HistoryOperation
    <3>5. stack'.busy
      BY <2>4, <3>1 DEF Tokens, BusyIsStep
    <3> QED
      BY <2>1, <2>3, <2>4, <3>1, <3>2, <3>3, <3>4, <3>5, TokensClosure DEF SentByStep
  <2>6. CASE ~HistoryOperation(op)
    <3>1. ~HistoryClosure(c)
      BY <2>3, <2>6 DEF HistoryClosure, HistoryOperation
    <3>2. /\ \A i \in 1 .. Len(later') : HistoryClosure(later'[i]) =>
                 i \in 1 .. Len(later) /\ later[i] = later'[i]
          /\ \A i \in 1 .. Len(later) : i \in 1 .. Len(later') /\ later'[i] = later[i]
      BY <2>1, <2>3, <3>1, AppendOne
    <3>3. \A i \in 1 .. Len(later') : HistoryClosure(later'[i]) =>
               i + 0 \in 1 .. Len(later) /\ later[i + 0] = later'[i]
      BY <3>2
    <3>4. \A i \in 1 .. Len(later) : i - 0 \in 1 .. Len(later') /\ later'[i - 0] = later[i]
      BY <2>1, <3>2
    <3> QED
      BY <2>2, <2>4, <2>6, <3>3, <3>4, TokensCarried
  <2> QED
    BY <2>5, <2>6
<1>2. ASSUME NEW overwritten \in {{}} \cup {{e} : e \in 1 .. used.edits}, RemoteEdit(overwritten)
      PROVE  Tokens'
  BY <1>2, TokensUnchanged DEF RemoteEdit
<1>3. ASSUME NEW path \in Paths, NEW deleted \in BOOLEAN, OutsideWrite(path, deleted) PROVE Tokens'
  BY <1>3, TokensUnchanged DEF OutsideWrite
<1>4. ASSUME NEW kind \in {"stroke", "move"}, BeginGesture(kind) PROVE Tokens'
  BY <1>4, TokensUnchanged DEF BeginGesture
<1>5. ASSUME NEW changed \in BOOLEAN, CommitOperation(changed) PROVE Tokens'
  <2>1. /\ inflight \in Seq(Operations)
        /\ view \in Views
        /\ used.edits + 1 \in Nat
        /\ Len(inflight) \in Nat
        /\ Len(later) \in Nat
    BY DEF WorkspaceTypes, SessionTypes, Bounds
  <2>2. PICK op \in Operations : op = Operation("edit", used.edits + 1)
    BY <2>1, OperationTypes
  <2>3. ~HistoryOperation(op)
    BY <2>2 DEF Operation, HistoryOperation
  <2>4. UNCHANGED <<later, step, stack>>
    BY <1>5 DEF CommitOperation
  <2>5. CASE inflight' = Append(inflight, op)
    <3>1. /\ \A i \in 1 .. Len(inflight') : HistoryOperation(inflight'[i]) => i \in 1 .. Len(inflight) /\ inflight[i] = inflight'[i]
          /\ \A i \in 1 .. Len(inflight) : i \in 1 .. Len(inflight') /\ inflight'[i] = inflight[i]
      BY <2>1, <2>3, <2>5, AppendOne
    <3>2. /\ \A i \in 1 .. Len(inflight') : HistoryOperation(inflight'[i]) => i + 0 \in 1 .. Len(inflight) /\ inflight[i + 0] = inflight'[i]
          /\ \A i \in 1 .. Len(inflight) : i - 0 \in 1 .. Len(inflight') /\ inflight'[i - 0] = inflight[i]
      BY <2>1, <3>1
    <3>3. \A i \in 1 .. Len(later) : i + 0 = i /\ i - 0 = i
      BY <2>1
    <3> QED
      BY <2>4, <3>2, <3>3, TokensCarried
  <2>6. CASE inflight' = inflight
    BY <2>4, <2>6, TokensUnchanged
  <2> QED
    BY <1>5, <2>2, <2>5, <2>6 DEF CommitOperation
<1>6. ASSUME NEW content \in {exec.content, {}}, Reattach(content) PROVE Tokens'
  BY <1>6, TokensUnchanged DEF Reattach
<1>7. ASSUME NEW direction \in {"undo", "redo"}, BeginHistoryStep(direction) PROVE Tokens'
  <2>1. step = None /\ UNCHANGED later
    BY <1>7 DEF BeginHistoryStep, Tokens, BusyIsStep
  <2>2. NoTokens
    BY <2>1, NoTokensYet
  <2>3. PICK h \in Steps : /\ h.pc = "wait" /\ h.command.gen = view.gen
                          /\ IF inflight # <<>>
                             THEN step' = h /\ stack' = [stack EXCEPT !.busy = TRUE] /\ inflight' = inflight
                             ELSE Proceed(h)
    BY <1>7, BeginStep
  <2>4. CASE inflight # <<>>
    <3>1. stack'.busy
      BY <2>3, <2>4, StackBusy DEF IsStack, WorkspaceTypes, HistoryTypes
    <3> QED
      BY <2>1, <2>2, <2>3, <2>4, <3>1, TokensNone, NotNone DEF NoTokens
  <2>5. CASE inflight = <<>>
    BY <2>1, <2>2, <2>3, <2>5, TokensProceed DEF NoTokens
  <2> QED
    BY <2>4, <2>5
<1>8. CASE Save
  BY <1>8, TokensUnchanged DEF Save
<1>9. ASSUME NEW path \in Paths, SaveAs(path) PROVE Tokens'
  BY <1>9, TokensUnchanged DEF SaveAs
<1>10. ASSUME NEW d \in dialogs, ConfirmReplace(d) PROVE Tokens'
  BY <1>10, TokensUnchanged DEF ConfirmReplace
<1>11. ASSUME NEW d \in dialogs, ConfirmOverwrite(d) PROVE Tokens'
  BY <1>11, TokensUnchanged DEF ConfirmOverwrite
<1>12. ASSUME NEW d \in dialogs, CancelDialog(d) PROVE Tokens'
  BY <1>12, TokensUnchanged DEF CancelDialog
<1>13. CASE CloseTab
  <2>1. stack'.busy <=> stack.busy
    BY <1>13, DisposedBusy DEF CloseTab
  <2> QED
    BY <1>13, <2>1, TokensUnchanged DEF CloseTab
<1>14. ASSUME NEW d \in dialogs, CloseSaving(d) PROVE Tokens'
  BY <1>14, TokensUnchanged DEF CloseSaving
<1>15. ASSUME NEW d \in dialogs, CloseDiscarding(d) PROVE Tokens'
  <2>1. stack'.busy <=> stack.busy
    BY <1>15, DisposedBusy DEF CloseDiscarding
  <2> QED
    BY <1>15, <2>1, TokensUnchanged DEF CloseDiscarding
<1>16. CASE HistoryWaitOver
  <2>1. step \in Steps /\ step.pc = "wait" /\ later \in Seq(Closures)
    BY <1>16 DEF HistoryWaitOver, WorkspaceTypes, HistoryTypes
  <2>2. NoTokens /\ stack.busy
    BY <1>16, <2>1, NoTokensYet DEF HistoryWaitOver, Tokens, BusyIsStep
  <2>3. step' \in Steps /\ step'.pc = "waited"
    BY <1>16, <2>1, StepPc DEF HistoryWaitOver
  <2>4. PICK c \in Closures : c = [kind |-> "waited"]
    BY ClosureForms
  <2>5. c.kind = "waited" /\ later' = Append(later, c) /\ UNCHANGED <<inflight, stack>>
    BY <1>16, <2>4 DEF HistoryWaitOver
  <2> QED
    BY <2>1, <2>2, <2>3, <2>5, TokensClosure, NotNone DEF NoTokens, HistoryClosure
<1>17. CASE PrepareHistoryInverse
  <2>1. step \in Steps /\ step.pc = "inverse" /\ later \in Seq(Closures)
    BY <1>17 DEF PrepareHistoryInverse, WorkspaceTypes, HistoryTypes
  <2>2. NoTokens /\ stack.busy
    BY <1>17, <2>1, NoTokensYet DEF PrepareHistoryInverse, Tokens, BusyIsStep
  <2>3. step' \in Steps /\ step'.pc = "prepared"
    BY <1>17, <2>1, StepPc DEF PrepareHistoryInverse
  <2>4. PICK c \in Closures : c = [kind |-> "inverse", ok |-> step.command.id \in exec.content]
    <3>1. (step.command.id \in exec.content) \in BOOLEAN
      OBVIOUS
    <3> QED
      BY <3>1, ClosureForms, Zenon
  <2>5. c.kind = "inverse" /\ later' = Append(later, c) /\ UNCHANGED <<inflight, stack>>
    BY <1>17, <2>4 DEF PrepareHistoryInverse
  <2> QED
    BY <2>1, <2>2, <2>3, <2>5, TokensClosure, NotNone DEF NoTokens, HistoryClosure
<1>18. ASSUME NEW outcome \in {"ok", "error", "declined"}, WorkerStage(outcome) PROVE Tokens'
  <2>1. worker.request \in Requests /\ later \in Seq(Closures) /\ later' \in Seq(Closures)
    BY <1>18, WorkerIs, LaterTypes DEF WorkerStage, WorkspaceTypes, Next, Background
  <2>2. later' = later \/ \E r \in Results : later' = Append(later, [kind |-> "saved", request |-> worker.request, result |-> r])
    <3>1. \A v \in Nat : Result("saved", v) \in Results /\ Result("conflict", v) \in Results /\ Result("error", v) \in Results /\ Result("declined", v) \in Results
      BY DEF Result, Results
    <3> QED
      BY <1>18, <3>1 DEF WorkerStage, Deliver
  <2>3. ASSUME NEW r \in Results, later' = Append(later, [kind |-> "saved", request |-> worker.request, result |-> r])
        PROVE  Tokens'
    <3>1. PICK c \in Closures : c = [kind |-> "saved", request |-> worker.request, result |-> r]
      BY <2>1, ClosureForms
    <3>2. ~HistoryClosure(c)
      BY <3>1 DEF HistoryClosure
    <3> QED
      BY <1>18, <2>3, <3>1, <3>2, TokensOtherClosure DEF WorkerStage
  <2>4. CASE later' = later
    BY <1>18, <2>4, TokensUnchanged DEF WorkerStage
  <2> QED
    BY <2>2, <2>3, <2>4
<1>19. CASE WorkerCheck
  BY <1>19, TokensUnchanged DEF WorkerCheck
<1>20. ASSUME NEW outcome \in {"replaced", "refused", "unsynced"}, WorkerReplace(outcome) PROVE Tokens'
  <2>1. worker.request \in Requests /\ later \in Seq(Closures) /\ later' \in Seq(Closures)
    BY <1>20, WorkerIs, LaterTypes DEF WorkerReplace, WorkspaceTypes, Next, Background
  <2>2. later' = later \/ \E r \in Results : later' = Append(later, [kind |-> "saved", request |-> worker.request, result |-> r])
    <3>1. \A v \in Nat : Result("saved", v) \in Results /\ Result("conflict", v) \in Results /\ Result("error", v) \in Results /\ Result("declined", v) \in Results
      BY DEF Result, Results
    <3> QED
      BY <1>20, <3>1 DEF WorkerReplace, Deliver
  <2>3. ASSUME NEW r \in Results, later' = Append(later, [kind |-> "saved", request |-> worker.request, result |-> r])
        PROVE  Tokens'
    <3>1. PICK c \in Closures : c = [kind |-> "saved", request |-> worker.request, result |-> r]
      BY <2>1, ClosureForms
    <3>2. ~HistoryClosure(c)
      BY <3>1 DEF HistoryClosure
    <3> QED
      BY <1>20, <2>3, <3>1, <3>2, TokensOtherClosure DEF WorkerReplace
  <2>4. CASE later' = later
    BY <1>20, <2>4, TokensUnchanged DEF WorkerReplace
  <2> QED
    BY <2>2, <2>3, <2>4
<1>21. CASE WorkerVerify
  <2>1. worker.request \in Requests /\ later \in Seq(Closures) /\ later' \in Seq(Closures)
    BY <1>21, WorkerIs, LaterTypes DEF WorkerVerify, WorkspaceTypes, Next, Background
  <2>2. later' = later \/ \E r \in Results : later' = Append(later, [kind |-> "saved", request |-> worker.request, result |-> r])
    <3>1. \A v \in Nat : Result("saved", v) \in Results /\ Result("conflict", v) \in Results /\ Result("error", v) \in Results /\ Result("declined", v) \in Results
      BY DEF Result, Results
    <3>2. files[worker.request.path].ver \in Nat
      BY <1>21, WorkerIs, FileIs DEF WorkerVerify
    <3> QED
      BY <1>21, <3>1, <3>2 DEF WorkerVerify, Deliver
  <2>3. ASSUME NEW r \in Results, later' = Append(later, [kind |-> "saved", request |-> worker.request, result |-> r])
        PROVE  Tokens'
    <3>1. PICK c \in Closures : c = [kind |-> "saved", request |-> worker.request, result |-> r]
      BY <2>1, ClosureForms
    <3>2. ~HistoryClosure(c)
      BY <3>1 DEF HistoryClosure
    <3> QED
      BY <1>21, <2>3, <3>1, <3>2, TokensOtherClosure DEF WorkerVerify
  <2>4. CASE later' = later
    BY <1>21, <2>4, TokensUnchanged DEF WorkerVerify
  <2> QED
    BY <2>2, <2>3, <2>4
<1>22. ASSUME NEW read \in BOOLEAN, WorkerCaptureConflict(read) PROVE Tokens'
  <2>1. worker.request \in Requests /\ later \in Seq(Closures) /\ later' \in Seq(Closures)
    BY <1>22, WorkerIs, LaterTypes DEF WorkerCaptureConflict, WorkspaceTypes, Next, Background
  <2>2. later' = later \/ \E r \in Results : later' = Append(later, [kind |-> "saved", request |-> worker.request, result |-> r])
    <3>1. \A v \in Nat : Result("saved", v) \in Results /\ Result("conflict", v) \in Results /\ Result("error", v) \in Results /\ Result("declined", v) \in Results
      BY DEF Result, Results
    <3>2. files[worker.request.path].ver \in Nat
      BY <1>22, WorkerIs, FileIs DEF WorkerCaptureConflict
    <3> QED
      BY <1>22, <3>1, <3>2 DEF WorkerCaptureConflict, Deliver
  <2>3. ASSUME NEW r \in Results, later' = Append(later, [kind |-> "saved", request |-> worker.request, result |-> r])
        PROVE  Tokens'
    <3>1. PICK c \in Closures : c = [kind |-> "saved", request |-> worker.request, result |-> r]
      BY <2>1, ClosureForms
    <3>2. ~HistoryClosure(c)
      BY <3>1 DEF HistoryClosure
    <3> QED
      BY <1>22, <2>3, <3>1, <3>2, TokensOtherClosure DEF WorkerCaptureConflict
  <2>4. CASE later' = later
    BY <1>22, <2>4, TokensUnchanged DEF WorkerCaptureConflict
  <2> QED
    BY <2>2, <2>3, <2>4
<1>23. CASE ProcessCollaborationUpdates
  BY <1>23, TokensUnchanged DEF ProcessCollaborationUpdates
<1>24. CASE RunHistoryWaited
  <2>1. later # <<>> /\ HistoryClosure(Head(later)) /\ later' = Tail(later) /\ step \in Steps
    BY <1>24, WaitedHasStep DEF RunHistoryWaited, Run, HistoryClosure
  <2>2. /\ \A i \in 1 .. Len(later') : ~HistoryClosure(later'[i])
        /\ \A i \in 1 .. Len(inflight) : ~HistoryOperation(inflight[i])
    BY <2>1, NoTokensLeft
  <2>3. CASE Proceed(step) /\ Attached(step)
    BY <2>1, <2>2, <2>3, TokensProceed DEF Attached
  <2>4. CASE Complete(FALSE) /\ UNCHANGED inflight
    BY <2>1, <2>2, <2>4, TokensComplete
  <2> QED
    BY <1>24, <2>3, <2>4 DEF RunHistoryWaited
<1>25. CASE RunHistoryInverse
  <2>1. /\ later # <<>>
        /\ HistoryClosure(Head(later))
        /\ Head(later).kind = "inverse"
        /\ later' = Tail(later)
        /\ step \in Steps
    BY <1>25, InverseHasStep DEF RunHistoryInverse, Run, HistoryClosure
  <2>2. /\ \A i \in 1 .. Len(later') : ~HistoryClosure(later'[i])
        /\ \A i \in 1 .. Len(inflight) : ~HistoryOperation(inflight[i])
    BY <2>1, NoTokensLeft
  <2>3. CASE Attached(step) /\ Head(later).ok
    <3>1. inflight \in Seq(Operations) /\ view \in Views /\ step.command.id \in Nat
      BY <2>1 DEF WorkspaceTypes, SessionTypes, Steps, Commands
    <3>2. PICK op \in Operations : op = Operation("undo", step.command.id)
      BY <3>1, OperationTypes
    <3>3. op.kind = "undo" /\ op.edit = step.command.id /\ op.gen = view.gen
      BY <3>2 DEF Operation
    <3>4. step' = [step EXCEPT !.pc = "sent"] /\ inflight' = Append(inflight, op) /\ stack' = stack
      BY <1>25, <2>3, <3>2 DEF RunHistoryInverse
    <3>5. /\ step' \in Steps
          /\ step'.pc = "sent"
          /\ step'.direction = step.direction
          /\ step'.command = step.command
      BY <2>1, <3>4, StepPc
    <3>6. step.direction = "undo" /\ stack.busy
      <4>1. step # None /\ step.pc = "prepared"
        BY <2>1, HeadTail DEF Tokens, ClosuresBelong, WorkspaceTypes
      <4> QED
        BY <4>1 DEF Tokens, BusyIsStep, PreparedIsUndo
    <3> QED
      BY <2>2, <2>3, <3>1, <3>3, <3>4, <3>5, <3>6, TokensOperation, NotNone DEF HistoryOperation, Attached
  <2>4. CASE Complete(FALSE) /\ UNCHANGED inflight
    BY <2>1, <2>2, <2>4, TokensComplete
  <2> QED
    BY <1>25, <2>3, <2>4 DEF RunHistoryInverse
<1>26. CASE RunEditOutcome
  <2>1. /\ later # <<>>
        /\ Head(later).kind = "outcome"
        /\ Head(later).op.kind = "edit"
        /\ later' = Tail(later)
        /\ UNCHANGED <<inflight, step>>
    BY <1>26 DEF RunEditOutcome, Run
  <2>2. stack \in Stacks /\ view.gen \in Nat
    BY DEF WorkspaceTypes, HistoryTypes, SessionTypes, Views
  <2>3. Head(later).op.edit \in Nat
    BY <1>26, OutcomeRuns DEF RunEditOutcome, Operations
  <2>4. PICK c \in Commands : c = [id |-> Head(later).op.edit, gen |-> view.gen]
    BY <2>2, <2>3 DEF Commands
  <2>5. Push(stack, c).busy <=> stack.busy
    BY <2>2, PushBusy, PushIdle DEF IsStack
  <2>6. stack'.busy <=> stack.busy
    BY <1>26, <2>4, <2>5 DEF RunEditOutcome
  <2> QED
    BY <2>1, <2>6, TokensOtherRun DEF HistoryClosure
<1>27. CASE RunHistoryOutcome
  <2>1. later # <<>> /\ HistoryClosure(Head(later)) /\ later' = Tail(later) /\ step \in Steps
    BY <1>27, OutcomeHasStep DEF RunHistoryOutcome, Run, HistoryClosure
  <2>2. /\ \A i \in 1 .. Len(later') : ~HistoryClosure(later'[i])
        /\ \A i \in 1 .. Len(inflight) : ~HistoryOperation(inflight[i])
    BY <2>1, NoTokensLeft
  <2>3. Head(later).ok \in BOOLEAN
    BY <1>27, OutcomeRuns DEF RunHistoryOutcome
  <2>4. PICK ok \in BOOLEAN : Complete(ok)
    BY <1>27, <2>3 DEF RunHistoryOutcome
  <2> QED
    BY <1>27, <2>1, <2>2, <2>4, TokensComplete DEF RunHistoryOutcome
<1>28. CASE FinishSave
  <2>1. later # <<>> /\ Head(later).kind = "saved" /\ later' = Tail(later) /\ UNCHANGED <<inflight, step>>
    BY <1>28 DEF FinishSave, Run
  <2>2. stack \in Stacks
    BY DEF WorkspaceTypes, HistoryTypes
  <2>3. ForceBalance(stack).busy <=> stack.busy
    BY <2>2, ForceBalanceResult DEF IsStack
  <2>4. stack' = stack \/ stack' = ForceBalance(stack) \/ Dispose("saved")
    BY <1>28 DEF FinishSave, FinishSaved, FinishFailed
  <2>5. stack'.busy <=> stack.busy
    BY <2>3, <2>4, DisposedBusy
  <2> QED
    BY <2>1, <2>5, TokensOtherRun DEF HistoryClosure
<1> QED
  BY <1>1, <1>2, <1>3, <1>4, <1>5, <1>6, <1>7, <1>8, <1>9, <1>10, <1>11, <1>12, <1>13,
     <1>14, <1>15, <1>16, <1>17, <1>18, <1>19, <1>20, <1>21, <1>22, <1>23, <1>24, <1>25,
     <1>26, <1>27, <1>28
     DEF Next, Environment, User, Background, UIThread
-----------------------------------------------------------------------------------
(* Saves. *)

(* The result of a save stays where it is, but for its place in the queue. *)
SavedCarried ==
    \E m \in {0, 1} :
       /\ \A i \in 1 .. Len(later') : later'[i].kind = "saved" =>
             i + m \in 1 .. Len(later) /\ later[i + m] = later'[i]
       /\ \A i \in 1 .. Len(later) : later[i].kind = "saved" =>
             i - m \in 1 .. Len(later') /\ later'[i - m] = later[i]

LEMMA SavedUnchanged == ASSUME WorkspaceTypes, UNCHANGED later PROVE SavedCarried
<1>1. Len(later) \in Nat
  BY DEF WorkspaceTypes
<1>2. \A i \in 1 .. Len(later) : i + 0 = i /\ i - 0 = i
  BY <1>1
<1> QED
  BY <1>2 DEF SavedCarried

LEMMA SavedAppend ==
    ASSUME WorkspaceTypes, NEW c \in Closures, c.kind # "saved", later' = Append(later, c)
    PROVE  SavedCarried
<1>1. later \in Seq(Closures) /\ Len(later) \in Nat
  BY DEF WorkspaceTypes
<1>2. /\ \A i \in 1 .. Len(later') : later'[i].kind = "saved" => i \in 1 .. Len(later) /\ later[i] = later'[i]
      /\ \A i \in 1 .. Len(later) : i \in 1 .. Len(later') /\ later'[i] = later[i]
  BY <1>1, AppendOne
<1>3. \A i \in 1 .. Len(later') : later'[i].kind = "saved" => i + 0 \in 1 .. Len(later) /\ later[i + 0] = later'[i]
  BY <1>2
<1>4. \A i \in 1 .. Len(later) : i - 0 \in 1 .. Len(later') /\ later'[i - 0] = later[i]
  BY <1>1, <1>2
<1> QED
  BY <1>3, <1>4 DEF SavedCarried

LEMMA SavedRun ==
    ASSUME WorkspaceTypes, later # <<>>, Head(later).kind # "saved", later' = Tail(later)
    PROVE  SavedCarried
<1>1. later \in Seq(Closures)
  BY DEF WorkspaceTypes
<1>2. /\ \A i \in 1 .. Len(later') : i + 1 \in 1 .. Len(later) /\ later[i + 1] = later'[i]
      /\ \A i \in 1 .. Len(later) : i # 1 => i - 1 \in 1 .. Len(later') /\ later'[i - 1] = later[i]
      /\ later[1].kind # "saved"
  BY <1>1, HeadTail
<1> QED
  BY <1>2 DEF SavedCarried

(* Only the worker adds such a closure, and FinishSave runs it. *)
Delivers == \E r \in Results : worker # None /\ Deliver(r)

LEMMA SavedMoves ==
    ASSUME WorkspaceTypes, Next
    PROVE  SavedCarried \/ Delivers \/ FinishSave
<1> USE DEF history, saving, disk
<1>1. ASSUME NEW accepted \in BOOLEAN, Settle(accepted) PROVE SavedCarried \/ Delivers \/ FinishSave
  <2>1. Head(inflight) \in Operations
    BY <1>1, HeadTail DEF Settle, HasUnacknowledgedOperations, WorkspaceTypes, SessionTypes
  <2>2. PICK c \in Closures : c = [kind |-> "outcome", op |-> Head(inflight), ok |-> accepted]
    BY <2>1, ClosureForms
  <2>3. c.kind # "saved" /\ later' = Append(later, c)
    BY <1>1, <2>2 DEF Settle
  <2> QED
    BY <2>3, SavedAppend
<1>2. ASSUME NEW overwritten \in {{}} \cup {{e} : e \in 1 .. used.edits}, RemoteEdit(overwritten)
      PROVE  SavedCarried \/ Delivers \/ FinishSave
  BY <1>2, SavedUnchanged DEF RemoteEdit
<1>3. ASSUME NEW path \in Paths, NEW deleted \in BOOLEAN, OutsideWrite(path, deleted)
      PROVE  SavedCarried \/ Delivers \/ FinishSave
  BY <1>3, SavedUnchanged DEF OutsideWrite
<1>4. ASSUME NEW kind \in {"stroke", "move"}, BeginGesture(kind)
      PROVE  SavedCarried \/ Delivers \/ FinishSave
  BY <1>4, SavedUnchanged DEF BeginGesture
<1>5. ASSUME NEW changed \in BOOLEAN, CommitOperation(changed)
      PROVE  SavedCarried \/ Delivers \/ FinishSave
  BY <1>5, SavedUnchanged DEF CommitOperation
<1>6. ASSUME NEW content \in {exec.content, {}}, Reattach(content)
      PROVE  SavedCarried \/ Delivers \/ FinishSave
  BY <1>6, SavedUnchanged DEF Reattach
<1>7. ASSUME NEW direction \in {"undo", "redo"}, BeginHistoryStep(direction)
      PROVE  SavedCarried \/ Delivers \/ FinishSave
  BY <1>7, SavedUnchanged DEF BeginHistoryStep
<1>8. CASE Save
  BY <1>8, SavedUnchanged DEF Save
<1>9. ASSUME NEW path \in Paths, SaveAs(path) PROVE SavedCarried \/ Delivers \/ FinishSave
  BY <1>9, SavedUnchanged DEF SaveAs
<1>10. ASSUME NEW d \in dialogs, ConfirmReplace(d) PROVE SavedCarried \/ Delivers \/ FinishSave
  BY <1>10, SavedUnchanged DEF ConfirmReplace
<1>11. ASSUME NEW d \in dialogs, ConfirmOverwrite(d) PROVE SavedCarried \/ Delivers \/ FinishSave
  BY <1>11, SavedUnchanged DEF ConfirmOverwrite
<1>12. ASSUME NEW d \in dialogs, CancelDialog(d) PROVE SavedCarried \/ Delivers \/ FinishSave
  BY <1>12, SavedUnchanged DEF CancelDialog
<1>13. CASE CloseTab
  BY <1>13, SavedUnchanged DEF CloseTab
<1>14. ASSUME NEW d \in dialogs, CloseSaving(d) PROVE SavedCarried \/ Delivers \/ FinishSave
  BY <1>14, SavedUnchanged DEF CloseSaving
<1>15. ASSUME NEW d \in dialogs, CloseDiscarding(d) PROVE SavedCarried \/ Delivers \/ FinishSave
  BY <1>15, SavedUnchanged DEF CloseDiscarding
<1>16. CASE HistoryWaitOver
  <2>1. PICK c \in Closures : c = [kind |-> "waited"]
    BY ClosureForms
  <2>2. c.kind # "saved" /\ later' = Append(later, c)
    BY <1>16, <2>1 DEF HistoryWaitOver
  <2> QED
    BY <2>2, SavedAppend
<1>17. CASE PrepareHistoryInverse
  <2>1. PICK c \in Closures : c = [kind |-> "inverse", ok |-> step.command.id \in exec.content]
    <3>1. (step.command.id \in exec.content) \in BOOLEAN
      OBVIOUS
    <3> QED
      BY <3>1, ClosureForms, Zenon
  <2>2. c.kind # "saved" /\ later' = Append(later, c)
    BY <1>17, <2>1 DEF PrepareHistoryInverse
  <2> QED
    BY <2>2, SavedAppend
<1>18. ASSUME NEW outcome \in {"ok", "error", "declined"}, WorkerStage(outcome)
       PROVE  SavedCarried \/ Delivers \/ FinishSave
  <2>1. \A v \in Nat : Result("saved", v) \in Results /\ Result("conflict", v) \in Results /\ Result("error", v) \in Results /\ Result("declined", v) \in Results
    BY DEF Result, Results
  <2>2. UNCHANGED later \/ Deliver(Result(outcome, 0))
    BY <1>18 DEF WorkerStage
  <2>3. outcome # "ok" => Result(outcome, 0) \in Results
    BY <2>1
  <2> QED
    BY <1>18, <2>2, <2>3, SavedUnchanged DEF WorkerStage, Delivers, Working
<1>19. CASE WorkerCheck
  BY <1>19, SavedUnchanged DEF WorkerCheck
<1>20. ASSUME NEW outcome \in {"replaced", "refused", "unsynced"}, WorkerReplace(outcome)
       PROVE  SavedCarried \/ Delivers \/ FinishSave
  <2>1. \A v \in Nat : Result("saved", v) \in Results /\ Result("conflict", v) \in Results /\ Result("error", v) \in Results /\ Result("declined", v) \in Results
    BY DEF Result, Results
  <2> QED
    BY <1>20, <2>1, SavedUnchanged DEF WorkerReplace, Delivers, Working
<1>21. CASE WorkerVerify
  <2>1. \A v \in Nat : Result("saved", v) \in Results /\ Result("conflict", v) \in Results /\ Result("error", v) \in Results /\ Result("declined", v) \in Results
    BY DEF Result, Results
  <2>2. worker.seen \in Nat \/ UNCHANGED later
    BY <1>21, WorkerIs, FileIs DEF WorkerVerify
  <2> QED
    BY <1>21, <2>1, <2>2, SavedUnchanged DEF WorkerVerify, Delivers, Working
<1>22. ASSUME NEW read \in BOOLEAN, WorkerCaptureConflict(read)
       PROVE  SavedCarried \/ Delivers \/ FinishSave
  <2>1. \A v \in Nat : Result("saved", v) \in Results /\ Result("conflict", v) \in Results /\ Result("error", v) \in Results /\ Result("declined", v) \in Results
    BY DEF Result, Results
  <2>2. files[worker.request.path].ver \in Nat
    BY <1>22, WorkerIs, FileIs DEF WorkerCaptureConflict
  <2> QED
    BY <1>22, <2>1, <2>2, SavedUnchanged DEF WorkerCaptureConflict, Delivers, Working
<1>23. CASE ProcessCollaborationUpdates
  BY <1>23, SavedUnchanged DEF ProcessCollaborationUpdates
<1>24. CASE RunHistoryWaited
  BY <1>24, SavedRun DEF RunHistoryWaited, Run
<1>25. CASE RunHistoryInverse
  BY <1>25, SavedRun DEF RunHistoryInverse, Run
<1>26. CASE RunEditOutcome
  BY <1>26, SavedRun DEF RunEditOutcome, Run
<1>27. CASE RunHistoryOutcome
  BY <1>27, SavedRun DEF RunHistoryOutcome, Run
<1>28. CASE FinishSave
  BY <1>28
<1> QED
  BY <1>1, <1>2, <1>3, <1>4, <1>5, <1>6, <1>7, <1>8, <1>9, <1>10, <1>11, <1>12, <1>13,
     <1>14, <1>15, <1>16, <1>17, <1>18, <1>19, <1>20, <1>21, <1>22, <1>23, <1>24, <1>25,
     <1>26, <1>27, <1>28
     DEF Next, Environment, User, Background, UIThread

(* The three things a call of saveAtPath can do. *)
Joins == job # None /\ job' # None /\ UNCHANGED <<worker, used>>

Refuses(j) == j = None /\ job' = None /\ UNCHANGED <<worker, used>>

Starts(j, w, s, path, expected, rebind) ==
    /\ j = None /\ job' # None /\ CaptureReady /\ Command
    /\ rebind => ~s.busy
    /\ worker' = [pc |-> "stage", request |-> Request(w, path, expected, rebind), seen |-> None]

LEMMA SaveAtPathEffects ==
    ASSUME WorkspaceTypes, NEW w, NEW s, NEW j \in {job, None}, NEW path, NEW expected, NEW rebind \in BOOLEAN,
           NEW closing \in BOOLEAN, SaveAtPath(w, s, j, path, expected, rebind, closing)
    PROVE  (j # None /\ Joins) \/ Refuses(j) \/ Starts(j, w, s, path, expected, rebind)
<1>1. CASE j # None
  <2>1. j = job /\ job \in Jobs
    BY <1>1 DEF WorkspaceTypes, DiskTypes
  <2>2. job' \in Jobs
    BY <1>1, <2>1, JobField DEF SaveAtPath
  <2> QED
    BY <1>1, <2>1, <2>2, NotNone DEF SaveAtPath, Joins
<1>2. CASE j = None /\ (rebind => CanRebindStack(s)) /\ CaptureReady
  BY <1>2, JobForms, NotNone DEF SaveAtPath, Starts, CanRebindStack
<1>3. CASE j = None /\ ~((rebind => CanRebindStack(s)) /\ CaptureReady)
  BY <1>3 DEF SaveAtPath, Refuses
<1> QED
  BY <1>1, <1>2, <1>3

LEMMA StartedWorker ==
    ASSUME WorkspaceTypes, NEW w \in Tabs, NEW s, NEW j, NEW path \in Paths, NEW expected \in Nat,
           NEW rebind \in BOOLEAN, Starts(j, w, s, path, expected, rebind)
    PROVE  worker' \in Workers /\ worker' # None
<1>1. Request(w, path, expected, rebind) \in Requests
  BY RequestTypes
<1>2. worker' \in Workers
  BY <1>1, WorkerForms DEF Starts
<1> QED
  BY <1>2, NotNone
LEMMA SavedKept ==
    ASSUME SavedCarried
    PROVE  /\ NoSaved => NoSaved'
           /\ NoSaved' => NoSaved
           /\ OneSaved => OneSaved'
<1>1. PICK m \in {0, 1} :
         /\ \A i \in 1 .. Len(later') : later'[i].kind = "saved" =>
               i + m \in 1 .. Len(later) /\ later[i + m] = later'[i]
         /\ \A i \in 1 .. Len(later) : later[i].kind = "saved" =>
               i - m \in 1 .. Len(later') /\ later'[i - m] = later[i]
  BY DEF SavedCarried
<1>2. NoSaved => NoSaved'
  BY <1>1 DEF NoSaved
<1>3. NoSaved' => NoSaved
  BY <1>1 DEF NoSaved
<1>4. ASSUME OneSaved, NEW i \in 1 .. Len(later'), NEW j \in 1 .. Len(later'),
             later'[i].kind = "saved", later'[j].kind = "saved"
      PROVE  i = j
  <2>1. i + m = j + m
    BY <1>1, <1>4 DEF OneSaved
  <2> QED
    BY <2>1
<1> QED
  BY <1>2, <1>3, <1>4 DEF OneSaved

(* What an action does to a save: nothing, *)
SaveUntouched ==
    /\ SavedCarried /\ UNCHANGED <<job, tab>> /\ (worker' = None <=> worker = None)
    /\ tab = "open" \/ dialogs' \subseteq dialogs

(* it asks for one, *)
SaveCalled ==
    /\ SavedCarried /\ tab = "open" /\ UNCHANGED tab
    /\ Joins \/ Refuses(job)
       \/ \E path \in Paths, expected \in Nat, rebind \in BOOLEAN : Starts(job, ws, stack, path, expected, rebind)

(* it ends the work on it, *)
SaveDelivered == Delivers /\ UNCHANGED <<job, tab, dialogs>>

(* or it closes the tab. *)
SaveAbandoned ==
    /\ SavedCarried /\ UNCHANGED worker
    /\ tab = "open" /\ \E how \in {"saved", "discarded"} : Dispose(how)

LEMMA CheckedWorker ==
    ASSUME WorkspaceTypes, WorkerCheck
    PROVE  /\ worker' \in Workers /\ worker' # None /\ worker'.request = worker.request
           /\ worker'.seen = files[worker.request.path].ver
           /\ worker'.pc = IF files[worker.request.path].ver = worker.request.expected
                           THEN "replace" ELSE "conflict"
<1>1. worker \in Workers /\ files[worker.request.path].ver \in Nat
  BY WorkerIs, FileIs DEF WorkerCheck
<1>2. PICK n \in Nat : n = files[worker.request.path].ver
  BY <1>1
<1>3. CASE files[worker.request.path].ver = worker.request.expected
  <2>1. /\ [worker EXCEPT !.pc = "replace", !.seen = n] \in Workers
        /\ [worker EXCEPT !.pc = "replace", !.seen = n].pc = "replace"
        /\ [worker EXCEPT !.pc = "replace", !.seen = n].request = worker.request
        /\ [worker EXCEPT !.pc = "replace", !.seen = n].seen = n
    BY <1>1, WorkerFields
  <2>2. worker' = [worker EXCEPT !.pc = "replace", !.seen = n]
    BY <1>2, <1>3 DEF WorkerCheck
  <2> QED
    BY <1>2, <1>3, <2>1, <2>2, NotNone
<1>4. CASE files[worker.request.path].ver # worker.request.expected
  <2>1. /\ [worker EXCEPT !.pc = "conflict", !.seen = n] \in Workers
        /\ [worker EXCEPT !.pc = "conflict", !.seen = n].pc = "conflict"
        /\ [worker EXCEPT !.pc = "conflict", !.seen = n].request = worker.request
        /\ [worker EXCEPT !.pc = "conflict", !.seen = n].seen = n
    BY <1>1, WorkerFields
  <2>2. worker' = [worker EXCEPT !.pc = "conflict", !.seen = n]
    BY <1>2, <1>4 DEF WorkerCheck
  <2> QED
    BY <1>2, <1>4, <2>1, <2>2, NotNone
<1> QED
  BY <1>3, <1>4

LEMMA ReplacedWorker ==
    ASSUME WorkspaceTypes, WorkerReplace("replaced")
    PROVE  /\ worker' \in Workers /\ worker' # None /\ worker'.request = worker.request
           /\ worker'.seen = used.versions + 1 /\ worker'.pc = "verify"
           /\ used.versions + 1 \in Nat /\ UNCHANGED later
<1>1. worker \in Workers /\ used.versions + 1 \in Nat
  BY WorkerIs DEF WorkerReplace, WorkspaceTypes, SessionTypes, Bounds
<1>2. PICK n \in Nat : n = used.versions + 1
  BY <1>1
<1>3. worker' = [worker EXCEPT !.pc = "verify", !.seen = n] /\ UNCHANGED later
  BY <1>2 DEF WorkerReplace
<1>4. worker' \in Workers /\ worker'.request = worker.request /\ worker'.seen = n /\ worker'.pc = "verify"
  <2>1. /\ [worker EXCEPT !.pc = "verify", !.seen = n] \in Workers
        /\ [worker EXCEPT !.pc = "verify", !.seen = n].pc = "verify"
        /\ [worker EXCEPT !.pc = "verify", !.seen = n].request = worker.request
        /\ [worker EXCEPT !.pc = "verify", !.seen = n].seen = n
    BY <1>1, WorkerFields
  <2> QED
    BY <2>1, <1>3
<1> QED
  BY <1>1, <1>2, <1>3, <1>4, NotNone

LEMMA SaveShape ==
    ASSUME WorkspaceTypes, ClosedHasNone, Next
    PROVE  SaveUntouched \/ SaveCalled \/ SaveDelivered \/ SaveAbandoned \/ FinishSave
<1> USE DEF history, saving, disk
<1>1. ASSUME NEW accepted \in BOOLEAN, Settle(accepted)
      PROVE  SaveUntouched \/ SaveCalled \/ SaveDelivered \/ SaveAbandoned \/ FinishSave
  <2>1. SavedCarried \/ Delivers \/ FinishSave
    BY <1>1, SavedMoves DEF Next, Environment
  <2>2. worker' = worker /\ UNCHANGED <<job, tab, dialogs>>
    BY <1>1 DEF Settle
  <2> QED
    BY <2>1, <2>2 DEF SaveUntouched, SaveDelivered
<1>2. ASSUME NEW overwritten \in {{}} \cup {{e} : e \in 1 .. used.edits}, RemoteEdit(overwritten)
      PROVE  SaveUntouched \/ SaveCalled \/ SaveDelivered \/ SaveAbandoned \/ FinishSave
  <2>1. SavedCarried
    BY <1>2, SavedUnchanged DEF RemoteEdit
  <2> QED
    BY <1>2, <2>1 DEF RemoteEdit, SaveUntouched
<1>3. ASSUME NEW path \in Paths, NEW deleted \in BOOLEAN, OutsideWrite(path, deleted)
      PROVE  SaveUntouched \/ SaveCalled \/ SaveDelivered \/ SaveAbandoned \/ FinishSave
  <2>1. SavedCarried
    BY <1>3, SavedUnchanged DEF OutsideWrite
  <2> QED
    BY <1>3, <2>1 DEF OutsideWrite, SaveUntouched
<1>4. ASSUME NEW kind \in {"stroke", "move"}, BeginGesture(kind)
      PROVE  SaveUntouched \/ SaveCalled \/ SaveDelivered \/ SaveAbandoned \/ FinishSave
  <2>1. SavedCarried
    BY <1>4, SavedUnchanged DEF BeginGesture
  <2> QED
    BY <1>4, <2>1 DEF BeginGesture, SaveUntouched
<1>5. ASSUME NEW changed \in BOOLEAN, CommitOperation(changed)
      PROVE  SaveUntouched \/ SaveCalled \/ SaveDelivered \/ SaveAbandoned \/ FinishSave
  <2>1. SavedCarried
    BY <1>5, SavedUnchanged DEF CommitOperation
  <2> QED
    BY <1>5, <2>1 DEF CommitOperation, SaveUntouched
<1>6. ASSUME NEW content \in {exec.content, {}}, Reattach(content)
      PROVE  SaveUntouched \/ SaveCalled \/ SaveDelivered \/ SaveAbandoned \/ FinishSave
  <2>1. SavedCarried
    BY <1>6, SavedUnchanged DEF Reattach
  <2> QED
    BY <1>6, <2>1 DEF Reattach, SaveUntouched
<1>7. ASSUME NEW direction \in {"undo", "redo"}, BeginHistoryStep(direction)
      PROVE  SaveUntouched \/ SaveCalled \/ SaveDelivered \/ SaveAbandoned \/ FinishSave
  <2>1. SavedCarried
    BY <1>7, SavedUnchanged DEF BeginHistoryStep
  <2> QED
    BY <1>7, <2>1 DEF BeginHistoryStep, SaveUntouched
<1>8. CASE Save
  <2>1. SavedCarried
    BY <1>8, SavedUnchanged DEF Save
  <2>2. ws.path \in Paths /\ ws.disk \in Nat /\ 0 \in Nat
    BY TabTypes
  <2>3. tab = "open" /\ UNCHANGED tab
    BY <1>8 DEF Save, Commanding, ClosedHasNone
  <2>4. ASSUME NEW closing \in BOOLEAN, SaveAtPath(ws, stack, job, ws.path, ws.disk, FALSE, closing)
        PROVE  SaveCalled
    <3>1. Joins \/ Refuses(job) \/ Starts(job, ws, stack, ws.path, ws.disk, FALSE)
      BY <2>4, SaveAtPathEffects
    <3>2. ws.path \in Paths /\ ws.disk \in Nat
      BY <2>2, <1>8, DialogTypes
    <3> QED
      BY <2>1, <2>3, <3>1, <3>2 DEF SaveCalled
  <2> QED
    BY <1>8, <2>4 DEF Save
<1>9. ASSUME NEW path \in Paths, SaveAs(path)
      PROVE  SaveUntouched \/ SaveCalled \/ SaveDelivered \/ SaveAbandoned \/ FinishSave
  <2>1. SavedCarried
    BY <1>9, SavedUnchanged DEF SaveAs
  <2>2. ws.path \in Paths /\ ws.disk \in Nat /\ 0 \in Nat
    BY TabTypes
  <2>3. tab = "open" /\ UNCHANGED tab
    BY <1>9 DEF SaveAs, Commanding, ClosedHasNone
  <2>4. ASSUME NEW closing \in BOOLEAN, SaveAtPath(ws, stack, job, path, 0, TRUE, closing)
        PROVE  SaveCalled
    <3>1. Joins \/ Refuses(job) \/ Starts(job, ws, stack, path, 0, TRUE)
      BY <2>4, SaveAtPathEffects
    <3>2. path \in Paths /\ 0 \in Nat
      BY <2>2, <1>9, DialogTypes
    <3> QED
      BY <2>1, <2>3, <3>1, <3>2 DEF SaveCalled
  <2>5. CASE UNCHANGED <<job, worker>>
    BY <1>9, <2>1, <2>3, <2>5 DEF SaveAs, SaveUntouched
  <2> QED
    BY <1>9, <2>4, <2>5 DEF SaveAs
<1>10. ASSUME NEW d \in dialogs, ConfirmReplace(d)
       PROVE  SaveUntouched \/ SaveCalled \/ SaveDelivered \/ SaveAbandoned \/ FinishSave
  <2>1. SavedCarried
    BY <1>10, SavedUnchanged DEF ConfirmReplace
  <2>2. ws.path \in Paths /\ ws.disk \in Nat /\ 0 \in Nat
    BY TabTypes
  <2>3. tab = "open" /\ UNCHANGED tab
    BY <1>10 DEF ConfirmReplace, Commanding, ClosedHasNone
  <2>4. ASSUME NEW closing \in BOOLEAN, SaveAtPath(ws, stack, job, d.path, d.ver, TRUE, closing)
        PROVE  SaveCalled
    <3>1. Joins \/ Refuses(job) \/ Starts(job, ws, stack, d.path, d.ver, TRUE)
      BY <2>4, SaveAtPathEffects
    <3>2. d.path \in Paths /\ d.ver \in Nat
      BY <2>2, <1>10, DialogTypes
    <3> QED
      BY <2>1, <2>3, <3>1, <3>2 DEF SaveCalled
  <2>5. CASE UNCHANGED <<job, worker>>
    BY <1>10, <2>1, <2>3, <2>5 DEF ConfirmReplace, SaveUntouched
  <2> QED
    BY <1>10, <2>4, <2>5 DEF ConfirmReplace
<1>11. ASSUME NEW d \in dialogs, ConfirmOverwrite(d)
       PROVE  SaveUntouched \/ SaveCalled \/ SaveDelivered \/ SaveAbandoned \/ FinishSave
  <2>1. SavedCarried
    BY <1>11, SavedUnchanged DEF ConfirmOverwrite
  <2>2. ws.path \in Paths /\ ws.disk \in Nat /\ 0 \in Nat
    BY TabTypes
  <2>3. tab = "open" /\ UNCHANGED tab
    BY <1>11 DEF ConfirmOverwrite, Commanding, ClosedHasNone
  <2>4. ASSUME NEW closing \in BOOLEAN, SaveAtPath(ws, stack, job, ws.path, d.ver, FALSE, closing)
        PROVE  SaveCalled
    <3>1. Joins \/ Refuses(job) \/ Starts(job, ws, stack, ws.path, d.ver, FALSE)
      BY <2>4, SaveAtPathEffects
    <3>2. ws.path \in Paths /\ d.ver \in Nat
      BY <2>2, <1>11, DialogTypes
    <3> QED
      BY <2>1, <2>3, <3>1, <3>2 DEF SaveCalled
  <2> QED
    BY <1>11, <2>4 DEF ConfirmOverwrite
<1>12. ASSUME NEW d \in dialogs, CancelDialog(d)
       PROVE  SaveUntouched \/ SaveCalled \/ SaveDelivered \/ SaveAbandoned \/ FinishSave
  <2>1. SavedCarried
    BY <1>12, SavedUnchanged DEF CancelDialog
  <2> QED
    BY <1>12, <2>1 DEF CancelDialog, SaveUntouched
<1>13. CASE CloseTab
  <2>1. SavedCarried /\ tab = "open" /\ UNCHANGED worker
    BY <1>13, SavedUnchanged DEF CloseTab, Commanding
  <2> QED
    BY <1>13, <2>1 DEF CloseTab, SaveUntouched, SaveAbandoned
<1>14. ASSUME NEW d \in dialogs, CloseSaving(d)
       PROVE  SaveUntouched \/ SaveCalled \/ SaveDelivered \/ SaveAbandoned \/ FinishSave
  <2>1. SavedCarried
    BY <1>14, SavedUnchanged DEF CloseSaving
  <2>2. ws.path \in Paths /\ ws.disk \in Nat /\ 0 \in Nat
    BY TabTypes
  <2>3. tab = "open" /\ UNCHANGED tab
    BY <1>14 DEF CloseSaving, Commanding, ClosedHasNone
  <2>4. ASSUME NEW closing \in BOOLEAN, SaveAtPath(ws, stack, job, ws.path, ws.disk, FALSE, closing)
        PROVE  SaveCalled
    <3>1. Joins \/ Refuses(job) \/ Starts(job, ws, stack, ws.path, ws.disk, FALSE)
      BY <2>4, SaveAtPathEffects
    <3>2. ws.path \in Paths /\ ws.disk \in Nat
      BY <2>2, <1>14, DialogTypes
    <3> QED
      BY <2>1, <2>3, <3>1, <3>2 DEF SaveCalled
  <2> QED
    BY <1>14, <2>4 DEF CloseSaving
<1>15. ASSUME NEW d \in dialogs, CloseDiscarding(d)
       PROVE  SaveUntouched \/ SaveCalled \/ SaveDelivered \/ SaveAbandoned \/ FinishSave
  <2>1. SavedCarried /\ tab = "open" /\ UNCHANGED worker
    BY <1>15, SavedUnchanged DEF CloseDiscarding, ClosedHasNone
  <2> QED
    BY <1>15, <2>1 DEF CloseDiscarding, SaveAbandoned
<1>16. CASE HistoryWaitOver
  <2>1. SavedCarried \/ Delivers \/ FinishSave
    BY <1>16, SavedMoves DEF Next, Background
  <2>2. worker' = worker /\ UNCHANGED <<job, tab, dialogs>>
    BY <1>16 DEF HistoryWaitOver
  <2> QED
    BY <2>1, <2>2 DEF SaveUntouched, SaveDelivered
<1>17. CASE PrepareHistoryInverse
  <2>1. SavedCarried \/ Delivers \/ FinishSave
    BY <1>17, SavedMoves DEF Next, Background
  <2>2. worker' = worker /\ UNCHANGED <<job, tab, dialogs>>
    BY <1>17 DEF PrepareHistoryInverse
  <2> QED
    BY <2>1, <2>2 DEF SaveUntouched, SaveDelivered
<1>18. ASSUME NEW outcome \in {"ok", "error", "declined"}, WorkerStage(outcome)
       PROVE  SaveUntouched \/ SaveCalled \/ SaveDelivered \/ SaveAbandoned \/ FinishSave
  <2>1. worker \in Workers /\ worker # None /\ worker.seen \in Nat \cup {None}
    BY <1>18, WorkerIs DEF WorkerStage, Working
  <2>2. CASE outcome = "ok"
    <3>1. worker' \in Workers /\ UNCHANGED later
      BY <1>18, <2>1, <2>2, WorkerPc DEF WorkerStage
    <3> QED
      BY <1>18, <2>1, <3>1, NotNone, SavedUnchanged DEF WorkerStage, SaveUntouched
  <2>4. \A v \in Nat : Result("saved", v) \in Results /\ Result("conflict", v) \in Results /\ Result("error", v) \in Results /\ Result("declined", v) \in Results
    BY DEF Result, Results
  <2>3. CASE outcome # "ok"
    BY <1>18, <2>1, <2>3, <2>4 DEF WorkerStage, SaveDelivered, Delivers
  <2> QED
    BY <2>2, <2>3
<1>19. CASE WorkerCheck
  <2>1. worker # None /\ worker' # None
    BY <1>19, CheckedWorker DEF WorkerCheck, Working
  <2>2. SavedCarried
    BY <1>19, SavedUnchanged DEF WorkerCheck
  <2> QED
    BY <1>19, <2>1, <2>2 DEF WorkerCheck, SaveUntouched
<1>20. ASSUME NEW outcome \in {"replaced", "refused", "unsynced"}, WorkerReplace(outcome)
       PROVE  SaveUntouched \/ SaveCalled \/ SaveDelivered \/ SaveAbandoned \/ FinishSave
  <2>1. worker \in Workers /\ worker # None /\ worker.seen \in Nat \cup {None}
    BY <1>20, WorkerIs DEF WorkerReplace, Working
  <2>2. CASE outcome = "replaced"
    <3>1. worker' \in Workers /\ UNCHANGED later
      BY <1>20, <2>2, ReplacedWorker DEF WorkerReplace
    <3> QED
      BY <1>20, <2>1, <3>1, NotNone, SavedUnchanged DEF WorkerReplace, SaveUntouched
  <2>4. \A v \in Nat : Result("saved", v) \in Results /\ Result("conflict", v) \in Results /\ Result("error", v) \in Results /\ Result("declined", v) \in Results
    BY DEF Result, Results
  <2>3. CASE outcome # "replaced"
    BY <1>20, <2>1, <2>3, <2>4 DEF WorkerReplace, SaveDelivered, Delivers
  <2> QED
    BY <2>2, <2>3
<1>21. CASE WorkerVerify
  <2>1. worker \in Workers /\ worker # None /\ worker.seen \in Nat \cup {None}
    BY <1>21, WorkerIs DEF WorkerVerify, Working
  <2>2. CASE files[worker.request.path].ver # worker.seen
    <3>1. worker' \in Workers /\ UNCHANGED later
      BY <1>21, <2>1, <2>2, WorkerPc DEF WorkerVerify
    <3> QED
      BY <1>21, <2>1, <3>1, NotNone, SavedUnchanged DEF WorkerVerify, SaveUntouched
  <2>4. \A v \in Nat : Result("saved", v) \in Results /\ Result("conflict", v) \in Results /\ Result("error", v) \in Results /\ Result("declined", v) \in Results
    BY DEF Result, Results
  <2>5. files[worker.request.path].ver \in Nat
    BY <1>21, WorkerIs, FileIs DEF WorkerVerify
  <2>3. CASE files[worker.request.path].ver = worker.seen
    BY <1>21, <2>1, <2>3, <2>4, <2>5 DEF WorkerVerify, SaveDelivered, Delivers
  <2> QED
    BY <2>2, <2>3
<1>22. ASSUME NEW read \in BOOLEAN, WorkerCaptureConflict(read)
       PROVE  SaveUntouched \/ SaveCalled \/ SaveDelivered \/ SaveAbandoned \/ FinishSave
  <2>4. \A v \in Nat : Result("saved", v) \in Results /\ Result("conflict", v) \in Results /\ Result("error", v) \in Results /\ Result("declined", v) \in Results
    BY DEF Result, Results
  <2>5. files[worker.request.path].ver \in Nat
    BY <1>22, WorkerIs, FileIs DEF WorkerCaptureConflict
  <2> QED
    BY <1>22, <2>4, <2>5 DEF WorkerCaptureConflict, SaveDelivered, Delivers, Working
<1>23. CASE ProcessCollaborationUpdates
  <2>1. SavedCarried
    BY <1>23, SavedUnchanged DEF ProcessCollaborationUpdates
  <2> QED
    BY <1>23, <2>1 DEF ProcessCollaborationUpdates, SaveUntouched
<1>24. CASE RunHistoryWaited
  <2>1. SavedCarried
    BY <1>24, SavedRun DEF RunHistoryWaited, Run
  <2> QED
    BY <1>24, <2>1 DEF RunHistoryWaited, SaveUntouched
<1>25. CASE RunHistoryInverse
  <2>1. SavedCarried
    BY <1>25, SavedRun DEF RunHistoryInverse, Run
  <2> QED
    BY <1>25, <2>1 DEF RunHistoryInverse, SaveUntouched
<1>26. CASE RunEditOutcome
  <2>1. SavedCarried
    BY <1>26, SavedRun DEF RunEditOutcome, Run
  <2> QED
    BY <1>26, <2>1 DEF RunEditOutcome, SaveUntouched
<1>27. CASE RunHistoryOutcome
  <2>1. SavedCarried
    BY <1>27, SavedRun DEF RunHistoryOutcome, Run
  <2> QED
    BY <1>27, <2>1 DEF RunHistoryOutcome, SaveUntouched
<1>28. CASE FinishSave
  BY <1>28
<1> QED
  BY <1>1, <1>2, <1>3, <1>4, <1>5, <1>6, <1>7, <1>8, <1>9, <1>10, <1>11, <1>12, <1>13,
     <1>14, <1>15, <1>16, <1>17, <1>18, <1>19, <1>20, <1>21, <1>22, <1>23, <1>24, <1>25,
     <1>26, <1>27, <1>28
     DEF Next, Environment, User, Background, UIThread
(* The end of a save, in three cases. *)
LEMMA FinishCases ==
    ASSUME WorkspaceTypes, FinishSave
    PROVE  \E request \in Requests, result \in Results :
              /\ later # <<>> /\ Head(later).kind = "saved" /\ later' = Tail(later)
              /\ Head(later).request = request /\ Head(later).result = result /\ result.ver \in Nat
              /\ UNCHANGED <<exec, inflight, step, agreed>>
              /\ \/ job = None /\ UNCHANGED <<ws, job, view, stack, worker, dialogs, tab, files, used>>
                 \/ /\ job # None /\ result.outcome = "saved" /\ ws.path = request.id
                    /\ request.rebind => ~stack.busy
                    /\ FinishSaved(job, request, result.ver) /\ UNCHANGED files
                 \/ job # None /\ FinishFailed(request, result)
<1>1. PICK request \in Requests, result \in Results :
         request = Head(later).request /\ result = Head(later).result /\ result.ver \in Nat
  BY SavedRuns DEF FinishSave
<1> QED
  BY <1>1 DEF FinishSave, Run, CanRebindStack

LEMMA FinishSavedCases ==
    ASSUME WorkspaceTypes, job # None, NEW request \in Requests, NEW version \in Nat,
           FinishSaved(job, request, version)
    PROVE  \E w \in Tabs :
              /\ w = SavedWorkspace(request, version) /\ ws' = w
              /\ \/ /\ UNCHANGED <<view, tab, dialogs>>
                    /\ stack' = stack \/ stack' = ForceBalance(stack)
                    /\ \/ Refuses(None)
                       \/ \E s : Starts(None, w, s, w.path, w.disk, FALSE)
                 \/ /\ Dispose("saved") /\ UNCHANGED <<worker, used>>
                    /\ SaveCaptureReady(request) /\ ~HasUnsavedChanges(w, None, ForceBalance(stack))
<1>1. PICK w \in Tabs : w = SavedWorkspace(request, version)
  BY SavedWorkspaceTypes
<1> DEFINE s == IF SaveCaptureReady(request) THEN ForceBalance(stack) ELSE stack
<1>2. ASSUME SaveAtPath(w, s, None, w.path, w.disk, FALSE, FALSE)
      PROVE  Refuses(None) \/ Starts(None, w, s, w.path, w.disk, FALSE)
  BY <1>2, SaveAtPathEffects
<1>3. ws' = w
  BY <1>1 DEF FinishSaved
<1>4. CASE SaveCaptureReady(request) /\ job.closing /\ ~HasUnsavedChanges(w, None, s)
  BY <1>1, <1>3, <1>4 DEF FinishSaved
<1>5. CASE ~(SaveCaptureReady(request) /\ job.closing /\ ~HasUnsavedChanges(w, None, s))
  <2>1. /\ stack' = s /\ UNCHANGED <<view, tab, dialogs>>
        /\ \/ SaveAtPath(w, s, None, w.path, w.disk, FALSE, FALSE)
           \/ job' = None /\ UNCHANGED <<worker, used>>
    BY <1>1, <1>5 DEF FinishSaved
  <2>2. Refuses(None) \/ \E t : Starts(None, w, t, w.path, w.disk, FALSE)
    <3>1. CASE SaveAtPath(w, s, None, w.path, w.disk, FALSE, FALSE)
      BY <1>2, <3>1
    <3>2. CASE job' = None /\ UNCHANGED <<worker, used>>
      BY <3>2 DEF Refuses
    <3> QED
      BY <2>1, <3>1, <3>2
  <2> QED
    BY <1>1, <1>3, <2>1, <2>2
<1> QED
  BY <1>4, <1>5

LEMMA SaveTokensStep ==
    ASSUME WorkspaceTypes, SaveTokens, Next
    PROVE  SaveTokens'
<1>1. SaveUntouched \/ SaveCalled \/ SaveDelivered \/ SaveAbandoned \/ FinishSave
  BY SaveShape DEF SaveTokens
<1>2. CASE SaveUntouched
  <2>1. tab # "open" => dialogs' = {}
    BY <1>2 DEF SaveUntouched, SaveTokens, ClosedHasNone
  <2> QED
    BY <1>2, <2>1, SavedKept DEF SaveUntouched, SaveTokens, WorkerOrSaved, SaveIsKnown, SaveIsAnswered,
       ClosedHasNone
<1>3. CASE SaveCalled
  <2>1. SavedCarried /\ tab = "open" /\ tab' = "open"
    BY <1>3 DEF SaveCalled
  <2>2. CASE Joins
    BY <2>1, <2>2, SavedKept
       DEF Joins, SaveTokens, WorkerOrSaved, SaveIsKnown, SaveIsAnswered, ClosedHasNone
  <2>3. CASE Refuses(job)
    BY <2>1, <2>3, SavedKept
       DEF Refuses, SaveTokens, WorkerOrSaved, SaveIsKnown, SaveIsAnswered, ClosedHasNone
  <2>4. ASSUME NEW path \in Paths, NEW expected \in Nat, NEW rebind \in BOOLEAN,
               Starts(job, ws, stack, path, expected, rebind)
        PROVE  SaveTokens'
    <3>1. NoSaved'
      BY <2>1, <2>4, SavedKept DEF Starts, SaveTokens, SaveIsKnown
    <3>2. worker' # None /\ job' # None
      BY <2>4, StartedWorker, TabTypes DEF Starts
    <3> QED
      BY <2>1, <3>1, <3>2, SavedKept
         DEF SaveTokens, WorkerOrSaved, SaveIsKnown, SaveIsAnswered, ClosedHasNone
  <2> QED
    BY <1>3, <2>2, <2>3, <2>4 DEF SaveCalled
<1>4. CASE SaveDelivered
  <2>1. PICK r \in Results : worker # None /\ Deliver(r)
    BY <1>4 DEF SaveDelivered, Delivers
  <2>2. later \in Seq(Closures) /\ worker.request \in Requests
    BY <2>1 DEF WorkspaceTypes, DiskTypes, Workers
  <2>3. PICK c \in Closures : c = [kind |-> "saved", request |-> worker.request, result |-> r]
    BY <2>2, ClosureForms
  <2>4. c.kind = "saved" /\ later' = Append(later, c) /\ worker' = None
    BY <2>1, <2>3 DEF Deliver
  <2>5. NoSaved
    BY <2>1 DEF SaveTokens, WorkerOrSaved
  <2>6. /\ \A i \in 1 .. Len(later') : later'[i].kind = "saved" => i = Len(later) + 1
        /\ Len(later) + 1 \in 1 .. Len(later') /\ later'[Len(later) + 1].kind = "saved"
    BY <2>2, <2>4, <2>5, AppendOne DEF NoSaved
  <2>7. OneSaved' /\ ~NoSaved'
    BY <2>6 DEF OneSaved, NoSaved
  <2>8. tab = "open" => job # None
    BY <2>1 DEF SaveTokens, SaveIsKnown
  <2> QED
    BY <1>4, <2>4, <2>7, <2>8 DEF SaveDelivered, SaveTokens, WorkerOrSaved, SaveIsKnown, SaveIsAnswered,
       ClosedHasNone
<1>5. CASE SaveAbandoned
  <2>1. tab' # "open" /\ job' = None /\ dialogs' = {} /\ SavedCarried /\ UNCHANGED worker
    BY <1>5 DEF SaveAbandoned, Dispose
  <2> QED
    BY <2>1, SavedKept DEF SaveTokens, WorkerOrSaved, SaveIsKnown, SaveIsAnswered, ClosedHasNone
<1>6. CASE FinishSave
  <2>1. PICK request \in Requests, result \in Results :
              /\ later # <<>> /\ Head(later).kind = "saved" /\ later' = Tail(later) /\ result.ver \in Nat
              /\ \/ job = None /\ UNCHANGED <<ws, job, view, stack, worker, dialogs, tab, files, used>>
                 \/ job # None /\ FinishSaved(job, request, result.ver)
                 \/ job # None /\ FinishFailed(request, result)
    BY <1>6, FinishCases
  <2>2. /\ later[1].kind = "saved" /\ 1 \in 1 .. Len(later)
        /\ \A i \in 1 .. Len(later') : i + 1 \in 1 .. Len(later) /\ later'[i] = later[i + 1] /\ i + 1 # 1
    BY <2>1, HeadTail DEF WorkspaceTypes
  <2>3. NoSaved'
    BY <2>2 DEF SaveTokens, OneSaved, NoSaved
  <2>4. OneSaved'
    BY <2>3 DEF NoSaved, OneSaved
  <2>5. worker = None
    BY <2>2 DEF SaveTokens, WorkerOrSaved, NoSaved
  <2>6. CASE job = None /\ UNCHANGED <<ws, job, view, stack, worker, dialogs, tab, files, used>>
    BY <2>3, <2>4, <2>5, <2>6 DEF SaveTokens, WorkerOrSaved, SaveIsKnown, SaveIsAnswered, ClosedHasNone
  <2>7. job # None => tab = "open"
    BY DEF SaveTokens, ClosedHasNone
  <2>8. CASE job # None /\ FinishFailed(request, result)
    BY <2>3, <2>4, <2>5, <2>7, <2>8
       DEF FinishFailed, SaveTokens, WorkerOrSaved, SaveIsKnown, SaveIsAnswered,
       ClosedHasNone
  <2>9. CASE job # None /\ FinishSaved(job, request, result.ver)
    <3>1. PICK w \in Tabs :
             \/ /\ UNCHANGED <<view, tab, dialogs>>
                /\ Refuses(None) \/ \E s : Starts(None, w, s, w.path, w.disk, FALSE)
             \/ Dispose("saved") /\ UNCHANGED <<worker, used>>
      BY <2>1, <2>9, FinishSavedCases
    <3>2. CASE Dispose("saved") /\ UNCHANGED <<worker, used>>
      BY <2>3, <2>4, <2>5, <3>2
         DEF Dispose, SaveTokens, WorkerOrSaved, SaveIsKnown, SaveIsAnswered, ClosedHasNone
    <3>3. CASE UNCHANGED <<view, tab, dialogs>> /\ Refuses(None)
      BY <2>3, <2>4, <2>5, <2>7, <2>9, <3>3
         DEF Refuses, SaveTokens, WorkerOrSaved, SaveIsKnown, SaveIsAnswered,
         ClosedHasNone
    <3>4. ASSUME NEW s, UNCHANGED <<view, tab, dialogs>>, Starts(None, w, s, w.path, w.disk, FALSE)
          PROVE  SaveTokens'
      <4>1. worker' # None /\ job' # None
        BY <3>4, StartedWorker DEF Starts, Tabs
      <4> QED
        BY <2>3, <2>4, <2>7, <2>9, <3>4, <4>1 DEF SaveTokens, WorkerOrSaved, SaveIsKnown, SaveIsAnswered,
           ClosedHasNone
    <3> QED
      BY <3>1, <3>2, <3>3, <3>4
  <2> QED
    BY <2>1, <2>6, <2>8, <2>9
<1> QED
  BY <1>1, <1>2, <1>3, <1>4, <1>5, <1>6

(* Where a save that starts takes its path and the version it expects from. *)
Begins ==
    /\ UNCHANGED <<exec, view, files, ws, tab>> /\ tab = "open"
    /\ \E path \in Paths, expected \in Nat, rebind \in BOOLEAN :
       /\ Starts(job, ws, stack, path, expected, rebind)
       /\ rebind \/ path = ws.path
       /\ \/ path = ws.path /\ expected = ws.disk
          \/ files[path].ver = 0 /\ expected = 0
          \/ expected \in agreed' /\ \E d \in dialogs : d.ver = expected

(* The work on it goes on, *)
Works ==
    /\ worker # None /\ worker' \in Workers /\ worker'.request = worker.request /\ UNCHANGED later
    /\ \/ worker'.pc \in {"check", "conflict"} /\ (worker.pc = "verify" => WorkerVerify)
       \/ worker'.pc = "replace" /\ worker.pc = "check" /\ worker'.seen = worker.request.expected
       \/ worker'.pc = "verify" /\ WorkerReplace("replaced") /\ worker'.seen = used.versions + 1

(* and ends. *)
Ends ==
    \E r \in Results :
       /\ worker # None /\ Deliver(r)
       /\ r.outcome = "saved" => worker.pc = "verify" /\ r.ver = worker.seen
       /\ worker.pc = "verify" => r.outcome = "saved"
       /\ r.outcome # "saved" => r.ver \in {0, files[worker.request.path].ver}

LEMMA WorkerShape ==
    ASSUME WorkspaceTypes, ClosedHasNone, Next
    PROVE  (SavedCarried /\ UNCHANGED worker) \/ (SavedCarried /\ Begins) \/ Works \/ Ends \/ FinishSave
<1> USE DEF history, saving, disk
<1>1. ASSUME NEW accepted \in BOOLEAN, Settle(accepted)
      PROVE  (SavedCarried /\ UNCHANGED worker) \/ (SavedCarried /\ Begins) \/ Works \/ Ends \/ FinishSave
  <2>1. SavedCarried \/ Delivers \/ FinishSave
    BY <1>1, SavedMoves DEF Next, Environment
  <2>2. worker' = worker
    BY <1>1 DEF Settle
  <2>3. ~Delivers
    BY <2>2 DEF Delivers, Deliver
  <2> QED
    BY <2>1, <2>2, <2>3
<1>2. ASSUME NEW overwritten \in {{}} \cup {{e} : e \in 1 .. used.edits}, RemoteEdit(overwritten)
      PROVE  (SavedCarried /\ UNCHANGED worker) \/ (SavedCarried /\ Begins) \/ Works \/ Ends \/ FinishSave
  <2>1. SavedCarried
    BY <1>2, SavedUnchanged DEF RemoteEdit
  <2> QED
    BY <1>2, <2>1 DEF RemoteEdit
<1>3. ASSUME NEW path \in Paths, NEW deleted \in BOOLEAN, OutsideWrite(path, deleted)
      PROVE  (SavedCarried /\ UNCHANGED worker) \/ (SavedCarried /\ Begins) \/ Works \/ Ends \/ FinishSave
  <2>1. SavedCarried
    BY <1>3, SavedUnchanged DEF OutsideWrite
  <2> QED
    BY <1>3, <2>1 DEF OutsideWrite
<1>4. ASSUME NEW kind \in {"stroke", "move"}, BeginGesture(kind)
      PROVE  (SavedCarried /\ UNCHANGED worker) \/ (SavedCarried /\ Begins) \/ Works \/ Ends \/ FinishSave
  <2>1. SavedCarried
    BY <1>4, SavedUnchanged DEF BeginGesture
  <2> QED
    BY <1>4, <2>1 DEF BeginGesture
<1>5. ASSUME NEW changed \in BOOLEAN, CommitOperation(changed)
      PROVE  (SavedCarried /\ UNCHANGED worker) \/ (SavedCarried /\ Begins) \/ Works \/ Ends \/ FinishSave
  <2>1. SavedCarried
    BY <1>5, SavedUnchanged DEF CommitOperation
  <2> QED
    BY <1>5, <2>1 DEF CommitOperation
<1>6. ASSUME NEW content \in {exec.content, {}}, Reattach(content)
      PROVE  (SavedCarried /\ UNCHANGED worker) \/ (SavedCarried /\ Begins) \/ Works \/ Ends \/ FinishSave
  <2>1. SavedCarried
    BY <1>6, SavedUnchanged DEF Reattach
  <2> QED
    BY <1>6, <2>1 DEF Reattach
<1>7. ASSUME NEW direction \in {"undo", "redo"}, BeginHistoryStep(direction)
      PROVE  (SavedCarried /\ UNCHANGED worker) \/ (SavedCarried /\ Begins) \/ Works \/ Ends \/ FinishSave
  <2>1. SavedCarried
    BY <1>7, SavedUnchanged DEF BeginHistoryStep
  <2> QED
    BY <1>7, <2>1 DEF BeginHistoryStep
<1>8. CASE Save
  <2>1. SavedCarried
    BY <1>8, SavedUnchanged DEF Save
  <2>2. ws \in Tabs /\ ws.path \in Paths /\ ws.disk \in Nat /\ 0 \in Nat
    BY TabTypes
  <2>3. tab = "open" /\ UNCHANGED <<tab, exec, view, files, ws>>
    BY <1>8 DEF Save, Commanding, ClosedHasNone
  <2>4. ASSUME NEW closing \in BOOLEAN, SaveAtPath(ws, stack, job, ws.path, ws.disk, FALSE, closing)
        PROVE  UNCHANGED worker \/ Begins
    <3>1. (job # None /\ Joins) \/ Refuses(job) \/ Starts(job, ws, stack, ws.path, ws.disk, FALSE)
      BY <2>4, SaveAtPathEffects
    <3>2. ws.path \in Paths /\ ws.disk \in Nat
      BY <2>2, <1>8, DialogTypes
    <3>3. ASSUME Starts(job, ws, stack, ws.path, ws.disk, FALSE)
          PROVE  Begins
      BY <2>2, <2>3, <3>3 DEF Begins
    <3> QED
      BY <3>1, <3>3 DEF Joins, Refuses
  <2> QED
    BY <1>8, <2>1, <2>4 DEF Save
<1>9. ASSUME NEW path \in Paths, SaveAs(path)
      PROVE  (SavedCarried /\ UNCHANGED worker) \/ (SavedCarried /\ Begins) \/ Works \/ Ends \/ FinishSave
  <2>1. SavedCarried
    BY <1>9, SavedUnchanged DEF SaveAs
  <2>2. ws \in Tabs /\ ws.path \in Paths /\ ws.disk \in Nat /\ 0 \in Nat
    BY TabTypes
  <2>3. tab = "open" /\ UNCHANGED <<tab, exec, view, files, ws>>
    BY <1>9 DEF SaveAs, Commanding, ClosedHasNone
  <2>4. ASSUME files[path].ver = 0, NEW closing \in BOOLEAN, SaveAtPath(ws, stack, job, path, 0, TRUE, closing)
        PROVE  UNCHANGED worker \/ Begins
    <3>1. (job # None /\ Joins) \/ Refuses(job) \/ Starts(job, ws, stack, path, 0, TRUE)
      BY <2>4, SaveAtPathEffects
    <3>2. path \in Paths /\ 0 \in Nat
      BY <2>2, <1>9, DialogTypes
    <3>3. ASSUME Starts(job, ws, stack, path, 0, TRUE)
          PROVE  Begins
      BY <2>2, <2>3, <2>4, <3>2, <3>3 DEF Begins
    <3> QED
      BY <3>1, <3>3 DEF Joins, Refuses
  <2> QED
    BY <1>9, <2>1, <2>4 DEF SaveAs
<1>10. ASSUME NEW d \in dialogs, ConfirmReplace(d)
       PROVE  (SavedCarried /\ UNCHANGED worker) \/ (SavedCarried /\ Begins) \/ Works \/ Ends \/ FinishSave
  <2>1. SavedCarried
    BY <1>10, SavedUnchanged DEF ConfirmReplace
  <2>2. ws \in Tabs /\ ws.path \in Paths /\ ws.disk \in Nat /\ 0 \in Nat
    BY TabTypes
  <2>3. tab = "open" /\ UNCHANGED <<tab, exec, view, files, ws>>
    BY <1>10 DEF ConfirmReplace, Commanding, ClosedHasNone
  <2>4. ASSUME NEW closing \in BOOLEAN, SaveAtPath(ws, stack, job, d.path, d.ver, TRUE, closing)
        PROVE  UNCHANGED worker \/ Begins
    <3>1. (job # None /\ Joins) \/ Refuses(job) \/ Starts(job, ws, stack, d.path, d.ver, TRUE)
      BY <2>4, SaveAtPathEffects
    <3>2. d.path \in Paths /\ d.ver \in Nat
      BY <2>2, <1>10, DialogTypes
    <3>3. ASSUME Starts(job, ws, stack, d.path, d.ver, TRUE)
          PROVE  Begins
      <4>1. d.ver \in agreed' /\ d \in dialogs
        BY <1>10 DEF ConfirmReplace
      <4> QED
        BY <2>2, <2>3, <3>2, <3>3, <4>1 DEF Begins
    <3> QED
      BY <3>1, <3>3 DEF Joins, Refuses
  <2> QED
    BY <1>10, <2>1, <2>4 DEF ConfirmReplace
<1>11. ASSUME NEW d \in dialogs, ConfirmOverwrite(d)
       PROVE  (SavedCarried /\ UNCHANGED worker) \/ (SavedCarried /\ Begins) \/ Works \/ Ends \/ FinishSave
  <2>1. SavedCarried
    BY <1>11, SavedUnchanged DEF ConfirmOverwrite
  <2>2. ws \in Tabs /\ ws.path \in Paths /\ ws.disk \in Nat /\ 0 \in Nat
    BY TabTypes
  <2>3. tab = "open" /\ UNCHANGED <<tab, exec, view, files, ws>>
    BY <1>11 DEF ConfirmOverwrite, Commanding, ClosedHasNone
  <2>4. ASSUME NEW closing \in BOOLEAN, SaveAtPath(ws, stack, job, ws.path, d.ver, FALSE, closing)
        PROVE  UNCHANGED worker \/ Begins
    <3>1. (job # None /\ Joins) \/ Refuses(job) \/ Starts(job, ws, stack, ws.path, d.ver, FALSE)
      BY <2>4, SaveAtPathEffects
    <3>2. ws.path \in Paths /\ d.ver \in Nat
      BY <2>2, <1>11, DialogTypes
    <3>3. ASSUME Starts(job, ws, stack, ws.path, d.ver, FALSE)
          PROVE  Begins
      <4>1. d.ver \in agreed' /\ d \in dialogs
        BY <1>11 DEF ConfirmOverwrite
      <4> QED
        BY <2>2, <2>3, <3>2, <3>3, <4>1 DEF Begins
    <3> QED
      BY <3>1, <3>3 DEF Joins, Refuses
  <2> QED
    BY <1>11, <2>1, <2>4 DEF ConfirmOverwrite
<1>12. ASSUME NEW d \in dialogs, CancelDialog(d)
       PROVE  (SavedCarried /\ UNCHANGED worker) \/ (SavedCarried /\ Begins) \/ Works \/ Ends \/ FinishSave
  <2>1. SavedCarried
    BY <1>12, SavedUnchanged DEF CancelDialog
  <2> QED
    BY <1>12, <2>1 DEF CancelDialog
<1>13. CASE CloseTab
  <2>1. SavedCarried
    BY <1>13, SavedUnchanged DEF CloseTab
  <2> QED
    BY <1>13, <2>1 DEF CloseTab
<1>14. ASSUME NEW d \in dialogs, CloseSaving(d)
       PROVE  (SavedCarried /\ UNCHANGED worker) \/ (SavedCarried /\ Begins) \/ Works \/ Ends \/ FinishSave
  <2>1. SavedCarried
    BY <1>14, SavedUnchanged DEF CloseSaving
  <2>2. ws \in Tabs /\ ws.path \in Paths /\ ws.disk \in Nat /\ 0 \in Nat
    BY TabTypes
  <2>3. tab = "open" /\ UNCHANGED <<tab, exec, view, files, ws>>
    BY <1>14 DEF CloseSaving, Commanding, ClosedHasNone
  <2>4. ASSUME NEW closing \in BOOLEAN, SaveAtPath(ws, stack, job, ws.path, ws.disk, FALSE, closing)
        PROVE  UNCHANGED worker \/ Begins
    <3>1. (job # None /\ Joins) \/ Refuses(job) \/ Starts(job, ws, stack, ws.path, ws.disk, FALSE)
      BY <2>4, SaveAtPathEffects
    <3>2. ws.path \in Paths /\ ws.disk \in Nat
      BY <2>2, <1>14, DialogTypes
    <3>3. ASSUME Starts(job, ws, stack, ws.path, ws.disk, FALSE)
          PROVE  Begins
      BY <2>2, <2>3, <3>3 DEF Begins
    <3> QED
      BY <3>1, <3>3 DEF Joins, Refuses
  <2> QED
    BY <1>14, <2>1, <2>4 DEF CloseSaving
<1>15. ASSUME NEW d \in dialogs, CloseDiscarding(d)
       PROVE  (SavedCarried /\ UNCHANGED worker) \/ (SavedCarried /\ Begins) \/ Works \/ Ends \/ FinishSave
  <2>1. SavedCarried
    BY <1>15, SavedUnchanged DEF CloseDiscarding
  <2> QED
    BY <1>15, <2>1 DEF CloseDiscarding
<1>16. CASE HistoryWaitOver
  <2>1. SavedCarried \/ Delivers \/ FinishSave
    BY <1>16, SavedMoves DEF Next, Background
  <2>2. worker' = worker
    BY <1>16 DEF HistoryWaitOver
  <2>3. ~Delivers
    BY <2>2 DEF Delivers, Deliver
  <2> QED
    BY <2>1, <2>2, <2>3
<1>17. CASE PrepareHistoryInverse
  <2>1. SavedCarried \/ Delivers \/ FinishSave
    BY <1>17, SavedMoves DEF Next, Background
  <2>2. worker' = worker
    BY <1>17 DEF PrepareHistoryInverse
  <2>3. ~Delivers
    BY <2>2 DEF Delivers, Deliver
  <2> QED
    BY <2>1, <2>2, <2>3
<1>18. ASSUME NEW outcome \in {"ok", "error", "declined"}, WorkerStage(outcome)
       PROVE  (SavedCarried /\ UNCHANGED worker) \/ (SavedCarried /\ Begins) \/ Works \/ Ends \/ FinishSave
  <2>1. worker \in Workers /\ worker # None
    BY <1>18, WorkerIs DEF WorkerStage, Working
  <2>2. CASE outcome = "ok"
    <3>1. /\ worker' \in Workers
          /\ worker'.request = worker.request
          /\ worker'.pc = "check"
          /\ UNCHANGED later
          /\ worker.pc = "stage"
      <4>1. /\ [worker EXCEPT !.pc = "check"] \in Workers
            /\ [worker EXCEPT !.pc = "check"].request = worker.request
            /\ [worker EXCEPT !.pc = "check"].pc = "check"
        BY <2>1, WorkerPc
      <4> QED
        BY <1>18, <2>2, <4>1 DEF WorkerStage, Working
    <3> QED
      BY <2>1, <3>1 DEF Works
  <2>4. \A v \in Nat : Result("saved", v) \in Results /\ Result("conflict", v) \in Results /\ Result("error", v) \in Results /\ Result("declined", v) \in Results
    BY DEF Result, Results
  <2>5. \A o, v : Result(o, v).outcome = o /\ Result(o, v).ver = v
    BY DEF Result
  <2>3. CASE outcome # "ok"
    BY <1>18, <2>1, <2>3, <2>4, <2>5 DEF WorkerStage, Working, Ends
  <2> QED
    BY <2>2, <2>3
<1>19. CASE WorkerCheck
  <2>1. worker # None /\ worker.pc = "check" /\ UNCHANGED later
    BY <1>19 DEF WorkerCheck, Working
  <2> QED
    BY <1>19, <2>1, CheckedWorker DEF Works
<1>20. ASSUME NEW outcome \in {"replaced", "refused", "unsynced"}, WorkerReplace(outcome)
       PROVE  (SavedCarried /\ UNCHANGED worker) \/ (SavedCarried /\ Begins) \/ Works \/ Ends \/ FinishSave
  <2>1. worker \in Workers /\ worker # None
    BY <1>20, WorkerIs DEF WorkerReplace, Working
  <2>2. CASE outcome = "replaced"
    BY <1>20, <2>1, <2>2, ReplacedWorker DEF Works
  <2>4. \A v \in Nat : Result("saved", v) \in Results /\ Result("conflict", v) \in Results /\ Result("error", v) \in Results /\ Result("declined", v) \in Results
    BY DEF Result, Results
  <2>5. \A o, v : Result(o, v).outcome = o /\ Result(o, v).ver = v
    BY DEF Result
  <2>3. CASE outcome # "replaced"
    BY <1>20, <2>1, <2>3, <2>4, <2>5 DEF WorkerReplace, Working, Ends
  <2> QED
    BY <2>2, <2>3
<1>21. CASE WorkerVerify
  <2>1. worker \in Workers /\ worker # None
    BY <1>21, WorkerIs DEF WorkerVerify, Working
  <2>2. CASE files[worker.request.path].ver # worker.seen
    <3>1. /\ worker' \in Workers
          /\ worker'.request = worker.request
          /\ worker'.pc = "conflict"
          /\ UNCHANGED later
      <4>1. /\ [worker EXCEPT !.pc = "conflict"] \in Workers
            /\ [worker EXCEPT !.pc = "conflict"].request = worker.request
            /\ [worker EXCEPT !.pc = "conflict"].pc = "conflict"
        BY <2>1, WorkerPc
      <4> QED
        BY <1>21, <2>2, <4>1 DEF WorkerVerify, Working
    <3> QED
      BY <1>21, <2>1, <3>1 DEF Works
  <2>4. \A v \in Nat : Result("saved", v) \in Results /\ Result("conflict", v) \in Results /\ Result("error", v) \in Results /\ Result("declined", v) \in Results
    BY DEF Result, Results
  <2>5. \A o, v : Result(o, v).outcome = o /\ Result(o, v).ver = v
    BY DEF Result
  <2>6. files[worker.request.path].ver \in Nat
    BY <1>21, WorkerIs, FileIs DEF WorkerVerify
  <2>3. CASE files[worker.request.path].ver = worker.seen
    BY <1>21, <2>1, <2>3, <2>4, <2>5, <2>6 DEF WorkerVerify, Working, Ends
  <2> QED
    BY <2>2, <2>3
<1>22. ASSUME NEW read \in BOOLEAN, WorkerCaptureConflict(read)
       PROVE  (SavedCarried /\ UNCHANGED worker) \/ (SavedCarried /\ Begins) \/ Works \/ Ends \/ FinishSave
  <2>1. worker \in Workers /\ worker # None
    BY <1>22, WorkerIs DEF WorkerCaptureConflict, Working
  <2>4. \A v \in Nat : Result("saved", v) \in Results /\ Result("conflict", v) \in Results /\ Result("error", v) \in Results /\ Result("declined", v) \in Results
    BY DEF Result, Results
  <2>5. \A o, v : Result(o, v).outcome = o /\ Result(o, v).ver = v
    BY DEF Result
  <2>6. files[worker.request.path].ver \in Nat
    BY <1>22, WorkerIs, FileIs DEF WorkerCaptureConflict
  <2> QED
    BY <1>22, <2>1, <2>4, <2>5, <2>6 DEF WorkerCaptureConflict, Working, Ends
<1>23. CASE ProcessCollaborationUpdates
  <2>1. SavedCarried
    BY <1>23, SavedUnchanged DEF ProcessCollaborationUpdates
  <2> QED
    BY <1>23, <2>1 DEF ProcessCollaborationUpdates
<1>24. CASE RunHistoryWaited
  <2>1. SavedCarried
    BY <1>24, SavedRun DEF RunHistoryWaited, Run
  <2> QED
    BY <1>24, <2>1 DEF RunHistoryWaited
<1>25. CASE RunHistoryInverse
  <2>1. SavedCarried
    BY <1>25, SavedRun DEF RunHistoryInverse, Run
  <2> QED
    BY <1>25, <2>1 DEF RunHistoryInverse
<1>26. CASE RunEditOutcome
  <2>1. SavedCarried
    BY <1>26, SavedRun DEF RunEditOutcome, Run
  <2> QED
    BY <1>26, <2>1 DEF RunEditOutcome
<1>27. CASE RunHistoryOutcome
  <2>1. SavedCarried
    BY <1>27, SavedRun DEF RunHistoryOutcome, Run
  <2> QED
    BY <1>27, <2>1 DEF RunHistoryOutcome
<1>28. CASE FinishSave
  BY <1>28
<1> QED
  BY <1>1, <1>2, <1>3, <1>4, <1>5, <1>6, <1>7, <1>8, <1>9, <1>10, <1>11, <1>12, <1>13,
     <1>14, <1>15, <1>16, <1>17, <1>18, <1>19, <1>20, <1>21, <1>22, <1>23, <1>24, <1>25,
     <1>26, <1>27, <1>28
     DEF Next, Environment, User, Background, UIThread
(* The request of a save that starts in this step. *)
Begun(r) ==
    /\ worker' # None /\ worker'.request = r /\ worker'.pc = "stage"
    /\ UNCHANGED <<exec, files, view>>
    /\ r.gen = view.gen /\ r.rev = exec.rev /\ r.content = exec.content
    /\ r.rebind \/ r.path = ws'.path
    /\ r.id = ws'.path
    /\ \/ r.path = ws'.path /\ r.expected = ws'.disk
       \/ files[r.path].ver = 0 /\ r.expected = 0
       \/ r.expected \in agreed' /\ \E d \in dialogs : d.ver = r.expected

LEMMA StartedRequest ==
    ASSUME WorkspaceTypes, NEW w \in Tabs, NEW s, NEW j, NEW path \in Paths, NEW expected \in Nat,
           NEW rebind \in BOOLEAN, Starts(j, w, s, path, expected, rebind)
    PROVE  /\ worker' \in Workers /\ worker' # None /\ worker'.pc = "stage"
           /\ worker'.request \in Requests
           /\ worker'.request.id = w.path /\ worker'.request.path = path /\ worker'.request.expected = expected
           /\ worker'.request.rebind = rebind /\ worker'.request.gen = view.gen
           /\ worker'.request.rev = exec.rev /\ worker'.request.content = exec.content
<1>1. Request(w, path, expected, rebind) \in Requests
  BY RequestTypes
<1>2. worker' = [pc |-> "stage", request |-> Request(w, path, expected, rebind), seen |-> None]
  BY DEF Starts
<1>3. worker'.pc = "stage" /\ worker'.request = Request(w, path, expected, rebind)
  BY <1>2
<1>4. worker' \in Workers /\ worker' # None
  BY StartedWorker
<1> QED
  BY <1>1, <1>3, <1>4 DEF Request

(* The end of a save and its result, in the queue. *)
LEMMA FinishLeavesLater ==
    ASSUME WorkspaceTypes, FinishSave
    PROVE  /\ \A i \in 1 .. Len(later') : i + 1 \in 1 .. Len(later) /\ later'[i] = later[i + 1]
           /\ later[1].kind = "saved" /\ 1 \in 1 .. Len(later) /\ Head(later) = later[1]
BY HeadTail DEF FinishSave, Run, WorkspaceTypes

(* A worker was there before, or has just been started. *)
LEMMA WorkerBack ==
    ASSUME WorkspaceTypes, SaveTokens, Next, worker' # None
    PROVE  UNCHANGED worker \/ Works \/ Begun(worker'.request)
<1>1. CASE Begins
  <2>1. PICK path \in Paths, expected \in Nat, rebind \in BOOLEAN :
           /\ Starts(job, ws, stack, path, expected, rebind)
           /\ rebind \/ path = ws.path
           /\ \/ path = ws.path /\ expected = ws.disk
              \/ files[path].ver = 0 /\ expected = 0
              \/ expected \in agreed' /\ \E d \in dialogs : d.ver = expected
    BY <1>1 DEF Begins
  <2>2. /\ worker' # None /\ worker'.pc = "stage"
        /\ worker'.request.id = ws.path /\ worker'.request.path = path /\ worker'.request.expected = expected
        /\ worker'.request.rebind = rebind /\ worker'.request.gen = view.gen
        /\ worker'.request.rev = exec.rev /\ worker'.request.content = exec.content
    BY <2>1, StartedRequest, TabTypes
  <2>3. UNCHANGED <<exec, view, files, ws, tab>>
    BY <1>1 DEF Begins
  <2> QED
    BY <2>1, <2>2, <2>3 DEF Begun
<1>2. CASE FinishSave
  <2>1. worker = None
    BY <1>2, FinishLeavesLater DEF SaveTokens, WorkerOrSaved, NoSaved
  <2>2. PICK request \in Requests, result \in Results :
              /\ result.ver \in Nat /\ UNCHANGED <<exec, inflight, step, agreed>>
              /\ \/ UNCHANGED worker
                 \/ job # None /\ FinishSaved(job, request, result.ver) /\ UNCHANGED files
    BY <1>2, FinishCases DEF FinishFailed
  <2>3. CASE job # None /\ FinishSaved(job, request, result.ver) /\ UNCHANGED files
    <3>1. PICK w \in Tabs :
              /\ ws' = w
              /\ \/ UNCHANGED <<view, tab, dialogs>> /\ \E s : Starts(None, w, s, w.path, w.disk, FALSE)
                 \/ UNCHANGED worker
      BY <2>2, <2>3, FinishSavedCases DEF Refuses
    <3>2. ASSUME UNCHANGED <<view, tab, dialogs>>, NEW s, Starts(None, w, s, w.path, w.disk, FALSE)
          PROVE  Begun(worker'.request)
      <4>1. PICK path \in Paths, expected \in Nat : path = w.path /\ expected = w.disk
        BY DEF Tabs
      <4>2. PICK rebind \in BOOLEAN : rebind = FALSE
        OBVIOUS
      <4>3. Starts(None, w, s, path, expected, rebind)
        BY <3>2, <4>1, <4>2
      <4>4. /\ worker' # None /\ worker'.pc = "stage"
            /\ worker'.request.id = w.path /\ worker'.request.path = path /\ worker'.request.expected = expected
            /\ worker'.request.gen = view.gen
            /\ worker'.request.rev = exec.rev /\ worker'.request.content = exec.content
        BY <4>3, StartedRequest
      <4> QED
        BY <2>2, <2>3, <3>1, <3>2, <4>1, <4>4 DEF Begun
    <3> QED
      BY <3>1, <3>2
  <2> QED
    BY <2>2, <2>3
<1>3. CASE Ends
  BY <1>3 DEF Ends, Deliver
<1> QED
  BY <1>1, <1>2, <1>3, WorkerShape DEF SaveTokens

LEMMA HeldBack ==
    ASSUME WorkspaceTypes, SaveTokens, Next, NEW r \in Requests, Held(r)'
    PROVE  Held(r) \/ Begun(r)
<1> DEFINE InLater == \E i \in 1 .. Len(later) : later[i].kind = "saved" /\ later[i].request = r
           InLaterThen == \E i \in 1 .. Len(later') : later'[i].kind = "saved" /\ later'[i].request = r
<1>1. (worker' # None /\ worker'.request = r) \/ InLaterThen
  BY DEF Held
<1>2. InLater => Held(r)
  BY DEF Held
<1>3. worker # None /\ worker.request = r => Held(r)
  BY DEF Held
<1>4. SavedCarried \/ UNCHANGED later => (InLaterThen => InLater)
  <2>1. SavedCarried => (InLaterThen => InLater)
    BY DEF SavedCarried
  <2>2. UNCHANGED later => (InLaterThen => InLater)
    OBVIOUS
  <2> QED
    BY <2>1, <2>2
<1>5. CASE worker' # None /\ worker'.request = r
  BY <1>3, <1>5, WorkerBack DEF Works
<1> HIDE DEF InLater, InLaterThen
<1>6. ASSUME InLaterThen, Ends
      PROVE  Held(r)
  <2>1. PICK u \in Results : worker # None /\ Deliver(u)
    BY <1>6 DEF Ends
  <2>2. later \in Seq(Closures) /\ worker.request \in Requests
    BY <2>1 DEF WorkspaceTypes, DiskTypes, Workers
  <2>3. PICK c \in Closures : c = [kind |-> "saved", request |-> worker.request, result |-> u]
    BY <2>2, ClosureForms
  <2>4. c.request = worker.request /\ later' = Append(later, c)
    BY <2>1, <2>3 DEF Deliver
  <2>5. \A i \in 1 .. Len(later') : (i \in 1 .. Len(later) /\ later'[i] = later[i]) \/ later'[i] = c
    BY <2>2, <2>4, AppendOne
  <2>6. InLater \/ worker.request = r
    BY <1>6, <2>4, <2>5 DEF InLater, InLaterThen
  <2> QED
    BY <1>2, <1>3, <2>1, <2>6
<1>7. ASSUME InLaterThen, FinishSave
      PROVE  InLater
  BY <1>7, FinishLeavesLater DEF InLater, InLaterThen
<1> QED
  BY <1>1, <1>2, <1>4, <1>5, <1>6, <1>7, WorkerShape DEF SaveTokens, Works

LEMMA WroteBack ==
    ASSUME WorkspaceTypes, SaveTokens, Next, NEW r \in Requests, NEW v \in Nat, Wrote(r, v)'
    PROVE  \/ Wrote(r, v)
           \/ WorkerReplace("replaced") /\ worker.request = r /\ v = used.versions + 1
<1> DEFINE InLater == \E i \in 1 .. Len(later) :
                         /\ later[i].kind = "saved" /\ later[i].request = r
                         /\ later[i].result.outcome = "saved" /\ later[i].result.ver = v
           InLaterThen == \E i \in 1 .. Len(later') :
                         /\ later'[i].kind = "saved" /\ later'[i].request = r
                         /\ later'[i].result.outcome = "saved" /\ later'[i].result.ver = v
           AtWorkThen == worker' # None /\ worker'.pc = "verify" /\ worker'.request = r /\ worker'.seen = v
<1>1. AtWorkThen \/ InLaterThen
  BY DEF Wrote
<1>2. InLater => Wrote(r, v)
  BY DEF Wrote
<1>3. worker # None /\ worker.pc = "verify" /\ worker.request = r /\ worker.seen = v => Wrote(r, v)
  BY DEF Wrote
<1>4. SavedCarried \/ UNCHANGED later => (InLaterThen => InLater)
  <2>1. SavedCarried => (InLaterThen => InLater)
    BY DEF SavedCarried
  <2>2. UNCHANGED later => (InLaterThen => InLater)
    OBVIOUS
  <2> QED
    BY <2>1, <2>2
<1> HIDE DEF InLater, InLaterThen
<1>5. CASE SavedCarried /\ UNCHANGED worker
  BY <1>1, <1>2, <1>3, <1>4, <1>5
<1>6. CASE SavedCarried /\ Begins
  <2>1. worker'.pc = "stage"
    BY <1>6 DEF Begins, Starts
  <2> QED
    BY <1>1, <1>2, <1>4, <1>6, <2>1
<1>7. CASE Works
  BY <1>1, <1>2, <1>3, <1>4, <1>7 DEF Works
<1>8. CASE Ends
  <2>1. PICK u \in Results :
           /\ worker # None /\ Deliver(u)
           /\ u.outcome = "saved" => worker.pc = "verify" /\ u.ver = worker.seen
    BY <1>8 DEF Ends
  <2>2. later \in Seq(Closures) /\ worker.request \in Requests
    BY <2>1 DEF WorkspaceTypes, DiskTypes, Workers
  <2>3. PICK c \in Closures : c = [kind |-> "saved", request |-> worker.request, result |-> u]
    BY <2>2, ClosureForms
  <2>4. c.request = worker.request /\ c.result = u /\ later' = Append(later, c) /\ worker' = None
    BY <2>1, <2>3 DEF Deliver
  <2>5. \A i \in 1 .. Len(later') : (i \in 1 .. Len(later) /\ later'[i] = later[i]) \/ later'[i] = c
    BY <2>2, <2>4, AppendOne
  <2>6. InLaterThen => InLater \/ (worker.request = r /\ u.outcome = "saved" /\ u.ver = v)
    BY <2>4, <2>5 DEF InLater, InLaterThen
  <2> QED
    BY <1>1, <1>2, <1>3, <2>1, <2>4, <2>6
<1>9. CASE FinishSave
  <2>1. InLaterThen => InLater
    BY <1>9, FinishLeavesLater DEF InLater, InLaterThen
  <2>2. worker = None
    BY <1>9, FinishLeavesLater DEF SaveTokens, WorkerOrSaved, NoSaved
  <2>3. worker' = None \/ worker'.pc = "stage"
    <3>1. PICK request \in Requests, result \in Results :
              /\ result.ver \in Nat
              /\ \/ UNCHANGED worker
                 \/ job # None /\ FinishSaved(job, request, result.ver)
      BY <1>9, FinishCases DEF FinishFailed
    <3>2. ASSUME job # None, FinishSaved(job, request, result.ver)
          PROVE  UNCHANGED worker \/ worker'.pc = "stage"
      <4>1. PICK w \in Tabs : UNCHANGED worker \/ \E s : Starts(None, w, s, w.path, w.disk, FALSE)
        BY <3>1, <3>2, FinishSavedCases DEF Refuses
      <4>2. ASSUME NEW s, Starts(None, w, s, w.path, w.disk, FALSE)
            PROVE  worker'.pc = "stage"
        BY <4>2 DEF Starts
      <4> QED
        BY <4>1, <4>2
    <3> QED
      BY <2>2, <3>1, <3>2
  <2> QED
    BY <1>1, <1>2, <2>1, <2>3
<1> QED
  BY <1>5, <1>6, <1>7, <1>8, <1>9, WorkerShape DEF SaveTokens

LEMMA WroteForward ==
    ASSUME WorkspaceTypes, SaveTokens, Next, NEW r \in Requests, NEW v \in Nat, Wrote(r, v)
    PROVE  \/ Wrote(r, v)'
           \/ WorkerVerify /\ worker.request = r /\ files[r.path].ver # v
           \/ FinishSave
           \/ Begins
<1> DEFINE InLater == \E i \in 1 .. Len(later) :
                         /\ later[i].kind = "saved" /\ later[i].request = r
                         /\ later[i].result.outcome = "saved" /\ later[i].result.ver = v
           InLaterThen == \E i \in 1 .. Len(later') :
                         /\ later'[i].kind = "saved" /\ later'[i].request = r
                         /\ later'[i].result.outcome = "saved" /\ later'[i].result.ver = v
           AtWork == worker # None /\ worker.pc = "verify" /\ worker.request = r /\ worker.seen = v
           AtWorkThen == worker' # None /\ worker'.pc = "verify" /\ worker'.request = r /\ worker'.seen = v
<1>1. AtWork \/ InLater
  BY DEF Wrote
<1>2. AtWorkThen \/ InLaterThen => Wrote(r, v)'
  BY DEF Wrote
<1>3. SavedCarried \/ UNCHANGED later => (InLater => InLaterThen)
  BY DEF SavedCarried
<1>4. CASE SavedCarried /\ UNCHANGED worker
  BY <1>1, <1>2, <1>3, <1>4
<1>5. CASE Works
  <2>1. AtWork => WorkerVerify
    BY <1>5, WorkerIs DEF Works, WorkerReplace, Working
  <2>2. AtWork => files[r.path].ver # v
    BY <1>5, <2>1 DEF Works, WorkerVerify, Deliver
  <2>3. UNCHANGED later
    BY <1>5 DEF Works
  <2> QED
    BY <1>1, <1>2, <1>3, <2>1, <2>2, <2>3
<1>6. CASE Ends
  <2>1. PICK u \in Results :
           /\ worker # None /\ Deliver(u)
           /\ u.outcome = "saved" => worker.pc = "verify" /\ u.ver = worker.seen
           /\ worker.pc = "verify" => u.outcome = "saved"
    BY <1>6 DEF Ends
  <2>2. later \in Seq(Closures) /\ worker.request \in Requests
    BY <2>1 DEF WorkspaceTypes, DiskTypes, Workers
  <2>3. PICK c \in Closures : c = [kind |-> "saved", request |-> worker.request, result |-> u]
    BY <2>2, ClosureForms
  <2>4. c.kind = "saved" /\ c.request = worker.request /\ c.result = u /\ later' = Append(later, c)
    BY <2>1, <2>3 DEF Deliver
  <2>5. /\ \A i \in 1 .. Len(later) : i \in 1 .. Len(later') /\ later'[i] = later[i]
        /\ Len(later) + 1 \in 1 .. Len(later') /\ later'[Len(later) + 1] = c
    BY <2>2, <2>4, AppendOne
  <2>6. InLater => InLaterThen
    BY <2>5
  <2>7. AtWork => InLaterThen
    BY <2>1, <2>4, <2>5
  <2> QED
    BY <1>1, <1>2, <2>6, <2>7
<1> QED
  BY <1>4, <1>5, <1>6, WorkerShape DEF SaveTokens

-----------------------------------------------------------------------------------
(* The first part of the inductive invariant: types, and who answers whom. *)
AnswerInv == WorkspaceTypes /\ Tokens /\ PreparedIsUndo /\ SaveTokens

LEMMA AnswerInit == ASSUME Init PROVE AnswerInv
<1>1. WorkspaceTypes
  BY TypesInit
<1>2. later = <<>> /\ inflight = <<>> /\ step = None /\ stack.busy = FALSE
  BY DEF Init, EmptyStack
<1>3. Tokens
  BY <1>2 DEF Tokens, ClosuresBelong, OperationsBelong, OneHistoryClosure, OneHistoryOperation,
              OneOrTheOther, StepIsAnswered, BusyIsStep
<1>4. PreparedIsUndo
  BY <1>2 DEF PreparedIsUndo
<1>5. NoSaved /\ OneSaved
  BY <1>2 DEF NoSaved, OneSaved
<1>6. SaveTokens
  BY <1>5 DEF Init, SaveTokens, WorkerOrSaved, SaveIsKnown, SaveIsAnswered, ClosedHasNone
<1> QED
  BY <1>1, <1>3, <1>4, <1>6 DEF AnswerInv

LEMMA AnswerStep == ASSUME AnswerInv, [Next]_vars PROVE AnswerInv'
<1>1. CASE Next
  BY <1>1, TypesStep, TokensStep, PreparedIsUndoStep, SaveTokensStep DEF AnswerInv
<1>2. CASE UNCHANGED vars
  <2>1. WorkspaceTypes'
    BY <1>2 DEF vars, AnswerInv, WorkspaceTypes, SessionTypes, HistoryTypes, DiskTypes
  <2>2. Tokens'
    <3> USE DEF AnswerInv, Tokens
    <3>1. ClosuresBelong' /\ OperationsBelong'
      BY <1>2 DEF vars, ClosuresBelong, OperationsBelong, SentByStep
    <3>2. OneHistoryClosure' /\ OneHistoryOperation' /\ OneOrTheOther'
      BY <1>2 DEF vars, OneHistoryClosure, OneHistoryOperation, OneOrTheOther
    <3>3. StepIsAnswered' /\ BusyIsStep'
      BY <1>2 DEF vars, StepIsAnswered, BusyIsStep
    <3> QED
      BY <3>1, <3>2, <3>3
  <2>3. PreparedIsUndo'
    BY <1>2 DEF vars, AnswerInv, PreparedIsUndo
  <2>4. SaveTokens'
    BY <1>2 DEF vars, AnswerInv, SaveTokens, OneSaved, WorkerOrSaved, SaveIsKnown, SaveIsAnswered,
                ClosedHasNone, NoSaved
  <2> QED
    BY <2>1, <2>2, <2>3, <2>4 DEF AnswerInv
<1> QED
  BY <1>1, <1>2

LEMMA Answers == Spec => []AnswerInv
<1>1. Init => AnswerInv
  BY AnswerInit
<1>2. AnswerInv /\ [Next]_vars => AnswerInv'
  BY AnswerStep
<1> QED
  BY <1>1, <1>2, PTL DEF Spec

LEMMA AnswerMeans == ASSUME AnswerInv PROVE NothingIsForgotten
<1>1. later \in Seq(Closures) /\ inflight \in Seq(Operations) /\ step \in Steps \cup {None}
  BY DEF AnswerInv, WorkspaceTypes, SessionTypes, HistoryTypes
<1>2. \A i \in 1 .. Len(later) : later[i] \in ToSet(later)
  BY <1>1 DEF ToSet
<1>3. \A i \in 1 .. Len(inflight) : inflight[i] \in ToSet(inflight)
  BY <1>1 DEF ToSet
<1>4. stack.busy <=> step # None
  BY DEF AnswerInv, Tokens, BusyIsStep
<1>5. job # None => worker # None \/ \E c \in ToSet(later) : c.kind = "saved"
  BY <1>2 DEF AnswerInv, SaveTokens, SaveIsAnswered, NoSaved
<1>6. ASSUME step # None
      PROVE  \/ step.pc \in {"wait", "inverse"}
             \/ step.pc = "waited" /\ \E c \in ToSet(later) : c.kind = "waited"
             \/ step.pc = "prepared" /\ \E c \in ToSet(later) : c.kind = "inverse"
             \/ step.pc = "sent" /\ \E op \in Sent : op.kind = step.direction /\ op.edit = step.command.id
  <2>1. ASSUME NEW i \in 1 .. Len(inflight), HistoryOperation(inflight[i])
        PROVE  step.pc = "sent" /\ \E op \in Sent : op.kind = step.direction /\ op.edit = step.command.id
    <3>1. step.pc = "sent" /\ SentByStep(inflight[i])
      BY <2>1 DEF AnswerInv, Tokens, OperationsBelong
    <3>2. inflight[i] \in Sent
      BY <1>3 DEF Sent
    <3> QED
      BY <3>1, <3>2 DEF SentByStep
  <2>2. ASSUME NEW i \in 1 .. Len(later), HistoryClosure(later[i])
        PROVE  \/ step.pc = "waited" /\ later[i].kind = "waited"
               \/ step.pc = "prepared" /\ later[i].kind = "inverse"
               \/ step.pc = "sent" /\ \E op \in Sent : op.kind = step.direction /\ op.edit = step.command.id
    <3>1. /\ later[i].kind = "waited" => step.pc = "waited"
          /\ later[i].kind = "inverse" => step.pc = "prepared"
          /\ later[i].kind = "outcome" => step.pc = "sent" /\ SentByStep(later[i].op)
      BY <2>2 DEF AnswerInv, Tokens, ClosuresBelong
    <3>2. later[i].kind = "outcome" => later[i].op \in Sent
      BY <1>2 DEF Sent
    <3>3. later[i].kind \in {"waited", "inverse", "outcome"}
      BY <2>2 DEF HistoryClosure
    <3> QED
      BY <3>1, <3>2, <3>3 DEF SentByStep
  <2> QED
    BY <1>2, <1>6, <2>1, <2>2 DEF AnswerInv, Tokens, StepIsAnswered
<1> QED
  BY <1>4, <1>5, <1>6 DEF NothingIsForgotten

(* Nothing waits for an answer nobody will give: whatever the attachment, the *)
(* tab, the disk and the executor do meanwhile, a busy history has a step     *)
(* whose goroutine, operation or closure is on the way, and an active save    *)
(* has a worker or a result (UndoAsyncV, beginHistoryStep, runSaveWorker).    *)
THEOREM NothingIsForgottenTheorem == Spec => []NothingIsForgotten
<1>1. AnswerInv => NothingIsForgotten
  BY AnswerMeans
<1> QED
  BY <1>1, Answers, PTL
-----------------------------------------------------------------------------------
(* What a save captured, and what is on disk. *)

(* The document stays, gains a revision, or is left for another attachment. *)
DocumentMoves ==
    \/ exec' = exec /\ view'.gen = view.gen
    \/ exec'.rev = exec.rev + 1 /\ view'.gen = view.gen
    \/ view'.gen = view.gen + 1

LEMMA GestureView ==
    ASSUME NEW v \in Views, NEW gesture \in {"none", "stroke", "move"}
    PROVE  [v EXCEPT !.gesture = gesture].gen = v.gen
BY DEF Views

LEMMA RefreshedView == ASSUME view \in Views, exec \in Documents PROVE Refreshed(view).gen = view.gen
BY DEF Refreshed, Views, Documents

LEMMA DisposedView ==
    ASSUME WorkspaceTypes, NEW how, Dispose(how)
    PROVE  view'.gen = view.gen + 1
<1>1. view \in Views /\ view.gen + 1 \in Nat
  BY DEF WorkspaceTypes, SessionTypes, Views
<1>2. PICK u \in Views : u = [view EXCEPT !.gen = view.gen + 1]
  BY <1>1, ViewField
<1>3. u.gen = view.gen + 1
  BY <1>1, <1>2 DEF Views
<1>4. view' = [u EXCEPT !.gesture = "none"]
  BY <1>2 DEF Dispose
<1> QED
  BY <1>3, <1>4, GestureView

LEMMA AcceptedRevision ==
    ASSUME NEW d \in Documents, NEW content \in SUBSET Int
    PROVE  [d EXCEPT !.rev = @ + 1, !.content = content].rev = d.rev + 1
<1>1. d.rev + 1 \in Nat
  BY DEF Documents
<1>2. PICK e \in Documents : e = [d EXCEPT !.rev = d.rev + 1] /\ e.rev = d.rev + 1
  BY <1>1, DocumentField DEF Documents
<1>3. [d EXCEPT !.rev = @ + 1, !.content = content] = [e EXCEPT !.content = content]
  BY <1>2
<1>4. [e EXCEPT !.content = content].rev = e.rev
  BY DEF Documents
<1> QED
  BY <1>2, <1>3, <1>4

LEMMA DocumentMovesStep ==
    ASSUME WorkspaceTypes, Next
    PROVE  DocumentMoves
<1> USE DEF history, saving, disk
<1>1. ASSUME NEW accepted \in BOOLEAN, Settle(accepted) PROVE DocumentMoves
  <2>1. exec \in Documents /\ Head(inflight) \in Operations
    BY <1>1, HeadTail DEF Settle, HasUnacknowledgedOperations, WorkspaceTypes, SessionTypes
  <2>2. PICK content \in SUBSET Int :
           accepted => exec' = [exec EXCEPT !.rev = @ + 1, !.content = content]
    <3> DEFINE op == Head(inflight)
    <3>1. (IF op.kind = "undo" THEN exec.content \ {op.edit} ELSE exec.content \cup {op.edit}) \in SUBSET Int
      BY <2>1 DEF Documents, Operations
    <3>2. accepted => exec' = [exec EXCEPT !.rev = @ + 1,
                          !.content = IF op.kind = "undo" THEN exec.content \ {op.edit} ELSE exec.content \cup {op.edit}]
      BY <1>1 DEF Settle
    <3> QED
      BY <3>1, <3>2
  <2>3. accepted => exec'.rev = exec.rev + 1
    BY <2>1, <2>2, AcceptedRevision
  <2> QED
    BY <1>1, <2>3 DEF Settle, DocumentMoves
<1>2. ASSUME NEW overwritten \in {{}} \cup {{e} : e \in 1 .. used.edits}, RemoteEdit(overwritten)
      PROVE  DocumentMoves
  BY <1>2 DEF RemoteEdit, DocumentMoves
<1>3. ASSUME NEW path \in Paths, NEW deleted \in BOOLEAN, OutsideWrite(path, deleted) PROVE DocumentMoves
  BY <1>3 DEF OutsideWrite, DocumentMoves
<1>4. ASSUME NEW kind \in {"stroke", "move"}, BeginGesture(kind) PROVE DocumentMoves
  BY <1>4, GestureView DEF BeginGesture, DocumentMoves, WorkspaceTypes, SessionTypes
<1>5. ASSUME NEW changed \in BOOLEAN, CommitOperation(changed) PROVE DocumentMoves
  BY <1>5, GestureView DEF CommitOperation, DocumentMoves, WorkspaceTypes, SessionTypes
<1>6. ASSUME NEW content \in {exec.content, {}}, Reattach(content) PROVE DocumentMoves
  BY <1>6 DEF Reattach, DocumentMoves
<1>7. ASSUME NEW direction \in {"undo", "redo"}, BeginHistoryStep(direction) PROVE DocumentMoves
  BY <1>7 DEF BeginHistoryStep, DocumentMoves
<1>8. CASE Save
  BY <1>8 DEF Save, DocumentMoves
<1>9. ASSUME NEW path \in Paths, SaveAs(path) PROVE DocumentMoves
  BY <1>9 DEF SaveAs, DocumentMoves
<1>10. ASSUME NEW d \in dialogs, ConfirmReplace(d) PROVE DocumentMoves
  BY <1>10 DEF ConfirmReplace, DocumentMoves
<1>11. ASSUME NEW d \in dialogs, ConfirmOverwrite(d) PROVE DocumentMoves
  BY <1>11 DEF ConfirmOverwrite, DocumentMoves
<1>12. ASSUME NEW d \in dialogs, CancelDialog(d) PROVE DocumentMoves
  BY <1>12 DEF CancelDialog, DocumentMoves
<1>13. CASE CloseTab
  BY <1>13, DisposedView DEF CloseTab, DocumentMoves
<1>14. ASSUME NEW d \in dialogs, CloseSaving(d) PROVE DocumentMoves
  BY <1>14 DEF CloseSaving, DocumentMoves
<1>15. ASSUME NEW d \in dialogs, CloseDiscarding(d) PROVE DocumentMoves
  BY <1>15, DisposedView DEF CloseDiscarding, DocumentMoves
<1>16. CASE HistoryWaitOver
  BY <1>16 DEF HistoryWaitOver, DocumentMoves
<1>17. CASE PrepareHistoryInverse
  BY <1>17 DEF PrepareHistoryInverse, DocumentMoves
<1>18. ASSUME NEW outcome \in {"ok", "error", "declined"}, WorkerStage(outcome) PROVE DocumentMoves
  BY <1>18 DEF WorkerStage, DocumentMoves
<1>19. CASE WorkerCheck
  BY <1>19 DEF WorkerCheck, DocumentMoves
<1>20. ASSUME NEW outcome \in {"replaced", "refused", "unsynced"}, WorkerReplace(outcome)
       PROVE  DocumentMoves
  BY <1>20 DEF WorkerReplace, DocumentMoves
<1>21. CASE WorkerVerify
  BY <1>21 DEF WorkerVerify, DocumentMoves
<1>22. ASSUME NEW read \in BOOLEAN, WorkerCaptureConflict(read) PROVE DocumentMoves
  BY <1>22 DEF WorkerCaptureConflict, DocumentMoves
<1>23. CASE ProcessCollaborationUpdates
  BY <1>23, RefreshedView DEF ProcessCollaborationUpdates, DocumentMoves, WorkspaceTypes, SessionTypes
<1>24. CASE RunHistoryWaited
  BY <1>24 DEF RunHistoryWaited, DocumentMoves
<1>25. CASE RunHistoryInverse
  BY <1>25 DEF RunHistoryInverse, DocumentMoves
<1>26. CASE RunEditOutcome
  BY <1>26, RefreshedView DEF RunEditOutcome, DocumentMoves, WorkspaceTypes, SessionTypes
<1>27. CASE RunHistoryOutcome
  BY <1>27, RefreshedView DEF RunHistoryOutcome, DocumentMoves, WorkspaceTypes, SessionTypes
<1>28. CASE FinishSave
  <2>1. exec' = exec
    BY <1>28 DEF FinishSave
  <2>2. UNCHANGED view \/ Dispose("saved")
    BY <1>28 DEF FinishSave, FinishSaved, FinishFailed
  <2> QED
    BY <2>1, <2>2, DisposedView DEF DocumentMoves
<1> QED
  BY <1>1, <1>2, <1>3, <1>4, <1>5, <1>6, <1>7, <1>8, <1>9, <1>10, <1>11, <1>12, <1>13,
     <1>14, <1>15, <1>16, <1>17, <1>18, <1>19, <1>20, <1>21, <1>22, <1>23, <1>24, <1>25,
     <1>26, <1>27, <1>28
     DEF Next, Environment, User, Background, UIThread

LEMMA CapturedKept ==
    ASSUME WorkspaceTypes, Next, NEW gen \in Nat, NEW rev \in Nat, NEW content, Captured(gen, rev, content)
    PROVE  Captured(gen, rev, content)'
<1>1. DocumentMoves
  BY DocumentMovesStep
<1>2. view.gen \in Nat /\ exec.rev \in Nat
  BY DEF WorkspaceTypes, SessionTypes, Views, Documents
<1> QED
  BY <1>1, <1>2 DEF Captured, DocumentMoves

(* The tab stays with the file it knows, or takes over the one a save wrote. *)
TabStays ==
    /\ ws'.path = ws.path /\ ws'.disk = ws.disk /\ ws'.hash = ws.hash
    /\ ws'.gen = ws.gen /\ ws'.rev = ws.rev

TabSaved ==
    \E r \in Requests, v \in Nat :
       /\ FinishSave /\ Wrote(r, v) /\ ws' = SavedWorkspace(r, v) /\ UNCHANGED files
       /\ ws'.path = r.path /\ ws'.disk = v /\ ws'.hash = r.content /\ ws'.gen = r.gen /\ ws'.rev = r.rev
       /\ tab' = "saved" \/ UNCHANGED tab

LEMMA ConflictStays ==
    ASSUME NEW w \in Tabs
    PROVE  LET u == [w EXCEPT !.conflict = TRUE] IN
           u.path = w.path /\ u.disk = w.disk /\ u.hash = w.hash /\ u.gen = w.gen /\ u.rev = w.rev
BY DEF Tabs

LEMMA TabMoves ==
    ASSUME WorkspaceTypes, Next
    PROVE  TabStays \/ TabSaved
<1> USE DEF history, saving, disk
<1>1. ASSUME NEW accepted \in BOOLEAN, Settle(accepted) PROVE TabStays \/ TabSaved
  BY <1>1 DEF Settle, TabStays
<1>2. ASSUME NEW overwritten \in {{}} \cup {{e} : e \in 1 .. used.edits}, RemoteEdit(overwritten)
      PROVE  TabStays \/ TabSaved
  BY <1>2 DEF RemoteEdit, TabStays
<1>3. ASSUME NEW path \in Paths, NEW deleted \in BOOLEAN, OutsideWrite(path, deleted)
      PROVE  TabStays \/ TabSaved
  BY <1>3 DEF OutsideWrite, TabStays
<1>4. ASSUME NEW kind \in {"stroke", "move"}, BeginGesture(kind) PROVE TabStays \/ TabSaved
  BY <1>4 DEF BeginGesture, TabStays
<1>5. ASSUME NEW changed \in BOOLEAN, CommitOperation(changed) PROVE TabStays \/ TabSaved
  BY <1>5 DEF CommitOperation, TabStays
<1>6. ASSUME NEW content \in {exec.content, {}}, Reattach(content) PROVE TabStays \/ TabSaved
  BY <1>6 DEF Reattach, TabStays
<1>7. ASSUME NEW direction \in {"undo", "redo"}, BeginHistoryStep(direction) PROVE TabStays \/ TabSaved
  BY <1>7 DEF BeginHistoryStep, TabStays
<1>8. CASE Save
  BY <1>8 DEF Save, TabStays
<1>9. ASSUME NEW path \in Paths, SaveAs(path) PROVE TabStays \/ TabSaved
  BY <1>9 DEF SaveAs, TabStays
<1>10. ASSUME NEW d \in dialogs, ConfirmReplace(d) PROVE TabStays \/ TabSaved
  BY <1>10 DEF ConfirmReplace, TabStays
<1>11. ASSUME NEW d \in dialogs, ConfirmOverwrite(d) PROVE TabStays \/ TabSaved
  BY <1>11 DEF ConfirmOverwrite, TabStays
<1>12. ASSUME NEW d \in dialogs, CancelDialog(d) PROVE TabStays \/ TabSaved
  BY <1>12 DEF CancelDialog, TabStays
<1>13. CASE CloseTab
  BY <1>13 DEF CloseTab, TabStays
<1>14. ASSUME NEW d \in dialogs, CloseSaving(d) PROVE TabStays \/ TabSaved
  BY <1>14 DEF CloseSaving, TabStays
<1>15. ASSUME NEW d \in dialogs, CloseDiscarding(d) PROVE TabStays \/ TabSaved
  BY <1>15 DEF CloseDiscarding, TabStays
<1>16. CASE HistoryWaitOver
  BY <1>16 DEF HistoryWaitOver, TabStays
<1>17. CASE PrepareHistoryInverse
  BY <1>17 DEF PrepareHistoryInverse, TabStays
<1>18. ASSUME NEW outcome \in {"ok", "error", "declined"}, WorkerStage(outcome)
       PROVE  TabStays \/ TabSaved
  BY <1>18 DEF WorkerStage, TabStays
<1>19. CASE WorkerCheck
  BY <1>19 DEF WorkerCheck, TabStays
<1>20. ASSUME NEW outcome \in {"replaced", "refused", "unsynced"}, WorkerReplace(outcome)
       PROVE  TabStays \/ TabSaved
  BY <1>20 DEF WorkerReplace, TabStays
<1>21. CASE WorkerVerify
  BY <1>21 DEF WorkerVerify, TabStays
<1>22. ASSUME NEW read \in BOOLEAN, WorkerCaptureConflict(read) PROVE TabStays \/ TabSaved
  BY <1>22 DEF WorkerCaptureConflict, TabStays
<1>23. CASE ProcessCollaborationUpdates
  BY <1>23 DEF ProcessCollaborationUpdates, TabStays
<1>24. CASE RunHistoryWaited
  BY <1>24 DEF RunHistoryWaited, TabStays
<1>25. CASE RunHistoryInverse
  BY <1>25 DEF RunHistoryInverse, TabStays
<1>26. CASE RunEditOutcome
  BY <1>26 DEF RunEditOutcome, TabStays
<1>27. CASE RunHistoryOutcome
  BY <1>27 DEF RunHistoryOutcome, TabStays
<1>28. CASE FinishSave
  <2>1. PICK request \in Requests, result \in Results :
           /\ later # <<>> /\ Head(later).kind = "saved" /\ Head(later).request = request
           /\ Head(later).result = result /\ result.ver \in Nat
           /\ \/ UNCHANGED ws
              \/ job # None /\ result.outcome = "saved" /\ FinishSaved(job, request, result.ver) /\ UNCHANGED files
              \/ FinishFailed(request, result)
    BY <1>28, FinishCases
  <2>2. CASE UNCHANGED ws
    BY <2>2 DEF TabStays
  <2>3. CASE FinishFailed(request, result)
    BY <2>3, TabTypes, ConflictStays DEF FinishFailed, TabStays
  <2>4. CASE job # None /\ result.outcome = "saved" /\ FinishSaved(job, request, result.ver) /\ UNCHANGED files
    <3>1. Wrote(request, result.ver)
      BY <1>28, <2>1, <2>4, FinishLeavesLater DEF Wrote
    <3>2. ws' = SavedWorkspace(request, result.ver) /\ (tab' = "saved" \/ UNCHANGED tab)
      BY <2>4 DEF FinishSaved, Dispose
    <3>3. PICK v \in Nat : v = result.ver
      BY <2>1
    <3>4. ws' = SavedWorkspace(request, v) /\ Wrote(request, v)
      BY <3>1, <3>2, <3>3
    <3> QED
      BY <1>28, <2>4, <3>2, <3>4, SavedWorkspaceTypes DEF TabSaved
  <2> QED
    BY <2>1, <2>2, <2>3, <2>4
<1> QED
  BY <1>1, <1>2, <1>3, <1>4, <1>5, <1>6, <1>7, <1>8, <1>9, <1>10, <1>11, <1>12, <1>13,
     <1>14, <1>15, <1>16, <1>17, <1>18, <1>19, <1>20, <1>21, <1>22, <1>23, <1>24, <1>25,
     <1>26, <1>27, <1>28
     DEF Next, Environment, User, Background, UIThread

LEMMA WroteHeld == ASSUME NEW r, NEW v, Wrote(r, v) PROVE Held(r)
BY DEF Wrote, Held

LEMMA CapturesStep ==
    ASSUME WorkspaceTypes, SaveTokens, Captures, Next
    PROVE  Captures'
<1>1. ASSUME NEW r \in Requests, Held(r)
      PROVE  Captured(r.gen, r.rev, r.content)'
  <2>1. r.gen \in Nat /\ r.rev \in Nat /\ Captured(r.gen, r.rev, r.content)
    BY <1>1 DEF Captures, Requests
  <2>2. PICK gen \in Nat, rev \in Nat : gen = r.gen /\ rev = r.rev
    BY <2>1
  <2>3. Captured(gen, rev, r.content)'
    BY <2>1, <2>2, CapturedKept
  <2> QED
    BY <2>2, <2>3 DEF Captured
<1>2. ASSUME NEW r \in Requests, Held(r)'
      PROVE  Captured(r.gen, r.rev, r.content)'
  <2>1. CASE Held(r)
    BY <1>1, <2>1
  <2>2. CASE Begun(r)
    <3>1. view.gen \in Nat /\ exec.rev \in Nat
      BY DEF WorkspaceTypes, SessionTypes, Views, Documents
    <3> QED
      BY <2>2, <3>1 DEF Begun, Captured
  <2> QED
    BY <1>2, <2>1, <2>2, HeldBack
<1>3. Captured(ws.gen, ws.rev, ws.hash)'
  <2>1. CASE TabStays
    <3>1. ws.gen \in Nat /\ ws.rev \in Nat
      BY TabTypes DEF Tabs
    <3>2. PICK gen, rev, content :
             gen \in Nat /\ rev \in Nat /\ gen = ws.gen /\ rev = ws.rev /\ content = ws.hash
      BY <3>1
    <3>3. Captured(gen, rev, content)
      BY <3>2 DEF Captures
    <3>4. Captured(gen, rev, content)'
      BY <3>2, <3>3, CapturedKept
    <3> QED
      BY <2>1, <3>2, <3>4 DEF TabStays, Captured
  <2>2. ASSUME NEW r \in Requests, NEW v \in Nat, Wrote(r, v),
               ws'.hash = r.content, ws'.gen = r.gen, ws'.rev = r.rev
        PROVE  Captured(ws.gen, ws.rev, ws.hash)'
    <3>1. Captured(r.gen, r.rev, r.content)'
      BY <1>1, <2>2, WroteHeld
    <3> QED
      BY <2>2, <3>1 DEF Captured
  <2> QED
    BY <2>1, <2>2, TabMoves DEF TabSaved
<1> QED
  BY <1>2, <1>3 DEF Captures
(* The disk: only another program, the worker and the end of a save touch it. *)
DiskMoves ==
    \/ UNCHANGED files /\ used'.versions = used.versions
    \/ \E p \in Paths, deleted \in BOOLEAN : OutsideWrite(p, deleted)
    \/ \E outcome \in {"replaced", "unsynced"} : WorkerReplace(outcome)
    \/ FinishSave

LEMMA SpendKeeps ==
    ASSUME used \in Bounds, NEW b \in {"edits", "commands", "disturbances"}, Spend(b)
    PROVE  used'.versions = used.versions
BY DEF Bounds, Spend

LEMMA CommandKeeps == ASSUME used \in Bounds, Command PROVE used'.versions = used.versions
BY SpendKeeps DEF Command

LEMMA DisturbKeeps == ASSUME used \in Bounds, Disturb PROVE used'.versions = used.versions
BY SpendKeeps DEF Disturb

LEMMA SaveKeeps ==
    ASSUME used \in Bounds, NEW w, NEW s, NEW j, NEW path, NEW expected, NEW rebind, NEW closing,
           SaveAtPath(w, s, j, path, expected, rebind, closing)
    PROVE  used'.versions = used.versions
BY CommandKeeps DEF SaveAtPath

LEMMA BoundSpends ==
    ASSUME NEW u \in Bounds, NEW m \in Nat, NEW n \in Nat
    PROVE  /\ [u EXCEPT !.disturbances = m, !.versions = n].versions = n
           /\ [u EXCEPT !.versions = n, !.disturbances = m].versions = n
<1>1. PICK v \in Bounds : v = [u EXCEPT !.disturbances = m]
  BY BoundField
<1>2. [u EXCEPT !.disturbances = m, !.versions = n] = [v EXCEPT !.versions = n]
  BY <1>1
<1>3. PICK w \in Bounds : w = [u EXCEPT !.versions = n]
  BY BoundField
<1>6. [u EXCEPT !.versions = n].versions = n
  BY DEF Bounds
<1>4. [u EXCEPT !.versions = n, !.disturbances = m] = [w EXCEPT !.disturbances = m]
  BY <1>3
<1>5. [v EXCEPT !.versions = n].versions = n /\ [w EXCEPT !.disturbances = m].versions = w.versions
  BY DEF Bounds
<1> QED
  BY <1>2, <1>3, <1>4, <1>5, <1>6

LEMMA ReplaceSpends ==
    ASSUME WorkspaceTypes, NEW outcome \in {"replaced", "refused", "unsynced"}, WorkerReplace(outcome)
    PROVE  used'.versions = IF outcome = "refused" THEN used.versions ELSE used.versions + 1
<1>1. used \in Bounds /\ {used.disturbances, used.versions} \subseteq Nat
  BY DEF WorkspaceTypes, SessionTypes, Bounds
<1>2. PICK m \in Nat : m = IF outcome = "replaced" THEN used.disturbances ELSE used.disturbances + 1
  BY <1>1
<1>3. PICK n \in Nat : n = IF outcome = "refused" THEN used.versions ELSE used.versions + 1
  BY <1>1
<1>4. used' = [used EXCEPT !.versions = n, !.disturbances = m]
  BY <1>2, <1>3 DEF WorkerReplace
<1> QED
  BY <1>1, <1>3, <1>4, BoundSpends

LEMMA OutsideSpends ==
    ASSUME WorkspaceTypes, NEW p \in Paths, NEW deleted \in BOOLEAN, OutsideWrite(p, deleted)
    PROVE  used'.versions = used.versions + 1
<1>1. used \in Bounds /\ used.disturbances + 1 \in Nat /\ used.versions + 1 \in Nat
  BY DEF WorkspaceTypes, SessionTypes, Bounds
<1>2. PICK m \in Nat, n \in Nat : m = used.disturbances + 1 /\ n = used.versions + 1
  BY <1>1
<1>3. used' = [used EXCEPT !.disturbances = m, !.versions = n]
  BY <1>2 DEF OutsideWrite
<1> QED
  BY <1>1, <1>2, <1>3, BoundSpends

LEMMA FinishSpends ==
    ASSUME WorkspaceTypes, FinishSave
    PROVE  used'.versions = used.versions
<1>1. used \in Bounds
  BY DEF WorkspaceTypes, SessionTypes
<1> QED
  BY <1>1, SaveKeeps DEF FinishSave, FinishSaved, FinishFailed, Dispose

LEMMA DiskMovesStep ==
    ASSUME WorkspaceTypes, Next
    PROVE  DiskMoves
<1> USE DEF history, saving, disk
<1>1. ASSUME NEW accepted \in BOOLEAN, Settle(accepted) PROVE DiskMoves
  <2>1. used'.versions = used.versions
    BY <1>1, CommandKeeps, DisturbKeeps, SaveKeeps DEF Settle, WorkspaceTypes, SessionTypes
  <2> QED
    BY <1>1, <2>1 DEF Settle, DiskMoves
<1>2. ASSUME NEW overwritten \in {{}} \cup {{e} : e \in 1 .. used.edits}, RemoteEdit(overwritten)
      PROVE  DiskMoves
  <2>1. used'.versions = used.versions
    BY <1>2, CommandKeeps, DisturbKeeps, SaveKeeps DEF RemoteEdit, WorkspaceTypes, SessionTypes
  <2> QED
    BY <1>2, <2>1 DEF RemoteEdit, DiskMoves
<1>3. ASSUME NEW path \in Paths, NEW deleted \in BOOLEAN, OutsideWrite(path, deleted) PROVE DiskMoves
  BY <1>3 DEF DiskMoves
<1>4. ASSUME NEW kind \in {"stroke", "move"}, BeginGesture(kind) PROVE DiskMoves
  <2>1. used'.versions = used.versions
    BY <1>4, CommandKeeps, DisturbKeeps, SaveKeeps DEF BeginGesture, WorkspaceTypes, SessionTypes
  <2> QED
    BY <1>4, <2>1 DEF BeginGesture, DiskMoves
<1>5. ASSUME NEW changed \in BOOLEAN, CommitOperation(changed) PROVE DiskMoves
  <2>1. used'.versions = used.versions
    BY <1>5, SpendKeeps DEF CommitOperation, WorkspaceTypes, SessionTypes, Bounds
  <2> QED
    BY <1>5, <2>1 DEF CommitOperation, DiskMoves
<1>6. ASSUME NEW content \in {exec.content, {}}, Reattach(content) PROVE DiskMoves
  <2>1. used'.versions = used.versions
    BY <1>6, CommandKeeps, DisturbKeeps, SaveKeeps DEF Reattach, WorkspaceTypes, SessionTypes
  <2> QED
    BY <1>6, <2>1 DEF Reattach, DiskMoves
<1>7. ASSUME NEW direction \in {"undo", "redo"}, BeginHistoryStep(direction) PROVE DiskMoves
  <2>1. used'.versions = used.versions
    BY <1>7, CommandKeeps, DisturbKeeps, SaveKeeps DEF BeginHistoryStep, WorkspaceTypes, SessionTypes
  <2> QED
    BY <1>7, <2>1 DEF BeginHistoryStep, DiskMoves
<1>8. CASE Save
  <2>1. used'.versions = used.versions
    BY <1>8, CommandKeeps, DisturbKeeps, SaveKeeps DEF Save, WorkspaceTypes, SessionTypes
  <2> QED
    BY <1>8, <2>1 DEF Save, DiskMoves
<1>9. ASSUME NEW path \in Paths, SaveAs(path) PROVE DiskMoves
  <2>1. used'.versions = used.versions
    BY <1>9, CommandKeeps, DisturbKeeps, SaveKeeps DEF SaveAs, WorkspaceTypes, SessionTypes
  <2> QED
    BY <1>9, <2>1 DEF SaveAs, DiskMoves
<1>10. ASSUME NEW d \in dialogs, ConfirmReplace(d) PROVE DiskMoves
  <2>1. used'.versions = used.versions
    BY <1>10, CommandKeeps, DisturbKeeps, SaveKeeps DEF ConfirmReplace, WorkspaceTypes, SessionTypes
  <2> QED
    BY <1>10, <2>1 DEF ConfirmReplace, DiskMoves
<1>11. ASSUME NEW d \in dialogs, ConfirmOverwrite(d) PROVE DiskMoves
  <2>1. used'.versions = used.versions
    BY <1>11, CommandKeeps, DisturbKeeps, SaveKeeps DEF ConfirmOverwrite, WorkspaceTypes, SessionTypes
  <2> QED
    BY <1>11, <2>1 DEF ConfirmOverwrite, DiskMoves
<1>12. ASSUME NEW d \in dialogs, CancelDialog(d) PROVE DiskMoves
  <2>1. used'.versions = used.versions
    BY <1>12, CommandKeeps, DisturbKeeps, SaveKeeps DEF CancelDialog, WorkspaceTypes, SessionTypes
  <2> QED
    BY <1>12, <2>1 DEF CancelDialog, DiskMoves
<1>13. CASE CloseTab
  <2>1. used'.versions = used.versions
    BY <1>13, CommandKeeps, DisturbKeeps, SaveKeeps DEF CloseTab, WorkspaceTypes, SessionTypes
  <2> QED
    BY <1>13, <2>1 DEF CloseTab, DiskMoves
<1>14. ASSUME NEW d \in dialogs, CloseSaving(d) PROVE DiskMoves
  <2>1. used'.versions = used.versions
    BY <1>14, CommandKeeps, DisturbKeeps, SaveKeeps DEF CloseSaving, WorkspaceTypes, SessionTypes
  <2> QED
    BY <1>14, <2>1 DEF CloseSaving, DiskMoves
<1>15. ASSUME NEW d \in dialogs, CloseDiscarding(d) PROVE DiskMoves
  <2>1. used'.versions = used.versions
    BY <1>15, CommandKeeps, DisturbKeeps, SaveKeeps DEF CloseDiscarding, WorkspaceTypes, SessionTypes
  <2> QED
    BY <1>15, <2>1 DEF CloseDiscarding, DiskMoves
<1>16. CASE HistoryWaitOver
  <2>1. used'.versions = used.versions
    BY <1>16, CommandKeeps, DisturbKeeps, SaveKeeps DEF HistoryWaitOver, WorkspaceTypes, SessionTypes
  <2> QED
    BY <1>16, <2>1 DEF HistoryWaitOver, DiskMoves
<1>17. CASE PrepareHistoryInverse
  <2>1. used'.versions = used.versions
    BY <1>17, CommandKeeps, DisturbKeeps, SaveKeeps DEF PrepareHistoryInverse, WorkspaceTypes, SessionTypes
  <2> QED
    BY <1>17, <2>1 DEF PrepareHistoryInverse, DiskMoves
<1>18. ASSUME NEW outcome \in {"ok", "error", "declined"}, WorkerStage(outcome) PROVE DiskMoves
  <2>1. used'.versions = used.versions
    BY <1>18, CommandKeeps, DisturbKeeps, SaveKeeps DEF WorkerStage, WorkspaceTypes, SessionTypes
  <2> QED
    BY <1>18, <2>1 DEF WorkerStage, DiskMoves
<1>19. CASE WorkerCheck
  <2>1. used'.versions = used.versions
    BY <1>19, CommandKeeps, DisturbKeeps, SaveKeeps DEF WorkerCheck, WorkspaceTypes, SessionTypes
  <2> QED
    BY <1>19, <2>1 DEF WorkerCheck, DiskMoves
<1>20. ASSUME NEW outcome \in {"replaced", "refused", "unsynced"}, WorkerReplace(outcome) PROVE DiskMoves
  <2>1. CASE outcome = "refused"
    BY <1>20, <2>1, ReplaceSpends DEF WorkerReplace, DiskMoves
  <2>2. CASE outcome # "refused"
    BY <1>20, <2>2 DEF DiskMoves
  <2> QED
    BY <2>1, <2>2
<1>21. CASE WorkerVerify
  <2>1. used'.versions = used.versions
    BY <1>21, CommandKeeps, DisturbKeeps, SaveKeeps DEF WorkerVerify, WorkspaceTypes, SessionTypes
  <2> QED
    BY <1>21, <2>1 DEF WorkerVerify, DiskMoves
<1>22. ASSUME NEW read \in BOOLEAN, WorkerCaptureConflict(read) PROVE DiskMoves
  <2>1. used'.versions = used.versions
    BY <1>22, CommandKeeps, DisturbKeeps, SaveKeeps DEF WorkerCaptureConflict, WorkspaceTypes, SessionTypes
  <2> QED
    BY <1>22, <2>1 DEF WorkerCaptureConflict, DiskMoves
<1>23. CASE ProcessCollaborationUpdates
  <2>1. used'.versions = used.versions
    BY <1>23, CommandKeeps, DisturbKeeps, SaveKeeps
       DEF ProcessCollaborationUpdates, WorkspaceTypes, SessionTypes
  <2> QED
    BY <1>23, <2>1 DEF ProcessCollaborationUpdates, DiskMoves
<1>24. CASE RunHistoryWaited
  <2>1. used'.versions = used.versions
    BY <1>24, CommandKeeps, DisturbKeeps, SaveKeeps DEF RunHistoryWaited, WorkspaceTypes, SessionTypes
  <2> QED
    BY <1>24, <2>1 DEF RunHistoryWaited, DiskMoves
<1>25. CASE RunHistoryInverse
  <2>1. used'.versions = used.versions
    BY <1>25, CommandKeeps, DisturbKeeps, SaveKeeps DEF RunHistoryInverse, WorkspaceTypes, SessionTypes
  <2> QED
    BY <1>25, <2>1 DEF RunHistoryInverse, DiskMoves
<1>26. CASE RunEditOutcome
  <2>1. used'.versions = used.versions
    BY <1>26, CommandKeeps, DisturbKeeps, SaveKeeps DEF RunEditOutcome, WorkspaceTypes, SessionTypes
  <2> QED
    BY <1>26, <2>1 DEF RunEditOutcome, DiskMoves
<1>27. CASE RunHistoryOutcome
  <2>1. used'.versions = used.versions
    BY <1>27, CommandKeeps, DisturbKeeps, SaveKeeps DEF RunHistoryOutcome, WorkspaceTypes, SessionTypes
  <2> QED
    BY <1>27, <2>1 DEF RunHistoryOutcome, DiskMoves
<1>28. CASE FinishSave
  BY <1>28 DEF DiskMoves
<1> QED
  BY <1>1, <1>2, <1>3, <1>4, <1>5, <1>6, <1>7, <1>8, <1>9, <1>10, <1>11, <1>12, <1>13,
     <1>14, <1>15, <1>16, <1>17, <1>18, <1>19, <1>20, <1>21, <1>22, <1>23, <1>24, <1>25,
     <1>26, <1>27, <1>28
     DEF Next, Environment, User, Background, UIThread

LEMMA VersionsGrow ==
    ASSUME WorkspaceTypes, Next
    PROVE  used.versions \in Nat /\ used'.versions \in {used.versions, used.versions + 1}
<1>1. used.versions \in Nat
  BY DEF WorkspaceTypes, SessionTypes, Bounds
<1>2. \A outcome \in {"replaced", "unsynced"} : WorkerReplace(outcome) => used'.versions = used.versions + 1
  BY ReplaceSpends
<1> QED
  BY <1>1, <1>2, DiskMovesStep, OutsideSpends, FinishSpends DEF DiskMoves

(* What can happen to one file: another program deletes it *)
FileDeleted(p) == files'[p].ver = 0 /\ files'[p].origin = "none" /\ UNCHANGED worker

(* or writes it, *)
FileWritten(p) ==
    /\ files'[p].ver = used.versions + 1 /\ files'[p].origin = "outside"
    /\ used'.versions = used.versions + 1 /\ UNCHANGED worker

(* the worker replaces it, *)
FileReplaced(p) ==
    /\ worker # None /\ worker.pc = "replace" /\ worker.request \in Requests /\ worker.request.path = p
    /\ files'[p].ver = used.versions + 1 /\ files'[p].content = worker.request.content
    /\ used'.versions = used.versions + 1
    /\ \/ WorkerReplace("replaced") /\ files'[p].origin = "saved"
       \/ WorkerReplace("unsynced") /\ files'[p].origin = "failed"

(* or a save that was not taken over marks it. *)
FileMarked(p) ==
    /\ FinishSave /\ later # <<>> /\ Head(later).kind = "saved" /\ Head(later).request.path = p
    /\ Head(later).result.outcome = "saved" /\ Head(later).result.ver = files[p].ver
    /\ files'[p].ver = files[p].ver /\ files'[p].content = files[p].content /\ files'[p].origin = "failed"

LEMMA FileMoves ==
    ASSUME WorkspaceTypes, Next, NEW p \in Paths
    PROVE  files'[p] = files[p] \/ FileDeleted(p) \/ FileWritten(p) \/ FileReplaced(p) \/ FileMarked(p)
<1>1. files \in [Paths -> Contents]
  BY DEF WorkspaceTypes, DiskTypes
<1>2. ASSUME NEW q \in Paths, NEW deleted \in BOOLEAN, OutsideWrite(q, deleted)
      PROVE  files'[p] = files[p] \/ FileDeleted(p) \/ FileWritten(p)
  BY <1>1, <1>2, OutsideSpends DEF OutsideWrite, FileDeleted, FileWritten, NoFile, File, saving
<1>3. ASSUME NEW outcome \in {"replaced", "unsynced"}, WorkerReplace(outcome)
      PROVE  files'[p] = files[p] \/ FileReplaced(p)
  <2>1. /\ worker.request \in Requests
        /\ worker.request.path \in Paths
        /\ worker # None
        /\ worker.pc = "replace"
    BY <1>3, WorkerIs DEF WorkerReplace, Working
  <2>2. files' = [files EXCEPT ![worker.request.path] =
                     File(used.versions + 1, worker.request.content, IF outcome = "replaced" THEN "saved" ELSE "failed")]
    BY <1>3 DEF WorkerReplace
  <2>3. CASE p # worker.request.path
    BY <1>1, <2>1, <2>2, <2>3
  <2>4. CASE p = worker.request.path
    <3>1. files'[p] = File(used.versions + 1, worker.request.content, IF outcome = "replaced" THEN "saved" ELSE "failed")
      BY <1>1, <2>2, <2>4
    <3>2. /\ files'[p].ver = used.versions + 1 /\ files'[p].content = worker.request.content
          /\ files'[p].origin = IF outcome = "replaced" THEN "saved" ELSE "failed"
      BY <3>1 DEF File
    <3>3. used'.versions = used.versions + 1
      BY <1>3, ReplaceSpends
    <3> QED
      BY <1>3, <2>1, <2>4, <3>2, <3>3 DEF FileReplaced
  <2> QED
    BY <2>3, <2>4
<1>4. ASSUME FinishSave
      PROVE  files'[p] = files[p] \/ FileMarked(p)
  <2>1. PICK request \in Requests, result \in Results :
           /\ later # <<>> /\ Head(later).kind = "saved" /\ Head(later).request = request
           /\ Head(later).result = result
           /\ UNCHANGED files \/ FinishFailed(request, result)
    BY <1>4, FinishCases
  <2>2. CASE UNCHANGED files
    BY <2>2
  <2>3. CASE FinishFailed(request, result) /\ ~UNCHANGED files
    <3>1. /\ result.outcome = "saved" /\ files[request.path].ver = result.ver
          /\ files' = [files EXCEPT ![request.path].origin = "failed"]
      BY <2>3 DEF FinishFailed
    <3>2. request.path \in Paths
      BY DEF Requests
    <3>3. CASE p # request.path
      BY <1>1, <3>1, <3>2, <3>3
    <3>4. CASE p = request.path
      <4>1. files'[p] = [files[p] EXCEPT !.origin = "failed"]
        BY <1>1, <3>1, <3>4
      <4>2. /\ files'[p].ver = files[p].ver
            /\ files'[p].content = files[p].content
            /\ files'[p].origin = "failed"
        BY <1>1, <4>1 DEF Contents
      <4> QED
        BY <1>4, <2>1, <3>1, <3>4, <4>2 DEF FileMarked
    <3> QED
      BY <3>3, <3>4
  <2> QED
    BY <2>1, <2>2, <2>3
<1> QED
  BY <1>2, <1>3, <1>4, DiskMovesStep DEF DiskMoves

LEMMA AgreedGrows ==
    ASSUME WorkspaceTypes, Next
    PROVE  agreed \subseteq agreed'
<1> USE DEF history, saving, disk
<1>1. ASSUME NEW accepted \in BOOLEAN, Settle(accepted) PROVE agreed \subseteq agreed'
  BY <1>1 DEF Settle
<1>2. ASSUME NEW overwritten \in {{}} \cup {{e} : e \in 1 .. used.edits}, RemoteEdit(overwritten)
      PROVE  agreed \subseteq agreed'
  BY <1>2 DEF RemoteEdit
<1>3. ASSUME NEW path \in Paths, NEW deleted \in BOOLEAN, OutsideWrite(path, deleted)
      PROVE  agreed \subseteq agreed'
  BY <1>3 DEF OutsideWrite
<1>4. ASSUME NEW kind \in {"stroke", "move"}, BeginGesture(kind) PROVE agreed \subseteq agreed'
  BY <1>4 DEF BeginGesture
<1>5. ASSUME NEW changed \in BOOLEAN, CommitOperation(changed) PROVE agreed \subseteq agreed'
  BY <1>5 DEF CommitOperation
<1>6. ASSUME NEW content \in {exec.content, {}}, Reattach(content) PROVE agreed \subseteq agreed'
  BY <1>6 DEF Reattach
<1>7. ASSUME NEW direction \in {"undo", "redo"}, BeginHistoryStep(direction)
      PROVE  agreed \subseteq agreed'
  BY <1>7 DEF BeginHistoryStep
<1>8. CASE Save
  BY <1>8 DEF Save
<1>9. ASSUME NEW path \in Paths, SaveAs(path) PROVE agreed \subseteq agreed'
  BY <1>9 DEF SaveAs
<1>10. ASSUME NEW d \in dialogs, ConfirmReplace(d) PROVE agreed \subseteq agreed'
  BY <1>10 DEF ConfirmReplace
<1>11. ASSUME NEW d \in dialogs, ConfirmOverwrite(d) PROVE agreed \subseteq agreed'
  BY <1>11 DEF ConfirmOverwrite
<1>12. ASSUME NEW d \in dialogs, CancelDialog(d) PROVE agreed \subseteq agreed'
  BY <1>12 DEF CancelDialog
<1>13. CASE CloseTab
  BY <1>13 DEF CloseTab
<1>14. ASSUME NEW d \in dialogs, CloseSaving(d) PROVE agreed \subseteq agreed'
  BY <1>14 DEF CloseSaving
<1>15. ASSUME NEW d \in dialogs, CloseDiscarding(d) PROVE agreed \subseteq agreed'
  BY <1>15 DEF CloseDiscarding
<1>16. CASE HistoryWaitOver
  BY <1>16 DEF HistoryWaitOver
<1>17. CASE PrepareHistoryInverse
  BY <1>17 DEF PrepareHistoryInverse
<1>18. ASSUME NEW outcome \in {"ok", "error", "declined"}, WorkerStage(outcome)
       PROVE  agreed \subseteq agreed'
  BY <1>18 DEF WorkerStage
<1>19. CASE WorkerCheck
  BY <1>19 DEF WorkerCheck
<1>20. ASSUME NEW outcome \in {"replaced", "refused", "unsynced"}, WorkerReplace(outcome)
       PROVE  agreed \subseteq agreed'
  BY <1>20 DEF WorkerReplace
<1>21. CASE WorkerVerify
  BY <1>21 DEF WorkerVerify
<1>22. ASSUME NEW read \in BOOLEAN, WorkerCaptureConflict(read) PROVE agreed \subseteq agreed'
  BY <1>22 DEF WorkerCaptureConflict
<1>23. CASE ProcessCollaborationUpdates
  BY <1>23 DEF ProcessCollaborationUpdates
<1>24. CASE RunHistoryWaited
  BY <1>24 DEF RunHistoryWaited
<1>25. CASE RunHistoryInverse
  BY <1>25 DEF RunHistoryInverse
<1>26. CASE RunEditOutcome
  BY <1>26 DEF RunEditOutcome
<1>27. CASE RunHistoryOutcome
  BY <1>27 DEF RunHistoryOutcome
<1>28. CASE FinishSave
  BY <1>28 DEF FinishSave
<1> QED
  BY <1>1, <1>2, <1>3, <1>4, <1>5, <1>6, <1>7, <1>8, <1>9, <1>10, <1>11, <1>12, <1>13,
     <1>14, <1>15, <1>16, <1>17, <1>18, <1>19, <1>20, <1>21, <1>22, <1>23, <1>24, <1>25,
     <1>26, <1>27, <1>28
     DEF Next, Environment, User, Background, UIThread
(* The dialogs that open name a version that was on disk. *)
DialogsMove ==
    \A d \in dialogs' : \/ d \in dialogs \/ d.ver = 0
                        \/ \E p \in Paths : d.ver = files[p].ver
                        \/ FinishSave /\ later # <<>> /\ Head(later).kind = "saved" /\ d.ver = Head(later).result.ver

LEMMA DialogsMoveStep ==
    ASSUME WorkspaceTypes, Next
    PROVE  DialogsMove
<1> USE DEF history, saving, disk
<1>1. ASSUME NEW accepted \in BOOLEAN, Settle(accepted) PROVE DialogsMove
  BY <1>1 DEF Settle, DialogsMove
<1>2. ASSUME NEW overwritten \in {{}} \cup {{e} : e \in 1 .. used.edits}, RemoteEdit(overwritten)
      PROVE  DialogsMove
  BY <1>2 DEF RemoteEdit, DialogsMove
<1>3. ASSUME NEW path \in Paths, NEW deleted \in BOOLEAN, OutsideWrite(path, deleted) PROVE DialogsMove
  BY <1>3 DEF OutsideWrite, DialogsMove
<1>4. ASSUME NEW kind \in {"stroke", "move"}, BeginGesture(kind) PROVE DialogsMove
  BY <1>4 DEF BeginGesture, DialogsMove
<1>5. ASSUME NEW changed \in BOOLEAN, CommitOperation(changed) PROVE DialogsMove
  BY <1>5 DEF CommitOperation, DialogsMove
<1>6. ASSUME NEW content \in {exec.content, {}}, Reattach(content) PROVE DialogsMove
  BY <1>6 DEF Reattach, DialogsMove
<1>7. ASSUME NEW direction \in {"undo", "redo"}, BeginHistoryStep(direction) PROVE DialogsMove
  BY <1>7 DEF BeginHistoryStep, DialogsMove
<1>8. CASE Save
  BY <1>8 DEF Save, DialogsMove
<1>9. ASSUME NEW path \in Paths, SaveAs(path) PROVE DialogsMove
  <2>1. CASE UNCHANGED dialogs
    BY <2>1 DEF DialogsMove
  <2>2. CASE dialogs' = dialogs \cup {[kind |-> "replace", path |-> path, ver |-> files[path].ver]}
    BY <2>2 DEF DialogsMove
  <2> QED
    BY <1>9, <2>1, <2>2 DEF SaveAs
<1>10. ASSUME NEW d \in dialogs, ConfirmReplace(d) PROVE DialogsMove
  BY <1>10 DEF ConfirmReplace, DialogsMove
<1>11. ASSUME NEW d \in dialogs, ConfirmOverwrite(d) PROVE DialogsMove
  BY <1>11 DEF ConfirmOverwrite, DialogsMove
<1>12. ASSUME NEW d \in dialogs, CancelDialog(d) PROVE DialogsMove
  BY <1>12 DEF CancelDialog, DialogsMove
<1>13. CASE CloseTab
  BY <1>13 DEF CloseTab, Dispose, DialogsMove
<1>14. ASSUME NEW d \in dialogs, CloseSaving(d) PROVE DialogsMove
  BY <1>14 DEF CloseSaving, DialogsMove
<1>15. ASSUME NEW d \in dialogs, CloseDiscarding(d) PROVE DialogsMove
  BY <1>15 DEF CloseDiscarding, Dispose, DialogsMove
<1>16. CASE HistoryWaitOver
  BY <1>16 DEF HistoryWaitOver, DialogsMove
<1>17. CASE PrepareHistoryInverse
  BY <1>17 DEF PrepareHistoryInverse, DialogsMove
<1>18. ASSUME NEW outcome \in {"ok", "error", "declined"}, WorkerStage(outcome) PROVE DialogsMove
  BY <1>18 DEF WorkerStage, DialogsMove
<1>19. CASE WorkerCheck
  BY <1>19 DEF WorkerCheck, DialogsMove
<1>20. ASSUME NEW outcome \in {"replaced", "refused", "unsynced"}, WorkerReplace(outcome)
       PROVE  DialogsMove
  BY <1>20 DEF WorkerReplace, DialogsMove
<1>21. CASE WorkerVerify
  BY <1>21 DEF WorkerVerify, DialogsMove
<1>22. ASSUME NEW read \in BOOLEAN, WorkerCaptureConflict(read) PROVE DialogsMove
  BY <1>22 DEF WorkerCaptureConflict, DialogsMove
<1>23. CASE ProcessCollaborationUpdates
  BY <1>23 DEF ProcessCollaborationUpdates, DialogsMove
<1>24. CASE RunHistoryWaited
  BY <1>24 DEF RunHistoryWaited, DialogsMove
<1>25. CASE RunHistoryInverse
  BY <1>25 DEF RunHistoryInverse, DialogsMove
<1>26. CASE RunEditOutcome
  BY <1>26 DEF RunEditOutcome, DialogsMove
<1>27. CASE RunHistoryOutcome
  BY <1>27 DEF RunHistoryOutcome, DialogsMove
<1>28. CASE FinishSave
  <2>1. PICK request \in Requests, result \in Results :
           /\ later # <<>> /\ Head(later).kind = "saved" /\ Head(later).result = result /\ result.ver \in Nat
           /\ \/ UNCHANGED dialogs
              \/ job # None /\ FinishSaved(job, request, result.ver)
              \/ FinishFailed(request, result)
    BY <1>28, FinishCases
  <2>2. CASE UNCHANGED dialogs
    BY <2>2 DEF DialogsMove
  <2>3. CASE job # None /\ FinishSaved(job, request, result.ver)
    BY <2>3 DEF FinishSaved, Dispose, DialogsMove
  <2>4. CASE FinishFailed(request, result)
    BY <1>28, <2>1, <2>4 DEF FinishFailed, DialogsMove
  <2> QED
    BY <2>1, <2>2, <2>3, <2>4
<1> QED
  BY <1>1, <1>2, <1>3, <1>4, <1>5, <1>6, <1>7, <1>8, <1>9, <1>10, <1>11, <1>12, <1>13,
     <1>14, <1>15, <1>16, <1>17, <1>18, <1>19, <1>20, <1>21, <1>22, <1>23, <1>24, <1>25,
     <1>26, <1>27, <1>28
     DEF Next, Environment, User, Background, UIThread


-----------------------------------------------------------------------------------
(* While p has version v, it holds content, and no other program wrote it. *)
IsOn(p, v, content) == files[p].ver = v => files[p].content = content /\ files[p].origin # "outside"

(* Versions never repeat: what the state names was on disk once. *)
VersionsKnown ==
    /\ 1 <= used.versions
    /\ \A p \in Paths : files[p].ver <= used.versions /\ (files[p].ver = 0 => files[p].origin = "none")
    /\ \A d \in dialogs : d.ver <= used.versions
    /\ \A r \in Requests : Held(r) => r.expected <= used.versions
    /\ \A i \in 1 .. Len(later) : later[i].kind = "saved" => later[i].result.ver <= used.versions

(* The version the tab expects on disk has the content the tab was saved with. *)
TabOnDisk == 1 <= ws.disk /\ ws.disk <= used.versions /\ IsOn(ws.path, ws.disk, ws.hash)

(* So has the version a save wrote, until another program or save replaces it. *)
WrittenOnDisk ==
    \A r \in Requests, v \in Nat : Wrote(r, v) =>
        /\ 1 <= v /\ v <= used.versions
        /\ IsOn(r.path, v, r.content)
        /\ files[r.path].origin = "saved" => files[r.path].ver = v

(* The version a save may replace is the tab's own, none, or an agreed one. *)
ExpectedAgreed(r) == files[r.path].ver = r.expected /\ files[r.path].origin = "outside" => r.expected \in agreed

WorkerChecked ==
    worker # None => /\ worker.pc = "replace" => worker.seen = worker.request.expected
                     /\ ExpectedAgreed(worker.request)

(* A save that reached the tab's file is the tab's last one, or not over yet. *)
SavedIsTab ==
    tab = "open" /\ files[ws.path].origin = "saved" =>
        \/ files[ws.path].content = ws.hash
        \/ \E r \in Requests, v \in Nat : Wrote(r, v) /\ r.path = ws.path

DiskInv == VersionsKnown /\ TabOnDisk /\ WrittenOnDisk /\ WorkerChecked /\ SavedIsTab

LEMMA VersionsInt ==
    ASSUME WorkspaceTypes
    PROVE  /\ used.versions \in Nat /\ \A p \in Paths : files[p].ver \in Nat
           /\ \A d \in dialogs : d.ver \in Nat
           /\ \A r \in Requests : r.expected \in Nat /\ r.path \in Paths
BY FileIs, DialogTypes DEF WorkspaceTypes, SessionTypes, Bounds, Requests

LEMMA IsOnKept ==
    ASSUME WorkspaceTypes, Next, NEW p \in Paths, NEW v \in Nat, NEW content,
           1 <= v, v <= used.versions, IsOn(p, v, content)
    PROVE  IsOn(p, v, content)'
<1>1. used.versions \in Nat
  BY VersionsInt
<1>2. files'[p] = files[p] \/ FileDeleted(p) \/ FileWritten(p) \/ FileReplaced(p) \/ FileMarked(p)
  BY FileMoves
<1> QED
  BY <1>1, <1>2 DEF IsOn, FileDeleted, FileWritten, FileReplaced, FileMarked

LEMMA TabOnDiskStep ==
    ASSUME WorkspaceTypes, DiskInv, Next
    PROVE  TabOnDisk'
<1>1. used.versions \in Nat /\ used'.versions \in {used.versions, used.versions + 1}
  BY VersionsGrow
<1>2. CASE TabStays
  <2>1. PICK p, v, content : p \in Paths /\ v \in Nat /\ p = ws.path /\ v = ws.disk /\ content = ws.hash
    BY TabTypes
  <2>2. 1 <= v /\ v <= used.versions /\ IsOn(p, v, content)
    BY <2>1 DEF DiskInv, TabOnDisk
  <2>3. IsOn(p, v, content)'
    BY <2>1, <2>2, IsOnKept
  <2>4. IsOn(ws.path, ws.disk, ws.hash)'
    BY <1>2, <2>1, <2>3 DEF TabStays, IsOn
  <2> QED
    BY <1>1, <1>2, <2>1, <2>2, <2>4 DEF TabOnDisk, TabStays
<1>3. ASSUME NEW r \in Requests, NEW v \in Nat, Wrote(r, v), UNCHANGED files,
             ws'.path = r.path, ws'.disk = v, ws'.hash = r.content
      PROVE  TabOnDisk'
  <2>1. 1 <= v /\ v <= used.versions /\ IsOn(r.path, v, r.content)
    BY <1>3 DEF DiskInv, WrittenOnDisk
  <2>2. IsOn(ws.path, ws.disk, ws.hash)'
    BY <1>3, <2>1 DEF IsOn
  <2> QED
    BY <1>1, <1>3, <2>1, <2>2 DEF TabOnDisk
<1> QED
  BY <1>2, <1>3, TabMoves DEF TabSaved

(* The result the end of a save finds is one of a save that wrote, if it says so. *)
LEMMA FinishedWrote ==
    ASSUME WorkspaceTypes, FinishSave, Head(later).result.outcome = "saved"
    PROVE  \E r \in Requests, v \in Nat : r = Head(later).request /\ v = Head(later).result.ver /\ Wrote(r, v)
<1>1. PICK r \in Requests, v \in Nat : r = Head(later).request /\ v = Head(later).result.ver
  BY SavedRuns DEF FinishSave
<1> QED
  BY <1>1, FinishLeavesLater DEF Wrote

LEMMA VersionsKnownStep ==
    ASSUME WorkspaceTypes, SaveTokens, DiskInv, TabOnDisk', Next
    PROVE  VersionsKnown'
<1>1. /\ used.versions \in Nat /\ used'.versions \in {used.versions, used.versions + 1}
      /\ \A p \in Paths : files[p].ver \in Nat /\ files[p].ver <= used.versions
  BY VersionsGrow, VersionsInt DEF DiskInv, VersionsKnown
<1>2. (1 <= used.versions)'
  BY <1>1 DEF DiskInv, VersionsKnown
<1>3. ASSUME NEW p \in Paths
      PROVE  files'[p].ver <= used'.versions /\ (files'[p].ver = 0 => files'[p].origin = "none")
  <2>1. files[p].ver <= used.versions /\ (files[p].ver = 0 => files[p].origin = "none")
    BY DEF DiskInv, VersionsKnown
  <2>2. CASE files'[p] = files[p]
    BY <1>1, <2>1, <2>2
  <2>3. CASE FileDeleted(p) \/ FileWritten(p) \/ FileReplaced(p)
    BY <1>1, <2>3 DEF FileDeleted, FileWritten, FileReplaced
  <2>4. CASE FileMarked(p)
    <3>1. files[p].ver >= 1
      BY <2>4, FinishedWrote DEF FileMarked, DiskInv, WrittenOnDisk
    <3> QED
      BY <1>1, <2>1, <2>4, <3>1 DEF FileMarked
  <2> QED
    BY <2>2, <2>3, <2>4, FileMoves
<1>4. ASSUME NEW r \in Requests, Held(r)'
      PROVE  r.expected <= used'.versions
  <2>1. r.expected \in Nat
    BY VersionsInt
  <2>2. CASE Held(r)
    BY <1>1, <2>1, <2>2 DEF DiskInv, VersionsKnown
  <2>3. CASE Begun(r)
    <3>1. CASE r.expected = ws'.disk
      BY <3>1 DEF TabOnDisk
    <3>2. CASE r.expected = 0
      BY <1>1, <3>2
    <3>3. ASSUME NEW d \in dialogs, d.ver = r.expected PROVE r.expected <= used'.versions
      BY <1>1, <2>1, <3>3 DEF DiskInv, VersionsKnown
    <3> QED
      BY <2>3, <3>1, <3>2, <3>3 DEF Begun
  <2> QED
    BY <1>4, <2>2, <2>3, HeldBack
<1>5. ASSUME NEW i \in 1 .. Len(later), later[i].kind = "saved"
      PROVE  later[i].result.ver \in Nat /\ later[i].result.ver <= used'.versions
  <2>1. later[i] \in Closures
    BY DEF WorkspaceTypes
  <2>2. later[i].result.ver \in Nat
    BY <1>5, <2>1, ClosureKinds DEF Results
  <2> QED
    BY <1>1, <1>5, <2>2 DEF DiskInv, VersionsKnown
<1>6. ASSUME NEW d \in dialogs'
      PROVE  d.ver <= used'.versions
  <2>1. CASE d \in dialogs
    BY <1>1, <2>1, VersionsInt DEF DiskInv, VersionsKnown
  <2>2. CASE d.ver = 0 \/ \E p \in Paths : d.ver = files[p].ver
    BY <1>1, <2>2
  <2>3. CASE FinishSave /\ later # <<>> /\ Head(later).kind = "saved" /\ d.ver = Head(later).result.ver
    BY <1>5, <2>3, FinishLeavesLater
  <2> QED
    BY <2>1, <2>2, <2>3, DialogsMoveStep DEF DialogsMove
<1>7. ASSUME NEW i \in 1 .. Len(later'), later'[i].kind = "saved"
      PROVE  later'[i].result.ver <= used'.versions
  <2>1. CASE SavedCarried
    <3>1. PICK m \in {0, 1} : i + m \in 1 .. Len(later) /\ later[i + m] = later'[i]
      BY <1>7, <2>1 DEF SavedCarried
    <3> QED
      BY <1>5, <1>7, <3>1
  <2>2. CASE UNCHANGED later
    BY <1>5, <1>7, <2>2
  <2>3. CASE FinishSave
    BY <1>5, <1>7, <2>3, FinishLeavesLater
  <2>4. CASE Ends
    <3>1. PICK u \in Results :
             /\ worker # None /\ Deliver(u)
             /\ u.outcome = "saved" => worker.pc = "verify" /\ u.ver = worker.seen
             /\ u.outcome # "saved" => u.ver \in {0, files[worker.request.path].ver}
      BY <2>4 DEF Ends
    <3>2. /\ later \in Seq(Closures)
          /\ worker.request \in Requests
          /\ worker.request.path \in Paths
          /\ u.ver \in Nat
      BY <3>1 DEF WorkspaceTypes, DiskTypes, Workers, Requests, Results
    <3>3. PICK c \in Closures : c = [kind |-> "saved", request |-> worker.request, result |-> u]
      BY <3>2, ClosureForms
    <3>4. c.result = u /\ later' = Append(later, c)
      BY <3>1, <3>3 DEF Deliver
    <3>5. (i \in 1 .. Len(later) /\ later'[i] = later[i]) \/ later'[i] = c
      BY <3>2, <3>4, AppendOne
    <3>6. u.ver <= used.versions
      <4>1. CASE u.outcome = "saved"
        <5>1. Wrote(worker.request, u.ver)
          BY <3>1, <4>1 DEF Wrote
        <5> QED
          BY <3>2, <5>1 DEF DiskInv, WrittenOnDisk
      <4>2. CASE u.outcome # "saved"
        BY <1>1, <3>1, <3>2, <4>2
      <4> QED
        BY <4>1, <4>2
    <3> QED
      BY <1>1, <1>5, <1>7, <3>2, <3>4, <3>5, <3>6
  <2> QED
    BY <2>1, <2>2, <2>3, <2>4, WorkerShape DEF SaveTokens, Works
<1> QED
  BY <1>2, <1>3, <1>4, <1>6, <1>7 DEF VersionsKnown

LEMMA WrittenOnDiskStep ==
    ASSUME WorkspaceTypes, SaveTokens, DiskInv, Next
    PROVE  WrittenOnDisk'
<1>1. used.versions \in Nat /\ used'.versions \in {used.versions, used.versions + 1}
  BY VersionsGrow
<1> SUFFICES ASSUME NEW r \in Requests, NEW v \in Nat, Wrote(r, v)'
             PROVE  /\ 1 <= v /\ v <= used'.versions /\ IsOn(r.path, v, r.content)'
                    /\ files'[r.path].origin = "saved" => files'[r.path].ver = v
  BY DEF WrittenOnDisk, IsOn
<1>2. r.path \in Paths
  BY VersionsInt
<1>3. CASE Wrote(r, v)
  <2>1. /\ 1 <= v /\ v <= used.versions /\ IsOn(r.path, v, r.content)
        /\ files[r.path].origin = "saved" => files[r.path].ver = v
    BY <1>3 DEF DiskInv, WrittenOnDisk
  <2>2. IsOn(r.path, v, r.content)'
    <3>1. PICK p, content : p \in Paths /\ p = r.path /\ content = r.content
      BY <1>2
    <3>2. IsOn(p, v, content)'
      BY <2>1, <3>1, IsOnKept
    <3> QED
      BY <3>1, <3>2
  <2>3. ~FileReplaced(r.path)
    BY <1>3 DEF FileReplaced, Wrote, SaveTokens, WorkerOrSaved, NoSaved
  <2>4. files'[r.path].origin = "saved" => files'[r.path].ver = v
    BY <1>2, <2>1, <2>3, FileMoves DEF FileDeleted, FileWritten, FileMarked
  <2> QED
    BY <1>1, <2>1, <2>2, <2>4
<1>4. CASE WorkerReplace("replaced") /\ worker.request = r /\ v = used.versions + 1
  <2>1. files'[r.path] = File(v, r.content, "saved")
    BY <1>2, <1>4 DEF WorkerReplace, WorkspaceTypes, DiskTypes
  <2>2. used'.versions = used.versions + 1
    BY <1>4, ReplaceSpends
  <2>3. files'[r.path].ver = v /\ files'[r.path].content = r.content /\ files'[r.path].origin = "saved"
    BY <2>1 DEF File
  <2> QED
    BY <1>1, <1>4, <2>2, <2>3 DEF IsOn
<1> QED
  BY <1>3, <1>4, WroteBack

LEMMA WorkerCheckedStep ==
    ASSUME WorkspaceTypes, SaveTokens, DiskInv, TabOnDisk', VersionsKnown', Next
    PROVE  WorkerChecked'
<1>1. used.versions \in Nat /\ agreed \subseteq agreed'
  BY VersionsGrow, AgreedGrows
<1>2. ASSUME worker # None, NEW r \in Requests, r = worker.request
      PROVE  ExpectedAgreed(r)'
  <2>1. r.expected \in Nat /\ r.expected <= used.versions /\ r.path \in Paths
    BY <1>2, VersionsInt DEF DiskInv, VersionsKnown, Held
  <2>2. ExpectedAgreed(r)
    BY <1>2 DEF DiskInv, WorkerChecked
  <2> QED
    BY <1>1, <2>1, <2>2, FileMoves DEF FileDeleted, FileWritten, FileReplaced, FileMarked, ExpectedAgreed
<1>3. ASSUME NEW r \in Requests, Begun(r)
      PROVE  ExpectedAgreed(r)'
  <2>1. CASE r.path = ws'.path /\ r.expected = ws'.disk
    BY <2>1 DEF TabOnDisk, IsOn, ExpectedAgreed
  <2>2. CASE files[r.path].ver = 0 /\ r.expected = 0
    <3>1. UNCHANGED files /\ r.path \in Paths
      BY <1>3, VersionsInt DEF Begun
    <3> QED
      BY <2>2, <3>1 DEF DiskInv, VersionsKnown, ExpectedAgreed
  <2>3. CASE r.expected \in agreed'
    BY <2>3 DEF ExpectedAgreed
  <2> QED
    BY <1>3, <2>1, <2>2, <2>3 DEF Begun
<1> SUFFICES ASSUME worker' # None
             PROVE  /\ worker'.pc = "replace" => worker'.seen = worker'.request.expected
                    /\ ExpectedAgreed(worker.request)'
  BY DEF WorkerChecked
<1>4. CASE UNCHANGED worker
  <2>1. PICK r \in Requests : r = worker.request
    BY <1>4 DEF WorkspaceTypes, DiskTypes, Workers
  <2>2. ExpectedAgreed(r)'
    BY <1>2, <1>4, <2>1
  <2> QED
    BY <1>4, <2>1, <2>2 DEF DiskInv, WorkerChecked, ExpectedAgreed
<1>5. CASE Works
  <2>1. PICK r \in Requests : r = worker.request /\ r = worker'.request /\ worker # None
    BY <1>5 DEF Works, WorkspaceTypes, DiskTypes, Workers
  <2>2. ExpectedAgreed(r)'
    BY <1>2, <2>1
  <2> QED
    BY <1>5, <2>1, <2>2 DEF Works, ExpectedAgreed
<1>6. CASE Begun(worker'.request)
  <2>1. PICK r \in Requests : r = worker'.request
    BY SaveTypes DEF Workers
  <2>2. ExpectedAgreed(r)'
    BY <1>3, <1>6, <2>1
  <2> QED
    BY <1>6, <2>1, <2>2 DEF Begun, ExpectedAgreed
<1> QED
  BY <1>4, <1>5, <1>6, WorkerBack
LEMMA TabOpens ==
    ASSUME WorkspaceTypes, ClosedHasNone, Next, tab' = "open"
    PROVE  tab = "open"
<1>1. CASE FinishSave
  <2>1. UNCHANGED tab \/ tab' = "saved"
    BY <1>1 DEF FinishSave, FinishSaved, FinishFailed, Dispose
  <2> QED
    BY <2>1
<1>2. CASE SaveAbandoned
  BY <1>2 DEF SaveAbandoned
<1> QED
  BY <1>1, <1>2, SaveShape DEF SaveUntouched, SaveCalled, SaveDelivered

LEMMA SavedIsTabStep ==
    ASSUME WorkspaceTypes, SaveTokens, DiskInv, Next
    PROVE  SavedIsTab'
<1> SUFFICES ASSUME tab' = "open", files'[ws'.path].origin = "saved"
             PROVE  \/ files'[ws'.path].content = ws'.hash
                    \/ \E r \in Requests, v \in Nat : Wrote(r, v)' /\ r.path = ws'.path
  BY DEF SavedIsTab
<1>1. tab = "open" /\ ws.path \in Paths /\ used.versions \in Nat
  BY TabOpens, TabTypes, VersionsInt DEF SaveTokens
<1>2. ASSUME NEW r \in Requests, NEW v \in Nat, Wrote(r, v)
      PROVE  /\ IsOn(r.path, v, r.content) /\ r.path \in Paths
             /\ files[r.path].origin = "saved" => files[r.path].ver = v
  BY <1>2, VersionsInt DEF DiskInv, WrittenOnDisk
<1>3. ASSUME NEW r \in Requests, NEW v \in Nat, Wrote(r, v), UNCHANGED files, ws'.path = r.path, ws'.hash = r.content
      PROVE  files'[ws'.path].content = ws'.hash
  BY <1>2, <1>3 DEF IsOn
<1>4. CASE TabStays
  <2>1. CASE files'[ws.path] = files[ws.path] /\ files[ws.path].content # ws.hash
    <3>1. PICK r \in Requests, v \in Nat : Wrote(r, v) /\ r.path = ws.path
      BY <1>1, <1>4, <2>1 DEF DiskInv, SavedIsTab, TabStays
    <3>2. files[r.path].ver = v /\ files[r.path].content = r.content
      BY <1>2, <1>4, <2>1, <3>1 DEF IsOn, TabStays
    <3>3. ~Begins
      BY <3>1 DEF Begins, Starts, SaveTokens, SaveIsKnown, NoSaved, Wrote
    <3>4. CASE FinishSave
      <4>1. worker = None
        BY <3>4, FinishLeavesLater DEF SaveTokens, WorkerOrSaved, NoSaved
      <4>2. /\ later[1].kind = "saved" /\ later[1].request = r
            /\ later[1].result.outcome = "saved" /\ later[1].result.ver = v
        BY <3>1, <3>4, <4>1, FinishLeavesLater DEF Wrote, SaveTokens, OneSaved
      <4>3. Head(later).request = r /\ Head(later).result.outcome = "saved" /\ Head(later).result.ver = v
        BY <3>4, <4>2, FinishLeavesLater
      <4>4. job # None
        BY <1>1, <3>4, FinishLeavesLater DEF SaveTokens, SaveIsKnown, NoSaved
      <4>5. PICK result \in Results :
               /\ Head(later).result = result
               /\ FinishSaved(job, r, v) \/ FinishFailed(r, result)
        BY <3>4, <4>3, <4>4, FinishCases
      <4>6. CASE FinishSaved(job, r, v)
        <5>1. ws' = SavedWorkspace(r, v)
          BY <4>6 DEF FinishSaved
        <5>2. ws'.hash = r.content
          BY <5>1, SavedWorkspaceTypes
        <5> QED
          BY <1>4, <2>1, <3>1, <3>2, <5>2 DEF TabStays
      <4>7. CASE FinishFailed(r, result)
        <5>1. files' = [files EXCEPT ![r.path].origin = "failed"]
          BY <3>2, <4>3, <4>5, <4>7 DEF FinishFailed
        <5>2. files'[r.path] = [files[r.path] EXCEPT !.origin = "failed"] /\ files[r.path] \in Contents
          BY <1>1, <3>1, <5>1 DEF WorkspaceTypes, DiskTypes
        <5>3. files'[r.path].origin = "failed"
          BY <5>2 DEF Contents
        <5> QED
          BY <1>4, <3>1, <5>3 DEF TabStays
      <4> QED
        BY <4>5, <4>6, <4>7
    <3> QED
      BY <1>4, <3>1, <3>2, <3>3, <3>4, WroteForward DEF TabStays
  <2>2. CASE FileReplaced(ws.path)
    <3>1. WorkerReplace("replaced")
      BY <1>4, <2>2 DEF FileReplaced, TabStays
    <3>2. PICK r \in Requests, v \in Nat : r = worker.request /\ v = used.versions + 1
      BY <1>1, <2>2 DEF FileReplaced
    <3>3. Wrote(r, v)'
      BY <3>1, <3>2, ReplacedWorker DEF Wrote
    <3> QED
      BY <1>4, <2>2, <3>2, <3>3 DEF FileReplaced, TabStays
  <2>3. ~FileDeleted(ws.path) /\ ~FileWritten(ws.path) /\ ~FileMarked(ws.path)
    BY <1>4 DEF FileDeleted, FileWritten, FileMarked, TabStays
  <2> QED
    BY <1>1, <1>4, <2>1, <2>2, <2>3, FileMoves DEF TabStays
<1> QED
  BY <1>3, <1>4, TabMoves DEF TabSaved

LEMMA DiskStep ==
    ASSUME WorkspaceTypes, SaveTokens, DiskInv, Next
    PROVE  DiskInv'
<1>1. TabOnDisk'
  BY TabOnDiskStep
<1>2. VersionsKnown'
  BY <1>1, VersionsKnownStep
<1>3. WorkerChecked'
  BY <1>1, <1>2, WorkerCheckedStep
<1> QED
  BY <1>1, <1>2, <1>3, WrittenOnDiskStep, SavedIsTabStep DEF DiskInv

-----------------------------------------------------------------------------------
(* The inductive invariant. *)
WorkspaceInv == AnswerInv /\ Captures /\ DiskInv

LEMMA WorkspaceInit == ASSUME Init PROVE WorkspaceInv
<1>1. AnswerInv
  BY AnswerInit
<1>2. \A r, v : ~Held(r) /\ ~Wrote(r, v)
  BY DEF Init, Held, Wrote
<1>3. /\ ws.path = Home /\ ws.disk = 1 /\ ws.hash = {} /\ ws.gen = 0 /\ ws.rev = 0
      /\ view.gen = 1 /\ exec.rev = 0 /\ used.versions = 1 /\ dialogs = {} /\ worker = None /\ later = <<>>
  BY DEF Init
<1>4. Captures
  BY <1>2, <1>3 DEF Captures, Captured
<1>5. ASSUME NEW p \in Paths
      PROVE  /\ p = Home => files[p].ver = 1 /\ files[p].content = {} /\ files[p].origin = "saved"
             /\ p # Home => files[p].ver = 0 /\ files[p].origin = "none"
  BY DEF Init, File, NoFile
<1>6. Home \in Paths
  BY WorkspaceAssumption
<1>7. VersionsKnown
  BY <1>2, <1>3, <1>5 DEF VersionsKnown
<1>8. TabOnDisk /\ SavedIsTab
  BY <1>3, <1>5, <1>6 DEF TabOnDisk, SavedIsTab, IsOn
<1>9. WrittenOnDisk /\ WorkerChecked
  BY <1>2, <1>3 DEF WrittenOnDisk, WorkerChecked
<1> QED
  BY <1>1, <1>4, <1>7, <1>8, <1>9 DEF WorkspaceInv, DiskInv

LEMMA WorkspaceStep == ASSUME WorkspaceInv, [Next]_vars PROVE WorkspaceInv'
<1>1. AnswerInv'
  BY AnswerStep DEF WorkspaceInv
<1>2. CASE Next
  BY <1>1, <1>2, CapturesStep, DiskStep DEF WorkspaceInv, AnswerInv
<1>3. CASE UNCHANGED vars
  <2>1. \A r : Held(r)' <=> Held(r)
    BY <1>3 DEF vars, Held
  <2>2. \A r, v : Wrote(r, v)' <=> Wrote(r, v)
    BY <1>3 DEF vars, Wrote
  <2>3. Captures'
    BY <1>3, <2>1 DEF vars, WorkspaceInv, Captures, Captured
  <2>4. VersionsKnown' /\ TabOnDisk' /\ WorkerChecked'
    BY <1>3, <2>1
       DEF vars, WorkspaceInv, DiskInv, VersionsKnown, TabOnDisk, IsOn, WorkerChecked, ExpectedAgreed
  <2>5. WrittenOnDisk' /\ SavedIsTab'
    BY <1>3, <2>2 DEF vars, WorkspaceInv, DiskInv, WrittenOnDisk, IsOn, SavedIsTab
  <2> QED
    BY <1>1, <2>3, <2>4, <2>5 DEF WorkspaceInv, DiskInv
<1> QED
  BY <1>2, <1>3

LEMMA WorkspaceInvariant == Spec => []WorkspaceInv
<1>1. Init => WorkspaceInv
  BY WorkspaceInit
<1>2. WorkspaceInv /\ [Next]_vars => WorkspaceInv'
  BY WorkspaceStep
<1> QED
  BY <1>1, <1>2, PTL DEF Spec

(* A label without a star is true: however edits, other participants, other   *)
(* sessions, other programs and a save that ends in between interleave, the   *)
(* document the editor shows is the one that was saved, and the file holds it *)
(* unless it changed since (isUnsaved, finishSave).                           *)
THEOREM CleanLabelIsTrueTheorem == Spec => []CleanLabelIsTrue
<1>1. WorkspaceInv => CleanLabelIsTrue
  <2> SUFFICES ASSUME WorkspaceInv, LabelClean, view.rev = exec.rev
               PROVE  /\ exec.content = ws.hash
                      /\ files[ws.path].ver = ws.disk => files[ws.path].content = exec.content
    BY DEF CleanLabelIsTrue
  <2>1. exec.content = ws.hash
    BY DEF WorkspaceInv, Captures, Captured, LabelClean
  <2> QED
    BY <2>1 DEF WorkspaceInv, DiskInv, TabOnDisk, IsOn
<1> QED
  BY <1>1, WorkspaceInvariant, PTL

(* What another program wrote is replaced only if the user agreed to replace  *)
(* that very version, or if it was written after the check right before the   *)
(* replacement (saveAtomic, overwriteAfterConflict, saveAsConfirmingReplace). *)
THEOREM OutsideEditsSurviveTheorem == Spec => OutsideEditsSurvive
<1> DEFINE Survives ==
             \A p \in Paths :
                files[p].origin = "outside" /\ files'[p] # files[p] /\ worker # worker' =>
                   files[p].ver \in agreed \/ files[p].ver # worker.seen
<1>1. ASSUME WorkspaceInv, [Next]_vars
      PROVE  [Survives]_vars
  <2> SUFFICES ASSUME NEW p \in Paths, files[p].origin = "outside", files'[p] # files[p], worker # worker'
               PROVE  files[p].ver \in agreed \/ files[p].ver # worker.seen
    OBVIOUS
  <2>1. Next /\ WorkspaceTypes
    BY <1>1 DEF vars, WorkspaceInv, AnswerInv
  <2>2. CASE FileReplaced(p)
    BY <1>1, <2>2 DEF FileReplaced, WorkspaceInv, DiskInv, WorkerChecked, ExpectedAgreed
  <2>3. ~FileMarked(p)
    <3>1. SUFFICES ASSUME FileMarked(p) PROVE FALSE
      OBVIOUS
    <3>2. PICK r \in Requests, v \in Nat : Wrote(r, v) /\ r.path = p /\ v = files[p].ver
      BY <2>1, <3>1, FinishedWrote DEF FileMarked
    <3> QED
      BY <1>1, <3>2 DEF WorkspaceInv, DiskInv, WrittenOnDisk, IsOn
  <2>4. ~FileDeleted(p) /\ ~FileWritten(p)
    BY DEF FileWritten, FileDeleted
  <2> QED
    BY <2>1, <2>2, <2>3, <2>4, FileMoves
<1> QED
  BY <1>1, WorkspaceInvariant, PTL DEF Spec, OutsideEditsSurvive

LEMMA IdleHasNoStep ==
    ASSUME AnswerInv, NEW w, NEW j, NEW s, s.busy <=> stack.busy, ~HasUnsavedChanges(w, j, s)
    PROVE  /\ view.gesture = "none" /\ inflight = <<>> /\ step = None /\ exec.content = w.hash
           /\ j = None
BY
   DEF AnswerInv, Tokens, BusyIsStep, HasUnsavedChanges, IsModified, SnapshotReady,
       HasUnacknowledgedOperations

(* A tab that closes by itself or after its save took nothing with it: no     *)
(* gesture, operation or undo was under way, and the file holds what the      *)
(* session acknowledged unless something else has replaced it                 *)
(* (closeWorkspaceGentlyV, tryCompleteSaveAcknowledgement).                   *)
THEOREM ClosedMeansSavedTheorem == Spec => ClosedMeansSaved
<1> DEFINE Closes ==
             tab = "open" /\ tab' = "saved" =>
                /\ view.gesture = "none" /\ inflight = <<>> /\ step = None
                /\ LET file == files[ws'.path] IN file.origin = "saved" => file.content = exec.content
<1>1. ASSUME WorkspaceInv, [Next]_vars
      PROVE  [Closes]_vars
  <2> SUFFICES ASSUME tab = "open", tab' = "saved"
               PROVE  /\ view.gesture = "none" /\ inflight = <<>> /\ step = None
                      /\ files[ws'.path].origin = "saved" => files[ws'.path].content = exec.content
    OBVIOUS
  <2>1. Next /\ WorkspaceTypes /\ AnswerInv /\ SaveTokens /\ DiskInv /\ stack \in Stacks
    BY <1>1 DEF vars, WorkspaceInv, AnswerInv, WorkspaceTypes, HistoryTypes
  <2>2. CASE CloseTab
    <3>1. ~HasUnsavedChanges(ws, job, stack) /\ ws' = ws
      BY <2>2 DEF CloseTab
    <3>2. view.gesture = "none" /\ inflight = <<>> /\ step = None /\ exec.content = ws.hash /\ job = None
      BY <2>1, <3>1, IdleHasNoStep
    <3>3. \A r, v : ~Wrote(r, v)
      BY <2>1, <3>2 DEF SaveTokens, SaveIsKnown, NoSaved, Wrote
    <3> QED
      BY <2>1, <3>1, <3>2, <3>3 DEF DiskInv, SavedIsTab
  <2>3. CASE FinishSave
    <3>1. PICK request \in Requests, result \in Results :
             /\ Head(later).request = request /\ Head(later).result = result /\ result.ver \in Nat
             /\ job # None /\ result.outcome = "saved" /\ FinishSaved(job, request, result.ver)
      BY <2>1, <2>3, FinishCases DEF FinishFailed
    <3>2. PICK v \in Nat : v = result.ver
      BY <3>1
    <3>3. PICK w \in Tabs :
             /\ w = SavedWorkspace(request, v) /\ ws' = w
             /\ ~HasUnsavedChanges(w, None, ForceBalance(stack))
      BY <2>1, <3>1, <3>2, FinishSavedCases
    <3>4. ForceBalance(stack).busy = stack.busy
      BY <2>1, ForceBalanceResult DEF IsStack
    <3>5. view.gesture = "none" /\ inflight = <<>> /\ step = None /\ exec.content = w.hash
      BY <2>1, <3>3, <3>4, IdleHasNoStep
    <3>6. Wrote(request, v)
      BY <2>1, <2>3, <3>1, <3>2, FinishedWrote
    <3>7. w.path = request.path /\ w.hash = request.content
      BY <3>3, SavedWorkspaceTypes
    <3> QED
      BY <2>1, <3>3, <3>5, <3>6, <3>7 DEF DiskInv, WrittenOnDisk, IsOn
  <2>4. CASE ~CloseTab /\ ~FinishSave
    <3>1. UNCHANGED tab \/ \E d \in dialogs : CloseDiscarding(d)
      <4> USE DEF history, saving, disk
      <4> QED
        BY <2>1, <2>4
           DEF Next, Environment, User, Background, UIThread, Settle, RemoteEdit, OutsideWrite,
               BeginGesture,
           CommitOperation, Reattach, BeginHistoryStep, Save, SaveAs, ConfirmReplace, ConfirmOverwrite, CancelDialog,
           CloseSaving, HistoryWaitOver, PrepareHistoryInverse, WorkerStage, WorkerCheck, WorkerReplace, WorkerVerify,
           WorkerCaptureConflict, ProcessCollaborationUpdates, RunHistoryWaited, RunHistoryInverse, RunEditOutcome,
           RunHistoryOutcome
    <3> QED
      BY <3>1 DEF CloseDiscarding, Dispose
  <2> QED
    BY <2>2, <2>3, <2>4
<1> QED
  BY <1>1, WorkspaceInvariant, PTL DEF Spec, ClosedMeansSaved

-----------------------------------------------------------------------------------
(***************************************************************************)
(* The undo history of a map tab matches the document of the session, for   *)
(* any number of edits, undos, redos and disturbances.                      *)
(*                                                                         *)
(* The argument follows one edit.  Its operation is in flight, then its      *)
(* outcome is a closure, then its command is queued, to undo or to redo: it  *)
(* is in one of these places, and where it is says whether the session       *)
(* shows it, but for the outcome of an undo or redo that the UI thread has   *)
(* not run yet.  History states this of the places as values, so that each   *)
(* move of an edit is a lemma about sequences; HistoryInv states it of the   *)
(* tab, and the actions that move nothing are Quiet.                         *)
(***************************************************************************)

(* An edit in a sequence of commands, of operations and of closures. *)
Has(s, e) == \E i \in 1 .. Len(s) : s[i].id = e

HasEdit(s, e) == \E i \in 1 .. Len(s) : s[i].kind = "edit" /\ s[i].edit = e

IsOutcome(c, k, e, ok) == c.kind = "outcome" /\ c.op.kind = k /\ c.op.edit = e /\ c.ok = ok

HasOutcome(s, k, e, ok) == \E i \in 1 .. Len(s) : IsOutcome(s[i], k, e, ok)

IsEdit(c) == c.kind = "outcome" /\ c.op.kind = "edit"

Waiting(s, e) == HasOutcome(s, "edit", e, TRUE) \/ HasOutcome(s, "edit", e, FALSE)

(* It is there once. *)
Distinct(s) == \A i, j \in 1 .. Len(s) : s[i].id = s[j].id => i = j

DistinctEdits(s) ==
    \A i, j \in 1 .. Len(s) : s[i].kind = "edit" /\ s[j].kind = "edit" /\ s[i].edit = s[j].edit => i = j

DistinctOutcomes(s) ==
    \A i, j \in 1 .. Len(s) : IsEdit(s[i]) /\ IsEdit(s[j]) /\ s[i].op.edit = s[j].op.edit => i = j

(* The edits of an attachment are those made since it began. *)
Era == [edits |-> used.edits, gen |-> view.gen, since |-> view.since]

Eras == [edits : Nat, gen : Nat, since : Nat]

Fits(id, gen, era) == id \in 1 .. era.edits /\ gen <= era.gen /\ (gen = era.gen <=> id > era.since)

CommandsFit(s, era) == \A i \in 1 .. Len(s) : Fits(s[i].id, s[i].gen, era)

OperationsFit(s, era) == \A i \in 1 .. Len(s) : Fits(s[i].edit, s[i].gen, era)

OutcomesFit(s, era) == \A i \in 1 .. Len(s) : s[i].kind = "outcome" => Fits(s[i].op.edit, s[i].op.gen, era)

(* An edit of the session: with commands u to undo, r to redo and q queued,   *)
(* operations f in flight and closures l.  It is in one place,                *)
Apart(e, u, r, q, f, l) ==
    /\ Has(u, e) => ~Has(r, e) /\ ~Has(q, e) /\ ~Waiting(l, e) /\ ~HasEdit(f, e)
    /\ Has(r, e) => ~Has(q, e) /\ ~Waiting(l, e) /\ ~HasEdit(f, e)
    /\ Has(q, e) => ~Waiting(l, e) /\ ~HasEdit(f, e)
    /\ Waiting(l, e) => ~HasEdit(f, e)

(* and its place says whether the document shows it, unless its tile was taken. *)
Shown(e, u, r, q, f, l, content, taken) ==
    /\ Has(u, e) => e \in content \cup taken \/ HasOutcome(l, "undo", e, TRUE)
    /\ Has(r, e) => e \notin content \/ HasOutcome(l, "redo", e, TRUE)
    /\ Has(q, e) \/ HasOutcome(l, "edit", e, TRUE) \/ HasOutcome(l, "redo", e, TRUE) => e \in content \cup taken
    /\ HasEdit(f, e) \/ HasOutcome(l, "edit", e, FALSE) \/ HasOutcome(l, "undo", e, TRUE) => e \notin content
    /\ e \in content => Has(u, e) \/ Has(r, e) \/ Has(q, e) \/ HasEdit(f, e) \/ Waiting(l, e)

Places(u, r, q, f, l) ==
    /\ Distinct(u) /\ Distinct(r) /\ Distinct(q) /\ DistinctEdits(f) /\ DistinctOutcomes(l)
    /\ \A e \in Nat : Apart(e, u, r, q, f, l)

Fit(u, r, q, f, l, era) ==
    /\ CommandsFit(u, era) /\ CommandsFit(r, era) /\ CommandsFit(q, era)
    /\ OperationsFit(f, era) /\ OutcomesFit(l, era)

Numbered(content, taken, era) ==
    /\ \A e \in content \cup taken : e <= era.edits
    /\ era.since <= era.edits

Document(u, r, q, f, l, content, taken, era) ==
    \A e \in Nat : era.since < e => Shown(e, u, r, q, f, l, content, taken)

History(u, r, q, f, l, content, taken, era) ==
    /\ Places(u, r, q, f, l)
    /\ Fit(u, r, q, f, l, era)
    /\ Numbered(content, taken, era)
    /\ Document(u, r, q, f, l, content, taken, era)

(* The places of an edit, when a sequence grows or shrinks at an end. *)
LEMMA HasEmpty == \A e : ~Has(<<>>, e)
BY DEF Has

LEMMA HasAppended ==
    ASSUME NEW s \in Seq(Commands), NEW c \in Commands
    PROVE  \A e : Has(Append(s, c), e) <=> Has(s, e) \/ c.id = e
<1>1. SUFFICES ASSUME NEW e PROVE Has(Append(s, c), e) <=> Has(s, e) \/ c.id = e
  OBVIOUS
<1>2. ASSUME Has(Append(s, c), e) PROVE Has(s, e) \/ c.id = e
  BY <1>2, AppendOne DEF Has
<1>3. ASSUME Has(s, e) PROVE Has(Append(s, c), e)
  BY <1>3, AppendOne DEF Has
<1>4. ASSUME c.id = e PROVE Has(Append(s, c), e)
  BY <1>4, AppendOne DEF Has
<1> QED BY <1>2, <1>3, <1>4

LEMMA DistinctAppended ==
    ASSUME NEW s \in Seq(Commands), NEW c \in Commands, Distinct(s), ~Has(s, c.id)
    PROVE  Distinct(Append(s, c))
BY AppendOne DEF Distinct, Has

LEMMA FitAppended ==
    ASSUME NEW era, NEW s \in Seq(Commands), NEW c \in Commands, CommandsFit(s, era), Fits(c.id, c.gen, era)
    PROVE  CommandsFit(Append(s, c), era)
BY AppendOne DEF CommandsFit

LEMMA FrontOne ==
    ASSUME NEW S, NEW s \in Seq(S), s # <<>>
    PROVE  /\ Front(s) \in Seq(S) /\ Len(Front(s)) = Len(s) - 1 /\ Len(s) \in Nat /\ Len(s) > 0
           /\ \A i \in 1 .. Len(Front(s)) : i \in 1 .. Len(s) /\ i # Len(s) /\ Front(s)[i] = s[i]
           /\ \A i \in 1 .. Len(s) : i # Len(s) => i \in 1 .. Len(Front(s)) /\ Front(s)[i] = s[i]
           /\ Last(s) = s[Len(s)] /\ Len(s) \in 1 .. Len(s) /\ Last(s) \in S
<1>1. Len(s) \in Nat /\ Len(s) > 0 /\ Len(s) \in 1 .. Len(s)
  OBVIOUS
<1>2. Last(s) = s[Len(s)] /\ Last(s) \in S
  BY <1>1 DEF Last
<1>3. Front(s) \in Seq(S) /\ Len(Front(s)) = Len(s) - 1
  <2>0. PICK n \in Nat : n = Len(s) - 1
    BY <1>1
  <2>1. Len(SubSeq(s, 1, n)) = n
    BY <2>0
  <2> QED BY <2>0, <2>1, FrontTypes DEF Front
<1>4. ASSUME NEW i \in 1 .. Len(s) - 1 PROVE i \in 1 .. Len(s) /\ i # Len(s) /\ Front(s)[i] = s[i]
  BY <1>1, <1>4 DEF Front
<1>5. \A i \in 1 .. Len(s) : i # Len(s) => i \in 1 .. Len(s) - 1
  BY <1>1
<1> QED BY <1>1, <1>2, <1>3, <1>4, <1>5

LEMMA HasFront ==
    ASSUME NEW era, NEW s \in Seq(Commands), s # <<>>, Distinct(s)
    PROVE  /\ \A e : Has(Front(s), e) <=> Has(s, e) /\ e # Last(s).id
           /\ Distinct(Front(s)) /\ Has(s, Last(s).id)
           /\ CommandsFit(s, era) => CommandsFit(Front(s), era) /\ Fits(Last(s).id, Last(s).gen, era)
<1>0. /\ \A i \in 1 .. Len(Front(s)) : i \in 1 .. Len(s) /\ i # Len(s) /\ Front(s)[i] = s[i]
      /\ \A i \in 1 .. Len(s) : i # Len(s) => i \in 1 .. Len(Front(s)) /\ Front(s)[i] = s[i]
      /\ Last(s) = s[Len(s)] /\ Len(s) \in 1 .. Len(s)
  BY FrontOne
<1>1. ASSUME NEW e PROVE Has(Front(s), e) <=> Has(s, e) /\ e # Last(s).id
  <2>1. ASSUME Has(Front(s), e) PROVE Has(s, e) /\ e # Last(s).id
    BY <2>1, <1>0 DEF Has, Distinct
  <2>2. ASSUME Has(s, e), e # Last(s).id PROVE Has(Front(s), e)
    BY <2>2, <1>0 DEF Has
  <2> QED BY <2>1, <2>2
<1>2. Distinct(Front(s)) BY <1>0 DEF Distinct
<1>3. Has(s, Last(s).id) BY <1>0 DEF Has
<1>4. CommandsFit(s, era) => CommandsFit(Front(s), era) BY <1>0 DEF CommandsFit
<1>5. CommandsFit(s, era) => Fits(Last(s).id, Last(s).gen, era) BY <1>0 DEF CommandsFit
<1> QED BY <1>1, <1>2, <1>3, <1>4, <1>5

LEMMA JoinedSequences ==
    ASSUME NEW S, NEW s \in Seq(S), NEW t \in Seq(S)
    PROVE  /\ s \o t \in Seq(S) /\ Len(s \o t) = Len(s) + Len(t) /\ Len(s) \in Nat /\ Len(t) \in Nat
           /\ \A i \in 1 .. Len(s) : i \in 1 .. Len(s \o t) /\ (s \o t)[i] = s[i]
           /\ \A i \in 1 .. Len(t) : Len(s) + i \in 1 .. Len(s \o t) /\ (s \o t)[Len(s) + i] = t[i]
           /\ \A i \in 1 .. Len(s \o t) :
                 \/ i \in 1 .. Len(s)
                 \/ i - Len(s) \in 1 .. Len(t) /\ (s \o t)[i] = t[i - Len(s)]
OBVIOUS

LEMMA HasJoined ==
    ASSUME NEW era, NEW s \in Seq(Commands), NEW t \in Seq(Commands)
    PROVE  /\ \A e : Has(s \o t, e) <=> Has(s, e) \/ Has(t, e)
           /\ CommandsFit(s, era) /\ CommandsFit(t, era) => CommandsFit(s \o t, era)
<1>1. ASSUME NEW e PROVE Has(s \o t, e) <=> Has(s, e) \/ Has(t, e)
  <2>1. ASSUME Has(s \o t, e) PROVE Has(s, e) \/ Has(t, e)
    BY <2>1, JoinedSequences DEF Has
  <2>2. ASSUME Has(s, e) PROVE Has(s \o t, e)
    BY <2>2, JoinedSequences DEF Has
  <2>3. ASSUME Has(t, e) PROVE Has(s \o t, e)
    BY <2>3, JoinedSequences DEF Has
  <2> QED BY <2>1, <2>2, <2>3
<1>2. ASSUME CommandsFit(s, era), CommandsFit(t, era) PROVE CommandsFit(s \o t, era)
  BY <1>2, JoinedSequences DEF CommandsFit
<1> QED BY <1>1, <1>2

LEMMA DistinctJoined ==
    ASSUME NEW s \in Seq(Commands), NEW t \in Seq(Commands), Distinct(s), Distinct(t),
           \A e \in Nat : ~(Has(s, e) /\ Has(t, e))
    PROVE  Distinct(s \o t)
<1>1. SUFFICES ASSUME NEW i \in 1 .. Len(s \o t), NEW j \in 1 .. Len(s \o t), (s \o t)[i].id = (s \o t)[j].id
               PROVE  i = j
  BY DEF Distinct
<1>2. CASE i \in 1 .. Len(s) /\ j \in 1 .. Len(s)
  BY <1>1, <1>2, JoinedSequences DEF Distinct
<1>3. CASE i \notin 1 .. Len(s) /\ j \notin 1 .. Len(s)
  <2>1. i - Len(s) \in 1 .. Len(t) /\ j - Len(s) \in 1 .. Len(t)
        /\ (s \o t)[i] = t[i - Len(s)] /\ (s \o t)[j] = t[j - Len(s)]
    BY <1>1, <1>3, JoinedSequences
  <2>2. i - Len(s) = j - Len(s)
    BY <1>1, <2>1 DEF Distinct
  <2> QED BY <2>2, JoinedSequences
<1>4. ASSUME NEW k \in 1 .. Len(s \o t), NEW l \in 1 .. Len(s \o t), k \in 1 .. Len(s), l \notin 1 .. Len(s),
             (s \o t)[k].id = (s \o t)[l].id
      PROVE  FALSE
  <2>1. l - Len(s) \in 1 .. Len(t) /\ (s \o t)[l] = t[l - Len(s)] /\ (s \o t)[k] = s[k]
    BY <1>4, JoinedSequences
  <2>2. s[k] \in Commands
    BY <1>4
  <2>3. s[k].id \in Nat
    BY <2>2 DEF Commands
  <2> QED BY <1>4, <2>1, <2>3 DEF Has
<1> QED BY <1>1, <1>2, <1>3, <1>4

LEMMA EditsAppended ==
    ASSUME NEW era, NEW s \in Seq(Operations), NEW op \in Operations
    PROVE  /\ \A e : HasEdit(Append(s, op), e) <=> HasEdit(s, e) \/ (op.kind = "edit" /\ op.edit = e)
           /\ DistinctEdits(s) /\ (op.kind = "edit" => ~HasEdit(s, op.edit)) => DistinctEdits(Append(s, op))
           /\ OperationsFit(s, era) /\ Fits(op.edit, op.gen, era) => OperationsFit(Append(s, op), era)
<1>0. PICK t : t = Append(s, op)
  OBVIOUS
<1>1. /\ Len(t) = Len(s) + 1 /\ Len(s) \in Nat
      /\ \A i \in 1 .. Len(s) : i \in 1 .. Len(t) /\ t[i] = s[i]
      /\ Len(s) + 1 \in 1 .. Len(t) /\ t[Len(s) + 1] = op
      /\ \A i \in 1 .. Len(t) : i \in 1 .. Len(s) \/ i = Len(s) + 1
  BY <1>0, AppendOne
<1>2. ASSUME NEW e PROVE HasEdit(t, e) <=> HasEdit(s, e) \/ (op.kind = "edit" /\ op.edit = e)
  <2>1. ASSUME HasEdit(t, e) PROVE HasEdit(s, e) \/ (op.kind = "edit" /\ op.edit = e)
    BY <1>1, <2>1 DEF HasEdit
  <2>2. ASSUME HasEdit(s, e) PROVE HasEdit(t, e)
    BY <1>1, <2>2 DEF HasEdit
  <2>3. ASSUME op.kind = "edit", op.edit = e PROVE HasEdit(t, e)
    BY <1>1, <2>3 DEF HasEdit
  <2> QED BY <2>1, <2>2, <2>3
<1>3. ASSUME DistinctEdits(s), op.kind = "edit" => ~HasEdit(s, op.edit) PROVE DistinctEdits(t)
  BY <1>1, <1>3 DEF DistinctEdits, HasEdit
<1>4. ASSUME OperationsFit(s, era), Fits(op.edit, op.gen, era) PROVE OperationsFit(t, era)
  BY <1>1, <1>4 DEF OperationsFit
<1> QED BY <1>0, <1>2, <1>3, <1>4

LEMMA EditsTaken ==
    ASSUME NEW era, NEW s \in Seq(Operations), s # <<>>
    PROVE  /\ \A e : HasEdit(s, e) <=> HasEdit(Tail(s), e) \/ (Head(s).kind = "edit" /\ Head(s).edit = e)
           /\ DistinctEdits(s) => /\ DistinctEdits(Tail(s))
                                  /\ Head(s).kind = "edit" => ~HasEdit(Tail(s), Head(s).edit)
           /\ OperationsFit(s, era) => OperationsFit(Tail(s), era) /\ Fits(Head(s).edit, Head(s).gen, era)
<1>0. PICK t : t = Tail(s)
  OBVIOUS
<1>1. /\ Head(s) = s[1] /\ 1 \in 1 .. Len(s) /\ Len(s) \in Nat /\ Len(t) = Len(s) - 1
      /\ \A i \in 1 .. Len(t) : i + 1 \in 1 .. Len(s) /\ t[i] = s[i + 1]
      /\ \A i \in 1 .. Len(s) : i # 1 => i - 1 \in 1 .. Len(t) /\ t[i - 1] = s[i]
  BY <1>0, HeadTail
<1>2. ASSUME NEW e PROVE HasEdit(s, e) <=> HasEdit(t, e) \/ (Head(s).kind = "edit" /\ Head(s).edit = e)
  <2>1. ASSUME HasEdit(s, e) PROVE HasEdit(t, e) \/ (Head(s).kind = "edit" /\ Head(s).edit = e)
    <3>1. PICK i \in 1 .. Len(s) : s[i].kind = "edit" /\ s[i].edit = e
      BY <2>1 DEF HasEdit
    <3> QED BY <1>1, <3>1 DEF HasEdit
  <2>2. ASSUME HasEdit(t, e) PROVE HasEdit(s, e)
    BY <1>1, <2>2 DEF HasEdit
  <2>3. ASSUME Head(s).kind = "edit", Head(s).edit = e PROVE HasEdit(s, e)
    BY <1>1, <2>3 DEF HasEdit
  <2> QED BY <2>1, <2>2, <2>3
<1>3. ASSUME DistinctEdits(s) PROVE DistinctEdits(t)
  <2>1. SUFFICES ASSUME NEW i \in 1 .. Len(t), NEW j \in 1 .. Len(t), t[i].kind = "edit", t[j].kind = "edit",
                        t[i].edit = t[j].edit
                 PROVE  i = j
    BY DEF DistinctEdits
  <2>2. i + 1 = j + 1
    BY <1>1, <1>3, <2>1 DEF DistinctEdits
  <2> QED BY <2>2
<1>4. ASSUME DistinctEdits(s), Head(s).kind = "edit", HasEdit(t, Head(s).edit) PROVE FALSE
  <2>1. PICK i \in 1 .. Len(t) : t[i].kind = "edit" /\ t[i].edit = Head(s).edit
    BY <1>4 DEF HasEdit
  <2>2. i + 1 = 1
    BY <1>1, <1>4, <2>1 DEF DistinctEdits
  <2> QED BY <2>2
<1>5. ASSUME OperationsFit(s, era) PROVE OperationsFit(t, era) /\ Fits(Head(s).edit, Head(s).gen, era)
  BY <1>1, <1>5 DEF OperationsFit
<1> QED BY <1>0, <1>2, <1>3, <1>4, <1>5

LEMMA OutcomesAppended ==
    ASSUME NEW era, NEW s \in Seq(Closures), NEW c \in Closures
    PROVE  /\ \A k, e, ok : HasOutcome(Append(s, c), k, e, ok) <=> HasOutcome(s, k, e, ok) \/ IsOutcome(c, k, e, ok)
           /\ DistinctOutcomes(s) /\ (IsEdit(c) => \A ok \in BOOLEAN : ~HasOutcome(s, "edit", c.op.edit, ok))
                 => DistinctOutcomes(Append(s, c))
           /\ OutcomesFit(s, era) /\ (c.kind = "outcome" => Fits(c.op.edit, c.op.gen, era)) => OutcomesFit(Append(s, c), era)
<1>0. PICK t : t = Append(s, c)
  OBVIOUS
<1>1. /\ Len(t) = Len(s) + 1 /\ Len(s) \in Nat
      /\ \A i \in 1 .. Len(s) : i \in 1 .. Len(t) /\ t[i] = s[i]
      /\ Len(s) + 1 \in 1 .. Len(t) /\ t[Len(s) + 1] = c
      /\ \A i \in 1 .. Len(t) : i \in 1 .. Len(s) \/ i = Len(s) + 1
  BY <1>0, AppendOne
<1>2. ASSUME NEW k, NEW e, NEW ok
      PROVE  HasOutcome(t, k, e, ok) <=> HasOutcome(s, k, e, ok) \/ IsOutcome(c, k, e, ok)
  <2>1. ASSUME HasOutcome(t, k, e, ok) PROVE HasOutcome(s, k, e, ok) \/ IsOutcome(c, k, e, ok)
    BY <1>1, <2>1 DEF HasOutcome
  <2>2. ASSUME HasOutcome(s, k, e, ok) PROVE HasOutcome(t, k, e, ok)
    BY <1>1, <2>2 DEF HasOutcome
  <2>3. ASSUME IsOutcome(c, k, e, ok) PROVE HasOutcome(t, k, e, ok)
    BY <1>1, <2>3 DEF HasOutcome
  <2> QED BY <2>1, <2>2, <2>3
<1>3. ASSUME DistinctOutcomes(s), IsEdit(c) => \A ok \in BOOLEAN : ~HasOutcome(s, "edit", c.op.edit, ok)
      PROVE  DistinctOutcomes(t)
  <2>1. ASSUME NEW i \in 1 .. Len(s), IsEdit(s[i]), IsEdit(c), s[i].op.edit = c.op.edit PROVE FALSE
    <3>1. s[i] \in Closures
      BY <2>1
    <3>2. s[i].ok \in BOOLEAN
      BY <2>1, <3>1, ClosureKinds DEF IsEdit
    <3>3. HasOutcome(s, "edit", c.op.edit, s[i].ok)
      BY <2>1 DEF HasOutcome, IsOutcome, IsEdit
    <3> QED BY <1>3, <2>1, <3>2, <3>3
  <2> QED BY <1>1, <1>3, <2>1 DEF DistinctOutcomes
<1>4. ASSUME OutcomesFit(s, era), c.kind = "outcome" => Fits(c.op.edit, c.op.gen, era)
      PROVE  OutcomesFit(t, era)
  BY <1>1, <1>4 DEF OutcomesFit
<1> QED BY <1>0, <1>2, <1>3, <1>4

LEMMA OutcomesTaken ==
    ASSUME NEW era, NEW s \in Seq(Closures), s # <<>>
    PROVE  /\ \A k, e, ok : HasOutcome(s, k, e, ok) <=> HasOutcome(Tail(s), k, e, ok) \/ IsOutcome(Head(s), k, e, ok)
           /\ DistinctOutcomes(s) =>
                 /\ DistinctOutcomes(Tail(s))
                 /\ IsEdit(Head(s)) => \A ok : ~HasOutcome(Tail(s), "edit", Head(s).op.edit, ok)
           /\ OutcomesFit(s, era) => /\ OutcomesFit(Tail(s), era)
                                     /\ Head(s).kind = "outcome" => Fits(Head(s).op.edit, Head(s).op.gen, era)
<1>0. PICK t : t = Tail(s)
  OBVIOUS
<1>1. /\ Head(s) = s[1] /\ 1 \in 1 .. Len(s) /\ Len(s) \in Nat /\ Len(t) = Len(s) - 1
      /\ \A i \in 1 .. Len(t) : i + 1 \in 1 .. Len(s) /\ t[i] = s[i + 1]
      /\ \A i \in 1 .. Len(s) : i # 1 => i - 1 \in 1 .. Len(t) /\ t[i - 1] = s[i]
  BY <1>0, HeadTail
<1>2. ASSUME NEW k, NEW e, NEW ok
      PROVE  HasOutcome(s, k, e, ok) <=> HasOutcome(t, k, e, ok) \/ IsOutcome(Head(s), k, e, ok)
  <2>1. ASSUME HasOutcome(s, k, e, ok) PROVE HasOutcome(t, k, e, ok) \/ IsOutcome(Head(s), k, e, ok)
    <3>1. PICK i \in 1 .. Len(s) : IsOutcome(s[i], k, e, ok)
      BY <2>1 DEF HasOutcome
    <3> QED BY <1>1, <3>1 DEF HasOutcome
  <2>2. ASSUME HasOutcome(t, k, e, ok) PROVE HasOutcome(s, k, e, ok)
    BY <1>1, <2>2 DEF HasOutcome
  <2>3. ASSUME IsOutcome(Head(s), k, e, ok) PROVE HasOutcome(s, k, e, ok)
    BY <1>1, <2>3 DEF HasOutcome
  <2> QED BY <2>1, <2>2, <2>3
<1>3. ASSUME DistinctOutcomes(s) PROVE DistinctOutcomes(t)
  <2>1. SUFFICES ASSUME NEW i \in 1 .. Len(t), NEW j \in 1 .. Len(t), IsEdit(t[i]), IsEdit(t[j]),
                        t[i].op.edit = t[j].op.edit
                 PROVE  i = j
    BY DEF DistinctOutcomes
  <2>2. i + 1 = j + 1
    BY <1>1, <1>3, <2>1 DEF DistinctOutcomes
  <2> QED BY <2>2
<1>4. ASSUME DistinctOutcomes(s), IsEdit(Head(s)), NEW ok, HasOutcome(t, "edit", Head(s).op.edit, ok)
      PROVE  FALSE
  <2>1. PICK i \in 1 .. Len(t) : IsEdit(t[i]) /\ t[i].op.edit = Head(s).op.edit
    BY <1>4 DEF HasOutcome, IsOutcome, IsEdit
  <2>2. i + 1 = 1
    BY <1>1, <1>4, <2>1 DEF DistinctOutcomes
  <2> QED BY <2>2
<1>5. ASSUME OutcomesFit(s, era)
      PROVE  OutcomesFit(t, era) /\ (Head(s).kind = "outcome" => Fits(Head(s).op.edit, Head(s).op.gen, era))
  BY <1>1, <1>5 DEF OutcomesFit
<1> QED BY <1>0, <1>2, <1>3, <1>4, <1>5

(* Closures with the same outcomes. *)
LEMMA HistoryCarried ==
    ASSUME NEW u \in Seq(Commands), NEW r \in Seq(Commands), NEW q \in Seq(Commands),
           NEW f \in Seq(Operations), NEW l \in Seq(Closures), NEW content \in SUBSET Int,
           NEW taken \in SUBSET Int, NEW era \in Eras, History(u, r, q, f, l, content, taken, era),
           NEW m \in Seq(Closures), \A k, e, ok : HasOutcome(m, k, e, ok) <=> HasOutcome(l, k, e, ok),
           DistinctOutcomes(m), OutcomesFit(m, era)
    PROVE  History(u, r, q, f, m, content, taken, era)
<1>1. Places(u, r, q, f, m)
  BY DEF History, Places, Apart, Waiting
<1>2. Document(u, r, q, f, m, content, taken, era)
  BY DEF History, Document, Shown, Waiting
<1> QED BY <1>1, <1>2 DEF History, Fit

(* A closure of another kind is handed over, *)
LEMMA HistoryOtherAdded ==
    ASSUME NEW u \in Seq(Commands), NEW r \in Seq(Commands), NEW q \in Seq(Commands),
           NEW f \in Seq(Operations), NEW l \in Seq(Closures), NEW content \in SUBSET Int,
           NEW taken \in SUBSET Int, NEW era \in Eras, History(u, r, q, f, l, content, taken, era),
           NEW c \in Closures, c.kind # "outcome"
    PROVE  History(u, r, q, f, Append(l, c), content, taken, era)
<1>0. PICK m \in Seq(Closures) : m = Append(l, c)
  BY AppendOne
<1>1. \A k, e, ok : HasOutcome(m, k, e, ok) <=> HasOutcome(l, k, e, ok)
  BY <1>0, OutcomesAppended DEF IsOutcome
<1>2. DistinctOutcomes(m) /\ OutcomesFit(m, era)
  BY <1>0, OutcomesAppended DEF History, Places, Fit, IsEdit
<1> QED BY <1>0, <1>1, <1>2, HistoryCarried

(* or run. *)
LEMMA HistoryOtherRun ==
    ASSUME NEW u \in Seq(Commands), NEW r \in Seq(Commands), NEW q \in Seq(Commands),
           NEW f \in Seq(Operations), NEW l \in Seq(Closures), NEW content \in SUBSET Int,
           NEW taken \in SUBSET Int, NEW era \in Eras, History(u, r, q, f, l, content, taken, era),
           l # <<>>, Head(l).kind # "outcome"
    PROVE  History(u, r, q, f, Tail(l), content, taken, era)
<1>0. PICK m \in Seq(Closures) : m = Tail(l)
  BY HeadTail
<1>1. \A k, e, ok : HasOutcome(m, k, e, ok) <=> HasOutcome(l, k, e, ok)
  BY <1>0, OutcomesTaken DEF IsOutcome
<1>2. DistinctOutcomes(m) /\ OutcomesFit(m, era)
  <2>1. DistinctOutcomes(l) /\ OutcomesFit(l, era)
    BY DEF History, Places, Fit
  <2>2. DistinctOutcomes(Tail(l))
    BY <2>1, OutcomesTaken
  <2>3. OutcomesFit(Tail(l), era)
    BY <2>1, OutcomesTaken
  <2> QED BY <1>0, <2>2, <2>3
<1> QED BY <1>0, <1>1, <1>2, HistoryCarried

(* The session answers an edit, *)
LEMMA HistoryEditSettled ==
    ASSUME NEW u \in Seq(Commands), NEW r \in Seq(Commands), NEW q \in Seq(Commands),
           NEW f \in Seq(Operations), NEW l \in Seq(Closures), NEW content \in SUBSET Int,
           NEW taken \in SUBSET Int, NEW era \in Eras, History(u, r, q, f, l, content, taken, era),
           f # <<>>, Head(f).kind = "edit", NEW ok \in BOOLEAN,
           \A k \in BOOLEAN : ~HasOutcome(l, "undo", Head(f).edit, k) /\ ~HasOutcome(l, "redo", Head(f).edit, k),
           ok => Head(f).edit \notin content \cup taken,
           NEW c \in Closures, c = [kind |-> "outcome", op |-> Head(f), ok |-> ok],
           NEW after, after = IF ok THEN content \cup {Head(f).edit} ELSE content
    PROVE  History(u, r, q, Tail(f), Append(l, c), after, taken, era)
<1>h. /\ Places(u, r, q, f, l) /\ Fit(u, r, q, f, l, era)
      /\ Numbered(content, taken, era) /\ Document(u, r, q, f, l, content, taken, era)
  BY DEF History
<1>a. Tail(f) \in Seq(Operations) /\ Head(f) \in Operations
  BY HeadTail
<1>b. Append(l, c) \in Seq(Closures)
  BY AppendOne
<1>0. PICK g : g \in Seq(Operations) /\ g = Tail(f)
  BY <1>a
<1>1. PICK m : m \in Seq(Closures) /\ m = Append(l, c)
  BY <1>b
<1>c. Head(f).edit \in Nat
  BY <1>a DEF Operations
<1>2. PICK e0 : e0 \in Nat /\ e0 = Head(f).edit
  BY <1>c
<1>3. /\ \A e : HasEdit(f, e) <=> HasEdit(g, e) \/ e = e0
      /\ DistinctEdits(g) /\ OperationsFit(g, era) /\ Fits(e0, Head(f).gen, era)
      /\ ~HasEdit(g, e0)
  BY <1>h, <1>0, <1>2, EditsTaken DEF Places, Fit
<1>4. /\ c.kind = "outcome" /\ c.op = Head(f) /\ c.ok = ok /\ c.op.kind = "edit" /\ c.op.edit = e0
      /\ IsEdit(c)
  BY <1>2 DEF IsEdit
<1>5. HasEdit(f, e0) /\ ~Has(u, e0) /\ ~Has(r, e0) /\ ~Has(q, e0) /\ ~Waiting(l, e0)
  <2>1. HasEdit(f, e0) /\ Apart(e0, u, r, q, f, l)
    BY <1>h, <1>2, <1>3 DEF Places
  <2> QED BY <2>1 DEF Apart
<1>6. \A k, e, b : HasOutcome(m, k, e, b) <=> HasOutcome(l, k, e, b) \/ (k = "edit" /\ e = e0 /\ b = ok)
  <2>1. \A k, e, b : HasOutcome(m, k, e, b) <=> HasOutcome(l, k, e, b) \/ IsOutcome(c, k, e, b)
    BY <1>1, OutcomesAppended
  <2>2. \A k, e, b : IsOutcome(c, k, e, b) <=> c.op.kind = k /\ e0 = e /\ ok = b
    BY <1>4 DEF IsOutcome
  <2> QED BY <1>4, <2>1, <2>2
<1>7. DistinctOutcomes(m)
  BY <1>h, <1>1, <1>4, <1>5, OutcomesAppended DEF Places, Waiting
<1>8. OutcomesFit(m, era)
  BY <1>h, <1>1, <1>3, <1>4, OutcomesAppended DEF Fit
<1>9. \A e : Waiting(m, e) <=> Waiting(l, e) \/ e = e0
  BY <1>6 DEF Waiting
<1>p. Places(u, r, q, g, m)
  <2>1. ASSUME NEW e \in Nat PROVE Apart(e, u, r, q, g, m)
    BY <1>h, <1>3, <1>5, <1>9 DEF Places, Apart
  <2> QED BY <1>h, <1>3, <1>7, <2>1 DEF Places
<1>f. Fit(u, r, q, g, m, era)
  BY <1>h, <1>3, <1>8 DEF Fit
<1>n. Numbered(after, taken, era)
  BY <1>h, <1>2, <1>3 DEF Numbered, Fits, Eras
<1>d. Document(u, r, q, g, m, after, taken, era)
  <2>1. SUFFICES ASSUME NEW e \in Nat, era.since < e PROVE Shown(e, u, r, q, g, m, after, taken)
    BY DEF Document
  <2>2. Shown(e, u, r, q, f, l, content, taken)
    BY <1>h, <2>1 DEF Document
  <2>3. CASE e # e0
    BY <1>2, <1>3, <1>6, <1>9, <2>2, <2>3 DEF Shown
  <2>4. CASE e = e0
    <3>1. ~HasOutcome(l, "undo", e, TRUE) /\ ~HasOutcome(l, "redo", e, TRUE)
          /\ ~HasOutcome(l, "edit", e, TRUE) /\ ~HasOutcome(l, "edit", e, FALSE)
      BY <1>2, <1>5, <2>4 DEF Waiting
    <3>5. ~HasOutcome(m, "undo", e, TRUE) /\ ~HasOutcome(m, "redo", e, TRUE)
      <4>1. "undo" # "edit" /\ "redo" # "edit"
        OBVIOUS
      <4> QED BY <1>6, <3>1, <4>1, Zenon
    <3>6. HasOutcome(m, "edit", e, TRUE) <=> ok = TRUE
      BY <1>6, <2>4, <3>1
    <3>2. HasOutcome(m, "edit", e, FALSE) <=> ok = FALSE
      BY <1>6, <2>4, <3>1
    <3>4. Waiting(m, e) /\ ~HasEdit(g, e)
      BY <1>3, <1>9, <2>4
    <3>3. e \notin content /\ (e \in after <=> ok = TRUE)
      BY <1>2, <1>5, <2>2, <2>4 DEF Shown
    <3> QED BY <1>5, <2>4, <3>2, <3>3, <3>4, <3>5, <3>6 DEF Shown
  <2> QED BY <2>3, <2>4
<1> QED BY <1>0, <1>1, <1>p, <1>f, <1>n, <1>d DEF History

(* or an undo or a redo, whose command is on its side of the history. *)
LEMMA HistoryStepSettled ==
    ASSUME NEW u \in Seq(Commands), NEW r \in Seq(Commands), NEW q \in Seq(Commands),
           NEW f \in Seq(Operations), NEW l \in Seq(Closures), NEW content \in SUBSET Int,
           NEW taken \in SUBSET Int, NEW era \in Eras, History(u, r, q, f, l, content, taken, era),
           f # <<>>, Head(f).kind \in {"undo", "redo"}, NEW ok \in BOOLEAN,
           Head(f).kind = "undo" => Has(u, Head(f).edit), Head(f).kind = "redo" => Has(r, Head(f).edit),
           \A e, b : ~HasOutcome(l, "undo", e, b) /\ ~HasOutcome(l, "redo", e, b),
           ok /\ Head(f).kind = "redo" => Head(f).edit \notin content \cup taken,
           NEW c \in Closures, c = [kind |-> "outcome", op |-> Head(f), ok |-> ok],
           NEW after, after = IF ~ok THEN content
                              ELSE IF Head(f).kind = "undo" THEN content \ {Head(f).edit}
                              ELSE content \cup {Head(f).edit}
    PROVE  History(u, r, q, Tail(f), Append(l, c), after, taken, era)
<1>h. /\ Places(u, r, q, f, l) /\ Fit(u, r, q, f, l, era)
      /\ Numbered(content, taken, era) /\ Document(u, r, q, f, l, content, taken, era)
  BY DEF History
<1>a. Tail(f) \in Seq(Operations) /\ Head(f) \in Operations
  BY HeadTail
<1>b. Append(l, c) \in Seq(Closures)
  BY AppendOne
<1>0. PICK g : g \in Seq(Operations) /\ g = Tail(f)
  BY <1>a
<1>1. PICK m : m \in Seq(Closures) /\ m = Append(l, c)
  BY <1>b
<1>c. Head(f).edit \in Nat
  BY <1>a DEF Operations
<1>2. PICK e0 : e0 \in Nat /\ e0 = Head(f).edit
  BY <1>c
<1>3. /\ \A e : HasEdit(f, e) <=> HasEdit(g, e) \/ FALSE
      /\ DistinctEdits(g) /\ OperationsFit(g, era) /\ Fits(e0, Head(f).gen, era)
  BY <1>h, <1>0, <1>2, EditsTaken DEF Places, Fit
<1>4. /\ c.kind = "outcome" /\ c.op = Head(f) /\ c.ok = ok /\ c.op.edit = e0
      /\ ~IsEdit(c)
  BY <1>2 DEF IsEdit
<1>6. \A k, e, b : HasOutcome(m, k, e, b) <=> HasOutcome(l, k, e, b) \/ (k = Head(f).kind /\ e = e0 /\ b = ok)
  <2>1. \A k, e, b : HasOutcome(m, k, e, b) <=> HasOutcome(l, k, e, b) \/ IsOutcome(c, k, e, b)
    BY <1>1, OutcomesAppended
  <2>2. \A k, e, b : IsOutcome(c, k, e, b) <=> c.op.kind = k /\ e0 = e /\ ok = b
    BY <1>4 DEF IsOutcome
  <2> QED BY <1>4, <2>1, <2>2
<1>7. DistinctOutcomes(m)
  BY <1>h, <1>1, <1>4, OutcomesAppended DEF Places
<1>8. OutcomesFit(m, era)
  BY <1>h, <1>1, <1>3, <1>4, OutcomesAppended DEF Fit
<1>9. \A e : Waiting(m, e) <=> Waiting(l, e)
  BY <1>6 DEF Waiting
<1>p. Places(u, r, q, g, m)
  <2>1. ASSUME NEW e \in Nat PROVE Apart(e, u, r, q, g, m)
    BY <1>h, <1>3, <1>9 DEF Places, Apart
  <2> QED BY <1>h, <1>3, <1>7, <2>1 DEF Places
<1>f. Fit(u, r, q, g, m, era)
  BY <1>h, <1>3, <1>8 DEF Fit
<1>n. Numbered(after, taken, era)
  BY <1>h, <1>2, <1>3 DEF Numbered, Fits, Eras
<1>d. Document(u, r, q, g, m, after, taken, era)
  <2>1. SUFFICES ASSUME NEW e \in Nat, era.since < e PROVE Shown(e, u, r, q, g, m, after, taken)
    BY DEF Document
  <2>2. Shown(e, u, r, q, f, l, content, taken) /\ Apart(e, u, r, q, f, l)
    BY <1>h, <2>1 DEF Document, Places
  <2>3. CASE e # e0
    BY <1>2, <1>3, <1>6, <1>9, <2>2, <2>3 DEF Shown
  <2>4. CASE e = e0 /\ Head(f).kind = "undo"
    <3>1. Has(u, e) /\ ~Has(r, e) /\ ~Has(q, e) /\ ~Waiting(l, e) /\ ~HasEdit(f, e)
      BY <1>2, <2>2, <2>4 DEF Apart
    <3> QED BY <1>2, <1>3, <1>6, <1>9, <2>2, <2>4, <3>1 DEF Shown, Waiting
  <2>5. CASE e = e0 /\ Head(f).kind = "redo"
    <3>1. Has(r, e) /\ ~Has(u, e) /\ ~Has(q, e) /\ ~Waiting(l, e) /\ ~HasEdit(f, e)
      BY <1>2, <2>2, <2>5 DEF Apart
    <3> QED BY <1>2, <1>3, <1>6, <1>9, <2>2, <2>5, <3>1 DEF Shown, Waiting
  <2> QED BY <2>3, <2>4, <2>5
<1> QED BY <1>0, <1>1, <1>p, <1>f, <1>n, <1>d DEF History

(* What has a place was made, and at the right time. *)
LEMMA HasFits ==
    ASSUME NEW s, NEW era, NEW e, CommandsFit(s, era), Has(s, e)
    PROVE  e \in 1 .. era.edits
BY DEF CommandsFit, Has, Fits

LEMMA EditFits ==
    ASSUME NEW s, NEW era, NEW e, OperationsFit(s, era), HasEdit(s, e)
    PROVE  e \in 1 .. era.edits
BY DEF OperationsFit, HasEdit, Fits

LEMMA OutcomeFits ==
    ASSUME NEW s, NEW era, NEW k, NEW e, NEW ok, OutcomesFit(s, era), HasOutcome(s, k, e, ok)
    PROVE  e \in 1 .. era.edits
BY DEF OutcomesFit, HasOutcome, IsOutcome, Fits

(* It still was in a later era. *)
LEMMA FitLater ==
    ASSUME NEW era \in Eras, NEW next \in Eras,
           \A id \in Nat, gen \in Nat : Fits(id, gen, era) => Fits(id, gen, next),
           NEW u \in Seq(Commands), NEW r \in Seq(Commands), NEW q \in Seq(Commands),
           NEW f \in Seq(Operations), NEW l \in Seq(Closures), Fit(u, r, q, f, l, era)
    PROVE  Fit(u, r, q, f, l, next)
<1>1. ASSUME NEW s \in Seq(Commands), CommandsFit(s, era) PROVE CommandsFit(s, next)
  <2>1. SUFFICES ASSUME NEW i \in 1 .. Len(s) PROVE Fits(s[i].id, s[i].gen, next)
    BY DEF CommandsFit
  <2>2. s[i] \in Commands
    BY <2>1
  <2>3. s[i].id \in Nat /\ s[i].gen \in Nat
    BY <2>2 DEF Commands
  <2> QED BY <1>1, <2>1, <2>3 DEF CommandsFit
<1>2. ASSUME OperationsFit(f, era) PROVE OperationsFit(f, next)
  <2>1. SUFFICES ASSUME NEW i \in 1 .. Len(f) PROVE Fits(f[i].edit, f[i].gen, next)
    BY DEF OperationsFit
  <2>2. f[i] \in Operations
    BY <2>1
  <2>3. f[i].edit \in Nat /\ f[i].gen \in Nat
    BY <2>2 DEF Operations
  <2> QED BY <1>2, <2>1, <2>3 DEF OperationsFit
<1>3. ASSUME OutcomesFit(l, era) PROVE OutcomesFit(l, next)
  <2>1. SUFFICES ASSUME NEW i \in 1 .. Len(l), l[i].kind = "outcome" PROVE Fits(l[i].op.edit, l[i].op.gen, next)
    BY DEF OutcomesFit
  <2>2. l[i] \in Closures
    BY <2>1
  <2>3. l[i].op \in Operations
    BY <2>1, <2>2, ClosureKinds
  <2>4. l[i].op.edit \in Nat /\ l[i].op.gen \in Nat
    BY <2>3 DEF Operations
  <2> QED BY <1>3, <2>1, <2>4 DEF OutcomesFit
<1> QED BY <1>1, <1>2, <1>3 DEF Fit

(* Another participant takes tiles. *)
LEMMA HistoryOverwritten ==
    ASSUME NEW u \in Seq(Commands), NEW r \in Seq(Commands), NEW q \in Seq(Commands),
           NEW f \in Seq(Operations), NEW l \in Seq(Closures), NEW content \in SUBSET Int,
           NEW taken \in SUBSET Int, NEW era \in Eras, History(u, r, q, f, l, content, taken, era),
           NEW over \in SUBSET Int, \A e \in over : e <= era.edits, NEW x \in Int, x < 0
    PROVE  History(u, r, q, f, l, (content \ over) \cup {x}, taken \cup over, era)
<1>h. /\ Places(u, r, q, f, l) /\ Fit(u, r, q, f, l, era)
      /\ Numbered(content, taken, era) /\ Document(u, r, q, f, l, content, taken, era)
  BY DEF History
<1>1. Numbered((content \ over) \cup {x}, taken \cup over, era)
  <2>1. era.edits \in Nat BY DEF Eras
  <2> QED BY <1>h, <2>1 DEF Numbered
<1>2. Document(u, r, q, f, l, (content \ over) \cup {x}, taken \cup over, era)
  <2>1. SUFFICES ASSUME NEW e \in Nat, era.since < e
                 PROVE  Shown(e, u, r, q, f, l, (content \ over) \cup {x}, taken \cup over)
    BY DEF Document
  <2>2. Shown(e, u, r, q, f, l, content, taken) /\ e # x
    BY <1>h, <2>1 DEF Document
  <2> QED BY <2>2 DEF Shown
<1> QED BY <1>h, <1>1, <1>2 DEF History

(* An edit is sent. *)
LEMMA HistoryEdited ==
    ASSUME NEW u \in Seq(Commands), NEW r \in Seq(Commands), NEW q \in Seq(Commands),
           NEW f \in Seq(Operations), NEW l \in Seq(Closures), NEW content \in SUBSET Int,
           NEW taken \in SUBSET Int, NEW era \in Eras, History(u, r, q, f, l, content, taken, era),
           NEW next \in Eras, next.edits = era.edits + 1, next.gen = era.gen, next.since = era.since,
           NEW op \in Operations, op.kind = "edit", op.edit = era.edits + 1, op.gen = era.gen
    PROVE  History(u, r, q, Append(f, op), l, content, taken, next)
<1>h. /\ Places(u, r, q, f, l) /\ Fit(u, r, q, f, l, era)
      /\ Numbered(content, taken, era) /\ Document(u, r, q, f, l, content, taken, era)
  BY DEF History
<1>0. era.edits \in Nat /\ era.gen \in Nat /\ era.since \in Nat /\ era.since <= era.edits
  BY <1>h DEF Eras, Numbered
<1>a. era.edits + 1 \in Nat /\ era.edits + 1 \notin 1 .. era.edits
  BY <1>0
<1>1. PICK e0 : e0 \in Nat /\ e0 = era.edits + 1 /\ e0 \notin 1 .. era.edits
  BY <1>a
<1>2. ~Has(u, e0) /\ ~Has(r, e0) /\ ~Has(q, e0)
  BY <1>h, <1>1, HasFits DEF Fit
<1>3. ~HasEdit(f, e0)
  BY <1>h, <1>1, EditFits DEF Fit
<1>4. \A k, ok : ~HasOutcome(l, k, e0, ok)
  BY <1>h, <1>1, OutcomeFits DEF Fit
<1>5. PICK g : g \in Seq(Operations) /\ g = Append(f, op)
  BY AppendOne
<1>b. \A e : HasEdit(g, e) <=> HasEdit(f, e) \/ (op.kind = "edit" /\ op.edit = e)
  BY <1>5, EditsAppended
<1>6. \A e : HasEdit(g, e) <=> HasEdit(f, e) \/ e = e0
  BY <1>1, <1>b
<1>7. DistinctEdits(g)
  BY <1>h, <1>1, <1>3, <1>5, EditsAppended DEF Places
<1>8. Fit(u, r, q, f, l, next)
  <2>1. ASSUME NEW id \in Nat, NEW gen \in Nat, Fits(id, gen, era) PROVE Fits(id, gen, next)
    BY <1>0, <2>1 DEF Fits
  <2> QED BY <1>h, <2>1, FitLater
<1>9. Fits(op.edit, op.gen, next)
  BY <1>0 DEF Fits
<1>p. Places(u, r, q, g, l)
  <2>1. ASSUME NEW e \in Nat PROVE Apart(e, u, r, q, g, l)
    BY <1>h, <1>2, <1>4, <1>6 DEF Places, Apart, Waiting
  <2> QED BY <1>h, <1>7, <2>1 DEF Places
<1>f. Fit(u, r, q, g, l, next)
  BY <1>5, <1>8, <1>9, EditsAppended DEF Fit
<1>n. Numbered(content, taken, next) /\ e0 \notin content
  BY <1>h, <1>0, <1>1 DEF Numbered
<1>d. Document(u, r, q, g, l, content, taken, next)
  <2>1. SUFFICES ASSUME NEW e \in Nat, era.since < e PROVE Shown(e, u, r, q, g, l, content, taken)
    BY DEF Document
  <2>2. Shown(e, u, r, q, f, l, content, taken)
    BY <1>h, <2>1 DEF Document
  <2>3. CASE e # e0
    BY <1>6, <2>2, <2>3 DEF Shown
  <2>4. CASE e = e0
    BY <1>2, <1>4, <1>n, <2>4 DEF Shown
  <2> QED BY <2>3, <2>4
<1> QED BY <1>5, <1>p, <1>f, <1>n, <1>d DEF History

(* Another session begins: nothing of the history is its own. *)
LEMMA HistoryReattached ==
    ASSUME NEW u \in Seq(Commands), NEW r \in Seq(Commands), NEW q \in Seq(Commands),
           NEW f \in Seq(Operations), NEW l \in Seq(Closures), NEW content \in SUBSET Int,
           NEW taken \in SUBSET Int, NEW era \in Eras, History(u, r, q, f, l, content, taken, era),
           NEW next \in Eras, next.edits = era.edits, next.gen = era.gen + 1, next.since = era.edits,
           NEW after \in SUBSET content
    PROVE  History(u, r, q, f, l, after, taken, next)
<1>h. /\ Places(u, r, q, f, l) /\ Fit(u, r, q, f, l, era)
      /\ Numbered(content, taken, era) /\ Document(u, r, q, f, l, content, taken, era)
  BY DEF History
<1>0. era.edits \in Nat /\ era.gen \in Nat
  BY DEF Eras
<1>1. Fit(u, r, q, f, l, next)
  <2>1. ASSUME NEW id \in Nat, NEW gen \in Nat, Fits(id, gen, era) PROVE Fits(id, gen, next)
    BY <1>0, <2>1 DEF Fits
  <2> QED BY <1>h, <2>1, FitLater
<1>2. Numbered(after, taken, next)
  BY <1>h, <1>0 DEF Numbered
<1>3. Document(u, r, q, f, l, after, taken, next)
  <2>1. SUFFICES ASSUME NEW e \in Nat, era.edits < e PROVE Shown(e, u, r, q, f, l, after, taken)
    BY DEF Document
  <2>2. e \notin 1 .. era.edits /\ e \notin content
    BY <1>h, <1>0, <2>1 DEF Numbered
  <2>3. ~Has(u, e) /\ ~Has(r, e) /\ ~Has(q, e)
    BY <1>h, <2>2, HasFits DEF Fit
  <2>4. ~HasEdit(f, e)
    BY <1>h, <2>2, EditFits DEF Fit
  <2>5. \A k, ok : ~HasOutcome(l, k, e, ok)
    BY <1>h, <2>2, OutcomeFits DEF Fit
  <2> QED BY <2>2, <2>3, <2>4, <2>5 DEF Shown
<1> QED BY <1>h, <1>1, <1>2, <1>3 DEF History

(* An undo or a redo is sent. *)
LEMMA HistorySent ==
    ASSUME NEW u \in Seq(Commands), NEW r \in Seq(Commands), NEW q \in Seq(Commands),
           NEW f \in Seq(Operations), NEW l \in Seq(Closures), NEW content \in SUBSET Int,
           NEW taken \in SUBSET Int, NEW era \in Eras, History(u, r, q, f, l, content, taken, era),
           NEW op \in Operations, op.kind # "edit", Fits(op.edit, op.gen, era)
    PROVE  History(u, r, q, Append(f, op), l, content, taken, era)
<1>h. /\ Places(u, r, q, f, l) /\ Fit(u, r, q, f, l, era)
      /\ Numbered(content, taken, era) /\ Document(u, r, q, f, l, content, taken, era)
  BY DEF History
<1>1. PICK g : g \in Seq(Operations) /\ g = Append(f, op)
  BY AppendOne
<1>2. \A e : HasEdit(g, e) <=> HasEdit(f, e)
  BY <1>1, EditsAppended
<1>3. DistinctEdits(g) /\ OperationsFit(g, era)
  BY <1>h, <1>1, EditsAppended DEF Places, Fit
<1>4. Places(u, r, q, g, l)
  BY <1>h, <1>2, <1>3 DEF Places, Apart
<1>5. Document(u, r, q, g, l, content, taken, era)
  BY <1>h, <1>2 DEF Document, Shown
<1> QED BY <1>h, <1>1, <1>3, <1>4, <1>5 DEF History, Fit

(* The outcome of an edit adds nothing to the history, *)
LEMMA HistoryEditDropped ==
    ASSUME NEW u \in Seq(Commands), NEW r \in Seq(Commands), NEW q \in Seq(Commands),
           NEW f \in Seq(Operations), NEW l \in Seq(Closures), NEW content \in SUBSET Int,
           NEW taken \in SUBSET Int, NEW era \in Eras, History(u, r, q, f, l, content, taken, era),
           l # <<>>, IsEdit(Head(l)), Head(l).ok = FALSE \/ Head(l).op.gen # era.gen
    PROVE  History(u, r, q, f, Tail(l), content, taken, era)
<1>h. /\ Places(u, r, q, f, l) /\ Fit(u, r, q, f, l, era)
      /\ Numbered(content, taken, era) /\ Document(u, r, q, f, l, content, taken, era)
  BY DEF History
<1>a. /\ Head(l) \in Closures
      /\ Tail(l) \in Seq(Closures)
      /\ Head(l).kind = "outcome"
      /\ Head(l).op.kind = "edit"
  BY HeadTail DEF IsEdit
<1>b. Head(l).op \in Operations /\ Head(l).ok \in BOOLEAN
  BY <1>a, ClosureKinds
<1>c. Head(l).op.edit \in Nat /\ Head(l).op.gen \in Nat
  BY <1>b DEF Operations
<1>0. PICK e0 : e0 \in Nat /\ e0 = Head(l).op.edit
  BY <1>c
<1>1. PICK m : m \in Seq(Closures) /\ m = Tail(l)
  BY <1>a
<1>2. /\ \A k, e, ok : HasOutcome(l, k, e, ok) <=> HasOutcome(m, k, e, ok) \/ IsOutcome(Head(l), k, e, ok)
      /\ DistinctOutcomes(m) /\ (\A ok : ~HasOutcome(m, "edit", e0, ok)) /\ OutcomesFit(m, era)
      /\ Fits(e0, Head(l).op.gen, era)
  <2>1. DistinctOutcomes(l) /\ OutcomesFit(l, era)
    BY <1>h DEF Places, Fit
  <2> QED BY <1>a, <1>0, <1>1, <2>1, OutcomesTaken
<1>3. HasOutcome(l, "edit", e0, Head(l).ok)
  BY <1>a, <1>0, <1>2 DEF IsOutcome
<1>4. \A k, e, ok : k # "edit" \/ e # e0 => (HasOutcome(l, k, e, ok) <=> HasOutcome(m, k, e, ok))
  BY <1>a, <1>0, <1>2 DEF IsOutcome
<1>5. ~Waiting(m, e0) /\ \A e : e # e0 => (Waiting(m, e) <=> Waiting(l, e))
  BY <1>2, <1>4 DEF Waiting
<1>6. ~Has(u, e0) /\ ~Has(r, e0) /\ ~Has(q, e0) /\ ~HasEdit(f, e0)
  <2>1. Waiting(l, e0)
    BY <1>b, <1>3 DEF Waiting
  <2>2. Apart(e0, u, r, q, f, l)
    BY <1>h, <1>0 DEF Places
  <2> QED BY <2>1, <2>2 DEF Apart
<1>p. Places(u, r, q, f, m)
  <2>1. ASSUME NEW e \in Nat PROVE Apart(e, u, r, q, f, m)
    <3>1. Apart(e, u, r, q, f, l)
      BY <1>h DEF Places
    <3> QED BY <1>5, <1>6, <3>1 DEF Apart
  <2> QED BY <1>h, <1>2, <2>1 DEF Places
<1>d. Document(u, r, q, f, m, content, taken, era)
  <2>1. SUFFICES ASSUME NEW e \in Nat, era.since < e PROVE Shown(e, u, r, q, f, m, content, taken)
    BY DEF Document
  <2>2. Shown(e, u, r, q, f, l, content, taken)
    BY <1>h, <2>1 DEF Document
  <2>3. CASE e # e0
    BY <1>4, <1>5, <2>2, <2>3 DEF Shown
  <2>4. CASE e = e0
    <3>1. Head(l).op.gen = era.gen
      BY <1>2, <2>1, <2>4 DEF Fits, Eras
    <3>2. HasOutcome(l, "edit", e, FALSE)
      BY <1>3, <2>4, <3>1
    <3>3. e \notin content
      BY <2>2, <3>2 DEF Shown
    <3>4. /\ ~HasOutcome(m, "edit", e, TRUE)
          /\ HasOutcome(m, "undo", e, TRUE) <=> HasOutcome(l, "undo", e, TRUE)
          /\ HasOutcome(m, "redo", e, TRUE) <=> HasOutcome(l, "redo", e, TRUE)
      BY <1>2, <1>4, <2>4
    <3> QED BY <1>6, <2>2, <2>4, <3>3, <3>4 DEF Shown
  <2> QED BY <2>3, <2>4
<1> QED BY <1>h, <1>1, <1>2, <1>p, <1>d DEF History, Fit

(* waits for the step under way, *)
LEMMA HistoryQueued ==
    ASSUME NEW u \in Seq(Commands), NEW r \in Seq(Commands), NEW q \in Seq(Commands),
           NEW f \in Seq(Operations), NEW l \in Seq(Closures), NEW content \in SUBSET Int,
           NEW taken \in SUBSET Int, NEW era \in Eras, History(u, r, q, f, l, content, taken, era),
           l # <<>>, IsEdit(Head(l)), Head(l).ok = TRUE, Head(l).op.gen = era.gen,
           NEW c \in Commands, c.id = Head(l).op.edit, c.gen = era.gen
    PROVE  History(u, r, Append(q, c), f, Tail(l), content, taken, era)
<1>h. /\ Places(u, r, q, f, l) /\ Fit(u, r, q, f, l, era)
      /\ Numbered(content, taken, era) /\ Document(u, r, q, f, l, content, taken, era)
  BY DEF History
<1>a. /\ Head(l) \in Closures
      /\ Tail(l) \in Seq(Closures)
      /\ Head(l).kind = "outcome"
      /\ Head(l).op.kind = "edit"
  BY HeadTail DEF IsEdit
<1>b. Head(l).op \in Operations /\ Head(l).ok \in BOOLEAN
  BY <1>a, ClosureKinds
<1>c. Head(l).op.edit \in Nat /\ Head(l).op.gen \in Nat
  BY <1>b DEF Operations
<1>0. PICK e0 : e0 \in Nat /\ e0 = Head(l).op.edit
  BY <1>c
<1>1. PICK m : m \in Seq(Closures) /\ m = Tail(l)
  BY <1>a
<1>2. /\ \A k, e, ok : HasOutcome(l, k, e, ok) <=> HasOutcome(m, k, e, ok) \/ IsOutcome(Head(l), k, e, ok)
      /\ DistinctOutcomes(m) /\ (\A ok : ~HasOutcome(m, "edit", e0, ok)) /\ OutcomesFit(m, era)
      /\ Fits(e0, Head(l).op.gen, era)
  <2>1. DistinctOutcomes(l) /\ OutcomesFit(l, era)
    BY <1>h DEF Places, Fit
  <2> QED BY <1>a, <1>0, <1>1, <2>1, OutcomesTaken
<1>3. HasOutcome(l, "edit", e0, Head(l).ok)
  BY <1>a, <1>0, <1>2 DEF IsOutcome
<1>4. \A k, e, ok : k # "edit" \/ e # e0 => (HasOutcome(l, k, e, ok) <=> HasOutcome(m, k, e, ok))
  BY <1>a, <1>0, <1>2 DEF IsOutcome
<1>5. ~Waiting(m, e0) /\ \A e : e # e0 => (Waiting(m, e) <=> Waiting(l, e))
  BY <1>2, <1>4 DEF Waiting
<1>6. ~Has(u, e0) /\ ~Has(r, e0) /\ ~Has(q, e0) /\ ~HasEdit(f, e0)
  <2>1. Waiting(l, e0)
    BY <1>b, <1>3 DEF Waiting
  <2>2. Apart(e0, u, r, q, f, l)
    BY <1>h, <1>0 DEF Places
  <2> QED BY <2>1, <2>2 DEF Apart
<1>7. e0 \in content \cup taken
  <2>1. era.since < e0
    BY <1>2 DEF Fits, Eras
  <2>2. Shown(e0, u, r, q, f, l, content, taken)
    BY <1>h, <1>0, <2>1 DEF Document
  <2> QED BY <1>3, <2>2 DEF Shown
<1>8. Fits(c.id, c.gen, era)
  BY <1>0, <1>2
<1>9. PICK s : s \in Seq(Commands) /\ s = Append(q, c)
  BY AppendOne
<1>10. \A e : Has(s, e) <=> Has(q, e) \/ e = e0
  BY <1>0, <1>9, HasAppended
<1>11. Distinct(s)
  BY <1>h, <1>0, <1>6, <1>9, DistinctAppended DEF Places
<1>12. CommandsFit(s, era)
  BY <1>h, <1>8, <1>9, FitAppended DEF Fit
<1>p. Places(u, r, s, f, m)
  <2>1. ASSUME NEW e \in Nat PROVE Apart(e, u, r, s, f, m)
    <3>1. Apart(e, u, r, q, f, l)
      BY <1>h DEF Places
    <3> QED BY <1>5, <1>6, <1>10, <3>1 DEF Apart
  <2> QED BY <1>h, <1>2, <1>11, <2>1 DEF Places
<1>d. Document(u, r, s, f, m, content, taken, era)
  <2>1. SUFFICES ASSUME NEW e \in Nat, era.since < e PROVE Shown(e, u, r, s, f, m, content, taken)
    BY DEF Document
  <2>2. Shown(e, u, r, q, f, l, content, taken)
    BY <1>h, <2>1 DEF Document
  <2>3. CASE e # e0
    BY <1>4, <1>5, <1>10, <2>2, <2>3 DEF Shown
  <2>4. CASE e = e0
    <3>4. /\ ~HasOutcome(m, "edit", e, FALSE)
          /\ HasOutcome(m, "undo", e, TRUE) <=> HasOutcome(l, "undo", e, TRUE)
          /\ HasOutcome(m, "redo", e, TRUE) <=> HasOutcome(l, "redo", e, TRUE)
      BY <1>2, <1>4, <2>4
    <3> QED BY <1>6, <1>7, <1>10, <2>2, <2>4, <3>4 DEF Shown
  <2> QED BY <2>3, <2>4
<1> QED BY <1>h, <1>1, <1>2, <1>9, <1>12, <1>p, <1>d DEF History, Fit

(* or becomes the last command to undo, after which there is nothing to redo. *)
LEMMA HistoryPushed ==
    ASSUME NEW u \in Seq(Commands), NEW r \in Seq(Commands), NEW q \in Seq(Commands),
           NEW f \in Seq(Operations), NEW l \in Seq(Closures), NEW content \in SUBSET Int,
           NEW taken \in SUBSET Int, NEW era \in Eras, History(u, r, q, f, l, content, taken, era),
           l # <<>>, IsEdit(Head(l)), Head(l).ok = TRUE, Head(l).op.gen = era.gen,
           NEW c \in Commands, c.id = Head(l).op.edit, c.gen = era.gen,
           \A e : ~HasOutcome(l, "redo", e, TRUE)
    PROVE  History(Append(u, c), <<>>, q, f, Tail(l), content, taken, era)
<1>h. /\ Places(u, r, q, f, l) /\ Fit(u, r, q, f, l, era)
      /\ Numbered(content, taken, era) /\ Document(u, r, q, f, l, content, taken, era)
  BY DEF History
<1>a. /\ Head(l) \in Closures
      /\ Tail(l) \in Seq(Closures)
      /\ Head(l).kind = "outcome"
      /\ Head(l).op.kind = "edit"
  BY HeadTail DEF IsEdit
<1>b. Head(l).op \in Operations /\ Head(l).ok \in BOOLEAN
  BY <1>a, ClosureKinds
<1>c. Head(l).op.edit \in Nat /\ Head(l).op.gen \in Nat
  BY <1>b DEF Operations
<1>0. PICK e0 : e0 \in Nat /\ e0 = Head(l).op.edit
  BY <1>c
<1>1. PICK m : m \in Seq(Closures) /\ m = Tail(l)
  BY <1>a
<1>2. /\ \A k, e, ok : HasOutcome(l, k, e, ok) <=> HasOutcome(m, k, e, ok) \/ IsOutcome(Head(l), k, e, ok)
      /\ DistinctOutcomes(m) /\ (\A ok : ~HasOutcome(m, "edit", e0, ok)) /\ OutcomesFit(m, era)
      /\ Fits(e0, Head(l).op.gen, era)
  <2>1. DistinctOutcomes(l) /\ OutcomesFit(l, era)
    BY <1>h DEF Places, Fit
  <2> QED BY <1>a, <1>0, <1>1, <2>1, OutcomesTaken
<1>3. HasOutcome(l, "edit", e0, Head(l).ok)
  BY <1>a, <1>0, <1>2 DEF IsOutcome
<1>4. \A k, e, ok : k # "edit" \/ e # e0 => (HasOutcome(l, k, e, ok) <=> HasOutcome(m, k, e, ok))
  BY <1>a, <1>0, <1>2 DEF IsOutcome
<1>5. ~Waiting(m, e0) /\ \A e : e # e0 => (Waiting(m, e) <=> Waiting(l, e))
  BY <1>2, <1>4 DEF Waiting
<1>6. ~Has(u, e0) /\ ~Has(r, e0) /\ ~Has(q, e0) /\ ~HasEdit(f, e0)
  <2>1. Waiting(l, e0)
    BY <1>b, <1>3 DEF Waiting
  <2>2. Apart(e0, u, r, q, f, l)
    BY <1>h, <1>0 DEF Places
  <2> QED BY <2>1, <2>2 DEF Apart
<1>7. e0 \in content \cup taken
  <2>1. era.since < e0
    BY <1>2 DEF Fits, Eras
  <2>2. Shown(e0, u, r, q, f, l, content, taken)
    BY <1>h, <1>0, <2>1 DEF Document
  <2> QED BY <1>3, <2>2 DEF Shown
<1>8. Fits(c.id, c.gen, era)
  BY <1>0, <1>2
<1>9. PICK s : s \in Seq(Commands) /\ s = Append(u, c)
  BY AppendOne
<1>10. \A e : Has(s, e) <=> Has(u, e) \/ e = e0
  BY <1>0, <1>9, HasAppended
<1>11. Distinct(s) /\ Distinct(<<>>)
  <2>1. Distinct(s)
    BY <1>h, <1>0, <1>6, <1>9, DistinctAppended DEF Places
  <2> QED BY <2>1 DEF Distinct
<1>12. CommandsFit(s, era) /\ CommandsFit(<<>>, era)
  <2>1. CommandsFit(s, era)
    BY <1>h, <1>8, <1>9, FitAppended DEF Fit
  <2> QED BY <2>1 DEF CommandsFit
<1>p. Places(s, <<>>, q, f, m)
  <2>1. ASSUME NEW e \in Nat PROVE Apart(e, s, <<>>, q, f, m)
    <3>1. Apart(e, u, r, q, f, l)
      BY <1>h DEF Places
    <3> QED BY <1>5, <1>6, <1>10, <3>1, HasEmpty DEF Apart
  <2> QED BY <1>h, <1>2, <1>11, <2>1 DEF Places
<1>d. Document(s, <<>>, q, f, m, content, taken, era)
  <2>1. SUFFICES ASSUME NEW e \in Nat, era.since < e PROVE Shown(e, s, <<>>, q, f, m, content, taken)
    BY DEF Document
  <2>2. Shown(e, u, r, q, f, l, content, taken)
    BY <1>h, <2>1 DEF Document
  <2>3. CASE e # e0
    BY <1>4, <1>5, <1>10, <2>2, <2>3, HasEmpty DEF Shown
  <2>4. CASE e = e0
    <3>4. /\ ~HasOutcome(m, "edit", e, FALSE)
          /\ HasOutcome(m, "undo", e, TRUE) <=> HasOutcome(l, "undo", e, TRUE)
          /\ HasOutcome(m, "redo", e, TRUE) <=> HasOutcome(l, "redo", e, TRUE)
      BY <1>2, <1>4, <2>4
    <3> QED BY <1>6, <1>7, <1>10, <2>2, <2>4, <3>4, HasEmpty DEF Shown
  <2> QED BY <2>3, <2>4
<1> QED BY <1>h, <1>1, <1>2, <1>9, <1>12, <1>p, <1>d DEF History, Fit

(* The outcome of an undo or redo moves nothing, *)
LEMMA HistoryStepDropped ==
    ASSUME NEW u \in Seq(Commands), NEW r \in Seq(Commands), NEW q \in Seq(Commands),
           NEW f \in Seq(Operations), NEW l \in Seq(Closures), NEW content \in SUBSET Int,
           NEW taken \in SUBSET Int, NEW era \in Eras, History(u, r, q, f, l, content, taken, era),
           l # <<>>, Head(l).kind = "outcome", Head(l).op.kind # "edit",
           Head(l).ok = FALSE \/ Head(l).op.gen # era.gen
    PROVE  History(u, r, q, f, Tail(l), content, taken, era)
<1>h. /\ Places(u, r, q, f, l) /\ Fit(u, r, q, f, l, era)
      /\ Numbered(content, taken, era) /\ Document(u, r, q, f, l, content, taken, era)
  BY DEF History
<1>a. Head(l) \in Closures /\ Tail(l) \in Seq(Closures)
  BY HeadTail
<1>b. Head(l).op \in Operations /\ Head(l).ok \in BOOLEAN
  BY <1>a, ClosureKinds
<1>c. Head(l).op.edit \in Nat /\ Head(l).op.gen \in Nat
  BY <1>b DEF Operations
<1>0. PICK e0 : e0 \in Nat /\ e0 = Head(l).op.edit
  BY <1>c
<1>1. PICK m : m \in Seq(Closures) /\ m = Tail(l)
  BY <1>a
<1>2. /\ \A k, e, ok : HasOutcome(l, k, e, ok) <=> HasOutcome(m, k, e, ok) \/ IsOutcome(Head(l), k, e, ok)
      /\ DistinctOutcomes(m) /\ OutcomesFit(m, era) /\ Fits(e0, Head(l).op.gen, era)
  <2>1. DistinctOutcomes(l) /\ OutcomesFit(l, era)
    BY <1>h DEF Places, Fit
  <2> QED BY <1>a, <1>0, <1>1, <2>1, OutcomesTaken
<1>3. HasOutcome(l, Head(l).op.kind, e0, Head(l).ok)
  BY <1>a, <1>0, <1>2 DEF IsOutcome
<1>4. \A k, e, ok : k # Head(l).op.kind \/ e # e0 \/ ok # Head(l).ok =>
          (HasOutcome(l, k, e, ok) <=> HasOutcome(m, k, e, ok))
  BY <1>a, <1>0, <1>2 DEF IsOutcome
<1>5. \A e : Waiting(m, e) <=> Waiting(l, e)
  BY <1>4 DEF Waiting
<1>p. Places(u, r, q, f, m)
  <2>1. ASSUME NEW e \in Nat PROVE Apart(e, u, r, q, f, m)
    <3>1. Apart(e, u, r, q, f, l)
      BY <1>h DEF Places
    <3> QED BY <1>5, <3>1 DEF Apart
  <2> QED BY <1>h, <1>2, <2>1 DEF Places
<1>d. Document(u, r, q, f, m, content, taken, era)
  <2>1. SUFFICES ASSUME NEW e \in Nat, era.since < e PROVE Shown(e, u, r, q, f, m, content, taken)
    BY DEF Document
  <2>2. Shown(e, u, r, q, f, l, content, taken)
    BY <1>h, <2>1 DEF Document
  <2>3. \A k : HasOutcome(l, k, e, TRUE) <=> HasOutcome(m, k, e, TRUE)
    <3>1. CASE e # e0
      BY <1>4, <3>1
    <3>2. CASE e = e0
      <4>1. Head(l).op.gen = era.gen
        BY <1>2, <2>1, <3>2 DEF Fits, Eras
      <4>2. Head(l).ok = FALSE
        BY <4>1
      <4> QED BY <1>4, <4>2
    <3> QED BY <3>1, <3>2
  <2>4. HasOutcome(l, "edit", e, FALSE) <=> HasOutcome(m, "edit", e, FALSE)
    BY <1>4
  <2> QED BY <1>5, <2>2, <2>3, <2>4 DEF Shown
<1> QED BY <1>h, <1>1, <1>2, <1>p, <1>d DEF History, Fit

(* or the command from one side of the history to the other. *)
LEMMA HistoryUndone ==
    ASSUME NEW u \in Seq(Commands), NEW r \in Seq(Commands), NEW q \in Seq(Commands),
           NEW f \in Seq(Operations), NEW l \in Seq(Closures), NEW content \in SUBSET Int,
           NEW taken \in SUBSET Int, NEW era \in Eras, History(u, r, q, f, l, content, taken, era),
           l # <<>>, Head(l).kind = "outcome", Head(l).op.kind = "undo", Head(l).ok = TRUE,
           Head(l).op.gen = era.gen, u # <<>>, Last(u).id = Head(l).op.edit,
           \A e, ok : ~HasOutcome(Tail(l), "undo", e, ok) /\ ~HasOutcome(Tail(l), "redo", e, ok)
    PROVE  History(Front(u), Append(r, Last(u)), q, f, Tail(l), content, taken, era)
<1>h. /\ Places(u, r, q, f, l) /\ Fit(u, r, q, f, l, era)
      /\ Numbered(content, taken, era) /\ Document(u, r, q, f, l, content, taken, era)
  BY DEF History
<1>a. Head(l) \in Closures /\ Tail(l) \in Seq(Closures)
  BY HeadTail
<1>b. Head(l).op \in Operations /\ Head(l).ok \in BOOLEAN
  BY <1>a, ClosureKinds
<1>c. Head(l).op.edit \in Nat /\ Head(l).op.gen \in Nat
  BY <1>b DEF Operations
<1>0. PICK e0 : e0 \in Nat /\ e0 = Head(l).op.edit
  BY <1>c
<1>1. PICK m : m \in Seq(Closures) /\ m = Tail(l)
  BY <1>a
<1>2. /\ \A k, e, ok : HasOutcome(l, k, e, ok) <=> HasOutcome(m, k, e, ok) \/ IsOutcome(Head(l), k, e, ok)
      /\ DistinctOutcomes(m) /\ OutcomesFit(m, era) /\ Fits(e0, Head(l).op.gen, era)
  <2>1. DistinctOutcomes(l) /\ OutcomesFit(l, era)
    BY <1>h DEF Places, Fit
  <2> QED BY <1>a, <1>0, <1>1, <2>1, OutcomesTaken
<1>3. HasOutcome(l, Head(l).op.kind, e0, Head(l).ok)
  BY <1>a, <1>0, <1>2 DEF IsOutcome
<1>4. \A k, e, ok : k # Head(l).op.kind \/ e # e0 \/ ok # Head(l).ok =>
          (HasOutcome(l, k, e, ok) <=> HasOutcome(m, k, e, ok))
  BY <1>a, <1>0, <1>2 DEF IsOutcome
<1>5. \A e : Waiting(m, e) <=> Waiting(l, e)
  BY <1>4 DEF Waiting
<1>6. Distinct(u) /\ Distinct(r) /\ CommandsFit(u, era) /\ CommandsFit(r, era)
  BY <1>h DEF Places, Fit
<1>7. Last(u) \in Commands /\ Front(u) \in Seq(Commands)
  BY FrontOne
<1>8. PICK c : c \in Commands /\ c = Last(u)
  BY <1>7
<1>9. PICK s : s \in Seq(Commands) /\ s = Front(u)
  BY <1>7
<1>10. PICK t : t \in Seq(Commands) /\ t = Append(r, c)
  BY <1>8, AppendOne
<1>11. /\ \A e : Has(s, e) <=> Has(u, e) /\ e # e0
       /\ Distinct(s) /\ CommandsFit(s, era) /\ Fits(c.id, c.gen, era) /\ Has(u, e0)
  BY <1>0, <1>6, <1>8, <1>9, HasFront
<1>12. \A e : Has(t, e) <=> Has(r, e) \/ e = e0
  BY <1>0, <1>8, <1>10, HasAppended
<1>13. Has(u, e0) /\ ~Has(r, e0) /\ ~Has(q, e0) /\ ~Waiting(l, e0) /\ ~HasEdit(f, e0)
  <2>1. Apart(e0, u, r, q, f, l)
    BY <1>h, <1>0 DEF Places
  <2> QED BY <1>11, <2>1 DEF Apart
<1>14. Distinct(t) /\ CommandsFit(t, era)
  <2>1. ~Has(r, c.id)
    BY <1>0, <1>8, <1>13
  <2> QED BY <1>6, <1>8, <1>10, <1>11, <2>1, DistinctAppended, FitAppended
<1>15. e0 \notin content
  <2>1. era.since < e0
    BY <1>2 DEF Fits, Eras
  <2>2. Shown(e0, u, r, q, f, l, content, taken)
    BY <1>h, <1>0, <2>1 DEF Document
  <2> QED BY <1>3, <2>2 DEF Shown
<1>p. Places(s, t, q, f, m)
  <2>1. ASSUME NEW e \in Nat PROVE Apart(e, s, t, q, f, m)
    <3>1. Apart(e, u, r, q, f, l)
      BY <1>h DEF Places
    <3> QED BY <1>5, <1>11, <1>12, <1>13, <3>1 DEF Apart
  <2> QED BY <1>h, <1>2, <1>11, <1>14, <2>1 DEF Places
<1>d. Document(s, t, q, f, m, content, taken, era)
  <2>1. SUFFICES ASSUME NEW e \in Nat, era.since < e PROVE Shown(e, s, t, q, f, m, content, taken)
    BY DEF Document
  <2>2. Shown(e, u, r, q, f, l, content, taken)
    BY <1>h, <2>1 DEF Document
  <2>3. ~HasOutcome(m, "undo", e, TRUE) /\ ~HasOutcome(m, "redo", e, TRUE)
    BY <1>1
  <2>4. /\ HasOutcome(l, "edit", e, TRUE) <=> HasOutcome(m, "edit", e, TRUE)
        /\ HasOutcome(l, "edit", e, FALSE) <=> HasOutcome(m, "edit", e, FALSE)
    BY <1>4
  <2>5. CASE e # e0
    <3>1. ~HasOutcome(l, "undo", e, TRUE) /\ ~HasOutcome(l, "redo", e, TRUE)
      BY <1>4, <2>3, <2>5
    <3> QED BY <1>5, <1>11, <1>12, <2>2, <2>3, <2>4, <2>5, <3>1 DEF Shown
  <2>6. CASE e = e0
    <3>1. ~HasOutcome(l, "edit", e, TRUE) /\ ~HasOutcome(l, "edit", e, FALSE)
      BY <1>13, <2>6 DEF Waiting
    <3> QED BY <1>5, <1>11, <1>12, <1>13, <1>15, <2>3, <2>4, <2>6, <3>1 DEF Shown
  <2> QED BY <2>5, <2>6
<1>f. Fit(s, t, q, f, m, era)
  BY <1>h, <1>2, <1>11, <1>14 DEF Fit
<1> QED BY <1>h, <1>1, <1>8, <1>9, <1>10, <1>p, <1>f, <1>d DEF History

(* The same for a redo. *)
LEMMA HistoryRedone ==
    ASSUME NEW u \in Seq(Commands), NEW r \in Seq(Commands), NEW q \in Seq(Commands),
           NEW f \in Seq(Operations), NEW l \in Seq(Closures), NEW content \in SUBSET Int,
           NEW taken \in SUBSET Int, NEW era \in Eras, History(u, r, q, f, l, content, taken, era),
           l # <<>>, Head(l).kind = "outcome", Head(l).op.kind = "redo", Head(l).ok = TRUE,
           Head(l).op.gen = era.gen, r # <<>>, Last(r).id = Head(l).op.edit,
           \A e, ok : ~HasOutcome(Tail(l), "undo", e, ok) /\ ~HasOutcome(Tail(l), "redo", e, ok)
    PROVE  History(Append(u, Last(r)), Front(r), q, f, Tail(l), content, taken, era)
<1>h. /\ Places(u, r, q, f, l) /\ Fit(u, r, q, f, l, era)
      /\ Numbered(content, taken, era) /\ Document(u, r, q, f, l, content, taken, era)
  BY DEF History
<1>a. Head(l) \in Closures /\ Tail(l) \in Seq(Closures)
  BY HeadTail
<1>b. Head(l).op \in Operations /\ Head(l).ok \in BOOLEAN
  BY <1>a, ClosureKinds
<1>c. Head(l).op.edit \in Nat /\ Head(l).op.gen \in Nat
  BY <1>b DEF Operations
<1>0. PICK e0 : e0 \in Nat /\ e0 = Head(l).op.edit
  BY <1>c
<1>1. PICK m : m \in Seq(Closures) /\ m = Tail(l)
  BY <1>a
<1>2. /\ \A k, e, ok : HasOutcome(l, k, e, ok) <=> HasOutcome(m, k, e, ok) \/ IsOutcome(Head(l), k, e, ok)
      /\ DistinctOutcomes(m) /\ OutcomesFit(m, era) /\ Fits(e0, Head(l).op.gen, era)
  <2>1. DistinctOutcomes(l) /\ OutcomesFit(l, era)
    BY <1>h DEF Places, Fit
  <2> QED BY <1>a, <1>0, <1>1, <2>1, OutcomesTaken
<1>3. HasOutcome(l, Head(l).op.kind, e0, Head(l).ok)
  BY <1>a, <1>0, <1>2 DEF IsOutcome
<1>4. \A k, e, ok : k # Head(l).op.kind \/ e # e0 \/ ok # Head(l).ok =>
          (HasOutcome(l, k, e, ok) <=> HasOutcome(m, k, e, ok))
  BY <1>a, <1>0, <1>2 DEF IsOutcome
<1>5. \A e : Waiting(m, e) <=> Waiting(l, e)
  BY <1>4 DEF Waiting
<1>6. Distinct(r) /\ Distinct(u) /\ CommandsFit(r, era) /\ CommandsFit(u, era)
  BY <1>h DEF Places, Fit
<1>7. Last(r) \in Commands /\ Front(r) \in Seq(Commands)
  BY FrontOne
<1>8. PICK c : c \in Commands /\ c = Last(r)
  BY <1>7
<1>9. PICK s : s \in Seq(Commands) /\ s = Front(r)
  BY <1>7
<1>10. PICK t : t \in Seq(Commands) /\ t = Append(u, c)
  BY <1>8, AppendOne
<1>11. /\ \A e : Has(s, e) <=> Has(r, e) /\ e # e0
       /\ Distinct(s) /\ CommandsFit(s, era) /\ Fits(c.id, c.gen, era) /\ Has(r, e0)
  BY <1>0, <1>6, <1>8, <1>9, HasFront
<1>12. \A e : Has(t, e) <=> Has(u, e) \/ e = e0
  BY <1>0, <1>8, <1>10, HasAppended
<1>13. Has(r, e0) /\ ~Has(u, e0) /\ ~Has(q, e0) /\ ~Waiting(l, e0) /\ ~HasEdit(f, e0)
  <2>1. Apart(e0, u, r, q, f, l)
    BY <1>h, <1>0 DEF Places
  <2> QED BY <1>11, <2>1 DEF Apart
<1>14. Distinct(t) /\ CommandsFit(t, era)
  <2>1. ~Has(u, c.id)
    BY <1>0, <1>8, <1>13
  <2> QED BY <1>6, <1>8, <1>10, <1>11, <2>1, DistinctAppended, FitAppended
<1>15. e0 \in content \cup taken
  <2>1. era.since < e0
    BY <1>2 DEF Fits, Eras
  <2>2. Shown(e0, u, r, q, f, l, content, taken)
    BY <1>h, <1>0, <2>1 DEF Document
  <2> QED BY <1>3, <2>2 DEF Shown
<1>p. Places(t, s, q, f, m)
  <2>1. ASSUME NEW e \in Nat PROVE Apart(e, t, s, q, f, m)
    <3>1. Apart(e, u, r, q, f, l)
      BY <1>h DEF Places
    <3> QED BY <1>5, <1>11, <1>12, <1>13, <3>1 DEF Apart
  <2> QED BY <1>h, <1>2, <1>11, <1>14, <2>1 DEF Places
<1>d. Document(t, s, q, f, m, content, taken, era)
  <2>1. SUFFICES ASSUME NEW e \in Nat, era.since < e PROVE Shown(e, t, s, q, f, m, content, taken)
    BY DEF Document
  <2>2. Shown(e, u, r, q, f, l, content, taken)
    BY <1>h, <2>1 DEF Document
  <2>3. ~HasOutcome(m, "undo", e, TRUE) /\ ~HasOutcome(m, "redo", e, TRUE)
    BY <1>1
  <2>4. /\ HasOutcome(l, "edit", e, TRUE) <=> HasOutcome(m, "edit", e, TRUE)
        /\ HasOutcome(l, "edit", e, FALSE) <=> HasOutcome(m, "edit", e, FALSE)
    BY <1>4
  <2>5. CASE e # e0
    <3>1. ~HasOutcome(l, "undo", e, TRUE) /\ ~HasOutcome(l, "redo", e, TRUE)
      BY <1>4, <2>3, <2>5
    <3> QED BY <1>5, <1>11, <1>12, <2>2, <2>3, <2>4, <2>5, <3>1 DEF Shown
  <2>6. CASE e = e0
    <3>1. ~HasOutcome(l, "edit", e, TRUE) /\ ~HasOutcome(l, "edit", e, FALSE)
      BY <1>13, <2>6 DEF Waiting
    <3> QED BY <1>5, <1>11, <1>12, <1>13, <1>15, <2>3, <2>4, <2>6, <3>1 DEF Shown
  <2> QED BY <2>5, <2>6
<1>f. Fit(t, s, q, f, m, era)
  BY <1>h, <1>2, <1>11, <1>14 DEF Fit
<1> QED BY <1>h, <1>1, <1>8, <1>9, <1>10, <1>p, <1>f, <1>d DEF History

(* The queued commands are pushed. *)
LEMMA HistoryFlushed ==
    ASSUME NEW u \in Seq(Commands), NEW r \in Seq(Commands), NEW q \in Seq(Commands),
           NEW f \in Seq(Operations), NEW l \in Seq(Closures), NEW content \in SUBSET Int,
           NEW taken \in SUBSET Int, NEW era \in Eras, History(u, r, q, f, l, content, taken, era),
           \A e : ~HasOutcome(l, "redo", e, TRUE)
    PROVE  History(u \o q, IF q = <<>> THEN r ELSE <<>>, <<>>, f, l, content, taken, era)
<1>h. /\ Places(u, r, q, f, l) /\ Fit(u, r, q, f, l, era)
      /\ Numbered(content, taken, era) /\ Document(u, r, q, f, l, content, taken, era)
  BY DEF History
<1>1. CASE q = <<>>
  <2>1. u \o q = u
    BY <1>1
  <2> QED BY <1>1, <2>1
<1>2. CASE q # <<>>
  <2>1. PICK s : s \in Seq(Commands) /\ s = u \o q
    BY JoinedSequences
  <2>2. (\A e : Has(s, e) <=> Has(u, e) \/ Has(q, e)) /\ CommandsFit(s, era)
    BY <1>h, <2>1, HasJoined DEF Fit
  <2>3. Distinct(s)
    <3>1. \A e \in Nat : ~(Has(u, e) /\ Has(q, e))
      BY <1>h DEF Places, Apart
    <3> QED BY <1>h, <2>1, <3>1, DistinctJoined DEF Places
  <2>4. Distinct(<<>>) /\ CommandsFit(<<>>, era)
    BY DEF Distinct, CommandsFit
  <2>5. Places(s, <<>>, <<>>, f, l)
    <3>1. ASSUME NEW e \in Nat PROVE Apart(e, s, <<>>, <<>>, f, l)
      <4>1. Apart(e, u, r, q, f, l)
        BY <1>h DEF Places
      <4> QED BY <2>2, <4>1, HasEmpty DEF Apart
    <3> QED BY <1>h, <2>3, <2>4, <3>1 DEF Places
  <2>6. Document(s, <<>>, <<>>, f, l, content, taken, era)
    <3>1. SUFFICES ASSUME NEW e \in Nat, era.since < e PROVE Shown(e, s, <<>>, <<>>, f, l, content, taken)
      BY DEF Document
    <3>2. Shown(e, u, r, q, f, l, content, taken)
      BY <1>h, <3>1 DEF Document
    <3> QED BY <2>2, <3>2, HasEmpty DEF Shown
  <2>7. Fit(s, <<>>, <<>>, f, l, era)
    BY <1>h, <2>2, <2>4 DEF Fit
  <2> QED BY <1>h, <1>2, <2>1, <2>5, <2>6, <2>7 DEF History
<1> QED BY <1>1, <1>2
-----------------------------------------------------------------------------------
(* The history of the tab: what its stack, its operations and its closures    *)
(* hold, the step under way at its top, and no command queued when idle.      *)
HistoryNow == History(stack.undo, stack.redo, stack.queued, inflight, later, exec.content, exec.taken, Era)

Top(s, h) ==
    IF h.direction = "undo" THEN s.undo # <<>> /\ Last(s.undo) = h.command
                            ELSE s.redo # <<>> /\ Last(s.redo) = h.command

StepOnTop == step # None => step.id = ws.path /\ Top(stack, step)

QueuedIsBusy == stack.busy = FALSE => stack.queued = <<>>

HistoryInv == tab = "open" => HistoryNow /\ StepOnTop /\ QueuedIsBusy

(* A save of the map's own file keeps its path. *)
RequestsAim == \A r \in Requests : Held(r) => r.rebind \/ r.path = r.id

LEMMA HistoryFields ==
    ASSUME WorkspaceTypes
    PROVE  /\ stack.undo \in Seq(Commands) /\ stack.redo \in Seq(Commands) /\ stack.queued \in Seq(Commands)
           /\ inflight \in Seq(Operations) /\ later \in Seq(Closures)
           /\ exec.content \in SUBSET Int /\ exec.taken \in SUBSET Int /\ Era \in Eras
           /\ Era.edits = used.edits /\ Era.gen = view.gen /\ Era.since = view.since
<1>1. stack \in Stacks /\ exec \in Documents /\ used \in Bounds /\ view \in Views
  BY DEF WorkspaceTypes, SessionTypes, HistoryTypes
<1>2. stack.undo \in Seq(Commands) /\ stack.redo \in Seq(Commands) /\ stack.queued \in Seq(Commands)
  BY <1>1 DEF Stacks
<1>3. exec.content \in SUBSET Int /\ exec.taken \in SUBSET Int
  BY <1>1 DEF Documents
<1>4. used.edits \in Nat /\ view.gen \in Nat /\ view.since \in Nat
  BY <1>1 DEF Bounds, Views
<1>5. Era.edits = used.edits /\ Era.gen = view.gen /\ Era.since = view.since
  BY DEF Era
<1>6. Era \in Eras
  BY <1>4 DEF Era, Eras
<1> QED
  BY <1>2, <1>3, <1>5, <1>6 DEF WorkspaceTypes, SessionTypes

(* What most actions do to the history: nothing, but another closure may come *)
(* or go.                                                                     *)
Passes ==
    \/ later' = later
    \/ \E c \in Closures : c.kind # "outcome" /\ later' = Append(later, c)
    \/ later # <<>> /\ Head(later).kind # "outcome" /\ later' = Tail(later)

StepStays ==
    \/ step' = None
    \/ /\ step # None /\ ws'.path = ws.path
       /\ step'.direction = step.direction /\ step'.command = step.command /\ step'.id = step.id

StackStays ==
    /\ stack'.undo = stack.undo /\ stack'.redo = stack.redo
    /\ stack'.queued = stack.queued /\ stack'.busy = stack.busy

EraStays == used'.edits = used.edits /\ view'.gen = view.gen /\ view'.since = view.since

Quiet == exec' = exec /\ inflight' = inflight /\ Passes /\ StepStays /\ StackStays /\ EraStays

LEMMA EraKept == ASSUME EraStays PROVE Era' = Era
BY DEF EraStays, Era

LEMMA HistoryPasses ==
    ASSUME WorkspaceTypes, HistoryNow, Passes
    PROVE  History(stack.undo, stack.redo, stack.queued, inflight, later', exec.content, exec.taken, Era)
<1>1. /\ stack.undo \in Seq(Commands) /\ stack.redo \in Seq(Commands) /\ stack.queued \in Seq(Commands)
      /\ inflight \in Seq(Operations) /\ later \in Seq(Closures)
      /\ exec.content \in SUBSET Int /\ exec.taken \in SUBSET Int /\ Era \in Eras
  BY HistoryFields
<1>2. History(stack.undo, stack.redo, stack.queued, inflight, later, exec.content, exec.taken, Era)
  BY DEF HistoryNow
<1>3. CASE later' = later
  BY <1>2, <1>3
<1>4. CASE \E c \in Closures : c.kind # "outcome" /\ later' = Append(later, c)
  BY <1>1, <1>2, <1>4, HistoryOtherAdded
<1>5. CASE later # <<>> /\ Head(later).kind # "outcome" /\ later' = Tail(later)
  BY <1>1, <1>2, <1>5, HistoryOtherRun
<1> QED
  BY <1>3, <1>4, <1>5 DEF Passes

LEMMA QuietStep ==
    ASSUME WorkspaceTypes, HistoryInv, tab = "open", Quiet
    PROVE  HistoryInv'
<1>1. HistoryNow'
  <2>1. History(stack.undo, stack.redo, stack.queued, inflight, later', exec.content, exec.taken, Era)
    BY HistoryPasses DEF HistoryInv, Quiet
  <2> QED
    BY <2>1, EraKept DEF HistoryNow, Quiet, StackStays
<1>2. StepOnTop'
  BY DEF HistoryInv, StepOnTop, Top, Quiet, StackStays, StepStays
<1>3. QueuedIsBusy'
  BY DEF HistoryInv, QueuedIsBusy, Quiet, StackStays
<1> QED
  BY <1>1, <1>2, <1>3 DEF HistoryInv
-----------------------------------------------------------------------------------
(* Neither the bounds but one nor the gesture count for the history. *)
LEMMA SpendsNoEdit ==
    ASSUME used \in Bounds, NEW b \in {"commands", "disturbances"}, Spend(b)
    PROVE  used'.edits = used.edits
BY DEF Bounds, Spend

LEMMA CommandNoEdit == ASSUME used \in Bounds, Command PROVE used'.edits = used.edits
BY SpendsNoEdit DEF Command

LEMMA DisturbNoEdit == ASSUME used \in Bounds, Disturb PROVE used'.edits = used.edits
BY SpendsNoEdit DEF Disturb

LEMMA SaveNoEdit ==
    ASSUME used \in Bounds, NEW w, NEW s, NEW j, NEW path, NEW expected, NEW rebind, NEW closing,
           SaveAtPath(w, s, j, path, expected, rebind, closing)
    PROVE  used'.edits = used.edits
BY CommandNoEdit DEF SaveAtPath

LEMMA BoundNoEdit ==
    ASSUME NEW u \in Bounds, NEW m \in Nat, NEW n \in Nat
    PROVE  /\ [u EXCEPT !.disturbances = m, !.versions = n].edits = u.edits
           /\ [u EXCEPT !.versions = n, !.disturbances = m].edits = u.edits
<1>1. PICK v \in Bounds : v = [u EXCEPT !.disturbances = m]
  BY BoundField
<1>2. [u EXCEPT !.disturbances = m, !.versions = n] = [v EXCEPT !.versions = n]
  BY <1>1
<1>3. PICK w \in Bounds : w = [u EXCEPT !.versions = n]
  BY BoundField
<1>4. [u EXCEPT !.versions = n, !.disturbances = m] = [w EXCEPT !.disturbances = m]
  BY <1>3
<1>5. v.edits = u.edits /\ w.edits = u.edits
  BY <1>1, <1>3 DEF Bounds
<1>6. [v EXCEPT !.versions = n].edits = v.edits /\ [w EXCEPT !.disturbances = m].edits = w.edits
  BY DEF Bounds
<1> QED
  BY <1>2, <1>4, <1>5, <1>6

LEMMA ReplaceNoEdit ==
    ASSUME WorkspaceTypes, NEW outcome \in {"replaced", "refused", "unsynced"}, WorkerReplace(outcome)
    PROVE  used'.edits = used.edits
<1>1. used \in Bounds /\ {used.disturbances, used.versions} \subseteq Nat
  BY DEF WorkspaceTypes, SessionTypes, Bounds
<1>2. PICK m \in Nat : m = IF outcome = "replaced" THEN used.disturbances ELSE used.disturbances + 1
  BY <1>1
<1>3. PICK n \in Nat : n = IF outcome = "refused" THEN used.versions ELSE used.versions + 1
  BY <1>1
<1>4. used' = [used EXCEPT !.versions = n, !.disturbances = m]
  BY <1>2, <1>3 DEF WorkerReplace
<1> QED
  BY <1>1, <1>4, BoundNoEdit

LEMMA OutsideNoEdit ==
    ASSUME WorkspaceTypes, NEW p \in Paths, NEW deleted \in BOOLEAN, OutsideWrite(p, deleted)
    PROVE  used'.edits = used.edits
<1>1. used \in Bounds /\ used.disturbances + 1 \in Nat /\ used.versions + 1 \in Nat
  BY DEF WorkspaceTypes, SessionTypes, Bounds
<1>2. PICK m \in Nat, n \in Nat : m = used.disturbances + 1 /\ n = used.versions + 1
  BY <1>1
<1>3. used' = [used EXCEPT !.disturbances = m, !.versions = n]
  BY <1>2 DEF OutsideWrite
<1> QED
  BY <1>1, <1>3, BoundNoEdit

LEMMA GestureEra ==
    ASSUME NEW v \in Views, NEW gesture \in {"none", "stroke", "move"}
    PROVE  [v EXCEPT !.gesture = gesture].gen = v.gen /\ [v EXCEPT !.gesture = gesture].since = v.since
BY DEF Views

LEMMA RefreshedEra ==
    ASSUME view \in Views, exec \in Documents
    PROVE  Refreshed(view).gen = view.gen /\ Refreshed(view).since = view.since
BY DEF Refreshed, Views, Documents

(* The history is left alone, *)
LEMMA HistoryStays ==
    ASSUME UNCHANGED <<stack, step>>, ws'.path = ws.path
    PROVE  StackStays /\ StepStays
BY DEF StackStays, StepStays

(* by a save that begins, *)
LEMMA SaveIsQuiet ==
    ASSUME WorkspaceTypes, NEW w, NEW s, NEW j, NEW path, NEW expected, NEW rebind, NEW closing,
           SaveAtPath(w, s, j, path, expected, rebind, closing) \/ UNCHANGED used,
           UNCHANGED <<exec, inflight, later, view, stack, step, ws>>
    PROVE  Quiet
<1>1. used \in Bounds
  BY DEF WorkspaceTypes, SessionTypes
<1>2. used'.edits = used.edits
  BY <1>1, SaveNoEdit
<1> QED
  BY <1>2, HistoryStays DEF Quiet, Passes, EraStays

(* by the save worker, *)
LEMMA DeliverPasses ==
    ASSUME WorkspaceTypes, worker # None, NEW result \in Results, Deliver(result)
    PROVE  Passes
<1>1. worker.request \in Requests
  BY DEF WorkspaceTypes, DiskTypes, Workers
<1>2. PICK c : c \in Closures /\ c = [kind |-> "saved", request |-> worker.request, result |-> result]
  BY <1>1, ClosureForms
<1>3. c.kind = "saved"
  BY <1>2
<1>4. later' = Append(later, c)
  BY <1>2 DEF Deliver
<1> QED
  BY <1>2, <1>3, <1>4 DEF Passes

(* and by the end of a save: a history under way keeps the path of the tab. *)
LEMMA FinishIsQuiet ==
    ASSUME WorkspaceTypes, BusyIsStep, RequestsAim, FinishSave, tab' = "open"
    PROVE  Quiet
<1>1. PICK request \in Requests, result \in Results :
         /\ later # <<>> /\ Head(later).kind = "saved" /\ later' = Tail(later)
         /\ Head(later).request = request /\ Head(later).result = result /\ result.ver \in Nat
         /\ UNCHANGED <<exec, inflight, step, agreed>>
         /\ \/ job = None /\ UNCHANGED <<ws, job, view, stack, worker, dialogs, tab, files, used>>
            \/ /\ job # None /\ result.outcome = "saved" /\ ws.path = request.id
               /\ request.rebind => ~stack.busy
               /\ FinishSaved(job, request, result.ver) /\ UNCHANGED files
            \/ job # None /\ FinishFailed(request, result)
  BY FinishCases
<1>2. stack \in Stacks /\ used \in Bounds /\ later \in Seq(Closures) /\ ws \in Tabs
  BY DEF WorkspaceTypes, SessionTypes, HistoryTypes, DiskTypes
<1>3. Passes
  BY <1>1 DEF Passes
<1>4. CASE job = None /\ UNCHANGED <<ws, job, view, stack, worker, dialogs, tab, files, used>>
  BY <1>1, <1>3, <1>4, HistoryStays DEF Quiet, EraStays
<1>5. CASE job # None /\ FinishFailed(request, result)
  <2>1. UNCHANGED <<view, stack, used>> /\ (ws' = ws \/ ws' = [ws EXCEPT !.conflict = TRUE])
    BY <1>5 DEF FinishFailed
  <2>2. ws'.path = ws.path
    BY <1>2, <2>1 DEF Tabs
  <2> QED
    BY <1>1, <1>3, <2>1, <2>2, HistoryStays DEF Quiet, EraStays
<1>6. CASE /\ job # None /\ result.outcome = "saved" /\ ws.path = request.id
           /\ request.rebind => ~stack.busy
           /\ FinishSaved(job, request, result.ver) /\ UNCHANGED files
  <2>1. PICK w \in Tabs :
           /\ w = SavedWorkspace(request, result.ver) /\ ws' = w
           /\ \/ /\ UNCHANGED <<view, tab, dialogs>>
                 /\ stack' = stack \/ stack' = ForceBalance(stack)
                 /\ \/ Refuses(None)
                    \/ \E s : Starts(None, w, s, w.path, w.disk, FALSE)
              \/ /\ Dispose("saved") /\ UNCHANGED <<worker, used>>
                 /\ SaveCaptureReady(request) /\ ~HasUnsavedChanges(w, None, ForceBalance(stack))
    BY <1>1, <1>6, FinishSavedCases
  <2>2. tab' # "saved"
    OBVIOUS
  <2>3. /\ UNCHANGED view /\ (stack' = stack \/ stack' = ForceBalance(stack))
        /\ Command \/ UNCHANGED used
    BY <2>1, <2>2 DEF Dispose, Refuses, Starts
  <2>4. EraStays
    BY <1>2, <2>3, CommandNoEdit DEF EraStays
  <2>5. StackStays
    <3>1. CASE stack' = stack
      BY <3>1 DEF StackStays
    <3>2. CASE stack' = ForceBalance(stack)
      BY <1>2, <3>2, ForceBalanceResult DEF StackStays, IsStack
    <3> QED
      BY <2>3, <3>1, <3>2
  <2>6. ws'.path = request.path
    BY <2>1 DEF SavedWorkspace
  <2>7. step = None \/ ws'.path = ws.path
    <3>1. Held(request)
      BY <1>1, <1>2, HeadTail DEF Held
    <3> QED
      BY <1>6, <2>6, <3>1 DEF RequestsAim, BusyIsStep
  <2>8. StepStays
    BY <1>1, <2>7 DEF StepStays
  <2> QED
    BY <1>1, <1>3, <2>4, <2>5, <2>8 DEF Quiet
<1> QED
  BY <1>1, <1>4, <1>5, <1>6

(* The actions that change it. *)
Loud ==
    \/ \E accepted \in BOOLEAN : Settle(accepted)
    \/ \E overwritten \in {{}} \cup {{e} : e \in 1 .. used.edits} : RemoteEdit(overwritten)
    \/ CommitOperation(TRUE)
    \/ \E content \in {exec.content, {}} : Reattach(content)
    \/ \E direction \in {"undo", "redo"} : BeginHistoryStep(direction)
    \/ RunHistoryWaited \/ RunHistoryInverse \/ RunEditOutcome \/ RunHistoryOutcome

LEMMA QuietOrLoud ==
    ASSUME WorkspaceTypes, BusyIsStep, RequestsAim, tab' = "open", Next
    PROVE  Quiet \/ Loud
<1> USE DEF history, saving, disk
<1>1. ASSUME NEW accepted \in BOOLEAN, Settle(accepted) PROVE Quiet \/ Loud
  BY <1>1 DEF Loud
<1>2. ASSUME NEW overwritten \in {{}} \cup {{e} : e \in 1 .. used.edits}, RemoteEdit(overwritten)
      PROVE  Quiet \/ Loud
  BY <1>2 DEF Loud
<1>3. ASSUME NEW path \in Paths, NEW deleted \in BOOLEAN, OutsideWrite(path, deleted) PROVE Quiet \/ Loud
  <2>1. used'.edits = used.edits
    BY <1>3, OutsideNoEdit
  <2> QED
    BY <1>3, <2>1, HistoryStays DEF OutsideWrite, Quiet, Passes, EraStays
<1>4. ASSUME NEW kind \in {"stroke", "move"}, BeginGesture(kind) PROVE Quiet \/ Loud
  <2>1. used'.edits = used.edits /\ view'.gen = view.gen /\ view'.since = view.since
    BY <1>4, CommandNoEdit, GestureEra DEF BeginGesture, WorkspaceTypes, SessionTypes
  <2> QED
    BY <1>4, <2>1, HistoryStays DEF BeginGesture, Quiet, Passes, EraStays
<1>5. ASSUME NEW changed \in BOOLEAN, CommitOperation(changed) PROVE Quiet \/ Loud
  <2>1. CASE changed = TRUE
    BY <1>5, <2>1 DEF Loud
  <2>2. CASE changed = FALSE
    <3>1. view' = [view EXCEPT !.gesture = "none"] /\ used' = [used EXCEPT !.commands = @ - 1]
      BY <1>5, <2>2 DEF CommitOperation
    <3>2. view \in Views /\ used \in Bounds
      BY DEF WorkspaceTypes, SessionTypes
    <3>3. view'.gen = view.gen /\ view'.since = view.since
      BY <3>1, <3>2, GestureEra
    <3>4. used'.edits = used.edits
      BY <3>1, <3>2 DEF Bounds
    <3> QED
      BY <1>5, <2>2, <3>3, <3>4, HistoryStays DEF CommitOperation, Quiet, Passes, EraStays
  <2> QED
    BY <2>1, <2>2
<1>6. ASSUME NEW content \in {exec.content, {}}, Reattach(content) PROVE Quiet \/ Loud
  BY <1>6 DEF Loud
<1>7. ASSUME NEW direction \in {"undo", "redo"}, BeginHistoryStep(direction) PROVE Quiet \/ Loud
  BY <1>7 DEF Loud
<1>8. CASE Save
  BY <1>8, SaveIsQuiet DEF Save
<1>9. ASSUME NEW path \in Paths, SaveAs(path) PROVE Quiet \/ Loud
  BY <1>9, SaveIsQuiet DEF SaveAs
<1>10. ASSUME NEW d \in dialogs, ConfirmReplace(d) PROVE Quiet \/ Loud
  BY <1>10, SaveIsQuiet DEF ConfirmReplace
<1>11. ASSUME NEW d \in dialogs, ConfirmOverwrite(d) PROVE Quiet \/ Loud
  BY <1>11, SaveIsQuiet DEF ConfirmOverwrite
<1>12. ASSUME NEW d \in dialogs, CancelDialog(d) PROVE Quiet \/ Loud
  BY <1>12, HistoryStays DEF CancelDialog, Quiet, Passes, EraStays
<1>13. CASE CloseTab
  <2>1. UNCHANGED <<view, stack>>
    BY <1>13 DEF CloseTab, Dispose
  <2> QED
    BY <1>13, <2>1, HistoryStays DEF CloseTab, Quiet, Passes, EraStays
<1>14. ASSUME NEW d \in dialogs, CloseSaving(d) PROVE Quiet \/ Loud
  BY <1>14, SaveIsQuiet DEF CloseSaving
<1>15. ASSUME NEW d \in dialogs, CloseDiscarding(d) PROVE Quiet \/ Loud
  BY <1>15 DEF CloseDiscarding, Dispose
<1>16. CASE HistoryWaitOver
  <2>1. step \in Steps
    BY <1>16 DEF HistoryWaitOver, WorkspaceTypes, HistoryTypes
  <2>2. step' = [step EXCEPT !.pc = "waited"]
    BY <1>16 DEF HistoryWaitOver
  <2>3. /\ step # None
        /\ step'.direction = step.direction
        /\ step'.command = step.command
        /\ step'.id = step.id
    BY <2>1, <2>2, StepPc, NotNone
  <2>4. used'.edits = used.edits
    BY <1>16, DisturbNoEdit DEF HistoryWaitOver, WorkspaceTypes, SessionTypes
  <2>5. PICK c : c \in Closures /\ c = [kind |-> "waited"]
    BY ClosureForms
  <2>6. c.kind # "outcome" /\ later' = Append(later, c)
    BY <1>16, <2>5 DEF HistoryWaitOver
  <2> QED
    BY <1>16, <2>3, <2>4, <2>5, <2>6 DEF HistoryWaitOver, Quiet, Passes, StepStays, StackStays, EraStays
<1>17. CASE PrepareHistoryInverse
  <2>1. step \in Steps
    BY <1>17 DEF PrepareHistoryInverse, WorkspaceTypes, HistoryTypes
  <2>2. step' = [step EXCEPT !.pc = "prepared"]
    BY <1>17 DEF PrepareHistoryInverse
  <2>3. /\ step # None
        /\ step'.direction = step.direction
        /\ step'.command = step.command
        /\ step'.id = step.id
    BY <2>1, <2>2, StepPc, NotNone
  <2>4. used'.edits = used.edits
    BY <1>17 DEF PrepareHistoryInverse
  <2>5. PICK c \in Closures : c = [kind |-> "inverse", ok |-> step.command.id \in exec.content]
    <3>1. (step.command.id \in exec.content) \in BOOLEAN
      OBVIOUS
    <3> QED
      BY <3>1, ClosureForms
  <2>6. c.kind # "outcome" /\ later' = Append(later, c)
    BY <1>17, <2>5 DEF PrepareHistoryInverse
  <2> QED
    BY <1>17, <2>3, <2>4, <2>5, <2>6
       DEF PrepareHistoryInverse, Quiet, Passes, StepStays, StackStays, EraStays
<1>18. ASSUME NEW outcome \in {"ok", "error", "declined"}, WorkerStage(outcome) PROVE Quiet \/ Loud
  <2>1. used'.edits = used.edits
    BY <1>18, DisturbNoEdit DEF WorkerStage, WorkspaceTypes, SessionTypes
  <2>2. outcome # "ok" => Result(outcome, 0) \in Results
    BY DEF Result, Results
  <2>3. Passes
    <3>1. CASE outcome = "ok"
      BY <1>18, <3>1 DEF WorkerStage, Passes
    <3>2. CASE outcome # "ok"
      BY <1>18, <2>2, <3>2, DeliverPasses DEF WorkerStage, Working
    <3> QED
      BY <3>1, <3>2
  <2> QED
    BY <1>18, <2>1, <2>3, HistoryStays DEF WorkerStage, Quiet, EraStays
<1>19. CASE WorkerCheck
  BY <1>19, HistoryStays DEF WorkerCheck, Quiet, Passes, EraStays
<1>20. ASSUME NEW outcome \in {"replaced", "refused", "unsynced"}, WorkerReplace(outcome)
       PROVE  Quiet \/ Loud
  <2>1. used'.edits = used.edits
    BY <1>20, ReplaceNoEdit
  <2>2. Result("error", 0) \in Results
    BY DEF Result, Results
  <2>3. Passes
    <3>1. CASE outcome = "replaced"
      BY <1>20, <3>1 DEF WorkerReplace, Passes
    <3>2. CASE outcome # "replaced"
      BY <1>20, <2>2, <3>2, DeliverPasses DEF WorkerReplace, Working
    <3> QED
      BY <3>1, <3>2
  <2> QED
    BY <1>20, <2>1, <2>3, HistoryStays DEF WorkerReplace, Quiet, EraStays
<1>21. CASE WorkerVerify
  <2>1. CASE UNCHANGED later
    BY <1>21, <2>1, HistoryStays DEF WorkerVerify, Quiet, Passes, EraStays
  <2>2. CASE Deliver(Result("saved", worker.seen))
    <3>1. files[worker.request.path].ver = worker.seen \/ UNCHANGED later
      BY <1>21 DEF WorkerVerify
    <3>2. worker \in Workers /\ worker # None /\ files \in [Paths -> Contents]
      BY <1>21 DEF WorkerVerify, Working, WorkspaceTypes, DiskTypes
    <3>3. files[worker.request.path].ver \in Nat
      BY <3>2 DEF Workers, Requests, Contents
    <3>4. CASE files[worker.request.path].ver = worker.seen
      <4>1. Result("saved", worker.seen) \in Results
        BY <3>3, <3>4 DEF Result, Results
      <4>2. Passes
        BY <2>2, <3>2, <4>1, DeliverPasses
      <4> QED
        BY <1>21, <4>2, HistoryStays DEF WorkerVerify, Quiet, EraStays
    <3> QED
      BY <2>1, <3>1, <3>4
  <2> QED
    BY <1>21, <2>1, <2>2 DEF WorkerVerify
<1>22. ASSUME NEW read \in BOOLEAN, WorkerCaptureConflict(read) PROVE Quiet \/ Loud
  <2>1. used'.edits = used.edits
    BY <1>22, DisturbNoEdit DEF WorkerCaptureConflict, WorkspaceTypes, SessionTypes
  <2>2. worker \in Workers /\ worker # None /\ files \in [Paths -> Contents]
    BY <1>22 DEF WorkerCaptureConflict, Working, WorkspaceTypes, DiskTypes
  <2>3. files[worker.request.path].ver \in Nat
    BY <2>2 DEF Workers, Requests, Contents
  <2>4. PICK result \in Results : Deliver(result)
    BY <1>22, <2>3 DEF WorkerCaptureConflict, Result, Results
  <2>5. Passes
    BY <2>2, <2>4, DeliverPasses
  <2> QED
    BY <1>22, <2>1, <2>5, HistoryStays DEF WorkerCaptureConflict, Quiet, EraStays
<1>23. CASE ProcessCollaborationUpdates
  <2>1. view'.gen = view.gen /\ view'.since = view.since
    BY <1>23, RefreshedEra DEF ProcessCollaborationUpdates, WorkspaceTypes, SessionTypes
  <2> QED
    BY <1>23, <2>1, HistoryStays DEF ProcessCollaborationUpdates, Quiet, Passes, EraStays
<1>24. CASE RunHistoryWaited
  BY <1>24 DEF Loud
<1>25. CASE RunHistoryInverse
  BY <1>25 DEF Loud
<1>26. CASE RunEditOutcome
  BY <1>26 DEF Loud
<1>27. CASE RunHistoryOutcome
  BY <1>27 DEF Loud
<1>28. CASE FinishSave
  BY <1>28, FinishIsQuiet
<1> QED
  BY <1>1, <1>2, <1>3, <1>4, <1>5, <1>6, <1>7, <1>8, <1>9, <1>10, <1>11, <1>12, <1>13,
     <1>14, <1>15, <1>16, <1>17, <1>18, <1>19, <1>20, <1>21, <1>22, <1>23, <1>24, <1>25,
     <1>26, <1>27, <1>28
     DEF Next, Environment, User, Background, UIThread

-----------------------------------------------------------------------------------
(* No outcome of an undo or redo is on the way to the UI thread. *)
NoStepOutcome(l) == \A e, ok : ~HasOutcome(l, "undo", e, ok) /\ ~HasOutcome(l, "redo", e, ok)

LEMMA NoneIsStepOutcome ==
    ASSUME NEW l, \A i \in 1 .. Len(l) : ~HistoryClosure(l[i])
    PROVE  NoStepOutcome(l)
BY DEF NoStepOutcome, HasOutcome, IsOutcome, HistoryClosure

LEMMA LastIsThere ==
    ASSUME NEW s \in Seq(Commands), s # <<>>
    PROVE  Has(s, Last(s).id)
<1>1. Last(s) = s[Len(s)] /\ Len(s) \in 1 .. Len(s)
  BY FrontOne
<1> QED
  BY <1>1 DEF Has

(* What the outcome of a step names is at the top. *)
LEMMA OutcomeOnTop ==
    ASSUME WorkspaceTypes, Tokens, StepOnTop, NEW k \in {"undo", "redo"}, NEW e, NEW ok, HasOutcome(later, k, e, ok)
    PROVE  Has(IF k = "undo" THEN stack.undo ELSE stack.redo, e)
<1>1. PICK i \in 1 .. Len(later) : IsOutcome(later[i], k, e, ok)
  BY DEF HasOutcome
<1>2. HistoryClosure(later[i])
  BY <1>1 DEF IsOutcome, HistoryClosure
<1>3. step # None /\ SentByStep(later[i].op)
  BY <1>1, <1>2 DEF IsOutcome, Tokens, ClosuresBelong
<1>4. step.direction = k /\ step.command.id = e
  BY <1>1, <1>3 DEF SentByStep, IsOutcome
<1>5. Top(stack, step)
  BY <1>3 DEF StepOnTop
<1>6. stack.undo \in Seq(Commands) /\ stack.redo \in Seq(Commands)
  BY HistoryFields
<1> QED
  BY <1>4, <1>5, <1>6, LastIsThere DEF Top

LEMMA OperationOnTop ==
    ASSUME WorkspaceTypes, Tokens, StepOnTop, inflight # <<>>, Head(inflight).kind \in {"undo", "redo"}
    PROVE  /\ Has(IF Head(inflight).kind = "undo" THEN stack.undo ELSE stack.redo, Head(inflight).edit)
           /\ NoStepOutcome(later)
<1>1. stack.undo \in Seq(Commands) /\ stack.redo \in Seq(Commands) /\ inflight \in Seq(Operations)
  BY HistoryFields
<1>2. 1 \in 1 .. Len(inflight) /\ Head(inflight) = inflight[1]
  BY <1>1, HeadTail
<1>3. HistoryOperation(inflight[1])
  BY <1>2 DEF HistoryOperation
<1>4. step # None /\ SentByStep(inflight[1])
  BY <1>2, <1>3 DEF Tokens, OperationsBelong
<1>5. step.direction = Head(inflight).kind /\ step.command.id = Head(inflight).edit
  BY <1>2, <1>4 DEF SentByStep
<1>6. Top(stack, step)
  BY <1>4 DEF StepOnTop
<1>7. NoStepOutcome(later)
  BY <1>2, <1>3, NoneIsStepOutcome DEF Tokens, OneOrTheOther
<1> QED
  BY <1>1, <1>5, <1>6, <1>7, LastIsThere DEF Top

LEMMA AcceptedFields ==
    ASSUME NEW d \in Documents, NEW content \in SUBSET Int
    PROVE  /\ [d EXCEPT !.rev = @ + 1, !.content = content].content = content
           /\ [d EXCEPT !.rev = @ + 1, !.content = content].taken = d.taken
<1>1. d.rev + 1 \in Nat
  BY DEF Documents
<1>2. PICK e \in Documents : e = [d EXCEPT !.rev = d.rev + 1] /\ e.taken = d.taken
  BY <1>1, DocumentField DEF Documents
<1>3. [d EXCEPT !.rev = @ + 1, !.content = content] = [e EXCEPT !.content = content]
  BY <1>2
<1>4. [e EXCEPT !.content = content].content = content /\ [e EXCEPT !.content = content].taken = e.taken
  BY DEF Documents
<1> QED
  BY <1>2, <1>3, <1>4

(* The session accepts or rejects an operation. *)
LEMMA SettleHistory ==
    ASSUME AnswerInv, HistoryInv, tab = "open", NEW accepted \in BOOLEAN, Settle(accepted)
    PROVE  HistoryInv'
<1> USE DEF history, saving, disk
<1>1. /\ stack.undo \in Seq(Commands) /\ stack.redo \in Seq(Commands) /\ stack.queued \in Seq(Commands)
      /\ inflight \in Seq(Operations) /\ later \in Seq(Closures)
      /\ exec.content \in SUBSET Int /\ exec.taken \in SUBSET Int /\ Era \in Eras
  BY HistoryFields DEF AnswerInv
<1>2. WorkspaceTypes /\ Tokens /\ StepOnTop /\ HistoryNow /\ exec \in Documents /\ used \in Bounds
  BY DEF AnswerInv, HistoryInv, WorkspaceTypes, SessionTypes
<1>3. inflight # <<>> /\ inflight' = Tail(inflight) /\ UNCHANGED <<view, stack, step, ws, tab>>
  BY DEF Settle, HasUnacknowledgedOperations
<1>4. PICK op \in Operations : op = Head(inflight)
  BY <1>1, <1>3, HeadTail
<1>5. op.edit \in Nat /\ op.kind \in {"edit", "undo", "redo"}
  BY DEF Operations
<1>6. PICK c : c \in Closures /\ c = [kind |-> "outcome", op |-> op, ok |-> accepted]
  BY ClosureForms
<1>7. later' = Append(later, c)
  BY <1>4, <1>6 DEF Settle
<1>8. used'.edits = used.edits
  BY <1>2, DisturbNoEdit DEF Settle
<1>9. Era' = Era
  BY <1>3, <1>8, EraKept DEF EraStays
<1>10. PICK after \in SUBSET Int :
          after = IF ~accepted THEN exec.content
                  ELSE IF op.kind = "undo" THEN exec.content \ {op.edit} ELSE exec.content \cup {op.edit}
  <2>1. exec.content \ {op.edit} \in SUBSET Int /\ exec.content \cup {op.edit} \in SUBSET Int
    BY <1>1, <1>5
  <2>2. CASE accepted = FALSE
    BY <1>1, <2>2
  <2>3. CASE accepted = TRUE /\ op.kind = "undo"
    BY <2>1, <2>3
  <2>4. CASE accepted = TRUE /\ op.kind # "undo"
    BY <2>1, <2>4
  <2> QED
    BY <2>2, <2>3, <2>4
<1>11. exec'.content = after /\ exec'.taken = exec.taken
  <2>1. CASE accepted = FALSE
    BY <1>10, <2>1 DEF Settle
  <2>2. CASE accepted = TRUE
    <3>1. exec' = [exec EXCEPT !.rev = @ + 1, !.content = after]
      BY <1>4, <1>10, <2>2 DEF Settle
    <3> QED
      BY <1>2, <3>1, AcceptedFields
  <2> QED
    BY <2>1, <2>2
<1>12. accepted => Applicable(op)
  BY <1>4 DEF Settle
<1>13. History(stack.undo, stack.redo, stack.queued, inflight, later, exec.content, exec.taken, Era)
  BY <1>2 DEF HistoryNow
<1>14. History(stack.undo, stack.redo, stack.queued, Tail(inflight), Append(later, c), after, exec.taken, Era)
  <2>1. CASE op.kind = "edit"
    <3>1. HasEdit(inflight, op.edit)
      BY <1>1, <1>3, <1>4, <2>1, HeadTail DEF HasEdit
    <3>2. ASSUME NEW k \in BOOLEAN
          PROVE  ~HasOutcome(later, "undo", op.edit, k) /\ ~HasOutcome(later, "redo", op.edit, k)
      <4>1. ~Has(stack.undo, op.edit) /\ ~Has(stack.redo, op.edit)
        BY <1>5, <1>13, <3>1 DEF History, Places, Apart
      <4>2. HasOutcome(later, "undo", op.edit, k) => Has(stack.undo, op.edit)
        BY <1>2, OutcomeOnTop
      <4>3. HasOutcome(later, "redo", op.edit, k) => Has(stack.redo, op.edit)
        BY <1>2, OutcomeOnTop
      <4> QED
        BY <4>1, <4>2, <4>3
    <3>3. accepted => op.edit \notin exec.content \cup exec.taken
      BY <1>12, <2>1 DEF Applicable
    <3>4. after = IF accepted THEN exec.content \cup {op.edit} ELSE exec.content
      BY <1>10, <2>1
    <3>5. /\ Head(inflight).kind = "edit" /\ c = [kind |-> "outcome", op |-> Head(inflight), ok |-> accepted]
          /\ \A k \in BOOLEAN : /\ ~HasOutcome(later, "undo", Head(inflight).edit, k)
                               /\ ~HasOutcome(later, "redo", Head(inflight).edit, k)
          /\ accepted => Head(inflight).edit \notin exec.content \cup exec.taken
          /\ after = IF accepted THEN exec.content \cup {Head(inflight).edit} ELSE exec.content
      BY <1>4, <1>6, <2>1, <3>2, <3>3, <3>4
    <3> QED
      BY <1>1, <1>3, <1>6, <1>13, <3>5, HistoryEditSettled
  <2>2. CASE op.kind \in {"undo", "redo"}
    <3>1. /\ op.kind = "undo" => Has(stack.undo, op.edit)
          /\ op.kind = "redo" => Has(stack.redo, op.edit)
          /\ NoStepOutcome(later)
      BY <1>2, <1>3, <1>4, <2>2, OperationOnTop
    <3>2. accepted /\ op.kind = "redo" => op.edit \notin exec.content \cup exec.taken
      BY <1>12 DEF Applicable
    <3>3. \A e, b : ~HasOutcome(later, "undo", e, b) /\ ~HasOutcome(later, "redo", e, b)
      BY <3>1 DEF NoStepOutcome
    <3>4. /\ Head(inflight).kind \in {"undo", "redo"}
          /\ c = [kind |-> "outcome", op |-> Head(inflight), ok |-> accepted]
          /\ Head(inflight).kind = "undo" => Has(stack.undo, Head(inflight).edit)
          /\ Head(inflight).kind = "redo" => Has(stack.redo, Head(inflight).edit)
          /\ accepted /\ Head(inflight).kind = "redo" => Head(inflight).edit \notin exec.content \cup exec.taken
      BY <1>4, <1>6, <2>2, <3>1, <3>2
    <3>5. after = IF ~accepted THEN exec.content
                  ELSE IF Head(inflight).kind = "undo" THEN exec.content \ {Head(inflight).edit}
                  ELSE exec.content \cup {Head(inflight).edit}
      BY <1>4, <1>10
    <3> QED
      BY <1>1, <1>3, <1>6, <1>13, <3>3, <3>4, <3>5, HistoryStepSettled
  <2> QED
    BY <1>5, <2>1, <2>2
<1>15. HistoryNow'
  BY <1>3, <1>7, <1>9, <1>11, <1>14 DEF HistoryNow
<1> QED
  BY <1>3, <1>15 DEF HistoryInv, StepOnTop, Top, QueuedIsBusy

(* Another participant takes a tile, or not. *)
LEMMA RemoteHistory ==
    ASSUME AnswerInv, HistoryInv, tab = "open", NEW overwritten \in {{}} \cup {{e} : e \in 1 .. used.edits},
           RemoteEdit(overwritten)
    PROVE  HistoryInv'
<1> USE DEF history, saving, disk
<1>1. /\ stack.undo \in Seq(Commands) /\ stack.redo \in Seq(Commands) /\ stack.queued \in Seq(Commands)
      /\ inflight \in Seq(Operations) /\ later \in Seq(Closures)
      /\ exec.content \in SUBSET Int /\ exec.taken \in SUBSET Int /\ Era \in Eras /\ Era.edits = used.edits
  BY HistoryFields DEF AnswerInv
<1>2. exec.rev \in Nat /\ used \in Bounds /\ used.edits \in Nat
  BY DEF AnswerInv, WorkspaceTypes, SessionTypes, Documents, Bounds
<1>3. overwritten \in SUBSET Int /\ \A e \in overwritten : e <= Era.edits
  BY <1>1, <1>2
<1>4. PICK x \in Int : x = Remote(exec.rev + 1) /\ x < 0
  BY <1>2 DEF Remote
<1>5. History(stack.undo, stack.redo, stack.queued, inflight, later, exec.content, exec.taken, Era)
  BY DEF HistoryInv, HistoryNow
<1>6. History(stack.undo, stack.redo, stack.queued, inflight, later, (exec.content \ overwritten) \cup {x},
              exec.taken \cup overwritten, Era)
  BY <1>1, <1>3, <1>4, <1>5, HistoryOverwritten
<1>7. /\ exec'.content = (exec.content \ overwritten) \cup {x} /\ exec'.taken = exec.taken \cup overwritten
      /\ UNCHANGED <<inflight, later, view, stack, step, ws>>
  BY <1>4 DEF RemoteEdit
<1>8. used'.edits = used.edits
  BY <1>2, DisturbNoEdit DEF RemoteEdit
<1>9. Era' = Era
  BY <1>7, <1>8, EraKept DEF EraStays
<1>10. HistoryNow'
  BY <1>6, <1>7, <1>9 DEF HistoryNow
<1> QED
  BY <1>7, <1>10 DEF HistoryInv, StepOnTop, Top, QueuedIsBusy

(* An edit is sent. *)
LEMMA CommitHistory ==
    ASSUME AnswerInv, HistoryInv, tab = "open", CommitOperation(TRUE)
    PROVE  HistoryInv'
<1> USE DEF history, saving, disk
<1>1. /\ stack.undo \in Seq(Commands) /\ stack.redo \in Seq(Commands) /\ stack.queued \in Seq(Commands)
      /\ inflight \in Seq(Operations) /\ later \in Seq(Closures)
      /\ exec.content \in SUBSET Int /\ exec.taken \in SUBSET Int /\ Era \in Eras
      /\ Era.edits = used.edits /\ Era.gen = view.gen /\ Era.since = view.since
  BY HistoryFields DEF AnswerInv
<1>2. used \in Bounds /\ view \in Views /\ used.edits + 1 \in Nat
  BY DEF AnswerInv, WorkspaceTypes, SessionTypes, Bounds
<1>3. /\ view' = [view EXCEPT !.gesture = "none"] /\ Spend("edits")
      /\ inflight' = Append(inflight, Operation("edit", used.edits + 1))
      /\ UNCHANGED <<exec, later, stack, step, ws>>
  BY DEF CommitOperation
<1>4. view'.gen = view.gen /\ view'.since = view.since
  BY <1>2, <1>3, GestureEra
<1>5. used'.edits = used.edits + 1
  BY <1>2, <1>3 DEF Spend, Bounds
<1>6. PICK op \in Operations : op = Operation("edit", used.edits + 1)
  BY <1>2, OperationTypes
<1>7. op.kind = "edit" /\ op.edit = used.edits + 1 /\ op.gen = view.gen
  BY <1>6 DEF Operation
<1>8. PICK next \in Eras :
         next = Era' /\ next.edits = Era.edits + 1 /\ next.gen = Era.gen /\ next.since = Era.since
  <2>1. Era'.edits = used'.edits /\ Era'.gen = view'.gen /\ Era'.since = view'.since
    BY DEF Era
  <2>2. Era' \in Eras
    BY <1>1, <1>2, <1>4, <1>5 DEF Era, Eras, Views
  <2> QED
    BY <1>1, <1>4, <1>5, <2>1, <2>2
<1>9. History(stack.undo, stack.redo, stack.queued, inflight, later, exec.content, exec.taken, Era)
  BY DEF HistoryInv, HistoryNow
<1>10. History(stack.undo, stack.redo, stack.queued, Append(inflight, op), later, exec.content, exec.taken, next)
  BY <1>1, <1>7, <1>8, <1>9, HistoryEdited
<1>11. HistoryNow'
  BY <1>3, <1>6, <1>8, <1>10 DEF HistoryNow
<1> QED
  BY <1>3, <1>11 DEF HistoryInv, StepOnTop, Top, QueuedIsBusy

(* Another session is attached: what was edited before is of another era. *)
LEMMA ReattachHistory ==
    ASSUME AnswerInv, HistoryInv, tab = "open", NEW content \in {exec.content, {}}, Reattach(content)
    PROVE  HistoryInv'
<1> USE DEF history, saving, disk
<1>1. /\ stack.undo \in Seq(Commands) /\ stack.redo \in Seq(Commands) /\ stack.queued \in Seq(Commands)
      /\ inflight \in Seq(Operations) /\ later \in Seq(Closures)
      /\ exec.content \in SUBSET Int /\ exec.taken \in SUBSET Int /\ Era \in Eras
      /\ Era.edits = used.edits /\ Era.gen = view.gen /\ Era.since = view.since
  BY HistoryFields DEF AnswerInv
<1>2. used \in Bounds /\ exec \in Documents /\ view.gen + 1 \in Nat /\ used.edits \in Nat
  BY DEF AnswerInv, WorkspaceTypes, SessionTypes, Bounds, Views
<1>3. content \in SUBSET exec.content /\ content \in SUBSET Int
  BY <1>1
<1>4. /\ exec' = [exec EXCEPT !.content = content] /\ UNCHANGED <<inflight, later, stack, step, ws>>
      /\ view'.gen = view.gen + 1 /\ view'.since = used.edits
  BY DEF Reattach
<1>5. exec'.content = content /\ exec'.taken = exec.taken
  BY <1>2, <1>3, <1>4 DEF Documents
<1>6. used'.edits = used.edits
  BY <1>2, DisturbNoEdit DEF Reattach
<1>7. PICK next \in Eras :
         next = Era' /\ next.edits = Era.edits /\ next.gen = Era.gen + 1 /\ next.since = Era.edits
  <2>1. Era'.edits = used'.edits /\ Era'.gen = view'.gen /\ Era'.since = view'.since
    BY DEF Era
  <2>2. Era' \in Eras
    BY <1>2, <1>4, <1>6 DEF Era, Eras
  <2> QED
    BY <1>1, <1>4, <1>6, <2>1, <2>2
<1>8. History(stack.undo, stack.redo, stack.queued, inflight, later, exec.content, exec.taken, Era)
  BY DEF HistoryInv, HistoryNow
<1>9. History(stack.undo, stack.redo, stack.queued, inflight, later, content, exec.taken, next)
  BY <1>1, <1>3, <1>7, <1>8, HistoryReattached
<1>10. HistoryNow'
  BY <1>4, <1>5, <1>7, <1>9 DEF HistoryNow
<1> QED
  BY <1>4, <1>10 DEF HistoryInv, StepOnTop, Top, QueuedIsBusy
-----------------------------------------------------------------------------------
(* A step completes: it has moved its command or not, and the queued ones follow. *)
LEMMA CompletedHistory ==
    ASSUME WorkspaceTypes, NEW h \in Steps, NEW ok \in BOOLEAN, tab = "open", ws.path = h.id,
           stack' = Completed(stack, h, ok), step' = None, UNCHANGED <<exec, inflight>>, EraStays,
           later' \in Seq(Closures), NoStepOutcome(later'),
           \A undo, redo \in Seq(Commands) : Moves(stack, h, ok, undo, redo) =>
              History(undo, redo, stack.queued, inflight, later', exec.content, exec.taken, Era)
    PROVE  HistoryInv'
<1>1. /\ stack.queued \in Seq(Commands) /\ inflight \in Seq(Operations)
      /\ exec.content \in SUBSET Int /\ exec.taken \in SUBSET Int /\ Era \in Eras
  BY HistoryFields
<1>2. stack \in Stacks
  BY DEF WorkspaceTypes, HistoryTypes
<1>3. PICK undo \in Seq(Commands), redo \in Seq(Commands), n \in Int :
         /\ Moves(stack, h, ok, undo, redo)
         /\ IsStack(Completed(stack, h, ok), undo \o stack.queued,
                    IF stack.queued = <<>> THEN redo ELSE <<>>, <<>>, FALSE, n, stack.mark)
  BY <1>2, CompletedHere
<1>4. History(undo, redo, stack.queued, inflight, later', exec.content, exec.taken, Era)
  BY <1>3
<1>5. PICK q \in Seq(Commands) : q = stack.queued
  BY <1>1
<1>6. \A e : ~HasOutcome(later', "redo", e, TRUE)
  BY DEF NoStepOutcome
<1>7. History(undo \o q, IF q = <<>> THEN redo ELSE <<>>, <<>>, inflight, later', exec.content, exec.taken, Era)
  BY <1>1, <1>4, <1>5, <1>6, HistoryFlushed
<1>8. /\ stack'.undo = undo \o q /\ stack'.redo = (IF q = <<>> THEN redo ELSE <<>>)
      /\ stack'.queued = <<>> /\ stack'.busy = FALSE
  BY <1>3, <1>5 DEF IsStack
<1>9. HistoryNow'
  BY <1>7, <1>8, EraKept DEF HistoryNow
<1> QED
  BY <1>8, <1>9 DEF HistoryInv, StepOnTop, QueuedIsBusy

(* It gives up. *)
LEMMA FailedHistory ==
    ASSUME WorkspaceTypes, NEW h \in Steps, tab = "open", ws.path = h.id,
           stack' = Completed(stack, h, FALSE), step' = None, UNCHANGED <<exec, inflight>>, EraStays,
           later' \in Seq(Closures), NoStepOutcome(later'),
           History(stack.undo, stack.redo, stack.queued, inflight, later', exec.content, exec.taken, Era)
    PROVE  HistoryInv'
<1>1. \A undo, redo \in Seq(Commands) : Moves(stack, h, FALSE, undo, redo) =>
         History(undo, redo, stack.queued, inflight, later', exec.content, exec.taken, Era)
  BY DEF Moves
<1> QED
  BY <1>1, CompletedHistory

(* The command at the top fits the era. *)
LEMMA TopFits ==
    ASSUME WorkspaceTypes, NEW l, NEW h \in Steps, Top(stack, h),
           History(stack.undo, stack.redo, stack.queued, inflight, l, exec.content, exec.taken, Era)
    PROVE  Fits(h.command.id, h.command.gen, Era)
<1>1. stack.undo \in Seq(Commands) /\ stack.redo \in Seq(Commands)
  BY HistoryFields
<1>2. /\ Distinct(stack.undo)
      /\ Distinct(stack.redo)
      /\ CommandsFit(stack.undo, Era)
      /\ CommandsFit(stack.redo, Era)
  BY DEF History, Places, Fit
<1>3. CASE h.direction = "undo"
  BY <1>1, <1>2, <1>3, HasFront DEF Top
<1>4. CASE h.direction # "undo"
  BY <1>1, <1>2, <1>4, HasFront DEF Top
<1> QED
  BY <1>3, <1>4

(* It goes on. *)
LEMMA ProceedHistory ==
    ASSUME WorkspaceTypes, NEW h \in Steps, Proceed(h), tab = "open", ws.path = h.id, Top(stack, h),
           h.command.gen = view.gen, UNCHANGED <<exec, ws>>, EraStays,
           later' \in Seq(Closures), NoStepOutcome(later'),
           History(stack.undo, stack.redo, stack.queued, inflight, later', exec.content, exec.taken, Era)
    PROVE  HistoryInv'
<1>1. stack \in Stacks /\ view \in Views
  BY DEF WorkspaceTypes, HistoryTypes, SessionTypes
<1>2. IsStack([stack EXCEPT !.busy = TRUE], stack.undo, stack.redo, stack.queued, TRUE, stack.balance, stack.mark)
  BY <1>1, StackBusy
<1>3. Era' = Era
  BY EraKept
<1>4. ASSUME NEW pc \in {"inverse", "sent"}, step' = [h EXCEPT !.pc = pc], stack' = [stack EXCEPT !.busy = TRUE]
      PROVE  StepOnTop' /\ QueuedIsBusy'
  <2>1. step'.id = h.id /\ step'.direction = h.direction /\ step'.command = h.command
    BY <1>4, StepPc
  <2>2. stack'.undo = stack.undo /\ stack'.redo = stack.redo /\ stack'.busy = TRUE
    BY <1>2, <1>4 DEF IsStack
  <2>3. StepOnTop'
    BY <2>1, <2>2 DEF StepOnTop, Top
  <2> QED
    BY <2>2, <2>3 DEF QueuedIsBusy
<1>5. stack' = [stack EXCEPT !.busy = TRUE] =>
         stack'.undo = stack.undo /\ stack'.redo = stack.redo /\ stack'.queued = stack.queued
  BY <1>2 DEF IsStack
<1>6. CASE h.direction = "undo"
  <2>1. step' = [h EXCEPT !.pc = "inverse"] /\ stack' = [stack EXCEPT !.busy = TRUE] /\ inflight' = inflight
    BY <1>6 DEF Proceed
  <2>2. HistoryNow'
    BY <1>3, <1>5, <2>1 DEF HistoryNow
  <2> QED
    BY <1>4, <2>1, <2>2 DEF HistoryInv
<1>7. CASE h.direction # "undo" /\ h.command.id \in exec.taken \cup exec.content
  <2>1. step' = None /\ stack' = Completed(stack, h, FALSE) /\ inflight' = inflight
    BY <1>7 DEF Proceed
  <2> QED
    BY <2>1, FailedHistory
<1>8. CASE h.direction # "undo" /\ h.command.id \notin exec.taken \cup exec.content
  <2>1. h.command.id \in Nat
    BY DEF Steps, Commands
  <2>2. PICK op \in Operations : op = Operation("redo", h.command.id)
    BY <1>1, <2>1, OperationTypes
  <2>3. op.kind = "redo" /\ op.edit = h.command.id /\ op.gen = h.command.gen
    BY <2>2 DEF Operation
  <2>4. /\ step' = [h EXCEPT !.pc = "sent"]
        /\ stack' = [stack EXCEPT !.busy = TRUE]
        /\ inflight' = Append(inflight, op)
    BY <1>8, <2>2 DEF Proceed
  <2>5. Fits(op.edit, op.gen, Era)
    BY <2>3, TopFits
  <2>6. History(stack.undo, stack.redo, stack.queued, Append(inflight, op), later', exec.content, exec.taken, Era)
    BY <2>3, <2>5, HistoryFields, HistorySent
  <2>7. HistoryNow'
    BY <1>3, <1>5, <2>4, <2>6 DEF HistoryNow
  <2> QED
    BY <1>4, <2>4, <2>7 DEF HistoryInv
<1> QED
  BY <1>6, <1>7, <1>8

LEMMA BeginHistory ==
    ASSUME AnswerInv, HistoryInv, tab = "open", NEW direction \in {"undo", "redo"}, BeginHistoryStep(direction)
    PROVE  HistoryInv'
<1> USE DEF history, saving, disk
<1>1. WorkspaceTypes /\ Tokens /\ stack \in Stacks /\ used \in Bounds
  BY DEF AnswerInv, WorkspaceTypes, HistoryTypes, SessionTypes
<1>2. PICK h \in Steps :
         /\ h.direction = direction /\ h.id = ws.path /\ h.pc = "wait" /\ h.command.gen = view.gen
         /\ IF direction = "undo" THEN stack.undo # <<>> /\ h.command = Last(stack.undo)
                                  ELSE stack.redo # <<>> /\ h.command = Last(stack.redo)
         /\ IF inflight # <<>>
            THEN step' = h /\ stack' = [stack EXCEPT !.busy = TRUE] /\ inflight' = inflight
            ELSE Proceed(h)
  BY <1>1, BeginStep
<1>3. UNCHANGED <<exec, later, view, ws>> /\ used'.edits = used.edits /\ step = None
  BY <1>1, CommandNoEdit DEF BeginHistoryStep, Tokens, BusyIsStep
<1>4. EraStays /\ Era' = Era
  BY <1>3, EraKept DEF EraStays
<1>5. History(stack.undo, stack.redo, stack.queued, inflight, later', exec.content, exec.taken, Era)
  BY <1>3 DEF HistoryInv, HistoryNow
<1>6. Top(stack, h)
  BY <1>2 DEF Top
<1>7. NoStepOutcome(later')
  BY <1>1, <1>3, NoTokensYet, NoneIsStepOutcome DEF NoTokens
<1>8. CASE inflight # <<>>
  <2>1. step' = h /\ stack' = [stack EXCEPT !.busy = TRUE] /\ inflight' = inflight
    BY <1>2, <1>8
  <2>2. IsStack(stack', stack.undo, stack.redo, stack.queued, TRUE, stack.balance, stack.mark)
    BY <1>1, <2>1, StackBusy
  <2>3. HistoryNow'
    BY <1>3, <1>4, <1>5, <2>1, <2>2 DEF HistoryNow, IsStack
  <2>4. StepOnTop' /\ QueuedIsBusy'
    BY <1>2, <1>3, <1>6, <2>1, <2>2 DEF StepOnTop, Top, QueuedIsBusy, IsStack
  <2> QED
    BY <2>3, <2>4 DEF HistoryInv
<1>9. CASE inflight = <<>>
  BY <1>1, <1>2, <1>3, <1>4, <1>5, <1>6, <1>7, <1>9, ProceedHistory DEF WorkspaceTypes
<1> QED
  BY <1>8, <1>9

(* A closure of the history runs: none is left behind it. *)
LEMMA RunHistory ==
    ASSUME AnswerInv, HistoryInv, tab = "open", later # <<>>, HistoryClosure(Head(later)), later' = Tail(later)
    PROVE  /\ step \in Steps /\ step # None /\ ws.path = step.id /\ Top(stack, step)
           /\ later' \in Seq(Closures) /\ NoStepOutcome(later')
           /\ Head(later).kind # "outcome" =>
                 History(stack.undo, stack.redo, stack.queued, inflight, later', exec.content, exec.taken, Era)
<1>1. WorkspaceTypes /\ Tokens
  BY DEF AnswerInv
<1>2. step \in Steps /\ step # None
  BY <1>1, ClosureHasStep, NotNone
<1>3. later' \in Seq(Closures)
  BY <1>1, HeadTail DEF WorkspaceTypes
<1>4. NoStepOutcome(later')
  BY <1>1, NoTokensLeft, NoneIsStepOutcome
<1>5. Head(later).kind # "outcome" =>
         History(stack.undo, stack.redo, stack.queued, inflight, later', exec.content, exec.taken, Era)
  BY <1>1, HistoryPasses DEF Passes, HistoryInv
<1> QED
  BY <1>2, <1>3, <1>4, <1>5 DEF HistoryInv, StepOnTop

LEMMA WaitedHistory ==
    ASSUME AnswerInv, HistoryInv, tab = "open", RunHistoryWaited
    PROVE  HistoryInv'
<1> USE DEF history, saving, disk
<1>1. /\ later # <<>>
      /\ Head(later).kind = "waited"
      /\ later' = Tail(later)
      /\ UNCHANGED <<exec, view, used, ws>>
  BY DEF RunHistoryWaited, Run
<1>2. HistoryClosure(Head(later))
  BY <1>1 DEF HistoryClosure
<1>3. /\ step \in Steps /\ step # None /\ ws.path = step.id /\ Top(stack, step)
      /\ later' \in Seq(Closures) /\ NoStepOutcome(later')
      /\ History(stack.undo, stack.redo, stack.queued, inflight, later', exec.content, exec.taken, Era)
  BY <1>1, <1>2, RunHistory
<1>4. EraStays /\ WorkspaceTypes
  BY <1>1 DEF EraStays, AnswerInv
<1>5. CASE Attached(step) /\ Proceed(step)
  <2>1. step.command.gen = view.gen
    BY <1>5 DEF Attached
  <2> QED
    BY <1>1, <1>3, <1>4, <1>5, <2>1, ProceedHistory
<1>6. CASE Complete(FALSE) /\ UNCHANGED inflight
  BY <1>1, <1>3, <1>4, <1>6, FailedHistory DEF Complete
<1> QED
  BY <1>5, <1>6 DEF RunHistoryWaited

LEMMA InverseHistory ==
    ASSUME AnswerInv, HistoryInv, tab = "open", RunHistoryInverse
    PROVE  HistoryInv'
<1> USE DEF history, saving, disk
<1>1. /\ later # <<>>
      /\ Head(later).kind = "inverse"
      /\ later' = Tail(later)
      /\ UNCHANGED <<exec, view, used, ws>>
  BY DEF RunHistoryInverse, Run
<1>2. HistoryClosure(Head(later))
  BY <1>1 DEF HistoryClosure
<1>3. /\ step \in Steps /\ step # None /\ ws.path = step.id /\ Top(stack, step)
      /\ later' \in Seq(Closures) /\ NoStepOutcome(later')
      /\ History(stack.undo, stack.redo, stack.queued, inflight, later', exec.content, exec.taken, Era)
  BY <1>1, <1>2, RunHistory
<1>4. EraStays /\ WorkspaceTypes /\ view \in Views
  BY <1>1 DEF EraStays, AnswerInv, WorkspaceTypes, SessionTypes
<1>5. CASE /\ Attached(step) /\ step' = [step EXCEPT !.pc = "sent"]
           /\ inflight' = Append(inflight, Operation("undo", step.command.id)) /\ UNCHANGED stack
  <2>1. step.command.id \in Nat /\ step.command.gen = view.gen
    BY <1>3, <1>5 DEF Steps, Commands, Attached
  <2>2. PICK op \in Operations : op = Operation("undo", step.command.id)
    BY <1>4, <2>1, OperationTypes
  <2>3. op.kind = "undo" /\ op.edit = step.command.id /\ op.gen = step.command.gen
    BY <2>1, <2>2 DEF Operation
  <2>4. Fits(op.edit, op.gen, Era)
    BY <1>3, <1>4, <2>3, TopFits
  <2>5. History(stack.undo, stack.redo, stack.queued, Append(inflight, op), later', exec.content, exec.taken, Era)
    BY <1>3, <1>4, <2>3, <2>4, HistoryFields, HistorySent
  <2>6. HistoryNow'
    BY <1>1, <1>4, <1>5, <2>2, <2>5, EraKept DEF HistoryNow
  <2>7. step'.id = step.id /\ step'.direction = step.direction /\ step'.command = step.command
    BY <1>3, <1>5, StepPc
  <2>8. StepOnTop' /\ QueuedIsBusy'
    BY <1>1, <1>3, <1>5, <2>7 DEF HistoryInv, StepOnTop, Top, QueuedIsBusy
  <2> QED
    BY <2>6, <2>8 DEF HistoryInv
<1>6. CASE Complete(FALSE) /\ UNCHANGED inflight
  BY <1>1, <1>3, <1>4, <1>6, FailedHistory DEF Complete
<1> QED
  BY <1>5, <1>6 DEF RunHistoryInverse

(* The outcome of an edit: dropped, queued behind the step under way, or pushed. *)
LEMMA EditOutcomeHistory ==
    ASSUME AnswerInv, HistoryInv, tab = "open", RunEditOutcome
    PROVE  HistoryInv'
<1> USE DEF history, saving, disk
<1>1. /\ stack.undo \in Seq(Commands) /\ stack.redo \in Seq(Commands) /\ stack.queued \in Seq(Commands)
      /\ inflight \in Seq(Operations) /\ later \in Seq(Closures)
      /\ exec.content \in SUBSET Int /\ exec.taken \in SUBSET Int /\ Era \in Eras /\ Era.gen = view.gen
  BY HistoryFields DEF AnswerInv
<1>2. WorkspaceTypes /\ Tokens /\ stack \in Stacks /\ view \in Views /\ exec \in Documents
  BY DEF AnswerInv, WorkspaceTypes, SessionTypes, HistoryTypes
<1>3. /\ later # <<>>
      /\ Head(later).kind = "outcome"
      /\ Head(later).op.kind = "edit"
      /\ later' = Tail(later)
      /\ UNCHANGED <<exec, inflight, step, ws, used>> /\ view' \in {view, Refreshed(view)}
  BY DEF RunEditOutcome, Run
<1>4. Head(later).op \in Operations /\ Head(later).ok \in BOOLEAN
  BY <1>2, OutcomeRuns DEF RunEditOutcome
<1>5. EraStays /\ Era' = Era
  BY <1>2, <1>3, RefreshedEra, EraKept DEF EraStays
<1>6. History(stack.undo, stack.redo, stack.queued, inflight, later, exec.content, exec.taken, Era)
  BY DEF HistoryInv, HistoryNow
<1>7. IsEdit(Head(later))
  BY <1>3 DEF IsEdit
<1>8. CASE ~(Head(later).op.gen = view.gen /\ Head(later).ok)
  <2>1. stack' = stack
    BY <1>8 DEF RunEditOutcome
  <2>2. Head(later).ok = FALSE \/ Head(later).op.gen # Era.gen
    BY <1>1, <1>4, <1>8
  <2>3. History(stack.undo, stack.redo, stack.queued, inflight, Tail(later), exec.content, exec.taken, Era)
    BY <1>1, <1>3, <1>6, <1>7, <2>2, HistoryEditDropped
  <2>4. HistoryNow'
    BY <1>3, <1>5, <2>1, <2>3 DEF HistoryNow
  <2> QED
    BY <1>3, <2>1, <2>4 DEF HistoryInv, StepOnTop, Top, QueuedIsBusy
<1>9. CASE Head(later).op.gen = view.gen /\ Head(later).ok
  <2>1. PICK c : c \in Commands /\ c = [id |-> Head(later).op.edit, gen |-> view.gen]
    BY <1>2, <1>4 DEF Commands, Operations, Views
  <2>2. stack' = Push(stack, c)
    BY <1>9, <2>1 DEF RunEditOutcome
  <2>3. /\ c.id = Head(later).op.edit
        /\ c.gen = Era.gen
        /\ Head(later).ok = TRUE
        /\ Head(later).op.gen = Era.gen
    BY <1>1, <1>4, <1>9, <2>1
  <2>4. CASE stack.busy
    <3>1. IsStack(stack', stack.undo, stack.redo, Append(stack.queued, c), stack.busy, stack.balance, stack.mark)
      BY <1>2, <2>1, <2>2, <2>4, PushBusy
    <3>2. History(stack.undo, stack.redo, Append(stack.queued, c), inflight, Tail(later), exec.content, exec.taken, Era)
      BY <1>1, <1>3, <1>6, <1>7, <2>1, <2>3, HistoryQueued
    <3>3. /\ stack'.undo = stack.undo /\ stack'.redo = stack.redo /\ stack'.queued = Append(stack.queued, c)
          /\ stack'.busy = stack.busy
      BY <3>1 DEF IsStack
    <3>4. HistoryNow'
      BY <1>3, <1>5, <3>2, <3>3 DEF HistoryNow
    <3>5. StepOnTop' /\ QueuedIsBusy'
      BY <1>3, <2>4, <3>3 DEF HistoryInv, StepOnTop, Top, QueuedIsBusy
    <3> QED
      BY <3>4, <3>5 DEF HistoryInv
  <2>5. CASE ~stack.busy
    <3>1. IsStack(stack', Append(stack.undo, c), <<>>, stack.queued, stack.busy, stack.balance + 1, stack.mark)
      BY <1>2, <2>1, <2>2, <2>5, PushIdle
    <3>2. step = None
      BY <1>2, <2>5 DEF Tokens, BusyIsStep
    <3>3. NoStepOutcome(later)
      BY <1>2, <3>2, NoTokensYet, NoneIsStepOutcome DEF NoTokens
    <3>4. \A e : ~HasOutcome(later, "redo", e, TRUE)
      BY <3>3 DEF NoStepOutcome
    <3>5. History(Append(stack.undo, c), <<>>, stack.queued, inflight, Tail(later), exec.content, exec.taken, Era)
      BY <1>1, <1>3, <1>6, <1>7, <2>1, <2>3, <3>4, HistoryPushed
    <3>6. /\ stack'.undo = Append(stack.undo, c) /\ stack'.redo = <<>> /\ stack'.queued = stack.queued
          /\ stack'.busy = stack.busy
      BY <3>1 DEF IsStack
    <3>7. HistoryNow'
      BY <1>3, <1>5, <3>5, <3>6 DEF HistoryNow
    <3> QED
      BY <1>3, <3>2, <3>6, <3>7 DEF HistoryInv, StepOnTop, QueuedIsBusy
  <2> QED
    BY <2>4, <2>5
<1> QED
  BY <1>8, <1>9

(* The outcome of an undo or redo: its command changes sides, or stays. *)
LEMMA StepOutcomeHistory ==
    ASSUME AnswerInv, HistoryInv, tab = "open", RunHistoryOutcome
    PROVE  HistoryInv'
<1> USE DEF history, saving, disk
<1>1. /\ stack.undo \in Seq(Commands) /\ stack.redo \in Seq(Commands) /\ stack.queued \in Seq(Commands)
      /\ inflight \in Seq(Operations) /\ later \in Seq(Closures)
      /\ exec.content \in SUBSET Int /\ exec.taken \in SUBSET Int /\ Era \in Eras /\ Era.gen = view.gen
  BY HistoryFields DEF AnswerInv
<1>2. WorkspaceTypes /\ Tokens /\ view \in Views /\ exec \in Documents
  BY DEF AnswerInv, WorkspaceTypes, SessionTypes
<1>3. /\ later # <<>>
      /\ Head(later).kind = "outcome"
      /\ Head(later).op.kind # "edit"
      /\ later' = Tail(later)
      /\ UNCHANGED <<exec, inflight, ws, used>> /\ view' \in {view, Refreshed(view)}
  BY DEF RunHistoryOutcome, Run
<1>4. Head(later).op \in Operations /\ Head(later).ok \in BOOLEAN
  BY <1>2, OutcomeRuns DEF RunHistoryOutcome
<1>5. EraStays
  BY <1>2, <1>3, RefreshedEra DEF EraStays
<1>6. History(stack.undo, stack.redo, stack.queued, inflight, later, exec.content, exec.taken, Era)
  BY DEF HistoryInv, HistoryNow
<1>7. HistoryClosure(Head(later))
  BY <1>3 DEF HistoryClosure
<1>8. /\ step \in Steps /\ step # None /\ ws.path = step.id /\ Top(stack, step)
      /\ later' \in Seq(Closures) /\ NoStepOutcome(later')
  BY <1>3, <1>7, RunHistory
<1>9. PICK ok \in BOOLEAN : ok = (Head(later).op.gen = view.gen /\ Head(later).ok)
  OBVIOUS
<1>10. stack' = Completed(stack, step, ok) /\ step' = None
  BY <1>9 DEF RunHistoryOutcome, Complete
<1>11. SentByStep(Head(later).op)
  BY <1>1, <1>2, <1>3, <1>7, HeadTail DEF Tokens, ClosuresBelong
<1>12. \A e, b : ~HasOutcome(Tail(later), "undo", e, b) /\ ~HasOutcome(Tail(later), "redo", e, b)
  BY <1>3, <1>8 DEF NoStepOutcome
<1>13. ASSUME NEW undo \in Seq(Commands), NEW redo \in Seq(Commands), Moves(stack, step, ok, undo, redo)
       PROVE  History(undo, redo, stack.queued, inflight, later', exec.content, exec.taken, Era)
  <2>1. CASE ok = FALSE
    <3>1. undo = stack.undo /\ redo = stack.redo
      BY <1>13, <2>1 DEF Moves
    <3>2. Head(later).ok = FALSE \/ Head(later).op.gen # Era.gen
      BY <1>1, <1>4, <1>9, <2>1
    <3>3. History(stack.undo, stack.redo, stack.queued, inflight, Tail(later), exec.content, exec.taken, Era)
      BY <1>1, <1>3, <1>6, <3>2, HistoryStepDropped
    <3> QED
      BY <1>3, <3>1, <3>3
  <2>2. CASE ok = TRUE /\ step.direction = "undo"
    <3>1. stack.undo # <<>> /\ Last(stack.undo) = step.command
      BY <1>8, <2>2 DEF Top
    <3>2. undo = Front(stack.undo) /\ redo = Append(stack.redo, Last(stack.undo))
      BY <1>13, <2>2, <3>1 DEF Moves
    <3>3. Head(later).op.kind = "undo" /\ Last(stack.undo).id = Head(later).op.edit
      BY <1>11, <2>2, <3>1 DEF SentByStep
    <3>4. Head(later).ok = TRUE /\ Head(later).op.gen = Era.gen
      BY <1>1, <1>4, <1>9, <2>2
    <3>5. History(Front(stack.undo), Append(stack.redo, Last(stack.undo)), stack.queued, inflight, Tail(later),
                  exec.content, exec.taken, Era)
      BY <1>1, <1>3, <1>6, <1>12, <3>1, <3>3, <3>4, HistoryUndone
    <3> QED
      BY <1>3, <3>2, <3>5
  <2>3. CASE ok = TRUE /\ step.direction # "undo"
    <3>1. stack.redo # <<>> /\ Last(stack.redo) = step.command /\ step.direction = "redo"
      BY <1>8, <2>3 DEF Top, Steps
    <3>2. redo = Front(stack.redo) /\ undo = Append(stack.undo, Last(stack.redo))
      BY <1>13, <2>3, <3>1 DEF Moves
    <3>3. Head(later).op.kind = "redo" /\ Last(stack.redo).id = Head(later).op.edit
      BY <1>11, <3>1 DEF SentByStep
    <3>4. Head(later).ok = TRUE /\ Head(later).op.gen = Era.gen
      BY <1>1, <1>4, <1>9, <2>3
    <3>5. History(Append(stack.undo, Last(stack.redo)), Front(stack.redo), stack.queued, inflight, Tail(later),
                  exec.content, exec.taken, Era)
      BY <1>1, <1>3, <1>6, <1>12, <3>1, <3>3, <3>4, HistoryRedone
    <3> QED
      BY <1>3, <3>2, <3>5
  <2> QED
    BY <2>1, <2>2, <2>3
<1> QED
  BY <1>2, <1>3, <1>5, <1>8, <1>10, <1>13, CompletedHistory

LEMMA HistoryStep ==
    ASSUME AnswerInv, HistoryInv, RequestsAim, Next
    PROVE  HistoryInv'
<1>1. CASE tab' # "open"
  BY <1>1 DEF HistoryInv
<1>2. CASE tab' = "open"
  <2>1. tab = "open" /\ WorkspaceTypes /\ BusyIsStep
    BY <1>2, TabOpens DEF AnswerInv, SaveTokens, Tokens
  <2>2. Quiet \/ Loud
    BY <1>2, <2>1, QuietOrLoud
  <2>3. CASE Quiet
    BY <2>1, <2>3, QuietStep
  <2>4. CASE Loud
    BY <2>1, <2>4, SettleHistory, RemoteHistory, CommitHistory, ReattachHistory, BeginHistory,
       WaitedHistory,
       InverseHistory, EditOutcomeHistory, StepOutcomeHistory
       DEF Loud
  <2> QED
    BY <2>2, <2>3, <2>4
<1> QED
  BY <1>1, <1>2

LEMMA RequestsAimStep ==
    ASSUME AnswerInv, RequestsAim, Next
    PROVE  RequestsAim'
<1> SUFFICES ASSUME NEW r \in Requests, Held(r)'
             PROVE  r.rebind \/ r.path = r.id
  BY DEF RequestsAim
<1>1. Held(r) \/ Begun(r)
  BY HeldBack DEF AnswerInv
<1> QED
  BY <1>1 DEF RequestsAim, Begun

HistoryInvariant == AnswerInv /\ RequestsAim /\ HistoryInv

LEMMA HistoryStarts == ASSUME Init PROVE HistoryInvariant
<1>1. AnswerInv
  BY AnswerInit
<1>2. \A r : ~Held(r)
  BY DEF Init, Held
<1>3. /\ stack.undo = <<>> /\ stack.redo = <<>> /\ stack.queued = <<>> /\ inflight = <<>> /\ later = <<>>
      /\ exec.content = {} /\ exec.taken = {} /\ step = None
      /\ used.edits = 0 /\ view.since = 0
  BY DEF Init, EmptyStack
<1>4. Era.edits = 0 /\ Era.since = 0
  BY <1>3 DEF Era
<1>5. /\ \A e : ~Has(<<>>, e) /\ ~HasEdit(<<>>, e)
      /\ \A k, e, ok : ~HasOutcome(<<>>, k, e, ok)
  BY DEF Has, HasEdit, HasOutcome
<1>6. Places(<<>>, <<>>, <<>>, <<>>, <<>>)
  <2>1. Distinct(<<>>) /\ DistinctEdits(<<>>) /\ DistinctOutcomes(<<>>)
    BY DEF Distinct, DistinctEdits, DistinctOutcomes
  <2>2. \A e \in Nat : Apart(e, <<>>, <<>>, <<>>, <<>>, <<>>)
    BY <1>5 DEF Apart, Waiting
  <2> QED
    BY <2>1, <2>2 DEF Places
<1>7. Fit(<<>>, <<>>, <<>>, <<>>, <<>>, Era)
  BY DEF Fit, CommandsFit, OperationsFit, OutcomesFit
<1>8. Numbered({}, {}, Era)
  BY <1>4 DEF Numbered
<1>9. Document(<<>>, <<>>, <<>>, <<>>, <<>>, {}, {}, Era)
  BY <1>5 DEF Document, Shown, Waiting
<1>10. HistoryNow
  BY <1>3, <1>6, <1>7, <1>8, <1>9 DEF HistoryNow, History
<1> QED
  BY <1>1, <1>2, <1>3, <1>10 DEF HistoryInvariant, RequestsAim, HistoryInv, StepOnTop, QueuedIsBusy

LEMMA HistoryGoesOn == ASSUME HistoryInvariant, [Next]_vars PROVE HistoryInvariant'
<1>1. AnswerInv /\ AnswerInv'
  BY AnswerStep DEF HistoryInvariant
<1>2. CASE Next
  BY <1>1, <1>2, RequestsAimStep, HistoryStep DEF HistoryInvariant
<1>3. CASE UNCHANGED vars
  <2>1. \A r : Held(r)' <=> Held(r)
    BY <1>3 DEF vars, Held
  <2>2. RequestsAim'
    BY <2>1 DEF HistoryInvariant, RequestsAim
  <2>3. Era' = Era
    BY <1>3 DEF vars, Era
  <2>4. HistoryInv'
    BY <1>3, <2>3 DEF vars, HistoryInvariant, HistoryInv, HistoryNow, StepOnTop, Top, QueuedIsBusy
  <2> QED
    BY <1>1, <2>2, <2>4 DEF HistoryInvariant
<1> QED
  BY <1>2, <1>3

(* With nothing unresolved, no edit of this attachment is on its way. *)
LEMMA NothingOnTheWay ==
    ASSUME WorkspaceTypes, Fit(stack.undo, stack.redo, stack.queued, inflight, later, Era),
           UnresolvedSubmissions = {}, NEW e \in Nat, Era.since < e
    PROVE  ~HasEdit(inflight, e) /\ ~Waiting(later, e)
<1>1. Era.gen = view.gen /\ inflight \in Seq(Operations) /\ later \in Seq(Closures)
  BY HistoryFields
<1>2. ASSUME HasEdit(inflight, e) PROVE FALSE
  <2>1. PICK i \in 1 .. Len(inflight) : inflight[i].edit = e
    BY <1>2 DEF HasEdit
  <2>2. inflight[i].gen = view.gen
    BY <1>1, <2>1 DEF Fit, OperationsFit, Fits
  <2>3. inflight[i] \in Sent
    BY <1>1, <2>1 DEF Sent, ToSet
  <2> QED
    BY <2>2, <2>3 DEF UnresolvedSubmissions
<1>3. ASSUME NEW ok, HasOutcome(later, "edit", e, ok) PROVE FALSE
  <2>1. PICK i \in 1 .. Len(later) : later[i].kind = "outcome" /\ later[i].op.edit = e
    BY <1>3 DEF HasOutcome, IsOutcome
  <2>2. later[i].op.gen = view.gen
    BY <1>1, <2>1 DEF Fit, OutcomesFit, Fits
  <2>3. later[i] \in ToSet(later)
    BY <1>1, <2>1 DEF ToSet
  <2>4. later[i].op \in Sent
    BY <2>1, <2>3 DEF Sent
  <2> QED
    BY <2>2, <2>4 DEF UnresolvedSubmissions
<1> QED
  BY <1>2, <1>3 DEF Waiting

LEMMA HistoryMeans == ASSUME HistoryInvariant PROVE HistoryMatchesDocument
<1> DEFINE Current(commands) == {c.id : c \in {d \in ToSet(commands) : d.gen = view.gen}}
<1> SUFFICES ASSUME tab = "open", ~stack.busy, UnresolvedSubmissions = {}
             PROVE  /\ stack.queued = <<>>
                    /\ exec.content \cap (view.since + 1 .. used.edits) \subseteq Current(stack.undo)
                    /\ Current(stack.undo) \ exec.taken \subseteq exec.content
                    /\ Current(stack.redo) \cap exec.content = {}
  BY DEF HistoryMatchesDocument
<1>1. /\ WorkspaceTypes /\ Tokens /\ HistoryNow /\ QueuedIsBusy
  BY DEF HistoryInvariant, AnswerInv, HistoryInv
<1>2. /\ stack.undo \in Seq(Commands) /\ stack.redo \in Seq(Commands) /\ stack.queued \in Seq(Commands)
      /\ Era \in Eras /\ Era.edits = used.edits /\ Era.gen = view.gen /\ Era.since = view.since
  BY <1>1, HistoryFields
<1>3. view.since \in Nat /\ used.edits \in Nat /\ stack.busy \in BOOLEAN
  BY <1>1 DEF WorkspaceTypes, SessionTypes, HistoryTypes, Views, Bounds, Stacks
<1>4. stack.queued = <<>>
  BY <1>1, <1>3 DEF QueuedIsBusy
<1>5. NoStepOutcome(later)
  <2>1. step = None
    BY <1>1 DEF Tokens, BusyIsStep
  <2> QED
    BY <1>1, <2>1, NoTokensYet, NoneIsStepOutcome DEF NoTokens
<1>6. Fit(stack.undo, stack.redo, stack.queued, inflight, later, Era)
  BY <1>1 DEF HistoryNow, History
<1>7. ASSUME NEW e \in Nat, view.since < e
      PROVE  /\ Has(stack.undo, e) => e \in exec.content \cup exec.taken
             /\ Has(stack.redo, e) => e \notin exec.content
             /\ e \in exec.content => Has(stack.undo, e)
  <2>1. Shown(e, stack.undo, stack.redo, stack.queued, inflight, later, exec.content, exec.taken)
    BY <1>1, <1>2, <1>7 DEF HistoryNow, History, Document
  <2>2. ~HasEdit(inflight, e) /\ ~Waiting(later, e)
    BY <1>1, <1>2, <1>6, <1>7, NothingOnTheWay
  <2>3. ~HasOutcome(later, "undo", e, TRUE) /\ ~HasOutcome(later, "redo", e, TRUE)
    BY <1>5 DEF NoStepOutcome
  <2>4. ~Has(stack.queued, e)
    BY <1>4, HasEmpty
  <2> QED
    BY <2>1, <2>2, <2>3, <2>4 DEF Shown
<1>8. ASSUME NEW s \in {stack.undo, stack.redo}, NEW e \in Nat, Has(s, e), view.since < e
      PROVE  e \in Current(s)
  <2>1. CommandsFit(s, Era)
    BY <1>6 DEF Fit
  <2>2. PICK i \in 1 .. Len(s) : s[i].id = e
    BY <1>8 DEF Has
  <2>3. s[i].gen = view.gen
    BY <1>2, <1>8, <2>1, <2>2 DEF CommandsFit, Fits
  <2>4. s[i] \in ToSet(s)
    BY <1>2, <2>2 DEF ToSet
  <2> QED
    BY <2>2, <2>3, <2>4
<1>9. ASSUME NEW s \in {stack.undo, stack.redo}, NEW e \in Current(s)
      PROVE  e \in Nat /\ Has(s, e) /\ view.since < e
  <2>1. CommandsFit(s, Era)
    BY <1>6 DEF Fit
  <2>2. PICK c \in ToSet(s) : c.gen = view.gen /\ c.id = e
    OBVIOUS
  <2>3. PICK i \in 1 .. Len(s) : s[i] = c
    BY <1>2, <2>2 DEF ToSet
  <2>4. Fits(e, view.gen, Era)
    BY <2>1, <2>2, <2>3 DEF CommandsFit
  <2>5. e \in 1 .. used.edits /\ e > view.since
    BY <1>2, <2>4 DEF Fits
  <2> QED
    BY <1>3, <2>2, <2>3, <2>5 DEF Has
<1>10. exec.content \cap (view.since + 1 .. used.edits) \subseteq Current(stack.undo)
  <2> SUFFICES ASSUME NEW e \in exec.content, e \in view.since + 1 .. used.edits
               PROVE  e \in Current(stack.undo)
    OBVIOUS
  <2>1. e \in Nat /\ view.since < e
    BY <1>3
  <2>2. Has(stack.undo, e)
    BY <1>7, <2>1
  <2> QED
    BY <1>8, <2>1, <2>2
<1>11. Current(stack.undo) \ exec.taken \subseteq exec.content
  BY <1>7, <1>9
<1>12. Current(stack.redo) \cap exec.content = {}
  BY <1>7, <1>9
<1> QED
  BY <1>4, <1>10, <1>11, <1>12

(* Between history steps the stack tells what this editor did: however edits, *)
(* undos, redos, other participants, other sessions and the closures of all   *)
(* of them interleave, an edit the session shows can be undone, one that can  *)
(* be redone is not shown, and one that can be undone is shown unless another *)
(* participant took its tile (submitOperation, UndoAsyncV, RedoAsyncV).       *)
THEOREM HistoryMatchesDocumentTheorem == Spec => []HistoryMatchesDocument
<1>1. Init => HistoryInvariant
  BY HistoryStarts
<1>2. HistoryInvariant /\ [Next]_vars => HistoryInvariant'
  BY HistoryGoesOn
<1>3. HistoryInvariant => HistoryMatchesDocument
  BY HistoryMeans
<1> QED
  BY <1>1, <1>2, <1>3, PTL DEF Spec
===================================================================================
