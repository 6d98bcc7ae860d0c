--------------------------------- MODULE Workspace ---------------------------------
(***************************************************************************)
(* One map tab attached to a session: its undo history, its saves and its   *)
(* closing.  Four actors meet here.  The UI thread runs the user's commands *)
(* and, one at a time and in order, the closures other goroutines hand it   *)
(* through RunLater.  The executor accepts or rejects the operations sent   *)
(* to the session and applies other participants' edits.  The save worker   *)
(* stages, checks, replaces and verifies a file.  Other programs write the  *)
(* same files.                                                             *)
(*                                                                         *)
(* An edit is a number and has a tile of its own; the document is the set   *)
(* of the edits it shows.  A file has the version diskversion recognises it *)
(* by (0: there is no file), and its content.  What the executor does on    *)
(* its own is in NetworkExecutor and EditorView; here it acknowledges one   *)
(* operation after the other.                                              *)
(***************************************************************************)
EXTENDS Integers, Sequences, FiniteSets, SequencesExt

CONSTANTS
    Paths,          \* where the map can be saved
    Home,           \* the file it was opened from
    None,
    MaxCommands,    \* bound: edits, undos, redos and saves that start, all together
    MaxDisturbances \* bound: edits of other participants, writes by other programs, sessions left
                    \* for another one, rejected operations, failing saves and waits that time out,
                    \* all together

Commands == [id : Nat, gen : Nat]

Steps == [direction : {"undo", "redo"}, command : Commands, id : Paths,
          pc : {"wait", "waited", "inverse", "prepared", "sent"}]

Jobs == [closing : BOOLEAN, repeat : BOOLEAN]

Requests == [id : Paths, path : Paths, expected : Nat, rebind : BOOLEAN, gen : Nat, rev : Nat,
             content : SUBSET Int]

Workers == [pc : {"stage", "check", "replace", "verify", "conflict"}, request : Requests,
            seen : Nat \cup {None}]

ASSUME WorkspaceAssumption ==
    /\ Home \in Paths
    /\ {MaxCommands, MaxDisturbances} \subseteq Nat
    /\ None \notin Steps \cup Jobs \cup Workers \cup Nat

VARIABLES
    \* the executor
    exec,           \* the acknowledged document: rev, content, and the edits whose tile another one took
    inflight,       \* operations sent and not acknowledged
    \* the UI thread
    later,          \* closures handed to RunLater
    view,           \* the editor: gen = attachmentGeneration, rev = authoritative.Revision,
                    \* gesture, and since: the edits made before this attachment
    stack,          \* the tab's commandStack
    step,           \* the undo or redo that keeps the stack busy, or None
    ws,             \* the WsMap: path, disk, hash, gen, rev, conflict
    job,            \* ws.activeSave, or None
    dialogs,        \* open dialogs
    tab,            \* "open", or how it was closed: "saved", "discarded"
    \* the disk
    files,
    worker,         \* the save worker, or None
    agreed,         \* the versions the user agreed to replace
    used            \* how much of each bound is used

vars == <<exec, inflight, later, view, stack, step, ws, job, dialogs, tab, files, worker, agreed, used>>

history  == <<stack, step>>
saving   == <<ws, job, worker, dialogs, tab>>
disk     == <<files, agreed>>

Remote(revision) == -revision
OutsideContent == {0}

Spend(bound) == used' = [used EXCEPT ![bound] = @ + 1]

Command == used.commands < MaxCommands /\ Spend("commands")
Disturb == used.disturbances < MaxDisturbances /\ Spend("disturbances")

File(version, content, origin) == [ver |-> version, content |-> content, origin |-> origin]
NoFile == File(0, {}, "none")
EmptyStack == [undo |-> <<>>, redo |-> <<>>, queued |-> <<>>, busy |-> FALSE, balance |-> 0, mark |-> 0]

(* wsmap.New, and the session the map was then attached to. *)
Init ==
    /\ exec = [rev |-> 0, content |-> {}, taken |-> {}]
    /\ inflight = <<>>
    /\ later = <<>>
    /\ view = [gen |-> 1, rev |-> 0, gesture |-> "none", since |-> 0]
    /\ stack = EmptyStack
    /\ step = None
    /\ ws = [path |-> Home, disk |-> 1, hash |-> {}, gen |-> 0, rev |-> 0, conflict |-> FALSE]
    /\ job = None
    /\ dialogs = {}
    /\ tab = "open"
    /\ files = [p \in Paths |-> IF p = Home THEN File(1, {}, "saved") ELSE NoFile]
    /\ worker = None
    /\ agreed = {}
    /\ used = [edits |-> 0, commands |-> 0, disturbances |-> 0, versions |-> 1]

-----------------------------------------------------------------------------
(* Operations on the way. *)

HasUnacknowledgedOperations == inflight # <<>>

(* unresolvedSubmissions: added when an operation is sent, removed by its     *)
(* closure, forgotten by resetAttachment.                                     *)
Sent == ToSet(inflight) \cup {c.op : c \in {d \in ToSet(later) : d.kind = "outcome"}}

UnresolvedSubmissions == {op \in Sent : op.gen = view.gen}

Operation(kind, edit) == [kind |-> kind, edit |-> edit, gen |-> view.gen]

Applicable(op) ==
    IF op.kind = "undo" THEN op.edit \in exec.content
                        ELSE op.edit \notin exec.content \cup exec.taken

(* The session accepts or rejects the oldest operation; the completion that   *)
(* ExecuteAsync was given hands its closure to the UI thread.                 *)
Settle(accepted) ==
    /\ HasUnacknowledgedOperations
    /\ LET op == Head(inflight) IN
        /\ accepted => Applicable(op)
        /\ exec' = IF ~accepted THEN exec
                   ELSE [exec EXCEPT !.rev = @ + 1,
                                     !.content = IF op.kind = "undo" THEN @ \ {op.edit} ELSE @ \cup {op.edit}]
        /\ later' = Append(later, [kind |-> "outcome", op |-> op, ok |-> accepted])
        /\ IF ~accepted /\ Applicable(op)
           THEN Disturb
           ELSE UNCHANGED used
    /\ inflight' = Tail(inflight)
    /\ UNCHANGED <<view, history, saving, disk>>

(* Another participant's edit: a tile of its own, or the tile of one of ours. *)
RemoteEdit(overwritten) ==
    /\ tab = "open"
    /\ Disturb
    /\ exec' = [rev |-> exec.rev + 1,
                content |-> (exec.content \ overwritten) \cup {Remote(exec.rev + 1)},
                taken |-> exec.taken \cup overwritten]
    /\ UNCHANGED <<inflight, later, view, history, saving, disk>>

-----------------------------------------------------------------------------
(* The editor. *)

Refreshed(v) == IF v.gesture = "none" THEN [v EXCEPT !.rev = exec.rev] ELSE v

(* A frame: the update the executor published is installed between gestures. *)
ProcessCollaborationUpdates ==
    /\ tab = "open"
    /\ view' = Refreshed(view)
    /\ view' # view
    /\ UNCHANGED <<exec, inflight, later, history, saving, disk, used>>

(* Dialogs are modal and block shortcuts: the user gives other commands when   *)
(* none is open.                                                               *)
Commanding == tab = "open" /\ dialogs = {}

(* A stroke captures tiles (pendingChanges); a move owns the selection. *)
BeginGesture(kind) ==
    /\ Commanding
    /\ view.gesture = "none"
    /\ Command
    /\ view' = [view EXCEPT !.gesture = kind]
    /\ UNCHANGED <<exec, inflight, later, history, saving, disk>>

(* The end of a gesture: it changed nothing or could not be sent, or its      *)
(* operation is submitted.                                                    *)
CommitOperation(changed) ==
    /\ tab = "open"
    /\ view.gesture # "none"
    /\ view' = [view EXCEPT !.gesture = "none"]
    /\ IF changed
       THEN /\ Spend("edits")
            /\ inflight' = Append(inflight, Operation("edit", used.edits + 1))
       ELSE /\ used' = [used EXCEPT !.commands = @ - 1]
            /\ UNCHANGED inflight
    /\ UNCHANGED <<exec, later, history, saving, disk>>

(* The session is left with nothing unacknowledged and another one attached,  *)
(* whose revision may have the same number and whose map may differ.          *)
Reattach(content) ==
    /\ tab = "open"
    /\ view.gesture = "none"
    /\ ~HasUnacknowledgedOperations
    /\ Disturb
    /\ exec' = [exec EXCEPT !.content = content]
    /\ view' = [gen |-> view.gen + 1, rev |-> exec.rev, gesture |-> "none", since |-> used.edits]
    /\ UNCHANGED <<inflight, later, history, saving, disk>>

-----------------------------------------------------------------------------
(* The undo history. *)

AppliedCommandId(s) == IF s.undo = <<>> THEN 0 ELSE Last(s.undo).id

IsModified(s) == s.busy \/ s.balance # 0 \/ AppliedCommandId(s) # s.mark

ForceBalance(s) == [s EXCEPT !.balance = 0, !.mark = AppliedCommandId(s)]

Push(s, command) ==
    IF s.busy THEN [s EXCEPT !.queued = Append(@, command)]
    ELSE [s EXCEPT !.undo = Append(@, command), !.redo = <<>>, !.balance = @ + 1]

(* Every queued command is pushed, in order, on a stack that is idle again. *)
FlushQueued(s) ==
    IF s.queued = <<>> THEN s
    ELSE [s EXCEPT !.undo = @ \o s.queued, !.redo = <<>>, !.balance = @ + Len(s.queued), !.queued = <<>>]

(* The completion UndoAsyncV and RedoAsyncV hand to the command: the stack it  *)
(* finds under the identity the step began with decides what it may touch.     *)
Completed(s, h, ok) ==
    LET exists == tab = "open" /\ ws.path = h.id
        from   == IF h.direction = "undo" THEN s.undo ELSE s.redo
        moved  == IF ok /\ exists /\ from # <<>> /\ Last(from) = h.command
                  THEN IF h.direction = "undo"
                       THEN [s EXCEPT !.undo = Front(@), !.redo = Append(@, h.command), !.balance = @ - 1]
                       ELSE [s EXCEPT !.redo = Front(@), !.undo = Append(@, h.command), !.balance = @ + 1]
                  ELSE s
        idle   == [moved EXCEPT !.busy = FALSE]
    IN  IF exists THEN FlushQueued(idle) ELSE idle

Complete(ok) == stack' = Completed(stack, step, ok) /\ step' = None

HistoryGestureError == view.gesture = "move"

Attached(h) == tab = "open" /\ h.command.gen = view.gen

(* What an undo or redo does once nothing is unacknowledged: an undo prepares *)
(* its inverse on a goroutine; a redo is built from the changes accepted      *)
(* first, which fails when another participant took the tile.                 *)
Proceed(h) ==
    IF h.direction = "undo"
    THEN /\ step' = [h EXCEPT !.pc = "inverse"]
         /\ stack' = [stack EXCEPT !.busy = TRUE]
         /\ UNCHANGED inflight
    ELSE IF h.command.id \in exec.taken \cup exec.content
    THEN /\ stack' = Completed(stack, h, FALSE)
         /\ step' = None
         /\ UNCHANGED inflight
    ELSE /\ step' = [h EXCEPT !.pc = "sent"]
         /\ stack' = [stack EXCEPT !.busy = TRUE]
         /\ inflight' = Append(inflight, Operation("redo", h.command.id))

(* UndoAsyncV, RedoAsyncV and the first part of beginHistoryStep.  A command   *)
(* of an earlier attachment, or one used during a move, completes with an      *)
(* error at once.                                                              *)
BeginHistoryStep(direction) ==
    LET commands == IF direction = "undo" THEN stack.undo ELSE stack.redo
        h == [direction |-> direction, command |-> Last(commands), id |-> ws.path, pc |-> "wait"]
    IN  /\ Commanding
        /\ commands # <<>>
        /\ ~stack.busy
        /\ Attached(h)
        /\ ~HistoryGestureError
        /\ Command
        /\ IF HasUnacknowledgedOperations
           THEN /\ step' = h
                /\ stack' = [stack EXCEPT !.busy = TRUE]
                /\ UNCHANGED inflight
           ELSE Proceed(h)
        /\ UNCHANGED <<exec, later, view, saving, disk>>

(* The goroutine of beginHistoryStep: it polls until the operations before the *)
(* step are acknowledged, or until historyWaitLimit.                           *)
HistoryWaitOver ==
    /\ step # None /\ step.pc = "wait"
    /\ IF HasUnacknowledgedOperations THEN Disturb ELSE UNCHANGED used
    /\ step' = [step EXCEPT !.pc = "waited"]
    /\ later' = Append(later, [kind |-> "waited"])
    /\ UNCHANGED <<exec, inflight, view, stack, saving, disk>>

(* The goroutine of prepareHistoryInverse: BuildInverse fails when the tile no *)
(* longer has what the edit left there.                                        *)
PrepareHistoryInverse ==
    /\ step # None /\ step.pc = "inverse"
    /\ step' = [step EXCEPT !.pc = "prepared"]
    /\ later' = Append(later, [kind |-> "inverse", ok |-> step.command.id \in exec.content])
    /\ UNCHANGED <<exec, inflight, view, stack, saving, disk, used>>

-----------------------------------------------------------------------------
(* Closures the UI thread runs.                                               *)

Run(kind) == later # <<>> /\ Head(later).kind = kind /\ later' = Tail(later)

(* Mutant: a changed attachment drops the closure, as it does for an edit. *)
RunHistoryWaitedDropping ==
    /\ Run("waited")
    /\ IF ~Attached(step)
       THEN UNCHANGED <<history, inflight>>
       ELSE IF ~HasUnacknowledgedOperations /\ ~HistoryGestureError
            THEN Proceed(step)
            ELSE Complete(FALSE) /\ UNCHANGED inflight
    /\ UNCHANGED <<exec, view, saving, disk, used>>

(* After a wait: the attachment, the acknowledgements and the gesture are      *)
(* looked at again.                                                            *)
RunHistoryWaited ==
    /\ Run("waited")
    /\ IF Attached(step) /\ ~HasUnacknowledgedOperations /\ ~HistoryGestureError
       THEN Proceed(step)
       ELSE Complete(FALSE) /\ UNCHANGED inflight
    /\ UNCHANGED <<exec, view, saving, disk, used>>

RunHistoryInverse ==
    /\ Run("inverse")
    /\ IF Attached(step) /\ Head(later).ok
       THEN /\ step' = [step EXCEPT !.pc = "sent"]
            /\ inflight' = Append(inflight, Operation("undo", step.command.id))
            /\ UNCHANGED stack
       ELSE Complete(FALSE) /\ UNCHANGED inflight
    /\ UNCHANGED <<exec, view, saving, disk, used>>

(* The outcome of an edit: submitOperation drops it when the attachment has    *)
(* changed, and pushes a command for an accepted one.  syncFromExecutor        *)
(* installs what is published by then.                                         *)
RunEditOutcome ==
    /\ Run("outcome")
    /\ LET outcome == Head(later)
           current == tab = "open" /\ outcome.op.gen = view.gen
       IN  /\ outcome.op.kind = "edit"
           /\ view' \in IF current THEN {view, Refreshed(view)} ELSE {view}
           /\ stack' = IF current /\ outcome.ok
                       THEN Push(stack, [id |-> outcome.op.edit, gen |-> view.gen])
                       ELSE stack
    /\ UNCHANGED <<exec, inflight, step, saving, disk, used>>

(* The outcome of an undo or redo always completes the step. *)
RunHistoryOutcome ==
    /\ Run("outcome")
    /\ LET outcome == Head(later)
           current == tab = "open" /\ outcome.op.gen = view.gen
       IN  /\ outcome.op.kind # "edit"
           /\ view' \in IF current /\ outcome.ok THEN {view, Refreshed(view)} ELSE {view}
           /\ Complete(current /\ outcome.ok)
    /\ UNCHANGED <<exec, inflight, saving, disk, used>>

-----------------------------------------------------------------------------
(* Saving. *)

(* CaptureSaveSnapshot: nothing unresolved, unacknowledged or half drawn, and  *)
(* the editor has installed the revision it would save.                        *)
CaptureReady ==
    /\ UnresolvedSubmissions = {}
    /\ ~HasUnacknowledgedOperations
    /\ view.gesture = "none"
    /\ view.rev = exec.rev

(* SaveSnapshot, for the decision to close, does not ask for the latter. *)
SnapshotReady ==
    /\ UnresolvedSubmissions = {}
    /\ ~HasUnacknowledgedOperations
    /\ view.gesture = "none"

(* Mutant: the history moves to another file while an undo is under way. *)
CanRebindBusyStack(s) == TRUE

(* One tab: no other one owns the destination's stack. *)
CanRebindStack(s) == ~s.busy

(* Mutant: only the history is asked, as before sessions existed. *)
HistoryIsUnsaved(w, j, s) == j # None \/ w.conflict \/ IsModified(s) \/ ~SnapshotReady

HasUnsavedChanges(w, j, s) ==
    \/ j # None
    \/ w.conflict
    \/ IsModified(s)
    \/ ~SnapshotReady
    \/ exec.content # w.hash

(* The label of the tab has no star. *)
LabelClean ==
    /\ ~ws.conflict
    /\ ~IsModified(stack)
    /\ ws.gen = view.gen /\ ws.rev = view.rev
    /\ view.gesture = "none"
    /\ UnresolvedSubmissions = {}

Request(w, path, expected, rebind) ==
    [id |-> w.path, path |-> path, expected |-> expected, rebind |-> rebind,
     gen |-> view.gen, rev |-> exec.rev, content |-> exec.content]

(* saveAtPath, with the workspace, the stack and the active save it finds.     *)
(* Its callbacks are those of closings that wait for it: they all get the same *)
(* answer, so it matters only whether there is one.  A save that cannot start  *)
(* answers false, which leaves the tab open.                                   *)
SaveAtPath(w, s, j, path, expected, rebind, closing) ==
    IF j # None
    THEN /\ job' = IF rebind THEN j
                   ELSE IF closing THEN [j EXCEPT !.closing = TRUE]
                   ELSE [j EXCEPT !.repeat = TRUE]
         /\ UNCHANGED <<worker, used>>
    ELSE IF (rebind => CanRebindStack(s)) /\ CaptureReady
    THEN /\ Command
         /\ job' = [closing |-> closing, repeat |-> FALSE]
         /\ worker' = [pc |-> "stage", request |-> Request(w, path, expected, rebind), seen |-> None]
    ELSE job' = None /\ UNCHANGED <<worker, used>>

(* Dispose, DisposeStack and the editor's Close.  A dialog of the tab that is  *)
(* still open does nothing any more: saveAtPath returns at once.               *)
Dispose(how) ==
    /\ tab' = how
    /\ job' = None
    /\ view' = [view EXCEPT !.gen = @ + 1, !.gesture = "none"]
    /\ stack' = [stack EXCEPT !.undo = <<>>, !.redo = <<>>, !.queued = <<>>]
    /\ dialogs' = {}

(* Ctrl+S. *)
Save ==
    /\ Commanding
    /\ SaveAtPath(ws, stack, job, ws.path, ws.disk, FALSE, FALSE)
    /\ UNCHANGED <<exec, inflight, later, view, history, ws, dialogs, tab, disk>>

(* saveAsConfirmingReplace for another path: a file that exists asks first,    *)
(* with the version it has now.                                                *)
SaveAs(path) ==
    /\ Commanding
    /\ path # ws.path
    /\ IF files[path].ver = 0
       THEN SaveAtPath(ws, stack, job, path, 0, TRUE, FALSE) /\ UNCHANGED dialogs
       ELSE /\ dialogs' = dialogs \cup {[kind |-> "replace", path |-> path, ver |-> files[path].ver]}
            /\ UNCHANGED <<job, worker, used>>
    /\ UNCHANGED <<exec, inflight, later, view, history, ws, tab, disk>>

(* "Replace": saveAsReplacingAsync. *)
ConfirmReplace(d) ==
    /\ d.kind = "replace"
    /\ dialogs' = dialogs \ {d}
    /\ agreed' = agreed \cup {d.ver}
    /\ IF CanRebindStack(stack) /\ files[d.path].ver = d.ver
       THEN SaveAtPath(ws, stack, job, d.path, d.ver, TRUE, FALSE)
       ELSE UNCHANGED <<job, worker, used>>
    /\ UNCHANGED <<exec, inflight, later, view, history, ws, tab, files>>

(* "Overwrite current file": overwriteAfterConflict saves over the version the *)
(* dialog was opened for.                                                      *)
ConfirmOverwrite(d) ==
    /\ d.kind = "conflict"
    /\ dialogs' = dialogs \ {d}
    /\ agreed' = agreed \cup {d.ver}
    /\ SaveAtPath(ws, stack, job, ws.path, d.ver, FALSE, FALSE)
    /\ UNCHANGED <<exec, inflight, later, view, history, ws, tab, files>>

CancelDialog(d) ==
    /\ dialogs' = dialogs \ {d}
    /\ UNCHANGED <<exec, inflight, later, view, history, ws, job, worker, tab, disk, used>>

-----------------------------------------------------------------------------
(* The save worker: runSaveWorker, saveAtomic. *)

Working(pc) == worker # None /\ worker.pc = pc

Deliver(result) ==
    /\ later' = Append(later, [kind |-> "saved", request |-> worker.request, result |-> result])
    /\ worker' = None

Result(outcome, version) == [outcome |-> outcome, ver |-> version]

(* Everything before the check: admission of memory, projection, staging,      *)
(* validation, and the question about the key length, which may be declined.   *)
WorkerStage(outcome) ==
    /\ Working("stage")
    /\ IF outcome = "ok"
       THEN worker' = [worker EXCEPT !.pc = "check"] /\ UNCHANGED <<later, used>>
       ELSE Disturb /\ Deliver(Result(outcome, 0))
    /\ UNCHANGED <<exec, inflight, view, history, ws, job, dialogs, tab, disk>>

(* expected.Check, right before the replacement. *)
WorkerCheck ==
    /\ Working("check")
    /\ LET version == files[worker.request.path].ver IN
       worker' = [worker EXCEPT !.pc = IF version = worker.request.expected THEN "replace" ELSE "conflict",
                                !.seen = version]
    /\ UNCHANGED <<exec, inflight, later, view, history, ws, job, dialogs, tab, disk, used>>

(* replaceFile: the rename fails, or it replaces whatever is there by then; on *)
(* some systems the directory is synchronised next, and may fail after it.     *)
WorkerReplace(outcome) ==
    /\ Working("replace")
    /\ outcome # "replaced" => used.disturbances < MaxDisturbances
    /\ LET request == worker.request
           version == used.versions + 1
           origin  == IF outcome = "replaced" THEN "saved" ELSE "failed"
       IN  /\ used' = [used EXCEPT !.versions = IF outcome = "refused" THEN @ ELSE version,
                                   !.disturbances = IF outcome = "replaced" THEN @ ELSE @ + 1]
           /\ files' = IF outcome = "refused" THEN files
                       ELSE [files EXCEPT ![request.path] = File(version, request.content, origin)]
           /\ IF outcome = "replaced"
              THEN worker' = [worker EXCEPT !.pc = "verify", !.seen = version] /\ UNCHANGED later
              ELSE Deliver(Result("error", 0))
    /\ UNCHANGED <<exec, inflight, view, history, ws, job, dialogs, tab, agreed>>

(* resultState.Check, after it. *)
WorkerVerify ==
    /\ Working("verify")
    /\ IF files[worker.request.path].ver = worker.seen
       THEN Deliver(Result("saved", worker.seen))
       ELSE worker' = [worker EXCEPT !.pc = "conflict"] /\ UNCHANGED later
    /\ UNCHANGED <<exec, inflight, view, history, ws, job, dialogs, tab, disk, used>>

(* The version the conflict dialog will offer to overwrite; reading it may     *)
(* fail.                                                                       *)
WorkerCaptureConflict(read) ==
    /\ Working("conflict")
    /\ IF read THEN Deliver(Result("conflict", files[worker.request.path].ver)) /\ UNCHANGED used
               ELSE Deliver(Result("error", 0)) /\ Disturb
    /\ UNCHANGED <<exec, inflight, view, history, ws, job, dialogs, tab, disk>>

(* Another program writes the file, or deletes it. *)
OutsideWrite(path, deleted) ==
    /\ tab = "open" \/ worker # None
    /\ used.disturbances < MaxDisturbances
    /\ used' = [used EXCEPT !.disturbances = @ + 1, !.versions = @ + 1]
    /\ deleted => files[path].ver # 0
    /\ files' = [files EXCEPT ![path] = IF deleted THEN NoFile
                                        ELSE File(used.versions + 1, OutsideContent, "outside")]
    /\ UNCHANGED <<exec, inflight, later, view, history, saving, agreed>>

-----------------------------------------------------------------------------
(* finishSave, and what the answer of a save does to the tab. *)

(* Mutant: the version on display when the save ends is taken for the saved one. *)
SavedWorkspaceNow(request, version) ==
    [path |-> request.path, disk |-> version, hash |-> request.content,
     gen |-> view.gen, rev |-> view.rev, conflict |-> FALSE]

(* The workspace after a save that reached the disk. *)
SavedWorkspace(request, version) ==
    [path |-> request.path, disk |-> version, hash |-> request.content,
     gen |-> request.gen, rev |-> request.rev, conflict |-> FALSE]

(* tryCompleteSaveAcknowledgement.  A capture is of the revision the editor    *)
(* has installed, and that never falls within an attachment: the branch that   *)
(* waits for the editor is never taken, and the answer is given at once.       *)
SaveCaptureReady(request) ==
    /\ request.gen = view.gen
    /\ request.rev = view.rev
    /\ CaptureReady

(* The save is on disk: history is balanced if the document is still the one   *)
(* that was saved, the closing that waited for it goes on if nothing is        *)
(* unsaved, and a save asked for meanwhile starts if the revision moved.       *)
FinishSaved(j, request, version) ==
    LET w     == SavedWorkspace(request, version)
        ready == SaveCaptureReady(request)
        s     == IF ready THEN ForceBalance(stack) ELSE stack
        again == j.repeat /\ (request.gen # view.gen \/ request.rev # view.rev)
    IN  /\ ws' = w
        /\ IF ready /\ j.closing /\ ~HasUnsavedChanges(w, None, s)
           THEN Dispose("saved") /\ UNCHANGED <<worker, used>>
           ELSE /\ stack' = s
                /\ IF again THEN SaveAtPath(w, s, None, w.path, w.disk, FALSE, FALSE)
                            ELSE job' = None /\ UNCHANGED <<worker, used>>
                /\ UNCHANGED <<view, tab, dialogs>>

(* Mutant: a conflict leaves the version it found as the expected one. *)
FinishFailedAdopting(request, result) ==
    LET conflicting == result.outcome = "conflict" /\ ~request.rebind IN
    /\ job' = None
    /\ ws' = IF conflicting THEN [ws EXCEPT !.conflict = TRUE, !.disk = result.ver] ELSE ws
    /\ dialogs' = IF conflicting THEN dialogs \cup {[kind |-> "conflict", path |-> ws.path, ver |-> result.ver]}
                  ELSE dialogs
    /\ UNCHANGED <<view, stack, worker, tab, files, used>>

(* The save did not reach the disk, or the tab or its history cannot follow it *)
(* to its path: every callback gets false.  A file that was replaced all the   *)
(* same is marked as such.                                                     *)
FinishFailed(request, result) ==
    LET conflicting == result.outcome = "conflict" /\ ~request.rebind IN
    /\ job' = None
    /\ ws' = IF conflicting THEN [ws EXCEPT !.conflict = TRUE] ELSE ws
    /\ dialogs' = IF conflicting THEN dialogs \cup {[kind |-> "conflict", path |-> ws.path, ver |-> result.ver]}
                  ELSE dialogs
    /\ files' = IF result.outcome = "saved" /\ files[request.path].ver = result.ver
                THEN [files EXCEPT ![request.path].origin = "failed"] ELSE files
    /\ UNCHANGED <<view, stack, worker, tab, used>>

FinishSave ==
    /\ Run("saved")
    /\ LET request == Head(later).request
           result  == Head(later).result
           usable  == /\ result.outcome = "saved"
                      /\ ws.path = request.id
                      /\ request.rebind => request.gen = view.gen /\ CanRebindStack(stack)
       IN  IF job = None THEN UNCHANGED <<ws, job, view, stack, worker, dialogs, tab, files, used>>
           ELSE IF usable THEN FinishSaved(job, request, result.ver) /\ UNCHANGED files
           ELSE FinishFailed(request, result)
    /\ UNCHANGED <<exec, inflight, step, agreed>>

-----------------------------------------------------------------------------
(* Closing: closeWorkspaceGentlyV. *)

CloseTab ==
    /\ Commanding
    /\ IF HasUnsavedChanges(ws, job, stack)
       THEN /\ dialogs' = dialogs \cup {[kind |-> "close", path |-> ws.path, ver |-> 0]}
            /\ UNCHANGED <<tab, job, view, stack>>
       ELSE Dispose("saved")
    /\ UNCHANGED <<exec, inflight, later, step, ws, worker, disk, used>>

(* "Yes": SaveAsync, and FinishSaved closes the tab. *)
CloseSaving(d) ==
    /\ d.kind = "close"
    /\ dialogs' = dialogs \ {d}
    /\ SaveAtPath(ws, stack, job, ws.path, ws.disk, FALSE, TRUE)
    /\ UNCHANGED <<exec, inflight, later, view, history, ws, tab, disk>>

(* "No": Balance leaves a history of session edits alone. *)
CloseDiscarding(d) ==
    /\ d.kind = "close"
    /\ Dispose("discarded")
    /\ UNCHANGED <<exec, inflight, later, step, ws, worker, disk, used>>

-----------------------------------------------------------------------------
Environment ==
    \/ \E accepted \in BOOLEAN : Settle(accepted)
    \/ \E overwritten \in {{}} \cup {{e} : e \in 1 .. used.edits} : RemoteEdit(overwritten)
    \/ \E path \in Paths, deleted \in BOOLEAN : OutsideWrite(path, deleted)

User ==
    \/ \E kind \in {"stroke", "move"} : BeginGesture(kind)
    \/ \E changed \in BOOLEAN : CommitOperation(changed)
    \/ \E content \in {exec.content, {}} : Reattach(content)
    \/ \E direction \in {"undo", "redo"} : BeginHistoryStep(direction)
    \/ Save
    \/ \E path \in Paths : SaveAs(path)
    \/ \E d \in dialogs : ConfirmReplace(d) \/ ConfirmOverwrite(d) \/ CancelDialog(d)
    \/ CloseTab
    \/ \E d \in dialogs : CloseSaving(d) \/ CloseDiscarding(d)

Background ==
    \/ HistoryWaitOver
    \/ PrepareHistoryInverse
    \/ \E outcome \in {"ok", "error", "declined"} : WorkerStage(outcome)
    \/ WorkerCheck
    \/ \E outcome \in {"replaced", "refused", "unsynced"} : WorkerReplace(outcome)
    \/ WorkerVerify
    \/ \E read \in BOOLEAN : WorkerCaptureConflict(read)

UIThread ==
    \/ ProcessCollaborationUpdates
    \/ RunHistoryWaited
    \/ RunHistoryInverse
    \/ RunEditOutcome
    \/ RunHistoryOutcome
    \/ FinishSave

Next == Environment \/ User \/ Background \/ UIThread

Spec == Init /\ [][Next]_vars

-----------------------------------------------------------------------------
(* A tab that closes by itself or after its save took nothing with it: no      *)
(* gesture, no operation and no undo was under way, and the map's file holds   *)
(* the document the session acknowledged, unless another program has written   *)
(* it or a save reported as failed had replaced it.                            *)
ClosedMeansSaved ==
    [][tab = "open" /\ tab' = "saved" =>
        /\ view.gesture = "none" /\ inflight = <<>> /\ step = None
        /\ LET file == files[ws'.path] IN file.origin = "saved" => file.content = exec.content]_vars

(* A save replaces what another program wrote only if the user agreed to       *)
(* replace that very version, or it was written after the check that comes     *)
(* right before the replacement.                                               *)
OutsideEditsSurvive ==
    [][\A p \in Paths :
        files[p].origin = "outside" /\ files'[p] # files[p] /\ worker # worker' =>
            files[p].ver \in agreed \/ files[p].ver # worker.seen]_vars

(* Between history steps the stack tells what this editor did: an edit the     *)
(* session shows can be undone, an edit that can be redone is not shown, and   *)
(* one that can be undone is shown unless another participant took its tile.   *)
HistoryMatchesDocument ==
    tab = "open" /\ ~stack.busy /\ UnresolvedSubmissions = {} =>
        LET Current(commands) == {c.id : c \in {d \in ToSet(commands) : d.gen = view.gen}}
        IN  /\ stack.queued = <<>>
            /\ exec.content \cap (view.since + 1 .. used.edits) \subseteq Current(stack.undo)
            /\ Current(stack.undo) \ exec.taken \subseteq exec.content
            /\ Current(stack.redo) \cap exec.content = {}

(* A label without a star is true: the document the editor shows is the one    *)
(* that was saved, and unless the file changed since, it is the file.          *)
CleanLabelIsTrue ==
    tab = "open" /\ LabelClean /\ view.rev = exec.rev =>
        /\ exec.content = ws.hash
        /\ files[ws.path].ver = ws.disk => files[ws.path].content = exec.content

(* Nothing waits for an answer nobody will give: a busy history has a step     *)
(* whose goroutine, operation or closure is on the way, and an active save a   *)
(* worker or its result.  In particular a change of attachment, a closed tab   *)
(* or a failure in the middle cannot leave undo, redo, saving or a closing     *)
(* that waits for a save blocked for good.                                     *)
NothingIsForgotten ==
    /\ stack.busy <=> step # None
    /\ step # None =>
        \/ step.pc \in {"wait", "inverse"}
        \/ step.pc = "waited" /\ \E c \in ToSet(later) : c.kind = "waited"
        \/ step.pc = "prepared" /\ \E c \in ToSet(later) : c.kind = "inverse"
        \/ step.pc = "sent" /\ \E op \in Sent : op.kind = step.direction /\ op.edit = step.command.id
    /\ job # None => worker # None \/ \E c \in ToSet(later) : c.kind = "saved"
===================================================================================
