# A verification project for AphelionDMM's collaboration core

AphelionDMM is a map editor for BYOND with shared sessions.  Several editors
work on one map; a server orders their edits, stores them, and brings every
editor to the same map.  This directory holds TLA+ modules of that core, from
the server's log to the map tab on the screen and the file it is saved to, the
TLC configurations that check them on small instances, and TLAPS proofs of the
main safety properties of every part for instances of any size.

Paths below are relative to `src/internal/aphelion/collab/` unless they start
with `src/` or `app/`, which stands for `src/internal/app/`.

## 1. Inventory

### The parts, their state and their operations

**Operation engine** (`engine/`).  A `Document` keeps the tile table at a
revision, the canonical hash of every retained revision, every accepted
operation by ID, which operation was undone by which, and an index from stable
ID to coordinate.  `ApplyContext` validates an operation against all of that and
installs it; `BuildInverseContext` writes the operation that undoes another;
`RestoreAt` rebuilds a document from a stored snapshot and the complete history.
It is sequential code.  What is hard is the incremental index, which later
validation trusts instead of scanning the map, acceptance of operations with an
old base, undo across other people's edits, and recovery, which validates part
of the history without applying it.

**Document owner** (`server/document.go`, `server/recovery.go`).  One goroutine
per session owns the document.  Requests arrive on a channel.  A submission
looks its ID up in the store, applies to a clone, appends durably, and only then
replaces the document, publishes and answers.  Every store call may fail; an
append may fail after it committed, and the owner asks the store what happened.
A saver goroutine stores snapshots, which compact the replay rows, and reports
back on a channel.  `Close`, or the end of the process, may come anywhere, and
a saver may outlive the owner that started it.

**Session store** (`store/`).  The accepted operations with their revisions and
hashes, the newest snapshot, and replay pages after it.  There are three
implementations (memory, SQLite, PostgreSQL) behind one interface.

**Publication and connections** (`server/shared_publication.go`,
`server/document_publication.go`, `server/websocket.go`,
`server/paged_replay.go`).  The owner sends each acceptance to bounded
subscriber channels and closes a subscriber whose channel is full.  A websocket
handler subscribes, reads the owner's revision, replays pages from the store up
to it, and then runs a loop over events and client messages.  An answer that
names a revision first flushes the events up to it (`flushThrough`).

**Network executor** (`client/executor.go`, `client/presentation.go`).  One
goroutine per edit: it takes a ticket against a bounded budget, waits for its
dispatch turn, projects the edit as pending, sends it, hands its share of the
budget over, waits for the answer and reports it in ticket order.  The read loop
and the connection's monitor change the same state under two mutexes.  A lost
connection suspends the executor and turns everything unacknowledged into drafts
that are never sent again automatically; the user discards or rebuilds them.

**Presentation** (`client/presentation.go`, `client/indexed_executor.go`,
`client/projection_index.go`, `app/ui/cpwsarea/wsmap/pmap/editor/`).  The
executor keeps the acknowledged table, an owner index and a sparse overlay of
pending edits, and accumulates the tiles to redraw.  The editor drains that
between gestures, and edits the same tiles in gestures that it submits, and
takes back when they are refused.

**Session client** (`ui/session_client.go`, `ui/controller.go`,
`client/websocket.go`, `client/reconnect.go`, `client/state.go`).  The controller
lets one join or leave run at a time.  The client keeps the current session's
socket, executor, credential and state machine; a monitor per socket suspends
the executor and starts a reconnect loop, which dials with the credential that
the last join rotated, falls back to a snapshot, and gives up after a number of
attempts.  Callbacks of sockets and loops of a session that was left may still run.

**Workspace** (`app/ui/cpwsarea/wsmap/save.go`, `app/command/storage.go`,
`app/ui/cpwsarea/close_save.go`, `src/internal/dmapi/dmmap/dmmdata/save_atomic.go`).
A map tab keeps an undo history whose steps are operations of the session, and
so take their time; a save captures the acknowledged document and hands it to a
worker that stages, checks, replaces and verifies the file; closing asks whether
anything is unsaved.

**Around them**: session hub and membership, presence, bulk transactions with
byte budgets, tokens and hosted authentication, the wire protocol, the adapter
between map files and snapshots, and the desktop editor with its map tools.
`PROJECT.json` lists every part, with the reason for those left out.

### How they interact

```
 user -> editor gesture -> NetworkExecutor -> websocket handler -> Hub -> owner's channel
          |      ^                ^                                          |  lookup, append
  command |      | redraws        | suspend, resume, snapshot                v
   stack, |      |                |                     store <----- DocumentOwner ----> saver
    save  |  presentation     SessionClient               |                | publishDurable
          v  accumulator      monitors, reconnect         | replay pages,  v
        file     ^                |                       | snapshots  subscriber channel
                 |                v                       v                |
                 +----- NetworkExecutor <--- websocket handler <-----------+
```

### What is hard, and what must hold

| behaviour | property |
|---|---|
| an append that commits and reports failure | an error means not durable (`RefusedIsNotDurable`), an answer names what the store holds (`AnswersAreDurable`) |
| a crash between append, publication and answer | memory is a prefix of the durable log (`MemoryIsDurable`), the whole implements one log (`ImplementsAcceptedLog`) |
| publication while duplicates reload the document | order and durability of what is published (`PublishedInOrder`), completeness (`PublishesEveryRevision`) |
| a saver of an earlier owner finishing late | `SnapshotsBehind`, `SnapshotNeverRegresses` |
| edits on old bases, moving identities | `IdentityIndexExact`, `HistoryReplays` |
| undo in two turns of the owner | `InverseRestores`, `BuiltInverseLands` |
| recovery over compacted history | `RestoreAgrees` |
| a full subscriber queue, edits during a join, compaction during a replay | `SubscriptionCovers`, `WireInOrder`, `GapOnlyIfUnpublished` |
| a rejection that must match the client's revision exactly | `NoIntegrityFault` |
| reconnects and snapshot fallbacks | `AcknowledgedNeverRegresses`, `EveryoneCatchesUp` |
| waiting: for an answer, a flush, a snapshot | `EveryRequestAnswered`, `SubmissionsAnswered`, `BacklogIsCompacted` |
| a connection lost between any two steps of an edit's goroutine | `IntentKept`, `SentOnItsConnection`, `DraftsAreOpen`, `DiscardedStaysDiscarded` |
| answer, interruption and cleanup in any order | `BudgetExact`, `EveryEditReported`, `CallbacksInOrder` |
| a draft rebuilt, discarded and dismissed at once | `OneRebuildPerDraft` |
| redraws accumulated while edits are admitted, refused and rolled back | `DrainShowsProjection`, `EditStaysOnScreen`, `ViewConverges` |
| identities moving under pending edits | `OverlayAgrees` |
| "is anything unacknowledged", asked without a lock | `CaptureIsCurrent` |
| a session left while its goroutines run | `SessionsNeverMix` |
| a socket that ends while its join or reconnect completes | `SessionSettles`, `LostSessionIsRetried` |
| later failures hiding the first cause | `RateLimitStaysVisible` |
| undo, redo and accepted edits arriving out of step | `HistoryMatchesDocument` |
| the document moving on during a save | `CleanLabelIsTrue`, `ClosedMeansSaved` |
| another program writing the file | `OutsideEditsSurvive` |
| a session left during an undo, a tab closed during a save | `NothingIsForgotten` |

`PROJECT.json` lists each hazard at the line where it bites.

## 2. Modules

| module | what it is |
|---|---|
| `Engine` | the engine's functions as operators on a document record |
| `EngineDocument` | a document, several actors submitting, an inverse built in one turn and submitted in another |
| `EngineProofs` | lemmas about the engine's functions, and induction over a sequence |
| `EngineDocumentProofs` | the identity index is exact, the history replays, undo and recovery restore |
| `AcceptedLog` | abstract: the log and the document a session promises |
| `DocumentOwner` | the owner, its store, savers, failures, crashes, recoveries |
| `DocumentOwnerProofs` | its safety properties and the refinement of `AcceptedLog` |
| `Delivery` | publication, join and replay, connection loop, client's revision |
| `DeliveryProofs` | all of its safety properties |
| `NetworkExecutor` | tickets, turns, sends, answers, drafts, interruptions, callbacks |
| `NetworkExecutorProofs` | all of its safety properties |
| `Projection` | overlay, owner index and redraw sets as operators, with the reference projection |
| `EditorView` | the presentation accumulator and the editor's gestures over `Projection` |
| `EditorViewProofs` | all of its safety properties: overlay, accumulator, capture, screen |
| `SessionClient` | joining, leaving, monitors, reconnect loop, sockets, credentials |
| `SessionClientProofs` | sessions never mix, a rate limit stays visible |
| `Workspace` | undo history, saves and closing of a map tab in a session |
| `WorkspaceProofs` | nothing waits for ever, labels, files and closing, the undo history |
| `MC...` | the instances that TLC checks |

Each module takes from its neighbours only what its own control depends on:
revisions are in `Delivery`, edits as identities in `NetworkExecutor`, tiles in
`Engine`, `Projection` and `EditorView`, sockets and sessions in `SessionClient`,
files in `Workspace`.

Definitions named `X_Something`, or with a comment that starts with "Mutant",
are variants of the definition below them with a plausible mistake in them;
`PROJECT.json` pairs each with the property that notices it.  Nothing else uses
them.

### Engine and EngineDocument

A tile state is the sequence of stable IDs on it; type paths and variables ride
along with an ID and no decision of the engine looks into them beyond equality.
The tile table is a function on the *stored* coordinates, because an absent and
a stored empty tile read the same and hash differently.  The canonical hash is
the table itself: SHA-256 is assumed free of collisions.  Changes are a set of
`[coord, before, after]`, since the code sorts them; a coordinate named twice is
two members.  Validation returns the set of rejection codes the code may give:
where it walks the changes in coordinate order and stops at the first bad one,
the model does not fix which is first.

`Restore` follows `RestoreAt` to the durable head, row by row: rows up to the
snapshot are revalidated against their own before-values and recorded, later
rows are applied.  Its value is a set: the rebuilt document, or nothing when a
check fails, where the code returns an error.  `replay` is a recursive function,
not a `RECURSIVE` operator.

`EngineDocument` supplies the inputs: edits against any base up to `MaxLag`
revisions old, inverses composed by a client, damaged operations, resubmissions,
and the two turns of `Hub.Inverse`.

### DocumentOwner

An operation is `[id, tile, before]`: it writes its own ID to a tile, provided
the tile still holds what operation `before` wrote there.  This keeps of the
engine what the owner depends on: that an operation may be valid against one
document and not against another.  One action is one step of the submit turn
between two points where a failure or a crash can come: `Take`, `Lookup`,
`AppendOperation`, `Resolve`, `Reconcile`, `Finish`.  `Finish` is the whole rest of the
turn: adopt, publish, answer, start a snapshot.  `Fails(call)` lets a store call
listed in `Faults` fail; a cancelled request context appears as such a failure.
A failing append has two outcomes, committed and not.  `Crash` is `Close` or the
end of the process, and leaves the savers running or not; `Recover` starts the
next life from the durable head.  A caller that has sent a request waits until
it is answered or the owner is done, whatever its own context says, as
`request` does.

### Delivery

The document is reduced to its revision.  A connection's server side has a
`phase`: `subscribed`, `replay`, `loop`, then `refused`, `reject` and
`duplicate` while a submission is answered, and `ended`.  `queue` and `open` are
the subscriber channel and its registration; a closed channel still yields what
it holds.  `wire` is the ordered connection.  Each message carries `at`, the
revision the connection has sent when writing it, which the properties use and
no action reads.

The client has one submission outstanding per connection.  Its receipts of
accepted operations are not modelled here: an operation is not sent again after a
suspension, so the answer to a duplicate names an acceptance the client was sent
before, and an acceptance at or below the acknowledged revision is one it
recognises.  A socket that the server has not yet noticed is dead may still
submit; `Accept` covers what it does.  `Adopt` is the owner taking a revision
from the store without publishing it, the subject of the first finding below.

`Join` to `Joined` keeps the order of subscription and authority, and
`ReplayPage` is one page with the check against compaction.  `Closed` and
`Refresh` are the ends of a reconnect attempt.  Refreshing follows
`ReplaceAcknowledgedSnapshot`: not over a pending operation.

### NetworkExecutor

`pc[op]` is where the goroutine of edit `op` is; each action is one critical
section of the code, so that the read loop, the monitor, the user and the other
goroutines run between any two.  `projected` and `pending` are
`projection.Pending` and the waiters; `queued`, `localAdmissions`,
`pendingAdmission`, `nextDispatch`, `dispatchTurn`, `interruptedBefore` and
`completion...` have the names of the fields of `publicationState`.  Whether an
edit passes local validation and whether the server accepts it are choices.
`up` and `down` are the two directions of the connection; a break drops
everything on the way down and a suffix of what was on the way up.  A bulk body
can fail after it arrived (`late`), a plain message can be delivered and its
send still report an error only when the connection is gone.  `accepted` covers
the retained operations and the receipts: both answer "already known".  `shown`
is what the last publication told the user about drafts, which is why a discard
or a rebuild may come for a draft that is no longer there.

`admitted`, `sent`, `called`, `discarded` and `late` are observations: no guard
of an action that models code reads them, except that `DiscardConflict` records
what the user did.

### Projection and EditorView

`Projection` holds the pure part: `Overlay` is `effectiveProjectionOverlay` (the
sparse view), `Visible` is `visibleProjection` (the reference over the whole
snapshot), `AuthorityOwners` is the incremental index, `Redraw` the comparison by
which a publication finds the tiles it must repaint, with `Previously`
reconstructing what was shown before.  `EditorView` runs it: `Commit` shows and
submits a gesture, `Dispatch`, `RefuseAdmitted`, `FailPending` and
`FinishAdmission` are the goroutine of the edit at its turn, `Receive...`,
`Suspend` and `ReplaceAcknowledgedSnapshot` the network's side, and `Frame`
drains the accumulator between gestures.  The sections that hold the executor's
mutex are atomic; the take of an update excludes only `publication.mu`.

### SessionClient

One record per goroutine: `join[g]` for each session's join, `leaver`,
`runner[g]` for its reconnect loop, `socket[t].monitor` for the monitor of a
socket, and the read loop, which runs the receive callbacks one message at a
time, with the snapshot of a reconnect fetched inside its callback.  A session is
a number, and stands for the state machine the code compares by pointer;
resumption credentials are named after the socket that delivered them.
`ServeJoin` is the service: it invalidates the credential it is given and
delivers a new one, which may never arrive.  Errors are classes: `rate`, `auth`
(denied, or an incompatible protocol; both are permanent), `cancelled` and the
rest.  `MaxSockets` never blocks an attempt in the runs: each failed attempt
costs a fault except one that is refused because its credential was rotated by
the attempt before it, so joins + faults + 1 sockets are enough - with two
sessions, the second of which costs a fault, four.

### Workspace

An edit is a number with a tile of its own, so the document is the set of edits
it shows plus those of other participants; `taken` holds the edits whose tile
another one took, which is when an undo or redo is refused.  `exec` and
`inflight` are what the executor has acknowledged and what it still has to,
first in first out.  `later` is the queue of closures handed to the UI thread.
`stack` is the `commandStack` with `busy`, `queued`, `balance` and the saved
mark; `step` is the undo or redo in progress, through `beginHistoryStep` (wait
for earlier operations), `prepareHistoryInverse` and the operation's answer.
`job` is the active save, `worker` its goroutine, with the steps at which
another program can intervene: `WorkerStage`, `WorkerCheck`, `WorkerReplace`,
`WorkerVerify`, `WorkerCaptureConflict`.  `ws` remembers the file version, the
document and the revision last saved.

Dialogs are modal and block shortcuts, so commands need an empty `dialogs`;
answers to dialogs, gestures' ends and closures do not.  Of the callbacks of a
save only one matters, the one that closes the tab, and `job` says whether there
is one.  The question about the key length is one of `WorkerStage`'s outcomes.
The branch of `tryCompleteSaveAcknowledgement` that waits for a later revision
is never taken: a capture is never newer than the editor's revision.

## 3. Runs

| run | instance | shows |
|---|---|---|
| `engine` | 2 tiles, 2 identities, 2 actors, 3 operations, ten edit shapes (place, clear, move, swap, merge, repeated identity, repeated and outside coordinates) | the properties of `EngineDocument`; 12,808 states |
| `owner` | 2 clients, 3 operations on a tile, one failing store call, 2 lives, snapshots by count and by clock | the safety properties and the refinement; 398,862 states |
| `owner_append` | 2 clients, 2 operations, one failing append, 2 lives, a snapshot at every operation | completeness of publication, meaning of an error, liveness; 105,410 states |
| `owner_unpublished` | append and resolving lookup both fail | **violation** of `PublishesEveryRevision` |
| `delivery` | 1 client and the rest of the session, queue of 1, pages of 1, 3 revisions, 2 breaks, one unpublished revision | order on the wire, coverage of subscriptions, catching up and answering; 214,857 states |
| `executor` | 2 edits, one of them a bulk body, budget of 2, 2 breaks, 1 reconnect | intent, budget, callbacks and liveness; 592,762 states |
| `executor_rebuild` | 1 edit, 2 rebuilds, budget of 1, cancellation, 1 break, 1 reconnect | claims of rebuilds; 2,278,159 states |
| `executor_discard` | 2 edits, 1 break | **violation** of `DiscardedStaysDiscarded` |
| `view` | 2 tiles, 2 identities, 2 gestures, 1 remote edit or recovered snapshot, 1 break | overlay, accumulator, capture, screen; 423,913 states |
| `session` | 2 sessions, 4 sockets, 2 faults, 2 attempts | separation of sessions, rest, visible causes; 492,084 states |
| `session_lost` | 1 session, 4 sockets, 2 faults, 2 attempts | **violation** of `LostSessionIsRetried` |
| `workspace` | 2 paths, 3 commands, 1 disturbance | history, label, file, closing; 655,616 states |

*Bounds.*  Three operations are the least for an undo with a foreign edit in
between, and for a duplicate whose reload could roll back a later operation.
One failure per behaviour covers every single fault at every step; the pair that
matters, append then lookup, has its own run.  Two lives are what a stale saver
needs.  In `delivery` the instance is small because liveness is checked on it: a
queue of one overflows with two revisions during a join, and three let replay,
queue and snapshot each hold one; its safety properties are proved for every
queue depth, page size and number of clients.  In `executor` two edits are the
least for an order and for one goroutine to wait for another; two breaks bring
an interruption of the reconnected executor; `executor_rebuild` puts the budget
to its limit with a draft, its rebuild and a second rebuild.  In `view` two tiles
are what a move and a swap need and two gestures what "newer over older" needs.
In `session` two sessions are one left and its successor, and a fault is a failed
request, a lost or rate-limited socket, an expiry, a compaction, a rejection or
the second join; the two attempts are enough for the last one to differ from the
first.  In `workspace` gestures, undos, redos and saves share one budget and
disturbances (remote edits, other programs' writes, changes of session,
rejections, failing saves, waits that time out) another: three commands give
edit, undo and a save in any overlap.  With four commands the run also passed
(6,551,077 states, 3.5 minutes).  Deadlock is not checked where bounds, a closed
owner, a left session or a closed tab end a behaviour.

*Symmetry* is used where operations, actors or clients are interchangeable and only
safety is checked.

*Fairness.*  The owner's loop and a saver goroutine are scheduled by the Go
runtime and every call in them returns: weak fairness.  `select` chooses among
ready cases at random, so a snapshot result, a durable event or a client
message that is ready time and again is taken: strong fairness of
`SnapshotDone`, `Deliver` and `Handle`.  In `delivery` the client reconnects after
a loss; the code stops after a number of attempts until the user asks again, and
weak fairness of `ClientStep` assumes the user does.  In `executor` every
goroutine of an edit runs, the read loop delivers, the server answers what it
has read and the monitor of a lost transport suspends; nobody has to edit,
discard, rebuild or reconnect.  In `view` frames are drawn, a gesture that was
begun is ended, and the goroutine at its turn runs; answers need not come.  In
`session` goroutines run and the service answers what reaches it.  `workspace` has
no liveness: that nothing waits for ever is the invariant `NothingIsForgotten`,
which names, for everything that waits, who will end the wait.  Nobody is
obliged to submit, to crash, to compact or to break a connection.

### The findings

**An adopted revision is not published** (`owner_unpublished`).
`src/docs/agent/architecture.md:167` says that the server "publishes accepted
revisions from the document loop after durable append".  The run reaches a state
in which the owner serves a revision it never published: an append commits and
reports an error, the lookup that should resolve it fails too, the submission is
refused, and its resubmission is then found in the store, answered as a
duplicate and adopted by a reload (`server/document.go:261`, `363-367`).
`Delivery` shows the consequence with `Adopt`: the next event is a gap for every
connection, which ends it, and the clients recover by replay - the safety
properties hold regardless.  Until that next event, a connection whose answer
has to flush through the unpublished revision waits for it, so
`EveryoneCatchesUp` and `SubmissionsAnswered` promise nothing from then on.

**A discarded draft returns** (`executor_discard`).  `client/executor.go:605-606`
says that a second interruption "must not recreate discarded drafts".  An edit
whose send failed is a draft on display before its goroutine has left
`queuedAdmission`; a user who discards it in that window, before a suspension
walks the queue, has it back.

**A lost session that nobody reconnects** (`session_lost`).
`client/reconnect.go:24` says of such a close "It is recoverable: the session
reconnects with backoff."  A socket that ends between its installation by a
reconnect and the moment `runReconnect` clears `reconnecting` has its monitor
refused by `startReconnect`, whose error is dropped
(`ui/session_client.go:1116`).  The session then shows "reconnecting" with
nobody at work, which `SessionSettles` allows as a rest with a cause on
display, until the user retries or leaves.

### An exception in EveryoneCatchesUp

A reconnect that needs a snapshot does not install it while an operation is
pending, as `src/docs/agent/multiplayer-invariants.md:58` says.  The executor
accepts edits from the moment a transport is bound, so an edit made during the
reconnect makes that attempt fail and the next one start over.  An editor who
does this every time is never brought up to date; the property excludes exactly
the state in which a pending edit meets a fetched snapshot.

### An exception in RateLimitStaysVisible

The comment at `ui/session_client.go:1066-1068` says "A rate-limited close stays
the visible cause until the session recovers or fails permanently, even when
later reconnect attempts fail for unrelated reasons".  `suspendCause`
(`ui/session_client.go:1060`), which a reconnect loop calls when its attempt
ends (lines 1273, 1304, 1311), sets or clears the client's one flag without
asking whose session the attempt was for.  The loop of a session that was left,
refused with a permanent error while the next session shows a rate limit, clears
that session's flag, and its next ordinary failure replaces the cause.  The
shortest behaviour found has 47 steps with five faults, so no run of the sizes
above meets it; the proof did, when the invariant without the exception turned
out not to be inductive.  The property excludes exactly this: the flag is down
and some reconnect loop was refused.

### Exceptions in the workspace

`ClosedMeansSaved` excludes a file that a save reported as failed had replaced.
There are two ways to that.  When the directory cannot be synchronised after the
rename (`save_atomic_other.go:14`) the save fails with the new file in place,
although `src/docs/superpowers/specs/2026-08-24-multiplayer-design.md:423` says of
a failure that it "preserves the original"; an undo afterwards makes the tab
clean while the file differs.  And a Save As to the file the tab already has
(its replace dialog was opened while the first Save As there was under way) is
refused at the end when an undo is in progress (`save.go:292`), with the file
replaced.

`OutsideEditsSurvive` leaves open what another program writes after the check
that comes right before the replacement.  `HistoryMatchesDocument` speaks of the
commands of the present session: those of an earlier one stay on the stack, and
can be neither undone nor passed.

Two more things seen while modelling, which no property calls wrong: a save
asked for during a save only sets `repeat`, and is dropped when the editor's
revision has not moved by then, although an edit is on its way; `ForceBalance`
during an undo sets the saved mark under commands that are still queued, and the
close decision is right only because it compares the hash and the revision too.

## 4. Proofs

All proofs are checked by TLAPS with SMT, Zenon and LS4, for every value of the
constants.  Assumptions are those named in the modules (`NoneAssumption`,
`EngineDocumentAssumption`, `OwnerAssumption`, `TurnAssumption`,
`DeliveryAssumption`, `ExecutorAssumption`, `EditorViewAssumption`,
`SessionClientAssumption`, `WorkspaceAssumption`): that `None` is no operation,
client, request, coordinate or table of tiles, that bounds are naturals, that a
map has finitely many tiles, that sessions start from a valid snapshot.  Each module of proofs
follows one pattern: an invariant made of named parts, one lemma per action and
part that the action disturbs, a frame lemma for the actions that leave a part
alone, and the theorems as consequences.  TLC has checked every invariant on the
instances of section 3 before it was proved.

**`EngineDocumentProofs`.**  `IdentityIndexExact` is inductive once the entries
of `doc` have their types.  The step is a lemma about `Install` and
`UpdateIdentityOwners`: after an operation that `ValidateChanges` passes, the
owner of an ID is the tile that has it now - a changed tile if the ID is among
the after-values, otherwise an unchanged tile, which validation made sure was
not robbed of it.  `HistoryInv` adds `HistoryReplays` itself, that revisions are
consecutive (`RevisionsSound`), that every table the document went through was a
valid map (`TablesSound`), what validation established of each accepted
operation (`EntriesSound`), and that an undo record joins an operation with a
later inverse that reverses its changes (`UndoSound`).  `InverseRestores`
follows.  `BuiltInverseLands` needs `BuiltSound` too: until the revision moves,
an inverse built in an earlier turn meets what its validation asks for.

`RestoreAgrees` adds `RecordsSound`, inductive with `HistoryInv`: an entry keeps
the header, base hash and change count it was accepted with, no two entries
share a revision, and an undo record names the operation that asked for it.
`Stage(from, r)` is what must have been rebuilt when row `r` has been read: the
snapshot's table while rows are folded into it, the table of `r` afterwards, and
in both cases the hashes, entries and undo records up to `r`.  `FoldedStep` and
`AppliedStep` show that `ReplayStep` takes each stage to the next, so that every
check on the way passes: `ValidAgain` says that a row passes its header and
inverse checks against any document with the records from before it, `LatestIs`
that the last writer of a tile explains what the table shows, and the identity
lemma behind `IdentityIndexTheorem` that the rebuilt index is the kept one.  At
the head the stage is the document (`StageAtHead`), and the closing counts match
(`AcceptedCount`, a bijection between revisions and entries).

*Recursive functions.*  `replay` here and the fold of pending edits in
`Projection` are defined by recursion on the naturals.  The induction theorems
of the library take the predicate as a parameter, which the provers installed
cannot instantiate; `EngineProofs` states `Induction` for a *set* of naturals
instead, from the well-foundedness of `<` as a set of pairs.  That the recursion
has a solution is shown by giving one, after which the equation of the function
can be used at each index.

**`DocumentOwnerProofs`.**  The inductive invariant `OwnerInv` joins the type
invariant, `MemoryIsDurable`, `AnswersAreDurable`, `PublishedInOrder`,
`SnapshotsBehind` and what connects them: the IDs in the log are distinct; a
turn past its append has a durable candidate that extends the memory; the
memory differs from the log by one operation at most, the one whose append was
ambiguous; a saver's capture of this life is no longer than the memory.  From it
follow the four invariants, `SnapshotNeverRegresses`, and that every step is a
step or a stutter of `AcceptedLog` with the owner's memory as its document.

`PublishesEveryRevision` and `RefusedIsNotDurable` are false in general: the run
`owner_unpublished` is the counterexample.  They are proved under
`StoreAnswers`, that is, when appends and snapshots may fail but lookups and
replays answer.  The invariant for them, `PublishInv`, says that the memory is
behind the log by the submission in progress at most, and between turns not at
all.

**`DeliveryProofs`.**  `DeliveryInv` adds to the type invariant bounds on every
revision by the head (`Bounds`) and that a snapshot notice is the last message
of its connection (`SnapshotLast`).  `WireInOrder` and `NoIntegrityFault` are
inductive with these: each writer appends a message that follows the last one,
and each reader takes the first.  `QueueInv` describes, while nothing is
unpublished, the subscriber queue of each connection as a run of consecutive
revisions that joins what has been sent and, if still open, reaches the head.
It gives `SubscriptionCovers`, and `GapOnlyIfUnpublished`.

**`NetworkExecutorProofs`.**  `ExecInv` ties the goroutines' positions (`pc`),
the shared sets and the wire together: `queued` and `pending` are exactly the
edits whose goroutines are at certain positions (`QueueExact`, `PendingExact`),
the budget is held by those (`Budget`), an edit is sent once, by the goroutine
that was at its turn (`SentOnce`), what is on the way up, in the log and on the
way down are consistent (`Served`, `Told`), one goroutine drains the callbacks
(`OneDrains`, `Callbacks`), and a draft's code says what can have happened to
the edit (`DraftsSound`).  The six invariants follow.  `IntentKept` is the
largest: every step that takes an edit out of one of "pending, draft, accepted,
discarded" puts it into another.

**`EditorViewProofs`.**  `CaptureIsCurrent` is inductive with the type of
`published` (`CaptureInv`): a critical section either publishes a capture of what
it leaves, or leaves the table alone and does not add to the edits on their way.
`EditStaysOnScreen` is proved action by action: only `Frame`, the end of a
gesture and a rollback draw, and each leaves out the tiles of queued edits.

`ShapeInv` gives the state its types and keeps the owner index with the table it
is maintained with (`AuthoritySound`), by a lemma about `AuthorityOwners` like the
one about the engine's index.  `OverlayAgrees` is then a statement about any
table and any edits: both the sparse overlay and the reference projection are
read as a pair of functions, tile by coordinate and owner by identity (`Sees`),
and both follow the same fold of the edits over that pair (`Folded`), each edit
changing it or, where it no longer fits, leaving it (`OverlayFolds`,
`VisibleFolds`).

`DrainShowsProjection` needs `DrainInv`.  It says of every state, not only of the
quiet ones the property speaks of, what the accumulator would make of the screen:
every tile but those of edits under admission would show the projection
(`Complete`, where a tile of a running gesture counts with its state from before
the gesture), and the acknowledged table under the accumulated changes is the
executor's, of which each of them is a part (`Consistent`); and that the editor has
refused nothing and is behind in revision, if anything (`RevisionInv`).  The steps rest on
lemmas about the redraw set: a publication names every tile whose projected
state it can have altered, of two merged publications the newer one overrides
where it speaks, and `Previously` rebuilds the view from before a change out of
the before-values of the change.

**`SessionClientProofs`.**  `ClientInv` says where each session is.  `JoinInv`:
one join at a time (`Reservations`), the client is in the session whose join is
inside (`Entered`), and a session not yet entered has left no trace
(`Untouched`).  `HoldInv`: what the client holds is its session's (`Held`), a
closed session is cancelled (`ClosedCancelled`), the flag `reconnecting` belongs
to a running loop, a join's socket is its own, and an executor bound to a socket
is in somebody's hand who will suspend it (`ExecutorHeld`).  `WireInv`: what a
join's socket delivers before it is installed.  `SessionsNeverMix` follows.
`RateLimitStaysVisible` needs `CauseInv`: an error "cancelled" only in a session
that was cancelled or left, "auth" only at the end of a loop, and a rate limit on
display without its flag only when a loop was refused or the session is over
(`RateLimitBacked`).

**`WorkspaceProofs`.**  `AnswerInv` counts the tokens of a wait: at most one
closure or operation of a history step, and exactly one when the step's position
says so (`Tokens`); at most one result of a save, and one or a worker when a save
is active (`SaveTokens`).  It gives `NothingIsForgotten`.  `Captures` says of
what was saved and what is being saved that the document had this content at
this revision; `DiskInv` that versions never repeat, that the version the tab
expects has the content it was saved with (`TabOnDisk`), likewise the version a
save wrote (`WrittenOnDisk`), that a save may replace only what the user agreed
to (`WorkerChecked`), and that a save found on the tab's file is the tab's last
one or not over yet (`SavedIsTab`).  They give `CleanLabelIsTrue`,
`OutsideEditsSurvive` and `ClosedMeansSaved`.

*The undo history.*  An edit of the session is an operation in flight,
an outcome the UI thread has not run, a queued command, or a command to undo or
to redo.  `Places` says it is in one of these at most, and once; `Fit` that an
edit belongs to the present attachment exactly if it was made since it began;
`Document` that its place says whether the session shows it, but for the outcome
of an undo or redo that has not been run yet, and for tiles others took.  The
three, with bounds on the numbers (`Numbered`), are `History`: a statement about
values, so that each move of an edit is a lemma about sequences (`HistoryEdited`,
`HistoryQueued`, `HistoryUndone`, `HistoryFlushed` and so on).  `HistoryInv` states it
of the tab while it is open, with the step under way at the top of its stack
(`StepOnTop`) and no command queued when idle.  That a step finds its own stack
again rests on the saves: one that would move the tab to another file does not
finish while the history is busy, and any other keeps its path (`RequestsAim`).
`HistoryMatchesDocument` follows, as nothing unresolved means that no edit of
this attachment is on its way.

`TypeOK` and `AcknowledgedNeverRegresses` of `Delivery` and
`SnapshotNeverRegresses` of `DocumentOwner` are proved and no longer spend a run.

*Model-checked only* is all liveness (`EveryRequestAnswered`,
`BacklogIsCompacted`, `EveryoneCatchesUp`, `SubmissionsAnswered`,
`EveryEditReported`, `ViewConverges`, `SessionSettles`), which is out of the
prover's reach.  Every safety property of a passing run has a theorem.

## 5. Not modelled

Bulk bodies and their spools and budgets; presence; rate limits on the server;
roles, invitations, session creation and reauthorisation; the size check before
an append (`validateDocumentDelivery`); replay for stores without pages
(`server/websocket.go:224-289`); SQL; hash computation; revision overflow (a
64-bit counter); the byte side of the admission budget; the copy-on-write
sharing of tile tables between documents and captures; the `ProjectionChanges`
stream, which has no production consumer; maps that belong to no session;
several tabs and closing them all; the tools that produce edits; parsers, map
formats, icons, lighting, lint and the other map tools, which are sequential
code whose data is far larger than its control.  The owner's read-only requests
are steps that change nothing.

## 6. Plan

1. *Done*: engine, owner with store and recovery, delivery; the abstract log;
   proofs of their safety.
2. *Done*: network executor, projection and editor view, session client,
   workspace.
3. *Done*: proofs of the safety of the engine's history, of publication, of the
   executor, of the capture, of the session client, of saving and of the undo
   history.
4. *Done*: proofs of recovery, of the overlay and of the accumulator.
5. An abstract specification of an edit's fate (sent, accepted, refused, kept as
   a draft) that `NetworkExecutor` implements; copy-on-write sharing
   (`engine/local.go`, `engine/snapshot_capture.go`); presence with connection
   takeover; store checkpoints and recovery at an older revision.
