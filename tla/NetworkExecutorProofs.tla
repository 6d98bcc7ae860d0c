--------------------------- MODULE NetworkExecutorProofs --------------------------
(***************************************************************************)
(* Theorems about the client's executor, for any number of edits, rebuilds, *)
(* lost connections and reconnects and any admission limit: no intent is    *)
(* lost, an edit is sent at most once and on the connection it was admitted *)
(* on, drafts are about edits whose fate is open, the admission budget is   *)
(* exact, callbacks come in order, and a draft is rebuilt once at a time.   *)
(***************************************************************************)
EXTENDS NetworkExecutor, FiniteSetTheorems, TLAPS

Codes == {"submission_failed", "delivery_unconfirmed", "rejected"}

Drafts == [op : Ops, code : Codes]

Submissions == [op : Ops, via : Nat]

Messages == [op : Ops, kind : {"accepted", "rejected"}]

(* The types the proofs use. *)
GoroutineTypes ==
    /\ pc \in [Ops -> Labels]
    /\ ticket \in [Ops -> Nat]
    /\ via \in [Ops -> Nat]
    /\ origin \in [Ops -> Ops \cup {None}]
    /\ admitted \in [Ops -> Nat]

AdmissionTypes ==
    /\ status \in {"live", "suspended", "terminated"}
    /\ conn \in Nat \ {0}
    /\ nextDispatch \in Nat
    /\ interruptedBefore \in 0..nextDispatch
    /\ completionTurn \in Nat

DraftTypes ==
    /\ projected \in Seq(Ops)
    /\ pending \subseteq Ops
    /\ accepted \subseteq Ops
    /\ queued \subseteq Ops
    /\ drafts \subseteq Drafts
    /\ shown \subseteq Drafts

NetworkTypes ==
    /\ up \in Seq(Submissions)
    /\ down \in Seq(Messages)
    /\ log \in Seq(Ops)
    /\ acked \in Nat
    /\ sent \subseteq Submissions

ExecTypes == GoroutineTypes /\ AdmissionTypes /\ DraftTypes /\ NetworkTypes

-----------------------------------------------------------------------------------
(* What the helpers on sequences and drafts return. *)

LEMMA WithoutType ==
    ASSUME NEW s \in Seq(Ops), NEW op
    PROVE  Without(s, op) \in Seq(Ops)
<1>1. CASE \E i \in 1..Len(s) : s[i] = op
  <2>1. PICK at \in 1..Len(s) : at = CHOOSE i \in 1..Len(s) : s[i] = op
    BY <1>1
  <2>2. Without(s, op) = [i \in 1..(Len(s) - 1) |-> IF i < at THEN s[i] ELSE s[i + 1]]
    BY <1>1, <2>1 DEF Without
  <2>3. Len(s) - 1 \in Nat /\ \A i \in 1..(Len(s) - 1) : s[i] \in Ops /\ s[i + 1] \in Ops
    BY <2>1
  <2> QED
    BY <2>2, <2>3
<1>2. CASE ~ \E i \in 1..Len(s) : s[i] = op
  BY <1>2 DEF Without
<1> QED
  BY <1>1, <1>2

(* Removing an edit keeps every other one; of a sequence without            *)
(* repetitions it keeps exactly the others, and one entry less.              *)
Elements(s) == {s[i] : i \in 1..Len(s)}

NoRepeats(s) == \A i, j \in 1..Len(s) : s[i] = s[j] => i = j

LEMMA WithoutElements ==
    ASSUME NEW s \in Seq(Ops), NEW op, NoRepeats(s)
    PROVE  /\ Elements(Without(s, op)) = Elements(s) \ {op}
           /\ NoRepeats(Without(s, op))
<1>1. CASE \E i \in 1..Len(s) : s[i] = op
  <2> DEFINE n == Len(s)
             t == Without(s, op)
  <2>1. PICK at \in 1..n : s[at] = op /\ at = CHOOSE i \in 1..Len(s) : s[i] = op
    BY <1>1
  <2>2. t = [i \in 1..(n - 1) |-> IF i < at THEN s[i] ELSE s[i + 1]]
    BY <1>1, <2>1 DEF Without
  <2>3. n \in Nat /\ n - 1 \in Nat
    BY <2>1
  <2>4. Len(t) = n - 1
    BY <2>2, <2>3
  <2>5. \A i \in 1..(n - 1) : t[i] = IF i < at THEN s[i] ELSE s[i + 1]
    BY <2>2
  <2> HIDE DEF n, t
  <2>6. NoRepeats(t)
    <3> SUFFICES ASSUME NEW i \in 1..(n - 1), NEW j \in 1..(n - 1), t[i] = t[j]
                 PROVE  i = j
      BY <2>4 DEF NoRepeats
    <3> DEFINE from(k) == IF k < at THEN k ELSE k + 1
    <3>1. from(i) \in 1..n /\ from(j) \in 1..n
      BY <2>3
    <3>2. s[from(i)] = t[i] /\ s[from(j)] = t[j]
      BY <2>5
    <3>3. from(i) = from(j)
      BY <3>1, <3>2 DEF NoRepeats, n
    <3> QED
      BY <3>3, <2>3
  <2>7. ASSUME NEW x \in Elements(t)
        PROVE  x \in Elements(s) \ {op}
    <3>1. PICK i \in 1..(n - 1) : x = t[i]
      BY <2>4 DEF Elements
    <3>2. PICK j \in 1..n : j # at /\ x = s[j]
      BY <2>3, <2>5, <3>1
    <3> QED
      BY <2>1, <3>2 DEF Elements, NoRepeats, n
  <2>8. ASSUME NEW x \in Elements(s) \ {op}
        PROVE  x \in Elements(t)
    <3>1. PICK j \in 1..n : x = s[j] /\ j # at
      BY <2>1 DEF Elements, n
    <3>2. CASE j < at
      <4>1. j \in 1..(n - 1) /\ t[j] = x
        BY <2>1, <2>3, <2>5, <3>1, <3>2
      <4> QED
        BY <4>1, <2>4 DEF Elements
    <3>3. CASE j > at
      <4>1. j - 1 \in 1..(n - 1) /\ ~ (j - 1 < at) /\ (j - 1) + 1 = j
        BY <2>1, <2>3, <3>1, <3>3
      <4>2. t[j - 1] = s[j]
        BY <2>5, <4>1
      <4> QED
        BY <4>1, <4>2, <3>1, <2>4 DEF Elements
    <3> QED
      BY <2>1, <2>3, <3>1, <3>2, <3>3
  <2> QED
    BY <2>6, <2>7, <2>8 DEF t
<1>2. CASE ~ \E i \in 1..Len(s) : s[i] = op
  BY <1>2 DEF Without, Elements
<1> QED
  BY <1>1, <1>2

-----------------------------------------------------------------------------------
(* The labels of a goroutine that has no ticket, that has one and was not yet *)
(* in its turn, that may still be projected or sent, and that is past sending. *)
Unadmitted == {"new", "build", "reserve", "refused", "unclaim", "drop", "dropped"}

Waiting == {"wait", "sleep", "turn"}

PastSend == {"failpending", "finish", "finishsent", "await", "record", "drain", "call", "dismiss", "done"}

Draining == {"drain", "call", "dismiss"}

(* Tickets are given out once, and an interruption covers every ticket given   *)
(* out before the executor is bound to another transport: an edit that is not  *)
(* interrupted before its turn was admitted on the transport bound now.        *)
Admission ==
    /\ status # "live" => closed /\ interruptedBefore = nextDispatch
    /\ \A op \in Ops :
         /\ pc[op] \in Unadmitted => admitted[op] = 0
         /\ admitted[op] = 0 => pc[op] \in Unadmitted \cup {"done"}
         /\ admitted[op] # 0 => ticket[op] < nextDispatch
         /\ pc[op] \in Waiting /\ ~Interrupted(op) => admitted[op] = conn
         /\ pc[op] = "send" => via[op] = admitted[op]
    /\ \A op, o \in Ops :
         admitted[op] # 0 /\ admitted[o] # 0 /\ ticket[op] = ticket[o] => op = o

(* What was handed to a transport, by goroutines that are past that. *)
SentOnce ==
    \A s \in sent : s.via = admitted[s.op] /\ pc[s.op] \in PastSend

(* The queue holds the goroutines an interruption has to find. *)
QueueExact == queued = {op \in Ops : pc[op] \in Holding /\ ~Interrupted(op)}

(* The pending edits and the admission budget. *)
Holders == {op \in Ops : pc[op] \in Holding}

(* A sequence that lists the members of a finite set, each of them once. *)
ListsSet(s, set) ==
    NoRepeats(s) /\ Elements(s) = set /\ IsFiniteSet(set) /\ Len(s) = Cardinality(set)

PendingExact ==
    /\ ListsSet(projected, pending)
    /\ \A op \in pending : pc[op] \in {"send"} \cup (PastSend \ {"finish"})

Retained == {op \in pending : pc[op] \notin Holding}

Budget ==
    /\ IsFiniteSet(Holders)
    /\ localAdmissions = Cardinality(Holders)
    /\ pendingAdmission = Retained
    /\ Used <= MaxAdmission

(* What the server has of an edit: each is handed to it once, and is either    *)
(* under way, taken into the log or dropped.                                   *)
SentOps == {s.op : s \in sent}

Logged == {log[i] : i \in 1..Len(log)}

OpsOf(s) == {s[i].op : i \in 1..Len(s)}

OnceEach(s) == \A i, j \in 1..Len(s) : s[i].op = s[j].op => i = j

InFlight == OpsOf(up)

Served ==
    /\ Logged \cup InFlight \subseteq SentOps
    /\ Logged \cap InFlight = {}
    /\ OnceEach(up)

(* An edit that the server has not taken and that will not reach it any more.  *)
NeverSent(op) ==
    \/ pc[op] \notin {"new", "build", "reserve", "send"} \cup Waiting
    \/ pc[op] \in Waiting /\ Interrupted(op)

NeverAccepted(op) == op \notin Logged /\ op \notin InFlight /\ NeverSent(op)

(* What the client is told is true, and a rejected edit stays rejected.        *)
TellsTruth(message) ==
    IF message.kind = "accepted" THEN message.op \in Logged ELSE NeverAccepted(message.op)

InTransit == {down[i] : i \in 1..Len(down)}

Told == \A message \in Messages : message \in InTransit => TellsTruth(message)

AcceptedLogged == accepted \subseteq Logged /\ accepted \cap pending = {}

(* Why an edit has a draft, or will have one when its goroutine goes on or an  *)
(* interruption finds it.                                                      *)
QueuedFates ==
    \A op \in Ops : op \in queued =>
        /\ pc[op] = "send" => op \in pending
        /\ pc[op] = "finishsent" => op \in pending \cup accepted \/ NeverAccepted(op)

FailedUnsent ==
    \A op \in Ops : pc[op] \in {"failpending", "finish"} => op \in late \/ op \notin SentOps

NotSubmitted == {"new", "build", "reserve", "refused"}

Sound(d) ==
    /\ pc[d.op] \notin NotSubmitted
    /\ d.code = "delivery_unconfirmed" => d.op \notin accepted
    /\ d.code # "delivery_unconfirmed" => d.op \in late \/ NeverAccepted(d.op)

DraftsSound == \A d \in Drafts : d \in drafts => Sound(d)

(* One goroutine at a time runs the callbacks, in the order of the tickets.    *)
OneDrains ==
    /\ \A op, o \in Ops : pc[op] \in Draining /\ pc[o] \in Draining => op = o
    /\ \A op \in Ops : pc[op] \in Draining => completionRunning

Callbacks ==
    /\ calling \in [Ops -> Ops \cup {None}]
    /\ called \in Seq(Ops)
    /\ CallbacksInOrder
    /\ \A t \in completion : \E op \in Ops : admitted[op] # 0 /\ ticket[op] = t
    /\ \A i \in 1..Len(called) : admitted[called[i]] # 0 /\ ticket[called[i]] < completionTurn
    /\ \A op \in Ops :
         pc[op] = "call" =>
           /\ calling[op] \in Ops /\ admitted[calling[op]] # 0
           /\ ticket[calling[op]] = completionTurn - 1
           /\ \A i \in 1..Len(called) : ticket[called[i]] < completionTurn - 1

(* A rebuilt edit has its origin once it is built, and holds its claim until   *)
(* it has ended; nobody else holds that claim.                                 *)
RebuildOnly == {"build", "reserve", "unclaim", "drop", "dropped"}

Rebuilding ==
    /\ \A op \in Ops : pc[op] \in RebuildOnly => op \in Rebuilds
    /\ \A r \in Rebuilds : origin[r] = None <=> pc[r] = "new"
    /\ \A r \in Rebuilds : origin[r] # None /\ ~Ended(r) => origin[r] \in claims
    /\ \A q, r \in Rebuilds :
         origin[q] # None /\ origin[q] = origin[r] /\ ~Ended(q) /\ ~Ended(r) => q = r
    /\ \A op \in claims : \E r \in Rebuilds : origin[r] = op /\ ~Ended(r)
    /\ claims \subseteq Ops

-----------------------------------------------------------------------------------
LEMMA RetainedTypes ==
    ASSUME DraftTypes, NEW op \in Ops
    PROVE  RetainUnsent(op) \subseteq Drafts /\ RetainConflict(op, "rejected", drafts) \subseteq Drafts
BY DEF DraftTypes, RetainUnsent, RetainConflict, Drafts, Codes

LEMMA ProjectedElements == Projected = Elements(projected)
BY DEF Projected, Elements

LEMMA ElementsType ==
    ASSUME NEW s \in Seq(Ops)
    PROVE  Elements(s) \subseteq Ops
BY DEF Elements

LEMMA EmptySeq ==
    ASSUME NEW S
    PROVE  << >> \in Seq(S)
OBVIOUS

LEMMA HeadTail ==
    ASSUME NEW S, NEW s \in Seq(S), s # << >>
    PROVE  Head(s) \in S /\ Tail(s) \in Seq(S)
OBVIOUS

LEMMA NextMessage ==
    ASSUME NetworkTypes, down # << >>
    PROVE  Head(down).op \in Ops /\ Tail(down) \in Seq(Messages)
<1>1. Head(down) \in Messages /\ Tail(down) \in Seq(Messages)
  BY HeadTail DEF NetworkTypes
<1> QED
  BY <1>1 DEF Messages

LEMMA InterruptionType ==
    ASSUME DraftTypes
    PROVE  Interruption \subseteq Drafts
<1>1. Projected \subseteq Ops /\ queued \ accepted \subseteq Ops
  BY ProjectedElements, ElementsType DEF DraftTypes
<1>2. ASSUME NEW ops, ops \subseteq Ops, NEW kept, kept \subseteq Drafts, NEW code \in Codes
      PROVE  Kept(code, ops, kept) \subseteq Drafts
  BY <1>2 DEF Kept, Drafts
<1>3. Kept("delivery_unconfirmed", Projected, drafts) \subseteq Drafts
  BY <1>1, <1>2 DEF DraftTypes, Codes
<1> QED
  BY <1>1, <1>2, <1>3 DEF Interruption, Codes

LEMMA GoroutineTypesStep ==
    ASSUME ExecTypes, Next
    PROVE  GoroutineTypes'
<1> USE DEF worker, authority, admission, completions, network, observed, Goto, Publish
<1>1. ASSUME NEW op \in Ops, RefuseAdmission(op) PROVE GoroutineTypes'
  BY <1>1 DEF ExecTypes, GoroutineTypes, RefuseAdmission, Labels
<1>2. ASSUME NEW op \in Ops, WaitDispatchTurn(op) PROVE GoroutineTypes'
  BY <1>2 DEF ExecTypes, GoroutineTypes, WaitDispatchTurn, Labels
<1>3. ASSUME NEW op \in Ops, Dispatch(op) PROVE GoroutineTypes'
  BY <1>3 DEF ExecTypes, GoroutineTypes, AdmissionTypes, Dispatch, Labels
<1>4. ASSUME NEW op \in Ops, RefuseAdmitted(op) PROVE GoroutineTypes'
  BY <1>4 DEF ExecTypes, GoroutineTypes, RefuseAdmitted, Labels
<1>5. ASSUME NEW op \in Ops, SendOperation(op) PROVE GoroutineTypes'
  BY <1>5 DEF ExecTypes, GoroutineTypes, SendOperation, Labels
<1>6. ASSUME NEW op \in Ops, FailPending(op) PROVE GoroutineTypes'
  BY <1>6 DEF ExecTypes, GoroutineTypes, FailPending, Labels
<1>7. ASSUME NEW op \in Ops, FinishAdmission(op) PROVE GoroutineTypes'
  BY <1>7 DEF ExecTypes, GoroutineTypes, FinishAdmission, Labels
<1>8. ASSUME NEW op \in Ops, Await(op) PROVE GoroutineTypes'
  BY <1>8 DEF ExecTypes, GoroutineTypes, Await, Labels
<1>9. ASSUME NEW op \in Ops, RecordCompletion(op) PROVE GoroutineTypes'
  BY <1>9 DEF ExecTypes, GoroutineTypes, RecordCompletion, AfterRecord, Labels
<1>10. ASSUME NEW op \in Ops, DrainCompletions(op) PROVE GoroutineTypes'
  BY <1>10 DEF ExecTypes, GoroutineTypes, DrainCompletions, AfterRecord, Labels
<1>11. ASSUME NEW op \in Ops, Call(op) PROVE GoroutineTypes'
  BY <1>11 DEF ExecTypes, GoroutineTypes, Call, Labels
<1>12. ASSUME NEW op \in Ops, DismissConflict(op) PROVE GoroutineTypes'
  BY <1>12 DEF ExecTypes, GoroutineTypes, DismissConflict, Labels
<1>13. ASSUME NEW op \in Ops, BuildConflictRebuild(op) PROVE GoroutineTypes'
  BY <1>13 DEF ExecTypes, GoroutineTypes, BuildConflictRebuild, Labels
<1>14. ASSUME NEW op \in Ops, Unclaim(op) PROVE GoroutineTypes'
  BY <1>14 DEF ExecTypes, GoroutineTypes, Unclaim, Labels
<1>15. ASSUME NEW op \in Ops, ReserveAdmission(op) PROVE GoroutineTypes'
  BY <1>15 DEF ExecTypes, GoroutineTypes, AdmissionTypes, ReserveAdmission, Labels
<1>16. ASSUME NEW op \in Ops, DiscardConflict(op) PROVE GoroutineTypes'
  BY <1>16 DEF ExecTypes, GoroutineTypes, DiscardConflict, Labels
<1>17. ASSUME NEW op \in Ops, NEW rebuilt \in Rebuilds, RebuildConflict(op, rebuilt)
       PROVE  GoroutineTypes'
  BY <1>17 DEF ExecTypes, GoroutineTypes, RebuildConflict, Labels, Ops
<1>18. CASE Terminate
  BY <1>18 DEF ExecTypes, GoroutineTypes, Terminate
<1>19. CASE Suspend
  BY <1>19 DEF ExecTypes, GoroutineTypes, Suspend
<1>20. CASE Resume
  BY <1>20 DEF ExecTypes, GoroutineTypes, Resume
<1>21. CASE ReplaceAcknowledgedSnapshot
  BY <1>21 DEF ExecTypes, GoroutineTypes, ReplaceAcknowledgedSnapshot
<1>22. CASE ReceiveAccepted
  BY <1>22 DEF ExecTypes, GoroutineTypes, ReceiveAccepted
<1>23. CASE ReceiveRejected
  BY <1>23 DEF ExecTypes, GoroutineTypes, ReceiveRejected, ClearPending
<1>24. CASE ServerTake
  BY <1>24 DEF ExecTypes, GoroutineTypes, ServerTake
<1>25. CASE Break
  BY <1>25 DEF ExecTypes, GoroutineTypes, Break
<1> QED
  BY <1>1, <1>2, <1>3, <1>4, <1>5, <1>6, <1>7, <1>8, <1>9, <1>10, <1>11, <1>12, <1>13,
     <1>14, <1>15, <1>16, <1>17, <1>18, <1>19, <1>20, <1>21, <1>22, <1>23, <1>24, <1>25
     DEF Next, Step, User, Connection

LEMMA AdmissionTypesStep ==
    ASSUME ExecTypes, Next
    PROVE  AdmissionTypes'
<1> USE DEF worker, authority, admission, completions, network, observed, Goto, Publish
<1>1. ASSUME NEW op \in Ops, RefuseAdmission(op) PROVE AdmissionTypes'
  BY <1>1 DEF ExecTypes, AdmissionTypes, RefuseAdmission
<1>2. ASSUME NEW op \in Ops, WaitDispatchTurn(op) PROVE AdmissionTypes'
  BY <1>2 DEF ExecTypes, AdmissionTypes, WaitDispatchTurn
<1>3. ASSUME NEW op \in Ops, Dispatch(op) PROVE AdmissionTypes'
  BY <1>3 DEF ExecTypes, AdmissionTypes, Dispatch
<1>4. ASSUME NEW op \in Ops, RefuseAdmitted(op) PROVE AdmissionTypes'
  BY <1>4 DEF ExecTypes, AdmissionTypes, RefuseAdmitted
<1>5. ASSUME NEW op \in Ops, SendOperation(op) PROVE AdmissionTypes'
  BY <1>5 DEF ExecTypes, AdmissionTypes, SendOperation
<1>6. ASSUME NEW op \in Ops, FailPending(op) PROVE AdmissionTypes'
  BY <1>6 DEF ExecTypes, AdmissionTypes, FailPending
<1>7. ASSUME NEW op \in Ops, FinishAdmission(op) PROVE AdmissionTypes'
  BY <1>7 DEF ExecTypes, AdmissionTypes, FinishAdmission
<1>8. ASSUME NEW op \in Ops, Await(op) PROVE AdmissionTypes'
  BY <1>8 DEF ExecTypes, AdmissionTypes, Await
<1>9. ASSUME NEW op \in Ops, RecordCompletion(op) PROVE AdmissionTypes'
  BY <1>9 DEF ExecTypes, AdmissionTypes, RecordCompletion
<1>10. ASSUME NEW op \in Ops, DrainCompletions(op) PROVE AdmissionTypes'
  BY <1>10 DEF ExecTypes, AdmissionTypes, DrainCompletions
<1>11. ASSUME NEW op \in Ops, Call(op) PROVE AdmissionTypes'
  BY <1>11 DEF ExecTypes, AdmissionTypes, Call
<1>12. ASSUME NEW op \in Ops, DismissConflict(op) PROVE AdmissionTypes'
  BY <1>12 DEF ExecTypes, AdmissionTypes, DismissConflict
<1>13. ASSUME NEW op \in Ops, BuildConflictRebuild(op) PROVE AdmissionTypes'
  BY <1>13 DEF ExecTypes, AdmissionTypes, BuildConflictRebuild
<1>14. ASSUME NEW op \in Ops, Unclaim(op) PROVE AdmissionTypes'
  BY <1>14 DEF ExecTypes, AdmissionTypes, Unclaim
<1>15. ASSUME NEW op \in Ops, ReserveAdmission(op) PROVE AdmissionTypes'
  BY <1>15 DEF ExecTypes, AdmissionTypes, ReserveAdmission
<1>16. ASSUME NEW op \in Ops, DiscardConflict(op) PROVE AdmissionTypes'
  BY <1>16 DEF ExecTypes, AdmissionTypes, DiscardConflict
<1>17. ASSUME NEW op \in Ops, NEW rebuilt \in Rebuilds, RebuildConflict(op, rebuilt)
       PROVE  AdmissionTypes'
  BY <1>17 DEF ExecTypes, AdmissionTypes, RebuildConflict
<1>18. CASE Terminate
  BY <1>18 DEF ExecTypes, AdmissionTypes, Terminate, ClearPending, InterruptionMark
<1>19. CASE Suspend
  BY <1>19 DEF ExecTypes, AdmissionTypes, Suspend, ClearPending, InterruptionMark
<1>20. CASE Resume
  BY <1>20 DEF ExecTypes, AdmissionTypes, Resume
<1>21. CASE ReplaceAcknowledgedSnapshot
  BY <1>21 DEF ExecTypes, AdmissionTypes, ReplaceAcknowledgedSnapshot
<1>22. CASE ReceiveAccepted
  BY <1>22 DEF ExecTypes, AdmissionTypes, ReceiveAccepted
<1>23. CASE ReceiveRejected
  BY <1>23 DEF ExecTypes, AdmissionTypes, ReceiveRejected, ClearPending, InterruptionMark
<1>24. CASE ServerTake
  BY <1>24 DEF ExecTypes, AdmissionTypes, ServerTake
<1>25. CASE Break
  BY <1>25 DEF ExecTypes, AdmissionTypes, Break
<1> QED
  BY <1>1, <1>2, <1>3, <1>4, <1>5, <1>6, <1>7, <1>8, <1>9, <1>10, <1>11, <1>12, <1>13,
     <1>14, <1>15, <1>16, <1>17, <1>18, <1>19, <1>20, <1>21, <1>22, <1>23, <1>24, <1>25
     DEF Next, Step, User, Connection

LEMMA DraftTypesStep ==
    ASSUME ExecTypes, Next
    PROVE  DraftTypes'
<1> USE DEF worker, authority, admission, completions, network, observed, Goto, Publish
<1>1. ASSUME NEW op \in Ops, RefuseAdmission(op) PROVE DraftTypes'
  BY <1>1, RetainedTypes DEF ExecTypes, DraftTypes, RefuseAdmission
<1>2. ASSUME NEW op \in Ops, WaitDispatchTurn(op) PROVE DraftTypes'
  BY <1>2 DEF ExecTypes, DraftTypes, WaitDispatchTurn
<1>3. ASSUME NEW op \in Ops, Dispatch(op) PROVE DraftTypes'
  BY <1>3, RetainedTypes DEF ExecTypes, DraftTypes, Dispatch
<1>4. ASSUME NEW op \in Ops, RefuseAdmitted(op) PROVE DraftTypes'
  BY <1>4, RetainedTypes DEF ExecTypes, DraftTypes, RefuseAdmitted
<1>5. ASSUME NEW op \in Ops, SendOperation(op) PROVE DraftTypes'
  BY <1>5 DEF ExecTypes, DraftTypes, SendOperation
<1>6. ASSUME NEW op \in Ops, FailPending(op) PROVE DraftTypes'
  BY <1>6, RetainedTypes, WithoutType DEF ExecTypes, DraftTypes, FailPending
<1>7. ASSUME NEW op \in Ops, FinishAdmission(op) PROVE DraftTypes'
  BY <1>7 DEF ExecTypes, DraftTypes, FinishAdmission
<1>8. ASSUME NEW op \in Ops, Await(op) PROVE DraftTypes'
  BY <1>8 DEF ExecTypes, DraftTypes, Await
<1>9. ASSUME NEW op \in Ops, RecordCompletion(op) PROVE DraftTypes'
  BY <1>9 DEF ExecTypes, DraftTypes, RecordCompletion
<1>10. ASSUME NEW op \in Ops, DrainCompletions(op) PROVE DraftTypes'
  BY <1>10 DEF ExecTypes, DraftTypes, DrainCompletions
<1>11. ASSUME NEW op \in Ops, Call(op) PROVE DraftTypes'
  BY <1>11 DEF ExecTypes, DraftTypes, Call
<1>12. ASSUME NEW op \in Ops, DismissConflict(op) PROVE DraftTypes'
  BY <1>12 DEF ExecTypes, DraftTypes, DismissConflict
<1>13. ASSUME NEW op \in Ops, BuildConflictRebuild(op) PROVE DraftTypes'
  BY <1>13 DEF ExecTypes, DraftTypes, BuildConflictRebuild
<1>14. ASSUME NEW op \in Ops, Unclaim(op) PROVE DraftTypes'
  BY <1>14 DEF ExecTypes, DraftTypes, Unclaim
<1>15. ASSUME NEW op \in Ops, ReserveAdmission(op) PROVE DraftTypes'
  BY <1>15 DEF ExecTypes, DraftTypes, ReserveAdmission
<1>16. ASSUME NEW op \in Ops, DiscardConflict(op) PROVE DraftTypes'
  BY <1>16 DEF ExecTypes, DraftTypes, DiscardConflict
<1>17. ASSUME NEW op \in Ops, NEW rebuilt \in Rebuilds, RebuildConflict(op, rebuilt) PROVE DraftTypes'
  BY <1>17 DEF ExecTypes, DraftTypes, RebuildConflict
<1>18. CASE Terminate
  BY <1>18, InterruptionType DEF ExecTypes, DraftTypes, Terminate, ClearPending
<1>19. CASE Suspend
  BY <1>19, InterruptionType DEF ExecTypes, DraftTypes, Suspend, ClearPending
<1>20. CASE Resume
  BY <1>20 DEF ExecTypes, DraftTypes, Resume
<1>21. CASE ReplaceAcknowledgedSnapshot
  BY <1>21 DEF ExecTypes, DraftTypes, ReplaceAcknowledgedSnapshot
<1>22. CASE ReceiveAccepted
  <2>1. Head(down).op \in Ops
    BY <1>22, NextMessage DEF ExecTypes, ReceiveAccepted
  <2>2. CASE Head(down).op \in accepted
    BY <1>22, <2>2 DEF ExecTypes, DraftTypes, ReceiveAccepted
  <2>3. CASE Head(down).op \notin accepted
    BY <1>22, <2>1, <2>3, WithoutType DEF ExecTypes, DraftTypes, ReceiveAccepted, Resolve
  <2> QED
    BY <2>2, <2>3
<1>23. CASE ReceiveRejected
  <2>1. Head(down).op \in Ops
    BY <1>23, NextMessage DEF ExecTypes, ReceiveRejected
  <2>2. CASE Head(down).op \in Projected
    BY <1>23, <2>1, <2>2, WithoutType, RetainedTypes DEF ExecTypes, DraftTypes, ReceiveRejected, Resolve
  <2>3. CASE Head(down).op \notin Projected
    <3>1. CASE status = "live"
      BY <1>23, <2>3, <3>1, InterruptionType DEF ExecTypes, DraftTypes, ReceiveRejected, ClearPending
    <3>2. CASE status # "live"
      BY <1>23, <2>3, <3>2 DEF ExecTypes, DraftTypes, ReceiveRejected
    <3> QED
      BY <3>1, <3>2
  <2> QED
    BY <2>2, <2>3
<1>24. CASE ServerTake
  BY <1>24 DEF ExecTypes, DraftTypes, ServerTake
<1>25. CASE Break
  BY <1>25 DEF ExecTypes, DraftTypes, Break
<1> QED
  BY <1>1, <1>2, <1>3, <1>4, <1>5, <1>6, <1>7, <1>8, <1>9, <1>10, <1>11, <1>12, <1>13,
     <1>14, <1>15, <1>16, <1>17, <1>18, <1>19, <1>20, <1>21, <1>22, <1>23, <1>24, <1>25
     DEF Next, Step, User, Connection

LEMMA NetworkTypesStep ==
    ASSUME ExecTypes, Next
    PROVE  NetworkTypes'
<1> USE DEF worker, authority, admission, completions, network, observed, Goto, Publish
<1>1. ASSUME NEW op \in Ops, RefuseAdmission(op) PROVE NetworkTypes'
  BY <1>1 DEF ExecTypes, NetworkTypes, RefuseAdmission
<1>2. ASSUME NEW op \in Ops, WaitDispatchTurn(op) PROVE NetworkTypes'
  BY <1>2 DEF ExecTypes, NetworkTypes, WaitDispatchTurn
<1>3. ASSUME NEW op \in Ops, Dispatch(op) PROVE NetworkTypes'
  BY <1>3 DEF ExecTypes, NetworkTypes, Dispatch
<1>4. ASSUME NEW op \in Ops, RefuseAdmitted(op) PROVE NetworkTypes'
  BY <1>4 DEF ExecTypes, NetworkTypes, RefuseAdmitted
<1>5. ASSUME NEW op \in Ops, SendOperation(op) PROVE NetworkTypes'
  <2>1. [op |-> op, via |-> via[op]] \in Submissions
    BY DEF ExecTypes, GoroutineTypes, Submissions
  <2>2. UNCHANGED up \/ up' = Append(up, [op |-> op, via |-> via[op]])
    BY <1>5 DEF SendOperation, Deliver
  <2>3. UNCHANGED sent \/ sent' = sent \cup {[op |-> op, via |-> via[op]]}
    BY <1>5 DEF SendOperation
  <2>4. UNCHANGED <<down, log, acked>>
    BY <1>5 DEF SendOperation
  <2>5. up' \in Seq(Submissions)
    <3>1. up \in Seq(Submissions)
      BY DEF ExecTypes, NetworkTypes
    <3>2. Append(up, [op |-> op, via |-> via[op]]) \in Seq(Submissions)
      BY <2>1, <3>1
    <3> QED
      BY <2>2, <3>1, <3>2
  <2>6. sent' \subseteq Submissions
    BY <2>1, <2>3 DEF ExecTypes, NetworkTypes
  <2> QED
    BY <2>4, <2>5, <2>6 DEF ExecTypes, NetworkTypes
<1>6. ASSUME NEW op \in Ops, FailPending(op) PROVE NetworkTypes'
  BY <1>6 DEF ExecTypes, NetworkTypes, FailPending
<1>7. ASSUME NEW op \in Ops, FinishAdmission(op) PROVE NetworkTypes'
  BY <1>7 DEF ExecTypes, NetworkTypes, FinishAdmission
<1>8. ASSUME NEW op \in Ops, Await(op) PROVE NetworkTypes'
  BY <1>8 DEF ExecTypes, NetworkTypes, Await
<1>9. ASSUME NEW op \in Ops, RecordCompletion(op) PROVE NetworkTypes'
  BY <1>9 DEF ExecTypes, NetworkTypes, RecordCompletion
<1>10. ASSUME NEW op \in Ops, DrainCompletions(op) PROVE NetworkTypes'
  BY <1>10 DEF ExecTypes, NetworkTypes, DrainCompletions
<1>11. ASSUME NEW op \in Ops, Call(op) PROVE NetworkTypes'
  BY <1>11 DEF ExecTypes, NetworkTypes, Call
<1>12. ASSUME NEW op \in Ops, DismissConflict(op) PROVE NetworkTypes'
  BY <1>12 DEF ExecTypes, NetworkTypes, DismissConflict
<1>13. ASSUME NEW op \in Ops, BuildConflictRebuild(op) PROVE NetworkTypes'
  BY <1>13 DEF ExecTypes, NetworkTypes, BuildConflictRebuild
<1>14. ASSUME NEW op \in Ops, Unclaim(op) PROVE NetworkTypes'
  BY <1>14 DEF ExecTypes, NetworkTypes, Unclaim
<1>15. ASSUME NEW op \in Ops, ReserveAdmission(op) PROVE NetworkTypes'
  BY <1>15 DEF ExecTypes, NetworkTypes, ReserveAdmission
<1>16. ASSUME NEW op \in Ops, DiscardConflict(op) PROVE NetworkTypes'
  BY <1>16 DEF ExecTypes, NetworkTypes, DiscardConflict
<1>17. ASSUME NEW op \in Ops, NEW rebuilt \in Rebuilds, RebuildConflict(op, rebuilt) PROVE NetworkTypes'
  BY <1>17 DEF ExecTypes, NetworkTypes, RebuildConflict
<1>18. CASE Terminate
  BY <1>18 DEF ExecTypes, NetworkTypes, Terminate
<1>19. CASE Suspend
  BY <1>19 DEF ExecTypes, NetworkTypes, Suspend
<1>20. CASE Resume
  <2>1. Rows \in Seq(Messages)
    <3>1. CASE Len(log) - acked \in Nat
      <4>1. \A i \in 1..(Len(log) - acked) : log[acked + i] \in Ops
        BY <3>1 DEF ExecTypes, NetworkTypes
      <4>2. \A i \in 1..(Len(log) - acked) : [op |-> log[acked + i], kind |-> "accepted"] \in Messages
        BY <4>1 DEF Messages
      <4> QED
        BY <3>1, <4>2 DEF Rows
    <3>2. CASE Len(log) - acked \notin Nat
      <4>1. 1..(Len(log) - acked) = {}
        BY <3>2 DEF ExecTypes, NetworkTypes
      <4>2. Rows = << >>
        BY <4>1 DEF Rows
      <4> QED
        BY <4>2
    <3> QED
      BY <3>1, <3>2
  <2> QED
    <3>1. down' \in Seq(Messages)
      BY <1>20, <2>1, EmptySeq DEF Resume
    <3>2. UNCHANGED <<up, log, acked, sent>>
      BY <1>20 DEF Resume
    <3> QED
      BY <3>1, <3>2 DEF ExecTypes, NetworkTypes
<1>21. CASE ReplaceAcknowledgedSnapshot
  BY <1>21 DEF ExecTypes, NetworkTypes, ReplaceAcknowledgedSnapshot
<1>22. CASE ReceiveAccepted
  BY <1>22 DEF ExecTypes, NetworkTypes, ReceiveAccepted
<1>23. CASE ReceiveRejected
  <2>1. down' = Tail(down) \/ down' = << >>
    BY <1>23 DEF ReceiveRejected
  <2>2. UNCHANGED <<up, log, acked, sent>>
    BY <1>23 DEF ReceiveRejected
  <2>3. down # << >>
    BY <1>23 DEF ReceiveRejected
  <2> QED
    <3>1. down' \in Seq(Messages)
      BY <2>1, <2>3, NextMessage, EmptySeq DEF ExecTypes
    <3> QED
      BY <2>2, <3>1 DEF ExecTypes, NetworkTypes
<1>24. CASE ServerTake
  <2>1. up' = Tail(up) /\ up # << >>
    BY <1>24 DEF ServerTake
  <2>2. UNCHANGED <<acked, sent>> /\ (UNCHANGED log \/ log' = Append(log, Head(up).op))
    BY <1>24 DEF ServerTake
  <2>6. \/ UNCHANGED down
        \/ \E kind \in {"accepted", "rejected"} : down' = Append(down, [op |-> Head(up).op, kind |-> kind])
    BY <1>24 DEF ServerTake
  <2>3. Head(up) \in Submissions /\ Tail(up) \in Seq(Submissions)
    BY <2>1, HeadTail DEF ExecTypes, NetworkTypes
  <2>4. \A kind \in {"accepted", "rejected"} : [op |-> Head(up).op, kind |-> kind] \in Messages
    BY <2>3 DEF Submissions, Messages
  <2>5. Head(up).op \in Ops
    BY <2>3 DEF Submissions
  <2> QED
    <3>1. down' \in Seq(Messages)
      <4>1. ASSUME NEW message \in Messages, down' = Append(down, message)
            PROVE  down' \in Seq(Messages)
        BY <4>1 DEF ExecTypes, NetworkTypes
      <4> QED
        BY <2>4, <2>6, <4>1 DEF ExecTypes, NetworkTypes
    <3>2. log' \in Seq(Ops)
      <4>1. log \in Seq(Ops)
        BY DEF ExecTypes, NetworkTypes
      <4>2. Append(log, Head(up).op) \in Seq(Ops)
        BY <2>5, <4>1
      <4> QED
        BY <2>2, <4>1, <4>2
    <3> QED
      BY <2>1, <2>2, <2>3, <3>1, <3>2 DEF ExecTypes, NetworkTypes
<1>25. CASE Break
  <2>1. PICK n \in 0..Len(up) : up' = SubSeq(up, 1, n)
    BY <1>25 DEF Break
  <2>2. up' \in Seq(Submissions)
    BY <2>1 DEF ExecTypes, NetworkTypes
  <2> QED
    BY <1>25, <2>2 DEF ExecTypes, NetworkTypes, Break
<1> QED
  BY <1>1, <1>2, <1>3, <1>4, <1>5, <1>6, <1>7, <1>8, <1>9, <1>10, <1>11, <1>12, <1>13,
     <1>14, <1>15, <1>16, <1>17, <1>18, <1>19, <1>20, <1>21, <1>22, <1>23, <1>24, <1>25
     DEF Next, Step, User, Connection

LEMMA TypesStep ==
    ASSUME ExecTypes, Next
    PROVE  ExecTypes'
BY GoroutineTypesStep, AdmissionTypesStep, DraftTypesStep, NetworkTypesStep DEF ExecTypes

-----------------------------------------------------------------------------------
(* Admission and the connection an edit is sent on. *)
LEMMA AdmissionStep ==
    ASSUME ExecTypes, Admission, Next
    PROVE  Admission'
<1> USE DEF worker, authority, admission, completions, network, observed, Goto, Publish
<1>1. ASSUME NEW op \in Ops, RefuseAdmission(op) PROVE Admission'
  BY <1>1
     DEF ExecTypes, GoroutineTypes, AdmissionTypes, Admission, RefuseAdmission, Interrupted, Unadmitted,
         Waiting
<1>2. ASSUME NEW op \in Ops, WaitDispatchTurn(op) PROVE Admission'
  BY <1>2
     DEF ExecTypes, GoroutineTypes, AdmissionTypes, Admission, WaitDispatchTurn, Interrupted, Unadmitted,
         Waiting
<1>3. ASSUME NEW op \in Ops, Dispatch(op) PROVE Admission'
  BY <1>3
     DEF ExecTypes, GoroutineTypes, AdmissionTypes, Admission, Dispatch, Interrupted, Unadmitted, Waiting
<1>4. ASSUME NEW op \in Ops, RefuseAdmitted(op) PROVE Admission'
  BY <1>4
     DEF ExecTypes, GoroutineTypes, AdmissionTypes, Admission, RefuseAdmitted, Interrupted, Unadmitted,
         Waiting
<1>5. ASSUME NEW op \in Ops, SendOperation(op) PROVE Admission'
  BY <1>5
     DEF ExecTypes, GoroutineTypes, AdmissionTypes, Admission, SendOperation, Interrupted, Unadmitted,
         Waiting
<1>6. ASSUME NEW op \in Ops, FailPending(op) PROVE Admission'
  BY <1>6
     DEF ExecTypes, GoroutineTypes, AdmissionTypes, Admission, FailPending, Interrupted, Unadmitted, Waiting
<1>7. ASSUME NEW op \in Ops, FinishAdmission(op) PROVE Admission'
  BY <1>7
     DEF ExecTypes, GoroutineTypes, AdmissionTypes, Admission, FinishAdmission, Interrupted, Unadmitted,
         Waiting
<1>8. ASSUME NEW op \in Ops, Await(op) PROVE Admission'
  BY <1>8 DEF ExecTypes, GoroutineTypes, AdmissionTypes, Admission, Await, Interrupted, Unadmitted, Waiting
<1>9. ASSUME NEW op \in Ops, RecordCompletion(op) PROVE Admission'
  BY <1>9
     DEF AfterRecord, ExecTypes, GoroutineTypes, AdmissionTypes, Admission, RecordCompletion, Interrupted,
         Unadmitted, Waiting
<1>10. ASSUME NEW op \in Ops, DrainCompletions(op) PROVE Admission'
  BY <1>10
     DEF AfterRecord, ExecTypes, GoroutineTypes, AdmissionTypes, Admission, DrainCompletions, Interrupted,
         Unadmitted, Waiting
<1>11. ASSUME NEW op \in Ops, Call(op) PROVE Admission'
  BY <1>11 DEF ExecTypes, GoroutineTypes, AdmissionTypes, Admission, Call, Interrupted, Unadmitted, Waiting
<1>12. ASSUME NEW op \in Ops, DismissConflict(op) PROVE Admission'
  BY <1>12
     DEF ExecTypes, GoroutineTypes, AdmissionTypes, Admission, DismissConflict, Interrupted, Unadmitted,
         Waiting
<1>13. ASSUME NEW op \in Ops, BuildConflictRebuild(op) PROVE Admission'
  BY <1>13
     DEF ExecTypes, GoroutineTypes, AdmissionTypes, Admission, BuildConflictRebuild, Interrupted,
         Unadmitted, Waiting
<1>14. ASSUME NEW op \in Ops, Unclaim(op) PROVE Admission'
  BY <1>14
     DEF ExecTypes, GoroutineTypes, AdmissionTypes, Admission, Unclaim, Interrupted, Unadmitted, Waiting
<1>15. ASSUME NEW op \in Ops, ReserveAdmission(op) PROVE Admission'
  BY <1>15
     DEF ExecTypes, GoroutineTypes, AdmissionTypes, Admission, ReserveAdmission, Interrupted, Unadmitted,
         Waiting
<1>16. ASSUME NEW op \in Ops, DiscardConflict(op) PROVE Admission'
  BY <1>16
     DEF ExecTypes, GoroutineTypes, AdmissionTypes, Admission, DiscardConflict, Interrupted, Unadmitted,
         Waiting
<1>17. ASSUME NEW op \in Ops, NEW rebuilt \in Rebuilds, RebuildConflict(op, rebuilt) PROVE Admission'
  BY <1>17
     DEF ExecTypes, GoroutineTypes, AdmissionTypes, Admission, RebuildConflict, Interrupted, Unadmitted,
         Waiting
<1>18. CASE Terminate
  BY <1>18
     DEF ClearPending, InterruptionMark, ExecTypes, GoroutineTypes, AdmissionTypes, Admission, Terminate,
         Interrupted, Unadmitted, Waiting
<1>19. CASE Suspend
  BY <1>19
     DEF ClearPending, InterruptionMark, ExecTypes, GoroutineTypes, AdmissionTypes, Admission, Suspend,
         Interrupted, Unadmitted, Waiting
<1>20. CASE Resume
  BY <1>20
     DEF ExecTypes, GoroutineTypes, AdmissionTypes, Admission, Resume, Interrupted, Unadmitted, Waiting
<1>21. CASE ReplaceAcknowledgedSnapshot
  BY <1>21
     DEF ExecTypes, GoroutineTypes, AdmissionTypes, Admission, ReplaceAcknowledgedSnapshot, Interrupted,
         Unadmitted, Waiting
<1>22. CASE ReceiveAccepted
  BY <1>22
     DEF ExecTypes, GoroutineTypes, AdmissionTypes, Admission, ReceiveAccepted, Interrupted, Unadmitted,
         Waiting
<1>23. CASE ReceiveRejected
  BY <1>23
     DEF ClearPending, InterruptionMark, ExecTypes, GoroutineTypes, AdmissionTypes, Admission,
         ReceiveRejected, Interrupted, Unadmitted, Waiting
<1>24. CASE ServerTake
  BY <1>24
     DEF ExecTypes, GoroutineTypes, AdmissionTypes, Admission, ServerTake, Interrupted, Unadmitted, Waiting
<1>25. CASE Break
  BY <1>25 DEF ExecTypes, GoroutineTypes, AdmissionTypes, Admission, Break, Interrupted, Unadmitted, Waiting
<1> QED
  BY <1>1, <1>2, <1>3, <1>4, <1>5, <1>6, <1>7, <1>8, <1>9, <1>10, <1>11, <1>12, <1>13,
     <1>14, <1>15, <1>16, <1>17, <1>18, <1>19, <1>20, <1>21, <1>22, <1>23, <1>24, <1>25
     DEF Next, Step, User, Connection

LEMMA SentOnceStep ==
    ASSUME ExecTypes, Admission, SentOnce, Next
    PROVE  SentOnce'
<1> USE DEF worker, authority, admission, completions, network, observed, Goto, Publish
<1>1. ASSUME NEW op \in Ops, RefuseAdmission(op) PROVE SentOnce'
  BY <1>1
     DEF ExecTypes, GoroutineTypes, NetworkTypes, Submissions, Admission, SentOnce, RefuseAdmission,
         PastSend, Waiting, Unadmitted
<1>2. ASSUME NEW op \in Ops, WaitDispatchTurn(op) PROVE SentOnce'
  BY <1>2
     DEF ExecTypes, GoroutineTypes, NetworkTypes, Submissions, Admission, SentOnce, WaitDispatchTurn,
         PastSend, Waiting, Unadmitted
<1>3. ASSUME NEW op \in Ops, Dispatch(op) PROVE SentOnce'
  BY <1>3
     DEF ExecTypes, GoroutineTypes, NetworkTypes, Submissions, Admission, SentOnce, Dispatch, PastSend,
         Waiting, Unadmitted
<1>4. ASSUME NEW op \in Ops, RefuseAdmitted(op) PROVE SentOnce'
  BY <1>4
     DEF ExecTypes, GoroutineTypes, NetworkTypes, Submissions, Admission, SentOnce, RefuseAdmitted,
         PastSend, Waiting, Unadmitted
<1>5. ASSUME NEW op \in Ops, SendOperation(op) PROVE SentOnce'
  <2>1. /\ UNCHANGED admitted
        /\ pc[op] = "send" /\ via[op] = admitted[op]
        /\ pc' = [pc EXCEPT ![op] = "finishsent"] \/ pc' = [pc EXCEPT ![op] = "failpending"]
    BY <1>5 DEF SendOperation, Admission
  <2>2. sent' \subseteq sent \cup {[op |-> op, via |-> via[op]]}
    BY <1>5 DEF SendOperation
  <2>3. \A o \in Ops : pc[o] \in PastSend => pc'[o] \in PastSend
    BY <2>1 DEF ExecTypes, GoroutineTypes, PastSend
  <2>4. pc'[op] \in PastSend
    BY <2>1 DEF ExecTypes, GoroutineTypes, PastSend
  <2>5. \A s \in sent : s.op \in Ops
    BY DEF ExecTypes, NetworkTypes, Submissions
  <2> QED
    BY <2>1, <2>2, <2>3, <2>4, <2>5 DEF SentOnce
<1>6. ASSUME NEW op \in Ops, FailPending(op) PROVE SentOnce'
  BY <1>6
     DEF ExecTypes, GoroutineTypes, NetworkTypes, Submissions, Admission, SentOnce, FailPending, PastSend,
         Waiting, Unadmitted
<1>7. ASSUME NEW op \in Ops, FinishAdmission(op) PROVE SentOnce'
  BY <1>7
     DEF ExecTypes, GoroutineTypes, NetworkTypes, Submissions, Admission, SentOnce, FinishAdmission,
         PastSend, Waiting, Unadmitted
<1>8. ASSUME NEW op \in Ops, Await(op) PROVE SentOnce'
  BY <1>8
     DEF ExecTypes, GoroutineTypes, NetworkTypes, Submissions, Admission, SentOnce, Await, PastSend,
         Waiting, Unadmitted
<1>9. ASSUME NEW op \in Ops, RecordCompletion(op) PROVE SentOnce'
  BY <1>9
     DEF AfterRecord, ExecTypes, GoroutineTypes, NetworkTypes, Submissions, Admission, SentOnce,
         RecordCompletion, PastSend, Waiting, Unadmitted
<1>10. ASSUME NEW op \in Ops, DrainCompletions(op) PROVE SentOnce'
  BY <1>10
     DEF AfterRecord, ExecTypes, GoroutineTypes, NetworkTypes, Submissions, Admission, SentOnce,
         DrainCompletions, PastSend, Waiting, Unadmitted
<1>11. ASSUME NEW op \in Ops, Call(op) PROVE SentOnce'
  BY <1>11
     DEF ExecTypes, GoroutineTypes, NetworkTypes, Submissions, Admission, SentOnce, Call, PastSend,
         Waiting, Unadmitted
<1>12. ASSUME NEW op \in Ops, DismissConflict(op) PROVE SentOnce'
  BY <1>12
     DEF ExecTypes, GoroutineTypes, NetworkTypes, Submissions, Admission, SentOnce, DismissConflict,
         PastSend, Waiting, Unadmitted
<1>13. ASSUME NEW op \in Ops, BuildConflictRebuild(op) PROVE SentOnce'
  BY <1>13
     DEF ExecTypes, GoroutineTypes, NetworkTypes, Submissions, Admission, SentOnce, BuildConflictRebuild,
         PastSend, Waiting, Unadmitted
<1>14. ASSUME NEW op \in Ops, Unclaim(op) PROVE SentOnce'
  BY <1>14
     DEF ExecTypes, GoroutineTypes, NetworkTypes, Submissions, Admission, SentOnce, Unclaim, PastSend,
         Waiting, Unadmitted
<1>15. ASSUME NEW op \in Ops, ReserveAdmission(op) PROVE SentOnce'
  BY <1>15
     DEF ExecTypes, GoroutineTypes, NetworkTypes, Submissions, Admission, SentOnce, ReserveAdmission,
         PastSend, Waiting, Unadmitted
<1>16. ASSUME NEW op \in Ops, DiscardConflict(op) PROVE SentOnce'
  BY <1>16
     DEF ExecTypes, GoroutineTypes, NetworkTypes, Submissions, Admission, SentOnce, DiscardConflict,
         PastSend, Waiting, Unadmitted
<1>17. ASSUME NEW op \in Ops, NEW rebuilt \in Rebuilds, RebuildConflict(op, rebuilt) PROVE SentOnce'
  BY <1>17
     DEF ExecTypes, GoroutineTypes, NetworkTypes, Submissions, Admission, SentOnce, RebuildConflict,
         PastSend, Waiting, Unadmitted
<1>18. CASE Terminate
  BY <1>18
     DEF ExecTypes, GoroutineTypes, NetworkTypes, Submissions, Admission, SentOnce, Terminate, PastSend,
         Waiting, Unadmitted
<1>19. CASE Suspend
  BY <1>19
     DEF ExecTypes, GoroutineTypes, NetworkTypes, Submissions, Admission, SentOnce, Suspend, PastSend,
         Waiting, Unadmitted
<1>20. CASE Resume
  BY <1>20
     DEF ExecTypes, GoroutineTypes, NetworkTypes, Submissions, Admission, SentOnce, Resume, PastSend,
         Waiting, Unadmitted
<1>21. CASE ReplaceAcknowledgedSnapshot
  BY <1>21
     DEF ExecTypes, GoroutineTypes, NetworkTypes, Submissions, Admission, SentOnce,
         ReplaceAcknowledgedSnapshot, PastSend, Waiting, Unadmitted
<1>22. CASE ReceiveAccepted
  BY <1>22
     DEF ExecTypes, GoroutineTypes, NetworkTypes, Submissions, Admission, SentOnce, ReceiveAccepted,
         PastSend, Waiting, Unadmitted
<1>23. CASE ReceiveRejected
  BY <1>23
     DEF ClearPending, ExecTypes, GoroutineTypes, NetworkTypes, Submissions, Admission, SentOnce,
         ReceiveRejected, PastSend, Waiting, Unadmitted
<1>24. CASE ServerTake
  BY <1>24
     DEF ExecTypes, GoroutineTypes, NetworkTypes, Submissions, Admission, SentOnce, ServerTake, PastSend,
         Waiting, Unadmitted
<1>25. CASE Break
  BY <1>25
     DEF ExecTypes, GoroutineTypes, NetworkTypes, Submissions, Admission, SentOnce, Break, PastSend,
         Waiting, Unadmitted
<1> QED
  BY <1>1, <1>2, <1>3, <1>4, <1>5, <1>6, <1>7, <1>8, <1>9, <1>10, <1>11, <1>12, <1>13,
     <1>14, <1>15, <1>16, <1>17, <1>18, <1>19, <1>20, <1>21, <1>22, <1>23, <1>24, <1>25
     DEF Next, Step, User, Connection

LEMMA QueueStep ==
    ASSUME ExecTypes, Admission, QueueExact, Next
    PROVE  QueueExact'
<1> USE DEF worker, authority, admission, completions, network, observed, Goto, Publish
<1>1. ASSUME NEW op \in Ops, RefuseAdmission(op) PROVE QueueExact'
  BY <1>1
     DEF ExecTypes, GoroutineTypes, AdmissionTypes, Admission, QueueExact, RefuseAdmission, Holding,
         Interrupted, Unadmitted
<1>2. ASSUME NEW op \in Ops, WaitDispatchTurn(op) PROVE QueueExact'
  BY <1>2
     DEF ExecTypes, GoroutineTypes, AdmissionTypes, Admission, QueueExact, WaitDispatchTurn, Holding,
         Interrupted, Unadmitted
<1>3. ASSUME NEW op \in Ops, Dispatch(op) PROVE QueueExact'
  BY <1>3
     DEF ExecTypes, GoroutineTypes, AdmissionTypes, Admission, QueueExact, Dispatch, Holding, Interrupted,
         Unadmitted
<1>4. ASSUME NEW op \in Ops, RefuseAdmitted(op) PROVE QueueExact'
  BY <1>4
     DEF ExecTypes, GoroutineTypes, AdmissionTypes, Admission, QueueExact, RefuseAdmitted, Holding,
         Interrupted, Unadmitted
<1>5. ASSUME NEW op \in Ops, SendOperation(op) PROVE QueueExact'
  BY <1>5
     DEF ExecTypes, GoroutineTypes, AdmissionTypes, Admission, QueueExact, SendOperation, Holding,
         Interrupted, Unadmitted
<1>6. ASSUME NEW op \in Ops, FailPending(op) PROVE QueueExact'
  BY <1>6
     DEF ExecTypes, GoroutineTypes, AdmissionTypes, Admission, QueueExact, FailPending, Holding,
         Interrupted, Unadmitted
<1>7. ASSUME NEW op \in Ops, FinishAdmission(op) PROVE QueueExact'
  BY <1>7
     DEF ExecTypes, GoroutineTypes, AdmissionTypes, Admission, QueueExact, FinishAdmission, Holding,
         Interrupted, Unadmitted
<1>8. ASSUME NEW op \in Ops, Await(op) PROVE QueueExact'
  BY <1>8
     DEF ExecTypes, GoroutineTypes, AdmissionTypes, Admission, QueueExact, Await, Holding, Interrupted,
         Unadmitted
<1>9. ASSUME NEW op \in Ops, RecordCompletion(op) PROVE QueueExact'
  BY <1>9
     DEF AfterRecord, ExecTypes, GoroutineTypes, AdmissionTypes, Admission, QueueExact, RecordCompletion,
         Holding, Interrupted, Unadmitted
<1>10. ASSUME NEW op \in Ops, DrainCompletions(op) PROVE QueueExact'
  BY <1>10
     DEF AfterRecord, ExecTypes, GoroutineTypes, AdmissionTypes, Admission, QueueExact, DrainCompletions,
         Holding, Interrupted, Unadmitted
<1>11. ASSUME NEW op \in Ops, Call(op) PROVE QueueExact'
  BY <1>11
     DEF ExecTypes, GoroutineTypes, AdmissionTypes, Admission, QueueExact, Call, Holding, Interrupted,
         Unadmitted
<1>12. ASSUME NEW op \in Ops, DismissConflict(op) PROVE QueueExact'
  BY <1>12
     DEF ExecTypes, GoroutineTypes, AdmissionTypes, Admission, QueueExact, DismissConflict, Holding,
         Interrupted, Unadmitted
<1>13. ASSUME NEW op \in Ops, BuildConflictRebuild(op) PROVE QueueExact'
  BY <1>13
     DEF ExecTypes, GoroutineTypes, AdmissionTypes, Admission, QueueExact, BuildConflictRebuild, Holding,
         Interrupted, Unadmitted
<1>14. ASSUME NEW op \in Ops, Unclaim(op) PROVE QueueExact'
  BY <1>14
     DEF ExecTypes, GoroutineTypes, AdmissionTypes, Admission, QueueExact, Unclaim, Holding, Interrupted,
         Unadmitted
<1>15. ASSUME NEW op \in Ops, ReserveAdmission(op) PROVE QueueExact'
  BY <1>15
     DEF ExecTypes, GoroutineTypes, AdmissionTypes, Admission, QueueExact, ReserveAdmission, Holding,
         Interrupted, Unadmitted
<1>16. ASSUME NEW op \in Ops, DiscardConflict(op) PROVE QueueExact'
  BY <1>16
     DEF ExecTypes, GoroutineTypes, AdmissionTypes, Admission, QueueExact, DiscardConflict, Holding,
         Interrupted, Unadmitted
<1>17. ASSUME NEW op \in Ops, NEW rebuilt \in Rebuilds, RebuildConflict(op, rebuilt) PROVE QueueExact'
  BY <1>17
     DEF ExecTypes, GoroutineTypes, AdmissionTypes, Admission, QueueExact, RebuildConflict, Holding,
         Interrupted, Unadmitted
<1>18. CASE Terminate
  BY <1>18
     DEF ClearPending, InterruptionMark, ExecTypes, GoroutineTypes, AdmissionTypes, Admission, QueueExact,
         Terminate, Holding, Interrupted, Unadmitted
<1>19. CASE Suspend
  BY <1>19
     DEF ClearPending, InterruptionMark, ExecTypes, GoroutineTypes, AdmissionTypes, Admission, QueueExact,
         Suspend, Holding, Interrupted, Unadmitted
<1>20. CASE Resume
  BY <1>20
     DEF ExecTypes, GoroutineTypes, AdmissionTypes, Admission, QueueExact, Resume, Holding, Interrupted,
         Unadmitted
<1>21. CASE ReplaceAcknowledgedSnapshot
  BY <1>21
     DEF ExecTypes, GoroutineTypes, AdmissionTypes, Admission, QueueExact, ReplaceAcknowledgedSnapshot,
         Holding, Interrupted, Unadmitted
<1>22. CASE ReceiveAccepted
  BY <1>22
     DEF ExecTypes, GoroutineTypes, AdmissionTypes, Admission, QueueExact, ReceiveAccepted, Holding,
         Interrupted, Unadmitted
<1>23. CASE ReceiveRejected
  BY <1>23
     DEF ClearPending, InterruptionMark, ExecTypes, GoroutineTypes, AdmissionTypes, Admission, QueueExact,
         ReceiveRejected, Holding, Interrupted, Unadmitted
<1>24. CASE ServerTake
  BY <1>24
     DEF ExecTypes, GoroutineTypes, AdmissionTypes, Admission, QueueExact, ServerTake, Holding,
         Interrupted, Unadmitted
<1>25. CASE Break
  BY <1>25
     DEF ExecTypes, GoroutineTypes, AdmissionTypes, Admission, QueueExact, Break, Holding, Interrupted,
         Unadmitted
<1> QED
  BY <1>1, <1>2, <1>3, <1>4, <1>5, <1>6, <1>7, <1>8, <1>9, <1>10, <1>11, <1>12, <1>13,
     <1>14, <1>15, <1>16, <1>17, <1>18, <1>19, <1>20, <1>21, <1>22, <1>23, <1>24, <1>25
     DEF Next, Step, User, Connection

-----------------------------------------------------------------------------------
(* The projection keeps each pending edit once, and the budget counts them.   *)
LEMMA ListRemoved ==
    ASSUME NEW s \in Seq(Ops), NEW set, NEW op, ListsSet(s, set)
    PROVE  ListsSet(Without(s, op), set \ {op})
<1>1. NoRepeats(Without(s, op)) /\ Elements(Without(s, op)) = set \ {op}
  BY WithoutElements DEF ListsSet
<1>2. /\ IsFiniteSet(set \ {op})
      /\ Cardinality(set \ {op}) = IF op \in set THEN Cardinality(set) - 1 ELSE Cardinality(set)
  BY FS_RemoveElement DEF ListsSet
<1>3. Len(Without(s, op)) = IF op \in set THEN Len(s) - 1 ELSE Len(s)
  <2>1. op \in set <=> \E i \in 1..Len(s) : s[i] = op
    BY DEF ListsSet, Elements
  <2>2. CASE op \in set
    <3>1. Len(s) - 1 \in Nat
      BY <2>1, <2>2
    <3> QED
      BY <2>1, <2>2, <3>1 DEF Without
  <2>3. CASE op \notin set
    BY <2>1, <2>3 DEF Without
  <2> QED
    BY <2>2, <2>3
<1> QED
  BY <1>1, <1>2, <1>3 DEF ListsSet

LEMMA ListAdded ==
    ASSUME NEW s \in Seq(Ops), NEW set, NEW op \in Ops, op \notin set, ListsSet(s, set)
    PROVE  ListsSet(Append(s, op), set \cup {op})
<1> DEFINE t == Append(s, op)
<1>1. /\ Len(t) = Len(s) + 1 /\ Len(s) \in Nat
      /\ \A i \in 1..Len(s) : t[i] = s[i]
      /\ t[Len(s) + 1] = op
  OBVIOUS
<1> HIDE DEF t
<1>2. \A i \in 1..Len(s) : s[i] # op
  BY DEF ListsSet, Elements
<1>3. NoRepeats(t)
  BY <1>1, <1>2 DEF ListsSet, NoRepeats
<1>4. Elements(t) = set \cup {op}
  <2>1. ASSUME NEW x \in Elements(t) PROVE x \in set \cup {op}
    BY <1>1 DEF ListsSet, Elements
  <2>2. ASSUME NEW x \in set PROVE x \in Elements(t)
    <3>1. PICK i \in 1..Len(s) : x = s[i]
      BY DEF ListsSet, Elements
    <3>2. i \in 1..Len(t) /\ x = t[i]
      BY <1>1, <3>1
    <3> QED
      BY <3>2 DEF Elements
  <2>3. op \in Elements(t)
    BY <1>1 DEF Elements
  <2> QED
    BY <2>1, <2>2, <2>3
<1>5. IsFiniteSet(set \cup {op}) /\ Cardinality(set \cup {op}) = Cardinality(set) + 1
  BY FS_AddElement DEF ListsSet
<1> QED
  BY <1>1, <1>3, <1>4, <1>5 DEF ListsSet, t

LEMMA ListEmpty == ListsSet(<< >>, {})
BY FS_EmptySet DEF ListsSet, NoRepeats, Elements

LEMMA PendingStep ==
    ASSUME ExecTypes, Admission, PendingExact, Next
    PROVE  PendingExact'
<1> USE DEF worker, authority, admission, completions, network, observed, Goto, Publish
<1>1. ASSUME NEW op \in Ops, RefuseAdmission(op) PROVE PendingExact'
  BY <1>1 DEF ExecTypes, GoroutineTypes, DraftTypes, PendingExact, RefuseAdmission, PastSend
<1>2. ASSUME NEW op \in Ops, WaitDispatchTurn(op) PROVE PendingExact'
  BY <1>2 DEF ExecTypes, GoroutineTypes, DraftTypes, PendingExact, WaitDispatchTurn, PastSend
<1>3. ASSUME NEW op \in Ops, Dispatch(op) PROVE PendingExact'
  <2>1. CASE pc'[op] = "send"
    <3>1. projected' = Append(projected, op) /\ pending' = pending \cup {op} /\ op \notin pending
      BY <1>3, <2>1 DEF ExecTypes, GoroutineTypes, DraftTypes, PendingExact, Dispatch, PastSend
    <3> QED
      BY <1>3, <2>1, <3>1, ListAdded
         DEF ExecTypes, GoroutineTypes, DraftTypes, PendingExact, Dispatch, PastSend
  <2>2. CASE pc'[op] # "send"
    BY <1>3, <2>2 DEF ExecTypes, GoroutineTypes, DraftTypes, PendingExact, Dispatch, PastSend
  <2> QED
    BY <2>1, <2>2
<1>4. ASSUME NEW op \in Ops, RefuseAdmitted(op) PROVE PendingExact'
  BY <1>4 DEF ExecTypes, GoroutineTypes, DraftTypes, PendingExact, RefuseAdmitted, PastSend
<1>5. ASSUME NEW op \in Ops, SendOperation(op) PROVE PendingExact'
  BY <1>5 DEF ExecTypes, GoroutineTypes, DraftTypes, PendingExact, SendOperation, PastSend
<1>6. ASSUME NEW op \in Ops, FailPending(op) PROVE PendingExact'
  <2>1. CASE op \in pending
    BY <1>6, <2>1, ListRemoved
       DEF ExecTypes, GoroutineTypes, DraftTypes, PendingExact, FailPending, PastSend
  <2>2. CASE op \notin pending
    BY <1>6, <2>2 DEF ExecTypes, GoroutineTypes, DraftTypes, PendingExact, FailPending, PastSend
  <2> QED
    BY <2>1, <2>2
<1>7. ASSUME NEW op \in Ops, FinishAdmission(op) PROVE PendingExact'
  BY <1>7 DEF ExecTypes, GoroutineTypes, DraftTypes, PendingExact, FinishAdmission, PastSend
<1>8. ASSUME NEW op \in Ops, Await(op) PROVE PendingExact'
  BY <1>8 DEF ExecTypes, GoroutineTypes, DraftTypes, PendingExact, Await, PastSend
<1>9. ASSUME NEW op \in Ops, RecordCompletion(op) PROVE PendingExact'
  BY <1>9 DEF AfterRecord, ExecTypes, GoroutineTypes, DraftTypes, PendingExact, RecordCompletion, PastSend
<1>10. ASSUME NEW op \in Ops, DrainCompletions(op) PROVE PendingExact'
  BY <1>10 DEF AfterRecord, ExecTypes, GoroutineTypes, DraftTypes, PendingExact, DrainCompletions, PastSend
<1>11. ASSUME NEW op \in Ops, Call(op) PROVE PendingExact'
  BY <1>11 DEF ExecTypes, GoroutineTypes, DraftTypes, PendingExact, Call, PastSend
<1>12. ASSUME NEW op \in Ops, DismissConflict(op) PROVE PendingExact'
  BY <1>12 DEF ExecTypes, GoroutineTypes, DraftTypes, PendingExact, DismissConflict, PastSend
<1>13. ASSUME NEW op \in Ops, BuildConflictRebuild(op) PROVE PendingExact'
  BY <1>13 DEF ExecTypes, GoroutineTypes, DraftTypes, PendingExact, BuildConflictRebuild, PastSend
<1>14. ASSUME NEW op \in Ops, Unclaim(op) PROVE PendingExact'
  BY <1>14 DEF ExecTypes, GoroutineTypes, DraftTypes, PendingExact, Unclaim, PastSend
<1>15. ASSUME NEW op \in Ops, ReserveAdmission(op) PROVE PendingExact'
  BY <1>15 DEF ExecTypes, GoroutineTypes, DraftTypes, PendingExact, ReserveAdmission, PastSend
<1>16. ASSUME NEW op \in Ops, DiscardConflict(op) PROVE PendingExact'
  BY <1>16 DEF ExecTypes, GoroutineTypes, DraftTypes, PendingExact, DiscardConflict, PastSend
<1>17. ASSUME NEW op \in Ops, NEW rebuilt \in Rebuilds, RebuildConflict(op, rebuilt) PROVE PendingExact'
  BY <1>17 DEF ExecTypes, GoroutineTypes, DraftTypes, PendingExact, RebuildConflict, PastSend
<1>18. CASE Terminate
  BY <1>18, ListEmpty
     DEF ClearPending, ExecTypes, GoroutineTypes, DraftTypes, PendingExact, Terminate, PastSend
<1>19. CASE Suspend
  BY <1>19, ListEmpty
     DEF ClearPending, ExecTypes, GoroutineTypes, DraftTypes, PendingExact, Suspend, PastSend
<1>20. CASE Resume
  BY <1>20 DEF ExecTypes, GoroutineTypes, DraftTypes, PendingExact, Resume, PastSend
<1>21. CASE ReplaceAcknowledgedSnapshot
  BY <1>21 DEF ExecTypes, GoroutineTypes, DraftTypes, PendingExact, ReplaceAcknowledgedSnapshot, PastSend
<1>22. CASE ReceiveAccepted
  <2> DEFINE o == Head(down).op
  <2>1. CASE o \in accepted
    BY <1>22, <2>1 DEF ExecTypes, GoroutineTypes, DraftTypes, PendingExact, ReceiveAccepted, PastSend
  <2>2. CASE o \notin accepted
    <3>1. projected' = Without(projected, o) /\ pending' = pending \ {o} /\ UNCHANGED pc
      BY <1>22, <2>2 DEF ReceiveAccepted, Resolve
    <3> QED
      BY <3>1, ListRemoved DEF ExecTypes, DraftTypes, PendingExact
  <2> QED
    BY <2>1, <2>2
<1>23. CASE ReceiveRejected
  <2> DEFINE o == Head(down).op
  <2>1. CASE o \in Projected
    <3>1. projected' = Without(projected, o) /\ pending' = pending \ {o} /\ UNCHANGED pc
      BY <1>23, <2>1 DEF ReceiveRejected, Resolve
    <3> QED
      BY <3>1, ListRemoved DEF ExecTypes, DraftTypes, PendingExact
  <2>2. CASE o \notin Projected
    BY <1>23, <2>2, ListEmpty
       DEF ClearPending, ExecTypes, GoroutineTypes, DraftTypes, PendingExact, ReceiveRejected, PastSend
  <2> QED
    BY <2>1, <2>2
<1>24. CASE ServerTake
  BY <1>24 DEF ExecTypes, GoroutineTypes, DraftTypes, PendingExact, ServerTake, PastSend
<1>25. CASE Break
  BY <1>25 DEF ExecTypes, GoroutineTypes, DraftTypes, PendingExact, Break, PastSend
<1> QED
  BY <1>1, <1>2, <1>3, <1>4, <1>5, <1>6, <1>7, <1>8, <1>9, <1>10, <1>11, <1>12, <1>13,
     <1>14, <1>15, <1>16, <1>17, <1>18, <1>19, <1>20, <1>21, <1>22, <1>23, <1>24, <1>25
     DEF Next, Step, User, Connection

LEMMA BudgetShrinks ==
    ASSUME PendingExact, Budget, Holders' = Holders, UNCHANGED localAdmissions,
           pendingAdmission' = Retained', pendingAdmission' \subseteq pendingAdmission
    PROVE  Budget'
<1>1. IsFiniteSet(pendingAdmission)
  BY FS_Subset DEF Budget, Retained, PendingExact, ListsSet
<1>2. /\ Cardinality(pendingAdmission') <= Cardinality(pendingAdmission)
      /\ Cardinality(pendingAdmission') \in Nat /\ Cardinality(pendingAdmission) \in Nat
  BY <1>1, FS_Subset, FS_CardinalityType
<1>3. Cardinality(Holders) \in Nat
  BY FS_CardinalityType DEF Budget
<1> QED
  BY <1>2, <1>3, ExecutorAssumption DEF Budget, Used

LEMMA BudgetStep ==
    ASSUME ExecTypes, Admission, PendingExact, Budget, Next
    PROVE  Budget'
<1> USE DEF worker, authority, admission, completions, network, observed, Goto, Publish
<1>1. ASSUME NEW op \in Ops, RefuseAdmission(op) PROVE Budget'
  <2>1. Holders' = Holders /\ UNCHANGED localAdmissions
    BY <1>1 DEF Holders, Holding, ExecTypes, GoroutineTypes, RefuseAdmission
  <2>2. pendingAdmission' = Retained' /\ pendingAdmission' \subseteq pendingAdmission
    BY <1>1 DEF Budget, Retained, Holding, ExecTypes, GoroutineTypes, DraftTypes, RefuseAdmission
  <2> QED
    BY <2>1, <2>2, BudgetShrinks
<1>2. ASSUME NEW op \in Ops, WaitDispatchTurn(op) PROVE Budget'
  <2>1. Holders' = Holders /\ UNCHANGED localAdmissions
    BY <1>2 DEF Holders, Holding, ExecTypes, GoroutineTypes, WaitDispatchTurn
  <2>2. pendingAdmission' = Retained' /\ pendingAdmission' \subseteq pendingAdmission
    BY <1>2 DEF Budget, Retained, Holding, ExecTypes, GoroutineTypes, DraftTypes, WaitDispatchTurn
  <2> QED
    BY <2>1, <2>2, BudgetShrinks
<1>3. ASSUME NEW op \in Ops, Dispatch(op) PROVE Budget'
  <2>1. Holders' = Holders /\ UNCHANGED localAdmissions
    BY <1>3 DEF Holders, Holding, ExecTypes, GoroutineTypes, Dispatch
  <2>2. pendingAdmission' = Retained' /\ pendingAdmission' \subseteq pendingAdmission
    BY <1>3 DEF Budget, Retained, Holding, ExecTypes, GoroutineTypes, DraftTypes, Dispatch
  <2> QED
    BY <2>1, <2>2, BudgetShrinks
<1>4. ASSUME NEW op \in Ops, RefuseAdmitted(op) PROVE Budget'
  <2>1. Holders' = Holders /\ UNCHANGED localAdmissions
    BY <1>4 DEF Holders, Holding, ExecTypes, GoroutineTypes, RefuseAdmitted
  <2>2. pendingAdmission' = Retained' /\ pendingAdmission' \subseteq pendingAdmission
    BY <1>4 DEF Budget, Retained, Holding, ExecTypes, GoroutineTypes, DraftTypes, RefuseAdmitted
  <2> QED
    BY <2>1, <2>2, BudgetShrinks
<1>5. ASSUME NEW op \in Ops, SendOperation(op) PROVE Budget'
  <2>1. Holders' = Holders /\ UNCHANGED localAdmissions
    BY <1>5 DEF Holders, Holding, ExecTypes, GoroutineTypes, SendOperation
  <2>2. pendingAdmission' = Retained' /\ pendingAdmission' \subseteq pendingAdmission
    BY <1>5 DEF Budget, Retained, Holding, ExecTypes, GoroutineTypes, DraftTypes, SendOperation
  <2> QED
    BY <2>1, <2>2, BudgetShrinks
<1>6. ASSUME NEW op \in Ops, FailPending(op) PROVE Budget'
  <2>1. Holders' = Holders /\ UNCHANGED localAdmissions
    BY <1>6 DEF Holders, Holding, ExecTypes, GoroutineTypes, FailPending
  <2>2. pendingAdmission' = Retained' /\ pendingAdmission' \subseteq pendingAdmission
    BY <1>6 DEF Budget, Retained, Holding, ExecTypes, GoroutineTypes, DraftTypes, FailPending
  <2> QED
    BY <2>1, <2>2, BudgetShrinks
<1>7. ASSUME NEW op \in Ops, FinishAdmission(op) PROVE Budget'
  <2>1. Holders' = Holders \ {op} /\ op \in Holders /\ localAdmissions' = localAdmissions - 1
    BY <1>7 DEF Holders, Holding, ExecTypes, GoroutineTypes, FinishAdmission
  <2>2. pendingAdmission' = pendingAdmission \cup Share(op)
    BY <1>7 DEF FinishAdmission
  <2>3. Share(op) \subseteq {op} /\ (op \in Share(op) <=> op \in pending)
    BY <1>7 DEF FinishAdmission, Share, PendingExact, PastSend
  <2>4. Retained' = Retained \cup Share(op)
    BY <1>7, <2>3 DEF Retained, Holding, ExecTypes, GoroutineTypes, DraftTypes, FinishAdmission
  <2>5. IsFiniteSet(Holders') /\ Cardinality(Holders') = Cardinality(Holders) - 1
    BY <2>1, FS_RemoveElement DEF Budget
  <2>6. IsFiniteSet(pendingAdmission) /\ Cardinality(pendingAdmission) \in Nat /\ Cardinality(Holders) \in Nat
    BY FS_CardinalityType, FS_Subset DEF Budget, Retained, PendingExact, ListsSet
  <2>7. Cardinality(pendingAdmission') \in {Cardinality(pendingAdmission), Cardinality(pendingAdmission) + 1}
    <3>1. pendingAdmission' = pendingAdmission \/ pendingAdmission' = pendingAdmission \cup {op}
      BY <2>2, <2>3
    <3> QED
      BY <2>6, <3>1, FS_AddElement
  <2> QED
    BY <2>1, <2>2, <2>4, <2>5, <2>6, <2>7, ExecutorAssumption DEF Budget, Used
<1>8. ASSUME NEW op \in Ops, Await(op) PROVE Budget'
  <2>1. Holders' = Holders /\ UNCHANGED localAdmissions
    BY <1>8 DEF Holders, Holding, ExecTypes, GoroutineTypes, Await
  <2>2. pendingAdmission' = Retained' /\ pendingAdmission' \subseteq pendingAdmission
    BY <1>8 DEF Budget, Retained, Holding, ExecTypes, GoroutineTypes, DraftTypes, Await
  <2> QED
    BY <2>1, <2>2, BudgetShrinks
<1>9. ASSUME NEW op \in Ops, RecordCompletion(op) PROVE Budget'
  <2>1. Holders' = Holders /\ UNCHANGED localAdmissions
    BY <1>9 DEF Holders, Holding, ExecTypes, GoroutineTypes, RecordCompletion, AfterRecord
  <2>2. pendingAdmission' = Retained' /\ pendingAdmission' \subseteq pendingAdmission
    BY <1>9
       DEF Budget, Retained, Holding, ExecTypes, GoroutineTypes, DraftTypes, RecordCompletion, AfterRecord
  <2> QED
    BY <2>1, <2>2, BudgetShrinks
<1>10. ASSUME NEW op \in Ops, DrainCompletions(op) PROVE Budget'
  <2>1. Holders' = Holders /\ UNCHANGED localAdmissions
    BY <1>10 DEF Holders, Holding, ExecTypes, GoroutineTypes, DrainCompletions, AfterRecord
  <2>2. pendingAdmission' = Retained' /\ pendingAdmission' \subseteq pendingAdmission
    BY <1>10
       DEF Budget, Retained, Holding, ExecTypes, GoroutineTypes, DraftTypes, DrainCompletions, AfterRecord
  <2> QED
    BY <2>1, <2>2, BudgetShrinks
<1>11. ASSUME NEW op \in Ops, Call(op) PROVE Budget'
  <2>1. Holders' = Holders /\ UNCHANGED localAdmissions
    BY <1>11 DEF Holders, Holding, ExecTypes, GoroutineTypes, Call
  <2>2. pendingAdmission' = Retained' /\ pendingAdmission' \subseteq pendingAdmission
    BY <1>11 DEF Budget, Retained, Holding, ExecTypes, GoroutineTypes, DraftTypes, Call
  <2> QED
    BY <2>1, <2>2, BudgetShrinks
<1>12. ASSUME NEW op \in Ops, DismissConflict(op) PROVE Budget'
  <2>1. Holders' = Holders /\ UNCHANGED localAdmissions
    BY <1>12 DEF Holders, Holding, ExecTypes, GoroutineTypes, DismissConflict
  <2>2. pendingAdmission' = Retained' /\ pendingAdmission' \subseteq pendingAdmission
    BY <1>12 DEF Budget, Retained, Holding, ExecTypes, GoroutineTypes, DraftTypes, DismissConflict
  <2> QED
    BY <2>1, <2>2, BudgetShrinks
<1>13. ASSUME NEW op \in Ops, BuildConflictRebuild(op) PROVE Budget'
  <2>1. Holders' = Holders /\ UNCHANGED localAdmissions
    BY <1>13 DEF Holders, Holding, ExecTypes, GoroutineTypes, BuildConflictRebuild
  <2>2. pendingAdmission' = Retained' /\ pendingAdmission' \subseteq pendingAdmission
    BY <1>13 DEF Budget, Retained, Holding, ExecTypes, GoroutineTypes, DraftTypes, BuildConflictRebuild
  <2> QED
    BY <2>1, <2>2, BudgetShrinks
<1>14. ASSUME NEW op \in Ops, Unclaim(op) PROVE Budget'
  <2>1. Holders' = Holders /\ UNCHANGED localAdmissions
    BY <1>14 DEF Holders, Holding, ExecTypes, GoroutineTypes, Unclaim
  <2>2. pendingAdmission' = Retained' /\ pendingAdmission' \subseteq pendingAdmission
    BY <1>14 DEF Budget, Retained, Holding, ExecTypes, GoroutineTypes, DraftTypes, Unclaim
  <2> QED
    BY <2>1, <2>2, BudgetShrinks
<1>15. ASSUME NEW op \in Ops, ReserveAdmission(op) PROVE Budget'
  <2>1. CASE closed \/ Full
    <3>1. Holders' = Holders /\ UNCHANGED localAdmissions
      BY <1>15, <2>1 DEF Holders, Holding, ExecTypes, GoroutineTypes, ReserveAdmission
    <3>2. pendingAdmission' = Retained' /\ pendingAdmission' \subseteq pendingAdmission
      BY <1>15, <2>1 DEF Budget, Retained, Holding, ExecTypes, GoroutineTypes, DraftTypes, ReserveAdmission
    <3> QED
      BY <3>1, <3>2, BudgetShrinks
  <2>2. CASE ~(closed \/ Full)
    <3>1. Holders' = Holders \cup {op} /\ op \notin Holders /\ localAdmissions' = localAdmissions + 1
      BY <1>15, <2>2 DEF Holders, Holding, ExecTypes, GoroutineTypes, ReserveAdmission
    <3>2. UNCHANGED pendingAdmission /\ Retained' = Retained
      BY <1>15, <2>2
         DEF Retained, PendingExact, PastSend, Holding, ExecTypes, GoroutineTypes, DraftTypes,
             ReserveAdmission
    <3>3. IsFiniteSet(Holders') /\ Cardinality(Holders') = Cardinality(Holders) + 1
      BY <3>1, FS_AddElement DEF Budget
    <3>4. Cardinality(Holders) \in Nat /\ Cardinality(pendingAdmission) \in Nat
      BY FS_CardinalityType, FS_Subset DEF Budget, Retained, PendingExact, ListsSet
    <3>5. ~Full
      BY <2>2
    <3> QED
      BY <3>1, <3>2, <3>3, <3>4, <3>5, ExecutorAssumption DEF Budget, Used, Full
  <2> QED
    BY <2>1, <2>2
<1>16. ASSUME NEW op \in Ops, DiscardConflict(op) PROVE Budget'
  <2>1. Holders' = Holders /\ UNCHANGED localAdmissions
    BY <1>16 DEF Holders, Holding, ExecTypes, GoroutineTypes, DiscardConflict
  <2>2. pendingAdmission' = Retained' /\ pendingAdmission' \subseteq pendingAdmission
    BY <1>16 DEF Budget, Retained, Holding, ExecTypes, GoroutineTypes, DraftTypes, DiscardConflict
  <2> QED
    BY <2>1, <2>2, BudgetShrinks
<1>17. ASSUME NEW op \in Ops, NEW rebuilt \in Rebuilds, RebuildConflict(op, rebuilt) PROVE Budget'
  <2>1. Holders' = Holders /\ UNCHANGED localAdmissions
    BY <1>17 DEF Holders, Holding, ExecTypes, GoroutineTypes, RebuildConflict
  <2>2. pendingAdmission' = Retained' /\ pendingAdmission' \subseteq pendingAdmission
    BY <1>17 DEF Budget, Retained, Holding, ExecTypes, GoroutineTypes, DraftTypes, RebuildConflict
  <2> QED
    BY <2>1, <2>2, BudgetShrinks
<1>18. CASE Terminate
  <2>1. Holders' = Holders /\ UNCHANGED localAdmissions
    BY <1>18 DEF Holders, Holding, ExecTypes, GoroutineTypes, Terminate, ClearPending
  <2>2. pendingAdmission' = Retained' /\ pendingAdmission' \subseteq pendingAdmission
    BY <1>18 DEF Budget, Retained, Holding, ExecTypes, GoroutineTypes, DraftTypes, Terminate, ClearPending
  <2> QED
    BY <2>1, <2>2, BudgetShrinks
<1>19. CASE Suspend
  <2>1. Holders' = Holders /\ UNCHANGED localAdmissions
    BY <1>19 DEF Holders, Holding, ExecTypes, GoroutineTypes, Suspend, ClearPending
  <2>2. pendingAdmission' = Retained' /\ pendingAdmission' \subseteq pendingAdmission
    BY <1>19 DEF Budget, Retained, Holding, ExecTypes, GoroutineTypes, DraftTypes, Suspend, ClearPending
  <2> QED
    BY <2>1, <2>2, BudgetShrinks
<1>20. CASE Resume
  <2>1. Holders' = Holders /\ UNCHANGED localAdmissions
    BY <1>20 DEF Holders, Holding, ExecTypes, GoroutineTypes, Resume
  <2>2. pendingAdmission' = Retained' /\ pendingAdmission' \subseteq pendingAdmission
    BY <1>20 DEF Budget, Retained, Holding, ExecTypes, GoroutineTypes, DraftTypes, Resume
  <2> QED
    BY <2>1, <2>2, BudgetShrinks
<1>21. CASE ReplaceAcknowledgedSnapshot
  <2>1. Holders' = Holders /\ UNCHANGED localAdmissions
    BY <1>21 DEF Holders, Holding, ExecTypes, GoroutineTypes, ReplaceAcknowledgedSnapshot
  <2>2. pendingAdmission' = Retained' /\ pendingAdmission' \subseteq pendingAdmission
    BY <1>21
       DEF Budget, Retained, Holding, ExecTypes, GoroutineTypes, DraftTypes, ReplaceAcknowledgedSnapshot
  <2> QED
    BY <2>1, <2>2, BudgetShrinks
<1>22. CASE ReceiveAccepted
  <2> DEFINE o == Head(down).op
  <2>1. Holders' = Holders /\ UNCHANGED localAdmissions
    BY <1>22 DEF ReceiveAccepted, Holders
  <2>2. \/ UNCHANGED <<pending, pendingAdmission>>
        \/ pending' = pending \ {o} /\ pendingAdmission' = pendingAdmission \ {o}
    BY <1>22 DEF ReceiveAccepted, Resolve
  <2>3. UNCHANGED pc
    BY <1>22 DEF ReceiveAccepted
  <2> QED
    BY <2>1, <2>2, <2>3, BudgetShrinks DEF Budget, Retained
<1>23. CASE ReceiveRejected
  <2> DEFINE o == Head(down).op
  <2>1. Holders' = Holders /\ UNCHANGED localAdmissions
    BY <1>23 DEF ReceiveRejected, Holders
  <2>2. \/ UNCHANGED <<pending, pendingAdmission>>
        \/ pending' = pending \ {o} /\ pendingAdmission' = pendingAdmission \ {o}
        \/ pending' = {} /\ pendingAdmission' = pendingAdmission \ pending
    BY <1>23 DEF ReceiveRejected, Resolve, ClearPending
  <2>3. UNCHANGED pc
    BY <1>23 DEF ReceiveRejected
  <2> QED
    BY <2>1, <2>2, <2>3, BudgetShrinks DEF Budget, Retained
<1>24. CASE ServerTake
  <2>1. Holders' = Holders /\ UNCHANGED localAdmissions
    BY <1>24 DEF Holders, Holding, ExecTypes, GoroutineTypes, ServerTake
  <2>2. pendingAdmission' = Retained' /\ pendingAdmission' \subseteq pendingAdmission
    BY <1>24 DEF Budget, Retained, Holding, ExecTypes, GoroutineTypes, DraftTypes, ServerTake
  <2> QED
    BY <2>1, <2>2, BudgetShrinks
<1>25. CASE Break
  <2>1. Holders' = Holders /\ UNCHANGED localAdmissions
    BY <1>25 DEF Holders, Holding, ExecTypes, GoroutineTypes, Break
  <2>2. pendingAdmission' = Retained' /\ pendingAdmission' \subseteq pendingAdmission
    BY <1>25 DEF Budget, Retained, Holding, ExecTypes, GoroutineTypes, DraftTypes, Break
  <2> QED
    BY <2>1, <2>2, BudgetShrinks
<1> QED
  BY <1>1, <1>2, <1>3, <1>4, <1>5, <1>6, <1>7, <1>8, <1>9, <1>10, <1>11, <1>12, <1>13,
     <1>14, <1>15, <1>16, <1>17, <1>18, <1>19, <1>20, <1>21, <1>22, <1>23, <1>24, <1>25
     DEF Next, Step, User, Connection

-----------------------------------------------------------------------------------
(* No intent is lost. *)
Drafted == {d.op : d \in drafts}

Idle(op) == pc[op] \in {"new", "build", "reserve", "refused", "drop", "dropped"}

BeforeTurn(op) == pc[op] \in Waiting \cup {"refuse"} /\ ~Interrupted(op)

Somewhere == pending \cup Drafted \cup accepted \cup discarded

IntentInv == \A op \in Ops : Idle(op) \/ BeforeTurn(op) \/ op \in Somewhere

LEMMA IntentForm ==
    ASSUME PendingExact
    PROVE  IntentKept <=> IntentInv
<1>1. Projected = pending
  BY ProjectedElements DEF PendingExact, ListsSet
<1>2. \A op \in Ops : DraftOf(op) # {} <=> op \in Drafted
  BY DEF DraftOf, Drafted
<1> QED
  BY <1>1, <1>2 DEF IntentKept, IntentInv, Idle, BeforeTurn, Waiting, Somewhere

(* What retaining an edit, and keeping the ones an interruption finds, adds to *)
(* the drafts.                                                                 *)
LEMMA RetainedConflict ==
    ASSUME NEW op, NEW code, NEW kept
    PROVE  /\ kept \subseteq RetainConflict(op, code, kept)
           /\ \E d \in RetainConflict(op, code, kept) : d.op = op
           /\ \A d \in RetainConflict(op, code, kept) : d \in kept \/ (d.op = op /\ d.code = code)
<1> DEFINE new == [op |-> op, code |-> code]
<1>1. new.op = op /\ new.code = code
  OBVIOUS
<1> HIDE DEF new
<1>2. RetainConflict(op, code, kept) = IF \E d \in kept : d.op = op THEN kept ELSE kept \cup {new}
  BY DEF RetainConflict, new
<1> QED
  BY <1>1, <1>2

LEMMA Retaining ==
    ASSUME NEW op
    PROVE  /\ drafts \subseteq RetainUnsent(op)
           /\ op \in accepted \/ \E d \in RetainUnsent(op) : d.op = op
           /\ \A d \in RetainUnsent(op) :
                d \in drafts \/ (d.op = op /\ op \notin accepted /\ d.code = "submission_failed")
BY RetainedConflict DEF RetainUnsent

LEMMA KeptDrafts ==
    ASSUME NEW code, NEW ops, NEW kept
    PROVE  /\ kept \subseteq Kept(code, ops, kept)
           /\ \A op \in ops : \E d \in Kept(code, ops, kept) : d.op = op
           /\ \A d \in Kept(code, ops, kept) :
                d \in kept \/ (d.op \in ops /\ d.code = code /\ ~ \E e \in kept : e.op = d.op)
<1> DEFINE new(o) == [op |-> o, code |-> code]
           missing == {o \in ops : ~ \E d \in kept : d.op = o}
<1>1. \A o : new(o).op = o /\ new(o).code = code
  OBVIOUS
<1> HIDE DEF new
<1>2. Kept(code, ops, kept) = kept \cup {new(o) : o \in missing}
  BY DEF Kept, new
<1> QED
  BY <1>1, <1>2

LEMMA Interrupting ==
    /\ drafts \subseteq Interruption
    /\ \A op \in Projected \cup (queued \ accepted) : \E d \in Interruption : d.op = op
    /\ \A d \in Interruption :
         \/ d \in drafts
         \/ d.op \in Projected /\ d.code = "delivery_unconfirmed"
         \/ d.op \in queued \ (accepted \cup Projected) /\ d.code = "submission_failed"
<1> DEFINE first == Kept("delivery_unconfirmed", Projected, drafts)
<1>1. /\ drafts \subseteq first
      /\ \A op \in Projected : \E d \in first : d.op = op
      /\ \A d \in first : d \in drafts \/ (d.op \in Projected /\ d.code = "delivery_unconfirmed")
  BY KeptDrafts
<1>2. /\ first \subseteq Interruption
      /\ \A op \in queued \ accepted : \E d \in Interruption : d.op = op
      /\ \A d \in Interruption :
           \/ d \in first
           \/ /\ d.op \in queued \ accepted /\ d.code = "submission_failed"
              /\ ~ \E e \in first : e.op = d.op
  BY KeptDrafts DEF Interruption
<1> HIDE DEF first
<1> QED
  BY <1>1, <1>2

LEMMA ClearKeepsIntent ==
    ASSUME ExecTypes, Admission, QueueExact, PendingExact, IntentInv, ClearPending,
           UNCHANGED <<pc, ticket, accepted, discarded>>
    PROVE  IntentInv'
<1>1. Projected = pending
  BY ProjectedElements DEF PendingExact, ListsSet
<1>2. Drafted \cup Projected \cup (queued \ accepted) \subseteq Drafted'
  BY Interrupting DEF ClearPending, Drafted
<1>3. Somewhere \cup queued \subseteq Somewhere'
  BY <1>1, <1>2 DEF Somewhere
<1>4. \A op \in Ops : BeforeTurn(op) => op \in queued
  BY DEF QueueExact, BeforeTurn, Holding, Waiting
<1> QED
  BY <1>3, <1>4 DEF IntentInv, Idle

LEMMA IntentStep ==
    ASSUME ExecTypes, Admission, QueueExact, PendingExact, IntentInv, Next
    PROVE  IntentInv'
<1> USE DEF worker, authority, admission, completions, network, observed, Goto, Publish
<1>1. ASSUME NEW op \in Ops, RefuseAdmission(op) PROVE IntentInv'
  <2>1. Somewhere \subseteq Somewhere' /\ op \in Somewhere'
    BY <1>1, Retaining DEF Somewhere, Drafted, RefuseAdmission
  <2> QED
    BY <1>1, <2>1
       DEF IntentInv, Idle, BeforeTurn, Waiting, Interrupted, ExecTypes, GoroutineTypes, RefuseAdmission
<1>2. ASSUME NEW op \in Ops, WaitDispatchTurn(op) PROVE IntentInv'
  <2>1. Somewhere \subseteq Somewhere'
    BY <1>2 DEF Somewhere, Drafted, WaitDispatchTurn
  <2> QED
    BY <1>2, <2>1
       DEF IntentInv, Idle, BeforeTurn, Waiting, Interrupted, ExecTypes, GoroutineTypes, WaitDispatchTurn
<1>3. ASSUME NEW op \in Ops, Dispatch(op) PROVE IntentInv'
  <2>1. Somewhere \subseteq Somewhere' /\ (pc'[op] = "send" => op \in Somewhere')
    BY <1>3, Retaining DEF Somewhere, Drafted, Dispatch, ExecTypes, GoroutineTypes
  <2> QED
    BY <1>3, <2>1
       DEF IntentInv, Idle, BeforeTurn, Waiting, Interrupted, ExecTypes, GoroutineTypes, Dispatch,
           ExecTypes, GoroutineTypes
<1>4. ASSUME NEW op \in Ops, RefuseAdmitted(op) PROVE IntentInv'
  <2>1. Somewhere \subseteq Somewhere' /\ (op \in Somewhere' \/ Interrupted(op))
    BY <1>4, Retaining DEF Somewhere, Drafted, RefuseAdmitted
  <2> QED
    BY <1>4, <2>1
       DEF IntentInv, Idle, BeforeTurn, Waiting, Interrupted, ExecTypes, GoroutineTypes, RefuseAdmitted
<1>5. ASSUME NEW op \in Ops, SendOperation(op) PROVE IntentInv'
  <2>1. Somewhere \subseteq Somewhere'
    BY <1>5 DEF Somewhere, Drafted, SendOperation
  <2> QED
    BY <1>5, <2>1
       DEF IntentInv, Idle, BeforeTurn, Waiting, Interrupted, ExecTypes, GoroutineTypes, SendOperation
<1>6. ASSUME NEW op \in Ops, FailPending(op) PROVE IntentInv'
  <2>1. Somewhere \subseteq Somewhere'
    <3>1. CASE op \in pending
      <4>1. pending' = pending \ {op} /\ drafts' = RetainUnsent(op) /\ UNCHANGED <<accepted, discarded>>
        BY <1>6, <3>1 DEF FailPending
      <4>2. Drafted \subseteq Drafted' /\ op \in accepted \cup Drafted'
        BY <4>1, Retaining DEF Drafted
      <4> QED
        BY <4>1, <4>2 DEF Somewhere
    <3>2. CASE op \notin pending
      BY <1>6, <3>2 DEF Somewhere, Drafted, FailPending
    <3> QED
      BY <3>1, <3>2
  <2> QED
    BY <1>6, <2>1
       DEF IntentInv, Idle, BeforeTurn, Waiting, Interrupted, ExecTypes, GoroutineTypes, FailPending
<1>7. ASSUME NEW op \in Ops, FinishAdmission(op) PROVE IntentInv'
  <2>1. Somewhere \subseteq Somewhere'
    BY <1>7 DEF Somewhere, Drafted, FinishAdmission
  <2> QED
    BY <1>7, <2>1
       DEF IntentInv, Idle, BeforeTurn, Waiting, Interrupted, ExecTypes, GoroutineTypes, FinishAdmission
<1>8. ASSUME NEW op \in Ops, Await(op) PROVE IntentInv'
  <2>1. Somewhere \subseteq Somewhere'
    BY <1>8 DEF Somewhere, Drafted, Await
  <2> QED
    BY <1>8, <2>1 DEF IntentInv, Idle, BeforeTurn, Waiting, Interrupted, ExecTypes, GoroutineTypes, Await
<1>9. ASSUME NEW op \in Ops, RecordCompletion(op) PROVE IntentInv'
  <2>1. Somewhere \subseteq Somewhere'
    BY <1>9 DEF Somewhere, Drafted, RecordCompletion, AfterRecord
  <2> QED
    BY <1>9, <2>1
       DEF IntentInv, Idle, BeforeTurn, Waiting, Interrupted, ExecTypes, GoroutineTypes, RecordCompletion,
           AfterRecord
<1>10. ASSUME NEW op \in Ops, DrainCompletions(op) PROVE IntentInv'
  <2>1. Somewhere \subseteq Somewhere'
    BY <1>10 DEF Somewhere, Drafted, DrainCompletions, AfterRecord
  <2> QED
    BY <1>10, <2>1
       DEF IntentInv, Idle, BeforeTurn, Waiting, Interrupted, ExecTypes, GoroutineTypes, DrainCompletions,
           AfterRecord
<1>11. ASSUME NEW op \in Ops, Call(op) PROVE IntentInv'
  <2>1. Somewhere \subseteq Somewhere'
    BY <1>11 DEF Somewhere, Drafted, Call
  <2> QED
    BY <1>11, <2>1 DEF IntentInv, Idle, BeforeTurn, Waiting, Interrupted, ExecTypes, GoroutineTypes, Call
<1>12. ASSUME NEW op \in Ops, DismissConflict(op) PROVE IntentInv'
  <2>1. Somewhere \subseteq Somewhere'
    <3> DEFINE o == origin[calling[op]]
    <3>1. drafts' = drafts \ DraftOf(o) /\ discarded' = discarded \cup {o} /\ UNCHANGED <<accepted, pending>>
      BY <1>12 DEF DismissConflict
    <3> QED
      BY <3>1 DEF Somewhere, Drafted, DraftOf
  <2> QED
    BY <1>12, <2>1
       DEF IntentInv, Idle, BeforeTurn, Waiting, Interrupted, ExecTypes, GoroutineTypes, DismissConflict
<1>13. ASSUME NEW op \in Ops, BuildConflictRebuild(op) PROVE IntentInv'
  <2>1. Somewhere \subseteq Somewhere'
    BY <1>13 DEF Somewhere, Drafted, BuildConflictRebuild
  <2> QED
    BY <1>13, <2>1
       DEF IntentInv, Idle, BeforeTurn, Waiting, Interrupted, ExecTypes, GoroutineTypes,
           BuildConflictRebuild
<1>14. ASSUME NEW op \in Ops, Unclaim(op) PROVE IntentInv'
  <2>1. Somewhere \subseteq Somewhere'
    BY <1>14 DEF Somewhere, Drafted, Unclaim
  <2> QED
    BY <1>14, <2>1 DEF IntentInv, Idle, BeforeTurn, Waiting, Interrupted, ExecTypes, GoroutineTypes, Unclaim
<1>15. ASSUME NEW op \in Ops, ReserveAdmission(op) PROVE IntentInv'
  <2>1. Somewhere \subseteq Somewhere'
    BY <1>15 DEF Somewhere, Drafted, ReserveAdmission
  <2> QED
    BY <1>15, <2>1
       DEF IntentInv, Idle, BeforeTurn, Waiting, Interrupted, ExecTypes, GoroutineTypes, AdmissionTypes,
           ReserveAdmission
<1>16. ASSUME NEW op \in Ops, DiscardConflict(op) PROVE IntentInv'
  <2>1. Somewhere \subseteq Somewhere'
    <3>1. drafts' = drafts \ DraftOf(op) /\ discarded' = discarded \cup {op} /\ UNCHANGED <<accepted, pending>>
      BY <1>16 DEF DiscardConflict
    <3> QED
      BY <3>1 DEF Somewhere, Drafted, DraftOf
  <2> QED
    BY <1>16, <2>1
       DEF IntentInv, Idle, BeforeTurn, Waiting, Interrupted, ExecTypes, GoroutineTypes, DiscardConflict
<1>17. ASSUME NEW op \in Ops, NEW rebuilt \in Rebuilds, RebuildConflict(op, rebuilt) PROVE IntentInv'
  <2>1. Somewhere \subseteq Somewhere'
    BY <1>17 DEF Somewhere, Drafted, RebuildConflict
  <2> QED
    BY <1>17, <2>1
       DEF IntentInv, Idle, BeforeTurn, Waiting, Interrupted, ExecTypes, GoroutineTypes, RebuildConflict
<1>18. CASE Terminate
  BY <1>18, ClearKeepsIntent DEF Terminate
<1>19. CASE Suspend
  BY <1>19, ClearKeepsIntent DEF Suspend
<1>20. CASE Resume
  <2>1. Somewhere \subseteq Somewhere'
    BY <1>20 DEF Somewhere, Drafted, Resume
  <2> QED
    BY <1>20, <2>1 DEF IntentInv, Idle, BeforeTurn, Waiting, Interrupted, ExecTypes, GoroutineTypes, Resume
<1>21. CASE ReplaceAcknowledgedSnapshot
  <2>1. Somewhere \subseteq Somewhere'
    BY <1>21 DEF Somewhere, Drafted, ReplaceAcknowledgedSnapshot
  <2> QED
    BY <1>21, <2>1
       DEF IntentInv, Idle, BeforeTurn, Waiting, Interrupted, ExecTypes, GoroutineTypes,
           ReplaceAcknowledgedSnapshot
<1>22. CASE ReceiveAccepted
  <2> DEFINE o == Head(down).op
  <2>1. UNCHANGED <<pc, ticket, interruptedBefore, discarded>>
    BY <1>22 DEF ReceiveAccepted
  <2>2. Somewhere \subseteq Somewhere'
    <3>1. CASE o \in accepted
      BY <1>22, <3>1 DEF Somewhere, Drafted, ReceiveAccepted
    <3>2. CASE o \notin accepted
      <4>1. accepted' = accepted \cup {o} /\ pending' = pending \ {o} /\ drafts' = drafts \ Unconfirmed(o)
        BY <1>22, <3>2 DEF ReceiveAccepted, Resolve
      <4>2. Drafted \subseteq Drafted' \cup {o}
        BY <4>1 DEF Drafted, Unconfirmed
      <4> QED
        BY <2>1, <4>1, <4>2 DEF Somewhere
    <3> QED
      BY <3>1, <3>2
  <2> QED
    BY <2>1, <2>2 DEF IntentInv, Idle, BeforeTurn, Interrupted
<1>23. CASE ReceiveRejected
  <2> DEFINE o == Head(down).op
  <2>1. CASE o \in Projected
    <3>1. /\ UNCHANGED <<pc, ticket, interruptedBefore, discarded, accepted>>
          /\ drafts' = RetainConflict(o, "rejected", drafts) /\ pending' = pending \ {o}
      BY <1>23, <2>1 DEF ReceiveRejected, Resolve
    <3>2. o \in Ops
      BY <2>1, ProjectedElements, ElementsType DEF ExecTypes, DraftTypes
    <3>3. Drafted \cup {o} \subseteq Drafted'
      BY <3>1, <3>2, RetainedConflict DEF Drafted
    <3> QED
      BY <3>1, <3>3 DEF IntentInv, Idle, BeforeTurn, Interrupted, Somewhere
  <2>2. CASE o \notin Projected /\ status = "live"
    BY <1>23, <2>2, ClearKeepsIntent DEF ReceiveRejected
  <2>3. CASE o \notin Projected /\ status # "live"
    BY <1>23, <2>3 DEF ReceiveRejected, IntentInv, Idle, BeforeTurn, Interrupted, Somewhere, Drafted
  <2> QED
    BY <2>1, <2>2, <2>3
<1>24. CASE ServerTake
  <2>1. Somewhere \subseteq Somewhere'
    BY <1>24 DEF Somewhere, Drafted, ServerTake
  <2> QED
    BY <1>24, <2>1
       DEF IntentInv, Idle, BeforeTurn, Waiting, Interrupted, ExecTypes, GoroutineTypes, ServerTake
<1>25. CASE Break
  <2>1. Somewhere \subseteq Somewhere'
    BY <1>25 DEF Somewhere, Drafted, Break
  <2> QED
    BY <1>25, <2>1 DEF IntentInv, Idle, BeforeTurn, Waiting, Interrupted, ExecTypes, GoroutineTypes, Break
<1> QED
  BY <1>1, <1>2, <1>3, <1>4, <1>5, <1>6, <1>7, <1>8, <1>9, <1>10, <1>11, <1>12, <1>13,
     <1>14, <1>15, <1>16, <1>17, <1>18, <1>19, <1>20, <1>21, <1>22, <1>23, <1>24, <1>25
     DEF Next, Step, User, Connection

-----------------------------------------------------------------------------------
(* Callbacks come in the order of the tickets. *)
LEMMA OneDrainsStep ==
    ASSUME ExecTypes, OneDrains, Next
    PROVE  OneDrains'
<1> USE DEF worker, authority, admission, completions, network, observed, Goto, Publish
<1>1. ASSUME NEW op \in Ops, RefuseAdmission(op) PROVE OneDrains'
  BY <1>1 DEF OneDrains, Draining, ExecTypes, GoroutineTypes, RefuseAdmission
<1>2. ASSUME NEW op \in Ops, WaitDispatchTurn(op) PROVE OneDrains'
  BY <1>2 DEF OneDrains, Draining, ExecTypes, GoroutineTypes, WaitDispatchTurn
<1>3. ASSUME NEW op \in Ops, Dispatch(op) PROVE OneDrains'
  BY <1>3 DEF OneDrains, Draining, ExecTypes, GoroutineTypes, Dispatch
<1>4. ASSUME NEW op \in Ops, RefuseAdmitted(op) PROVE OneDrains'
  BY <1>4 DEF OneDrains, Draining, ExecTypes, GoroutineTypes, RefuseAdmitted
<1>5. ASSUME NEW op \in Ops, SendOperation(op) PROVE OneDrains'
  BY <1>5 DEF OneDrains, Draining, ExecTypes, GoroutineTypes, SendOperation
<1>6. ASSUME NEW op \in Ops, FailPending(op) PROVE OneDrains'
  BY <1>6 DEF OneDrains, Draining, ExecTypes, GoroutineTypes, FailPending
<1>7. ASSUME NEW op \in Ops, FinishAdmission(op) PROVE OneDrains'
  BY <1>7 DEF OneDrains, Draining, ExecTypes, GoroutineTypes, FinishAdmission
<1>8. ASSUME NEW op \in Ops, Await(op) PROVE OneDrains'
  BY <1>8 DEF OneDrains, Draining, ExecTypes, GoroutineTypes, Await
<1>9. ASSUME NEW op \in Ops, RecordCompletion(op) PROVE OneDrains'
  BY <1>9 DEF AfterRecord, OneDrains, Draining, ExecTypes, GoroutineTypes, RecordCompletion
<1>10. ASSUME NEW op \in Ops, DrainCompletions(op) PROVE OneDrains'
  BY <1>10 DEF AfterRecord, OneDrains, Draining, ExecTypes, GoroutineTypes, DrainCompletions
<1>11. ASSUME NEW op \in Ops, Call(op) PROVE OneDrains'
  BY <1>11 DEF OneDrains, Draining, ExecTypes, GoroutineTypes, Call
<1>12. ASSUME NEW op \in Ops, DismissConflict(op) PROVE OneDrains'
  BY <1>12 DEF OneDrains, Draining, ExecTypes, GoroutineTypes, DismissConflict
<1>13. ASSUME NEW op \in Ops, BuildConflictRebuild(op) PROVE OneDrains'
  BY <1>13 DEF OneDrains, Draining, ExecTypes, GoroutineTypes, BuildConflictRebuild
<1>14. ASSUME NEW op \in Ops, Unclaim(op) PROVE OneDrains'
  BY <1>14 DEF OneDrains, Draining, ExecTypes, GoroutineTypes, Unclaim
<1>15. ASSUME NEW op \in Ops, ReserveAdmission(op) PROVE OneDrains'
  BY <1>15 DEF OneDrains, Draining, ExecTypes, GoroutineTypes, ReserveAdmission
<1>16. ASSUME NEW op \in Ops, DiscardConflict(op) PROVE OneDrains'
  BY <1>16 DEF OneDrains, Draining, ExecTypes, GoroutineTypes, DiscardConflict
<1>17. ASSUME NEW op \in Ops, NEW rebuilt \in Rebuilds, RebuildConflict(op, rebuilt) PROVE OneDrains'
  BY <1>17 DEF OneDrains, Draining, ExecTypes, GoroutineTypes, RebuildConflict
<1>18. CASE Terminate
  BY <1>18 DEF OneDrains, Draining, ExecTypes, GoroutineTypes, Terminate
<1>19. CASE Suspend
  BY <1>19 DEF OneDrains, Draining, ExecTypes, GoroutineTypes, Suspend
<1>20. CASE Resume
  BY <1>20 DEF OneDrains, Draining, ExecTypes, GoroutineTypes, Resume
<1>21. CASE ReplaceAcknowledgedSnapshot
  BY <1>21 DEF OneDrains, Draining, ExecTypes, GoroutineTypes, ReplaceAcknowledgedSnapshot
<1>22. CASE ReceiveAccepted
  BY <1>22 DEF OneDrains, Draining, ExecTypes, GoroutineTypes, ReceiveAccepted
<1>23. CASE ReceiveRejected
  BY <1>23 DEF OneDrains, Draining, ExecTypes, GoroutineTypes, ReceiveRejected
<1>24. CASE ServerTake
  BY <1>24 DEF OneDrains, Draining, ExecTypes, GoroutineTypes, ServerTake
<1>25. CASE Break
  BY <1>25 DEF OneDrains, Draining, ExecTypes, GoroutineTypes, Break
<1> QED
  BY <1>1, <1>2, <1>3, <1>4, <1>5, <1>6, <1>7, <1>8, <1>9, <1>10, <1>11, <1>12, <1>13,
     <1>14, <1>15, <1>16, <1>17, <1>18, <1>19, <1>20, <1>21, <1>22, <1>23, <1>24, <1>25
     DEF Next, Step, User, Connection

LEMMA CallbacksUndisturbed ==
    ASSUME Callbacks, UNCHANGED <<calling, called, completion, completionTurn, ticket, admitted>>,
           \A op \in Ops : pc'[op] = "call" => pc[op] = "call"
    PROVE  Callbacks'
BY DEF Callbacks, CallbacksInOrder

LEMMA CallbacksStep ==
    ASSUME ExecTypes, Admission, OneDrains, Callbacks, Next
    PROVE  Callbacks'
<1> USE DEF worker, authority, admission, completions, network, observed, Goto, Publish
<1>1. ASSUME NEW op \in Ops, RefuseAdmission(op) PROVE Callbacks'
  <2>1. UNCHANGED <<calling, called, completion, completionTurn, ticket, admitted>>
    BY <1>1 DEF RefuseAdmission
  <2>2. \A o \in Ops : pc'[o] = "call" => pc[o] = "call"
    BY <1>1 DEF RefuseAdmission, ExecTypes, GoroutineTypes
  <2> QED
    BY <2>1, <2>2, CallbacksUndisturbed
<1>2. ASSUME NEW op \in Ops, WaitDispatchTurn(op) PROVE Callbacks'
  <2>1. UNCHANGED <<calling, called, completion, completionTurn, ticket, admitted>>
    BY <1>2 DEF WaitDispatchTurn
  <2>2. \A o \in Ops : pc'[o] = "call" => pc[o] = "call"
    BY <1>2 DEF WaitDispatchTurn, ExecTypes, GoroutineTypes
  <2> QED
    BY <2>1, <2>2, CallbacksUndisturbed
<1>3. ASSUME NEW op \in Ops, Dispatch(op) PROVE Callbacks'
  <2>1. UNCHANGED <<calling, called, completion, completionTurn, ticket, admitted>>
    BY <1>3 DEF Dispatch
  <2>2. \A o \in Ops : pc'[o] = "call" => pc[o] = "call"
    BY <1>3 DEF Dispatch, ExecTypes, GoroutineTypes
  <2> QED
    BY <2>1, <2>2, CallbacksUndisturbed
<1>4. ASSUME NEW op \in Ops, RefuseAdmitted(op) PROVE Callbacks'
  <2>1. UNCHANGED <<calling, called, completion, completionTurn, ticket, admitted>>
    BY <1>4 DEF RefuseAdmitted
  <2>2. \A o \in Ops : pc'[o] = "call" => pc[o] = "call"
    BY <1>4 DEF RefuseAdmitted, ExecTypes, GoroutineTypes
  <2> QED
    BY <2>1, <2>2, CallbacksUndisturbed
<1>5. ASSUME NEW op \in Ops, SendOperation(op) PROVE Callbacks'
  <2>1. UNCHANGED <<calling, called, completion, completionTurn, ticket, admitted>>
    BY <1>5 DEF SendOperation
  <2>2. \A o \in Ops : pc'[o] = "call" => pc[o] = "call"
    BY <1>5 DEF SendOperation, ExecTypes, GoroutineTypes
  <2> QED
    BY <2>1, <2>2, CallbacksUndisturbed
<1>6. ASSUME NEW op \in Ops, FailPending(op) PROVE Callbacks'
  <2>1. UNCHANGED <<calling, called, completion, completionTurn, ticket, admitted>>
    BY <1>6 DEF FailPending
  <2>2. \A o \in Ops : pc'[o] = "call" => pc[o] = "call"
    BY <1>6 DEF FailPending, ExecTypes, GoroutineTypes
  <2> QED
    BY <2>1, <2>2, CallbacksUndisturbed
<1>7. ASSUME NEW op \in Ops, FinishAdmission(op) PROVE Callbacks'
  <2>1. UNCHANGED <<calling, called, completion, completionTurn, ticket, admitted>>
    BY <1>7 DEF FinishAdmission
  <2>2. \A o \in Ops : pc'[o] = "call" => pc[o] = "call"
    BY <1>7 DEF FinishAdmission, ExecTypes, GoroutineTypes
  <2> QED
    BY <2>1, <2>2, CallbacksUndisturbed
<1>8. ASSUME NEW op \in Ops, Await(op) PROVE Callbacks'
  <2>1. UNCHANGED <<calling, called, completion, completionTurn, ticket, admitted>>
    BY <1>8 DEF Await
  <2>2. \A o \in Ops : pc'[o] = "call" => pc[o] = "call"
    BY <1>8 DEF Await, ExecTypes, GoroutineTypes
  <2> QED
    BY <2>1, <2>2, CallbacksUndisturbed
<1>9. ASSUME NEW op \in Ops, RecordCompletion(op) PROVE Callbacks'
  <2>1. UNCHANGED <<calling, called, completionTurn, ticket, admitted>>
    BY <1>9 DEF RecordCompletion
  <2>2. \A o \in Ops : pc'[o] = "call" => pc[o] = "call"
    BY <1>9 DEF RecordCompletion, AfterRecord, ExecTypes, GoroutineTypes
  <2>3. completion' = completion \cup {ticket[op]} /\ admitted[op] # 0
    BY <1>9 DEF RecordCompletion, Admission, Unadmitted
  <2>4. \A t \in completion' : \E o \in Ops : admitted'[o] # 0 /\ ticket'[o] = t
    BY <2>1, <2>3 DEF Callbacks
  <2> QED
    BY <2>1, <2>2, <2>4 DEF Callbacks, CallbacksInOrder
<1>10. ASSUME NEW op \in Ops, DrainCompletions(op) PROVE Callbacks'
  <2>1. UNCHANGED <<called, ticket, admitted>>
    BY <1>10 DEF DrainCompletions
  <2>2. CASE completionTurn \notin completion
    <3>1. UNCHANGED <<calling, completion, completionTurn>>
      BY <1>10, <2>2 DEF DrainCompletions
    <3>2. \A o \in Ops : pc'[o] = "call" => pc[o] = "call"
      BY <1>10, <2>2 DEF DrainCompletions, AfterRecord, ExecTypes, GoroutineTypes
    <3> QED
      BY <2>1, <3>1, <3>2, CallbacksUndisturbed
  <2>3. CASE completionTurn \in completion
    <3> DEFINE h == Holder(completionTurn)
    <3>1. h \in Ops /\ ticket[h] = completionTurn /\ admitted[h] # 0
      BY <2>3 DEF Callbacks, Holder
    <3>2. completion' \subseteq completion /\ completionTurn' = completionTurn + 1
      BY <1>10, <2>3 DEF DrainCompletions
    <3>3. calling' \in [Ops -> Ops \cup {None}]
      BY <1>10, <2>3, <3>1 DEF DrainCompletions, Callbacks
    <3>4. \A o \in Ops : pc'[o] = "call" => o = op /\ calling'[op] = h
      BY <1>10, <2>3 DEF DrainCompletions, Callbacks, OneDrains, Draining, ExecTypes, GoroutineTypes
    <3>5. completionTurn \in Nat /\ \A i \in 1..Len(called) : called[i] \in Ops /\ ticket[called[i]] \in Nat
      BY DEF Callbacks, ExecTypes, AdmissionTypes, GoroutineTypes
    <3> HIDE DEF h
    <3>6. \A i \in 1..Len(called)' : admitted'[called'[i]] # 0 /\ ticket'[called'[i]] < completionTurn'
      BY <2>1, <3>2, <3>5 DEF Callbacks
    <3>7. ASSUME NEW o \in Ops, pc'[o] = "call"
          PROVE  /\ calling'[o] \in Ops /\ admitted'[calling'[o]] # 0
                 /\ ticket'[calling'[o]] = completionTurn' - 1
                 /\ \A i \in 1..Len(called') : ticket'[called'[i]] < completionTurn' - 1
      BY <2>1, <3>1, <3>2, <3>4, <3>5, <3>7 DEF Callbacks
    <3> QED
      BY <2>1, <3>2, <3>3, <3>6, <3>7 DEF Callbacks, CallbacksInOrder
  <2> QED
    BY <2>2, <2>3
<1>11. ASSUME NEW op \in Ops, Call(op) PROVE Callbacks'
  <2> DEFINE c == calling[op]
  <2>1. UNCHANGED <<calling, completion, completionTurn, ticket, admitted>> /\ called' = Append(called, c)
    BY <1>11 DEF Call
  <2>2. /\ c \in Ops /\ admitted[c] # 0 /\ ticket[c] = completionTurn - 1
        /\ \A i \in 1..Len(called) : ticket[called[i]] < ticket[c]
    BY <1>11 DEF Call, Callbacks
  <2>3. \A o \in Ops : pc'[o] # "call"
    BY <1>11 DEF Call, OneDrains, Draining, ExecTypes, GoroutineTypes
  <2>4. completionTurn \in Nat
    BY DEF ExecTypes, AdmissionTypes
  <2> HIDE DEF c
  <2>5. called \in Seq(Ops)
    BY DEF Callbacks
  <2>6. /\ called' \in Seq(Ops) /\ Len(called') = Len(called) + 1 /\ Len(called) \in Nat
        /\ \A i \in 1..Len(called) : called'[i] = called[i]
        /\ called'[Len(called) + 1] = c
    BY <2>1, <2>2, <2>5
  <2>7. CallbacksInOrder'
    BY <2>1, <2>2, <2>6 DEF Callbacks, CallbacksInOrder
  <2>8. \A i \in 1..Len(called') : admitted'[called'[i]] # 0 /\ ticket'[called'[i]] < completionTurn'
    BY <2>1, <2>2, <2>4, <2>6 DEF Callbacks
  <2> QED
    BY <2>1, <2>3, <2>6, <2>7, <2>8 DEF Callbacks
<1>12. ASSUME NEW op \in Ops, DismissConflict(op) PROVE Callbacks'
  <2>1. UNCHANGED <<calling, called, completion, completionTurn, ticket, admitted>>
    BY <1>12 DEF DismissConflict
  <2>2. \A o \in Ops : pc'[o] = "call" => pc[o] = "call"
    BY <1>12 DEF DismissConflict, ExecTypes, GoroutineTypes
  <2> QED
    BY <2>1, <2>2, CallbacksUndisturbed
<1>13. ASSUME NEW op \in Ops, BuildConflictRebuild(op) PROVE Callbacks'
  <2>1. UNCHANGED <<calling, called, completion, completionTurn, ticket, admitted>>
    BY <1>13 DEF BuildConflictRebuild
  <2>2. \A o \in Ops : pc'[o] = "call" => pc[o] = "call"
    BY <1>13 DEF BuildConflictRebuild, ExecTypes, GoroutineTypes
  <2> QED
    BY <2>1, <2>2, CallbacksUndisturbed
<1>14. ASSUME NEW op \in Ops, Unclaim(op) PROVE Callbacks'
  <2>1. UNCHANGED <<calling, called, completion, completionTurn, ticket, admitted>>
    BY <1>14 DEF Unclaim
  <2>2. \A o \in Ops : pc'[o] = "call" => pc[o] = "call"
    BY <1>14 DEF Unclaim, ExecTypes, GoroutineTypes
  <2> QED
    BY <2>1, <2>2, CallbacksUndisturbed
<1>15. ASSUME NEW op \in Ops, ReserveAdmission(op) PROVE Callbacks'
  <2>1. UNCHANGED <<calling, called, completion, completionTurn>>
    BY <1>15 DEF ReserveAdmission
  <2>2. \A o \in Ops : pc'[o] = "call" => pc[o] = "call"
    BY <1>15 DEF ReserveAdmission, ExecTypes, GoroutineTypes
  <2>3. \A o \in Ops : admitted[o] # 0 => admitted'[o] = admitted[o] /\ ticket'[o] = ticket[o]
    BY <1>15 DEF ReserveAdmission, ExecTypes, GoroutineTypes, Admission, Unadmitted
  <2>4. \A i \in 1..Len(called) : called[i] \in Ops
    BY DEF Callbacks
  <2>5. \A t \in completion' : \E o \in Ops : admitted'[o] # 0 /\ ticket'[o] = t
    BY <2>1, <2>3 DEF Callbacks
  <2>6. \A i \in 1..Len(called) : admitted'[called[i]] # 0 /\ ticket'[called[i]] = ticket[called[i]]
    BY <2>3, <2>4 DEF Callbacks
  <2> QED
    BY <2>1, <2>2, <2>3, <2>4, <2>5, <2>6 DEF Callbacks, CallbacksInOrder
<1>16. ASSUME NEW op \in Ops, DiscardConflict(op) PROVE Callbacks'
  <2>1. UNCHANGED <<calling, called, completion, completionTurn, ticket, admitted>>
    BY <1>16 DEF DiscardConflict
  <2>2. \A o \in Ops : pc'[o] = "call" => pc[o] = "call"
    BY <1>16 DEF DiscardConflict, ExecTypes, GoroutineTypes
  <2> QED
    BY <2>1, <2>2, CallbacksUndisturbed
<1>17. ASSUME NEW op \in Ops, NEW rebuilt \in Rebuilds, RebuildConflict(op, rebuilt) PROVE Callbacks'
  <2>1. UNCHANGED <<calling, called, completion, completionTurn, ticket, admitted>>
    BY <1>17 DEF RebuildConflict
  <2>2. \A o \in Ops : pc'[o] = "call" => pc[o] = "call"
    BY <1>17 DEF RebuildConflict, ExecTypes, GoroutineTypes
  <2> QED
    BY <2>1, <2>2, CallbacksUndisturbed
<1>18. CASE Terminate
  <2>1. UNCHANGED <<calling, called, completion, completionTurn, ticket, admitted>>
    BY <1>18 DEF Terminate
  <2>2. \A o \in Ops : pc'[o] = "call" => pc[o] = "call"
    BY <1>18 DEF Terminate, ExecTypes, GoroutineTypes
  <2> QED
    BY <2>1, <2>2, CallbacksUndisturbed
<1>19. CASE Suspend
  <2>1. UNCHANGED <<calling, called, completion, completionTurn, ticket, admitted>>
    BY <1>19 DEF Suspend
  <2>2. \A o \in Ops : pc'[o] = "call" => pc[o] = "call"
    BY <1>19 DEF Suspend, ExecTypes, GoroutineTypes
  <2> QED
    BY <2>1, <2>2, CallbacksUndisturbed
<1>20. CASE Resume
  <2>1. UNCHANGED <<calling, called, completion, completionTurn, ticket, admitted>>
    BY <1>20 DEF Resume
  <2>2. \A o \in Ops : pc'[o] = "call" => pc[o] = "call"
    BY <1>20 DEF Resume, ExecTypes, GoroutineTypes
  <2> QED
    BY <2>1, <2>2, CallbacksUndisturbed
<1>21. CASE ReplaceAcknowledgedSnapshot
  <2>1. UNCHANGED <<calling, called, completion, completionTurn, ticket, admitted>>
    BY <1>21 DEF ReplaceAcknowledgedSnapshot
  <2>2. \A o \in Ops : pc'[o] = "call" => pc[o] = "call"
    BY <1>21 DEF ReplaceAcknowledgedSnapshot, ExecTypes, GoroutineTypes
  <2> QED
    BY <2>1, <2>2, CallbacksUndisturbed
<1>22. CASE ReceiveAccepted
  <2>1. UNCHANGED <<calling, called, completion, completionTurn, ticket, admitted>>
    BY <1>22 DEF ReceiveAccepted
  <2>2. \A o \in Ops : pc'[o] = "call" => pc[o] = "call"
    BY <1>22 DEF ReceiveAccepted, ExecTypes, GoroutineTypes
  <2> QED
    BY <2>1, <2>2, CallbacksUndisturbed
<1>23. CASE ReceiveRejected
  <2>1. UNCHANGED <<calling, called, completion, completionTurn, ticket, admitted>>
    BY <1>23 DEF ReceiveRejected
  <2>2. \A o \in Ops : pc'[o] = "call" => pc[o] = "call"
    BY <1>23 DEF ReceiveRejected, ExecTypes, GoroutineTypes
  <2> QED
    BY <2>1, <2>2, CallbacksUndisturbed
<1>24. CASE ServerTake
  <2>1. UNCHANGED <<calling, called, completion, completionTurn, ticket, admitted>>
    BY <1>24 DEF ServerTake
  <2>2. \A o \in Ops : pc'[o] = "call" => pc[o] = "call"
    BY <1>24 DEF ServerTake, ExecTypes, GoroutineTypes
  <2> QED
    BY <2>1, <2>2, CallbacksUndisturbed
<1>25. CASE Break
  <2>1. UNCHANGED <<calling, called, completion, completionTurn, ticket, admitted>>
    BY <1>25 DEF Break
  <2>2. \A o \in Ops : pc'[o] = "call" => pc[o] = "call"
    BY <1>25 DEF Break, ExecTypes, GoroutineTypes
  <2> QED
    BY <2>1, <2>2, CallbacksUndisturbed
<1> QED
  BY <1>1, <1>2, <1>3, <1>4, <1>5, <1>6, <1>7, <1>8, <1>9, <1>10, <1>11, <1>12, <1>13,
     <1>14, <1>15, <1>16, <1>17, <1>18, <1>19, <1>20, <1>21, <1>22, <1>23, <1>24, <1>25
     DEF Next, Step, User, Connection

-----------------------------------------------------------------------------------
(* A draft is rebuilt once at a time. *)
LEMMA RebuildingUndisturbed ==
    ASSUME Rebuilding, UNCHANGED <<origin, claims>>,
           \A r \in Rebuilds : Ended(r)' <=> Ended(r),
           \A op \in Ops : pc'[op] \in RebuildOnly => pc[op] \in RebuildOnly \/ op \in Rebuilds,
           \A r \in Rebuilds : pc'[r] = "new" <=> pc[r] = "new"
    PROVE  Rebuilding'
BY DEF Rebuilding

(* The end of one rebuild, which gives up its claim. *)
LEMMA RebuildEnds ==
    ASSUME Rebuilding, NEW r \in Rebuilds, origin[r] # None, ~Ended(r), UNCHANGED origin,
           claims' = claims \ {origin[r]}, Ended(r)',
           \A q \in Rebuilds \ {r} : Ended(q)' <=> Ended(q),
           \A op \in Ops : pc'[op] \in RebuildOnly => pc[op] \in RebuildOnly,
           \A q \in Rebuilds : pc'[q] = "new" <=> pc[q] = "new"
    PROVE  Rebuilding'
<1>1. \A q \in Rebuilds : origin[q] = origin[r] /\ ~Ended(q) => q = r
  BY DEF Rebuilding
<1>2. \A q \in Rebuilds : ~Ended(q)' => q # r /\ ~Ended(q)
  OBVIOUS
<1>3. \A op \in claims' : \E q \in Rebuilds : origin'[q] = op /\ ~Ended(q)'
  <2> SUFFICES ASSUME NEW op \in claims' PROVE \E q \in Rebuilds : origin'[q] = op /\ ~Ended(q)'
    OBVIOUS
  <2>1. PICK q \in Rebuilds : origin[q] = op /\ ~Ended(q)
    BY DEF Rebuilding
  <2> QED
    BY <2>1
<1>4. \A q \in Rebuilds : origin'[q] # None /\ ~Ended(q)' => origin'[q] \in claims'
  BY <1>1, <1>2 DEF Rebuilding
<1> QED
  BY <1>2, <1>3, <1>4 DEF Rebuilding

LEMMA RebuildingStep ==
    ASSUME ExecTypes, Admission, OneDrains, Callbacks, Rebuilding, Next
    PROVE  Rebuilding'
<1> USE DEF worker, authority, admission, completions, network, observed, Goto, Publish
<1>1. ASSUME NEW op \in Ops, RefuseAdmission(op) PROVE Rebuilding'
  <2>1. UNCHANGED <<origin, claims>>
    BY <1>1 DEF RefuseAdmission
  <2>2. \A r \in Rebuilds : Ended(r)' <=> Ended(r)
    BY <1>1 DEF RefuseAdmission, Ended, Admission, Unadmitted, Ops, ExecTypes, GoroutineTypes
  <2>3. \A o \in Ops : pc'[o] \in RebuildOnly => pc[o] \in RebuildOnly \/ o \in Rebuilds
    BY <1>1 DEF RefuseAdmission, RebuildOnly, Rebuilding, ExecTypes, GoroutineTypes
  <2>4. \A r \in Rebuilds : pc'[r] = "new" <=> pc[r] = "new"
    BY <1>1 DEF RefuseAdmission, Ops, ExecTypes, GoroutineTypes
  <2> QED
    BY <2>1, <2>2, <2>3, <2>4, RebuildingUndisturbed
<1>2. ASSUME NEW op \in Ops, WaitDispatchTurn(op) PROVE Rebuilding'
  <2>1. UNCHANGED <<origin, claims>>
    BY <1>2 DEF WaitDispatchTurn
  <2>2. \A r \in Rebuilds : Ended(r)' <=> Ended(r)
    BY <1>2 DEF WaitDispatchTurn, Ended, Admission, Unadmitted, Ops, ExecTypes, GoroutineTypes
  <2>3. \A o \in Ops : pc'[o] \in RebuildOnly => pc[o] \in RebuildOnly \/ o \in Rebuilds
    BY <1>2 DEF WaitDispatchTurn, RebuildOnly, Rebuilding, ExecTypes, GoroutineTypes
  <2>4. \A r \in Rebuilds : pc'[r] = "new" <=> pc[r] = "new"
    BY <1>2 DEF WaitDispatchTurn, Ops, ExecTypes, GoroutineTypes
  <2> QED
    BY <2>1, <2>2, <2>3, <2>4, RebuildingUndisturbed
<1>3. ASSUME NEW op \in Ops, Dispatch(op) PROVE Rebuilding'
  <2>1. UNCHANGED <<origin, claims>>
    BY <1>3 DEF Dispatch
  <2>2. \A r \in Rebuilds : Ended(r)' <=> Ended(r)
    BY <1>3 DEF Dispatch, Ended, Admission, Unadmitted, Ops, ExecTypes, GoroutineTypes
  <2>3. \A o \in Ops : pc'[o] \in RebuildOnly => pc[o] \in RebuildOnly \/ o \in Rebuilds
    BY <1>3 DEF Dispatch, RebuildOnly, Rebuilding, ExecTypes, GoroutineTypes
  <2>4. \A r \in Rebuilds : pc'[r] = "new" <=> pc[r] = "new"
    BY <1>3 DEF Dispatch, Ops, ExecTypes, GoroutineTypes
  <2> QED
    BY <2>1, <2>2, <2>3, <2>4, RebuildingUndisturbed
<1>4. ASSUME NEW op \in Ops, RefuseAdmitted(op) PROVE Rebuilding'
  <2>1. UNCHANGED <<origin, claims>>
    BY <1>4 DEF RefuseAdmitted
  <2>2. \A r \in Rebuilds : Ended(r)' <=> Ended(r)
    BY <1>4 DEF RefuseAdmitted, Ended, Admission, Unadmitted, Ops, ExecTypes, GoroutineTypes
  <2>3. \A o \in Ops : pc'[o] \in RebuildOnly => pc[o] \in RebuildOnly \/ o \in Rebuilds
    BY <1>4 DEF RefuseAdmitted, RebuildOnly, Rebuilding, ExecTypes, GoroutineTypes
  <2>4. \A r \in Rebuilds : pc'[r] = "new" <=> pc[r] = "new"
    BY <1>4 DEF RefuseAdmitted, Ops, ExecTypes, GoroutineTypes
  <2> QED
    BY <2>1, <2>2, <2>3, <2>4, RebuildingUndisturbed
<1>5. ASSUME NEW op \in Ops, SendOperation(op) PROVE Rebuilding'
  <2>1. UNCHANGED <<origin, claims>>
    BY <1>5 DEF SendOperation
  <2>2. \A r \in Rebuilds : Ended(r)' <=> Ended(r)
    BY <1>5 DEF SendOperation, Ended, Admission, Unadmitted, Ops, ExecTypes, GoroutineTypes
  <2>3. \A o \in Ops : pc'[o] \in RebuildOnly => pc[o] \in RebuildOnly \/ o \in Rebuilds
    BY <1>5 DEF SendOperation, RebuildOnly, Rebuilding, ExecTypes, GoroutineTypes
  <2>4. \A r \in Rebuilds : pc'[r] = "new" <=> pc[r] = "new"
    BY <1>5 DEF SendOperation, Ops, ExecTypes, GoroutineTypes
  <2> QED
    BY <2>1, <2>2, <2>3, <2>4, RebuildingUndisturbed
<1>6. ASSUME NEW op \in Ops, FailPending(op) PROVE Rebuilding'
  <2>1. UNCHANGED <<origin, claims>>
    BY <1>6 DEF FailPending
  <2>2. \A r \in Rebuilds : Ended(r)' <=> Ended(r)
    BY <1>6 DEF FailPending, Ended, Admission, Unadmitted, Ops, ExecTypes, GoroutineTypes
  <2>3. \A o \in Ops : pc'[o] \in RebuildOnly => pc[o] \in RebuildOnly \/ o \in Rebuilds
    BY <1>6 DEF FailPending, RebuildOnly, Rebuilding, ExecTypes, GoroutineTypes
  <2>4. \A r \in Rebuilds : pc'[r] = "new" <=> pc[r] = "new"
    BY <1>6 DEF FailPending, Ops, ExecTypes, GoroutineTypes
  <2> QED
    BY <2>1, <2>2, <2>3, <2>4, RebuildingUndisturbed
<1>7. ASSUME NEW op \in Ops, FinishAdmission(op) PROVE Rebuilding'
  <2>1. UNCHANGED <<origin, claims>>
    BY <1>7 DEF FinishAdmission
  <2>2. \A r \in Rebuilds : Ended(r)' <=> Ended(r)
    BY <1>7 DEF FinishAdmission, Ended, Admission, Unadmitted, Ops, ExecTypes, GoroutineTypes
  <2>3. \A o \in Ops : pc'[o] \in RebuildOnly => pc[o] \in RebuildOnly \/ o \in Rebuilds
    BY <1>7 DEF FinishAdmission, RebuildOnly, Rebuilding, ExecTypes, GoroutineTypes
  <2>4. \A r \in Rebuilds : pc'[r] = "new" <=> pc[r] = "new"
    BY <1>7 DEF FinishAdmission, Ops, ExecTypes, GoroutineTypes
  <2> QED
    BY <2>1, <2>2, <2>3, <2>4, RebuildingUndisturbed
<1>8. ASSUME NEW op \in Ops, Await(op) PROVE Rebuilding'
  <2>1. UNCHANGED <<origin, claims>>
    BY <1>8 DEF Await
  <2>2. \A r \in Rebuilds : Ended(r)' <=> Ended(r)
    BY <1>8 DEF Await, Ended, Admission, Unadmitted, Ops, ExecTypes, GoroutineTypes
  <2>3. \A o \in Ops : pc'[o] \in RebuildOnly => pc[o] \in RebuildOnly \/ o \in Rebuilds
    BY <1>8 DEF Await, RebuildOnly, Rebuilding, ExecTypes, GoroutineTypes
  <2>4. \A r \in Rebuilds : pc'[r] = "new" <=> pc[r] = "new"
    BY <1>8 DEF Await, Ops, ExecTypes, GoroutineTypes
  <2> QED
    BY <2>1, <2>2, <2>3, <2>4, RebuildingUndisturbed
<1>9. ASSUME NEW op \in Ops, RecordCompletion(op) PROVE Rebuilding'
  <2>1. UNCHANGED <<origin, claims>>
    BY <1>9 DEF RecordCompletion, AfterRecord
  <2>2. \A r \in Rebuilds : Ended(r)' <=> Ended(r)
    BY <1>9 DEF RecordCompletion, Ended, Admission, Unadmitted, Ops, ExecTypes, GoroutineTypes, AfterRecord
  <2>3. \A o \in Ops : pc'[o] \in RebuildOnly => pc[o] \in RebuildOnly \/ o \in Rebuilds
    BY <1>9 DEF RecordCompletion, RebuildOnly, Rebuilding, ExecTypes, GoroutineTypes, AfterRecord
  <2>4. \A r \in Rebuilds : pc'[r] = "new" <=> pc[r] = "new"
    BY <1>9 DEF RecordCompletion, Ops, ExecTypes, GoroutineTypes, AfterRecord
  <2> QED
    BY <2>1, <2>2, <2>3, <2>4, RebuildingUndisturbed
<1>10. ASSUME NEW op \in Ops, DrainCompletions(op) PROVE Rebuilding'
  <2>1. UNCHANGED <<origin, claims>>
    BY <1>10 DEF DrainCompletions, AfterRecord
  <2>2. \A r \in Rebuilds : Ended(r)' <=> Ended(r)
    BY <1>10 DEF DrainCompletions, Ended, Admission, Unadmitted, Ops, ExecTypes, GoroutineTypes, AfterRecord
  <2>3. \A o \in Ops : pc'[o] \in RebuildOnly => pc[o] \in RebuildOnly \/ o \in Rebuilds
    BY <1>10 DEF DrainCompletions, RebuildOnly, Rebuilding, ExecTypes, GoroutineTypes, AfterRecord
  <2>4. \A r \in Rebuilds : pc'[r] = "new" <=> pc[r] = "new"
    BY <1>10 DEF DrainCompletions, Ops, ExecTypes, GoroutineTypes, AfterRecord
  <2> QED
    BY <2>1, <2>2, <2>3, <2>4, RebuildingUndisturbed
<1>11. ASSUME NEW op \in Ops, Call(op) PROVE Rebuilding'
  <2>0. PICK c \in Ops : c = calling[op]
    BY <1>11 DEF Call, Callbacks
  <2>1. /\ c \in Ops /\ admitted[c] # 0 /\ \A i \in 1..Len(called) : called[i] # c
        /\ called \in Seq(Ops)
    BY <1>11, <2>0 DEF Call, Callbacks, ExecTypes, AdmissionTypes
  <2>2. UNCHANGED <<origin, admitted>> /\ called' = Append(called, c)
    BY <1>11, <2>0 DEF Call
  <2>3. /\ \A o \in Ops : pc'[o] \in RebuildOnly => pc[o] \in RebuildOnly
        /\ \A r \in Rebuilds : pc'[r] = "new" <=> pc[r] = "new"
        /\ \A r \in Rebuilds : pc'[r] = "dropped" <=> pc[r] = "dropped"
        /\ \A r \in Rebuilds : pc'[r] = "done" <=> pc[r] = "done"
    BY <1>11 DEF Call, RebuildOnly, Ops, ExecTypes, GoroutineTypes
  <2>4. \A r : (\E i \in 1..Len(called') : called'[i] = r) <=> r = c \/ \E i \in 1..Len(called) : called[i] = r
    <3>1. /\ Len(called') = Len(called) + 1 /\ Len(called) \in Nat
          /\ \A i \in 1..Len(called) : called'[i] = called[i]
          /\ called'[Len(called) + 1] = c
      BY <2>1, <2>2
    <3>2. \A i \in 1..Len(called') : i \in 1..Len(called) \/ i = Len(called) + 1
      BY <3>1
    <3>3. 1..Len(called) \subseteq 1..Len(called') /\ Len(called) + 1 \in 1..Len(called')
      BY <3>1
    <3> QED
      BY <3>1, <3>2, <3>3
  <2>5. \A r \in Rebuilds \ {c} : Ended(r)' <=> Ended(r)
    BY <2>2, <2>3, <2>4 DEF Ended
  <2>6. CASE c \in Rebuilds
    <3>1. pc[c] \notin Unadmitted
      BY <2>1 DEF Admission
    <3>2. ~Ended(c)
      BY <2>1, <3>1 DEF Ended, Unadmitted
    <3>5. Ended(c)'
      BY <2>4 DEF Ended
    <3>3. origin[c] # None
      BY <2>6, <3>1 DEF Rebuilding, Unadmitted
    <3>4. claims' = claims \ {origin[c]}
      BY <1>11, <2>0, <2>6 DEF Call
    <3> QED
      BY <2>2, <2>3, <2>5, <2>6, <3>2, <3>3, <3>4, <3>5, RebuildEnds
  <2>7. CASE c \notin Rebuilds
    <3>1. UNCHANGED claims
      BY <1>11, <2>0, <2>7 DEF Call
    <3> QED
      BY <2>2, <2>3, <2>5, <2>7, <3>1, RebuildingUndisturbed
  <2> QED
    BY <2>6, <2>7
<1>12. ASSUME NEW op \in Ops, DismissConflict(op) PROVE Rebuilding'
  <2>1. UNCHANGED <<origin, claims>>
    BY <1>12 DEF DismissConflict
  <2>2. \A r \in Rebuilds : Ended(r)' <=> Ended(r)
    BY <1>12 DEF DismissConflict, Ended, Admission, Unadmitted, Ops, ExecTypes, GoroutineTypes
  <2>3. \A o \in Ops : pc'[o] \in RebuildOnly => pc[o] \in RebuildOnly \/ o \in Rebuilds
    BY <1>12 DEF DismissConflict, RebuildOnly, Rebuilding, ExecTypes, GoroutineTypes
  <2>4. \A r \in Rebuilds : pc'[r] = "new" <=> pc[r] = "new"
    BY <1>12 DEF DismissConflict, Ops, ExecTypes, GoroutineTypes
  <2> QED
    BY <2>1, <2>2, <2>3, <2>4, RebuildingUndisturbed
<1>13. ASSUME NEW op \in Ops, BuildConflictRebuild(op) PROVE Rebuilding'
  <2>1. UNCHANGED <<origin, claims>>
    BY <1>13 DEF BuildConflictRebuild
  <2>2. \A r \in Rebuilds : Ended(r)' <=> Ended(r)
    BY <1>13 DEF BuildConflictRebuild, Ended, Admission, Unadmitted, Ops, ExecTypes, GoroutineTypes
  <2>3. \A o \in Ops : pc'[o] \in RebuildOnly => pc[o] \in RebuildOnly \/ o \in Rebuilds
    BY <1>13 DEF BuildConflictRebuild, RebuildOnly, Rebuilding, ExecTypes, GoroutineTypes
  <2>4. \A r \in Rebuilds : pc'[r] = "new" <=> pc[r] = "new"
    BY <1>13 DEF BuildConflictRebuild, Ops, ExecTypes, GoroutineTypes
  <2> QED
    BY <2>1, <2>2, <2>3, <2>4, RebuildingUndisturbed
<1>14. ASSUME NEW op \in Ops, Unclaim(op) PROVE Rebuilding'
  <2>1. op \in Rebuilds /\ origin[op] # None
    BY <1>14 DEF Unclaim, Rebuilding, RebuildOnly
  <2>2. admitted[op] = 0 /\ \A i \in 1..Len(called) : called[i] # op
    BY <1>14 DEF Unclaim, Admission, Unadmitted, Callbacks
  <2>3. ~Ended(op)
    BY <1>14, <2>2 DEF Unclaim, Ended
  <2>4. Ended(op)' /\ \A r \in Rebuilds \ {op} : Ended(r)' <=> Ended(r)
    BY <1>14, <2>2 DEF Unclaim, Ended, Ops, ExecTypes, GoroutineTypes
  <2>5. UNCHANGED origin /\ claims' = claims \ {origin[op]}
    BY <1>14 DEF Unclaim
  <2>6. /\ \A o \in Ops : pc'[o] \in RebuildOnly => pc[o] \in RebuildOnly
        /\ \A r \in Rebuilds : pc'[r] = "new" <=> pc[r] = "new"
    BY <1>14 DEF Unclaim, RebuildOnly, Ops, ExecTypes, GoroutineTypes
  <2> QED
    BY <2>1, <2>3, <2>4, <2>5, <2>6, RebuildEnds
<1>15. ASSUME NEW op \in Ops, ReserveAdmission(op) PROVE Rebuilding'
  <2>1. UNCHANGED <<origin, claims>>
    BY <1>15 DEF ReserveAdmission
  <2>2. \A r \in Rebuilds : Ended(r)' <=> Ended(r)
    BY <1>15 DEF ReserveAdmission, Ended, Admission, Unadmitted, Ops, ExecTypes, GoroutineTypes
  <2>3. \A o \in Ops : pc'[o] \in RebuildOnly => pc[o] \in RebuildOnly \/ o \in Rebuilds
    BY <1>15 DEF ReserveAdmission, RebuildOnly, Rebuilding, ExecTypes, GoroutineTypes
  <2>4. \A r \in Rebuilds : pc'[r] = "new" <=> pc[r] = "new"
    BY <1>15, ExecutorAssumption DEF ReserveAdmission, Ops, ExecTypes, GoroutineTypes
  <2> QED
    BY <2>1, <2>2, <2>3, <2>4, RebuildingUndisturbed
<1>16. ASSUME NEW op \in Ops, DiscardConflict(op) PROVE Rebuilding'
  <2>1. UNCHANGED <<origin, claims>>
    BY <1>16 DEF DiscardConflict
  <2>2. \A r \in Rebuilds : Ended(r)' <=> Ended(r)
    BY <1>16 DEF DiscardConflict, Ended, Admission, Unadmitted, Ops, ExecTypes, GoroutineTypes
  <2>3. \A o \in Ops : pc'[o] \in RebuildOnly => pc[o] \in RebuildOnly \/ o \in Rebuilds
    BY <1>16 DEF DiscardConflict, RebuildOnly, Rebuilding, ExecTypes, GoroutineTypes
  <2>4. \A r \in Rebuilds : pc'[r] = "new" <=> pc[r] = "new"
    BY <1>16 DEF DiscardConflict, Ops, ExecTypes, GoroutineTypes
  <2> QED
    BY <2>1, <2>2, <2>3, <2>4, RebuildingUndisturbed
<1>17. ASSUME NEW op \in Ops, NEW rebuilt \in Rebuilds, RebuildConflict(op, rebuilt) PROVE Rebuilding'
  <2>1. /\ pc[rebuilt] = "new" /\ pc' = [pc EXCEPT ![rebuilt] = "build"] /\ rebuilt \in Ops
        /\ origin' = [origin EXCEPT ![rebuilt] = op]
        /\ claims' = claims \cup {op} /\ op \notin claims /\ UNCHANGED <<called, admitted>>
    BY <1>17 DEF RebuildConflict, Ops
  <2>2. op # None /\ origin[rebuilt] = None
    BY <2>1, ExecutorAssumption DEF Rebuilding
  <2>3. \A r \in Rebuilds : Ended(r)' <=> Ended(r)
    BY <2>1 DEF Ended, Ops, ExecTypes, GoroutineTypes
  <2>4. ~Ended(rebuilt)
    BY <2>1 DEF Ended, Admission, Unadmitted, Callbacks
  <2>5. \A r \in Rebuilds : origin'[r] = IF r = rebuilt THEN op ELSE origin[r]
    BY <2>1 DEF Ops, ExecTypes, GoroutineTypes
  <2>6. \A o \in Ops : pc'[o] = IF o = rebuilt THEN "build" ELSE pc[o]
    BY <2>1 DEF ExecTypes, GoroutineTypes
  <2>7. \A r \in Rebuilds : ~Ended(r) => origin[r] # op
    BY <2>1, <2>2 DEF Rebuilding
  <2>8. \A o \in claims' : \E r \in Rebuilds : origin'[r] = o /\ ~Ended(r)'
    <3>1. ASSUME NEW o \in claims PROVE \E r \in Rebuilds : origin'[r] = o /\ ~Ended(r)'
      <4>1. PICK r \in Rebuilds : origin[r] = o /\ ~Ended(r)
        BY DEF Rebuilding
      <4>2. r # rebuilt
        BY <2>2, <4>1, ExecutorAssumption DEF Rebuilding
      <4> QED
        BY <2>3, <2>5, <4>1, <4>2
    <3>2. origin'[rebuilt] = op /\ ~Ended(rebuilt)'
      BY <2>3, <2>4, <2>5
    <3> QED
      BY <2>1, <3>1, <3>2
  <2>9. Rebuilds \subseteq Ops
    BY DEF Ops
  <2>10. \A r \in Rebuilds : origin'[r] = None <=> pc'[r] = "new"
    BY <2>2, <2>5, <2>6, <2>9 DEF Rebuilding
  <2>11. \A q, r \in Rebuilds : origin'[q] # None /\ origin'[q] = origin'[r] /\ ~Ended(q)' /\ ~Ended(r)' => q = r
    BY <2>3, <2>5, <2>7 DEF Rebuilding
  <2>12. \A r \in Rebuilds : origin'[r] # None /\ ~Ended(r)' => origin'[r] \in claims'
    BY <2>1, <2>3, <2>5 DEF Rebuilding
  <2>13. \A o \in Ops : pc'[o] \in RebuildOnly => o \in Rebuilds
    BY <2>6 DEF Rebuilding
  <2> QED
    BY <2>1, <2>8, <2>10, <2>11, <2>12, <2>13 DEF Rebuilding
<1>18. CASE Terminate
  <2>1. UNCHANGED <<origin, claims>>
    BY <1>18 DEF Terminate
  <2>2. \A r \in Rebuilds : Ended(r)' <=> Ended(r)
    BY <1>18 DEF Terminate, Ended, Admission, Unadmitted, Ops, ExecTypes, GoroutineTypes
  <2>3. \A o \in Ops : pc'[o] \in RebuildOnly => pc[o] \in RebuildOnly \/ o \in Rebuilds
    BY <1>18 DEF Terminate, RebuildOnly, Rebuilding, ExecTypes, GoroutineTypes
  <2>4. \A r \in Rebuilds : pc'[r] = "new" <=> pc[r] = "new"
    BY <1>18 DEF Terminate, Ops, ExecTypes, GoroutineTypes
  <2> QED
    BY <2>1, <2>2, <2>3, <2>4, RebuildingUndisturbed
<1>19. CASE Suspend
  <2>1. UNCHANGED <<origin, claims>>
    BY <1>19 DEF Suspend
  <2>2. \A r \in Rebuilds : Ended(r)' <=> Ended(r)
    BY <1>19 DEF Suspend, Ended, Admission, Unadmitted, Ops, ExecTypes, GoroutineTypes
  <2>3. \A o \in Ops : pc'[o] \in RebuildOnly => pc[o] \in RebuildOnly \/ o \in Rebuilds
    BY <1>19 DEF Suspend, RebuildOnly, Rebuilding, ExecTypes, GoroutineTypes
  <2>4. \A r \in Rebuilds : pc'[r] = "new" <=> pc[r] = "new"
    BY <1>19 DEF Suspend, Ops, ExecTypes, GoroutineTypes
  <2> QED
    BY <2>1, <2>2, <2>3, <2>4, RebuildingUndisturbed
<1>20. CASE Resume
  <2>1. UNCHANGED <<origin, claims>>
    BY <1>20 DEF Resume
  <2>2. \A r \in Rebuilds : Ended(r)' <=> Ended(r)
    BY <1>20 DEF Resume, Ended, Admission, Unadmitted, Ops, ExecTypes, GoroutineTypes
  <2>3. \A o \in Ops : pc'[o] \in RebuildOnly => pc[o] \in RebuildOnly \/ o \in Rebuilds
    BY <1>20 DEF Resume, RebuildOnly, Rebuilding, ExecTypes, GoroutineTypes
  <2>4. \A r \in Rebuilds : pc'[r] = "new" <=> pc[r] = "new"
    BY <1>20 DEF Resume, Ops, ExecTypes, GoroutineTypes
  <2> QED
    BY <2>1, <2>2, <2>3, <2>4, RebuildingUndisturbed
<1>21. CASE ReplaceAcknowledgedSnapshot
  <2>1. UNCHANGED <<origin, claims>>
    BY <1>21 DEF ReplaceAcknowledgedSnapshot
  <2>2. \A r \in Rebuilds : Ended(r)' <=> Ended(r)
    BY <1>21 DEF ReplaceAcknowledgedSnapshot, Ended, Admission, Unadmitted, Ops, ExecTypes, GoroutineTypes
  <2>3. \A o \in Ops : pc'[o] \in RebuildOnly => pc[o] \in RebuildOnly \/ o \in Rebuilds
    BY <1>21 DEF ReplaceAcknowledgedSnapshot, RebuildOnly, Rebuilding, ExecTypes, GoroutineTypes
  <2>4. \A r \in Rebuilds : pc'[r] = "new" <=> pc[r] = "new"
    BY <1>21 DEF ReplaceAcknowledgedSnapshot, Ops, ExecTypes, GoroutineTypes
  <2> QED
    BY <2>1, <2>2, <2>3, <2>4, RebuildingUndisturbed
<1>22. CASE ReceiveAccepted
  <2>1. UNCHANGED <<origin, claims>>
    BY <1>22 DEF ReceiveAccepted
  <2>2. \A r \in Rebuilds : Ended(r)' <=> Ended(r)
    BY <1>22 DEF ReceiveAccepted, Ended, Admission, Unadmitted, Ops, ExecTypes, GoroutineTypes
  <2>3. \A o \in Ops : pc'[o] \in RebuildOnly => pc[o] \in RebuildOnly \/ o \in Rebuilds
    BY <1>22 DEF ReceiveAccepted, RebuildOnly, Rebuilding, ExecTypes, GoroutineTypes
  <2>4. \A r \in Rebuilds : pc'[r] = "new" <=> pc[r] = "new"
    BY <1>22 DEF ReceiveAccepted, Ops, ExecTypes, GoroutineTypes
  <2> QED
    BY <2>1, <2>2, <2>3, <2>4, RebuildingUndisturbed
<1>23. CASE ReceiveRejected
  <2>1. UNCHANGED <<origin, claims>>
    BY <1>23 DEF ReceiveRejected
  <2>2. \A r \in Rebuilds : Ended(r)' <=> Ended(r)
    BY <1>23 DEF ReceiveRejected, Ended, Admission, Unadmitted, Ops, ExecTypes, GoroutineTypes
  <2>3. \A o \in Ops : pc'[o] \in RebuildOnly => pc[o] \in RebuildOnly \/ o \in Rebuilds
    BY <1>23 DEF ReceiveRejected, RebuildOnly, Rebuilding, ExecTypes, GoroutineTypes
  <2>4. \A r \in Rebuilds : pc'[r] = "new" <=> pc[r] = "new"
    BY <1>23 DEF ReceiveRejected, Ops, ExecTypes, GoroutineTypes
  <2> QED
    BY <2>1, <2>2, <2>3, <2>4, RebuildingUndisturbed
<1>24. CASE ServerTake
  <2>1. UNCHANGED <<origin, claims>>
    BY <1>24 DEF ServerTake
  <2>2. \A r \in Rebuilds : Ended(r)' <=> Ended(r)
    BY <1>24 DEF ServerTake, Ended, Admission, Unadmitted, Ops, ExecTypes, GoroutineTypes
  <2>3. \A o \in Ops : pc'[o] \in RebuildOnly => pc[o] \in RebuildOnly \/ o \in Rebuilds
    BY <1>24 DEF ServerTake, RebuildOnly, Rebuilding, ExecTypes, GoroutineTypes
  <2>4. \A r \in Rebuilds : pc'[r] = "new" <=> pc[r] = "new"
    BY <1>24 DEF ServerTake, Ops, ExecTypes, GoroutineTypes
  <2> QED
    BY <2>1, <2>2, <2>3, <2>4, RebuildingUndisturbed
<1>25. CASE Break
  <2>1. UNCHANGED <<origin, claims>>
    BY <1>25 DEF Break
  <2>2. \A r \in Rebuilds : Ended(r)' <=> Ended(r)
    BY <1>25 DEF Break, Ended, Admission, Unadmitted, Ops, ExecTypes, GoroutineTypes
  <2>3. \A o \in Ops : pc'[o] \in RebuildOnly => pc[o] \in RebuildOnly \/ o \in Rebuilds
    BY <1>25 DEF Break, RebuildOnly, Rebuilding, ExecTypes, GoroutineTypes
  <2>4. \A r \in Rebuilds : pc'[r] = "new" <=> pc[r] = "new"
    BY <1>25 DEF Break, Ops, ExecTypes, GoroutineTypes
  <2> QED
    BY <2>1, <2>2, <2>3, <2>4, RebuildingUndisturbed
<1> QED
  BY <1>1, <1>2, <1>3, <1>4, <1>5, <1>6, <1>7, <1>8, <1>9, <1>10, <1>11, <1>12, <1>13,
     <1>14, <1>15, <1>16, <1>17, <1>18, <1>19, <1>20, <1>21, <1>22, <1>23, <1>24, <1>25
     DEF Next, Step, User, Connection

-----------------------------------------------------------------------------------
(* What the server has of an edit. *)
LEMMA OpsOfTail ==
    ASSUME NEW s \in Seq(Submissions), s # << >>, OnceEach(s)
    PROVE  /\ Head(s).op \in OpsOf(s)
           /\ OpsOf(Tail(s)) = OpsOf(s) \ {Head(s).op}
           /\ OnceEach(Tail(s))
<1> DEFINE n == Len(s)
           t == Tail(s)
<1>1. n \in Nat /\ n # 0 /\ Head(s) = s[1] /\ Len(t) = n - 1 /\ \A i \in 1..(n - 1) : t[i] = s[i + 1]
  OBVIOUS
<1> HIDE DEF t
<1>2. 1 \in 1..n /\ \A i \in 1..(n - 1) : i + 1 \in 1..n /\ i + 1 # 1
  BY <1>1
<1>3. OnceEach(t)
  <2> SUFFICES ASSUME NEW i \in 1..(n - 1), NEW j \in 1..(n - 1), t[i].op = t[j].op
               PROVE  i = j
    BY <1>1 DEF OnceEach
  <2>1. i + 1 = j + 1
    BY <1>1, <1>2 DEF OnceEach
  <2> QED
    BY <2>1
<1>4. ASSUME NEW x \in OpsOf(t) PROVE x \in OpsOf(s) \ {Head(s).op}
  <2>1. PICK i \in 1..(n - 1) : x = s[i + 1].op
    BY <1>1 DEF OpsOf
  <2>2. s[i + 1].op # s[1].op
    BY <1>2 DEF OnceEach
  <2> QED
    BY <1>1, <1>2, <2>1, <2>2 DEF OpsOf
<1>5. ASSUME NEW x \in OpsOf(s) \ {Head(s).op} PROVE x \in OpsOf(t)
  <2>1. PICK i \in 1..n : x = s[i].op /\ i # 1
    BY <1>1 DEF OpsOf
  <2>2. i - 1 \in 1..(n - 1) /\ (i - 1) + 1 = i
    BY <1>1, <2>1
  <2>3. t[i - 1] = s[i]
    BY <1>1, <2>2
  <2> QED
    BY <1>1, <2>1, <2>2, <2>3 DEF OpsOf
<1> QED
  BY <1>1, <1>2, <1>3, <1>4, <1>5 DEF OpsOf, t

LEMMA OpsOfAppend ==
    ASSUME NEW s \in Seq(Submissions), NEW e \in Submissions, e.op \notin OpsOf(s), OnceEach(s)
    PROVE  OpsOf(Append(s, e)) = OpsOf(s) \cup {e.op} /\ OnceEach(Append(s, e))
<1> DEFINE n == Len(s)
           t == Append(s, e)
<1>1. n \in Nat /\ Len(t) = n + 1 /\ t[n + 1] = e /\ \A i \in 1..n : t[i] = s[i]
  OBVIOUS
<1>2. \A i \in 1..n : s[i].op # e.op
  BY DEF OpsOf
<1> HIDE DEF t, n
<1>3. \A i \in 1..(n + 1) : i \in 1..n \/ i = n + 1
  BY <1>1
<1>4. 1..n \subseteq 1..(n + 1) /\ n + 1 \in 1..(n + 1)
  BY <1>1
<1>5. OpsOf(s) = {s[i].op : i \in 1..n} /\ OpsOf(t) = {t[i].op : i \in 1..(n + 1)}
  BY <1>1 DEF OpsOf, n
<1>6. OpsOf(t) = OpsOf(s) \cup {e.op}
  BY <1>1, <1>3, <1>4, <1>5
<1>7. \A i, j \in 1..n : s[i].op = s[j].op => i = j
  BY DEF OnceEach, n
<1>8. OnceEach(t)
  <2> SUFFICES ASSUME NEW i \in 1..(n + 1), NEW j \in 1..(n + 1), t[i].op = t[j].op PROVE i = j
    BY <1>1 DEF OnceEach
  <2> QED
    BY <1>1, <1>2, <1>3, <1>7
<1> QED
  BY <1>6, <1>8 DEF t

LEMMA OpsOfPrefix ==
    ASSUME NEW s \in Seq(Submissions), NEW n \in 0..Len(s), OnceEach(s)
    PROVE  OpsOf(SubSeq(s, 1, n)) \subseteq OpsOf(s) /\ OnceEach(SubSeq(s, 1, n))
<1> DEFINE t == SubSeq(s, 1, n)
<1>1. Len(t) = n /\ \A i \in 1..n : t[i] = s[i] /\ i \in 1..Len(s)
  OBVIOUS
<1> HIDE DEF t
<1> QED
  BY <1>1 DEF OpsOf, OnceEach, t

LEMMA LoggedAppend ==
    ASSUME NEW s \in Seq(Ops), NEW op \in Ops
    PROVE  {Append(s, op)[i] : i \in 1..Len(Append(s, op))} = {s[i] : i \in 1..Len(s)} \cup {op}
<1> DEFINE n == Len(s)
           t == Append(s, op)
<1>1. n \in Nat /\ Len(t) = n + 1 /\ t[n + 1] = op /\ \A i \in 1..n : t[i] = s[i]
  OBVIOUS
<1> HIDE DEF t, n
<1>2. \A i \in 1..(n + 1) : i \in 1..n \/ i = n + 1
  BY <1>1
<1>3. 1..n \subseteq 1..(n + 1) /\ n + 1 \in 1..(n + 1)
  BY <1>1
<1>4. {t[i] : i \in 1..(n + 1)} = {s[i] : i \in 1..n} \cup {op}
  BY <1>1, <1>2, <1>3
<1> QED
  BY <1>1, <1>4 DEF t, n

(* Only an edit whose goroutine is sending it becomes new to the server. *)
ServerGrows ==
    /\ Logged \subseteq Logged'
    /\ Logged' \cup InFlight' \subseteq Logged \cup InFlight \cup {op \in Ops : pc[op] = "send"}

LEMMA ServedUndisturbed ==
    ASSUME Served, UNCHANGED <<up, log, sent>>
    PROVE  Served' /\ ServerGrows
<1>1. InFlight' = InFlight /\ OnceEach(up)' = OnceEach(up)
  BY DEF InFlight
<1>2. Logged' = Logged /\ SentOps' = SentOps
  BY DEF Logged, SentOps
<1> QED
  BY <1>1, <1>2 DEF Served, ServerGrows

LEMMA ServedStep ==
    ASSUME ExecTypes, SentOnce, Served, Next
    PROVE  Served' /\ ServerGrows
<1> USE DEF worker, authority, admission, completions, network, observed, Goto, Publish
<1>1. ASSUME NEW op \in Ops, RefuseAdmission(op) PROVE Served' /\ ServerGrows
  BY <1>1, ServedUndisturbed DEF RefuseAdmission
<1>2. ASSUME NEW op \in Ops, WaitDispatchTurn(op) PROVE Served' /\ ServerGrows
  BY <1>2, ServedUndisturbed DEF WaitDispatchTurn
<1>3. ASSUME NEW op \in Ops, Dispatch(op) PROVE Served' /\ ServerGrows
  BY <1>3, ServedUndisturbed DEF Dispatch
<1>4. ASSUME NEW op \in Ops, RefuseAdmitted(op) PROVE Served' /\ ServerGrows
  BY <1>4, ServedUndisturbed DEF RefuseAdmitted
<1>5. ASSUME NEW op \in Ops, SendOperation(op) PROVE Served' /\ ServerGrows
  <2> DEFINE e == [op |-> op, via |-> via[op]]
  <2>1. e.op = op /\ e \in Submissions
    BY DEF ExecTypes, GoroutineTypes, Submissions
  <2>2. pc[op] = "send" /\ UNCHANGED log
    BY <1>5 DEF SendOperation
  <2>3. \/ UNCHANGED <<up, sent>>
        \/ sent' = sent \cup {e} /\ up' \in {up, Append(up, e)}
    BY <1>5 DEF SendOperation, Deliver
  <2> HIDE DEF e
  <2>4. op \notin SentOps
    BY <2>2 DEF SentOps, SentOnce, PastSend
  <2>5. CASE UNCHANGED <<up, sent>>
    BY <2>2, <2>5, ServedUndisturbed
  <2>6. CASE sent' = sent \cup {e} /\ UNCHANGED up
    <3>1. InFlight' = InFlight /\ OnceEach(up)' = OnceEach(up) /\ Logged' = Logged
      BY <2>2, <2>6 DEF InFlight, Logged
    <3>2. SentOps \subseteq SentOps'
      BY <2>6 DEF SentOps
    <3> QED
      BY <3>1, <3>2 DEF Served, ServerGrows
  <2>7. CASE sent' = sent \cup {e} /\ up' = Append(up, e)
    <3>1. OpsOf(up') = OpsOf(up) \cup {op} /\ OnceEach(up')
      BY <2>1, <2>4, <2>7, OpsOfAppend DEF ExecTypes, NetworkTypes, Served, InFlight
    <3>2. SentOps' = SentOps \cup {op}
      BY <2>1, <2>7 DEF SentOps
    <3>3. Logged' = Logged /\ InFlight' = InFlight \cup {op}
      BY <2>2, <3>1 DEF Logged, InFlight
    <3> QED
      BY <2>2, <2>4, <3>1, <3>2, <3>3 DEF Served, ServerGrows
  <2> QED
    BY <2>3, <2>5, <2>6, <2>7
<1>6. ASSUME NEW op \in Ops, FailPending(op) PROVE Served' /\ ServerGrows
  BY <1>6, ServedUndisturbed DEF FailPending
<1>7. ASSUME NEW op \in Ops, FinishAdmission(op) PROVE Served' /\ ServerGrows
  BY <1>7, ServedUndisturbed DEF FinishAdmission
<1>8. ASSUME NEW op \in Ops, Await(op) PROVE Served' /\ ServerGrows
  BY <1>8, ServedUndisturbed DEF Await
<1>9. ASSUME NEW op \in Ops, RecordCompletion(op) PROVE Served' /\ ServerGrows
  BY <1>9, ServedUndisturbed DEF RecordCompletion
<1>10. ASSUME NEW op \in Ops, DrainCompletions(op) PROVE Served' /\ ServerGrows
  BY <1>10, ServedUndisturbed DEF DrainCompletions
<1>11. ASSUME NEW op \in Ops, Call(op) PROVE Served' /\ ServerGrows
  BY <1>11, ServedUndisturbed DEF Call
<1>12. ASSUME NEW op \in Ops, DismissConflict(op) PROVE Served' /\ ServerGrows
  BY <1>12, ServedUndisturbed DEF DismissConflict
<1>13. ASSUME NEW op \in Ops, BuildConflictRebuild(op) PROVE Served' /\ ServerGrows
  BY <1>13, ServedUndisturbed DEF BuildConflictRebuild
<1>14. ASSUME NEW op \in Ops, Unclaim(op) PROVE Served' /\ ServerGrows
  BY <1>14, ServedUndisturbed DEF Unclaim
<1>15. ASSUME NEW op \in Ops, ReserveAdmission(op) PROVE Served' /\ ServerGrows
  BY <1>15, ServedUndisturbed DEF ReserveAdmission
<1>16. ASSUME NEW op \in Ops, DiscardConflict(op) PROVE Served' /\ ServerGrows
  BY <1>16, ServedUndisturbed DEF DiscardConflict
<1>17. ASSUME NEW op \in Ops, NEW rebuilt \in Rebuilds, RebuildConflict(op, rebuilt)
       PROVE  Served' /\ ServerGrows
  BY <1>17, ServedUndisturbed DEF RebuildConflict
<1>18. CASE Terminate
  BY <1>18, ServedUndisturbed DEF Terminate
<1>19. CASE Suspend
  BY <1>19, ServedUndisturbed DEF Suspend
<1>20. CASE Resume
  BY <1>20, ServedUndisturbed DEF Resume
<1>21. CASE ReplaceAcknowledgedSnapshot
  BY <1>21, ServedUndisturbed DEF ReplaceAcknowledgedSnapshot
<1>22. CASE ReceiveAccepted
  BY <1>22, ServedUndisturbed DEF ReceiveAccepted
<1>23. CASE ReceiveRejected
  BY <1>23, ServedUndisturbed DEF ReceiveRejected
<1>24. CASE ServerTake
  <2> DEFINE o == Head(up).op
  <2>1. up # << >> /\ up' = Tail(up) /\ UNCHANGED sent /\ (UNCHANGED log \/ log' = Append(log, o))
    BY <1>24 DEF ServerTake
  <2>2. o \in InFlight /\ InFlight' = InFlight \ {o} /\ OnceEach(up')
    BY <2>1, OpsOfTail DEF ExecTypes, NetworkTypes, Served, InFlight
  <2>3. o \in Ops
    <3>1. Head(up) \in Submissions
      BY <2>1, HeadTail DEF ExecTypes, NetworkTypes
    <3> QED
      BY <3>1 DEF Submissions
  <2> HIDE DEF o
  <2>4. Logged' = Logged \/ Logged' = Logged \cup {o}
    <3>1. CASE UNCHANGED log
      BY <3>1 DEF Logged
    <3>2. CASE log' = Append(log, o)
      BY <2>3, <3>2, LoggedAppend DEF Logged, ExecTypes, NetworkTypes
    <3> QED
      BY <2>1, <3>1, <3>2
  <2>5. SentOps' = SentOps
    BY <2>1 DEF SentOps
  <2> QED
    BY <2>2, <2>4, <2>5 DEF Served, ServerGrows
<1>25. CASE Break
  <2>1. PICK n \in 0..Len(up) : up' = SubSeq(up, 1, n)
    BY <1>25 DEF Break
  <2>2. InFlight' \subseteq InFlight /\ OnceEach(up')
    BY <2>1, OpsOfPrefix DEF ExecTypes, NetworkTypes, Served, InFlight
  <2>3. Logged' = Logged /\ SentOps' = SentOps
    BY <1>25 DEF Break, Logged, SentOps
  <2> QED
    BY <2>2, <2>3 DEF Served, ServerGrows
<1> QED
  BY <1>1, <1>2, <1>3, <1>4, <1>5, <1>6, <1>7, <1>8, <1>9, <1>10, <1>11, <1>12, <1>13,
     <1>14, <1>15, <1>16, <1>17, <1>18, <1>19, <1>20, <1>21, <1>22, <1>23, <1>24, <1>25
     DEF Next, Step, User, Connection

LEMMA NeverSentStep ==
    ASSUME ExecTypes, Admission, Next
    PROVE  \A o \in Ops : NeverSent(o) => NeverSent(o)'
<1> USE DEF worker, authority, admission, completions, network, observed, Goto, Publish
<1>1. ASSUME NEW op \in Ops, RefuseAdmission(op) PROVE \A o \in Ops : NeverSent(o) => NeverSent(o)'
  BY <1>1 DEF NeverSent, Interrupted, Waiting, ExecTypes, GoroutineTypes, RefuseAdmission
<1>2. ASSUME NEW op \in Ops, WaitDispatchTurn(op) PROVE \A o \in Ops : NeverSent(o) => NeverSent(o)'
  BY <1>2 DEF NeverSent, Interrupted, Waiting, ExecTypes, GoroutineTypes, WaitDispatchTurn
<1>3. ASSUME NEW op \in Ops, Dispatch(op) PROVE \A o \in Ops : NeverSent(o) => NeverSent(o)'
  BY <1>3 DEF NeverSent, Interrupted, Waiting, ExecTypes, GoroutineTypes, Dispatch
<1>4. ASSUME NEW op \in Ops, RefuseAdmitted(op) PROVE \A o \in Ops : NeverSent(o) => NeverSent(o)'
  BY <1>4 DEF NeverSent, Interrupted, Waiting, ExecTypes, GoroutineTypes, RefuseAdmitted
<1>5. ASSUME NEW op \in Ops, SendOperation(op) PROVE \A o \in Ops : NeverSent(o) => NeverSent(o)'
  BY <1>5 DEF NeverSent, Interrupted, Waiting, ExecTypes, GoroutineTypes, SendOperation
<1>6. ASSUME NEW op \in Ops, FailPending(op) PROVE \A o \in Ops : NeverSent(o) => NeverSent(o)'
  BY <1>6 DEF NeverSent, Interrupted, Waiting, ExecTypes, GoroutineTypes, FailPending
<1>7. ASSUME NEW op \in Ops, FinishAdmission(op) PROVE \A o \in Ops : NeverSent(o) => NeverSent(o)'
  BY <1>7 DEF NeverSent, Interrupted, Waiting, ExecTypes, GoroutineTypes, FinishAdmission
<1>8. ASSUME NEW op \in Ops, Await(op) PROVE \A o \in Ops : NeverSent(o) => NeverSent(o)'
  BY <1>8 DEF NeverSent, Interrupted, Waiting, ExecTypes, GoroutineTypes, Await
<1>9. ASSUME NEW op \in Ops, RecordCompletion(op) PROVE \A o \in Ops : NeverSent(o) => NeverSent(o)'
  BY <1>9 DEF AfterRecord, NeverSent, Interrupted, Waiting, ExecTypes, GoroutineTypes, RecordCompletion
<1>10. ASSUME NEW op \in Ops, DrainCompletions(op) PROVE \A o \in Ops : NeverSent(o) => NeverSent(o)'
  BY <1>10 DEF AfterRecord, NeverSent, Interrupted, Waiting, ExecTypes, GoroutineTypes, DrainCompletions
<1>11. ASSUME NEW op \in Ops, Call(op) PROVE \A o \in Ops : NeverSent(o) => NeverSent(o)'
  BY <1>11 DEF NeverSent, Interrupted, Waiting, ExecTypes, GoroutineTypes, Call
<1>12. ASSUME NEW op \in Ops, DismissConflict(op) PROVE \A o \in Ops : NeverSent(o) => NeverSent(o)'
  BY <1>12 DEF NeverSent, Interrupted, Waiting, ExecTypes, GoroutineTypes, DismissConflict
<1>13. ASSUME NEW op \in Ops, BuildConflictRebuild(op) PROVE \A o \in Ops : NeverSent(o) => NeverSent(o)'
  BY <1>13 DEF NeverSent, Interrupted, Waiting, ExecTypes, GoroutineTypes, BuildConflictRebuild
<1>14. ASSUME NEW op \in Ops, Unclaim(op) PROVE \A o \in Ops : NeverSent(o) => NeverSent(o)'
  BY <1>14 DEF NeverSent, Interrupted, Waiting, ExecTypes, GoroutineTypes, Unclaim
<1>15. ASSUME NEW op \in Ops, ReserveAdmission(op) PROVE \A o \in Ops : NeverSent(o) => NeverSent(o)'
  BY <1>15
     DEF AdmissionTypes, Unadmitted, Admission, NeverSent, Interrupted, Waiting, ExecTypes, GoroutineTypes,
         ReserveAdmission
<1>16. ASSUME NEW op \in Ops, DiscardConflict(op) PROVE \A o \in Ops : NeverSent(o) => NeverSent(o)'
  BY <1>16 DEF NeverSent, Interrupted, Waiting, ExecTypes, GoroutineTypes, DiscardConflict
<1>17. ASSUME NEW op \in Ops, NEW rebuilt \in Rebuilds, RebuildConflict(op, rebuilt)
       PROVE  \A o \in Ops : NeverSent(o) => NeverSent(o)'
  BY <1>17 DEF NeverSent, Interrupted, Waiting, ExecTypes, GoroutineTypes, RebuildConflict
<1>18. CASE Terminate
  BY <1>18
     DEF ClearPending, InterruptionMark, AdmissionTypes, NeverSent, Interrupted, Waiting, ExecTypes,
         GoroutineTypes, Terminate
<1>19. CASE Suspend
  BY <1>19
     DEF ClearPending, InterruptionMark, AdmissionTypes, NeverSent, Interrupted, Waiting, ExecTypes,
         GoroutineTypes, Suspend
<1>20. CASE Resume
  BY <1>20 DEF NeverSent, Interrupted, Waiting, ExecTypes, GoroutineTypes, Resume
<1>21. CASE ReplaceAcknowledgedSnapshot
  BY <1>21 DEF NeverSent, Interrupted, Waiting, ExecTypes, GoroutineTypes, ReplaceAcknowledgedSnapshot
<1>22. CASE ReceiveAccepted
  BY <1>22 DEF NeverSent, Interrupted, Waiting, ExecTypes, GoroutineTypes, ReceiveAccepted
<1>23. CASE ReceiveRejected
  BY <1>23
     DEF ClearPending, InterruptionMark, AdmissionTypes, NeverSent, Interrupted, Waiting, ExecTypes,
         GoroutineTypes, ReceiveRejected
<1>24. CASE ServerTake
  BY <1>24 DEF NeverSent, Interrupted, Waiting, ExecTypes, GoroutineTypes, ServerTake
<1>25. CASE Break
  BY <1>25 DEF NeverSent, Interrupted, Waiting, ExecTypes, GoroutineTypes, Break
<1> QED
  BY <1>1, <1>2, <1>3, <1>4, <1>5, <1>6, <1>7, <1>8, <1>9, <1>10, <1>11, <1>12, <1>13,
     <1>14, <1>15, <1>16, <1>17, <1>18, <1>19, <1>20, <1>21, <1>22, <1>23, <1>24, <1>25
     DEF Next, Step, User, Connection

LEMMA NeverAcceptedStep ==
    ASSUME ExecTypes, Admission, SentOnce, Served, Next
    PROVE  \A op \in Ops : NeverAccepted(op) => NeverAccepted(op)'
<1>1. ServerGrows /\ \A o \in Ops : NeverSent(o) => NeverSent(o)'
  BY ServedStep, NeverSentStep
<1>2. \A op \in Ops : NeverSent(op) => pc[op] # "send"
  BY DEF NeverSent, Waiting
<1> QED
  BY <1>1, <1>2 DEF NeverAccepted, ServerGrows

LEMMA TruthStays ==
    ASSUME ExecTypes, Admission, SentOnce, Served, Next, NEW message \in Messages, TellsTruth(message)
    PROVE  TellsTruth(message)'
<1>1. message.op \in Ops
  BY DEF Messages
<1>2. ServerGrows
  BY ServedStep
<1> QED
  BY <1>1, <1>2, NeverAcceptedStep DEF TellsTruth, ServerGrows

LEMMA ToldStays ==
    ASSUME ExecTypes, Admission, SentOnce, Served, Told, Next, InTransit' \subseteq InTransit
    PROVE  Told'
<1> SUFFICES ASSUME NEW message \in Messages, message \in InTransit' PROVE TellsTruth(message)'
  BY DEF Told
<1>1. TellsTruth(message)
  BY DEF Told
<1> QED
  BY <1>1, TruthStays

LEMMA NextMessageTold ==
    ASSUME NetworkTypes, down # << >>
    PROVE  /\ Head(down) \in InTransit /\ Head(down) \in Messages
           /\ {Tail(down)[i] : i \in 1..Len(Tail(down))} \subseteq InTransit
<1>1. /\ Head(down) = down[1] /\ Len(down) \in Nat /\ Len(down) # 0 /\ Len(Tail(down)) = Len(down) - 1
      /\ \A i \in 1..(Len(down) - 1) : Tail(down)[i] = down[i + 1]
  BY DEF NetworkTypes
<1>2. Head(down) \in Messages
  BY HeadTail DEF NetworkTypes
<1>3. 1 \in 1..Len(down) /\ \A i \in 1..(Len(down) - 1) : i + 1 \in 1..Len(down)
  BY <1>1
<1> QED
  BY <1>1, <1>2, <1>3 DEF InTransit

LEMMA AppendedMessage ==
    ASSUME NetworkTypes, NEW message \in Messages
    PROVE  {Append(down, message)[i] : i \in 1..Len(Append(down, message))} = InTransit \cup {message}
<1> DEFINE n == Len(down)
           t == Append(down, message)
<1>1. n \in Nat /\ Len(t) = n + 1 /\ t[n + 1] = message /\ \A i \in 1..n : t[i] = down[i]
  BY DEF NetworkTypes
<1> HIDE DEF t, n
<1>2. \A i \in 1..(n + 1) : i \in 1..n \/ i = n + 1
  BY <1>1
<1>3. 1..n \subseteq 1..(n + 1) /\ n + 1 \in 1..(n + 1)
  BY <1>1
<1>4. {t[i] : i \in 1..(n + 1)} = {down[i] : i \in 1..n} \cup {message}
  BY <1>1, <1>2, <1>3
<1> QED
  BY <1>1, <1>4 DEF t, n, InTransit

LEMMA ToldStep ==
    ASSUME ExecTypes, Admission, SentOnce, Served, Told, Next
    PROVE  Told'
<1> USE DEF worker, authority, admission, completions, network, observed, Goto, Publish
<1>1. ASSUME NEW op \in Ops, RefuseAdmission(op) PROVE Told'
  BY <1>1, ToldStays DEF RefuseAdmission, InTransit
<1>2. ASSUME NEW op \in Ops, WaitDispatchTurn(op) PROVE Told'
  BY <1>2, ToldStays DEF WaitDispatchTurn, InTransit
<1>3. ASSUME NEW op \in Ops, Dispatch(op) PROVE Told'
  BY <1>3, ToldStays DEF Dispatch, InTransit
<1>4. ASSUME NEW op \in Ops, RefuseAdmitted(op) PROVE Told'
  BY <1>4, ToldStays DEF RefuseAdmitted, InTransit
<1>5. ASSUME NEW op \in Ops, SendOperation(op) PROVE Told'
  BY <1>5, ToldStays DEF SendOperation, InTransit
<1>6. ASSUME NEW op \in Ops, FailPending(op) PROVE Told'
  BY <1>6, ToldStays DEF FailPending, InTransit
<1>7. ASSUME NEW op \in Ops, FinishAdmission(op) PROVE Told'
  BY <1>7, ToldStays DEF FinishAdmission, InTransit
<1>8. ASSUME NEW op \in Ops, Await(op) PROVE Told'
  BY <1>8, ToldStays DEF Await, InTransit
<1>9. ASSUME NEW op \in Ops, RecordCompletion(op) PROVE Told'
  BY <1>9, ToldStays DEF RecordCompletion, InTransit
<1>10. ASSUME NEW op \in Ops, DrainCompletions(op) PROVE Told'
  BY <1>10, ToldStays DEF DrainCompletions, InTransit
<1>11. ASSUME NEW op \in Ops, Call(op) PROVE Told'
  BY <1>11, ToldStays DEF Call, InTransit
<1>12. ASSUME NEW op \in Ops, DismissConflict(op) PROVE Told'
  BY <1>12, ToldStays DEF DismissConflict, InTransit
<1>13. ASSUME NEW op \in Ops, BuildConflictRebuild(op) PROVE Told'
  BY <1>13, ToldStays DEF BuildConflictRebuild, InTransit
<1>14. ASSUME NEW op \in Ops, Unclaim(op) PROVE Told'
  BY <1>14, ToldStays DEF Unclaim, InTransit
<1>15. ASSUME NEW op \in Ops, ReserveAdmission(op) PROVE Told'
  BY <1>15, ToldStays DEF ReserveAdmission, InTransit
<1>16. ASSUME NEW op \in Ops, DiscardConflict(op) PROVE Told'
  BY <1>16, ToldStays DEF DiscardConflict, InTransit
<1>17. ASSUME NEW op \in Ops, NEW rebuilt \in Rebuilds, RebuildConflict(op, rebuilt) PROVE Told'
  BY <1>17, ToldStays DEF RebuildConflict, InTransit
<1>18. CASE Terminate
  <2>1. InTransit' \subseteq InTransit
    BY <1>18 DEF Terminate, InTransit
  <2> QED
    BY <2>1, ToldStays
<1>19. CASE Suspend
  BY <1>19, ToldStays DEF Suspend, InTransit
<1>20. CASE Resume
  <2>1. CASE down' = << >>
    <3>1. InTransit' \subseteq InTransit
      BY <2>1 DEF InTransit
    <3> QED
      BY <3>1, ToldStays
  <2>2. CASE down' = Rows
    <3>1. ASSUME NEW message \in InTransit' PROVE message.kind = "accepted" /\ message.op \in Logged
      <4>1. PICK i \in 1..(Len(log) - acked) : message = [op |-> log[acked + i], kind |-> "accepted"]
        <5>1. CASE Len(log) - acked \in Nat
          BY <2>2, <3>1, <5>1 DEF Rows, InTransit
        <5>2. CASE Len(log) - acked \notin Nat
          <6>1. 1..(Len(log) - acked) = {}
            BY <5>2 DEF ExecTypes, NetworkTypes
          <6>2. Rows = << >>
            BY <6>1 DEF Rows
          <6> QED
            BY <2>2, <3>1, <6>2 DEF InTransit
        <5> QED
          BY <5>1, <5>2
      <4>2. acked + i \in 1..Len(log)
        BY DEF ExecTypes, NetworkTypes
      <4> QED
        BY <4>1, <4>2 DEF Logged
    <3>2. Logged' = Logged
      BY <1>20 DEF Resume, Logged
    <3> QED
      BY <3>1, <3>2 DEF Told, TellsTruth
  <2> QED
    BY <1>20, <2>1, <2>2 DEF Resume
<1>21. CASE ReplaceAcknowledgedSnapshot
  BY <1>21, ToldStays DEF ReplaceAcknowledgedSnapshot, InTransit
<1>22. CASE ReceiveAccepted
  <2>1. down # << >> /\ down' = Tail(down)
    BY <1>22 DEF ReceiveAccepted
  <2>2. InTransit' \subseteq InTransit
    BY <2>1, NextMessageTold DEF ExecTypes, InTransit
  <2> QED
    BY <2>2, ToldStays
<1>23. CASE ReceiveRejected
  <2>1. down # << >> /\ (down' = Tail(down) \/ down' = << >>)
    BY <1>23 DEF ReceiveRejected
  <2>2. CASE down' = Tail(down)
    <3>1. InTransit' \subseteq InTransit
      BY <2>1, <2>2, NextMessageTold DEF ExecTypes, InTransit
    <3> QED
      BY <3>1, ToldStays
  <2>3. CASE down' = << >>
    <3>1. InTransit' \subseteq InTransit
      BY <2>3 DEF InTransit
    <3> QED
      BY <3>1, ToldStays
  <2> QED
    BY <2>1, <2>2, <2>3
<1>24. CASE ServerTake
  <2>0. PICK o : o = Head(up).op
    OBVIOUS
  <2>1. up # << >> /\ up' = Tail(up) /\ UNCHANGED <<pc, sent, ticket, interruptedBefore>>
    BY <1>24 DEF ServerTake
  <2>2. Head(up) \in Submissions /\ o \in InFlight /\ InFlight' = InFlight \ {o}
    BY <2>0, <2>1, HeadTail, OpsOfTail DEF ExecTypes, NetworkTypes, Served, InFlight
  <2>3. o \in Ops /\ o \notin Logged /\ pc[o] \in PastSend
    BY <2>0, <2>2 DEF Served, SentOps, SentOnce, Submissions
  <2>4. PICK yes : yes = [op |-> o, kind |-> "accepted"]
    OBVIOUS
  <2>5. PICK no : no = [op |-> o, kind |-> "rejected"]
    OBVIOUS
  <2>6. yes \in Messages /\ no \in Messages
    BY <2>3, <2>4, <2>5 DEF Messages
  <2>7. CASE UNCHANGED down
    BY <2>7, ToldStays DEF InTransit
  <2>8. CASE log' = Append(log, o) /\ down' = Append(down, yes)
    <3>1. InTransit' = InTransit \cup {yes}
      BY <2>6, <2>8, AppendedMessage DEF ExecTypes, InTransit
    <3>2. o \in Logged'
      BY <2>3, <2>8, LoggedAppend DEF ExecTypes, NetworkTypes, Logged
    <3>3. TellsTruth(yes)'
      BY <2>4, <3>2 DEF TellsTruth
    <3> QED
      BY <3>1, <3>3, TruthStays DEF Told
  <2>9. CASE UNCHANGED log /\ down' = Append(down, no)
    <3>1. InTransit' = InTransit \cup {no}
      BY <2>6, <2>9, AppendedMessage DEF ExecTypes, InTransit
    <3>2. NeverAccepted(o)'
      <4>1. o \notin Logged' /\ o \notin InFlight'
        BY <2>2, <2>3, <2>9 DEF Logged
      <4>2. NeverSent(o)'
        BY <2>1, <2>3 DEF NeverSent, PastSend, Waiting
      <4> QED
        BY <4>1, <4>2 DEF NeverAccepted
    <3>3. TellsTruth(no)'
      BY <2>5, <3>2 DEF TellsTruth
    <3> QED
      BY <3>1, <3>3, TruthStays DEF Told
  <2> QED
    BY <1>24, <2>0, <2>4, <2>5, <2>7, <2>8, <2>9 DEF ServerTake
<1>25. CASE Break
  <2>1. InTransit' \subseteq InTransit
    BY <1>25 DEF Break, InTransit
  <2> QED
    BY <2>1, ToldStays
<1> QED
  BY <1>1, <1>2, <1>3, <1>4, <1>5, <1>6, <1>7, <1>8, <1>9, <1>10, <1>11, <1>12, <1>13,
     <1>14, <1>15, <1>16, <1>17, <1>18, <1>19, <1>20, <1>21, <1>22, <1>23, <1>24, <1>25
     DEF Next, Step, User, Connection

-----------------------------------------------------------------------------------
(* Drafts are about edits whose fate is open. *)
LEMMA NotSentYet ==
    ASSUME SentOnce, Served, NEW op, pc[op] \notin PastSend
    PROVE  op \notin SentOps /\ op \notin Logged /\ op \notin InFlight
BY DEF SentOnce, Served, SentOps

LEMMA NextMessageTruth ==
    ASSUME ExecTypes, Told, down # << >>
    PROVE  Head(down).op \in Ops /\ TellsTruth(Head(down))
BY NextMessage, NextMessageTold DEF ExecTypes, Told

LEMMA AcceptedLoggedStep ==
    ASSUME ExecTypes, SentOnce, Served, Told, AcceptedLogged, Next
    PROVE  AcceptedLogged'
<1> USE DEF worker, authority, admission, completions, network, observed, Goto, Publish
<1>0. Logged \subseteq Logged'
  BY ServedStep DEF ServerGrows
<1>1. ASSUME NEW op \in Ops, RefuseAdmission(op) PROVE AcceptedLogged'
  BY <1>0, <1>1 DEF RefuseAdmission, AcceptedLogged
<1>2. ASSUME NEW op \in Ops, WaitDispatchTurn(op) PROVE AcceptedLogged'
  BY <1>0, <1>2 DEF WaitDispatchTurn, AcceptedLogged
<1>3. ASSUME NEW op \in Ops, Dispatch(op) PROVE AcceptedLogged'
  <2>1. op \notin accepted
    BY <1>3, NotSentYet DEF Dispatch, PastSend, AcceptedLogged
  <2> QED
    BY <1>0, <1>3, <2>1 DEF Dispatch, AcceptedLogged
<1>4. ASSUME NEW op \in Ops, RefuseAdmitted(op) PROVE AcceptedLogged'
  BY <1>0, <1>4 DEF RefuseAdmitted, AcceptedLogged
<1>5. ASSUME NEW op \in Ops, SendOperation(op) PROVE AcceptedLogged'
  BY <1>0, <1>5 DEF SendOperation, AcceptedLogged
<1>6. ASSUME NEW op \in Ops, FailPending(op) PROVE AcceptedLogged'
  BY <1>0, <1>6 DEF FailPending, AcceptedLogged
<1>7. ASSUME NEW op \in Ops, FinishAdmission(op) PROVE AcceptedLogged'
  BY <1>0, <1>7 DEF FinishAdmission, AcceptedLogged
<1>8. ASSUME NEW op \in Ops, Await(op) PROVE AcceptedLogged'
  BY <1>0, <1>8 DEF Await, AcceptedLogged
<1>9. ASSUME NEW op \in Ops, RecordCompletion(op) PROVE AcceptedLogged'
  BY <1>0, <1>9 DEF RecordCompletion, AcceptedLogged
<1>10. ASSUME NEW op \in Ops, DrainCompletions(op) PROVE AcceptedLogged'
  BY <1>0, <1>10 DEF DrainCompletions, AcceptedLogged
<1>11. ASSUME NEW op \in Ops, Call(op) PROVE AcceptedLogged'
  BY <1>0, <1>11 DEF Call, AcceptedLogged
<1>12. ASSUME NEW op \in Ops, DismissConflict(op) PROVE AcceptedLogged'
  BY <1>0, <1>12 DEF DismissConflict, AcceptedLogged
<1>13. ASSUME NEW op \in Ops, BuildConflictRebuild(op) PROVE AcceptedLogged'
  BY <1>0, <1>13 DEF BuildConflictRebuild, AcceptedLogged
<1>14. ASSUME NEW op \in Ops, Unclaim(op) PROVE AcceptedLogged'
  BY <1>0, <1>14 DEF Unclaim, AcceptedLogged
<1>15. ASSUME NEW op \in Ops, ReserveAdmission(op) PROVE AcceptedLogged'
  BY <1>0, <1>15 DEF ReserveAdmission, AcceptedLogged
<1>16. ASSUME NEW op \in Ops, DiscardConflict(op) PROVE AcceptedLogged'
  BY <1>0, <1>16 DEF DiscardConflict, AcceptedLogged
<1>17. ASSUME NEW op \in Ops, NEW rebuilt \in Rebuilds, RebuildConflict(op, rebuilt)
       PROVE  AcceptedLogged'
  BY <1>0, <1>17 DEF RebuildConflict, AcceptedLogged
<1>18. CASE Terminate
  BY <1>0, <1>18 DEF Terminate, AcceptedLogged, ClearPending
<1>19. CASE Suspend
  BY <1>0, <1>19 DEF Suspend, AcceptedLogged, ClearPending
<1>20. CASE Resume
  BY <1>0, <1>20 DEF Resume, AcceptedLogged
<1>21. CASE ReplaceAcknowledgedSnapshot
  BY <1>0, <1>21 DEF ReplaceAcknowledgedSnapshot, AcceptedLogged
<1>22. CASE ReceiveAccepted
  <2> DEFINE o == Head(down).op
  <2>1. o \in Logged
    BY <1>22, NextMessageTruth DEF ReceiveAccepted, TellsTruth
  <2>2. \/ UNCHANGED <<accepted, pending>>
        \/ accepted' = accepted \cup {o} /\ pending' = pending \ {o}
    BY <1>22 DEF ReceiveAccepted, Resolve
  <2> QED
    BY <1>0, <2>1, <2>2 DEF AcceptedLogged
<1>23. CASE ReceiveRejected
  <2>1. UNCHANGED accepted /\ pending' \subseteq pending
    BY <1>23 DEF ReceiveRejected, Resolve, ClearPending
  <2> QED
    BY <1>0, <2>1 DEF AcceptedLogged
<1>24. CASE ServerTake
  BY <1>0, <1>24 DEF ServerTake, AcceptedLogged
<1>25. CASE Break
  BY <1>0, <1>25 DEF Break, AcceptedLogged
<1> QED
  BY <1>1, <1>2, <1>3, <1>4, <1>5, <1>6, <1>7, <1>8, <1>9, <1>10, <1>11, <1>12, <1>13,
     <1>14, <1>15, <1>16, <1>17, <1>18, <1>19, <1>20, <1>21, <1>22, <1>23, <1>24, <1>25
     DEF Next, Step, User, Connection

LEMMA FailedUnsentStep ==
    ASSUME ExecTypes, SentOnce, Served, FailedUnsent, Next
    PROVE  FailedUnsent'
<1> USE DEF worker, authority, admission, completions, network, observed, Goto, Publish
<1>1. ASSUME NEW op \in Ops, RefuseAdmission(op) PROVE FailedUnsent'
  BY <1>1 DEF RefuseAdmission, FailedUnsent, SentOps, ExecTypes, GoroutineTypes
<1>2. ASSUME NEW op \in Ops, WaitDispatchTurn(op) PROVE FailedUnsent'
  BY <1>2 DEF WaitDispatchTurn, FailedUnsent, SentOps, ExecTypes, GoroutineTypes
<1>3. ASSUME NEW op \in Ops, Dispatch(op) PROVE FailedUnsent'
  BY <1>3 DEF Dispatch, FailedUnsent, SentOps, ExecTypes, GoroutineTypes
<1>4. ASSUME NEW op \in Ops, RefuseAdmitted(op) PROVE FailedUnsent'
  <2>1. op \notin SentOps
    BY <1>4, NotSentYet DEF RefuseAdmitted, PastSend
  <2> QED
    BY <1>4, <2>1 DEF RefuseAdmitted, FailedUnsent, SentOps, ExecTypes, GoroutineTypes
<1>5. ASSUME NEW op \in Ops, SendOperation(op) PROVE FailedUnsent'
  <2>1. op \notin SentOps
    BY <1>5, NotSentYet DEF SendOperation, PastSend
  <2>2. \A o \in Ops : o # op => pc'[o] = pc[o]
    BY <1>5 DEF SendOperation, ExecTypes, GoroutineTypes
  <2>3. late \subseteq late' /\ SentOps' \subseteq SentOps \cup {op}
    BY <1>5 DEF SendOperation, SentOps
  <2>4. pc'[op] = "finishsent" \/ op \in late' \/ UNCHANGED sent
    BY <1>5 DEF SendOperation, ExecTypes, GoroutineTypes
  <2> QED
    BY <2>1, <2>2, <2>3, <2>4 DEF FailedUnsent, SentOps
<1>6. ASSUME NEW op \in Ops, FailPending(op) PROVE FailedUnsent'
  BY <1>6 DEF FailPending, FailedUnsent, SentOps, ExecTypes, GoroutineTypes
<1>7. ASSUME NEW op \in Ops, FinishAdmission(op) PROVE FailedUnsent'
  BY <1>7 DEF FinishAdmission, FailedUnsent, SentOps, ExecTypes, GoroutineTypes
<1>8. ASSUME NEW op \in Ops, Await(op) PROVE FailedUnsent'
  BY <1>8 DEF Await, FailedUnsent, SentOps, ExecTypes, GoroutineTypes
<1>9. ASSUME NEW op \in Ops, RecordCompletion(op) PROVE FailedUnsent'
  BY <1>9 DEF RecordCompletion, AfterRecord, FailedUnsent, SentOps, ExecTypes, GoroutineTypes
<1>10. ASSUME NEW op \in Ops, DrainCompletions(op) PROVE FailedUnsent'
  BY <1>10 DEF DrainCompletions, AfterRecord, FailedUnsent, SentOps, ExecTypes, GoroutineTypes
<1>11. ASSUME NEW op \in Ops, Call(op) PROVE FailedUnsent'
  BY <1>11 DEF Call, FailedUnsent, SentOps, ExecTypes, GoroutineTypes
<1>12. ASSUME NEW op \in Ops, DismissConflict(op) PROVE FailedUnsent'
  BY <1>12 DEF DismissConflict, FailedUnsent, SentOps, ExecTypes, GoroutineTypes
<1>13. ASSUME NEW op \in Ops, BuildConflictRebuild(op) PROVE FailedUnsent'
  BY <1>13 DEF BuildConflictRebuild, FailedUnsent, SentOps, ExecTypes, GoroutineTypes
<1>14. ASSUME NEW op \in Ops, Unclaim(op) PROVE FailedUnsent'
  BY <1>14 DEF Unclaim, FailedUnsent, SentOps, ExecTypes, GoroutineTypes
<1>15. ASSUME NEW op \in Ops, ReserveAdmission(op) PROVE FailedUnsent'
  BY <1>15 DEF ReserveAdmission, FailedUnsent, SentOps, ExecTypes, GoroutineTypes
<1>16. ASSUME NEW op \in Ops, DiscardConflict(op) PROVE FailedUnsent'
  BY <1>16 DEF DiscardConflict, FailedUnsent, SentOps, ExecTypes, GoroutineTypes
<1>17. ASSUME NEW op \in Ops, NEW rebuilt \in Rebuilds, RebuildConflict(op, rebuilt) PROVE FailedUnsent'
  BY <1>17 DEF RebuildConflict, FailedUnsent, SentOps, ExecTypes, GoroutineTypes
<1>18. CASE Terminate
  BY <1>18 DEF Terminate, FailedUnsent, SentOps, ExecTypes, GoroutineTypes
<1>19. CASE Suspend
  BY <1>19 DEF Suspend, FailedUnsent, SentOps, ExecTypes, GoroutineTypes
<1>20. CASE Resume
  BY <1>20 DEF Resume, FailedUnsent, SentOps, ExecTypes, GoroutineTypes
<1>21. CASE ReplaceAcknowledgedSnapshot
  BY <1>21 DEF ReplaceAcknowledgedSnapshot, FailedUnsent, SentOps, ExecTypes, GoroutineTypes
<1>22. CASE ReceiveAccepted
  BY <1>22 DEF ReceiveAccepted, FailedUnsent, SentOps, ExecTypes, GoroutineTypes
<1>23. CASE ReceiveRejected
  BY <1>23 DEF ReceiveRejected, FailedUnsent, SentOps, ExecTypes, GoroutineTypes
<1>24. CASE ServerTake
  BY <1>24 DEF ServerTake, FailedUnsent, SentOps, ExecTypes, GoroutineTypes
<1>25. CASE Break
  BY <1>25 DEF Break, FailedUnsent, SentOps, ExecTypes, GoroutineTypes
<1> QED
  BY <1>1, <1>2, <1>3, <1>4, <1>5, <1>6, <1>7, <1>8, <1>9, <1>10, <1>11, <1>12, <1>13,
     <1>14, <1>15, <1>16, <1>17, <1>18, <1>19, <1>20, <1>21, <1>22, <1>23, <1>24, <1>25
     DEF Next, Step, User, Connection

LEMMA QueuedFatesStay ==
    ASSUME ExecTypes, Admission, SentOnce, Served, QueuedFates, Next,
           \A op \in Ops : op \in queued' /\ pc'[op] \in {"send", "finishsent"} =>
               /\ op \in queued
               /\ pc[op] = "send" \/ pc'[op] = pc[op]
               /\ op \in pending => op \in pending' \cup accepted'
               /\ pc'[op] = "send" /\ op \in pending => op \in pending'
               /\ op \in accepted => op \in accepted'
    PROVE  QueuedFates'
BY NeverAcceptedStep DEF QueuedFates

LEMMA QueuedFatesStep ==
    ASSUME ExecTypes, Admission, SentOnce, Served, Told, PendingExact, QueuedFates, Next
    PROVE  QueuedFates'
<1> USE DEF worker, authority, admission, completions, network, observed, Goto, Publish
<1>1. ASSUME NEW op \in Ops, RefuseAdmission(op) PROVE QueuedFates'
  BY <1>1, QueuedFatesStay DEF RefuseAdmission, ExecTypes, GoroutineTypes
<1>2. ASSUME NEW op \in Ops, WaitDispatchTurn(op) PROVE QueuedFates'
  BY <1>2, QueuedFatesStay DEF WaitDispatchTurn, ExecTypes, GoroutineTypes
<1>3. ASSUME NEW op \in Ops, Dispatch(op) PROVE QueuedFates'
  <2>1. \A o \in Ops \ {op} : pc'[o] = pc[o]
    BY <1>3 DEF Dispatch, ExecTypes, GoroutineTypes
  <2>2. pc'[op] \notin {"send", "finishsent"} \/ (pc'[op] = "send" /\ op \in pending')
    BY <1>3 DEF Dispatch, ExecTypes, GoroutineTypes
  <2>3. UNCHANGED <<queued, accepted>> /\ pending \subseteq pending'
    BY <1>3 DEF Dispatch
  <2> QED
    BY <2>1, <2>2, <2>3, NeverAcceptedStep DEF QueuedFates
<1>4. ASSUME NEW op \in Ops, RefuseAdmitted(op) PROVE QueuedFates'
  BY <1>4, QueuedFatesStay DEF RefuseAdmitted, ExecTypes, GoroutineTypes
<1>5. ASSUME NEW op \in Ops, SendOperation(op) PROVE QueuedFates'
  BY <1>5, QueuedFatesStay DEF SendOperation, ExecTypes, GoroutineTypes
<1>6. ASSUME NEW op \in Ops, FailPending(op) PROVE QueuedFates'
  BY <1>6, QueuedFatesStay DEF FailPending, ExecTypes, GoroutineTypes
<1>7. ASSUME NEW op \in Ops, FinishAdmission(op) PROVE QueuedFates'
  BY <1>7, QueuedFatesStay DEF FinishAdmission, ExecTypes, GoroutineTypes
<1>8. ASSUME NEW op \in Ops, Await(op) PROVE QueuedFates'
  BY <1>8, QueuedFatesStay DEF Await, ExecTypes, GoroutineTypes
<1>9. ASSUME NEW op \in Ops, RecordCompletion(op) PROVE QueuedFates'
  BY <1>9, QueuedFatesStay DEF RecordCompletion, AfterRecord, ExecTypes, GoroutineTypes
<1>10. ASSUME NEW op \in Ops, DrainCompletions(op) PROVE QueuedFates'
  BY <1>10, QueuedFatesStay DEF DrainCompletions, AfterRecord, ExecTypes, GoroutineTypes
<1>11. ASSUME NEW op \in Ops, Call(op) PROVE QueuedFates'
  BY <1>11, QueuedFatesStay DEF Call, ExecTypes, GoroutineTypes
<1>12. ASSUME NEW op \in Ops, DismissConflict(op) PROVE QueuedFates'
  BY <1>12, QueuedFatesStay DEF DismissConflict, ExecTypes, GoroutineTypes
<1>13. ASSUME NEW op \in Ops, BuildConflictRebuild(op) PROVE QueuedFates'
  BY <1>13, QueuedFatesStay DEF BuildConflictRebuild, ExecTypes, GoroutineTypes
<1>14. ASSUME NEW op \in Ops, Unclaim(op) PROVE QueuedFates'
  BY <1>14, QueuedFatesStay DEF Unclaim, ExecTypes, GoroutineTypes
<1>15. ASSUME NEW op \in Ops, ReserveAdmission(op) PROVE QueuedFates'
  BY <1>15, QueuedFatesStay DEF ReserveAdmission, ExecTypes, GoroutineTypes
<1>16. ASSUME NEW op \in Ops, DiscardConflict(op) PROVE QueuedFates'
  BY <1>16, QueuedFatesStay DEF DiscardConflict, ExecTypes, GoroutineTypes
<1>17. ASSUME NEW op \in Ops, NEW rebuilt \in Rebuilds, RebuildConflict(op, rebuilt) PROVE QueuedFates'
  BY <1>17, QueuedFatesStay DEF RebuildConflict, ExecTypes, GoroutineTypes
<1>18. CASE Terminate
  BY <1>18 DEF Terminate, ClearPending, QueuedFates
<1>19. CASE Suspend
  BY <1>19 DEF Suspend, ClearPending, QueuedFates
<1>20. CASE Resume
  BY <1>20, QueuedFatesStay DEF Resume, ExecTypes, GoroutineTypes
<1>21. CASE ReplaceAcknowledgedSnapshot
  BY <1>21, QueuedFatesStay DEF ReplaceAcknowledgedSnapshot, ExecTypes, GoroutineTypes
<1>22. CASE ReceiveAccepted
  <2>0. PICK o : o = Head(down).op
    OBVIOUS
  <2>1. o \in Logged
    BY <1>22, <2>0, NextMessageTruth DEF ReceiveAccepted, TellsTruth
  <2>2. pc[o] # "send"
    BY <2>1, NotSentYet DEF PastSend
  <2>3. UNCHANGED <<queued, pc>> /\ accepted \subseteq accepted'
    BY <1>22 DEF ReceiveAccepted
  <2>4. UNCHANGED pending \/ (pending' = pending \ {o} /\ o \in accepted')
    BY <1>22, <2>0 DEF ReceiveAccepted, Resolve
  <2> QED
    BY <2>2, <2>3, <2>4, QueuedFatesStay
<1>23. CASE ReceiveRejected
  <2>0. PICK o : o = Head(down).op
    OBVIOUS
  <2>1. o \in Ops /\ NeverAccepted(o)
    BY <1>23, <2>0, NextMessageTruth DEF ReceiveRejected, TellsTruth
  <2>2. NeverAccepted(o)' /\ pc[o] # "send"
    BY <2>1, NeverAcceptedStep DEF NeverAccepted, NeverSent, Waiting
  <2>3. UNCHANGED <<pc, accepted>>
    BY <1>23 DEF ReceiveRejected
  <2>4. \/ UNCHANGED queued /\ pending \subseteq pending' \cup {o}
        \/ queued' = {}
    BY <1>23, <2>0 DEF ReceiveRejected, Resolve, ClearPending
  <2> QED
    BY <2>2, <2>3, <2>4, NeverAcceptedStep DEF QueuedFates
<1>24. CASE ServerTake
  BY <1>24, QueuedFatesStay DEF ServerTake, ExecTypes, GoroutineTypes
<1>25. CASE Break
  BY <1>25, QueuedFatesStay DEF Break, ExecTypes, GoroutineTypes
<1> QED
  BY <1>1, <1>2, <1>3, <1>4, <1>5, <1>6, <1>7, <1>8, <1>9, <1>10, <1>11, <1>12, <1>13,
     <1>14, <1>15, <1>16, <1>17, <1>18, <1>19, <1>20, <1>21, <1>22, <1>23, <1>24, <1>25
     DEF Next, Step, User, Connection

LEMMA SubmittedStep ==
    ASSUME ExecTypes, Next
    PROVE  \A o \in Ops : pc[o] \notin NotSubmitted => pc'[o] \notin NotSubmitted
<1> USE DEF worker, authority, admission, completions, network, observed, Goto, Publish
<1>1. ASSUME NEW op \in Ops, RefuseAdmission(op)
      PROVE  \A o \in Ops : pc[o] \notin NotSubmitted => pc'[o] \notin NotSubmitted
  BY <1>1 DEF RefuseAdmission, NotSubmitted, ExecTypes, GoroutineTypes
<1>2. ASSUME NEW op \in Ops, WaitDispatchTurn(op)
      PROVE  \A o \in Ops : pc[o] \notin NotSubmitted => pc'[o] \notin NotSubmitted
  BY <1>2 DEF WaitDispatchTurn, NotSubmitted, ExecTypes, GoroutineTypes
<1>3. ASSUME NEW op \in Ops, Dispatch(op)
      PROVE  \A o \in Ops : pc[o] \notin NotSubmitted => pc'[o] \notin NotSubmitted
  BY <1>3 DEF Dispatch, NotSubmitted, ExecTypes, GoroutineTypes
<1>4. ASSUME NEW op \in Ops, RefuseAdmitted(op)
      PROVE  \A o \in Ops : pc[o] \notin NotSubmitted => pc'[o] \notin NotSubmitted
  BY <1>4 DEF RefuseAdmitted, NotSubmitted, ExecTypes, GoroutineTypes
<1>5. ASSUME NEW op \in Ops, SendOperation(op)
      PROVE  \A o \in Ops : pc[o] \notin NotSubmitted => pc'[o] \notin NotSubmitted
  BY <1>5 DEF SendOperation, NotSubmitted, ExecTypes, GoroutineTypes
<1>6. ASSUME NEW op \in Ops, FailPending(op)
      PROVE  \A o \in Ops : pc[o] \notin NotSubmitted => pc'[o] \notin NotSubmitted
  BY <1>6 DEF FailPending, NotSubmitted, ExecTypes, GoroutineTypes
<1>7. ASSUME NEW op \in Ops, FinishAdmission(op)
      PROVE  \A o \in Ops : pc[o] \notin NotSubmitted => pc'[o] \notin NotSubmitted
  BY <1>7 DEF FinishAdmission, NotSubmitted, ExecTypes, GoroutineTypes
<1>8. ASSUME NEW op \in Ops, Await(op)
      PROVE  \A o \in Ops : pc[o] \notin NotSubmitted => pc'[o] \notin NotSubmitted
  BY <1>8 DEF Await, NotSubmitted, ExecTypes, GoroutineTypes
<1>9. ASSUME NEW op \in Ops, RecordCompletion(op)
      PROVE  \A o \in Ops : pc[o] \notin NotSubmitted => pc'[o] \notin NotSubmitted
  BY <1>9 DEF RecordCompletion, AfterRecord, NotSubmitted, ExecTypes, GoroutineTypes
<1>10. ASSUME NEW op \in Ops, DrainCompletions(op)
       PROVE  \A o \in Ops : pc[o] \notin NotSubmitted => pc'[o] \notin NotSubmitted
  BY <1>10 DEF DrainCompletions, AfterRecord, NotSubmitted, ExecTypes, GoroutineTypes
<1>11. ASSUME NEW op \in Ops, Call(op)
       PROVE  \A o \in Ops : pc[o] \notin NotSubmitted => pc'[o] \notin NotSubmitted
  BY <1>11 DEF Call, NotSubmitted, ExecTypes, GoroutineTypes
<1>12. ASSUME NEW op \in Ops, DismissConflict(op)
       PROVE  \A o \in Ops : pc[o] \notin NotSubmitted => pc'[o] \notin NotSubmitted
  BY <1>12 DEF DismissConflict, NotSubmitted, ExecTypes, GoroutineTypes
<1>13. ASSUME NEW op \in Ops, BuildConflictRebuild(op)
       PROVE  \A o \in Ops : pc[o] \notin NotSubmitted => pc'[o] \notin NotSubmitted
  BY <1>13 DEF BuildConflictRebuild, NotSubmitted, ExecTypes, GoroutineTypes
<1>14. ASSUME NEW op \in Ops, Unclaim(op)
       PROVE  \A o \in Ops : pc[o] \notin NotSubmitted => pc'[o] \notin NotSubmitted
  BY <1>14 DEF Unclaim, NotSubmitted, ExecTypes, GoroutineTypes
<1>15. ASSUME NEW op \in Ops, ReserveAdmission(op)
       PROVE  \A o \in Ops : pc[o] \notin NotSubmitted => pc'[o] \notin NotSubmitted
  BY <1>15 DEF ReserveAdmission, NotSubmitted, ExecTypes, GoroutineTypes
<1>16. ASSUME NEW op \in Ops, DiscardConflict(op)
       PROVE  \A o \in Ops : pc[o] \notin NotSubmitted => pc'[o] \notin NotSubmitted
  BY <1>16 DEF DiscardConflict, NotSubmitted, ExecTypes, GoroutineTypes
<1>17. ASSUME NEW op \in Ops, NEW rebuilt \in Rebuilds, RebuildConflict(op, rebuilt)
       PROVE  \A o \in Ops : pc[o] \notin NotSubmitted => pc'[o] \notin NotSubmitted
  BY <1>17 DEF RebuildConflict, NotSubmitted, ExecTypes, GoroutineTypes
<1>18. CASE Terminate
  BY <1>18 DEF Terminate, NotSubmitted, ExecTypes, GoroutineTypes
<1>19. CASE Suspend
  BY <1>19 DEF Suspend, NotSubmitted, ExecTypes, GoroutineTypes
<1>20. CASE Resume
  BY <1>20 DEF Resume, NotSubmitted, ExecTypes, GoroutineTypes
<1>21. CASE ReplaceAcknowledgedSnapshot
  BY <1>21 DEF ReplaceAcknowledgedSnapshot, NotSubmitted, ExecTypes, GoroutineTypes
<1>22. CASE ReceiveAccepted
  BY <1>22 DEF ReceiveAccepted, NotSubmitted, ExecTypes, GoroutineTypes
<1>23. CASE ReceiveRejected
  BY <1>23 DEF ReceiveRejected, NotSubmitted, ExecTypes, GoroutineTypes
<1>24. CASE ServerTake
  BY <1>24 DEF ServerTake, NotSubmitted, ExecTypes, GoroutineTypes
<1>25. CASE Break
  BY <1>25 DEF Break, NotSubmitted, ExecTypes, GoroutineTypes
<1> QED
  BY <1>1, <1>2, <1>3, <1>4, <1>5, <1>6, <1>7, <1>8, <1>9, <1>10, <1>11, <1>12, <1>13,
     <1>14, <1>15, <1>16, <1>17, <1>18, <1>19, <1>20, <1>21, <1>22, <1>23, <1>24, <1>25
     DEF Next, Step, User, Connection

LEMMA SoundStays ==
    ASSUME ExecTypes, Admission, SentOnce, Served, Next, late \subseteq late',
           NEW d \in Drafts, Sound(d), d.code = "delivery_unconfirmed" => d.op \notin accepted'
    PROVE  Sound(d)'
<1>1. d.op \in Ops
  BY DEF Drafts
<1> QED
  BY <1>1, SubmittedStep, NeverAcceptedStep DEF Sound

(* The drafts of a step: old ones, and one about an edit that failed and       *)
(* cannot reach the server any more.                                           *)
LEMMA SoundWithFailed ==
    ASSUME ExecTypes, Admission, SentOnce, Served, DraftsSound, Next,
           late \subseteq late', UNCHANGED accepted, NEW op \in Ops,
           \A d \in drafts' : d \in drafts \/ (d.op = op /\ d.code # "delivery_unconfirmed"),
           pc'[op] \notin NotSubmitted,
           op \in late' \/ NeverAccepted(op)'
    PROVE  DraftsSound'
<1> SUFFICES ASSUME NEW d \in Drafts, d \in drafts' PROVE Sound(d)'
  BY DEF DraftsSound
<1>1. CASE d \in drafts
  <2>1. Sound(d)
    BY <1>1 DEF DraftsSound
  <2> QED
    BY <2>1, SoundStays DEF Sound
<1>2. CASE d.op = op /\ d.code # "delivery_unconfirmed"
  BY <1>2 DEF Sound
<1> QED
  BY <1>1, <1>2

(* An edit that was not sent and whose goroutine is past sending. *)
LEMMA RefusedNeverAccepted ==
    ASSUME ExecTypes, SentOnce, Served, NEW op \in Ops, UNCHANGED <<up, log>>,
           op \notin SentOps, pc'[op] \notin {"new", "build", "reserve", "send"} \cup Waiting
    PROVE  NeverAccepted(op)'
<1>1. op \notin Logged /\ op \notin InFlight
  BY DEF Served
<1>2. Logged' = Logged /\ InFlight' = InFlight
  BY DEF Logged, InFlight
<1> QED
  BY <1>1, <1>2 DEF NeverAccepted, NeverSent

LEMMA SoundAfterClear ==
    ASSUME ExecTypes, Admission, SentOnce, QueueExact, PendingExact, Served, AcceptedLogged, QueuedFates,
           FailedUnsent, DraftsSound, Next, ClearPending,
           UNCHANGED <<pc, ticket, accepted, late, up, log, admitted>>
    PROVE  DraftsSound'
<1> SUFFICES ASSUME NEW d \in Drafts, d \in drafts' PROVE Sound(d)'
  BY DEF DraftsSound
<1>0. d.op \in Ops
  BY DEF Drafts
<1>1. CASE d \in drafts
  <2>1. Sound(d)
    BY <1>1 DEF DraftsSound
  <2> QED
    BY <2>1, SoundStays DEF Sound
<1>2. CASE d.op \in Projected /\ d.code = "delivery_unconfirmed"
  <2>1. d.op \in pending
    BY <1>2, ProjectedElements DEF PendingExact, ListsSet
  <2>2. d.op \notin accepted /\ pc[d.op] \notin NotSubmitted
    BY <2>1 DEF AcceptedLogged, PendingExact, PastSend, NotSubmitted
  <2> QED
    BY <1>2, <2>2 DEF Sound
<1>3. CASE d.op \in queued \ (accepted \cup Projected) /\ d.code = "submission_failed"
  <2>1. d.op \notin pending
    BY <1>3, ProjectedElements DEF PendingExact, ListsSet
  <2>2. pc[d.op] \in Holding /\ pc[d.op] # "send"
    BY <1>0, <1>3, <2>1 DEF QueueExact, QueuedFates
  <2>3. CASE pc[d.op] \in Waiting
    <3>1. Interrupted(d.op)'
      <4>1. admitted[d.op] # 0
        BY <1>0, <2>3 DEF Admission, Unadmitted, Waiting
      <4> QED
        BY <1>0, <4>1 DEF Admission, Interrupted, ClearPending, InterruptionMark
    <3>2. d.op \notin Logged /\ d.op \notin InFlight
      BY <2>3, NotSentYet DEF Waiting, PastSend
    <3>3. Logged' = Logged /\ InFlight' = InFlight
      BY DEF Logged, InFlight
    <3>4. NeverAccepted(d.op)'
      BY <2>3, <3>1, <3>2, <3>3 DEF NeverAccepted, NeverSent
    <3> QED
      BY <1>3, <2>3, <3>4 DEF Sound, Waiting, NotSubmitted
  <2>4. CASE pc[d.op] \in {"refuse", "failpending", "finish"}
    <3>1. d.op \in late \/ d.op \notin SentOps
      BY <1>0, <2>4, NotSentYet DEF FailedUnsent, PastSend
    <3>2. d.op \notin SentOps => NeverAccepted(d.op)'
      BY <1>0, <2>4, RefusedNeverAccepted DEF Waiting
    <3> QED
      BY <1>3, <2>4, <3>1, <3>2 DEF Sound, NotSubmitted
  <2>5. CASE pc[d.op] = "finishsent"
    <3>1. NeverAccepted(d.op)
      BY <1>0, <1>3, <2>1, <2>5 DEF QueuedFates
    <3>2. NeverAccepted(d.op)'
      BY <1>0, <3>1, NeverAcceptedStep
    <3> QED
      BY <1>3, <2>5, <3>2 DEF Sound, NotSubmitted
  <2> QED
    BY <2>2, <2>3, <2>4, <2>5 DEF Holding, Waiting
<1> QED
  BY <1>1, <1>2, <1>3, Interrupting DEF ClearPending

(* Every other step leaves the drafts as they are or takes some away. *)
LEMMA SoundUndisturbed ==
    ASSUME ExecTypes, Admission, SentOnce, Served, DraftsSound, Next,
           late \subseteq late', UNCHANGED accepted, drafts' \subseteq drafts
    PROVE  DraftsSound'
<1> SUFFICES ASSUME NEW d \in Drafts, d \in drafts' PROVE Sound(d)'
  BY DEF DraftsSound
<1>1. Sound(d)
  BY DEF DraftsSound
<1> QED
  BY <1>1, SoundStays DEF Sound

LEMMA DraftsSoundStep ==
    ASSUME ExecTypes, Admission, SentOnce, QueueExact, PendingExact, Served, Told, AcceptedLogged,
           QueuedFates, FailedUnsent, DraftsSound, Next
    PROVE  DraftsSound'
<1> USE DEF worker, authority, admission, completions, network, observed, Goto, Publish
<1>1. ASSUME NEW op \in Ops, RefuseAdmission(op) PROVE DraftsSound'
  <2>1. op \notin SentOps
    BY <1>1, NotSentYet DEF RefuseAdmission, PastSend
  <2>2. pc'[op] \in {"unclaim", "done"}
    BY <1>1 DEF RefuseAdmission, ExecTypes, GoroutineTypes
  <2>3. NeverAccepted(op)'
    <3>1. UNCHANGED <<up, log>>
      BY <1>1 DEF RefuseAdmission
    <3> QED
      BY <2>1, <2>2, <3>1, RefusedNeverAccepted DEF Waiting
  <2>4. UNCHANGED <<late, accepted>>
    BY <1>1 DEF RefuseAdmission
  <2>5. \A d \in drafts' : d \in drafts \/ (d.op = op /\ d.code = "submission_failed")
    BY <1>1, Retaining DEF RefuseAdmission
  <2> QED
    BY <2>2, <2>3, <2>4, <2>5, SoundWithFailed DEF NotSubmitted
<1>2. ASSUME NEW op \in Ops, WaitDispatchTurn(op) PROVE DraftsSound'
  BY <1>2, SoundUndisturbed DEF WaitDispatchTurn
<1>3. ASSUME NEW op \in Ops, Dispatch(op) PROVE DraftsSound'
  <2>1. CASE UNCHANGED drafts
    BY <1>3, <2>1, SoundUndisturbed DEF Dispatch
  <2>2. CASE drafts' = RetainUnsent(op) /\ pc' = [pc EXCEPT ![op] = "refuse"]
    <3>1. op \notin SentOps
      BY <1>3, NotSentYet DEF Dispatch, PastSend
    <3>2. pc'[op] = "refuse"
      BY <2>2 DEF ExecTypes, GoroutineTypes
    <3>3. NeverAccepted(op)'
      <4>1. UNCHANGED <<up, log>>
        BY <1>3 DEF Dispatch
      <4> QED
        BY <3>1, <3>2, <4>1, RefusedNeverAccepted DEF Waiting
    <3>4. UNCHANGED <<late, accepted>>
      BY <1>3 DEF Dispatch
    <3>5. \A d \in drafts' : d \in drafts \/ (d.op = op /\ d.code = "submission_failed")
      BY <2>2, Retaining
    <3> QED
      BY <3>2, <3>3, <3>4, <3>5, SoundWithFailed DEF NotSubmitted
  <2> QED
    BY <1>3, <2>1, <2>2 DEF Dispatch
<1>4. ASSUME NEW op \in Ops, RefuseAdmitted(op) PROVE DraftsSound'
  <2>1. op \notin SentOps
    BY <1>4, NotSentYet DEF RefuseAdmitted, PastSend
  <2>2. pc'[op] = "finish"
    BY <1>4 DEF RefuseAdmitted, ExecTypes, GoroutineTypes
  <2>3. NeverAccepted(op)'
    <3>1. UNCHANGED <<up, log>>
      BY <1>4 DEF RefuseAdmitted
    <3> QED
      BY <2>1, <2>2, <3>1, RefusedNeverAccepted DEF Waiting
  <2>4. UNCHANGED <<late, accepted>>
    BY <1>4 DEF RefuseAdmitted
  <2>5. \A d \in drafts' : d \in drafts \/ (d.op = op /\ d.code = "submission_failed")
    BY <1>4, Retaining DEF RefuseAdmitted
  <2> QED
    BY <2>2, <2>3, <2>4, <2>5, SoundWithFailed DEF NotSubmitted
<1>5. ASSUME NEW op \in Ops, SendOperation(op) PROVE DraftsSound'
  BY <1>5, SoundUndisturbed DEF SendOperation
<1>6. ASSUME NEW op \in Ops, FailPending(op) PROVE DraftsSound'
  <2>1. CASE op \notin pending
    BY <1>6, <2>1, SoundUndisturbed DEF FailPending
  <2>2. CASE op \in pending
    <3>1. op \in late \/ op \notin SentOps
      BY <1>6 DEF FailPending, FailedUnsent
    <3>2. pc'[op] = "finish"
      BY <1>6 DEF FailPending, ExecTypes, GoroutineTypes
    <3>3. UNCHANGED <<late, accepted, up, log>>
      BY <1>6 DEF FailPending
    <3>4. op \notin SentOps => NeverAccepted(op)'
      BY <3>2, <3>3, RefusedNeverAccepted DEF Waiting
    <3>5. \A d \in drafts' : d \in drafts \/ (d.op = op /\ d.code = "submission_failed")
      BY <1>6, <2>2, Retaining DEF FailPending
    <3> QED
      BY <3>1, <3>2, <3>3, <3>4, <3>5, SoundWithFailed DEF NotSubmitted
  <2> QED
    BY <2>1, <2>2
<1>7. ASSUME NEW op \in Ops, FinishAdmission(op) PROVE DraftsSound'
  BY <1>7, SoundUndisturbed DEF FinishAdmission
<1>8. ASSUME NEW op \in Ops, Await(op) PROVE DraftsSound'
  BY <1>8, SoundUndisturbed DEF Await
<1>9. ASSUME NEW op \in Ops, RecordCompletion(op) PROVE DraftsSound'
  BY <1>9, SoundUndisturbed DEF RecordCompletion
<1>10. ASSUME NEW op \in Ops, DrainCompletions(op) PROVE DraftsSound'
  BY <1>10, SoundUndisturbed DEF DrainCompletions
<1>11. ASSUME NEW op \in Ops, Call(op) PROVE DraftsSound'
  BY <1>11, SoundUndisturbed DEF Call
<1>12. ASSUME NEW op \in Ops, DismissConflict(op) PROVE DraftsSound'
  BY <1>12, SoundUndisturbed DEF DismissConflict
<1>13. ASSUME NEW op \in Ops, BuildConflictRebuild(op) PROVE DraftsSound'
  BY <1>13, SoundUndisturbed DEF BuildConflictRebuild
<1>14. ASSUME NEW op \in Ops, Unclaim(op) PROVE DraftsSound'
  BY <1>14, SoundUndisturbed DEF Unclaim
<1>15. ASSUME NEW op \in Ops, ReserveAdmission(op) PROVE DraftsSound'
  BY <1>15, SoundUndisturbed DEF ReserveAdmission
<1>16. ASSUME NEW op \in Ops, DiscardConflict(op) PROVE DraftsSound'
  BY <1>16, SoundUndisturbed DEF DiscardConflict
<1>17. ASSUME NEW op \in Ops, NEW rebuilt \in Rebuilds, RebuildConflict(op, rebuilt) PROVE DraftsSound'
  BY <1>17, SoundUndisturbed DEF RebuildConflict
<1>18. CASE Terminate
  BY <1>18, SoundAfterClear DEF Terminate
<1>19. CASE Suspend
  BY <1>19, SoundAfterClear DEF Suspend
<1>20. CASE Resume
  BY <1>20, SoundUndisturbed DEF Resume
<1>21. CASE ReplaceAcknowledgedSnapshot
  BY <1>21, SoundUndisturbed DEF ReplaceAcknowledgedSnapshot
<1>22. CASE ReceiveAccepted
  <2>0. PICK o : o = Head(down).op
    OBVIOUS
  <2>1. CASE o \in accepted
    BY <1>22, <2>0, <2>1, SoundUndisturbed DEF ReceiveAccepted
  <2>2. CASE o \notin accepted
    <3>1. o \in Logged
      BY <1>22, <2>0, NextMessageTruth DEF ReceiveAccepted, TellsTruth
    <3>2. drafts' = drafts \ Unconfirmed(o) /\ accepted' = accepted \cup {o} /\ UNCHANGED late
      BY <1>22, <2>0, <2>2 DEF ReceiveAccepted
    <3> SUFFICES ASSUME NEW d \in Drafts, d \in drafts' PROVE Sound(d)'
      BY DEF DraftsSound
    <3>3. Sound(d) /\ d \notin Unconfirmed(o)
      BY <3>2 DEF DraftsSound
    <3>4. d.code = "delivery_unconfirmed" => d.op \notin accepted'
      BY <3>2, <3>3 DEF Sound, Unconfirmed
    <3> QED
      BY <3>2, <3>3, <3>4, SoundStays
  <2> QED
    BY <2>1, <2>2
<1>23. CASE ReceiveRejected
  <2>0. PICK o : o = Head(down).op
    OBVIOUS
  <2>1. CASE o \in Projected
    <3>1. o \in Ops /\ NeverAccepted(o)
      BY <1>23, <2>0, NextMessageTruth DEF ReceiveRejected, TellsTruth
    <3>2. NeverAccepted(o)'
      BY <3>1, NeverAcceptedStep
    <3>3. UNCHANGED <<pc, late, accepted>> /\ drafts' = RetainConflict(o, "rejected", drafts)
      BY <1>23, <2>0, <2>1 DEF ReceiveRejected
    <3>4. \A d \in drafts' : d \in drafts \/ (d.op = o /\ d.code # "delivery_unconfirmed")
      BY <3>3, RetainedConflict
    <3>5. pc[o] \notin NotSubmitted
      BY <2>1, ProjectedElements DEF PendingExact, ListsSet, PastSend, NotSubmitted
    <3> QED
      BY <3>1, <3>2, <3>3, <3>4, <3>5, SoundWithFailed
  <2>2. CASE o \notin Projected /\ status = "live"
    BY <1>23, <2>0, <2>2, SoundAfterClear DEF ReceiveRejected
  <2>3. CASE o \notin Projected /\ status # "live"
    BY <1>23, <2>0, <2>3, SoundUndisturbed DEF ReceiveRejected
  <2> QED
    BY <2>1, <2>2, <2>3
<1>24. CASE ServerTake
  BY <1>24, SoundUndisturbed DEF ServerTake
<1>25. CASE Break
  BY <1>25, SoundUndisturbed DEF Break
<1> QED
  BY <1>1, <1>2, <1>3, <1>4, <1>5, <1>6, <1>7, <1>8, <1>9, <1>10, <1>11, <1>12, <1>13,
     <1>14, <1>15, <1>16, <1>17, <1>18, <1>19, <1>20, <1>21, <1>22, <1>23, <1>24, <1>25
     DEF Next, Step, User, Connection

-----------------------------------------------------------------------------------
(* The inductive invariant. *)
ExecInv ==
    /\ ExecTypes
    /\ Admission
    /\ SentOnce
    /\ QueueExact
    /\ PendingExact
    /\ Budget
    /\ IntentInv
    /\ Served
    /\ Told
    /\ AcceptedLogged
    /\ QueuedFates
    /\ FailedUnsent
    /\ DraftsSound
    /\ OneDrains
    /\ Callbacks
    /\ Rebuilding

LEMMA ExecInvInit == Init => ExecInv
<1> SUFFICES ASSUME Init PROVE ExecInv
  OBVIOUS
<1> USE DEF Init, PerOp
<1>1. ExecTypes
  BY EmptySeq DEF ExecTypes, GoroutineTypes, AdmissionTypes, DraftTypes, NetworkTypes, Labels
<1>2. Admission
  BY DEF Admission, Unadmitted, Waiting
<1>3. SentOnce
  BY DEF SentOnce
<1>4. QueueExact
  BY DEF QueueExact, Holding
<1>5. PendingExact
  BY ListEmpty DEF PendingExact
<1>6. Budget
  <2>1. Holders = {} /\ Retained = {} /\ pendingAdmission = {} /\ localAdmissions = 0
    BY DEF Holders, Holding, Retained
  <2> QED
    BY <2>1, FS_EmptySet, ExecutorAssumption DEF Budget, Used
<1>7. IntentInv
  BY DEF IntentInv, Idle
<1>8. Served
  BY DEF Served, Logged, InFlight, OpsOf, OnceEach
<1>9. Told
  BY DEF Told, InTransit
<1>10. AcceptedLogged /\ QueuedFates /\ DraftsSound
  BY DEF AcceptedLogged, QueuedFates, DraftsSound
<1>11. FailedUnsent
  BY DEF FailedUnsent
<1>12. OneDrains
  BY DEF OneDrains, Draining
<1>13. Callbacks
  BY EmptySeq DEF Callbacks, CallbacksInOrder
<1>14. Rebuilding
  BY DEF Rebuilding, RebuildOnly, Ops
<1> QED
  BY <1>1, <1>2, <1>3, <1>4, <1>5, <1>6, <1>7, <1>8, <1>9, <1>10, <1>11, <1>12, <1>13, <1>14 DEF ExecInv

LEMMA ExecInvStep ==
    ASSUME ExecInv, Next
    PROVE  ExecInv'
<1>1. ExecTypes' /\ Admission' /\ SentOnce' /\ QueueExact'
  BY TypesStep, AdmissionStep, SentOnceStep, QueueStep DEF ExecInv
<1>2. PendingExact' /\ Budget' /\ IntentInv'
  BY PendingStep, BudgetStep, IntentStep DEF ExecInv
<1>3. Served' /\ Told' /\ AcceptedLogged'
  BY ServedStep, ToldStep, AcceptedLoggedStep DEF ExecInv
<1>4. QueuedFates' /\ FailedUnsent' /\ DraftsSound'
  BY QueuedFatesStep, FailedUnsentStep, DraftsSoundStep DEF ExecInv
<1>5. OneDrains' /\ Callbacks' /\ Rebuilding'
  BY OneDrainsStep, CallbacksStep, RebuildingStep DEF ExecInv
<1> QED
  BY <1>1, <1>2, <1>3, <1>4, <1>5 DEF ExecInv

LEMMA ExecInvStutter ==
    ASSUME ExecInv, UNCHANGED vars
    PROVE  ExecInv'
<1> USE DEF vars
<1>1. ExecTypes' /\ Admission' /\ SentOnce' /\ QueueExact'
  BY DEF ExecInv, ExecTypes, GoroutineTypes, AdmissionTypes, DraftTypes, NetworkTypes, Admission, SentOnce,
         QueueExact, Interrupted
<1>2. PendingExact' /\ Budget' /\ IntentInv'
  BY DEF ExecInv, PendingExact, Budget, Holders, Retained, Used, IntentInv, Idle, BeforeTurn, Interrupted,
         Somewhere, Drafted
<1>3. Served' /\ AcceptedLogged'
  BY DEF ExecInv, Served, Logged, InFlight, SentOps, AcceptedLogged
<1>4. \A op : NeverAccepted(op)' <=> NeverAccepted(op)
  BY DEF NeverAccepted, NeverSent, Interrupted, Logged, InFlight
<1>5. Told'
  BY <1>4 DEF ExecInv, Told, TellsTruth, InTransit, Logged
<1>6. QueuedFates' /\ DraftsSound'
  BY <1>4 DEF ExecInv, QueuedFates, DraftsSound, Sound
<1>7. FailedUnsent' /\ OneDrains'
  BY DEF ExecInv, FailedUnsent, SentOps, OneDrains
<1>8. Callbacks' /\ Rebuilding'
  BY DEF ExecInv, Callbacks, CallbacksInOrder, Rebuilding, Ended
<1> QED
  BY <1>1, <1>2, <1>3, <1>5, <1>6, <1>7, <1>8 DEF ExecInv

LEMMA ExecInvHolds == Spec => []ExecInv
<1>1. Init => ExecInv
  BY ExecInvInit
<1>2. ExecInv /\ [Next]_vars => ExecInv'
  BY ExecInvStep, ExecInvStutter
<1> QED
  BY <1>1, <1>2, PTL DEF Spec

-----------------------------------------------------------------------------------
(* An edit the user made is never lost, wherever between two steps of its     *)
(* goroutine an answer, a failed send or an interruption comes.               *)
THEOREM IntentKeptTheorem == Spec => []IntentKept
<1>1. ExecInv => IntentKept
  BY IntentForm DEF ExecInv
<1> QED
  BY <1>1, ExecInvHolds, PTL

(* An edit is sent at most once, and on the connection it was admitted on.    *)
THEOREM SentOnItsConnectionTheorem == Spec => []SentOnItsConnection
<1>1. ExecInv => SentOnItsConnection
  <2> SUFFICES ASSUME ExecInv PROVE SentOnItsConnection
    OBVIOUS
  <2>1. \A s \in sent : s \in Submissions /\ s.via = admitted[s.op]
    BY DEF ExecInv, ExecTypes, NetworkTypes, SentOnce
  <2>2. \A s, t \in Submissions : s.op = t.op /\ s.via = t.via => s = t
    BY DEF Submissions
  <2> QED
    BY <2>1, <2>2 DEF SentOnItsConnection
<1> QED
  BY <1>1, ExecInvHolds, PTL

(* No draft is kept of an edit that is known to be accepted, but for one whose *)
(* send failed after it had arrived.                                          *)
THEOREM DraftsAreOpenTheorem == Spec => []DraftsAreOpen
<1>1. ExecInv => DraftsAreOpen
  <2> SUFFICES ASSUME ExecInv, NEW d \in drafts, d.op \in accepted PROVE d.op \in late
    BY DEF DraftsAreOpen
  <2>1. Sound(d)
    BY DEF ExecInv, ExecTypes, DraftTypes, DraftsSound
  <2>2. d.op \in Logged
    BY DEF ExecInv, AcceptedLogged
  <2> QED
    BY <2>1, <2>2 DEF Sound, NeverAccepted
<1> QED
  BY <1>1, ExecInvHolds, PTL

(* The admission budget counts the edits that hold a share of it, each once,   *)
(* and never exceeds the limit; the projection lists the edits with a waiter.  *)
THEOREM BudgetExactTheorem == Spec => []BudgetExact
<1>1. ExecInv => BudgetExact
  BY ProjectedElements DEF ExecInv, BudgetExact, Budget, Holders, Retained, PendingExact, ListsSet
<1> QED
  BY <1>1, ExecInvHolds, PTL

(* Callbacks come in the order of admission, once for each edit. *)
THEOREM CallbacksInOrderTheorem == Spec => []CallbacksInOrder
<1>1. ExecInv => CallbacksInOrder
  BY DEF ExecInv, Callbacks
<1> QED
  BY <1>1, ExecInvHolds, PTL

(* A draft is claimed exactly while one rebuild of it, and only one, runs. *)
THEOREM OneRebuildPerDraftTheorem == Spec => []OneRebuildPerDraft
<1>1. ExecInv => OneRebuildPerDraft
  <2> SUFFICES ASSUME ExecInv, NEW op \in Ops
               PROVE  Cardinality({r \in Rebuilds : origin[r] = op /\ ~Ended(r)}) = IF op \in claims THEN 1 ELSE 0
    BY DEF OneRebuildPerDraft
  <2> DEFINE running == {r \in Rebuilds : origin[r] = op /\ ~Ended(r)}
  <2>0. op # None
    BY ExecutorAssumption
  <2>1. CASE op \in claims
    <3>1. PICK r \in Rebuilds : origin[r] = op /\ ~Ended(r)
      BY <2>1 DEF ExecInv, Rebuilding
    <3>2. \A q \in running : q = r
      BY <2>0, <3>1 DEF ExecInv, Rebuilding
    <3>3. running = {r}
      BY <3>1, <3>2
    <3>4. Cardinality({r}) = 1
      BY FS_Singleton
    <3> QED
      BY <2>1, <3>3, <3>4
  <2>2. CASE op \notin claims
    <3>1. running = {}
      BY <2>0, <2>2 DEF ExecInv, Rebuilding
    <3> QED
      BY <2>2, <3>1, FS_EmptySet
  <2> QED
    BY <2>1, <2>2
<1> QED
  BY <1>1, ExecInvHolds, PTL
===================================================================================
