------------------------------ MODULE DeliveryProofs ------------------------------
(***************************************************************************)
(* Delivery is gapless and exact for any number of clients, any queue      *)
(* depth and page size, and any pattern of lost connections, compactions   *)
(* and unpublished revisions.                                              *)
(***************************************************************************)
EXTENDS Delivery, SequenceTheorems, TLAPS

(* Nothing on either side of a connection is ahead of the owner, and an     *)
(* answer's target is ahead of what has been sent until it is reached.      *)
Bounds ==
    \A c \in Clients :
        /\ acked[c] <= head /\ sent[c] <= head /\ target[c] <= head /\ boundary[c] <= head
        /\ \A i \in DOMAIN wire[c] : wire[c][i].at <= head
        /\ \A i \in DOMAIN queue[c] : queue[c][i].revision <= head
        /\ phase[c] = "replay" => sent[c] <= boundary[c]
        /\ phase[c] = "reject" => sent[c] <= target[c]

(* A client fetches a snapshot with nothing left on the wire. *)
SnapshotLast ==
    \A c \in Clients :
        /\ stale[c] => phase[c] = "ended" /\ wire[c] = << >>
        /\ phase[c] = "offline" => wire[c] = << >>
        /\ \A i \in DOMAIN wire[c] :
              wire[c][i].kind = "snapshot" => phase[c] = "ended" /\ i = Len(wire[c])

-----------------------------------------------------------------------------------
(* Sequences of messages in order. *)
LEMMA AppendInOrder ==
    ASSUME NEW a \in Nat, NEW s \in Seq(Messages), NEW m \in Messages,
           InOrder(a, s), Follows(m, EndOf(a, s))
    PROVE  InOrder(a, Append(s, m)) /\ EndOf(a, Append(s, m)) = m.at
<1> DEFINE t == Append(s, m)
<1>1. t \in Seq(Messages) /\ Len(t) = Len(s) + 1 /\ t[Len(s) + 1] = m
      /\ \A i \in 1..Len(s) : t[i] = s[i]
  OBVIOUS
<1>2. EndOf(a, t) = m.at
  BY <1>1 DEF EndOf
<1>3. ASSUME NEW i \in DOMAIN t
      PROVE  Follows(t[i], IF i = 1 THEN a ELSE t[i - 1].at)
  <2>1. CASE i \in 1..Len(s)
    <3>1. t[i] = s[i] /\ (i # 1 => i - 1 \in 1..Len(s) /\ t[i - 1] = s[i - 1])
      BY <1>1, <2>1
    <3>2. Follows(s[i], IF i = 1 THEN a ELSE s[i - 1].at)
      BY <2>1, LenProperties DEF InOrder
    <3> QED
      BY <3>1, <3>2
  <2>2. CASE i = Len(s) + 1
    <3>1. t[i] = m
      BY <1>1, <2>2
    <3>2. (IF i = 1 THEN a ELSE t[i - 1].at) = EndOf(a, s)
      <4>1. CASE s = << >>
        BY <4>1, <2>2 DEF EndOf
      <4>2. CASE s # << >>
        <5>1. Len(s) \in 1..Len(s) /\ i # 1 /\ i - 1 = Len(s)
          BY <4>2, <2>2, EmptySeq
        <5>2. t[Len(s)] = s[Len(s)]
          BY <5>1, <1>1
        <5> QED
          BY <5>1, <5>2, <4>2 DEF EndOf
      <4> QED
        BY <4>1, <4>2
    <3> QED
      BY <3>1, <3>2
  <2>3. i \in 1..Len(s) \/ i = Len(s) + 1
    BY <1>1
  <2> QED
    BY <2>1, <2>2, <2>3
<1> QED
  BY <1>2, <1>3 DEF InOrder

LEMMA TailInOrder ==
    ASSUME NEW a \in Nat, NEW s \in Seq(Messages), s # << >>, InOrder(a, s)
    PROVE  /\ Head(s) \in Messages /\ Tail(s) \in Seq(Messages)
           /\ Follows(Head(s), a)
           /\ InOrder(Head(s).at, Tail(s))
           /\ EndOf(Head(s).at, Tail(s)) = EndOf(a, s)
<1> DEFINE t == Tail(s)
<1>1. Head(s) = s[1] /\ s[1] \in Messages /\ t \in Seq(Messages) /\ Len(t) = Len(s) - 1
      /\ \A i \in 1..Len(t) : t[i] = s[i + 1]
  BY HeadTailProperties
<1>2. Len(s) \in Nat /\ Len(s) >= 1
  BY EmptySeq
<1>3. Follows(s[1], a)
  <2>1. 1 \in DOMAIN s
    BY <1>2
  <2> QED
    BY <2>1, Zenon DEF InOrder
<1>4. ASSUME NEW i \in DOMAIN t
      PROVE  Follows(t[i], IF i = 1 THEN s[1].at ELSE t[i - 1].at)
  <2>1. i \in 1..Len(t) /\ i + 1 \in DOMAIN s /\ t[i] = s[i + 1]
    BY <1>1, <1>2
  <2>2. Follows(s[i + 1], s[i].at)
    <3>1. Follows(s[i + 1], IF i + 1 = 1 THEN a ELSE s[(i + 1) - 1].at)
      BY <2>1, Zenon DEF InOrder
    <3>2. i + 1 # 1 /\ (i + 1) - 1 = i
      BY <2>1
    <3> QED
      BY <3>1, <3>2
  <2>3. i # 1 => t[i - 1] = s[i]
    BY <1>1, <2>1
  <2> QED
    BY <2>1, <2>2, <2>3
<1>5. EndOf(s[1].at, t) = EndOf(a, s)
  <2>1. CASE t = << >>
    <3>0. Len(t) = 0
      BY <2>1, <1>1, EmptySeq
    <3>1. Len(s) = 1
      BY <3>0, <1>1, <1>2
    <3> QED
      BY <3>1, <2>1 DEF EndOf
  <2>2. CASE t # << >>
    <3>1. Len(t) \in 1..Len(t)
      BY <2>2, <1>1, EmptySeq
    <3>2. t[Len(t)] = s[Len(s)]
      BY <3>1, <1>1, <1>2
    <3> QED
      BY <3>2, <2>2, <1>1 DEF EndOf
  <2> QED
    BY <2>1, <2>2
<1> QED
  BY <1>1, <1>3, <1>4, <1>5 DEF InOrder

(* The rows of a replay page. *)
Rows(from, n) == [i \in 1..n |-> Message("accepted", from + i, None, from + i)]

RowsFollow(a, s, from, n, t) ==
    /\ t \in Seq(Messages)
    /\ InOrder(a, t)
    /\ EndOf(a, t) = from + n
    /\ Len(t) = Len(s) + n
    /\ \A i \in 1..Len(s) : t[i] = s[i]
    /\ \A i \in 1..n : t[Len(s) + i] = Message("accepted", from + i, None, from + i)

LEMMA RowsInOrder ==
    ASSUME NEW a \in Nat, NEW s \in Seq(Messages), InOrder(a, s), NEW n \in Nat,
           NEW from \in Nat, EndOf(a, s) = from
    PROVE  RowsFollow(a, s, from, n, s \o Rows(from, n))
<1> DEFINE rows == Rows(from, n)
           t == s \o rows
<1>1. rows \in Seq(Messages) /\ Len(rows) = n
      /\ \A i \in 1..n : rows[i] = Message("accepted", from + i, None, from + i)
  <2>1. \A i \in 1..n : Message("accepted", from + i, None, from + i) \in Messages
    BY DEF Message, Messages
  <2> QED
    BY <2>1 DEF Rows
<1>2. t \in Seq(Messages) /\ Len(t) = Len(s) + n
      /\ (\A i \in 1..Len(s) : t[i] = s[i]) /\ (\A i \in 1..n : t[Len(s) + i] = rows[i])
  <2>1. t \in Seq(Messages) /\ Len(t) = Len(s) + n
        /\ \A i \in 1..(Len(s) + n) : t[i] = IF i <= Len(s) THEN s[i] ELSE rows[i - Len(s)]
    <3>1. Len(s) \in Nat /\ rows \in Seq(Messages) /\ Len(rows) = n /\ t = s \o rows
      BY <1>1
    <3> HIDE DEF rows
    <3>2. s \o rows \in Seq(Messages) /\ Len(s \o rows) = Len(s) + Len(rows)
          /\ \A i \in 1..(Len(s) + Len(rows)) :
                (s \o rows)[i] = IF i <= Len(s) THEN s[i] ELSE rows[i - Len(s)]
      BY <3>1, ConcatProperties
    <3> QED
      BY <3>1, <3>2
  <2>2. \A i \in 1..Len(s) : t[i] = s[i]
    BY <2>1
  <2>3. ASSUME NEW i \in 1..n
        PROVE  t[Len(s) + i] = rows[i]
    <3>1. Len(s) + i \in 1..(Len(s) + n) /\ ~ (Len(s) + i <= Len(s)) /\ (Len(s) + i) - Len(s) = i
      OBVIOUS
    <3> QED
      BY <3>1, <2>1
  <2> QED
    BY <2>1, <2>2, <2>3
<1>3. ASSUME NEW i \in 1..n
      PROVE  t[Len(s) + i].kind = "accepted" /\ t[Len(s) + i].revision = from + i
             /\ t[Len(s) + i].at = from + i
  BY <1>1, <1>2 DEF Message
<1> HIDE DEF t
<1>4. EndOf(a, t) = from + n
  <2>1. CASE n = 0
    <3>1. CASE s = << >>
      <4>1. t = << >>
        BY <1>2, <2>1, <3>1, EmptySeq
      <4> QED
        BY <4>1, <3>1, <2>1 DEF EndOf
    <3>2. CASE s # << >>
      <4>1. Len(s) \in 1..Len(s) /\ Len(t) = Len(s) /\ t # << >>
        BY <3>2, <1>2, <2>1, EmptySeq
      <4>2. t[Len(t)] = s[Len(s)]
        BY <4>1, <1>2
      <4> QED
        BY <4>1, <4>2, <3>2, <2>1 DEF EndOf
    <3> QED
      BY <3>1, <3>2
  <2>2. CASE n # 0
    <3>1. n \in 1..n /\ t # << >>
      BY <2>2, <1>2
    <3> QED
      BY <3>1, <1>2, <1>3 DEF EndOf
  <2> QED
    BY <2>1, <2>2
<1>5. ASSUME NEW i \in DOMAIN t
      PROVE  Follows(t[i], IF i = 1 THEN a ELSE t[i - 1].at)
  <2>1. CASE i \in 1..Len(s)
    <3>1. t[i] = s[i] /\ (i # 1 => i - 1 \in 1..Len(s) /\ t[i - 1] = s[i - 1])
      BY <1>2, <2>1
    <3>2. Follows(s[i], IF i = 1 THEN a ELSE s[i - 1].at)
      BY <2>1, LenProperties DEF InOrder
    <3> QED
      BY <3>1, <3>2
  <2>2. CASE i \in (Len(s) + 1)..(Len(s) + n)
    <3> DEFINE k == i - Len(s)
    <3>1. k \in 1..n /\ i = Len(s) + k
      BY <2>2
    <3>2. t[i].kind = "accepted" /\ t[i].revision = from + k /\ t[i].at = from + k
      BY <3>1, <1>3
    <3>3. (IF i = 1 THEN a ELSE t[i - 1].at) = from + k - 1
      <4>1. CASE k = 1
        <5>1. CASE s = << >>
          BY <5>1, <4>1, <3>1 DEF EndOf
        <5>2. CASE s # << >>
          <6>1. Len(s) \in 1..Len(s) /\ i # 1 /\ i - 1 = Len(s)
            BY <5>2, <4>1, <3>1, EmptySeq
          <6>2. t[Len(s)] = s[Len(s)]
            BY <6>1, <1>2
          <6> QED
            BY <6>1, <6>2, <5>2, <4>1 DEF EndOf
        <5> QED
          BY <5>1, <5>2
      <4>2. CASE k # 1
        <5>1. k - 1 \in 1..n /\ i # 1 /\ i - 1 = Len(s) + (k - 1)
          BY <4>2, <3>1
        <5> QED
          BY <5>1, <1>3
      <4> QED
        BY <4>1, <4>2
    <3>4. Follows(t[i], from + k - 1)
      <4> HIDE DEF k
      <4> QED
        BY <3>1, <3>2 DEF Follows
    <3> QED
      BY <3>3, <3>4
  <2>3. i \in 1..Len(s) \/ i \in (Len(s) + 1)..(Len(s) + n)
    BY <1>2
  <2> QED
    BY <2>1, <2>2, <2>3
<1>6. InOrder(a, t)
  BY <1>5 DEF InOrder
<1>7. RowsFollow(a, s, from, n, t)
  BY <1>1, <1>2, <1>4, <1>6 DEF RowsFollow
<1> QED
  BY <1>7 DEF t

-----------------------------------------------------------------------------------
Events == [revision : Nat, author : Clients \cup {None}]

LEMMA PublishType ==
    ASSUME TypeOK, NEW author \in Clients \cup {None}, Publish(author)
    PROVE  /\ queue' \in [Clients -> Seq(Events)] /\ open' \in [Clients -> BOOLEAN]
           /\ \A c \in Clients : Len(queue'[c]) <= QueueDepth
<1>1. [revision |-> head + 1, author |-> author] \in Events
  BY DEF TypeOK, Events
<1>2. ASSUME NEW c \in Clients
      PROVE  queue'[c] \in Seq(Events) /\ Len(queue'[c]) <= QueueDepth /\ open'[c] \in BOOLEAN
  <2>1. queue[c] \in Seq(Events) /\ Len(queue[c]) <= QueueDepth /\ open[c] \in BOOLEAN
    BY DEF TypeOK, Events
  <2>2. open'[c] = (open[c] /\ Room(c))
    BY DEF Publish
  <2>3. CASE open[c] /\ Room(c)
    <3>1. queue'[c] = Append(queue[c], [revision |-> head + 1, author |-> author])
      BY <2>3 DEF Publish
    <3> QED
      BY <1>1, <2>1, <2>2, <2>3, <3>1, DeliveryAssumption DEF Room
  <2>4. CASE ~ (open[c] /\ Room(c))
    BY <2>1, <2>2, <2>4 DEF Publish
  <2> QED
    BY <2>3, <2>4
<1>3. queue' = [c \in Clients |-> queue'[c]] /\ open' = [c \in Clients |-> open'[c]]
  BY DEF Publish
<1> QED
  BY <1>2, <1>3

LEMMA EndType ==
    ASSUME TypeOK, NEW c \in Clients, NEW reason \in {"snapshot", "closed", "slow", "gap"}, End(c, reason)
    PROVE  /\ queue' \in [Clients -> Seq(Events)] /\ open' \in [Clients -> BOOLEAN]
           /\ \A d \in Clients : Len(queue'[d]) <= QueueDepth
           /\ phase' \in [Clients -> Phases]
           /\ ended' \in [Clients -> {"not", "snapshot", "closed", "slow", "gap"}]
<1>1. << >> \in Seq(Events) /\ Len(<< >>) <= QueueDepth
  BY DeliveryAssumption
<1>2. queue \in [Clients -> Seq(Events)]
  BY DEF TypeOK, Events
<1>3. queue' \in [Clients -> Seq(Events)]
  BY <1>1, <1>2 DEF End
<1>4. \A d \in Clients : Len(queue'[d]) <= QueueDepth
  BY <1>1, <1>2 DEF End, TypeOK
<1> QED
  BY <1>3, <1>4 DEF TypeOK, End, Phases

LEMMA WriteType ==
    ASSUME TypeOK, NEW c \in Clients, NEW message \in Messages, Write(c, message)
    PROVE  wire' \in [Clients -> Seq(Messages)]
BY DEF TypeOK, Write

(* The page a replay turn writes, when it need not send a snapshot. *)
LEMMA PageFacts ==
    ASSUME TypeOK, Bounds, WireInOrder, NEW c \in Clients, phase[c] = "replay"
    PROVE  /\ PageEnd(c) \in Nat /\ PageEnd(c) - sent[c] \in Nat
           /\ PageEnd(c) <= boundary[c] /\ PageEnd(c) <= head
           /\ EndOf(acked[c], wire[c]) = sent[c]
<1>1. sent[c] \in Nat /\ boundary[c] \in Nat /\ sent[c] <= boundary[c] /\ boundary[c] <= head /\ head \in Nat
  BY DEF TypeOK, Bounds
<1>2. PageEnd(c) \in Nat /\ PageEnd(c) - sent[c] \in Nat /\ PageEnd(c) <= boundary[c] /\ PageEnd(c) <= head
  BY <1>1, DeliveryAssumption DEF PageEnd
<1> QED
  BY <1>2 DEF WireInOrder

LEMMA PageWritten ==
    ASSUME TypeOK, Bounds, WireInOrder, NEW c \in Clients, ReplayPage(c), ~ NeedsSnapshot(c)
    PROVE  /\ wire' \in [Clients -> Seq(Messages)]
           /\ \A d \in Clients \ {c} : wire'[d] = wire[d]
           /\ InOrder(acked[c], wire'[c])
           /\ EndOf(acked[c], wire'[c]) = PageEnd(c)
           /\ Len(wire'[c]) >= Len(wire[c])
           /\ \A i \in 1..Len(wire[c]) : wire'[c][i] = wire[c][i]
           /\ \A i \in (Len(wire[c]) + 1)..Len(wire'[c]) :
                 wire'[c][i].kind # "snapshot" /\ wire'[c][i].at <= PageEnd(c)
<1> DEFINE last == PageEnd(c)
           n == last - sent[c]
           rows == Rows(sent[c], n)
           t == wire[c] \o rows
           done == Message("complete", boundary[c], None, last)
<1>1. last \in Nat /\ n \in Nat /\ EndOf(acked[c], wire[c]) = sent[c] /\ sent[c] \in Nat
      /\ acked[c] \in Nat /\ boundary[c] \in Nat /\ wire[c] \in Seq(Messages) /\ InOrder(acked[c], wire[c])
  BY PageFacts DEF ReplayPage, TypeOK, WireInOrder
<1>2. t \in Seq(Messages) /\ InOrder(acked[c], t) /\ EndOf(acked[c], t) = last
      /\ Len(t) = Len(wire[c]) + n
      /\ (\A i \in 1..Len(wire[c]) : t[i] = wire[c][i])
      /\ (\A i \in 1..n : t[Len(wire[c]) + i] = Message("accepted", sent[c] + i, None, sent[c] + i))
  <2>1. sent[c] + n = last
    BY <1>1
  <2> HIDE DEF last, n, t
  <2>2. t = wire[c] \o Rows(sent[c], n)
    BY DEF t
  <2>0. RowsFollow(acked[c], wire[c], sent[c], n, wire[c] \o Rows(sent[c], n))
    BY <1>1, RowsInOrder
  <2>3. RowsFollow(acked[c], wire[c], sent[c], n, t)
    BY <2>0, <2>2
  <2> QED
    BY <2>1, <2>3 DEF RowsFollow
<1>3. wire' = [wire EXCEPT ![c] = IF last = boundary[c] THEN Append(t, done) ELSE t]
  BY DEF ReplayPage, Rows
<1>4. done \in Messages /\ done.kind = "complete" /\ done.at = last /\ done.revision = boundary[c]
  BY <1>1 DEF Message, Messages
<1>5. \A i \in (Len(wire[c]) + 1)..Len(t) : t[i].kind = "accepted" /\ t[i].at <= last
  <2> SUFFICES ASSUME NEW i \in (Len(wire[c]) + 1)..Len(t)
               PROVE  t[i].kind = "accepted" /\ t[i].at <= last
    OBVIOUS
  <2> DEFINE k == i - Len(wire[c])
  <2>0. sent[c] + n = last
    BY <1>1
  <2> HIDE DEF t, n, last
  <2>1. k \in 1..n /\ i = Len(wire[c]) + k
    BY <1>1, <1>2
  <2>2. t[i] = Message("accepted", sent[c] + k, None, sent[c] + k)
    BY <2>1, <1>2
  <2> QED
    BY <2>0, <2>1, <2>2, <1>1 DEF Message
<1> HIDE DEF last, t, done, n, rows
<1>6. CASE last = boundary[c]
  <2>1. Follows(done, last)
    BY <1>1, <1>4, <1>6 DEF Follows
  <2>2. InOrder(acked[c], Append(t, done)) /\ EndOf(acked[c], Append(t, done)) = last
    BY <1>1, <1>2, <1>4, <2>1, AppendInOrder
  <2>3. Append(t, done) \in Seq(Messages) /\ Len(Append(t, done)) = Len(t) + 1
        /\ Append(t, done)[Len(t) + 1] = done /\ \A i \in 1..Len(t) : Append(t, done)[i] = t[i]
    BY <1>2, <1>4
  <2>4. wire' = [wire EXCEPT ![c] = Append(t, done)]
    BY <1>3, <1>6
  <2>5. wire \in [Clients -> Seq(Messages)]
    BY DEF TypeOK
  <2> DEFINE u == Append(t, done)
  <2>6. u \in Seq(Messages) /\ Len(u) = Len(t) + 1 /\ u[Len(t) + 1] = done /\ \A i \in 1..Len(t) : u[i] = t[i]
    BY <2>3
  <2>7. wire' = [wire EXCEPT ![c] = u] /\ InOrder(acked[c], u) /\ EndOf(acked[c], u) = last
    BY <2>2, <2>4
  <2> HIDE DEF u
  <2>8. wire' \in [Clients -> Seq(Messages)] /\ wire'[c] = u /\ \A d \in Clients \ {c} : wire'[d] = wire[d]
    BY <2>5, <2>6, <2>7
  <2>9. Len(wire[c]) \in Nat /\ Len(t) \in Nat /\ Len(t) >= Len(wire[c])
    BY <1>1, <1>2
  <2>10. \A i \in 1..Len(wire[c]) : u[i] = wire[c][i]
    BY <1>2, <2>6, <2>9
  <2>11. \A i \in (Len(wire[c]) + 1)..Len(u) : u[i].kind # "snapshot" /\ u[i].at <= last
    <3> SUFFICES ASSUME NEW i \in (Len(wire[c]) + 1)..Len(u)
                 PROVE  u[i].kind # "snapshot" /\ u[i].at <= last
      OBVIOUS
    <3>1. CASE i = Len(t) + 1
      BY <3>1, <2>6, <1>4, <1>1
    <3>2. CASE i # Len(t) + 1
      <4>1. i \in (Len(wire[c]) + 1)..Len(t) /\ i \in 1..Len(t)
        BY <3>2, <2>6, <2>9
      <4> QED
        BY <4>1, <2>6, <1>5
    <3> QED
      BY <3>1, <3>2
  <2>12. Len(u) >= Len(wire[c])
    BY <2>6, <2>9
  <2> QED
    BY <2>7, <2>8, <2>10, <2>11, <2>12 DEF last
<1>7. CASE last # boundary[c]
  <2>1. wire' = [wire EXCEPT ![c] = t]
    BY <1>3, <1>7
  <2> QED
    BY <1>1, <1>2, <1>5, <2>1 DEF TypeOK, last
<1> QED
  BY <1>6, <1>7

-----------------------------------------------------------------------------------
(* The type invariant, in the parts that the provers take one at a time. *)
Numbers ==
    /\ head \in Nat /\ base \in Nat /\ breaks \in Nat /\ unpublished \in Nat
    /\ boundary \in [Clients -> Nat] /\ sent \in [Clients -> Nat]
    /\ target \in [Clients -> Nat] /\ acked \in [Clients -> Nat]
    /\ floor \in [Clients -> Nat \cup {None}]

Flags ==
    /\ serving \in BOOLEAN /\ faulted \in BOOLEAN
    /\ open \in [Clients -> BOOLEAN] /\ inbound \in [Clients -> BOOLEAN]
    /\ stale \in [Clients -> BOOLEAN] /\ waiting \in [Clients -> BOOLEAN]

Labels ==
    /\ phase \in [Clients -> Phases]
    /\ ended \in [Clients -> {"not", "snapshot", "closed", "slow", "gap"}]

Queues ==
    /\ queue \in [Clients -> Seq(Events)]
    /\ \A c \in Clients : Len(queue[c]) <= QueueDepth

Wires == wire \in [Clients -> Seq(Messages)]

LEMMA TypeParts == TypeOK <=> Numbers /\ Flags /\ Labels /\ Queues /\ Wires
BY DEF TypeOK, Numbers, Flags, Labels, Queues, Wires, Events

LEMMA NumbersNext ==
    ASSUME TypeOK, Bounds, WireInOrder, [Next]_vars
    PROVE  Numbers'
<1>0. Numbers
  BY TypeParts
<1> USE <1>0 DEF Numbers, session, client, owner
<1>1. CASE Accept
  BY <1>1 DEF Accept
<1>2. CASE Adopt
  BY <1>2 DEF Adopt
<1>3. CASE Compact
  BY <1>3 DEF Compact
<1>4. CASE CloseOwner
  BY <1>4 DEF CloseOwner
<1>5. ASSUME NEW c \in Clients, Joined(c)
      PROVE  Numbers'
  BY <1>5 DEF Joined
<1>6. ASSUME NEW c \in Clients, ReplayPage(c)
      PROVE  Numbers'
  <2>1. PageEnd(c) \in Nat
    BY <1>6, PageFacts DEF ReplayPage
  <2> QED
    BY <1>6, <2>1 DEF ReplayPage, End
<1>7. ASSUME NEW c \in Clients, ReadAuthority(c)
      PROVE  Numbers'
  BY <1>7 DEF ReadAuthority
<1>8. ASSUME NEW c \in Clients, Answer(c)
      PROVE  Numbers'
  BY <1>8 DEF Answer
<1>9. ASSUME NEW c \in Clients, Join(c)
      PROVE  Numbers'
  BY <1>9 DEF Join
<1>10. ASSUME NEW c \in Clients, Receive(c)
      PROVE  Numbers'
  BY <1>10 DEF Receive
<1>11. ASSUME NEW c \in Clients, Closed(c)
      PROVE  Numbers'
  BY <1>11 DEF Closed, Leave
<1>12. ASSUME NEW c \in Clients, Refresh(c)
      PROVE  Numbers'
  BY <1>12 DEF Refresh
<1>13. ASSUME NEW c \in Clients, Deliver(c)
      PROVE  Numbers'
  BY <1>13 DEF Deliver
<1>14. ASSUME NEW c \in Clients, Handle(c)
      PROVE  Numbers'
  BY <1>14 DEF Handle
<1>15. ASSUME NEW c \in Clients, Submit(c)
      PROVE  Numbers'
  BY <1>15 DEF Submit
<1>16. ASSUME NEW c \in Clients, Break(c)
      PROVE  Numbers'
  BY <1>16 DEF Break, Leave
<1>17. CASE UNCHANGED vars
  BY <1>17 DEF vars
<1> QED
  BY <1>1, <1>2, <1>3, <1>4, <1>5, <1>6, <1>7, <1>8, <1>9, <1>10, <1>11, <1>12, <1>13, <1>14, <1>15, <1>16,
     <1>17
     DEF Next, ServerStep, ClientStep

LEMMA FlagsNext ==
    ASSUME TypeOK, [Next]_vars
    PROVE  Flags'
<1>0. Flags
  BY TypeParts
<1> USE <1>0 DEF Flags, session, client, owner
<1>1. CASE Accept
  BY <1>1 DEF Accept, Publish
<1>2. CASE Adopt
  BY <1>2 DEF Adopt
<1>3. CASE Compact
  BY <1>3 DEF Compact
<1>4. CASE CloseOwner
  BY <1>4 DEF CloseOwner, PerClient
<1>5. ASSUME NEW c \in Clients, Joined(c)
      PROVE  Flags'
  BY <1>5 DEF Joined, End
<1>6. ASSUME NEW c \in Clients, ReplayPage(c)
      PROVE  Flags'
  BY <1>6 DEF ReplayPage, End
<1>7. ASSUME NEW c \in Clients, ReadAuthority(c)
      PROVE  Flags'
  BY <1>7 DEF ReadAuthority, End
<1>8. ASSUME NEW c \in Clients, Answer(c)
      PROVE  Flags'
  BY <1>8 DEF Answer
<1>9. ASSUME NEW c \in Clients, Join(c)
      PROVE  Flags'
  BY <1>9 DEF Join
<1>10. ASSUME NEW c \in Clients, Receive(c)
      PROVE  Flags'
  BY <1>10 DEF Receive
<1>11. ASSUME NEW c \in Clients, Closed(c)
      PROVE  Flags'
  BY <1>11 DEF Closed, Leave
<1>12. ASSUME NEW c \in Clients, Refresh(c)
      PROVE  Flags'
  BY <1>12 DEF Refresh
<1>13. ASSUME NEW c \in Clients, Deliver(c)
      PROVE  Flags'
  BY <1>13 DEF Deliver, End
<1>14. ASSUME NEW c \in Clients, Handle(c)
      PROVE  Flags'
  BY <1>14 DEF Handle, Publish
<1>15. ASSUME NEW c \in Clients, Submit(c)
      PROVE  Flags'
  BY <1>15 DEF Submit
<1>16. ASSUME NEW c \in Clients, Break(c)
      PROVE  Flags'
  BY <1>16 DEF Break, Leave
<1>17. CASE UNCHANGED vars
  BY <1>17 DEF vars
<1> QED
  BY <1>1, <1>2, <1>3, <1>4, <1>5, <1>6, <1>7, <1>8, <1>9, <1>10, <1>11, <1>12, <1>13, <1>14, <1>15, <1>16,
     <1>17
     DEF Next, ServerStep, ClientStep

LEMMA LabelsNext ==
    ASSUME TypeOK, [Next]_vars
    PROVE  Labels'
<1>0. Labels
  BY TypeParts
<1> USE <1>0 DEF Labels, Phases, session, client, owner
<1>1. CASE Accept
  BY <1>1 DEF Accept
<1>2. CASE Adopt
  BY <1>2 DEF Adopt
<1>3. CASE Compact
  BY <1>3 DEF Compact
<1>4. CASE CloseOwner
  BY <1>4 DEF CloseOwner
<1>5. ASSUME NEW c \in Clients, Joined(c)
      PROVE  Labels'
  BY <1>5 DEF Joined, End
<1>6. ASSUME NEW c \in Clients, ReplayPage(c)
      PROVE  Labels'
  BY <1>6 DEF ReplayPage, End
<1>7. ASSUME NEW c \in Clients, ReadAuthority(c)
      PROVE  Labels'
  BY <1>7 DEF ReadAuthority, End
<1>8. ASSUME NEW c \in Clients, Answer(c)
      PROVE  Labels'
  BY <1>8 DEF Answer
<1>9. ASSUME NEW c \in Clients, Join(c)
      PROVE  Labels'
  BY <1>9 DEF Join
<1>10. ASSUME NEW c \in Clients, Receive(c)
      PROVE  Labels'
  BY <1>10 DEF Receive
<1>11. ASSUME NEW c \in Clients, Closed(c)
      PROVE  Labels'
  BY <1>11 DEF Closed, Leave
<1>12. ASSUME NEW c \in Clients, Refresh(c)
      PROVE  Labels'
  BY <1>12 DEF Refresh
<1>13. ASSUME NEW c \in Clients, Deliver(c)
      PROVE  Labels'
  BY <1>13 DEF Deliver, End
<1>14. ASSUME NEW c \in Clients, Handle(c)
      PROVE  Labels'
  BY <1>14 DEF Handle
<1>15. ASSUME NEW c \in Clients, Submit(c)
      PROVE  Labels'
  BY <1>15 DEF Submit
<1>16. ASSUME NEW c \in Clients, Break(c)
      PROVE  Labels'
  BY <1>16 DEF Break, Leave
<1>17. CASE UNCHANGED vars
  BY <1>17 DEF vars
<1> QED
  BY <1>1, <1>2, <1>3, <1>4, <1>5, <1>6, <1>7, <1>8, <1>9, <1>10, <1>11, <1>12, <1>13, <1>14, <1>15, <1>16,
     <1>17
     DEF Next, ServerStep, ClientStep

LEMMA QueuesNext ==
    ASSUME TypeOK, [Next]_vars
    PROVE  Queues'
<1>0. Queues
  BY TypeParts
<1> USE <1>0 DEF Queues, session, client, owner
<1>1. CASE Accept
  BY <1>1, PublishType DEF Accept
<1>2. CASE Adopt
  BY <1>2 DEF Adopt
<1>3. CASE Compact
  BY <1>3 DEF Compact
<1>4. CASE CloseOwner
  BY <1>4 DEF CloseOwner
<1>5. ASSUME NEW c \in Clients, Joined(c)
      PROVE  Queues'
  BY <1>5, EndType DEF Joined
<1>6. ASSUME NEW c \in Clients, ReplayPage(c)
      PROVE  Queues'
  BY <1>6, EndType DEF ReplayPage
<1>7. ASSUME NEW c \in Clients, ReadAuthority(c)
      PROVE  Queues'
  BY <1>7, EndType DEF ReadAuthority
<1>8. ASSUME NEW c \in Clients, Answer(c)
      PROVE  Queues'
  BY <1>8 DEF Answer
<1>9. ASSUME NEW c \in Clients, Join(c)
      PROVE  Queues'
  <2>1. << >> \in Seq(Events) /\ Len(<< >>) = 0
    OBVIOUS
  <2> QED
    BY <1>9, <2>1, DeliveryAssumption DEF Join
<1>10. ASSUME NEW c \in Clients, Receive(c)
      PROVE  Queues'
  BY <1>10 DEF Receive
<1>11. ASSUME NEW c \in Clients, Closed(c)
      PROVE  Queues'
  BY <1>11 DEF Closed
<1>12. ASSUME NEW c \in Clients, Refresh(c)
      PROVE  Queues'
  BY <1>12 DEF Refresh
<1>13. ASSUME NEW c \in Clients, Deliver(c)
      PROVE  Queues'
  <2>1. CASE queue[c] = << >>
    BY <1>13, <2>1, EndType DEF Deliver
  <2>2. CASE queue[c] # << >>
    <3>1. queue[c] \in Seq(Events) /\ Len(queue[c]) <= QueueDepth
      OBVIOUS
    <3>2. Tail(queue[c]) \in Seq(Events) /\ Len(Tail(queue[c])) = Len(queue[c]) - 1 /\ Len(queue[c]) \in Nat
      BY <2>2, <3>1, HeadTailProperties
    <3>3. CASE queue' = [queue EXCEPT ![c] = Tail(queue[c])]
      BY <3>1, <3>2, <3>3, DeliveryAssumption
    <3>4. CASE End(c, "gap")
      BY <3>4, EndType
    <3> QED
      BY <1>13, <2>2, <3>3, <3>4 DEF Deliver
  <2> QED
    BY <2>1, <2>2
<1>14. ASSUME NEW c \in Clients, Handle(c)
      PROVE  Queues'
  BY <1>14, PublishType DEF Handle
<1>15. ASSUME NEW c \in Clients, Submit(c)
      PROVE  Queues'
  BY <1>15 DEF Submit
<1>16. ASSUME NEW c \in Clients, Break(c)
      PROVE  Queues'
  <2>1. << >> \in Seq(Events) /\ Len(<< >>) = 0
    OBVIOUS
  <2> QED
    BY <1>16, <2>1, DeliveryAssumption DEF Break
<1>17. CASE UNCHANGED vars
  BY <1>17 DEF vars
<1> QED
  BY <1>1, <1>2, <1>3, <1>4, <1>5, <1>6, <1>7, <1>8, <1>9, <1>10, <1>11, <1>12, <1>13, <1>14, <1>15, <1>16,
     <1>17
     DEF Next, ServerStep, ClientStep

LEMMA WiresNext ==
    ASSUME TypeOK, Bounds, WireInOrder, [Next]_vars
    PROVE  Wires'
<1>0. Numbers /\ Queues /\ Wires
  BY TypeParts
<1> USE <1>0 DEF Wires, session, client, owner
<1>1. CASE Accept
  BY <1>1 DEF Accept
<1>2. CASE Adopt
  BY <1>2 DEF Adopt
<1>3. CASE Compact
  BY <1>3 DEF Compact
<1>4. CASE CloseOwner
  BY <1>4 DEF CloseOwner
<1>5. ASSUME NEW c \in Clients, Joined(c)
      PROVE  Wires'
  <2>1. Message("joined", head, None, sent[c]) \in Messages
    BY DEF Message, Messages, Numbers
  <2> QED
    BY <1>5, <2>1, WriteType DEF Joined
<1>6. ASSUME NEW c \in Clients, ReplayPage(c)
      PROVE  Wires'
  <2>1. CASE NeedsSnapshot(c)
    <3>1. Message("snapshot", 0, None, sent[c]) \in Messages
      BY DEF Message, Messages, Numbers
    <3> QED
      BY <1>6, <2>1, <3>1, WriteType DEF ReplayPage
  <2>2. CASE ~ NeedsSnapshot(c)
    BY <1>6, <2>2, PageWritten
  <2> QED
    BY <2>1, <2>2
<1>7. ASSUME NEW c \in Clients, ReadAuthority(c)
      PROVE  Wires'
  BY <1>7 DEF ReadAuthority
<1>8. ASSUME NEW c \in Clients, Answer(c)
      PROVE  Wires'
  <2>1. Message(IF phase[c] = "reject" THEN "rejected" ELSE "accepted", target[c], c, sent[c]) \in Messages
    BY DEF Message, Messages, Numbers
  <2> QED
    BY <1>8, <2>1, WriteType DEF Answer
<1>9. ASSUME NEW c \in Clients, Join(c)
      PROVE  Wires'
  BY <1>9 DEF Join
<1>10. ASSUME NEW c \in Clients, Receive(c)
      PROVE  Wires'
  <2>1. wire[c] \in Seq(Messages) /\ wire[c] # << >>
    BY <1>10 DEF Receive
  <2>2. Tail(wire[c]) \in Seq(Messages)
    BY <2>1, HeadTailProperties
  <2> QED
    BY <1>10, <2>2 DEF Receive
<1>11. ASSUME NEW c \in Clients, Closed(c)
      PROVE  Wires'
  BY <1>11 DEF Closed, Leave
<1>12. ASSUME NEW c \in Clients, Refresh(c)
      PROVE  Wires'
  BY <1>12 DEF Refresh
<1>13. ASSUME NEW c \in Clients, Deliver(c)
      PROVE  Wires'
  <2> DEFINE event == Head(queue[c])
             message == Message("accepted", event.revision, event.author, event.revision)
  <2>1. CASE wire' = wire
    BY <2>1
  <2>2. CASE queue[c] # << >> /\ Write(c, message)
    <3>1. event \in Events
      BY <2>2, HeadTailProperties DEF Queues
    <3>2. message \in Messages
      BY <3>1 DEF Message, Messages, Events
    <3> QED
      BY <2>2, <3>2, WriteType
  <2> QED
    BY <1>13, <2>1, <2>2 DEF Deliver
<1>14. ASSUME NEW c \in Clients, Handle(c)
      PROVE  Wires'
  BY <1>14 DEF Handle
<1>15. ASSUME NEW c \in Clients, Submit(c)
      PROVE  Wires'
  BY <1>15 DEF Submit
<1>16. ASSUME NEW c \in Clients, Break(c)
      PROVE  Wires'
  BY <1>16 DEF Break, Leave
<1>17. CASE UNCHANGED vars
  BY <1>17 DEF vars
<1> QED
  BY <1>1, <1>2, <1>3, <1>4, <1>5, <1>6, <1>7, <1>8, <1>9, <1>10, <1>11, <1>12, <1>13, <1>14, <1>15, <1>16,
     <1>17
     DEF Next, ServerStep, ClientStep

LEMMA TypeInit == Init => TypeOK
<1>1. Init => Numbers
  BY DEF Init, PerClient, Numbers
<1>2. Init => Flags
  BY DEF Init, PerClient, Flags
<1>3. Init => Labels
  BY DEF Init, PerClient, Labels, Phases
<1>4. Init => Queues
  <2>1. << >> \in Seq(Events) /\ Len(<< >>) = 0
    OBVIOUS
  <2> QED
    BY <2>1, DeliveryAssumption DEF Init, PerClient, Queues
<1>5. Init => Wires
  BY DEF Init, PerClient, Wires
<1> QED
  BY <1>1, <1>2, <1>3, <1>4, <1>5, TypeParts

LEMMA TypeNext ==
    ASSUME TypeOK, Bounds, WireInOrder, [Next]_vars
    PROVE  TypeOK'
<1>1. Numbers' /\ Flags' /\ Labels' /\ Queues' /\ Wires'
  BY NumbersNext, FlagsNext, LabelsNext, QueuesNext, WiresNext
<1>2. (Numbers /\ Flags /\ Labels /\ Queues /\ Wires)' => TypeOK'
  BY TypeParts DEF TypeOK, Numbers, Flags, Labels, Queues, Wires, Events
<1> QED
  BY <1>1, <1>2

-----------------------------------------------------------------------------------
LEMMA EmptyInOrder ==
    ASSUME NEW a
    PROVE  InOrder(a, << >>) /\ EndOf(a, << >>) = a
BY DEF InOrder, EndOf

(* Writing a message that follows keeps the wire of its client in order. *)
LEMMA WriteInOrder ==
    ASSUME TypeOK, WireInOrder, NEW c \in Clients, NEW message \in Messages, Write(c, message),
           Follows(message, sent[c]), phase[c] \notin {"offline", "ended"}
    PROVE  /\ InOrder(acked[c], wire'[c]) /\ EndOf(acked[c], wire'[c]) = message.at
           /\ \A d \in Clients \ {c} : wire'[d] = wire[d]
<1>1. acked[c] \in Nat /\ wire[c] \in Seq(Messages) /\ wire'[c] = Append(wire[c], message)
      /\ \A d \in Clients \ {c} : wire'[d] = wire[d]
  BY DEF TypeOK, Write
<1>2. InOrder(acked[c], wire[c]) /\ EndOf(acked[c], wire[c]) = sent[c]
  BY DEF WireInOrder
<1> QED
  BY <1>1, <1>2, AppendInOrder

(* A rejection is written exactly at the revision that has been sent. *)
LEMMA AnswerFollows ==
    ASSUME TypeOK, Bounds, NEW c \in Clients, Answer(c),
           NEW message, message = Message(IF phase[c] = "reject" THEN "rejected" ELSE "accepted", target[c], c, sent[c])
    PROVE  message \in Messages /\ Follows(message, sent[c]) /\ message.at = sent[c] /\ message.kind # "snapshot"
<1>1. sent[c] \in Nat /\ target[c] \in Nat
  BY DEF TypeOK
<1>2. sent[c] >= target[c] /\ (phase[c] = "reject" => sent[c] = target[c])
  BY <1>1 DEF Answer, Flushing, Bounds
<1> QED
  BY <1>1, <1>2 DEF Message, Messages, Follows

(* An event that is written is the next revision. *)
LEMMA DeliverCases ==
    ASSUME TypeOK, NEW c \in Clients, Deliver(c)
    PROVE  \/ UNCHANGED <<sent, wire>> /\ (UNCHANGED phase \/ phase' = [phase EXCEPT ![c] = "ended"])
           \/ \E message \in Messages :
                 /\ Write(c, message) /\ UNCHANGED phase
                 /\ message.kind = "accepted" /\ message.revision = sent[c] + 1 /\ message.at = sent[c] + 1
                 /\ sent' = [sent EXCEPT ![c] = sent[c] + 1]
                 /\ queue[c] # << >> /\ Head(queue[c]).revision = sent[c] + 1
<1> DEFINE event == Head(queue[c])
           message == Message("accepted", event.revision, event.author, event.revision)
<1>1. CASE queue[c] # << >> /\ event.revision = sent[c] + 1
  <2>1. event \in Events /\ sent[c] \in Nat
    BY <1>1, HeadTailProperties DEF TypeOK, Events
  <2>2. message \in Messages
    BY <2>1 DEF Message, Messages, Events
  <2>3. message.kind = "accepted" /\ message.revision = sent[c] + 1 /\ message.at = sent[c] + 1
    BY <1>1 DEF Message
  <2>4. Write(c, message) /\ UNCHANGED phase /\ sent' = [sent EXCEPT ![c] = sent[c] + 1]
    BY <1>1, <2>1 DEF Deliver
  <2> QED
    BY <1>1, <2>2, <2>3, <2>4
<1>2. CASE queue[c] = << >> \/ event.revision # sent[c] + 1
  BY <1>2 DEF Deliver, End
<1> QED
  BY <1>1, <1>2

LEMMA WireNext ==
    ASSUME TypeOK, Bounds, SnapshotLast, WireInOrder, [Next]_vars
    PROVE  WireInOrder'
<1>0. Numbers /\ Flags /\ Labels /\ Queues /\ Wires
  BY TypeParts
<1> USE <1>0 DEF WireInOrder, Numbers, Labels, Wires, session, client, owner
<1>1. CASE Accept
  BY <1>1 DEF Accept
<1>2. CASE Adopt
  BY <1>2 DEF Adopt
<1>3. CASE Compact
  BY <1>3 DEF Compact
<1>4. CASE CloseOwner
  BY <1>4 DEF CloseOwner
<1>5. ASSUME NEW c \in Clients, Joined(c)
      PROVE  WireInOrder'
  <2>1. CASE ~ serving
    BY <1>5, <2>1 DEF Joined, End
  <2>2. CASE serving
    <3> DEFINE message == Message("joined", head, None, sent[c])
    <3>1. message \in Messages /\ Follows(message, sent[c]) /\ message.at = sent[c]
      BY DEF Message, Messages, Follows, Numbers
    <3>2. InOrder(acked[c], wire'[c]) /\ EndOf(acked[c], wire'[c]) = sent[c]
          /\ \A d \in Clients \ {c} : wire'[d] = wire[d]
      BY <1>5, <2>2, <3>1, WriteInOrder DEF Joined
    <3> QED
      BY <1>5, <2>2, <3>2 DEF Joined
  <2> QED
    BY <2>1, <2>2
<1>6. ASSUME NEW c \in Clients, ReplayPage(c)
      PROVE  WireInOrder'
  <2>1. CASE NeedsSnapshot(c)
    <3> DEFINE message == Message("snapshot", 0, None, sent[c])
    <3>1. message \in Messages /\ Follows(message, sent[c])
      BY DEF Message, Messages, Follows, Numbers
    <3>2. InOrder(acked[c], wire'[c]) /\ \A d \in Clients \ {c} : wire'[d] = wire[d]
      BY <1>6, <2>1, <3>1, WriteInOrder DEF ReplayPage
    <3> QED
      BY <1>6, <2>1, <3>2 DEF ReplayPage, End
  <2>2. CASE ~ NeedsSnapshot(c)
    BY <1>6, <2>2, PageWritten DEF ReplayPage
  <2> QED
    BY <2>1, <2>2
<1>7. ASSUME NEW c \in Clients, ReadAuthority(c)
      PROVE  WireInOrder'
  BY <1>7 DEF ReadAuthority, End
<1>8. ASSUME NEW c \in Clients, Answer(c)
      PROVE  WireInOrder'
  <2> DEFINE message == Message(IF phase[c] = "reject" THEN "rejected" ELSE "accepted", target[c], c, sent[c])
  <2>1. message \in Messages /\ Follows(message, sent[c]) /\ message.at = sent[c]
    BY <1>8, AnswerFollows
  <2>2. InOrder(acked[c], wire'[c]) /\ EndOf(acked[c], wire'[c]) = sent[c]
        /\ \A d \in Clients \ {c} : wire'[d] = wire[d]
    BY <1>8, <2>1, WriteInOrder DEF Answer
  <2> QED
    BY <1>8, <2>2 DEF Answer
<1>9. ASSUME NEW c \in Clients, Join(c)
      PROVE  WireInOrder'
  <2>1. wire[c] = << >>
    BY <1>9 DEF Join, SnapshotLast
  <2> QED
    BY <1>9, <2>1, EmptyInOrder DEF Join
<1>10. ASSUME NEW c \in Clients, Receive(c)
      PROVE  WireInOrder'
  <2> DEFINE message == Head(wire[c])
  <2>1. /\ message \in Messages /\ Tail(wire[c]) \in Seq(Messages) /\ Follows(message, acked[c])
        /\ InOrder(message.at, Tail(wire[c])) /\ EndOf(message.at, Tail(wire[c])) = EndOf(acked[c], wire[c])
    BY <1>10, TailInOrder DEF Receive, Numbers, Wires
  <2>2. acked' = [acked EXCEPT ![c] = message.at]
    <3>1. message.at = IF message.kind = "accepted" /\ message.revision = acked[c] + 1 THEN acked[c] + 1 ELSE acked[c]
      BY <2>1 DEF Follows, Messages, Numbers
    <3> QED
      BY <1>10, <3>1 DEF Receive
  <2>3. wire' = [wire EXCEPT ![c] = Tail(wire[c])] /\ UNCHANGED <<phase, sent>>
    BY <1>10 DEF Receive
  <2> QED
    BY <2>1, <2>2, <2>3 DEF Numbers, Wires
<1>11. ASSUME NEW c \in Clients, Closed(c)
      PROVE  WireInOrder'
  BY <1>11, EmptyInOrder DEF Closed, Leave
<1>12. ASSUME NEW c \in Clients, Refresh(c)
      PROVE  WireInOrder'
  <2>1. phase[c] = "ended" /\ wire[c] = << >>
    BY <1>12 DEF Refresh, SnapshotLast
  <2> QED
    BY <1>12, <2>1, EmptyInOrder DEF Refresh
<1>13. ASSUME NEW c \in Clients, Deliver(c)
      PROVE  WireInOrder'
  <2>1. CASE UNCHANGED <<sent, wire>> /\ (UNCHANGED phase \/ phase' = [phase EXCEPT ![c] = "ended"])
    BY <1>13, <2>1 DEF Deliver
  <2>2. CASE \E message \in Messages :
                 /\ Write(c, message) /\ UNCHANGED phase
                 /\ message.kind = "accepted" /\ message.revision = sent[c] + 1 /\ message.at = sent[c] + 1
                 /\ sent' = [sent EXCEPT ![c] = sent[c] + 1]
    <3> PICK message \in Messages :
                 /\ Write(c, message) /\ UNCHANGED phase
                 /\ message.kind = "accepted" /\ message.revision = sent[c] + 1 /\ message.at = sent[c] + 1
                 /\ sent' = [sent EXCEPT ![c] = sent[c] + 1]
      BY <2>2
    <3>1. Follows(message, sent[c]) /\ phase[c] \notin {"offline", "ended"}
      BY <1>13 DEF Follows, Deliver, Flushing
    <3>2. InOrder(acked[c], wire'[c]) /\ EndOf(acked[c], wire'[c]) = sent[c] + 1
          /\ \A d \in Clients \ {c} : wire'[d] = wire[d]
      BY <3>1, WriteInOrder
    <3>3. UNCHANGED acked
      BY <1>13 DEF Deliver
    <3> QED
      BY <3>2, <3>3 DEF Numbers
  <2> QED
    BY <1>13, <2>1, <2>2, DeliverCases
<1>14. ASSUME NEW c \in Clients, Handle(c)
      PROVE  WireInOrder'
  BY <1>14 DEF Handle
<1>15. ASSUME NEW c \in Clients, Submit(c)
      PROVE  WireInOrder'
  BY <1>15 DEF Submit
<1>16. ASSUME NEW c \in Clients, Break(c)
      PROVE  WireInOrder'
  BY <1>16, EmptyInOrder DEF Break, Leave
<1>17. CASE UNCHANGED vars
  BY <1>17 DEF vars
<1> QED
  BY <1>1, <1>2, <1>3, <1>4, <1>5, <1>6, <1>7, <1>8, <1>9, <1>10, <1>11, <1>12, <1>13, <1>14, <1>15, <1>16,
     <1>17
     DEF Next, ServerStep, ClientStep

-----------------------------------------------------------------------------------
(* Bounds, in the parts that the provers take one at a time. *)
Levels ==
    \A c \in Clients :
        /\ acked[c] <= head /\ sent[c] <= head /\ target[c] <= head /\ boundary[c] <= head
        /\ phase[c] = "replay" => sent[c] <= boundary[c]
        /\ phase[c] = "reject" => sent[c] <= target[c]

WireBelow == \A c \in Clients : \A i \in DOMAIN wire[c] : wire[c][i].at <= head

QueueBelow == \A c \in Clients : \A i \in DOMAIN queue[c] : queue[c][i].revision <= head

(* What is on a wire or in a queue is numbered. *)
LEMMA EntriesNumbered ==
    ASSUME TypeOK, NEW c \in Clients
    PROVE  /\ \A i \in DOMAIN wire[c] : wire[c][i].at \in Nat
           /\ \A i \in DOMAIN queue[c] : queue[c][i].revision \in Nat
<1>1. wire[c] \in Seq(Messages) /\ queue[c] \in Seq(Events)
  BY DEF TypeOK, Events
<1>2. \A i \in DOMAIN wire[c] : wire[c][i] \in Messages
  BY <1>1
<1>3. \A i \in DOMAIN queue[c] : queue[c][i] \in Events
  BY <1>1
<1> QED
  BY <1>2, <1>3 DEF Messages, Events

LEMMA BoundsParts == Bounds <=> Levels /\ WireBelow /\ QueueBelow
BY DEF Bounds, Levels, WireBelow, QueueBelow

(* A written message is the last of its wire, and nothing else changes. *)
LEMMA WriteEntries ==
    ASSUME TypeOK, NEW c \in Clients, NEW message \in Messages, Write(c, message)
    PROVE  /\ \A d \in Clients \ {c} : wire'[d] = wire[d]
           /\ Len(wire[c]) \in Nat /\ Len(wire'[c]) = Len(wire[c]) + 1
           /\ DOMAIN wire[c] = 1..Len(wire[c]) /\ DOMAIN wire'[c] = 1..Len(wire'[c])
           /\ \A i \in 1..Len(wire[c]) : wire'[c][i] = wire[c][i]
           /\ wire'[c][Len(wire[c]) + 1] = message
BY DEF TypeOK, Write

(* A message numbered no higher than the head may be written to a wire. *)
LEMMA WriteBelow ==
    ASSUME TypeOK, WireBelow, NEW c \in Clients, NEW message \in Messages, Write(c, message),
           message.at <= head, UNCHANGED head
    PROVE  WireBelow'
<1>1. ASSUME NEW d \in Clients, NEW i \in DOMAIN wire'[d]
      PROVE  wire'[d][i].at <= head
  <2>1. CASE d # c
    <3>1. wire'[d] = wire[d]
      BY <2>1, WriteEntries
    <3> QED
      BY <1>1, <3>1 DEF WireBelow
  <2>2. CASE d = c
    <3>1. /\ DOMAIN wire'[c] = 1..(Len(wire[c]) + 1) /\ DOMAIN wire[c] = 1..Len(wire[c]) /\ Len(wire[c]) \in Nat
          /\ \A j \in 1..Len(wire[c]) : wire'[c][j] = wire[c][j]
          /\ wire'[c][Len(wire[c]) + 1] = message
      BY WriteEntries
    <3>2. i \in 1..Len(wire[c]) \/ i = Len(wire[c]) + 1
      BY <1>1, <2>2, <3>1
    <3> QED
      BY <2>2, <3>1, <3>2 DEF WireBelow
  <2> QED
    BY <2>1, <2>2
<1> QED
  BY <1>1 DEF WireBelow

LEMMA LevelsNext ==
    ASSUME TypeOK, Bounds, WireInOrder, [Next]_vars
    PROVE  Levels'
<1>0. Levels /\ Numbers /\ Flags /\ Labels /\ Queues /\ Wires
  BY TypeParts, BoundsParts
<1> USE <1>0 DEF Levels, Numbers, Labels, session, client, owner
<1>1. CASE Accept
  BY <1>1 DEF Accept
<1>2. CASE Adopt
  BY <1>2 DEF Adopt
<1>3. CASE Compact
  BY <1>3 DEF Compact
<1>4. CASE CloseOwner
  BY <1>4 DEF CloseOwner
<1>5. ASSUME NEW c \in Clients, Joined(c)
      PROVE  Levels'
  BY <1>5 DEF Joined, End
<1>6. ASSUME NEW c \in Clients, ReplayPage(c)
      PROVE  Levels'
  <2>1. PageEnd(c) \in Nat /\ PageEnd(c) <= boundary[c] /\ PageEnd(c) <= head
    BY <1>6, PageFacts DEF ReplayPage
  <2> QED
    BY <1>6, <2>1 DEF ReplayPage, End
<1>7. ASSUME NEW c \in Clients, ReadAuthority(c)
      PROVE  Levels'
  <2>1. CASE serving
    BY <1>7, <2>1 DEF ReadAuthority
  <2>2. CASE ~ serving
    BY <1>7, <2>2 DEF ReadAuthority, End
  <2> QED
    BY <2>1, <2>2
<1>8. ASSUME NEW c \in Clients, Answer(c)
      PROVE  Levels'
  BY <1>8 DEF Answer
<1>9. ASSUME NEW c \in Clients, Join(c)
      PROVE  Levels'
  BY <1>9 DEF Join
<1>10. ASSUME NEW c \in Clients, Receive(c)
      PROVE  Levels'
  <2> DEFINE message == Head(wire[c])
  <2>1. message.at <= head
    <3>1. 1 \in DOMAIN wire[c] /\ message = wire[c][1]
      BY <1>10, EmptySeq DEF Receive, Wires
    <3> QED
      BY <3>1, BoundsParts DEF WireBelow
  <2>2. message \in Messages /\ Follows(message, acked[c])
    BY <1>10, TailInOrder DEF Receive, Wires, WireInOrder
  <2>3. message.kind = "accepted" /\ message.revision = acked[c] + 1 => message.at = acked[c] + 1
    BY <2>2 DEF Follows, Messages
  <2> QED
    BY <1>10, <2>1, <2>3 DEF Receive
<1>11. ASSUME NEW c \in Clients, Closed(c)
      PROVE  Levels'
  BY <1>11 DEF Closed, Leave
<1>12. ASSUME NEW c \in Clients, Refresh(c)
      PROVE  Levels'
  BY <1>12 DEF Refresh
<1>13. ASSUME NEW c \in Clients, Deliver(c)
      PROVE  Levels'
  <2>1. CASE UNCHANGED <<sent, wire>> /\ (UNCHANGED phase \/ phase' = [phase EXCEPT ![c] = "ended"])
    BY <1>13, <2>1 DEF Deliver
  <2>2. CASE /\ UNCHANGED phase /\ sent' = [sent EXCEPT ![c] = sent[c] + 1]
             /\ queue[c] # << >> /\ Head(queue[c]).revision = sent[c] + 1
    <3>1. 1 \in DOMAIN queue[c] /\ Head(queue[c]) = queue[c][1]
      BY <2>2, EmptySeq DEF Queues
    <3>2. sent[c] + 1 <= head
      BY <2>2, <3>1, BoundsParts DEF QueueBelow
    <3>3. phase[c] # "replay" /\ (phase[c] = "reject" => sent[c] + 1 <= target[c])
      BY <1>13 DEF Deliver, Flushing
    <3> QED
      BY <1>13, <2>2, <3>2, <3>3 DEF Deliver
  <2> QED
    BY <1>13, <2>1, <2>2, DeliverCases
<1>14. ASSUME NEW c \in Clients, Handle(c)
      PROVE  Levels'
  BY <1>14 DEF Handle
<1>15. ASSUME NEW c \in Clients, Submit(c)
      PROVE  Levels'
  BY <1>15 DEF Submit
<1>16. ASSUME NEW c \in Clients, Break(c)
      PROVE  Levels'
  BY <1>16 DEF Break, Leave
<1>17. CASE UNCHANGED vars
  BY <1>17 DEF vars
<1> QED
  BY <1>1, <1>2, <1>3, <1>4, <1>5, <1>6, <1>7, <1>8, <1>9, <1>10, <1>11, <1>12, <1>13, <1>14, <1>15, <1>16,
     <1>17
     DEF Next, ServerStep, ClientStep

LEMMA WireBelowNext ==
    ASSUME TypeOK, Bounds, WireInOrder, [Next]_vars
    PROVE  WireBelow'
<1>0. Levels /\ WireBelow /\ QueueBelow /\ Numbers /\ Flags /\ Labels /\ Queues /\ Wires
  BY TypeParts, BoundsParts
<1> USE <1>0 DEF WireBelow, session, client, owner
<1>1. CASE Accept
  BY <1>1, EntriesNumbered DEF Accept, Numbers
<1>2. CASE Adopt
  BY <1>2, EntriesNumbered DEF Adopt, Numbers
<1>3. CASE Compact
  BY <1>3 DEF Compact
<1>4. CASE CloseOwner
  BY <1>4 DEF CloseOwner
<1>5. ASSUME NEW c \in Clients, Joined(c)
      PROVE  WireBelow'
  <2> DEFINE message == Message("joined", head, None, sent[c])
  <2>1. message \in Messages /\ message.at <= head
    BY DEF Message, Messages, Numbers, Levels
  <2> QED
    BY <1>5, <2>1, WriteEntries DEF Joined
<1>6. ASSUME NEW c \in Clients, ReplayPage(c)
      PROVE  WireBelow'
  <2>1. CASE NeedsSnapshot(c)
    <3> DEFINE message == Message("snapshot", 0, None, sent[c])
    <3>1. message \in Messages /\ message.at <= head
      BY DEF Message, Messages, Numbers, Levels
    <3>2. Write(c, message) /\ UNCHANGED head
      BY <1>6, <2>1 DEF ReplayPage
    <3> HIDE DEF message
    <3> QED
      BY <3>1, <3>2, WriteBelow
  <2>2. CASE ~ NeedsSnapshot(c)
    <3>1. PageEnd(c) \in Nat /\ PageEnd(c) <= head
      BY <1>6, PageFacts DEF ReplayPage
    <3>2. wire'[c] \in Seq(Messages) /\ wire[c] \in Seq(Messages)
      BY <1>6, <2>2, PageWritten DEF Wires
    <3>3. \A i \in DOMAIN wire'[c] : wire'[c][i].at <= head
      <4> SUFFICES ASSUME NEW i \in DOMAIN wire'[c]
                   PROVE  wire'[c][i].at <= head
        OBVIOUS
      <4>1. i \in 1..Len(wire[c]) \/ i \in (Len(wire[c]) + 1)..Len(wire'[c])
        BY <3>2
      <4>2. CASE i \in 1..Len(wire[c])
        BY <1>6, <2>2, <3>2, <4>2, PageWritten
      <4>3. CASE i \in (Len(wire[c]) + 1)..Len(wire'[c])
        <5>1. wire'[c][i].at <= PageEnd(c) /\ wire'[c][i] \in Messages
          BY <1>6, <2>2, <3>2, <4>3, PageWritten
        <5> QED
          BY <3>1, <5>1 DEF Messages, Numbers
      <4> QED
        BY <4>1, <4>2, <4>3
    <3>4. \A d \in Clients \ {c} : wire'[d] = wire[d]
      BY <1>6, <2>2, PageWritten
    <3>5. UNCHANGED head
      BY <1>6 DEF ReplayPage
    <3> QED
      BY <3>3, <3>4, <3>5
  <2> QED
    BY <2>1, <2>2
<1>7. ASSUME NEW c \in Clients, ReadAuthority(c)
      PROVE  WireBelow'
  BY <1>7 DEF ReadAuthority
<1>8. ASSUME NEW c \in Clients, Answer(c)
      PROVE  WireBelow'
  <2> DEFINE message == Message(IF phase[c] = "reject" THEN "rejected" ELSE "accepted", target[c], c, sent[c])
  <2>1. message \in Messages /\ message.at <= head
    BY DEF Message, Messages, Numbers, Levels
  <2>2. Write(c, message) /\ UNCHANGED head
    BY <1>8 DEF Answer
  <2> HIDE DEF message
  <2> QED
    BY <2>1, <2>2, WriteEntries
<1>9. ASSUME NEW c \in Clients, Join(c)
      PROVE  WireBelow'
  BY <1>9 DEF Join
<1>10. ASSUME NEW c \in Clients, Receive(c)
      PROVE  WireBelow'
  <2>1. wire[c] \in Seq(Messages) /\ wire[c] # << >>
    BY <1>10 DEF Receive, Wires
  <2>2. \A i \in DOMAIN Tail(wire[c]) : i + 1 \in DOMAIN wire[c] /\ Tail(wire[c])[i] = wire[c][i + 1]
    BY <2>1, HeadTailProperties
  <2> QED
    BY <1>10, <2>2 DEF Receive, Wires
<1>11. ASSUME NEW c \in Clients, Closed(c)
      PROVE  WireBelow'
  BY <1>11 DEF Closed, Leave, Wires
<1>12. ASSUME NEW c \in Clients, Refresh(c)
      PROVE  WireBelow'
  BY <1>12 DEF Refresh
<1>13. ASSUME NEW c \in Clients, Deliver(c)
      PROVE  WireBelow'
  <2>1. CASE UNCHANGED wire
    BY <1>13, <2>1 DEF Deliver
  <2>2. CASE \E message \in Messages :
                 /\ Write(c, message) /\ message.at = sent[c] + 1
                 /\ queue[c] # << >> /\ Head(queue[c]).revision = sent[c] + 1
    <3> PICK message \in Messages :
                 /\ Write(c, message) /\ message.at = sent[c] + 1
                 /\ queue[c] # << >> /\ Head(queue[c]).revision = sent[c] + 1
      BY <2>2
    <3>1. 1 \in DOMAIN queue[c] /\ Head(queue[c]) = queue[c][1]
      BY EmptySeq DEF Queues
    <3>2. message.at <= head
      BY <3>1 DEF QueueBelow
    <3>3. UNCHANGED head
      BY <1>13 DEF Deliver
    <3> QED
      BY <3>2, <3>3, WriteBelow
  <2> QED
    BY <1>13, <2>1, <2>2, DeliverCases
<1>14. ASSUME NEW c \in Clients, Handle(c)
      PROVE  WireBelow'
  <2>1. UNCHANGED wire /\ (head' = head \/ head' = head + 1)
    BY <1>14 DEF Handle
  <2> QED
    BY <2>1, EntriesNumbered DEF Numbers
<1>15. ASSUME NEW c \in Clients, Submit(c)
      PROVE  WireBelow'
  BY <1>15 DEF Submit
<1>16. ASSUME NEW c \in Clients, Break(c)
      PROVE  WireBelow'
  BY <1>16 DEF Break, Leave, Wires
<1>17. CASE UNCHANGED vars
  BY <1>17 DEF vars
<1> QED
  BY <1>1, <1>2, <1>3, <1>4, <1>5, <1>6, <1>7, <1>8, <1>9, <1>10, <1>11, <1>12, <1>13, <1>14, <1>15, <1>16,
     <1>17
     DEF Next, ServerStep, ClientStep

LEMMA PublishBelow ==
    ASSUME TypeOK, QueueBelow, NEW author \in Clients \cup {None}, Publish(author), head' = head + 1
    PROVE  QueueBelow'
<1> SUFFICES ASSUME NEW c \in Clients, NEW i \in DOMAIN queue'[c]
             PROVE  queue'[c][i].revision <= head + 1
  BY DEF QueueBelow
<1> DEFINE event == [revision |-> head + 1, author |-> author]
<1>1. queue[c] \in Seq(Events) /\ head \in Nat
  BY DEF TypeOK, Events
<1>4. event \in Events
  BY <1>1 DEF Events
<1>2. queue'[c] = IF open[c] /\ Room(c) THEN Append(queue[c], event) ELSE queue[c]
  BY DEF Publish
<1>3. \A j \in DOMAIN queue[c] : queue[c][j].revision \in Nat /\ queue[c][j].revision <= head
  BY EntriesNumbered DEF QueueBelow
<1> QED
  BY <1>1, <1>2, <1>3, <1>4

LEMMA QueueBelowNext ==
    ASSUME TypeOK, QueueBelow, [Next]_vars
    PROVE  QueueBelow'
<1>0. Numbers /\ Queues
  BY TypeParts
<1> USE <1>0 DEF QueueBelow, session, client, owner
<1>1. CASE Accept
  BY <1>1, PublishBelow DEF Accept
<1>2. CASE Adopt
  BY <1>2, EntriesNumbered DEF Adopt, Numbers
<1>3. CASE Compact
  BY <1>3 DEF Compact
<1>4. CASE CloseOwner
  BY <1>4 DEF CloseOwner
<1>5. ASSUME NEW c \in Clients, Joined(c)
      PROVE  QueueBelow'
  <2>1. queue' = queue \/ queue' = [queue EXCEPT ![c] = << >>]
    BY <1>5 DEF Joined, End
  <2>2. UNCHANGED head
    BY <1>5 DEF Joined
  <2> QED
    BY <2>1, <2>2 DEF Queues
<1>6. ASSUME NEW c \in Clients, ReplayPage(c)
      PROVE  QueueBelow'
  <2>1. queue' = queue \/ queue' = [queue EXCEPT ![c] = << >>]
    BY <1>6 DEF ReplayPage, End
  <2>2. UNCHANGED head
    BY <1>6 DEF ReplayPage
  <2> QED
    BY <2>1, <2>2 DEF Queues
<1>7. ASSUME NEW c \in Clients, ReadAuthority(c)
      PROVE  QueueBelow'
  BY <1>7 DEF ReadAuthority, End, Queues
<1>8. ASSUME NEW c \in Clients, Answer(c)
      PROVE  QueueBelow'
  BY <1>8 DEF Answer
<1>9. ASSUME NEW c \in Clients, Join(c)
      PROVE  QueueBelow'
  BY <1>9 DEF Join, Queues
<1>10. ASSUME NEW c \in Clients, Receive(c)
      PROVE  QueueBelow'
  BY <1>10 DEF Receive
<1>11. ASSUME NEW c \in Clients, Closed(c)
      PROVE  QueueBelow'
  BY <1>11 DEF Closed
<1>12. ASSUME NEW c \in Clients, Refresh(c)
      PROVE  QueueBelow'
  BY <1>12 DEF Refresh
<1>13. ASSUME NEW c \in Clients, Deliver(c)
      PROVE  QueueBelow'
  <2>1. CASE queue' = [queue EXCEPT ![c] = << >>]
    BY <1>13, <2>1 DEF Deliver, Queues
  <2>2. CASE queue[c] # << >> /\ queue' = [queue EXCEPT ![c] = Tail(queue[c])]
    <3>1. \A i \in DOMAIN Tail(queue[c]) : i + 1 \in DOMAIN queue[c] /\ Tail(queue[c])[i] = queue[c][i + 1]
      BY <2>2, HeadTailProperties DEF Queues
    <3> QED
      BY <1>13, <2>2, <3>1 DEF Deliver, Queues
  <2> QED
    BY <1>13, <2>1, <2>2 DEF Deliver, End
<1>14. ASSUME NEW c \in Clients, Handle(c)
      PROVE  QueueBelow'
  <2>1. CASE UNCHANGED <<head, queue>>
    BY <2>1
  <2>2. CASE head' = head + 1 /\ Publish(c)
    BY <2>2, PublishBelow
  <2> QED
    BY <1>14, <2>1, <2>2 DEF Handle
<1>15. ASSUME NEW c \in Clients, Submit(c)
      PROVE  QueueBelow'
  BY <1>15 DEF Submit
<1>16. ASSUME NEW c \in Clients, Break(c)
      PROVE  QueueBelow'
  BY <1>16 DEF Break, Queues
<1>17. CASE UNCHANGED vars
  BY <1>17 DEF vars
<1> QED
  BY <1>1, <1>2, <1>3, <1>4, <1>5, <1>6, <1>7, <1>8, <1>9, <1>10, <1>11, <1>12, <1>13, <1>14, <1>15, <1>16,
     <1>17
     DEF Next, ServerStep, ClientStep

LEMMA BoundsNext ==
    ASSUME TypeOK, Bounds, WireInOrder, [Next]_vars
    PROVE  Bounds'
<1>1. Levels' /\ WireBelow' /\ QueueBelow'
  BY BoundsParts, LevelsNext, WireBelowNext, QueueBelowNext
<1>2. (Levels /\ WireBelow /\ QueueBelow)' => Bounds'
  BY DEF Bounds, Levels, WireBelow, QueueBelow
<1> QED
  BY <1>1, <1>2

(* A connection still served may write: a snapshot as its last message. *)
LEMMA WriteSnapshotLast ==
    ASSUME TypeOK, SnapshotLast, NEW c \in Clients, NEW message \in Messages, Write(c, message),
           phase[c] \notin {"offline", "ended"}, phase'[c] # "offline",
           \A d \in Clients \ {c} : phase'[d] = phase[d],
           message.kind = "snapshot" => phase'[c] = "ended", UNCHANGED stale
    PROVE  SnapshotLast'
<1>1. ~ stale[c] /\ \A i \in DOMAIN wire[c] : wire[c][i].kind # "snapshot"
  BY DEF SnapshotLast
<1> DEFINE n == Len(wire[c])
<1>2. /\ n \in Nat /\ Len(wire'[c]) = n + 1
      /\ DOMAIN wire[c] = 1..n /\ DOMAIN wire'[c] = 1..(n + 1)
      /\ \A i \in 1..n : wire'[c][i] = wire[c][i]
      /\ wire'[c][n + 1] = message
      /\ \A d \in Clients \ {c} : wire'[d] = wire[d]
  BY WriteEntries
<1> HIDE DEF n
<1>3. ASSUME NEW i \in DOMAIN wire'[c], wire'[c][i].kind = "snapshot"
      PROVE  phase'[c] = "ended" /\ i = Len(wire'[c])
  <2>1. i \in 1..n \/ i = n + 1
    BY <1>2, <1>3
  <2>2. CASE i \in 1..n
    BY <1>1, <1>2, <1>3, <2>2
  <2>3. CASE i = n + 1
    BY <1>2, <1>3, <2>3
  <2> QED
    BY <2>1, <2>2, <2>3
<1>4. ASSUME NEW d \in Clients
      PROVE  /\ stale'[d] => phase'[d] = "ended" /\ wire'[d] = << >>
             /\ phase'[d] = "offline" => wire'[d] = << >>
             /\ \A i \in DOMAIN wire'[d] :
                   wire'[d][i].kind = "snapshot" => phase'[d] = "ended" /\ i = Len(wire'[d])
  <2>1. CASE d = c
    BY <1>1, <1>3, <2>1
  <2>2. CASE d # c
    <3>1. wire'[d] = wire[d] /\ phase'[d] = phase[d] /\ stale'[d] = stale[d]
      BY <1>2, <2>2
    <3> QED
      BY <3>1 DEF SnapshotLast
  <2> QED
    BY <2>1, <2>2
<1> QED
  BY <1>4 DEF SnapshotLast

LEMMA SnapshotLastNext ==
    ASSUME TypeOK, Bounds, WireInOrder, SnapshotLast, [Next]_vars
    PROVE  SnapshotLast'
<1>0. Numbers /\ Flags /\ Labels /\ Queues /\ Wires
  BY TypeParts
<1> USE <1>0 DEF SnapshotLast, Numbers, Labels, session, client, owner
<1>1. CASE Accept
  BY <1>1 DEF Accept
<1>2. CASE Adopt
  BY <1>2 DEF Adopt
<1>3. CASE Compact
  BY <1>3 DEF Compact
<1>4. CASE CloseOwner
  BY <1>4 DEF CloseOwner
<1>5. ASSUME NEW c \in Clients, Joined(c)
      PROVE  SnapshotLast'
  <2>0. CASE ~ serving
    BY <1>5, <2>0 DEF Joined, End
  <2> DEFINE message == Message("joined", head, None, sent[c])
  <2>1. message \in Messages /\ message.kind # "snapshot"
    BY DEF Message, Messages, Numbers
  <2>2. CASE serving /\ Write(c, message)
    <3>1. /\ phase[c] \notin {"offline", "ended"} /\ phase'[c] # "offline" /\ UNCHANGED stale
          /\ (\A d \in Clients \ {c} : phase'[d] = phase[d])
      BY <1>5, <2>2 DEF Joined
    <3> HIDE DEF message
    <3> QED
      BY <2>1, <2>2, <3>1, WriteSnapshotLast
  <2> QED
    BY <1>5, <2>0, <2>2 DEF Joined
<1>6. ASSUME NEW c \in Clients, ReplayPage(c)
      PROVE  SnapshotLast'
  <2>0. phase[c] = "replay" /\ ~ stale[c] /\ UNCHANGED stale
    BY <1>6 DEF ReplayPage
  <2>1. CASE NeedsSnapshot(c)
    <3> DEFINE message == Message("snapshot", 0, None, sent[c])
    <3>1. message \in Messages
      BY DEF Message, Messages, Numbers
    <3>2. Write(c, message) /\ phase' = [phase EXCEPT ![c] = "ended"]
      BY <1>6, <2>1 DEF ReplayPage, End
    <3>3. phase'[c] = "ended" /\ \A d \in Clients \ {c} : phase'[d] = phase[d]
      BY <3>2
    <3> HIDE DEF message
    <3> QED
      BY <2>0, <3>1, <3>2, <3>3, WriteSnapshotLast
  <2>2. CASE ~ NeedsSnapshot(c)
    <3>1. wire'[c] \in Seq(Messages) /\ wire[c] \in Seq(Messages)
      BY <1>6, <2>2, PageWritten DEF Wires
    <3>2. ASSUME NEW i \in DOMAIN wire'[c]
          PROVE  wire'[c][i].kind # "snapshot"
      <4>1. i \in 1..Len(wire[c]) \/ i \in (Len(wire[c]) + 1)..Len(wire'[c])
        BY <3>1
      <4>2. CASE i \in 1..Len(wire[c])
        <5>1. wire'[c][i] = wire[c][i] /\ i \in DOMAIN wire[c]
          BY <1>6, <2>2, <3>1, <4>2, PageWritten
        <5> QED
          BY <2>0, <5>1
      <4>3. CASE i \in (Len(wire[c]) + 1)..Len(wire'[c])
        BY <1>6, <2>2, <4>3, PageWritten
      <4> QED
        BY <4>1, <4>2, <4>3
    <3>3. \A d \in Clients \ {c} : wire'[d] = wire[d]
      BY <1>6, <2>2, PageWritten
    <3>4. phase'[c] # "offline" /\ \A d \in Clients \ {c} : phase'[d] = phase[d]
      BY <1>6, <2>2 DEF ReplayPage
    <3>5. ASSUME NEW d \in Clients \ {c}
          PROVE  wire'[d] = wire[d] /\ phase'[d] = phase[d] /\ stale'[d] = stale[d]
      BY <2>0, <3>3, <3>4
    <3>6. ASSUME NEW d \in Clients
          PROVE  /\ stale'[d] => phase'[d] = "ended" /\ wire'[d] = << >>
                 /\ phase'[d] = "offline" => wire'[d] = << >>
                 /\ \A i \in DOMAIN wire'[d] :
                       wire'[d][i].kind = "snapshot" => phase'[d] = "ended" /\ i = Len(wire'[d])
      <4>1. CASE d = c
        BY <2>0, <3>2, <3>4, <4>1
      <4>2. CASE d # c
        <5>1. wire'[d] = wire[d] /\ phase'[d] = phase[d] /\ stale'[d] = stale[d]
          BY <3>5, <4>2
        <5> QED
          BY <5>1
      <4> QED
        BY <4>1, <4>2
    <3> QED
      BY <3>6
  <2> QED
    BY <2>1, <2>2
<1>7. ASSUME NEW c \in Clients, ReadAuthority(c)
      PROVE  SnapshotLast'
  BY <1>7 DEF ReadAuthority, End
<1>8. ASSUME NEW c \in Clients, Answer(c)
      PROVE  SnapshotLast'
  <2> DEFINE message == Message(IF phase[c] = "reject" THEN "rejected" ELSE "accepted", target[c], c, sent[c])
  <2>1. message \in Messages /\ message.kind # "snapshot"
    BY DEF Message, Messages, Numbers
  <2>2. CASE Write(c, message)
    <3>1. /\ phase[c] \notin {"offline", "ended"} /\ phase'[c] # "offline" /\ UNCHANGED stale
          /\ (\A d \in Clients \ {c} : phase'[d] = phase[d])
      BY <1>8, <2>2 DEF Answer
    <3> HIDE DEF message
    <3> QED
      BY <2>1, <2>2, <3>1, WriteSnapshotLast
  <2> QED
    BY <1>8, <2>2 DEF Answer
<1>9. ASSUME NEW c \in Clients, Join(c)
      PROVE  SnapshotLast'
  BY <1>9 DEF Join
<1>10. ASSUME NEW c \in Clients, Receive(c)
      PROVE  SnapshotLast'
  <2>1. wire[c] \in Seq(Messages) /\ wire[c] # << >>
    BY <1>10 DEF Receive, Wires
  <2>2. /\ \A i \in DOMAIN Tail(wire[c]) : i + 1 \in DOMAIN wire[c] /\ Tail(wire[c])[i] = wire[c][i + 1]
        /\ Len(Tail(wire[c])) = Len(wire[c]) - 1 /\ Tail(wire[c]) \in Seq(Messages)
        /\ Head(wire[c]) = wire[c][1] /\ 1 \in DOMAIN wire[c] /\ Len(wire[c]) \in Nat
    BY <2>1, HeadTailProperties, EmptySeq
  <2>3. /\ wire' = [wire EXCEPT ![c] = Tail(wire[c])] /\ UNCHANGED phase
        /\ stale' = [stale EXCEPT ![c] = stale[c] \/ Head(wire[c]).kind = "snapshot"]
    BY <1>10 DEF Receive
  <2>4. ~ stale[c]
    BY <2>1
  <2>5. Head(wire[c]).kind = "snapshot" => phase[c] = "ended" /\ Tail(wire[c]) = << >>
    BY <2>2, EmptySeq
  <2>6. \A i \in DOMAIN Tail(wire[c]) : Tail(wire[c])[i].kind = "snapshot" =>
            phase[c] = "ended" /\ i = Len(Tail(wire[c]))
    <3> SUFFICES ASSUME NEW i \in DOMAIN Tail(wire[c]), Tail(wire[c])[i].kind = "snapshot"
                 PROVE  phase[c] = "ended" /\ i = Len(Tail(wire[c]))
      OBVIOUS
    <3>1. phase[c] = "ended" /\ i + 1 = Len(wire[c])
      BY <2>2
    <3>2. i \in Nat
      BY <2>2
    <3> QED
      BY <2>2, <3>1, <3>2
  <2>7. phase[c] # "offline"
    BY <2>1
  <2> QED
    BY <2>3, <2>4, <2>5, <2>6, <2>7 DEF Wires, Flags
<1>11. ASSUME NEW c \in Clients, Closed(c)
      PROVE  SnapshotLast'
  BY <1>11 DEF Closed, Leave, Wires, Flags
<1>12. ASSUME NEW c \in Clients, Refresh(c)
      PROVE  SnapshotLast'
  BY <1>12 DEF Refresh, Flags
<1>13. ASSUME NEW c \in Clients, Deliver(c)
      PROVE  SnapshotLast'
  <2>0. UNCHANGED stale /\ ~ stale[c] /\ phase[c] \notin {"offline", "ended"}
    BY <1>13 DEF Deliver, Flushing
  <2>1. CASE UNCHANGED wire /\ (UNCHANGED phase \/ phase' = [phase EXCEPT ![c] = "ended"])
    BY <2>0, <2>1
  <2>2. CASE \E message \in Messages :
                 Write(c, message) /\ UNCHANGED phase /\ message.kind = "accepted"
    <3> PICK message \in Messages :
                 Write(c, message) /\ UNCHANGED phase /\ message.kind = "accepted"
      BY <2>2
    <3> QED
      BY <2>0, WriteSnapshotLast
  <2> QED
    BY <1>13, <2>1, <2>2, DeliverCases
<1>14. ASSUME NEW c \in Clients, Handle(c)
      PROVE  SnapshotLast'
  BY <1>14 DEF Handle
<1>15. ASSUME NEW c \in Clients, Submit(c)
      PROVE  SnapshotLast'
  BY <1>15 DEF Submit
<1>16. ASSUME NEW c \in Clients, Break(c)
      PROVE  SnapshotLast'
  BY <1>16 DEF Break, Leave, Wires, Flags
<1>17. CASE UNCHANGED vars
  BY <1>17 DEF vars
<1> QED
  BY <1>1, <1>2, <1>3, <1>4, <1>5, <1>6, <1>7, <1>8, <1>9, <1>10, <1>11, <1>12, <1>13, <1>14, <1>15, <1>16,
     <1>17
     DEF Next, ServerStep, ClientStep

(* What the client takes next fits its revision, so it meets no fault. *)
LEMMA FaultNext ==
    ASSUME TypeOK, WireInOrder, NoIntegrityFault, [Next]_vars
    PROVE  NoIntegrityFault'
<1> USE DEF NoIntegrityFault, client
<1>1. ASSUME NEW c \in Clients, Receive(c)
      PROVE  NoIntegrityFault'
  <2>1. acked[c] \in Nat /\ Head(wire[c]) \in Messages /\ Follows(Head(wire[c]), acked[c])
    BY <1>1, TailInOrder DEF Receive, TypeOK, WireInOrder
  <2>2. Fits(Head(wire[c]), acked[c])
    BY <2>1 DEF Follows, Fits, Messages
  <2> QED
    BY <1>1, <2>2 DEF Receive
<1>2. CASE UNCHANGED faulted
  BY <1>2
<1>3. ASSUME NEW c \in Clients,
             \/ ServerStep(c) \/ Join(c) \/ Closed(c) \/ Refresh(c)
             \/ Deliver(c) \/ Handle(c) \/ Submit(c) \/ Break(c)
      PROVE  UNCHANGED faulted
  BY <1>3 DEF ServerStep, Join, Closed, Refresh, Deliver, Handle, Submit, Break,
              Joined, ReplayPage, ReadAuthority, Answer
<1>4. Accept \/ Adopt \/ Compact \/ CloseOwner => UNCHANGED faulted
  BY DEF Accept, Adopt, Compact, CloseOwner
<1> QED
  BY <1>1, <1>2, <1>3, <1>4 DEF Next, ClientStep, vars

-----------------------------------------------------------------------------------
(* The inductive invariant of delivery: what is on the wire continues the   *)
(* client's revision, stays below the owner's, and a snapshot ends it.      *)
DeliveryInv == TypeOK /\ Bounds /\ SnapshotLast /\ WireInOrder /\ NoIntegrityFault

LEMMA DeliveryInit == Init => DeliveryInv
<1> SUFFICES ASSUME Init PROVE DeliveryInv
  OBVIOUS
<1>1. TypeOK
  BY TypeInit
<1>2. Bounds
  BY DEF Init, PerClient, Bounds
<1>3. SnapshotLast
  BY DEF Init, PerClient, SnapshotLast
<1>4. WireInOrder
  BY EmptyInOrder DEF Init, PerClient, WireInOrder
<1>5. NoIntegrityFault
  BY DEF Init, NoIntegrityFault
<1> QED
  BY <1>1, <1>2, <1>3, <1>4, <1>5 DEF DeliveryInv

LEMMA DeliveryNext == DeliveryInv /\ [Next]_vars => DeliveryInv'
BY TypeNext, BoundsNext, SnapshotLastNext, WireNext, FaultNext DEF DeliveryInv

(* DeliveryInv holds in every reachable state of publishing, joining,       *)
(* replaying, flushing and reconnecting.                                    *)
THEOREM DeliveryInvTheorem == Spec => []DeliveryInv
BY DeliveryInit, DeliveryNext, PTL DEF Spec

(* No subscriber's queue holds more than limits.DurableQueueDepth events,   *)
(* and every variable keeps its type.                                       *)
THEOREM TypeOKTheorem == Spec => []TypeOK
<1>1. DeliveryInv => TypeOK
  BY DEF DeliveryInv
<1> QED
  BY <1>1, DeliveryInvTheorem, PTL

(* NetworkExecutor.Receive never meets an acceptance beyond the next        *)
(* revision, a rejection at another revision than the client's, or a replay *)
(* that ends elsewhere - for any queue depth, page size and number of       *)
(* clients, and whatever connections are lost.                              *)
THEOREM NoIntegrityFaultTheorem == Spec => []NoIntegrityFault
<1>1. DeliveryInv => NoIntegrityFault
  BY DEF DeliveryInv
<1> QED
  BY <1>1, DeliveryInvTheorem, PTL

(* What writeAccepted, writePagedReplay and the answers put on a connection *)
(* leads from the client's acknowledged revision to sentRevision.           *)
THEOREM WireInOrderTheorem == Spec => []WireInOrder
<1>1. DeliveryInv => WireInOrder
  BY DEF DeliveryInv
<1> QED
  BY <1>1, DeliveryInvTheorem, PTL

(* Neither an acceptance nor installReconnectSnapshot moves a client's      *)
(* acknowledged revision back.                                              *)
THEOREM AcknowledgedNeverRegressesTheorem == Spec => AcknowledgedNeverRegresses
<1>1. ASSUME DeliveryInv, [Next]_vars
      PROVE  [\A c \in Clients : acked'[c] >= acked[c]]_acked
  <2>1. head \in Nat /\ acked \in [Clients -> Nat] /\ \A c \in Clients : acked[c] <= head
    BY <1>1 DEF DeliveryInv, TypeOK, Bounds
  <2>2. ASSUME NEW c \in Clients, Receive(c)
        PROVE  \A d \in Clients : acked'[d] >= acked[d]
    BY <2>1, <2>2 DEF Receive
  <2>3. ASSUME NEW c \in Clients, Refresh(c)
        PROVE  \A d \in Clients : acked'[d] >= acked[d]
    BY <2>1, <2>3 DEF Refresh
  <2>4. ASSUME NEW c \in Clients,
               \/ ServerStep(c) \/ Join(c) \/ Closed(c)
               \/ Deliver(c) \/ Handle(c) \/ Submit(c) \/ Break(c)
        PROVE  UNCHANGED acked
    BY <2>4 DEF ServerStep, Join, Closed, Deliver, Handle, Submit, Break,
                Joined, ReplayPage, ReadAuthority, Answer, client
  <2>5. Accept \/ Adopt \/ Compact \/ CloseOwner => UNCHANGED acked
    BY DEF Accept, Adopt, Compact, CloseOwner, client
  <2> QED
    BY <1>1, <2>2, <2>3, <2>4, <2>5 DEF Next, ClientStep, vars
<1> QED
  BY <1>1, DeliveryInvTheorem, PTL DEF Spec, AcknowledgedNeverRegresses

-----------------------------------------------------------------------------------
(* While every revision is published, a queue is a run of revisions that    *)
(* joins what has been, or will have been, sent to what the owner holds.    *)
From(c) == IF phase[c] = "replay" THEN boundary[c] ELSE sent[c]

Joining(c) == phase[c] \in {"offline", "subscribed", "ended"}

RunOfRevisions(events) ==
    \A i \in DOMAIN events : events[i].revision = events[1].revision + i - 1

QueueJoins(c) ==
    /\ RunOfRevisions(queue[c])
    /\ queue[c] # << >> /\ ~ Joining(c) => queue[c][1].revision <= From(c) + 1
    /\ queue[c] # << >> /\ open[c] => queue[c][Len(queue[c])].revision = head
    /\ queue[c] = << >> /\ open[c] /\ ~ Joining(c) => From(c) = head
    /\ phase[c] \in {"offline", "ended"} => ~ open[c] /\ queue[c] = << >>

QueueInv ==
    /\ unpublished = 0 => \A c \in Clients : QueueJoins(c)
    /\ GapOnlyIfUnpublished

(* A client whose queue, progress and owner a step leaves alone. *)
LEMMA JoinsKept ==
    ASSUME NEW d \in Clients, QueueJoins(d), head' = head,
           queue'[d] = queue[d], open'[d] => open[d],
           phase'[d] = phase[d], sent'[d] = sent[d], boundary'[d] = boundary[d]
    PROVE  QueueJoins(d)'
BY DEF QueueJoins, From, Joining, RunOfRevisions

(* A connection that is over. *)
LEMMA JoinsEnded ==
    ASSUME NEW d \in Clients, queue'[d] = << >>, ~ open'[d]
    PROVE  QueueJoins(d)'
BY DEF QueueJoins, RunOfRevisions

LEMMA JoinsPublished ==
    ASSUME TypeOK, Bounds, NEW d \in Clients, QueueJoins(d), NEW author \in Clients \cup {None},
           Publish(author), head' = head + 1,
           phase'[d] = phase[d], sent'[d] = sent[d], boundary'[d] = boundary[d]
    PROVE  QueueJoins(d)'
<1> DEFINE event == [revision |-> head + 1, author |-> author]
<1>1. /\ queue[d] \in Seq(Events) /\ Len(queue[d]) \in Nat
      /\ head \in Nat /\ sent[d] \in Nat /\ boundary[d] \in Nat
  <2>1. queue[d] \in Seq(Events)
    BY DEF TypeOK, Events
  <2>2. head \in Nat /\ sent[d] \in Nat /\ boundary[d] \in Nat
    BY DEF TypeOK
  <2> QED
    BY <2>1, <2>2
<1>2. event \in Events /\ event.revision = head + 1
  BY <1>1 DEF Events
<1>3. CASE ~ (open[d] /\ Room(d))
  <2>1. queue'[d] = queue[d] /\ ~ open'[d]
    BY <1>3 DEF Publish
  <2> QED
    BY <2>1 DEF QueueJoins, From, Joining, RunOfRevisions
<1>4. CASE open[d] /\ Room(d)
  <2> DEFINE n == Len(queue[d])
             t == Append(queue[d], event)
  <2>1. queue'[d] = t /\ open'[d]
    BY <1>4 DEF Publish
  <2>2. /\ Len(t) = n + 1 /\ DOMAIN t = 1..(n + 1) /\ t[n + 1] = event /\ t # << >>
        /\ \A i \in 1..n : t[i] = queue[d][i]
    BY <1>1, <1>2
  <2>3. phase[d] \notin {"offline", "ended"}
    BY <1>4 DEF QueueJoins
  <2>4. CASE queue[d] = << >>
    <3>1. n = 0
      BY <2>4
    <3>2. t[1].revision = head + 1 /\ DOMAIN t = {1} /\ t[Len(t)].revision = head + 1
      BY <3>1, <2>2, <1>2
    <3>3. RunOfRevisions(t)
      BY <3>2, <1>1 DEF RunOfRevisions
    <3>4. ~ Joining(d) => From(d) = head
      BY <2>4, <1>4 DEF QueueJoins
    <3> HIDE DEF t, n
    <3> QED
      BY <2>1, <2>2, <2>3, <3>2, <3>3, <3>4, <1>1 DEF QueueJoins, From, Joining, RunOfRevisions
  <2>5. CASE queue[d] # << >>
    <3>1. n \in 1..n /\ 1 \in 1..n /\ DOMAIN queue[d] = 1..n
      BY <2>5, <1>1, EmptySeq
    <3>2. queue[d][n].revision = head /\ RunOfRevisions(queue[d])
      BY <2>5, <1>4 DEF QueueJoins
    <3>3. queue[d][1].revision \in Nat
      BY <3>1, EntriesNumbered
    <3>4. head = queue[d][1].revision + n - 1
      BY <3>1, <3>2 DEF RunOfRevisions
    <3>5. t[1] = queue[d][1] /\ t[Len(t)].revision = head + 1
      BY <2>2, <3>1, <1>2
    <3>6. ASSUME NEW i \in DOMAIN t
          PROVE  t[i].revision = t[1].revision + i - 1
      <4>1. CASE i \in 1..n
        BY <4>1, <2>2, <3>1, <3>2, <3>5 DEF RunOfRevisions
      <4>2. CASE i = n + 1
        BY <4>2, <2>2, <3>3, <3>4, <3>5, <1>1, <1>2
      <4> QED
        BY <4>1, <4>2, <2>2
    <3>7. ~ Joining(d) => queue[d][1].revision <= From(d) + 1
      BY <2>5 DEF QueueJoins
    <3> HIDE DEF t, n
    <3>8. RunOfRevisions(t)
      BY <3>6 DEF RunOfRevisions
    <3> QED
      BY <2>1, <2>2, <2>3, <3>5, <3>7, <3>8 DEF QueueJoins, From, Joining, RunOfRevisions
  <2> QED
    BY <2>4, <2>5
<1> QED
  BY <1>3, <1>4

(* Reading the first event: it is the next revision, or one already sent. *)
LEMMA JoinsRead ==
    ASSUME TypeOK, Bounds, NEW c \in Clients, QueueJoins(c), queue[c] # << >>,
           phase[c] \notin {"offline", "subscribed", "replay", "ended"},
           queue'[c] = Tail(queue[c]), head' = head, phase'[c] = phase[c], open'[c] = open[c],
           sent'[c] = IF Head(queue[c]).revision = sent[c] + 1 THEN sent[c] + 1 ELSE sent[c]
    PROVE  QueueJoins(c)'
<1> DEFINE n == Len(queue[c])
           t == Tail(queue[c])
           first == queue[c][1].revision
<1>1. queue[c] \in Seq(Events) /\ sent[c] \in Nat /\ head \in Nat /\ sent[c] <= head
  BY DEF TypeOK, Events, Bounds
<1>2. /\ n \in Nat /\ n >= 1 /\ DOMAIN queue[c] = 1..n
      /\ Len(t) = n - 1 /\ DOMAIN t = 1..(n - 1) /\ t \in Seq(Events)
      /\ \A i \in 1..(n - 1) : t[i] = queue[c][i + 1]
      /\ Head(queue[c]) = queue[c][1]
  BY <1>1, HeadTailProperties, EmptySeq
<1>3. first \in Nat /\ first <= head
  BY <1>2, EntriesNumbered DEF Bounds
<1>4. \A i \in 1..n : queue[c][i].revision = first + i - 1
  BY <1>2 DEF QueueJoins, RunOfRevisions
<1>5. first <= sent[c] + 1
  BY DEF QueueJoins, From, Joining
<1>6. open[c] => queue[c][n].revision = head
  BY DEF QueueJoins
<1>10. first <= sent'[c] /\ sent'[c] \in Nat
  BY <1>1, <1>2, <1>3, <1>5
<1> HIDE DEF n, t, first
<1>7. \A i \in 1..(n - 1) : t[i].revision = first + i
  <2> SUFFICES ASSUME NEW i \in 1..(n - 1) PROVE t[i].revision = first + i
    OBVIOUS
  <2>1. t[i] = queue[c][i + 1] /\ i + 1 \in 1..n
    BY <1>2
  <2> QED
    BY <2>1, <1>3, <1>4
<1>8. CASE n = 1
  <2>1. t = << >>
    BY <1>2, <1>8, EmptySeq
  <2>2. open[c] => first = head
    BY <1>2, <1>3, <1>4, <1>6, <1>8
  <2>3. open[c] => sent'[c] = head
    BY SMTT(40), <2>2, <1>1, <1>2, <1>3, <1>5 DEF first
  <2> QED
    BY <2>1, <2>3 DEF QueueJoins, From, Joining, RunOfRevisions, t
<1>9. CASE n # 1
  <2>1. n - 1 \in 1..(n - 1) /\ 1 \in 1..(n - 1) /\ t # << >>
    BY <1>2, <1>9, EmptySeq
  <2>2. t[1].revision = first + 1 /\ t[n - 1].revision = first + (n - 1)
    BY <1>7, <2>1
  <2>3. RunOfRevisions(t)
    BY <1>2, <1>3, <1>7, <2>2 DEF RunOfRevisions
  <2>4. open[c] => t[n - 1].revision = head
    BY <1>2, <1>3, <1>4, <1>6, <2>2
  <2>5. t[1].revision <= sent'[c] + 1
    BY <1>3, <1>10, <2>2
  <2>6. queue'[c] = t
    BY DEF t
  <2> QED
    BY <1>2, <2>1, <2>3, <2>4, <2>5, <2>6 DEF QueueJoins, From, Joining, RunOfRevisions
<1> QED
  BY <1>8, <1>9

LEMMA JoinsNext ==
    ASSUME TypeOK, Bounds, \A c \in Clients : QueueJoins(c), unpublished' = 0, [Next]_vars
    PROVE  (\A d \in Clients : QueueJoins(d))'
<1>0. Numbers /\ Flags /\ Labels /\ Queues /\ Wires
  BY TypeParts
<1> USE <1>0 DEF Numbers, Labels, Queues, Flags, session, client, owner
<1>1. CASE Accept
  BY <1>1, JoinsPublished DEF Accept
<1>2. CASE Adopt
  BY <1>2 DEF Adopt
<1>3. CASE Compact
  BY <1>3, JoinsKept DEF Compact
<1>4. CASE CloseOwner
  BY <1>4, JoinsKept DEF CloseOwner, PerClient
<1>5. ASSUME NEW c \in Clients, Joined(c)
      PROVE  (\A d \in Clients : QueueJoins(d))'
  <2>1. QueueJoins(c)'
    <3>1. CASE ~ serving
      BY <1>5, <3>1, JoinsEnded DEF Joined, End
    <3>2. CASE serving
      <4>1. /\ queue'[c] = queue[c] /\ open'[c] = open[c] /\ head' = head
            /\ phase'[c] = "replay" /\ boundary'[c] = head
        BY <1>5, <3>2 DEF Joined
      <4>2. queue[c] # << >> => queue[c][1].revision \in Nat /\ queue[c][1].revision <= head
        <5>1. queue[c] # << >> => 1 \in DOMAIN queue[c]
          BY EmptySeq
        <5> QED
          BY <5>1, EntriesNumbered DEF Bounds
      <4> QED
        BY <4>1, <4>2 DEF QueueJoins, RunOfRevisions, From, Joining
    <3> QED
      BY <3>1, <3>2
  <2>2. ASSUME NEW d \in Clients \ {c} PROVE QueueJoins(d)'
    BY <1>5, <2>2, JoinsKept DEF Joined, End
  <2> QED
    BY <2>1, <2>2
<1>6. ASSUME NEW c \in Clients, ReplayPage(c)
      PROVE  (\A d \in Clients : QueueJoins(d))'
  <2>1. QueueJoins(c)'
    <3>1. CASE NeedsSnapshot(c)
      BY <1>6, <3>1, JoinsEnded DEF ReplayPage, End
    <3>2. CASE ~ NeedsSnapshot(c)
      <4>1. /\ phase'[c] \notin {"offline", "ended"} /\ ~ Joining(c) /\ ~ Joining(c)' /\ From(c)' = From(c)
            /\ queue'[c] = queue[c] /\ open'[c] = open[c] /\ head' = head
        BY <1>6, <3>2 DEF ReplayPage, Joining, From
      <4> QED
        BY <4>1 DEF QueueJoins, RunOfRevisions
    <3> QED
      BY <3>1, <3>2
  <2>2. ASSUME NEW d \in Clients \ {c} PROVE QueueJoins(d)'
    BY <1>6, <2>2, JoinsKept DEF ReplayPage, End
  <2> QED
    BY <2>1, <2>2
<1>7. ASSUME NEW c \in Clients, ReadAuthority(c)
      PROVE  (\A d \in Clients : QueueJoins(d))'
  <2>1. QueueJoins(c)'
    <3>1. CASE ~ serving
      BY <1>7, <3>1, JoinsEnded DEF ReadAuthority, End
    <3>2. CASE serving
      <4>1. /\ phase'[c] \notin {"offline", "ended"} /\ ~ Joining(c) /\ ~ Joining(c)' /\ From(c)' = From(c)
            /\ queue'[c] = queue[c] /\ open'[c] = open[c] /\ head' = head
        BY <1>7, <3>2 DEF ReadAuthority, Joining, From
      <4> QED
        BY <4>1 DEF QueueJoins, RunOfRevisions
    <3> QED
      BY <3>1, <3>2
  <2>2. ASSUME NEW d \in Clients \ {c} PROVE QueueJoins(d)'
    BY <1>7, <2>2, JoinsKept DEF ReadAuthority, End
  <2> QED
    BY <2>1, <2>2
<1>8. ASSUME NEW c \in Clients, Answer(c)
      PROVE  (\A d \in Clients : QueueJoins(d))'
  <2>1. QueueJoins(c)'
    <3>1. /\ phase'[c] \notin {"offline", "ended"} /\ ~ Joining(c) /\ ~ Joining(c)' /\ From(c)' = From(c)
          /\ queue'[c] = queue[c] /\ open'[c] = open[c] /\ head' = head
      BY <1>8 DEF Answer, Joining, From, Flushing
    <3> QED
      BY <3>1 DEF QueueJoins, RunOfRevisions
  <2>2. ASSUME NEW d \in Clients \ {c} PROVE QueueJoins(d)'
    BY <1>8, <2>2, JoinsKept DEF Answer
  <2> QED
    BY <2>1, <2>2
<1>9. ASSUME NEW c \in Clients, Join(c)
      PROVE  (\A d \in Clients : QueueJoins(d))'
  <2>1. QueueJoins(c)'
    <3>1. queue'[c] = << >> /\ phase'[c] = "subscribed"
      BY <1>9 DEF Join
    <3> QED
      BY <3>1 DEF QueueJoins, RunOfRevisions, Joining
  <2>2. ASSUME NEW d \in Clients \ {c} PROVE QueueJoins(d)'
    BY <1>9, <2>2, JoinsKept DEF Join
  <2> QED
    BY <2>1, <2>2
<1>10. ASSUME NEW c \in Clients, Receive(c)
      PROVE  (\A d \in Clients : QueueJoins(d))'
  BY <1>10, JoinsKept DEF Receive
<1>11. ASSUME NEW c \in Clients, Closed(c)
      PROVE  (\A d \in Clients : QueueJoins(d))'
  <2>1. QueueJoins(c)'
    <3>1. queue'[c] = << >> /\ ~ open'[c]
      BY <1>11 DEF Closed, QueueJoins
    <3> QED
      BY <3>1, JoinsEnded
  <2>2. ASSUME NEW d \in Clients \ {c} PROVE QueueJoins(d)'
    BY <1>11, <2>2, JoinsKept DEF Closed, Leave
  <2> QED
    BY <2>1, <2>2
<1>12. ASSUME NEW c \in Clients, Refresh(c)
      PROVE  (\A d \in Clients : QueueJoins(d))'
  BY <1>12, JoinsKept DEF Refresh
<1>13. ASSUME NEW c \in Clients, Deliver(c)
      PROVE  (\A d \in Clients : QueueJoins(d))'
  <2>1. QueueJoins(c)'
    <3>1. CASE End(c, "slow") \/ End(c, "gap")
      BY <3>1, JoinsEnded DEF End
    <3>2. CASE /\ queue[c] # << >> /\ queue' = [queue EXCEPT ![c] = Tail(queue[c])]
               /\ UNCHANGED <<phase, open>>
               /\ sent' = [sent EXCEPT ![c] =
                      IF Head(queue[c]).revision = sent[c] + 1 THEN sent[c] + 1 ELSE sent[c]]
      <4>1. /\ phase[c] \notin {"offline", "subscribed", "replay", "ended"} /\ head' = head
            /\ queue'[c] = Tail(queue[c]) /\ phase'[c] = phase[c] /\ open'[c] = open[c]
            /\ sent'[c] = IF Head(queue[c]).revision = sent[c] + 1 THEN sent[c] + 1 ELSE sent[c]
        BY <1>13, <3>2 DEF Deliver, Flushing
      <4> QED
        BY <3>2, <4>1, JoinsRead
    <3> QED
      BY <1>13, <3>1, <3>2 DEF Deliver
  <2>2. ASSUME NEW d \in Clients \ {c} PROVE QueueJoins(d)'
    BY <1>13, <2>2, JoinsKept DEF Deliver, End
  <2> QED
    BY <2>1, <2>2
<1>14. ASSUME NEW c \in Clients, Handle(c)
      PROVE  (\A d \in Clients : QueueJoins(d))'
  <2>1. CASE head' = head + 1 /\ Publish(c) /\ UNCHANGED phase
    BY <1>14, <2>1, JoinsPublished DEF Handle
  <2>2. CASE UNCHANGED <<head, queue, open>> /\ phase[c] = "loop"
             /\ \/ phase' = [phase EXCEPT ![c] = "refused"]
                \/ phase' = [phase EXCEPT ![c] = "duplicate"]
    <3>1. QueueJoins(c)'
      <4>1. /\ phase'[c] \notin {"offline", "ended"} /\ ~ Joining(c) /\ ~ Joining(c)' /\ From(c)' = From(c)
            /\ queue'[c] = queue[c] /\ open'[c] = open[c] /\ head' = head
        BY <1>14, <2>2 DEF Handle, Joining, From
      <4> QED
        BY <4>1 DEF QueueJoins, RunOfRevisions
    <3>2. ASSUME NEW d \in Clients \ {c} PROVE QueueJoins(d)'
      BY <1>14, <2>2, <3>2, JoinsKept DEF Handle
    <3> QED
      BY <3>1, <3>2
  <2> QED
    BY <1>14, <2>1, <2>2 DEF Handle
<1>15. ASSUME NEW c \in Clients, Submit(c)
      PROVE  (\A d \in Clients : QueueJoins(d))'
  BY <1>15, JoinsKept DEF Submit
<1>16. ASSUME NEW c \in Clients, Break(c)
      PROVE  (\A d \in Clients : QueueJoins(d))'
  <2>1. QueueJoins(c)'
    BY <1>16, JoinsEnded DEF Break
  <2>2. ASSUME NEW d \in Clients \ {c} PROVE QueueJoins(d)'
    BY <1>16, <2>2, JoinsKept DEF Break, Leave
  <2> QED
    BY <2>1, <2>2
<1>17. CASE UNCHANGED vars
  BY <1>17, JoinsKept DEF vars
<1> QED
  BY <1>1, <1>2, <1>3, <1>4, <1>5, <1>6, <1>7, <1>8, <1>9, <1>10, <1>11, <1>12, <1>13, <1>14, <1>15, <1>16,
     <1>17
     DEF Next, ServerStep, ClientStep

(* writeAccepted meets a gap only where a queue does not join. *)
LEMMA GapNext ==
    ASSUME TypeOK, QueueInv, [Next]_vars
    PROVE  GapOnlyIfUnpublished'
<1> SUFFICES ASSUME NEW d \in Clients, ended'[d] = "gap"
             PROVE  unpublished' > 0
  BY DEF GapOnlyIfUnpublished
<1>1. unpublished \in Nat /\ unpublished' \in Nat /\ unpublished' >= unpublished
  <2>1. unpublished' = unpublished \/ unpublished' = unpublished + 1
    BY
       DEF Next, ServerStep, ClientStep, Accept, Adopt, Compact, CloseOwner, Joined, ReplayPage,
           ReadAuthority,
           Answer, Join, Receive, Closed, Refresh, Deliver, Handle, Submit, Break, vars
  <2> QED
    BY <2>1 DEF TypeOK
<1>2. CASE ended[d] = "gap"
  BY <1>1, <1>2 DEF QueueInv, GapOnlyIfUnpublished
<1>3. CASE ended[d] # "gap"
  <2>1. PICK c \in Clients : Deliver(c)
    <3>1. ~ (Accept \/ Adopt \/ Compact \/ CloseOwner \/ UNCHANGED vars)
      BY <1>3 DEF Accept, Adopt, Compact, CloseOwner, vars
    <3>2. ASSUME NEW c \in Clients, Joined(c) \/ ReplayPage(c) \/ ReadAuthority(c)
          PROVE  FALSE
      <4>1. UNCHANGED ended \/ End(c, "closed") \/ End(c, "snapshot")
        BY <3>2 DEF Joined, ReplayPage, ReadAuthority
      <4> QED
        BY <4>1, <1>3 DEF End, TypeOK
    <3>3. ASSUME NEW c \in Clients, Closed(c) \/ Break(c)
          PROVE  FALSE
      <4>1. ended' = [ended EXCEPT ![c] = "not"]
        BY <3>3 DEF Closed, Break, Leave
      <4> QED
        BY <4>1, <1>3 DEF TypeOK
    <3>4. ASSUME NEW c \in Clients, Answer(c) \/ Join(c) \/ Receive(c) \/ Refresh(c) \/ Handle(c) \/ Submit(c)
          PROVE  FALSE
      BY <3>4, <1>3 DEF Answer, Join, Receive, Refresh, Handle, Submit
    <3> QED
      BY <3>1, <3>2, <3>3, <3>4 DEF Next, ServerStep, ClientStep
  <2>2. d = c /\ queue[c] # << >> /\ Head(queue[c]).revision > sent[c] + 1
    BY <2>1, <1>3 DEF Deliver, End, TypeOK
  <2>3. ~ Joining(c) /\ From(c) = sent[c]
    BY <2>1 DEF Deliver, Flushing, Joining, From
  <2>4. Head(queue[c]) = queue[c][1] /\ queue[c][1].revision \in Nat /\ sent[c] \in Nat
    <3>1. queue[c] \in Seq(Events) /\ sent[c] \in Nat
      BY DEF TypeOK, Events
    <3>2. Head(queue[c]) = queue[c][1] /\ 1 \in DOMAIN queue[c]
      BY <3>1, <2>2, EmptySeq
    <3> QED
      BY <3>1, <3>2, EntriesNumbered
  <2>5. unpublished # 0
    BY <2>2, <2>3, <2>4 DEF QueueInv, QueueJoins
  <2> QED
    BY <1>1, <2>5
<1> QED
  BY <1>2, <1>3

LEMMA QueueInvNext ==
    ASSUME TypeOK, Bounds, QueueInv, [Next]_vars
    PROVE  QueueInv'
<1>1. ASSUME unpublished' = 0
      PROVE  \A c \in Clients : QueueJoins(c)'
  <2>1. unpublished = 0
    <3>1. unpublished' = unpublished \/ unpublished' = unpublished + 1
      BY
         DEF Next, ServerStep, ClientStep, Accept, Adopt, Compact, CloseOwner, Joined, ReplayPage,
             ReadAuthority,
             Answer, Join, Receive, Closed, Refresh, Deliver, Handle, Submit, Break, vars
    <3> QED
      BY <1>1, <3>1 DEF TypeOK
  <2> QED
    BY <1>1, <2>1, JoinsNext DEF QueueInv
<1> QED
  BY <1>1, GapNext DEF QueueInv

LEMMA QueueInvInit == Init => QueueInv
BY DEF Init, PerClient, QueueInv, QueueJoins, RunOfRevisions, Joining, GapOnlyIfUnpublished

(* Every queue is a run of revisions that joins what its connection has sent *)
(* to the owner's revision, for as long as publishDurable runs on each one.  *)
THEOREM QueueInvTheorem == Spec => []QueueInv
<1>1. Init => DeliveryInv /\ QueueInv
  BY DeliveryInit, QueueInvInit
<1>2. DeliveryInv /\ QueueInv /\ [Next]_vars => (DeliveryInv /\ QueueInv)'
  BY DeliveryNext, QueueInvNext DEF DeliveryInv
<1> QED
  BY <1>1, <1>2, PTL DEF Spec

(* A full queue is closed and drained, never read over a hole: writeAccepted *)
(* reports a gap only after the owner has left a revision unpublished.       *)
THEOREM GapOnlyIfUnpublishedTheorem == Spec => []GapOnlyIfUnpublished
<1>1. QueueInv => GapOnlyIfUnpublished
  BY DEF QueueInv
<1> QED
  BY <1>1, QueueInvTheorem, PTL

(* Between the replay and the loop nothing is lost: because a join           *)
(* subscribes before it reads the owner's revision, an open subscription     *)
(* holds every revision its connection still has to send.                    *)
THEOREM SubscriptionCoversTheorem == Spec => []SubscriptionCovers
<1>1. ASSUME TypeOK, QueueInv
      PROVE  SubscriptionCovers
  <2> SUFFICES ASSUME unpublished = 0, NEW c \in Clients, open[c], phase[c] # "subscribed",
                      NEW r \in (From(c) + 1)..head
               PROVE  \E i \in DOMAIN queue[c] : queue[c][i].revision = r
    BY DEF SubscriptionCovers, From
  <2>1. QueueJoins(c) /\ head \in Nat /\ From(c) \in Nat
    BY <1>1 DEF QueueInv, TypeOK, From
  <2>2. ~ Joining(c)
    BY <2>1 DEF QueueJoins, Joining
  <2>3. queue[c] # << >>
    BY <2>1, <2>2 DEF QueueJoins
  <2> DEFINE n == Len(queue[c])
             first == queue[c][1].revision
  <2>4. n \in Nat /\ n >= 1 /\ DOMAIN queue[c] = 1..n
    <3>1. queue[c] \in Seq(Events)
      BY <1>1 DEF TypeOK, Events
    <3> QED
      BY <3>1, <2>3, EmptySeq
  <2>5. first \in Nat
    BY <1>1, <2>4, EntriesNumbered
  <2>6. /\ \A i \in 1..n : queue[c][i].revision = first + i - 1
        /\ first <= From(c) + 1 /\ queue[c][n].revision = head
    BY <2>1, <2>2, <2>3, <2>4 DEF QueueJoins, RunOfRevisions
  <2> HIDE DEF n, first
  <2>7. head = first + n - 1
    BY <2>4, <2>6
  <2> DEFINE k == (r - first) + 1
  <2>8. k \in 1..n /\ first + k - 1 = r
    BY <2>1, <2>4, <2>5, <2>6, <2>7
  <2> HIDE DEF k
  <2>9. k \in DOMAIN queue[c] /\ queue[c][k].revision = r
    BY <2>4, <2>6, <2>8
  <2> QED
    BY <2>9
<1>2. TypeOK /\ QueueInv => SubscriptionCovers
  BY <1>1
<1> QED
  BY <1>2, TypeOKTheorem, QueueInvTheorem, PTL
===================================================================================
