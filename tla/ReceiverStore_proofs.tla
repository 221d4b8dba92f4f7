------------------------- MODULE ReceiverStore_proofs -------------------------
(***************************************************************************)
(* The receiver's database is a prefix of one history, in order and with   *)
(* its row and effects in step, whatever is offered to it: for every set   *)
(* of histories, events and sessions, batches of any length, and any       *)
(* number of failures.                                                     *)
(***************************************************************************)
EXTENDS ReceiverStore, SequenceTheorems, WellFoundedInduction, TLAPS

\* Before it is bootstrapped a database is empty and refuses every session.
EmptyUntilBootstrap ==
  row.epoch = None =>
    events = <<>> /\ effects = <<>> /\ \A s \in Sessions : session[s].state # "open"

StoreInv ==
  /\ EmptyUntilBootstrap /\ OneHistory /\ RowMatchesTables
  /\ StoredInOrder /\ LiveSessionOwnsStream
Inv == TypeOK /\ StoreInv
-------------------------------------------------------------------------------
(* A set of numbers that is not empty has a least one. *)
LEMMA LeastNumber ==
  ASSUME NEW T \in SUBSET Nat, T # {}
  PROVE  \E x \in T : \A y \in T : x <= y
<1> DEFINE R == OpToRel(<, Nat)
<1>1. \A x, y \in Nat : <<y, x>> \in R <=> y < x
  BY DEF OpToRel
<1>2. IsWellFoundedOn(R, Nat)
  BY NatLessThanWellFounded
<1> HIDE DEF R
<1>3. PICK x \in T : \A y \in T : ~ (<<y, x>> \in R)
  BY <1>2, WFMin
<1>4. \A y \in T : y \in Nat /\ x \in Nat /\ ~(y < x)
  BY <1>1, <1>3
<1>5. \A y \in T : x <= y
  BY <1>4
<1> QED BY <1>5

(* What a prefix holds. *)
LEMMA PrefixFacts ==
  ASSUME NEW log \in Seq(Events), NEW n \in 0..Len(log)
  PROVE  /\ Prefix(log, n) \in Seq(Events) /\ Len(Prefix(log, n)) = n
         /\ \A i \in 1..n : Prefix(log, n)[i] = log[i]
<1>1. \A i \in 1..n : log[i] \in Events
  BY LenProperties
<1>2. n \in Int /\ 1 \in Int /\ (1 <= n => n - 1 + 1 = n) /\ (~(1 <= n) => n = 0)
  BY LenProperties
<1>3. /\ SubSeq(log, 1, n) \in Seq(Events)
      /\ Len(SubSeq(log, 1, n)) = IF 1 <= n THEN n - 1 + 1 ELSE 0
      /\ \A i \in 1..(n - 1 + 1) : SubSeq(log, 1, n)[i] = log[1 + i - 1]
  BY ONLY <1>1, <1>2, SubSeqProperties
<1>4. 1..(n - 1 + 1) = 1..n /\ \A i \in 1..n : 1 + i - 1 = i
  BY <1>2
<1> QED BY <1>2, <1>3, <1>4 DEF Prefix

(* What a segment holds. *)
LEMMA SegmentFacts ==
  ASSUME NEW log \in Seq(Events), NEW m \in 1..(Len(log) + 1), NEW n \in (m - 1)..Len(log)
  PROVE  /\ SubSeq(log, m, n) \in Seq(Events) /\ Len(SubSeq(log, m, n)) = n - m + 1
         /\ \A i \in 1..(n - m + 1) : SubSeq(log, m, n)[i] = log[m + i - 1]
<1>0. Len(log) \in Nat
  BY LenProperties
<1>1. \A i \in m..n : log[i] \in Events
  BY <1>0, LenProperties
<1>2. n \in Int /\ m \in Int /\ (~(m <= n) => n - m + 1 = 0)
  BY <1>0
<1>3. /\ SubSeq(log, m, n) \in Seq(Events)
      /\ Len(SubSeq(log, m, n)) = IF m <= n THEN n - m + 1 ELSE 0
      /\ \A i \in 1..(n - m + 1) : SubSeq(log, m, n)[i] = log[m + i - 1]
  BY ONLY <1>1, <1>2, SubSeqProperties
<1> QED BY <1>2, <1>3

(* A batch that is accepted passes the check of each of its events. *)
LEMMA EachEventPasses ==
  ASSUME NEW s, NEW b, NEW window, b.events \in Seq(Events), IngestCode(s, b, window) = "ok"
  PROVE  \A i \in 1..Len(b.events) : EventCode(b, i) = "ok"
<1> SUFFICES ASSUME NEW k \in 1..Len(b.events), EventCode(b, k) # "ok" PROVE FALSE
  OBVIOUS
<1> DEFINE T == {i \in 1..Len(b.events) : EventCode(b, i) # "ok"}
           First(i) == /\ EventCode(b, i) # "ok"
                       /\ \A j \in 1..(i - 1) : EventCode(b, j) = "ok"
<1>0. Len(b.events) \in Nat
  BY LenProperties
<1>1. T \in SUBSET Nat /\ T # {}
  BY <1>0
<1>2. PICK x \in T : \A y \in T : x <= y
  BY <1>1, LeastNumber
<1>3. x \in 1..Len(b.events) /\ EventCode(b, x) # "ok"
  BY <1>2
<1>4. ASSUME NEW j \in 1..(x - 1) PROVE EventCode(b, j) = "ok"
  <2>1. j \in 1..Len(b.events) /\ ~(x <= j)
    BY <1>0, <1>3
  <2> QED BY <1>2, <2>1
<1>5. \E i \in 1..Len(b.events) : First(i)
  BY <1>3, <1>4
<1>6. EventCode(b, CHOOSE i \in 1..Len(b.events) : First(i)) # "ok"
  BY <1>5
<1> QED BY <1>6 DEF IngestCode
-------------------------------------------------------------------------------
(* A batch that is accepted continues the stored history: it is all stored already, *)
(* or what is stored is a prefix of the history it was cut from.                     *)
LEMMA AcceptedBatch ==
  ASSUME TypeOK, RowMatchesTables, NEW log \in Logs,
         NEW first \in 1..Len(log), NEW last \in first..Len(log),
         NEW s \in Sessions, NEW window, IngestCode(s, Batch(log, first, last), window) = "ok"
  PROVE  LET b == Batch(log, first, last)
             n == Len(events)
         IN  /\ b.first = first /\ b.events = SubSeq(log, first, last) /\ b.events \in Seq(Events)
             /\ Len(b.events) = last - first + 1 /\ b.terminal = Prefix(log, last)
             /\ Offered(b) = Prefix(log, last) /\ first <= n + 1
             /\ last <= n => NewEvents(b) = <<>>
             /\ last > n => /\ events = Prefix(log, n)
                           /\ NewEvents(b) = SubSeq(log, n + 1, last)
                           /\ Inserted(b) = Prefix(log, last)
<1> DEFINE b == Batch(log, first, last)
           n == Len(events)
<1>0. /\ log \in Seq(Events) /\ Len(log) \in Nat /\ events \in Seq(Events) /\ n \in Nat
      /\ row.head = n /\ first \in Nat \ {0} /\ last \in Nat /\ first <= last /\ last <= Len(log)
  BY LenProperties, ReceiverStoreAssumption DEF TypeOK, RowMatchesTables
<1>1. /\ b.first = first /\ b.events = SubSeq(log, first, last) /\ b.events \in Seq(Events)
      /\ Len(b.events) = last - first + 1 /\ b.terminal = Prefix(log, last)
      /\ \A i \in 1..(last - first + 1) : b.events[i] = log[first + i - 1]
  BY <1>0, SegmentFacts DEF Batch
<1>2. Offered(b) = Prefix(log, last) /\ first <= n + 1
  BY <1>0, <1>1 DEF IngestCode
<1>a. \A i \in 1..Len(b.events) : EventCode(b, i) = "ok"
  BY <1>1, EachEventPasses
<1> HIDE DEF b, n
<1>3. \A i \in 1..last : Prefix(log, last)[i] = log[i]
  BY <1>0, PrefixFacts
<1>4. ASSUME NEW i \in 1..(first - 1) PROVE events[i] = log[i]
  <2>1. first - 1 \in 0..n /\ i \in 1..n /\ i \in 1..last
    BY <1>0, <1>2
  <2>2. /\ Prefix(events, first - 1) \in Seq(Events) /\ Len(Prefix(events, first - 1)) = first - 1
        /\ Prefix(events, first - 1)[i] = events[i]
    BY <1>0, <2>1, PrefixFacts DEF n
  <2>3. (Prefix(events, first - 1) \o b.events)[i] = events[i]
    BY <1>0, <1>1, <2>1, <2>2, ConcatProperties
  <2>4. Prefix(log, last)[i] = events[i]
    BY <1>1, <1>2, <2>3 DEF Offered
  <2> QED BY <1>3, <2>1, <2>4
<1>5. ASSUME last <= n PROVE NewEvents(b) = <<>>
  <2>1. NewFrom(b) = n - first + 2
    BY <1>0, <1>1, <1>5 DEF NewFrom
  <2>2. /\ NewFrom(b) \in Int /\ Len(b.events) \in Int /\ Len(b.events) < NewFrom(b)
    BY <1>0, <1>1, <1>5, <2>1
  <2> QED BY <2>2, SubSeqEmpty DEF NewEvents
<1>6. ASSUME n < last PROVE
        /\ events = Prefix(log, n) /\ NewEvents(b) = SubSeq(log, n + 1, last)
        /\ Inserted(b) = Prefix(log, last)
  <2>0. n \in 0..Len(log) /\ n \in 0..last /\ last \in 0..Len(log)
    BY <1>0, <1>6
  <2>1. \A i \in 1..n : events[i] = log[i]
    <3>1. CASE n < first
      <4>1. n = first - 1
        BY <1>0, <1>2, <3>1
      <4> QED BY <1>4, <4>1
    <3>2. CASE first <= n
      <4> DEFINE k == n - first + 1
      <4>1. k \in 1..Len(b.events) /\ At(b, k) = n /\ IsReplay(b, k)
        BY <1>0, <1>1, <1>6, <3>2 DEF At, IsReplay
      <4> HIDE DEF k
      <4>2. Prefix(events, n) = Prefix(Prefix(log, last), n)
        BY <1>a, <1>2, <4>1 DEF EventCode
      <4>7. n \in 0..Len(events)
        BY <1>0 DEF n
      <4>3. \A i \in 1..n : Prefix(events, n)[i] = events[i]
        BY <1>0, <4>7, PrefixFacts
      <4>4. Prefix(log, last) \in Seq(Events) /\ Len(Prefix(log, last)) = last
        BY <1>0, <2>0, PrefixFacts
      <4>5. \A i \in 1..n : Prefix(Prefix(log, last), n)[i] = Prefix(log, last)[i]
        BY <2>0, <4>4, PrefixFacts
      <4>6. \A i \in 1..n : i \in 1..last
        BY <2>0
      <4> QED BY <1>3, <4>2, <4>3, <4>5, <4>6
    <3> QED BY <1>0, <3>1, <3>2
  <2>2. /\ Prefix(log, n) \in Seq(Events) /\ Len(Prefix(log, n)) = n
        /\ \A i \in 1..n : Prefix(log, n)[i] = log[i]
    BY <1>0, <2>0, PrefixFacts
  <2>3. events = Prefix(log, n)
    BY <1>0, <2>1, <2>2, SeqEqual DEF n
  <2>4. NewEvents(b) = SubSeq(log, n + 1, last)
    <3>1. NewFrom(b) = n - first + 2
      BY <1>0, <1>1, <1>2 DEF NewFrom
    <3>2. NewEvents(b) = SubSeq(SubSeq(log, first, last), n - first + 2, last - first + 1)
      BY <1>1, <3>1 DEF NewEvents
    <3>3. /\ first \in 1..Len(log) /\ last \in 1..Len(log)
          /\ n - first + 2 \in 1..(last - first + 1) /\ last - first + 1 \in 1..(last - first + 1)
      BY <1>0, <1>2, <1>6
    <3>4. NewEvents(b) = SubSeq(log, first + (n - first + 2) - 1, first + (last - first + 1) - 1)
      BY <1>0, <3>2, <3>3, SubSeqOfSubSeq
    <3>5. first + (n - first + 2) - 1 = n + 1 /\ first + (last - first + 1) - 1 = last
      BY <1>0
    <3> QED BY <3>4, <3>5
  <2>5. Inserted(b) = Prefix(log, last)
    <3>1. 1 \in 1..(Len(log) + 1) /\ n \in (1 - 1)..Len(log) /\ last \in n..Len(log)
      BY <1>0, <1>6
    <3>2. SubSeq(log, 1, n) \o SubSeq(log, n + 1, last) = SubSeq(log, 1, last)
      BY <1>0, <3>1, ConcatAdjacentSubSeq
    <3> QED BY <2>3, <2>4, <3>2 DEF Inserted, Prefix
  <2> QED BY <2>3, <2>4, <2>5
<1> QED BY <1>1, <1>2, <1>5, <1>6 DEF b, n
\* One event may follow another.
Follows(e, f) == e.time <= f.time /\ e.through < f.time /\ e.through <= f.through

\* The order of events is transitive.
LEMMA FollowsTransitive ==
  ASSUME NEW e \in Events, NEW f \in Events, NEW g \in Events, Follows(e, f), Follows(f, g)
  PROVE  Follows(e, g)
<1>1. /\ e.time \in Nat /\ e.through \in Nat /\ f.time \in Nat /\ f.through \in Nat
      /\ g.time \in Nat /\ g.through \in Nat
  BY ReceiverStoreAssumption
<1> QED BY <1>1 DEF Follows

(* A history in which each event may follow the one before it is in order. *)
LEMMA NeighboursInOrder ==
  ASSUME NEW log \in Seq(Events), NEW n \in 0..Len(log),
         \A k \in 2..n : Follows(log[k - 1], log[k])
  PROVE  \A i, j \in 1..n : i < j => Follows(log[i], log[j])
<1> SUFFICES ASSUME NEW a \in 1..n, NEW c \in 1..n, a < c, ~Follows(log[a], log[c]) PROVE FALSE
  OBVIOUS
<1> DEFINE T == {j \in 1..n : a < j /\ ~Follows(log[a], log[j])}
<1>0. Len(log) \in Nat /\ n \in Nat /\ \A i \in 1..n : log[i] \in Events
  BY LenProperties
<1>1. T \in SUBSET Nat /\ T # {}
  BY <1>0
<1>2. PICK x \in T : \A y \in T : x <= y
  BY <1>1, LeastNumber
<1>3. x \in 1..n /\ a < x /\ ~Follows(log[a], log[x])
  BY <1>2
<1>4. x \in 2..n /\ x - 1 \in 1..n /\ a <= x - 1 /\ ~(x <= x - 1)
  BY <1>0, <1>3
<1>5. Follows(log[x - 1], log[x])
  BY <1>4
<1>7. CASE x - 1 = a
  BY <1>3, <1>5, <1>7
<1>8. CASE a < x - 1
  <2>1. x - 1 \notin T
    BY <1>2, <1>4
  <2>2. Follows(log[a], log[x - 1])
    BY <1>4, <1>8, <2>1
  <2>3. log[a] \in Events /\ log[x - 1] \in Events /\ log[x] \in Events
    BY <1>0, <1>4
  <2>4. Follows(log[a], log[x])
    BY <1>5, <2>2, <2>3, FollowsTransitive
  <2> QED BY <1>3, <2>4
<1> QED BY <1>0, <1>3, <1>4, <1>7, <1>8

(* What an accepted batch adds may follow what is stored. *)
LEMMA AcceptedInOrder ==
  ASSUME TypeOK, RowMatchesTables, StoredInOrder, NEW log \in Logs,
         NEW first \in 1..Len(log), NEW last \in first..Len(log), Len(events) < last,
         NEW s \in Sessions, NEW window, IngestCode(s, Batch(log, first, last), window) = "ok"
  PROVE  \A i, j \in 1..last : i < j => log[i].id # log[j].id /\ Follows(log[i], log[j])
<1> DEFINE b == Batch(log, first, last)
           n == Len(events)
<1>0. /\ log \in Seq(Events) /\ Len(log) \in Nat /\ events \in Seq(Events) /\ n \in Nat
      /\ row.head = n /\ first \in Nat \ {0} /\ last \in Nat /\ first <= last /\ last <= Len(log)
      /\ n < last
  BY LenProperties, ReceiverStoreAssumption DEF TypeOK, RowMatchesTables
<1>1. /\ b.first = first /\ Len(b.events) = last - first + 1 /\ b.events = SubSeq(log, first, last)
      /\ Offered(b) = Prefix(log, last) /\ first <= n + 1 /\ events = Prefix(log, n)
      /\ b.events \in Seq(Events)
  BY <1>0, AcceptedBatch
<1>a. \A i \in 1..Len(b.events) : EventCode(b, i) = "ok"
  BY <1>1, EachEventPasses
<1>b. /\ n \in 0..Len(log) /\ last \in 0..Len(log)
  BY <1>0
<1>2. /\ \A i \in 1..(last - first + 1) : b.events[i] = log[first + i - 1]
      /\ \A i \in 1..last : Prefix(log, last)[i] = log[i]
      /\ \A i \in 1..n : events[i] = log[i]
  <2>1. \A i \in 1..(last - first + 1) : b.events[i] = log[first + i - 1]
    BY <1>0, <1>1, SegmentFacts
  <2> HIDE DEF b, n
  <2> QED BY <1>0, <1>1, <1>b, <2>1, PrefixFacts
<1>3. n > 0 => row.last = events[n].time /\ row.floor = events[n].through
  BY <1>0 DEF RowMatchesTables
<1> HIDE DEF b, n
<1>4. ASSUME NEW k \in (n + 1)..last PROVE
        /\ \A j \in 1..(k - 1) : log[j].id # log[k].id
        /\ k > 1 => Follows(log[k - 1], log[k])
  <2> DEFINE i == k - first + 1
  <2>1. /\ i \in 1..Len(b.events) /\ At(b, i) = k /\ ~IsReplay(b, i) /\ first + i - 1 = k
        /\ k \in 1..last /\ k \in Nat
    BY <1>0, <1>1 DEF At, IsReplay
  <2>2. b.events[i] = log[k]
    BY <1>0, <1>1, <1>2, <2>1
  <2>3. i > 1 => /\ i - 1 \in 1..(last - first + 1) /\ first + (i - 1) - 1 = k - 1
                 /\ At(b, i - 1) = k - 1
    BY <1>0, <1>1, <2>1 DEF At
  <2>4. i > 1 => b.events[i - 1] = log[k - 1]
    BY <1>2, <2>3
  <2> HIDE DEF i
  <2>5. EventCode(b, i) = "ok"
    BY <1>a, <2>1
  <2>6. ASSUME NEW j \in 1..(k - 1) PROVE log[j].id # log[k].id
    <3>1. Offered(b)[j].id # b.events[i].id
      BY <2>1, <2>5 DEF EventCode
    <3>2. j \in 1..last
      BY <2>1
    <3> QED BY <1>1, <1>2, <2>2, <3>1, <3>2
  <2>7. ASSUME k > 1 PROVE Follows(log[k - 1], log[k])
    <3> DEFINE follows == i > 1 /\ ~IsReplay(b, i - 1)
               lastTime == IF follows THEN b.events[i - 1].time ELSE row.last
               lastFloor == IF follows THEN b.events[i - 1].through ELSE row.floor
    <3>1. ~Backdated(b.events[i], lastTime, lastFloor)
      BY <2>1, <2>5 DEF EventCode
    <3>2. lastTime = log[k - 1].time /\ lastFloor = log[k - 1].through
      <4>1. CASE k = n + 1
        <5>1. ~follows
          BY <1>0, <2>1, <2>3, <4>1 DEF IsReplay
        <5>2. n > 0 /\ n \in 1..n /\ k - 1 = n
          BY <1>0, <2>7, <4>1
        <5> QED BY <1>2, <1>3, <5>1, <5>2
      <4>2. CASE k > n + 1
        <5>1. i > 1
          BY <1>0, <1>1, <2>1, <4>2
        <5>2. ~IsReplay(b, i - 1)
          BY <1>0, <2>1, <2>3, <4>2, <5>1 DEF IsReplay
        <5> QED BY <2>4, <5>1, <5>2
      <4> QED BY <1>0, <2>1, <4>1, <4>2
    <3> HIDE DEF lastTime, lastFloor
    <3>3. ~Backdated(log[k], log[k - 1].time, log[k - 1].through)
      BY <2>2, <3>1, <3>2
    <3>4. k \in 1..Len(log) /\ k - 1 \in 1..Len(log)
      BY <1>0, <2>1, <2>7
    <3>5. log[k] \in Events /\ log[k - 1] \in Events
      BY <1>0, <3>4, LenProperties
    <3>6. /\ log[k].time \in Int /\ log[k].through \in Int
          /\ log[k - 1].time \in Int /\ log[k - 1].through \in Int
      BY <3>5, ReceiverStoreAssumption
    <3> QED BY <3>3, <3>6 DEF Backdated, Follows
  <2> QED BY <2>6, <2>7
<1>5. ASSUME NEW k \in 2..last PROVE Follows(log[k - 1], log[k])
  <2>1. CASE k <= n
    <3>1. k - 1 \in 1..n /\ k \in 1..n /\ k - 1 < k
      BY <1>0, <2>1
    <3>2. Follows(events[k - 1], events[k])
      BY <3>1 DEF StoredInOrder, Follows, n
    <3> QED BY <1>2, <3>1, <3>2
  <2>2. CASE n < k
    <3>1. k \in (n + 1)..last /\ k > 1
      BY <1>0, <2>2
    <3> QED BY <1>4, <3>1
  <2> QED BY <1>0, <2>1, <2>2
<1>6. \A i, j \in 1..last : i < j => Follows(log[i], log[j])
  BY <1>0, <1>b, <1>5, NeighboursInOrder
<1>7. ASSUME NEW i \in 1..last, NEW j \in 1..last, i < j PROVE log[i].id # log[j].id
  <2>1. CASE j <= n
    <3>1. i \in 1..n /\ j \in 1..n
      BY <1>0, <1>7, <2>1
    <3>2. events[i].id # events[j].id
      BY <1>7, <3>1 DEF StoredInOrder, n
    <3> QED BY <1>2, <3>1, <3>2
  <2>2. CASE n < j
    <3>1. j \in (n + 1)..last /\ i \in 1..(j - 1)
      BY <1>0, <1>7, <2>2
    <3> QED BY <1>4, <3>1
  <2> QED BY <1>0, <2>1, <2>2
<1> QED BY <1>6, <1>7
(* One boundary for each event. *)
LEMMA BoundariesFacts ==
  ASSUME NEW es \in Seq(Events)
  PROVE  /\ Boundaries(es) \in Seq(Nat) /\ Len(Boundaries(es)) = Len(es)
         /\ \A i \in 1..Len(es) : Boundaries(es)[i] = es[i].through
<1>1. Len(es) \in Nat /\ \A i \in 1..Len(es) : es[i].through \in Nat
  BY LenProperties, ReceiverStoreAssumption
<1>2. Boundaries(es) = [i \in 1..Len(es) |-> es[i].through]
  BY DEF Boundaries
<1>3. Boundaries(es) \in [1..Len(es) -> Nat]
  BY <1>1, <1>2
<1>4. Boundaries(es) \in Seq(Nat) /\ Len(Boundaries(es)) = Len(es)
  BY <1>1, <1>3
<1> QED BY <1>2, <1>4

(* The boundaries of two segments. *)
LEMMA BoundariesJoin ==
  ASSUME NEW es \in Seq(Events), NEW fs \in Seq(Events)
  PROVE  Boundaries(es \o fs) = Boundaries(es) \o Boundaries(fs)
<1>0. Len(es) \in Nat /\ Len(fs) \in Nat
  BY LenProperties
<1>1. /\ es \o fs \in Seq(Events) /\ Len(es \o fs) = Len(es) + Len(fs)
      /\ \A i \in 1..(Len(es) + Len(fs)) :
           (es \o fs)[i] = IF i <= Len(es) THEN es[i] ELSE fs[i - Len(es)]
  BY ConcatProperties
<1>2. /\ Boundaries(es \o fs) \in Seq(Nat) /\ Len(Boundaries(es \o fs)) = Len(es) + Len(fs)
      /\ \A i \in 1..(Len(es) + Len(fs)) : Boundaries(es \o fs)[i] = (es \o fs)[i].through
  BY <1>1, BoundariesFacts
<1>3. /\ Boundaries(es) \in Seq(Nat) /\ Len(Boundaries(es)) = Len(es)
      /\ Boundaries(fs) \in Seq(Nat) /\ Len(Boundaries(fs)) = Len(fs)
      /\ \A i \in 1..Len(es) : Boundaries(es)[i] = es[i].through
      /\ \A i \in 1..Len(fs) : Boundaries(fs)[i] = fs[i].through
  BY BoundariesFacts
<1>4. /\ Boundaries(es) \o Boundaries(fs) \in Seq(Nat)
      /\ Len(Boundaries(es) \o Boundaries(fs)) = Len(es) + Len(fs)
      /\ \A i \in 1..(Len(es) + Len(fs)) :
           (Boundaries(es) \o Boundaries(fs))[i] =
              IF i <= Len(es) THEN Boundaries(es)[i] ELSE Boundaries(fs)[i - Len(es)]
  BY <1>3, ConcatProperties
<1>5. ASSUME NEW i \in 1..(Len(es) + Len(fs))
      PROVE  Boundaries(es \o fs)[i] = (Boundaries(es) \o Boundaries(fs))[i]
  <2>1. CASE i <= Len(es)
    <3>1. i \in 1..Len(es)
      BY <1>0, <2>1
    <3> QED BY <1>1, <1>2, <1>3, <1>4, <2>1, <3>1
  <2>2. CASE ~(i <= Len(es))
    <3>1. i - Len(es) \in 1..Len(fs)
      BY <1>0, <2>2
    <3> QED BY <1>1, <1>2, <1>3, <1>4, <2>2, <3>1
  <2> QED BY <2>1, <2>2
<1> QED BY <1>2, <1>4, <1>5, SeqEqual

\* What a transaction leaves in the tables.
TablesOK ==
  /\ events \in Seq(Events) /\ effects \in Seq(Nat)
  /\ row \in [epoch : Epochs \union {None}, head : Nat, chain : Seq(Events),
              owner : Nat, floor : Int, last : Nat]

(* A batch that is accepted leaves the tables in step and only adds to them. *)
LEMMA CommitStep ==
  ASSUME TypeOK, OneHistory, RowMatchesTables, StoredInOrder, NEW log \in Logs,
         NEW first \in 1..Len(log), NEW last \in first..Len(log),
         NEW s \in Sessions, NEW window, IngestCode(s, Batch(log, first, last), window) = "ok",
         Commit(Batch(log, first, last))
  PROVE  /\ TablesOK' /\ OneHistory' /\ RowMatchesTables' /\ StoredInOrder'
         /\ row'.owner = row.owner /\ row'.epoch = row.epoch
         /\ Len(events) <= Len(events') /\ events = Prefix(events', Len(events))
<1> DEFINE b == Batch(log, first, last)
           n == Len(events)
           new == NewEvents(b)
<1>0. /\ log \in Seq(Events) /\ Len(log) \in Nat /\ events \in Seq(Events) /\ n \in Nat
      /\ row.head = n /\ first \in Nat \ {0} /\ last \in Nat /\ first <= last /\ last <= Len(log)
      /\ effects \in Seq(Nat) /\ effects = Boundaries(events) /\ row.chain = events
      /\ row \in [epoch : Epochs \union {None}, head : Nat, chain : Seq(Events),
                  owner : Nat, floor : Int, last : Nat]
  BY LenProperties, ReceiverStoreAssumption DEF TypeOK, RowMatchesTables
<1>1. /\ b.terminal = Prefix(log, last)
      /\ last <= n => new = <<>>
      /\ last > n => /\ events = Prefix(log, n)
                    /\ new = SubSeq(log, n + 1, last)
                    /\ Inserted(b) = Prefix(log, last)
  BY <1>0, AcceptedBatch
<1>a. /\ events' = Inserted(b) /\ effects' = effects \o Boundaries(new)
      /\ row' = IF new = <<>> THEN row
                ELSE [row EXCEPT !.head = row.head + Len(new), !.chain = b.terminal,
                                 !.last = new[Len(new)].time,
                                 !.floor = new[Len(new)].through]
      /\ Inserted(b) = events \o new
  BY DEF Commit, Inserted
<1>2. CASE last <= n
  <2>1. new = <<>>
    BY <1>1, <1>2
  <2> HIDE DEF new, b, n
  <2>2. events' = events
    BY <1>0, <1>a, <2>1, ConcatEmptySeq
  <2>3. Boundaries(new) = <<>>
    <3>1. new \in Seq(Events) /\ Len(new) = 0
      BY <2>1, EmptySeq
    <3>2. Boundaries(new) \in Seq(Nat) /\ Len(Boundaries(new)) = 0
      BY <3>1, BoundariesFacts
    <3> QED BY <3>2, EmptySeq
  <2>4. effects' = effects /\ row' = row
    BY <1>0, <1>a, <2>1, <2>3, ConcatEmptySeq
  <2>5. events = Prefix(events', n)
    BY <1>0, <2>2, SubSeqFull DEF Prefix, n
  <2> QED BY <1>0, <2>2, <2>4, <2>5 DEF TablesOK, OneHistory, RowMatchesTables, StoredInOrder, n
<1>3. CASE n < last
  <2>1. /\ events = Prefix(log, n) /\ new = SubSeq(log, n + 1, last)
        /\ events' = Prefix(log, last)
    BY <1>0, <1>1, <1>3, <1>a
  <2>a. \A i, j \in 1..last : i < j => log[i].id # log[j].id /\ Follows(log[i], log[j])
    BY <1>0, <1>3, AcceptedInOrder
  <2> HIDE DEF new, b, n
  <2>0. /\ n + 1 \in 1..(Len(log) + 1) /\ last \in ((n + 1) - 1)..Len(log) /\ last \in 0..Len(log)
        /\ last - (n + 1) + 1 = last - n /\ n + 1 + (last - n) - 1 = last
        /\ last - n \in 1..(last - n) /\ last \in 1..last /\ n \in 0..last
    BY <1>0, <1>3
  <2>2. /\ new \in Seq(Events) /\ Len(new) = last - n /\ new # <<>>
        /\ new[last - n] = log[last]
    <3>1. /\ new \in Seq(Events) /\ Len(new) = last - (n + 1) + 1
          /\ \A i \in 1..(last - (n + 1) + 1) : new[i] = log[(n + 1) + i - 1]
      BY <1>0, <2>0, <2>1, SegmentFacts
    <3>2. new # <<>>
      BY <2>0, <3>1, EmptySeq
    <3> QED BY <2>0, <3>1, <3>2
  <2>3. /\ events' \in Seq(Events) /\ Len(events') = last
        /\ \A i \in 1..last : events'[i] = log[i]
    BY <1>0, <2>0, <2>1, PrefixFacts
  <2>4. effects' = Boundaries(events') /\ effects' \in Seq(Nat)
    <3>1. events' = events \o new
      BY <1>a
    <3>2. Boundaries(events \o new) = Boundaries(events) \o Boundaries(new)
      BY <1>0, <2>2, BoundariesJoin
    <3>3. effects' = Boundaries(events')
      BY <1>0, <1>a, <3>1, <3>2
    <3> QED BY <2>3, <3>3, BoundariesFacts
  <2>5. log[last] \in Events /\ log[last].time \in Nat /\ log[last].through \in Nat
    <3>1. last \in 1..Len(log)
      BY <1>0, <2>0
    <3> QED BY <1>0, <3>1, LenProperties, ReceiverStoreAssumption
  <2>6. /\ row'.head = last /\ row'.chain = events' /\ row'.last = log[last].time
        /\ row'.floor = log[last].through /\ row'.owner = row.owner /\ row'.epoch = row.epoch
        /\ row' \in [epoch : Epochs \union {None}, head : Nat, chain : Seq(Events),
                     owner : Nat, floor : Int, last : Nat]
    <3>1. row' = [row EXCEPT !.head = last, !.chain = events', !.last = log[last].time,
                             !.floor = log[last].through]
      <4>1. row.head + Len(new) = last
        BY <1>0, <2>2
      <4>2. b.terminal = events' /\ new[Len(new)] = log[last]
        BY <1>1, <2>1, <2>2
      <4> QED BY <1>a, <2>2, <4>1, <4>2
    <3>2. log[last].through \in Int
      BY <2>5
    <3> QED BY ONLY <1>0, <2>0, <2>3, <2>5, <3>1, <3>2
  <2>7. RowMatchesTables'
    BY <2>0, <2>3, <2>4, <2>6 DEF RowMatchesTables
  <2>8. OneHistory'
    <3>1. last <= Len(log) /\ Len(events') = last /\ events' = Prefix(log, last)
      BY <1>0, <2>1, <2>3
    <3> QED BY <3>1 DEF OneHistory
  <2>9. StoredInOrder'
    BY <2>3, <2>a DEF StoredInOrder, Follows
  <2>10. events = Prefix(events', n)
    <3>1. /\ Prefix(events', n) \in Seq(Events) /\ Len(Prefix(events', n)) = n
          /\ \A i \in 1..n : Prefix(events', n)[i] = events'[i]
      BY <2>0, <2>3, PrefixFacts
    <3>2. n \in 0..Len(log) /\ \A i \in 1..n : i \in 1..last
      BY <1>0, <2>0
    <3>3. \A i \in 1..n : events[i] = log[i]
      BY <1>0, <2>1, <3>2, PrefixFacts
    <3>4. Len(events) = n /\ events \in Seq(Events)
      BY <1>0 DEF n
    <3>5. \A i \in 1..Len(events) : events[i] = Prefix(events', n)[i]
      BY <2>3, <3>1, <3>2, <3>3, <3>4
    <3>6. Len(events) = Len(Prefix(events', n))
      BY <3>1, <3>4
    <3> QED BY ONLY <3>1, <3>4, <3>5, <3>6, SeqEqual
  <2> QED BY <1>0, <1>3, <2>3, <2>4, <2>6, <2>7, <2>8, <2>9, <2>10 DEF TablesOK, n
<1> QED BY <1>0, <1>2, <1>3
-------------------------------------------------------------------------------
(* An empty database satisfies the invariant. *)
LEMMA InitInv == Init => Inv
<1> SUFFICES ASSUME Init PROVE Inv
  OBVIOUS
<1> USE ReceiverStoreAssumption DEF Init, NoRow, Free
<1>0. <<>> \in Seq(Events) /\ Len(<<>>) = 0 /\ <<>> \in Seq(Nat)
  BY EmptySeq
<1>1. TypeOK
  BY <1>0 DEF TypeOK
<1>2. RowMatchesTables
  <2>1. Boundaries(<<>>) \in Seq(Nat) /\ Len(Boundaries(<<>>)) = 0
    BY <1>0, BoundariesFacts
  <2>2. Boundaries(<<>>) = <<>>
    BY <2>1, EmptySeq
  <2> QED BY <1>0, <2>2 DEF RowMatchesTables
<1>3. OneHistory
  <2>1. Prefix(<<>>, 0) = <<>>
    BY SubSeqEmpty DEF Prefix
  <2> QED BY <1>0, <2>1 DEF OneHistory
<1>4. StoredInOrder /\ LiveSessionOwnsStream /\ EmptyUntilBootstrap
  BY <1>0 DEF StoredInOrder, LiveSessionOwnsStream, EmptyUntilBootstrap
<1> QED BY <1>1, <1>2, <1>3, <1>4 DEF Inv, StoreInv

(* Bootstrapping finds an empty database and leaves one. *)
LEMMA BootstrapStep ==
  ASSUME Inv, NEW id \in AdminIds, NEW req \in Requests, Bootstrap(id, req) PROVE Inv'
<1> USE DEF Inv, StoreInv
<1>0. /\ row.epoch = None /\ events = <<>> /\ effects = <<>>
      /\ \A s \in Sessions : session[s].state # "open"
  BY DEF Bootstrap, BootstrapCode, EmptyUntilBootstrap
<1>1. /\ row' = [epoch |-> req.epoch, head |-> 0, chain |-> <<>>, owner |-> 0,
                floor |-> -1, last |-> 0]
      /\ UNCHANGED <<events, effects, session, lock, faults>>
  BY DEF Bootstrap, NoRow
<1>2. req.epoch \in Epochs /\ req.identity \in Identities /\ req.epoch # None
  BY ReceiverStoreAssumption DEF Requests
<1>3. TypeOK'
  <2>1. <<>> \in Seq(Events) /\ 0 \in Nat /\ -1 \in Int
    BY EmptySeq
  <2>2. row' \in [epoch : Epochs \union {None}, head : Nat, chain : Seq(Events),
                 owner : Nat, floor : Int, last : Nat]
    BY ONLY <1>1, <1>2, <2>1
  <2>3. identity' \in Identities \union {None} /\ admin' \subseteq AdminIds \X Requests
    BY <1>2 DEF TypeOK, Bootstrap
  <2> QED BY <1>1, <2>2, <2>3 DEF TypeOK
<1>4. RowMatchesTables' /\ StoredInOrder' /\ OneHistory'
  BY <1>0, <1>1, EmptySeq DEF RowMatchesTables, StoredInOrder, OneHistory
<1>5. LiveSessionOwnsStream' /\ EmptyUntilBootstrap'
  BY <1>0, <1>1, <1>2 DEF LiveSessionOwnsStream, EmptyUntilBootstrap
<1> QED BY <1>3, <1>4, <1>5

\* The tables that sessions do not touch.
LEMMA SessionStep ==
  ASSUME Inv, UNCHANGED <<identity, admin, events, effects>>,
         row' \in [epoch : Epochs \union {None}, head : Nat, chain : Seq(Events),
                  owner : Nat, floor : Int, last : Nat],
         row'.epoch = row.epoch, row'.head = row.head, row'.chain = row.chain,
         row'.last = row.last, row'.floor = row.floor,
         session' \in [Sessions -> [state : {"new", "open", "closing", "broken"}, owner : Nat]],
         lock' \in Sessions \union {None}, faults' \in 0..MaxFaults,
         LiveSessionOwnsStream', EmptyUntilBootstrap'
  PROVE  Inv'
<1> USE DEF Inv, StoreInv
<1>1. TypeOK'
  BY DEF TypeOK
<1>2. RowMatchesTables' /\ StoredInOrder' /\ OneHistory'
  BY DEF RowMatchesTables, StoredInOrder, OneHistory
<1> QED BY <1>1, <1>2

(* A session begins when no other holds the lock. *)
LEMMA OpenStep ==
  ASSUME Inv, NEW s \in Sessions, NEW h, OpenSession(s, h) PROVE Inv'
<1>0. lock = None /\ row.epoch # None
  BY DEF OpenSession, OpenCode, LockFree
<1>1. /\ row \in [epoch : Epochs \union {None}, head : Nat, chain : Seq(Events),
                  owner : Nat, floor : Int, last : Nat]
      /\ session \in [Sessions -> [state : {"new", "open", "closing", "broken"}, owner : Nat]]
      /\ faults \in 0..MaxFaults /\ None \notin Sessions
  BY ReceiverStoreAssumption DEF Inv, TypeOK
<1>2. /\ lock' = s /\ row' = [row EXCEPT !.owner = row.owner + 1]
      /\ session' = [session EXCEPT ![s] = [state |-> "open", owner |-> row.owner + 1]]
      /\ UNCHANGED <<identity, admin, events, effects, faults>>
  BY DEF OpenSession
<1>3. /\ row'.epoch = row.epoch /\ row'.head = row.head /\ row'.chain = row.chain
      /\ row'.last = row.last /\ row'.floor = row.floor /\ row'.owner = row.owner + 1
      /\ row' \in [epoch : Epochs \union {None}, head : Nat, chain : Seq(Events),
                  owner : Nat, floor : Int, last : Nat]
      /\ session' \in [Sessions -> [state : {"new", "open", "closing", "broken"}, owner : Nat]]
  <2>1. row.owner + 1 \in Nat
    BY <1>1
  <2>2. row' = [row EXCEPT !.owner = row.owner + 1]
    BY <1>2
  <2>3. /\ row'.epoch = row.epoch /\ row'.head = row.head /\ row'.chain = row.chain
        /\ row'.last = row.last /\ row'.floor = row.floor /\ row'.owner = row.owner + 1
        /\ row' \in [epoch : Epochs \union {None}, head : Nat, chain : Seq(Events),
                    owner : Nat, floor : Int, last : Nat]
    BY ONLY <1>1, <2>1, <2>2
  <2>4. [state |-> "open", owner |-> row.owner + 1]
          \in [state : {"new", "open", "closing", "broken"}, owner : Nat]
    BY <2>1
  <2>5. session' \in [Sessions -> [state : {"new", "open", "closing", "broken"}, owner : Nat]]
    BY <1>1, <1>2, <2>4
  <2> QED BY <2>3, <2>5
<1>4. \A q \in Sessions : session[q].state # "open"
  BY <1>0, <1>1 DEF Inv, StoreInv, LiveSessionOwnsStream
<1>5. LiveSessionOwnsStream'
  BY <1>1, <1>2, <1>3, <1>4 DEF LiveSessionOwnsStream
<1>6. EmptyUntilBootstrap'
  BY <1>0, <1>3 DEF EmptyUntilBootstrap
<1> QED BY <1>1, <1>2, <1>3, <1>5, <1>6, SessionStep

(* A session that ends, or is refused, leaves the stream to the holder of the lock. *)
LEMMA EndStep ==
  ASSUME Inv, NEW s \in Sessions, UNCHANGED tables, faults' \in 0..MaxFaults,
         NEW x \in [state : {"new", "closing", "broken"}, owner : Nat],
         session' = [session EXCEPT ![s] = x],
         \/ lock' = lock
         \/ lock = s /\ lock' = None
         \/ lock = None /\ lock' = s
  PROVE  Inv'
<1>1. /\ session \in [Sessions -> [state : {"new", "open", "closing", "broken"}, owner : Nat]]
      /\ lock \in Sessions \union {None} /\ None \notin Sessions
      /\ row \in [epoch : Epochs \union {None}, head : Nat, chain : Seq(Events),
                  owner : Nat, floor : Int, last : Nat]
  BY ReceiverStoreAssumption DEF Inv, TypeOK
<1>2. UNCHANGED <<identity, admin, row, events, effects>>
  BY DEF tables
<1>3. x \in [state : {"new", "open", "closing", "broken"}, owner : Nat] /\ x.state # "open"
  OBVIOUS
<1>4. /\ session' \in [Sessions -> [state : {"new", "open", "closing", "broken"}, owner : Nat]]
      /\ session'[s].state # "open" /\ \A q \in Sessions \ {s} : session'[q] = session[q]
  BY <1>1, <1>3
<1>5. LiveSessionOwnsStream'
  BY <1>1, <1>2, <1>4 DEF Inv, StoreInv, LiveSessionOwnsStream
<1>6. EmptyUntilBootstrap'
  BY <1>2, <1>4 DEF Inv, StoreInv, EmptyUntilBootstrap
<1> QED BY <1>1, <1>2, <1>4, <1>5, <1>6, SessionStep

\* What an accepted batch leaves besides the sessions.
LEMMA IngestStep ==
  ASSUME Inv, NEW log \in Logs, NEW first \in 1..Len(log), NEW last \in first..Len(log),
         NEW s \in Sessions, NEW window, IngestCode(s, Batch(log, first, last), window) = "ok",
         session[s].state = "open", Commit(Batch(log, first, last)),
         session' \in [Sessions -> [state : {"new", "open", "closing", "broken"}, owner : Nat]],
         lock' \in Sessions \union {None}, faults' \in 0..MaxFaults,
         \A q \in Sessions : session'[q].state = "open" =>
           session[q].state = "open" /\ session'[q] = session[q] /\ lock' = lock
  PROVE  Inv' /\ Len(events) <= Len(events') /\ events = Prefix(events', Len(events))
<1> USE DEF Inv, StoreInv
<1>1. /\ TablesOK' /\ OneHistory' /\ RowMatchesTables' /\ StoredInOrder'
      /\ row'.owner = row.owner /\ row'.epoch = row.epoch
      /\ Len(events) <= Len(events') /\ events = Prefix(events', Len(events))
  BY CommitStep
<1>2. TypeOK'
  BY <1>1 DEF TypeOK, TablesOK, Commit
<1>3. LiveSessionOwnsStream'
  BY <1>1 DEF LiveSessionOwnsStream
<1>4. EmptyUntilBootstrap'
  BY <1>1 DEF EmptyUntilBootstrap
<1> QED BY <1>1, <1>2, <1>3, <1>4
(* Every step keeps the invariant, and what is stored. *)
LEMMA Step ==
  ASSUME Inv, [Next]_storeVars
  PROVE  Inv' /\ Len(events) <= Len(events') /\ events = Prefix(events', Len(events))
<1> DEFINE Kept == Len(events) <= Len(events') /\ events = Prefix(events', Len(events))
<1>0. /\ events \in Seq(Events) /\ Len(events) \in Nat /\ faults \in 0..MaxFaults /\ MaxFaults \in Nat
      /\ session \in [Sessions -> [state : {"new", "open", "closing", "broken"}, owner : Nat]]
      /\ lock \in Sessions \union {None}
  BY LenProperties, ReceiverStoreAssumption DEF Inv, TypeOK
<1>1. events' = events => Kept
  BY <1>0, SubSeqFull DEF Prefix
<1>2. ASSUME NEW id \in AdminIds, NEW req \in Requests, Bootstrap(id, req) PROVE Inv' /\ Kept
  BY <1>1, <1>2, BootstrapStep DEF Bootstrap
<1>3. ASSUME NEW s \in Sessions, NEW h, OpenSession(s, h) PROVE Inv' /\ Kept
  BY <1>1, <1>3, OpenStep DEF OpenSession
<1>4. ASSUME NEW s \in Sessions, NEW h, OpenRefused(s, h) PROVE Inv' /\ Kept
  <2> DEFINE x == [session[s] EXCEPT !.state = "closing"]
  <2>1. x \in [state : {"new", "closing", "broken"}, owner : Nat]
    BY <1>0
  <2>2. /\ session' = [session EXCEPT ![s] = x] /\ UNCHANGED <<tables, faults>>
        /\ lock' = lock \/ (lock = None /\ lock' = s)
    BY <1>4 DEF OpenRefused, LockFree
  <2> HIDE DEF x
  <2> QED BY <1>0, <1>1, <2>1, <2>2, EndStep DEF tables
<1>5. ASSUME NEW s \in Sessions, CloseSession(s) PROVE Inv' /\ Kept
  <2> DEFINE x == [session[s] EXCEPT !.state = "closing"]
  <2>1. x \in [state : {"new", "closing", "broken"}, owner : Nat]
    BY <1>0
  <2>2. session' = [session EXCEPT ![s] = x] /\ UNCHANGED <<tables, lock, faults>>
    BY <1>5 DEF CloseSession
  <2> HIDE DEF x
  <2> QED BY <1>0, <1>1, <2>1, <2>2, EndStep DEF tables
<1>6. ASSUME NEW s \in Sessions, BackendExit(s) PROVE Inv' /\ Kept
  <2>1. Free \in [state : {"new", "closing", "broken"}, owner : Nat]
    BY DEF Free
  <2>2. /\ session' = [session EXCEPT ![s] = Free] /\ UNCHANGED <<tables, faults>>
        /\ lock' = lock \/ (lock = s /\ lock' = None)
    BY <1>6 DEF BackendExit
  <2> QED BY <1>0, <1>1, <2>1, <2>2, EndStep DEF tables
<1>7. ASSUME NEW s \in Sessions, Disconnected(s) PROVE
        LET x == [session[s] EXCEPT !.state = "broken"]
        IN  /\ x \in [state : {"new", "closing", "broken"}, owner : Nat]
            /\ session' = [session EXCEPT ![s] = x] /\ faults' \in 0..MaxFaults
            /\ lock' = lock \/ (lock = s /\ lock' = None)
  BY <1>0, <1>7 DEF Disconnected
<1>8. ASSUME NEW s \in Sessions, LoseConnection(s) PROVE Inv' /\ Kept
  <2> DEFINE x == [session[s] EXCEPT !.state = "broken"]
  <2>1. Disconnected(s) /\ UNCHANGED tables
    BY <1>8 DEF LoseConnection
  <2>2. /\ x \in [state : {"new", "closing", "broken"}, owner : Nat]
        /\ session' = [session EXCEPT ![s] = x] /\ faults' \in 0..MaxFaults
        /\ lock' = lock \/ (lock = s /\ lock' = None)
    BY <1>7, <2>1
  <2> HIDE DEF x
  <2> QED BY <1>1, <2>1, <2>2, EndStep DEF tables
<1>9. ASSUME NEW s \in Sessions, NEW log \in Logs, NEW first \in 1..Len(log),
             NEW last \in first..Len(log), NEW window
      PROVE  LET b == Batch(log, first, last)
             IN  /\ Ingest(s, b, window) => Inv' /\ Kept
                 /\ IngestRefused(s, b, window) => UNCHANGED storeVars
                 /\ IngestLost(s, b, window) => Inv' /\ Kept
  <2> DEFINE b == Batch(log, first, last)
  <2>1. ASSUME Ingest(s, b, window) PROVE Inv' /\ Kept
    <3> HIDE DEF b
    <3>1. /\ session[s].state = "open" /\ IngestCode(s, b, window) = "ok" /\ Commit(b)
          /\ UNCHANGED <<session, lock, faults>>
      BY <2>1 DEF Ingest
    <3> USE DEF b
    <3> QED BY <1>0, <3>1, IngestStep
  <2>2. ASSUME IngestLost(s, b, window) PROVE Inv' /\ Kept
    <3> DEFINE x == [session[s] EXCEPT !.state = "broken"]
    <3>0. /\ session[s].state = "open" /\ IngestCode(s, b, window) = "ok"
          /\ Commit(b) \/ UNCHANGED tables
          /\ Disconnected(s)
      <4> HIDE DEF b
      <4> QED BY <2>2 DEF IngestLost
    <3>1. /\ x \in [state : {"new", "closing", "broken"}, owner : Nat]
          /\ session' = [session EXCEPT ![s] = x] /\ faults' \in 0..MaxFaults
          /\ lock' = lock \/ (lock = s /\ lock' = None)
      BY <1>7, <3>0
    <3>2. /\ x \in [state : {"new", "open", "closing", "broken"}, owner : Nat] /\ x.state # "open"
      BY <3>1
    <3> HIDE DEF x
    <3>3. CASE UNCHANGED tables
      BY <1>1, <3>1, <3>3, EndStep DEF tables
    <3>4. CASE Commit(b)
      <4>1. lock = s
        BY <3>0 DEF Inv, StoreInv, LiveSessionOwnsStream
      <4>2. session' \in [Sessions -> [state : {"new", "open", "closing", "broken"}, owner : Nat]]
        BY <1>0, <3>1, <3>2
      <4>3. lock' \in Sessions \union {None}
        BY <1>0, <3>1
      <4>4. ASSUME NEW q \in Sessions, session'[q].state = "open" PROVE FALSE
        <5>1. q # s /\ session'[q] = session[q]
          BY <1>0, <3>1, <3>2, <4>4
        <5>2. lock = q
          BY <4>4, <5>1 DEF Inv, StoreInv, LiveSessionOwnsStream
        <5> QED BY <4>1, <5>1, <5>2
      <4> QED BY <3>0, <3>1, <3>4, <4>2, <4>3, <4>4, IngestStep
    <3> QED BY <3>0, <3>3, <3>4
  <2>3. IngestRefused(s, b, window) => UNCHANGED storeVars
    BY DEF IngestRefused
  <2> QED BY <2>1, <2>2, <2>3
<1>10. ASSUME UNCHANGED storeVars PROVE Inv' /\ Kept
  <2>1. Inv'
    BY <1>10 DEF Inv, StoreInv, TypeOK, EmptyUntilBootstrap, OneHistory, RowMatchesTables,
                 StoredInOrder, LiveSessionOwnsStream, storeVars
  <2> QED BY <1>1, <1>10, <2>1 DEF storeVars
<1> HIDE DEF Kept
<1>11. Inv' /\ Kept
  BY <1>2, <1>3, <1>4, <1>5, <1>6, <1>8, <1>9, <1>10 DEF Next
<1> QED BY <1>11 DEF Kept

(* The invariant holds in every reachable state of the database. *)
THEOREM Invariance == Spec => []Inv
<1>1. Inv /\ [Next]_storeVars => Inv'
  BY Step
<1> QED BY <1>1, InitInv, PTL DEF Spec

(* The variables keep their types. *)
THEOREM TypeCorrect == Spec => []TypeOK
<1>1. Inv => TypeOK
  BY DEF Inv
<1> QED BY <1>1, Invariance, PTL

(* What is stored is a prefix of one of the histories that were offered. *)
THEOREM HistorySafety == Spec => []OneHistory
<1>1. Inv => OneHistory
  BY DEF Inv, StoreInv
<1> QED BY <1>1, Invariance, PTL

(* Events, effects and the stream's row move together, one effect for each event. *)
THEOREM TablesInStep == Spec => []RowMatchesTables
<1>1. Inv => RowMatchesTables
  BY DEF Inv, StoreInv
<1> QED BY <1>1, Invariance, PTL

(* Stored events are in order and none is stored twice. *)
THEOREM OrderSafety == Spec => []StoredInOrder
<1>1. Inv => StoredInOrder
  BY DEF Inv, StoreInv
<1> QED BY <1>1, Invariance, PTL

(* A live session holds the lock and is the last owner. *)
THEOREM SessionSafety == Spec => []LiveSessionOwnsStream
<1>1. Inv => LiveSessionOwnsStream
  BY DEF Inv, StoreInv
<1> QED BY <1>1, Invariance, PTL

(* What is stored is never rewritten. *)
THEOREM NothingRewritten == Spec => StoredLogOnlyGrows
<1>1. Inv /\ [Next]_storeVars =>
        [Len(events) <= Len(events') /\ events = Prefix(events', Len(events))]_storeVars
  BY Step
<1> QED BY <1>1, Invariance, PTL DEF Spec, StoredLogOnlyGrows
===============================================================================
