----------------------------- MODULE PlanProofs -----------------------------
(***************************************************************************)
(* What holds of every plan, and of every encoding of the records a plan   *)
(* left unfinished: lemmas about the operators of Plan, for any keys and   *)
(* types and batches of any length.                                        *)
(*                                                                         *)
(* The order a plan keeps speaks of pairs of records and is not inductive. *)
(* The invariant of the walk that is says what the walk knows of a segment *)
(* besides its metadata: whose records it holds, that acquiring records    *)
(* start segments and Release records end them, and that the records of a  *)
(* segment that is not mixed all have the type of its head.                *)
(***************************************************************************)
EXTENDS Plan, FiniteSetTheorems, WellFoundedInduction, TLAPS

Records(p) == 1 .. Len(p.records)
KeyAt(p, i) == p.records[i].key
TagAt(p, i) == p.records[i].tag
MetaAt(p, i) == p.metas[p.segment[i]]

\* The fields of the plan fit together (TypeOK, for any plan).
WellFormed(p) ==
  /\ p.records \in Seq(Record)
  /\ Len(p.segment) = Len(p.records)
  /\ p.segment \in Seq(1 .. Len(p.metas))
  /\ p.metas \in Seq(SegmentMeta)
  /\ p.open \in [Key -> 0 .. Len(p.metas)]

\* A segment belongs to one key, and the segments of a key follow the log.
SegmentsFollowLog(p) ==
  \A i, j \in Records(p) :
    /\ p.segment[i] = p.segment[j] => KeyAt(p, i) = KeyAt(p, j)
    /\ i < j /\ KeyAt(p, i) = KeyAt(p, j) => p.segment[i] <= p.segment[j]

\* The open segment of a key is its own, its last, and has no tail yet.
OpenIsLast(p) ==
  \A k \in Key : p.open[k] # 0 =>
    /\ p.metas[p.open[k]].tail = {}
    /\ \A i \in Records(p) :
         /\ KeyAt(p, i) = k => p.segment[i] <= p.open[k]
         /\ p.segment[i] = p.open[k] => KeyAt(p, i) = k
    /\ \A l \in Key : p.open[l] = p.open[k] => l = k

\* An acquiring record starts its segment and gives it its head.
AcquireStarts(p) ==
  \A i \in Records(p) : p.records[i].ordering \in Acquiring =>
    /\ MetaAt(p, i).head = {TagAt(p, i)}
    /\ \A j \in Records(p) : j < i => p.segment[j] # p.segment[i]

\* A Release ends its segment and gives it its tail, and when its type is also
\* the head's, the segment has no other type.
ReleaseEnds(p) ==
  \A i \in Records(p) : p.records[i].ordering = "Release" =>
    /\ MetaAt(p, i).tail = {TagAt(p, i)}
    /\ \A j \in Records(p) : i < j => p.segment[j] # p.segment[i]
    /\ TagAt(p, i) \in MetaAt(p, i).head =>
         \A j \in Records(p) : p.segment[j] = p.segment[i] => TagAt(p, j) = TagAt(p, i)

\* A segment has at most one head type; unless it is mixed, no other.
HeadsAreKnown(p) ==
  /\ \A m \in 1 .. Len(p.metas) : \A a, b \in p.metas[m].head : a = b
  /\ \A i \in Records(p) :
       MetaAt(p, i).head # {} /\ ~MetaAt(p, i).mixed => TagAt(p, i) \in MetaAt(p, i).head

PlanInv(p) ==
  /\ WellFormed(p)
  /\ SegmentsFollowLog(p)
  /\ OpenIsLast(p)
  /\ AcquireStarts(p)
  /\ ReleaseEnds(p)
  /\ HeadsAreKnown(p)

-----------------------------------------------------------------------------
\* q is p with one more record, in the open segment of its key or in a new one;
\* no other segment changes.
Extends(p, r, q) ==
  /\ WellFormed(q)
  /\ Len(q.records) = Len(p.records) + 1
  /\ \A i \in Records(p) : q.records[i] = p.records[i] /\ q.segment[i] = p.segment[i]
  /\ q.records[Len(p.records) + 1] = r
  /\ q.segment[Len(p.records) + 1] = Target(p, r)
  /\ Len(q.metas) = IF Starts(p, r) THEN Len(p.metas) + 1 ELSE Len(p.metas)
  /\ Target(p, r) \in 1 .. Len(q.metas)
  /\ \A m \in 1 .. Len(p.metas) : m # Target(p, r) => q.metas[m] = p.metas[m]
  /\ q.metas[Target(p, r)] =
       Accept(IF Starts(p, r) THEN NewSegment ELSE p.metas[Target(p, r)], r)
  /\ q.open = [p.open EXCEPT ![r.key] = IF Closes(r) THEN 0 ELSE Target(p, r)]

\* What one turn of the loop of assign_segments does to a well-formed plan.
LEMMA AssignStep ==
  ASSUME NEW p, WellFormed(p), NEW r \in Record
  PROVE  Extends(p, r, Assign(p, r))
<1> DEFINE q == Assign(p, r)
           n == Len(p.records)
           s == Target(p, r)
<1>1. r.key \in Key /\ r.tag \in Tag /\ r.ordering \in Ordering
  BY DEF Record
<1>2. /\ q.records = Append(p.records, r)
      /\ q.segment = Append(p.segment, s)
      /\ q.metas = IF Starts(p, r) THEN Append(p.metas, Accept(NewSegment, r))
                   ELSE [p.metas EXCEPT ![s] = Accept(p.metas[s], r)]
      /\ q.open = [p.open EXCEPT ![r.key] = IF Closes(r) THEN 0 ELSE s]
  BY DEF Assign
<1>3. /\ ~Starts(p, r) => s \in 1 .. Len(p.metas)
      /\ Starts(p, r) => s = Len(p.metas) + 1
  BY <1>1 DEF Target, Starts, WellFormed
<1>4. \A meta \in SegmentMeta : Accept(meta, r) \in SegmentMeta
  BY <1>1 DEF Accept, SegmentMeta
<1>5. NewSegment \in SegmentMeta
  BY DEF NewSegment, SegmentMeta
<1>6. /\ Len(q.records) = n + 1
      /\ q.records \in Seq(Record)
      /\ q.records[n + 1] = r
      /\ \A i \in 1 .. n : q.records[i] = p.records[i]
  BY <1>2 DEF WellFormed
<1>7. /\ q.metas \in Seq(SegmentMeta)
      /\ Len(q.metas) = IF Starts(p, r) THEN Len(p.metas) + 1 ELSE Len(p.metas)
      /\ s \in 1 .. Len(q.metas)
      /\ \A m \in 1 .. Len(p.metas) : m # s => q.metas[m] = p.metas[m]
      /\ q.metas[s] = Accept(IF Starts(p, r) THEN NewSegment ELSE p.metas[s], r)
  <2>1. CASE Starts(p, r)
    <3>1. q.metas = Append(p.metas, Accept(NewSegment, r)) /\ s = Len(p.metas) + 1
      BY <2>1, <1>2, <1>3
    <3>2. Accept(NewSegment, r) \in SegmentMeta
      BY <1>4, <1>5
    <3> HIDE DEF q, s
    <3> QED BY <2>1, <3>1, <3>2 DEF WellFormed
  <2>2. CASE ~Starts(p, r)
    <3>1. q.metas = [p.metas EXCEPT ![s] = Accept(p.metas[s], r)] /\ s \in 1 .. Len(p.metas)
      BY <2>2, <1>2, <1>3
    <3>2. Accept(p.metas[s], r) \in SegmentMeta
      BY <3>1, <1>4 DEF WellFormed
    <3> HIDE DEF q, s
    <3> QED BY <2>2, <3>1, <3>2 DEF WellFormed
  <2> QED BY <2>1, <2>2
<1>8. /\ q.segment \in Seq(1 .. Len(q.metas))
      /\ Len(q.segment) = n + 1
      /\ q.segment[n + 1] = s
      /\ \A i \in 1 .. n : q.segment[i] = p.segment[i]
  <2>1. p.segment \in Seq(1 .. Len(q.metas))
    BY <1>7 DEF WellFormed
  <2> HIDE DEF q, s
  <2> QED BY <2>1, <1>2, <1>7 DEF WellFormed
<1>9. q.open \in [Key -> 0 .. Len(q.metas)]
  BY <1>1, <1>2, <1>7 DEF WellFormed
<1>10. WellFormed(q)
  <2> HIDE DEF q
  <2> QED BY <1>6, <1>7, <1>8, <1>9 DEF WellFormed
<1> HIDE DEF q
<1>11. Extends(p, r, q)
  BY <1>2, <1>6, <1>7, <1>8, <1>10 DEF Extends, Records
<1> QED BY <1>11 DEF q

\* The invariant survives every record.
LEMMA AssignKeepsPlanInv ==
  ASSUME NEW p, PlanInv(p), NEW r \in Record
  PROVE  PlanInv(Assign(p, r))
<1> DEFINE n == Len(p.records)
           s == Target(p, r)
<1> DEFINE old == IF Starts(p, r) THEN NewSegment ELSE p.metas[s]
<1>1. PICK q : q = Assign(p, r)
  OBVIOUS
<1>2. /\ WellFormed(q)
      /\ Len(q.records) = n + 1
      /\ \A i \in 1 .. n : q.records[i] = p.records[i] /\ q.segment[i] = p.segment[i]
      /\ q.records[n + 1] = r /\ q.segment[n + 1] = s
      /\ Len(q.metas) = IF Starts(p, r) THEN Len(p.metas) + 1 ELSE Len(p.metas)
      /\ s \in 1 .. Len(q.metas)
      /\ \A m \in 1 .. Len(p.metas) : m # s => q.metas[m] = p.metas[m]
      /\ q.metas[s] = Accept(old, r)
      /\ q.open = [p.open EXCEPT ![r.key] = IF Closes(r) THEN 0 ELSE s]
  <2>1. WellFormed(p)
    BY DEF PlanInv
  <2>2. Extends(p, r, q)
    BY <2>1, <1>1, AssignStep
  <2> QED BY <2>2 DEF Extends, Records
<1>3. /\ r.key \in Key /\ r.tag \in Tag /\ r.ordering \in Ordering
      /\ WellFormed(p) /\ n \in Nat /\ Len(p.metas) \in Nat
      /\ \A i \in 1 .. n : p.segment[i] \in 1 .. Len(p.metas) /\ KeyAt(p, i) \in Key
  <2>1. r.key \in Key /\ r.tag \in Tag /\ r.ordering \in Ordering
    BY DEF Record
  <2>2. WellFormed(p)
    BY DEF PlanInv
  <2>3. n \in Nat /\ Len(p.metas) \in Nat
    BY <2>2 DEF WellFormed
  <2>4. \A i \in 1 .. n : p.segment[i] \in 1 .. Len(p.metas)
    BY <2>2, <2>3 DEF WellFormed
  <2>5. \A i \in 1 .. n : p.records[i] \in Record
    BY <2>2, <2>3 DEF WellFormed
  <2>6. \A i \in 1 .. n : KeyAt(p, i) \in Key
    BY <2>5 DEF KeyAt, Record
  <2> QED BY <2>1, <2>2, <2>3, <2>4, <2>6
<1>4. /\ Records(p) = 1 .. n /\ Records(q) = 1 .. n + 1
      /\ \A i \in 1 .. n : KeyAt(q, i) = KeyAt(p, i) /\ TagAt(q, i) = TagAt(p, i)
      /\ KeyAt(q, n + 1) = r.key /\ TagAt(q, n + 1) = r.tag
      /\ MetaAt(q, n + 1) = Accept(old, r)
      /\ \A i \in 1 .. n : p.segment[i] # s => MetaAt(q, i) = MetaAt(p, i)
      /\ \A i \in 1 .. n : p.segment[i] = s => MetaAt(q, i) = Accept(old, r)
  BY <1>2, <1>3 DEF Records, KeyAt, TagAt, MetaAt
\* A new segment is later than all others; an old one is the open one of the key.
<1>5. /\ Starts(p, r) => s = Len(p.metas) + 1
      /\ ~Starts(p, r) => /\ s = p.open[r.key] /\ s # 0 /\ ~Cuts(p.metas[s], r)
                          /\ s \in 1 .. Len(p.metas)
  BY <1>2, <1>3 DEF Target, Starts, WellFormed
<1>6. ~Starts(p, r) =>
        /\ r.ordering \notin Acquiring
        /\ p.metas[s].tail = {}
        /\ \A i \in 1 .. n : /\ KeyAt(p, i) = r.key => p.segment[i] <= s
                             /\ p.segment[i] = s => KeyAt(p, i) = r.key
        /\ \A l \in Key : p.open[l] = s => l = r.key
  BY <1>3, <1>4, <1>5 DEF PlanInv, OpenIsLast, Cuts
<1>7. \A i \in 1 .. n : /\ p.segment[i] = s => KeyAt(p, i) = r.key /\ ~Starts(p, r)
                        /\ KeyAt(p, i) = r.key => p.segment[i] <= s
  BY <1>3, <1>5, <1>6
\* No record of the segment that accepts r is a Release.
<1>8. \A i \in 1 .. n : p.segment[i] = s => p.records[i].ordering # "Release"
  BY <1>4, <1>6, <1>7 DEF PlanInv, ReleaseEnds, MetaAt
<1> HIDE DEF n, s, old
<1>9. SegmentsFollowLog(q)
  <2> SUFFICES ASSUME NEW i \in 1 .. n + 1, NEW j \in 1 .. n + 1
               PROVE  /\ q.segment[i] = q.segment[j] => KeyAt(q, i) = KeyAt(q, j)
                      /\ i < j /\ KeyAt(q, i) = KeyAt(q, j) => q.segment[i] <= q.segment[j]
    BY <1>4 DEF SegmentsFollowLog
  <2>1. CASE i \in 1 .. n /\ j \in 1 .. n
    BY <2>1, <1>2, <1>4 DEF PlanInv, SegmentsFollowLog
  <2>2. CASE j = n + 1 /\ i \in 1 .. n
    BY <2>2, <1>2, <1>3, <1>4, <1>7
  <2>3. CASE i = n + 1 /\ j \in 1 .. n
    BY <2>3, <1>2, <1>3, <1>4, <1>7
  <2>4. CASE i = n + 1 /\ j = n + 1
    BY <2>4, <1>3
  <2> QED BY <2>1, <2>2, <2>3, <2>4, <1>3
<1>10. OpenIsLast(q)
  <2> SUFFICES ASSUME NEW k \in Key, q.open[k] # 0
               PROVE  /\ q.metas[q.open[k]].tail = {}
                      /\ \A i \in 1 .. n + 1 :
                           /\ KeyAt(q, i) = k => q.segment[i] <= q.open[k]
                           /\ q.segment[i] = q.open[k] => KeyAt(q, i) = k
                      /\ \A l \in Key : q.open[l] = q.open[k] => l = k
    BY <1>4 DEF OpenIsLast
  <2>1. \A l \in Key : q.open[l] = IF l = r.key THEN IF Closes(r) THEN 0 ELSE s ELSE p.open[l]
    BY <1>2, <1>3 DEF WellFormed
  <2>2. \A l \in Key : l # r.key => p.open[l] # s
    BY <1>3, <1>5, <1>6 DEF WellFormed
  <2>3. CASE k = r.key
    <3>1. q.open[k] = s /\ ~Closes(r)
      BY <2>1, <2>3
    <3>2. q.metas[s].tail = {}
      BY <3>1, <1>2, <1>6 DEF Accept, Closes, NewSegment, old
    <3>3. \A i \in 1 .. n + 1 : /\ KeyAt(q, i) = k => q.segment[i] <= s
                                /\ q.segment[i] = s => KeyAt(q, i) = k
      BY <2>3, <1>2, <1>3, <1>4, <1>7, <1>5
    <3>4. \A l \in Key : q.open[l] = s => l = k
      BY <2>1, <2>2, <2>3
    <3> QED BY <3>1, <3>2, <3>3, <3>4
  <2>4. CASE k # r.key
    <3>1. q.open[k] = p.open[k] /\ p.open[k] # s /\ p.open[k] \in 1 .. Len(p.metas)
      BY <2>1, <2>2, <2>4, <1>3 DEF WellFormed
    <3>2. /\ p.metas[p.open[k]].tail = {}
          /\ \A i \in 1 .. n : /\ KeyAt(p, i) = k => p.segment[i] <= p.open[k]
                               /\ p.segment[i] = p.open[k] => KeyAt(p, i) = k
          /\ \A l \in Key : p.open[l] = p.open[k] => l = k
      BY <3>1, <1>4 DEF PlanInv, OpenIsLast
    <3>3. q.metas[q.open[k]].tail = {}
      BY <3>1, <3>2, <1>2
    <3>4. \A i \in 1 .. n + 1 : /\ KeyAt(q, i) = k => q.segment[i] <= q.open[k]
                                /\ q.segment[i] = q.open[k] => KeyAt(q, i) = k
      <4> SUFFICES ASSUME NEW i \in 1 .. n + 1
                   PROVE  /\ KeyAt(q, i) = k => q.segment[i] <= q.open[k]
                          /\ q.segment[i] = q.open[k] => KeyAt(q, i) = k
        OBVIOUS
      <4>1. CASE i \in 1 .. n
        BY <4>1, <3>1, <3>2, <1>2, <1>4
      <4>2. CASE i = n + 1
        BY <4>2, <3>1, <2>4, <1>2, <1>4
      <4> QED BY <4>1, <4>2, <1>3
    <3>5. ASSUME NEW l \in Key, q.open[l] = q.open[k]
          PROVE  l = k
      <4>1. l # r.key
        BY <3>1, <3>5, <2>1
      <4>2. QED
        BY <4>1, <3>1, <3>2, <3>5, <2>1
    <3> QED BY <3>3, <3>4, <3>5
  <2> QED BY <2>3, <2>4
<1>11. AcquireStarts(q)
  <2> SUFFICES ASSUME NEW i \in 1 .. n + 1, q.records[i].ordering \in Acquiring
               PROVE  /\ MetaAt(q, i).head = {TagAt(q, i)}
                      /\ \A j \in 1 .. n + 1 : j < i => q.segment[j] # q.segment[i]
    BY <1>4 DEF AcquireStarts
  <2>1. CASE i = n + 1
    <3>1. Starts(p, r)
      BY <2>1, <1>2, <1>6
    <3>2. MetaAt(q, i).head = {r.tag}
      BY <2>1, <1>2, <1>4 DEF Accept
    <3>3. ASSUME NEW j \in 1 .. n + 1, j < i
          PROVE  q.segment[j] # q.segment[i]
      <4>1. j \in 1 .. n
        BY <2>1, <3>3, <1>3
      <4>2. QED
        BY <4>1, <2>1, <3>1, <1>2, <1>4, <1>7
    <3>4. QED
      BY <2>1, <3>2, <3>3, <1>2, <1>4
  <2>2. CASE i \in 1 .. n
    <3>1. /\ MetaAt(p, i).head = {TagAt(p, i)}
          /\ \A j \in 1 .. n : j < i => p.segment[j] # p.segment[i]
      BY <2>2, <1>2, <1>4 DEF PlanInv, AcquireStarts
    <3>2. MetaAt(q, i).head = MetaAt(p, i).head
      BY <2>2, <1>4, <1>6, <1>7 DEF Accept, MetaAt, old
    <3>3. QED
      BY <2>2, <3>1, <3>2, <1>2, <1>3, <1>4
  <2> QED BY <2>1, <2>2, <1>3
<1>12. HeadsAreKnown(q)
  <2>1. ASSUME NEW m \in 1 .. Len(q.metas), NEW a \in q.metas[m].head, NEW b \in q.metas[m].head
        PROVE  a = b
    <3>1. CASE m = s
      BY <3>1, <2>1, <1>2, <1>5 DEF Accept, NewSegment, PlanInv, HeadsAreKnown, old
    <3>2. CASE m # s
      <4>1. m \in 1 .. Len(p.metas)
        BY <3>2, <2>1, <1>2, <1>3, <1>5
      <4>2. q.metas[m] = p.metas[m]
        BY <4>1, <3>2, <1>2
      <4>3. QED
        BY <4>1, <4>2, <2>1 DEF PlanInv, HeadsAreKnown
    <3> QED BY <3>1, <3>2
  <2>2. ASSUME NEW i \in 1 .. n + 1, MetaAt(q, i).head # {}, ~MetaAt(q, i).mixed
        PROVE  TagAt(q, i) \in MetaAt(q, i).head
    <3>1. CASE i = n + 1
      <4>1. /\ MetaAt(q, i) = Accept(old, r) /\ TagAt(q, i) = r.tag
            /\ Accept(old, r).mixed =
                 (old.mixed \/ (Accept(old, r).head # {} /\ r.tag \notin Accept(old, r).head))
        BY <3>1, <1>4 DEF Accept
      <4>2. QED
        BY <4>1, <2>2
    <3>2. CASE i \in 1 .. n /\ p.segment[i] = s
      <4>1. /\ MetaAt(q, i) = Accept(MetaAt(p, i), r)
            /\ r.ordering \notin Acquiring
        BY <3>2, <1>4, <1>6, <1>7 DEF MetaAt, old
      <4>2. MetaAt(p, i).head # {} /\ ~MetaAt(p, i).mixed /\ MetaAt(q, i).head = MetaAt(p, i).head
        <5>1. /\ Accept(MetaAt(p, i), r).head = MetaAt(p, i).head
              /\ MetaAt(p, i).mixed => Accept(MetaAt(p, i), r).mixed
          BY <4>1 DEF Accept
        <5>2. QED
          BY <4>1, <5>1, <2>2
      <4>3. QED
        BY <4>2, <3>2, <1>4 DEF PlanInv, HeadsAreKnown
    <3>3. CASE i \in 1 .. n /\ p.segment[i] # s
      BY <3>3, <2>2, <1>4 DEF PlanInv, HeadsAreKnown
    <3> QED BY <3>1, <3>2, <3>3, <1>3
  <2> QED BY <2>1, <2>2, <1>4 DEF HeadsAreKnown
<1>13. ReleaseEnds(q)
  <2> SUFFICES ASSUME NEW i \in 1 .. n + 1, q.records[i].ordering = "Release"
               PROVE  /\ MetaAt(q, i).tail = {TagAt(q, i)}
                      /\ \A j \in 1 .. n + 1 : i < j => q.segment[j] # q.segment[i]
                      /\ TagAt(q, i) \in MetaAt(q, i).head =>
                           \A j \in 1 .. n + 1 :
                             q.segment[j] = q.segment[i] => TagAt(q, j) = TagAt(q, i)
    BY <1>4 DEF ReleaseEnds
  <2>1. CASE i = n + 1
    <3>1. r.ordering = "Release" /\ r.ordering \notin Acquiring
      BY <2>1, <1>2 DEF Acquiring
    <3>2. MetaAt(q, i).tail = {r.tag}
      BY <2>1, <3>1, <1>4 DEF Accept
    <3>3. ASSUME r.tag \in MetaAt(q, i).head, NEW j \in 1 .. n, p.segment[j] = s
          PROVE  TagAt(p, j) = r.tag
      <4>1. ~Starts(p, r) /\ old = p.metas[s] /\ MetaAt(p, j) = p.metas[s] /\ ~Cuts(p.metas[s], r)
        BY <3>3, <1>5, <1>7 DEF MetaAt, old
      <4>2. r.tag \in p.metas[s].head
        BY <4>1, <3>1, <3>3, <2>1, <1>4 DEF Accept
      <4>3. ~p.metas[s].mixed
        BY <4>1, <4>2, <3>1 DEF Cuts
      <4>4. TagAt(p, j) \in p.metas[s].head
        BY <4>1, <4>2, <4>3, <1>4 DEF PlanInv, HeadsAreKnown
      <4>5. QED
        BY <4>1, <4>2, <4>4, <1>5 DEF PlanInv, HeadsAreKnown
    <3>4. QED
      BY <2>1, <3>2, <3>3, <1>2, <1>3, <1>4
  <2>2. CASE i \in 1 .. n
    <3>1. /\ p.records[i].ordering = "Release"
          /\ p.segment[i] # s /\ MetaAt(q, i) = MetaAt(p, i)
      BY <2>2, <1>2, <1>4, <1>8
    <3>2. /\ MetaAt(p, i).tail = {TagAt(p, i)}
          /\ \A j \in 1 .. n : i < j => p.segment[j] # p.segment[i]
          /\ TagAt(p, i) \in MetaAt(p, i).head =>
               \A j \in 1 .. n : p.segment[j] = p.segment[i] => TagAt(p, j) = TagAt(p, i)
      BY <2>2, <3>1, <1>4 DEF PlanInv, ReleaseEnds
    <3>3. q.segment[i] = p.segment[i] /\ TagAt(q, i) = TagAt(p, i)
      BY <2>2, <1>2, <1>4
    <3>4. ASSUME NEW j \in 1 .. n + 1, i < j
          PROVE  q.segment[j] # q.segment[i]
      <4>1. CASE j \in 1 .. n
        BY <4>1, <3>2, <3>3, <3>4, <1>2
      <4>2. CASE j = n + 1
        BY <4>2, <3>1, <3>3, <1>2
      <4> QED BY <4>1, <4>2, <1>3
    <3>5. ASSUME TagAt(q, i) \in MetaAt(q, i).head,
                 NEW j \in 1 .. n + 1, q.segment[j] = q.segment[i]
          PROVE  TagAt(q, j) = TagAt(q, i)
      <4>1. j # n + 1
        BY <3>1, <3>3, <3>5, <1>2
      <4>2. j \in 1 .. n
        BY <4>1, <1>3
      <4>3. QED
        BY <4>2, <3>1, <3>2, <3>3, <3>5, <1>2, <1>4
    <3> QED BY <3>1, <3>2, <3>3, <3>4, <3>5
  <2> QED BY <2>1, <2>2, <1>3
<1>14. QED
  BY <1>1, <1>2, <1>9, <1>10, <1>11, <1>12, <1>13 DEF PlanInv
-----------------------------------------------------------------------------
\* In a plan with the invariant, records of one type are handled in log order.
LEMMA SameTypeKeepsLogOrder ==
  ASSUME NEW p, PlanInv(p), NEW i \in Records(p), NEW j \in Records(p), i < j,
         KeyAt(p, i) = KeyAt(p, j), TagAt(p, i) = TagAt(p, j)
  PROVE  Precedes(p, i, j)
<1>1. p.segment[i] <= p.segment[j] /\ p.segment[i] \in Int /\ p.segment[j] \in Int
  BY DEF PlanInv, SegmentsFollowLog, WellFormed, Records
<1>2. p.segment[i] = p.segment[j] => Rank(p, i) = Rank(p, j)
  BY DEF Rank, TagAt
<1>3. QED
  BY <1>1, <1>2 DEF Precedes, StageBefore, SameRun, SameStage, TagAt

\* Records of different segments of a key are handled in log order.
LEMMA LaterSegmentPrecedes ==
  ASSUME NEW p, PlanInv(p), NEW i \in Records(p), NEW j \in Records(p), i < j,
         KeyAt(p, i) = KeyAt(p, j), p.segment[i] # p.segment[j]
  PROVE  Precedes(p, i, j)
<1>1. p.segment[i] <= p.segment[j] /\ p.segment[i] \in Int /\ p.segment[j] \in Int
  BY DEF PlanInv, SegmentsFollowLog, WellFormed, Records
<1>2. QED
  BY <1>1 DEF Precedes, StageBefore

\* An acquiring record is handled before all later ones of its key.
LEMMA AcquireIsHead ==
  ASSUME NEW p, PlanInv(p), NEW i \in Records(p), NEW j \in Records(p), i < j,
         KeyAt(p, i) = KeyAt(p, j), p.records[i].ordering \in Acquiring
  PROVE  Precedes(p, i, j)
<1>1. CASE p.segment[i] # p.segment[j]
  BY <1>1, LaterSegmentPrecedes
<1>2. CASE TagAt(p, i) = TagAt(p, j)
  BY <1>2, SameTypeKeepsLogOrder
<1>3. CASE p.segment[i] = p.segment[j] /\ TagAt(p, i) # TagAt(p, j)
  <2>1. MetaAt(p, i).head = {TagAt(p, i)} /\ MetaAt(p, j) = MetaAt(p, i)
    BY <1>3 DEF PlanInv, AcquireStarts, MetaAt
  <2>2. Rank(p, i) = 1 /\ Rank(p, j) \in {2, 3}
    BY <1>3, <2>1 DEF Rank, MetaAt, TagAt
  <2>3. QED
    BY <1>3, <2>2 DEF Precedes, StageBefore
<1>4. QED
  BY <1>1, <1>2, <1>3

\* A Release is handled after all earlier ones of its key.
LEMMA ReleaseIsTail ==
  ASSUME NEW p, PlanInv(p), NEW i \in Records(p), NEW j \in Records(p), i < j,
         KeyAt(p, i) = KeyAt(p, j), p.records[j].ordering = "Release"
  PROVE  Precedes(p, i, j)
<1>1. CASE p.segment[i] # p.segment[j]
  BY <1>1, LaterSegmentPrecedes
<1>2. CASE TagAt(p, i) = TagAt(p, j)
  BY <1>2, SameTypeKeepsLogOrder
<1>3. CASE p.segment[i] = p.segment[j] /\ TagAt(p, i) # TagAt(p, j)
  <2>1. /\ MetaAt(p, j).tail = {TagAt(p, j)} /\ MetaAt(p, i) = MetaAt(p, j)
        /\ TagAt(p, j) \notin MetaAt(p, j).head
    BY <1>3 DEF PlanInv, ReleaseEnds, MetaAt
  <2>2. Rank(p, j) = 3 /\ Rank(p, i) \in {1, 2}
    BY <1>3, <2>1 DEF Rank, MetaAt, TagAt
  <2>3. QED
    BY <1>3, <2>2 DEF Precedes, StageBefore
<1>4. QED
  BY <1>1, <1>2, <1>3

\* What comes before an acquiring record stays before it.
LEMMA AcquireKeepsEarlier ==
  ASSUME NEW p, PlanInv(p), NEW i \in Records(p), NEW j \in Records(p), i < j,
         KeyAt(p, i) = KeyAt(p, j), p.records[j].ordering \in Acquiring
  PROVE  Precedes(p, i, j)
BY LaterSegmentPrecedes DEF PlanInv, AcquireStarts

\* What comes after a Release stays after it.
LEMMA ReleaseKeepsLater ==
  ASSUME NEW p, PlanInv(p), NEW i \in Records(p), NEW j \in Records(p), i < j,
         KeyAt(p, i) = KeyAt(p, j), p.records[i].ordering = "Release"
  PROVE  Precedes(p, i, j)
<1>1. p.segment[j] # p.segment[i]
  BY DEF PlanInv, ReleaseEnds
<1>2. QED
  BY <1>1, LaterSegmentPrecedes

-----------------------------------------------------------------------------
\* Every set of numbers has a least one.
LEMMA LeastNumber ==
  ASSUME NEW T, T \subseteq Nat, T # {}
  PROVE  \E n \in T : \A m \in T : n <= m
<1>1. \E x \in T : \A y \in T : ~ (<<y, x>> \in OpToRel(<, Nat))
  BY NatLessThanWellFounded, WFMin
<1>2. \A x, y \in Nat : <<x, y>> \in OpToRel(<, Nat) <=> x < y
  BY DEF OpToRel
<1>3. PICK x \in T : \A y \in T : ~ (<<y, x>> \in OpToRel(<, Nat))
  BY <1>1
<1>4. ASSUME NEW y \in T PROVE x <= y
  <2>1. x \in Nat /\ y \in Nat /\ ~ (y < x)
    BY <1>2, <1>3
  <2>2. QED
    BY <2>1
<1>5. QED
  BY <1>4

\* The elements of T before x in the order R, a set of pairs.
Below(T, R, x) == {y \in T : <<y, x>> \in R}

\* R orders T in one row.
InOneRow(T, R) ==
  /\ \A x, y, z \in T : <<x, y>> \in R /\ <<y, z>> \in R => <<x, z>> \in R
  /\ \A x \in T : <<x, x>> \notin R
  /\ \A x, y \in T : x # y => <<x, y>> \in R \/ <<y, x>> \in R

\* In a finite set that stands in one row, counting the elements before one
\* numbers all of them in that order.
LEMMA Numbered ==
  ASSUME NEW T, IsFiniteSet(T), NEW R, InOneRow(T, R)
  PROVE  /\ Cardinality(T) \in Nat
         /\ \A x \in T : Cardinality(Below(T, R, x)) + 1 \in 1 .. Cardinality(T)
         /\ \A x, y \in T : <<x, y>> \in R <=>
              Cardinality(Below(T, R, x)) + 1 < Cardinality(Below(T, R, y)) + 1
         /\ \A n \in 1 .. Cardinality(T) : \E x \in T : Cardinality(Below(T, R, x)) + 1 = n
<1> DEFINE number(x) == Cardinality(Below(T, R, x)) + 1
<1>1. Cardinality(T) \in Nat
  BY FS_CardinalityType
<1>2. ASSUME NEW x \in T
      PROVE  /\ IsFiniteSet(Below(T, R, x)) /\ Cardinality(Below(T, R, x)) \in Nat
             /\ number(x) \in 1 .. Cardinality(T)
  <2>1. Below(T, R, x) \subseteq T \ {x}
    BY DEF Below, InOneRow
  <2>2. IsFiniteSet(T \ {x}) /\ Cardinality(T \ {x}) = Cardinality(T) - 1
    BY FS_RemoveElement
  <2>3. IsFiniteSet(Below(T, R, x)) /\ Cardinality(Below(T, R, x)) <= Cardinality(T) - 1
    BY <2>1, <2>2, FS_Subset
  <2>4. Cardinality(Below(T, R, x)) \in Nat
    BY <2>3, FS_CardinalityType
  <2>5. QED
    BY <1>1, <2>3, <2>4
<1>3. ASSUME NEW x \in T, NEW y \in T, <<x, y>> \in R PROVE number(x) < number(y)
  <2>1. Below(T, R, x) \cup {x} \subseteq Below(T, R, y) /\ x \notin Below(T, R, x)
    BY <1>3 DEF Below, InOneRow
  <2>2. /\ IsFiniteSet(Below(T, R, x) \cup {x})
        /\ Cardinality(Below(T, R, x) \cup {x}) = Cardinality(Below(T, R, x)) + 1
    BY <1>2, <2>1, FS_AddElement
  <2>3. Cardinality(Below(T, R, x)) + 1 <= Cardinality(Below(T, R, y))
    BY <1>2, <2>1, <2>2, FS_Subset
  <2>4. Cardinality(Below(T, R, x)) \in Nat /\ Cardinality(Below(T, R, y)) \in Nat
    BY <1>2
  <2>5. QED
    BY <2>3, <2>4
<1>4. ASSUME NEW x \in T, NEW y \in T, number(x) < number(y) PROVE <<x, y>> \in R
  <2>1. number(x) \in Nat /\ number(y) \in Nat
    BY <1>2
  <2>2. ~ (number(y) < number(x)) /\ number(x) # number(y)
    BY <1>4, <2>1
  <2>3. x # y /\ <<y, x>> \notin R
    BY <1>3, <2>2
  <2>4. QED
    BY <2>3 DEF InOneRow
<1>5. ASSUME NEW n \in 1 .. Cardinality(T) PROVE \E x \in T : number(x) = n
  <2> DEFINE f == [x \in T |-> number(x)]
             U == 1 .. Cardinality(T)
  <2>1. ASSUME NEW x \in T, NEW y \in T, x # y PROVE number(x) # number(y)
    <3>1. number(x) \in Nat /\ number(y) \in Nat
      BY <1>2
    <3>2. <<x, y>> \in R \/ <<y, x>> \in R
      BY <2>1 DEF InOneRow
    <3>3. number(x) < number(y) \/ number(y) < number(x)
      BY <1>3, <3>2
    <3> HIDE DEF number
    <3>4. QED
      BY <3>1, <3>3
  <2>2. f \in [T -> U]
    BY <1>2
  <2>3. f \in Injection(T, U)
    <3> HIDE DEF number
    <3>1. QED
      BY <2>1, <2>2 DEF Injection, IsInjective
  <2>4. IsFiniteSet(U) /\ Cardinality(U) = Cardinality(T)
    <3>1. 1 \in Int /\ Cardinality(T) \in Int
      BY <1>1
    <3>2. /\ IsFiniteSet(U)
          /\ Cardinality(U) = IF 1 > Cardinality(T) THEN 0 ELSE Cardinality(T) - 1 + 1
      BY <3>1, FS_Interval
    <3>3. QED
      BY <1>1, <3>2
  <2>5. f \in Surjection(T, U)
    <3> HIDE DEF f, U
    <3>1. QED
      BY <2>3, <2>4, FS_Injection
  <2>6. \E x \in T : f[x] = n
    BY <2>5 DEF Surjection
  <2>7. QED
    BY <2>6
<1>6. QED
  BY <1>1, <1>2, <1>3, <1>4, <1>5

-----------------------------------------------------------------------------
\* Record f acquires, and up to record x of the same key the others are Relaxed
\* and of the type of f.
Leads(hs, f, x) ==
  /\ f \in 1 .. x
  /\ hs[f].ordering \in Acquiring
  /\ \A y \in f .. x : hs[y].key = hs[f].key /\ hs[y].tag = hs[f].tag
  /\ \A y \in f + 1 .. x : hs[y].ordering = "Relaxed"

\* The segment of the last record of a key is open, unless it ended with it.
LastIsOpen(p) ==
  \A n \in Records(p) :
    n = Len(p.records) /\ p.records[n].ordering # "Release" =>
      p.open[KeyAt(p, n)] = p.segment[n]

\* What an acquiring record leads is in its segment.
LedTogether(p) ==
  \A x \in Records(p) : \A f \in 1 .. x :
    Leads(p.records, f, x) => p.segment[x] = p.segment[f]

PlanSound(p) == PlanInv(p) /\ LastIsOpen(p) /\ LedTogether(p)

LEMMA AssignKeepsSound ==
  ASSUME NEW p, PlanSound(p), NEW r \in Record
  PROVE  /\ PlanSound(Assign(p, r))
         /\ Len(Assign(p, r).records) = Len(p.records) + 1
         /\ \A i \in 1 .. Len(p.records) : Assign(p, r).records[i] = p.records[i]
         /\ Assign(p, r).records[Len(p.records) + 1] = r
<1> DEFINE n == Len(p.records)
<1>1. PICK q : q = Assign(p, r)
  OBVIOUS
<1>2. WellFormed(p)
  BY DEF PlanSound, PlanInv
<1>3. PlanInv(q)
  BY <1>1, AssignKeepsPlanInv DEF PlanSound
<1>4. Extends(p, r, q)
  BY <1>1, <1>2, AssignStep
<1>5. /\ WellFormed(q) /\ n \in Nat /\ r.key \in Key
      /\ Len(q.records) = n + 1
      /\ \A i \in 1 .. n : q.records[i] = p.records[i] /\ q.segment[i] = p.segment[i]
      /\ q.records[n + 1] = r /\ q.segment[n + 1] = Target(p, r)
      /\ q.open = [p.open EXCEPT ![r.key] = IF Closes(r) THEN 0 ELSE Target(p, r)]
  BY <1>2, <1>4 DEF Extends, Records, WellFormed, Record
<1>6. q.open[r.key] = IF Closes(r) THEN 0 ELSE Target(p, r)
  BY <1>2, <1>5 DEF WellFormed
<1> HIDE DEF n
<1>7. LastIsOpen(q)
  <2>1. q.records[n + 1].ordering # "Release" => q.open[KeyAt(q, n + 1)] = q.segment[n + 1]
    BY <1>5, <1>6 DEF KeyAt, Closes
  <2>2. QED
    BY <1>5, <2>1 DEF LastIsOpen, Records
<1>8. LedTogether(q)
  <2> SUFFICES ASSUME NEW x \in 1 .. n + 1, NEW f \in 1 .. x, Leads(q.records, f, x)
               PROVE  q.segment[x] = q.segment[f]
    BY <1>5 DEF LedTogether, Records
  <2>1. CASE x \in 1 .. n
    <3>1. \A y \in f .. x : y \in 1 .. n /\ q.records[y] = p.records[y]
      BY <1>5, <2>1
    <3>2. f \in f .. x /\ x \in f .. x
      BY <1>5, <2>1
    <3>3. \A y \in f + 1 .. x : y \in f .. x
      BY <1>5, <2>1
    <3>4. Leads(p.records, f, x)
      BY <3>1, <3>2, <3>3 DEF Leads
    <3>5. p.segment[x] = p.segment[f]
      BY <2>1, <3>4 DEF PlanSound, LedTogether, Records, n
    <3>6. QED
      BY <1>5, <3>1, <3>2, <3>5
  <2>2. CASE x = n + 1 /\ f = x
    BY <2>2
  <2>3. CASE x = n + 1 /\ f # x
    <3>1. f \in 1 .. n /\ n \in 1 .. n /\ n \in f .. x /\ x \in f + 1 .. x /\ x \in f .. x
      BY <1>5, <2>3
    <3>2. r.ordering = "Relaxed" /\ r.key = q.records[f].key /\ r.tag = q.records[f].tag
      BY <1>5, <2>3, <3>1 DEF Leads
    <3>3. \A y \in f .. n : y \in f .. x /\ y \in 1 .. n /\ q.records[y] = p.records[y]
      BY <1>5, <2>3, <3>1
    <3>4. \A y \in f + 1 .. n : y \in f + 1 .. x /\ y \in f .. n
      BY <1>5, <2>3, <3>1
    <3>5. f \in 1 .. n /\ f \in f .. n /\ n \in f .. n
      BY <1>5, <3>1
    <3>6. Leads(p.records, f, n)
      BY <3>3, <3>4, <3>5 DEF Leads
    <3>7. p.segment[n] = p.segment[f]
      BY <3>1, <3>6 DEF PlanSound, LedTogether, Records, n
    <3>8. p.records[n].key = r.key /\ p.records[n].ordering # "Release"
      <4>1. p.records[n].key = r.key
        BY <3>2, <3>3, <3>5 DEF Leads
      <4>2. n = f \/ n \in f + 1 .. n
        BY <1>5, <3>1
      <4>3. p.records[n].ordering \in Acquiring \/ p.records[n].ordering = "Relaxed"
        BY <3>6, <4>2 DEF Leads
      <4>4. QED
        BY <4>1, <4>3 DEF Acquiring
    <3>9. p.open[r.key] = p.segment[n]
      BY <3>1, <3>8 DEF PlanSound, LastIsOpen, Records, KeyAt, n
    <3>10. p.segment[n] \in 1 .. Len(p.metas)
      <4>1. n = Len(p.segment) /\ p.segment \in Seq(1 .. Len(p.metas))
        BY <1>2 DEF WellFormed, n
      <4>2. QED
        BY <3>1, <4>1
    <3>11. p.open[r.key] # 0
      BY <3>9, <3>10
    <3>12. ~Starts(p, r)
      BY <3>2, <3>11 DEF Starts, Cuts, Acquiring
    <3>13. q.segment[x] = p.segment[n]
      BY <1>5, <2>3, <3>9, <3>12 DEF Target
    <3>14. QED
      BY <1>5, <3>1, <3>7, <3>13
  <2>4. QED
    BY <1>5, <2>1, <2>2, <2>3
<1>9. QED
  BY <1>1, <1>3, <1>5, <1>7, <1>8 DEF PlanSound, n

\* A plan of no record.
LEMMA EmptyPlanIsSound == PlanSound(EmptyPlan) /\ EmptyPlan.records = <<>>
<1> DEFINE p == EmptyPlan
<1>1. /\ p.records = <<>> /\ p.segment = <<>> /\ p.metas = <<>>
      /\ p.open = [k \in Key |-> 0]
  BY DEF EmptyPlan
<1> HIDE DEF p
<1>2. WellFormed(p) /\ Records(p) = {} /\ Len(p.metas) = 0
  BY <1>1 DEF WellFormed, Records
<1>3. PlanInv(p)
  BY <1>1, <1>2 DEF PlanInv, SegmentsFollowLog, OpenIsLast, AcquireStarts,
                    ReleaseEnds, HeadsAreKnown
<1>4. LastIsOpen(p) /\ LedTogether(p)
  BY <1>2 DEF LastIsOpen, LedTogether
<1>5. QED
  BY <1>1, <1>3, <1>4 DEF PlanSound, p

\* A plan of the first n records of a batch.
PlansFirst(p, hs, n) ==
  /\ PlanSound(p)
  /\ Len(p.records) = n
  /\ \A i \in 1 .. n : p.records[i] = hs[i]

\* The plan of a batch is sound and holds the records of the batch.
LEMMA PlanOfIsSound ==
  ASSUME NEW hs \in Seq(Record)
  PROVE  PlanSound(PlanOf(hs)) /\ PlanOf(hs).records = hs
<1> DEFINE Step(f, n) == IF n = 0 THEN EmptyPlan ELSE Assign(f[n - 1], hs[n])
           Upto(f, k) == f = [n \in 0 .. k |-> Step(f, n)]
           walk == CHOOSE f : Upto(f, Len(hs))
           bad == {k \in Nat : ~ \E f : Upto(f, k)}
<1>1. Len(hs) \in Nat /\ \A n \in 1 .. Len(hs) : hs[n] \in Record
  OBVIOUS
<1>2. \A k \in Nat : \E f : Upto(f, k)
  <2> SUFFICES ASSUME bad # {} PROVE FALSE
    OBVIOUS
  <2>1. bad \subseteq Nat
    OBVIOUS
  <2>2. PICK k \in bad : \A m \in bad : k <= m
    <3> HIDE DEF bad
    <3>1. QED
      BY <2>1, LeastNumber
  <2>3. k \in Nat /\ ~ \E f : Upto(f, k)
    OBVIOUS
  <2>4. k # 0
    <3> SUFFICES ASSUME k = 0 PROVE FALSE
      OBVIOUS
    <3> DEFINE one == [n \in 0 .. 0 |-> EmptyPlan]
    <3>1. one = [n \in 0 .. 0 |-> Step(one, n)]
      OBVIOUS
    <3>2. Upto(one, k)
      BY <3>1
    <3>3. QED
      BY <2>3, <3>2
  <2>5. k - 1 \in Nat /\ ~ (k <= k - 1)
    BY <2>3, <2>4
  <2>6. k - 1 \notin bad
    <3> HIDE DEF bad
    <3>1. QED
      BY <2>2, <2>5
  <2>7. PICK f : Upto(f, k - 1)
    BY <2>5, <2>6
  <2>8. \A n \in 0 .. k - 1 : f[n] = Step(f, n)
    <3> HIDE DEF Step
    <3>1. QED
      BY <2>7
  <2> DEFINE g == [n \in 0 .. k |-> IF n = k THEN Assign(f[k - 1], hs[k]) ELSE f[n]]
  <2>9. ASSUME NEW n \in 0 .. k PROVE g[n] = Step(g, n)
    <3>1. CASE n = 0
      <4>1. n # k /\ n \in 0 .. k - 1
        BY <2>3, <2>4, <3>1
      <4>2. g[n] = f[n]
        BY <4>1
      <4>3. QED
        BY <2>8, <3>1, <4>1, <4>2
    <3>2. CASE n # 0
      <4>1. n - 1 \in 0 .. k /\ n - 1 # k /\ g[n - 1] = f[n - 1]
        BY <2>3, <3>2
      <4>2. CASE n = k
        BY <3>2, <4>1, <4>2
      <4>3. CASE n # k
        <5>1. n \in 0 .. k - 1
          BY <2>3, <4>3
        <5>2. g[n] = f[n]
          BY <4>3
        <5>3. QED
          BY <2>8, <3>2, <4>1, <5>1, <5>2
      <4>4. QED
        BY <4>2, <4>3
    <3>3. QED
      BY <3>1, <3>2
  <2>10. g = [n \in 0 .. k |-> Step(g, n)]
    <3>1. g = [n \in 0 .. k |-> g[n]]
      OBVIOUS
    <3> HIDE DEF g, Step
    <3>2. QED
      BY <2>9, <3>1
  <2>11. Upto(g, k)
    BY <2>10
  <2>12. QED
    BY <2>3, <2>11
<1>3. Upto(walk, Len(hs))
  BY <1>1, <1>2
<1>4. PlanOf(hs) = walk[Len(hs)]
  BY DEF PlanOf
<1> HIDE DEF walk
<1>5. \A n \in 0 .. Len(hs) : walk[n] = Step(walk, n)
  <2> HIDE DEF Step
  <2>1. QED
    BY <1>3
<1> DEFINE unsound == {n \in 0 .. Len(hs) : ~ PlansFirst(walk[n], hs, n)}
<1>6. unsound = {}
  <2> SUFFICES ASSUME unsound # {} PROVE FALSE
    OBVIOUS
  <2>1. unsound \subseteq Nat
    BY <1>1
  <2>2. PICK n \in unsound : \A m \in unsound : n <= m
    <3> HIDE DEF unsound
    <3>1. QED
      BY <2>1, LeastNumber
  <2>3. n \in 0 .. Len(hs) /\ ~ PlansFirst(walk[n], hs, n)
    OBVIOUS
  <2>4. n # 0
    <3> SUFFICES ASSUME n = 0 PROVE FALSE
      OBVIOUS
    <3>1. walk[n] = EmptyPlan
      BY <1>5, <2>3
    <3>2. Len(EmptyPlan.records) = 0
      BY EmptyPlanIsSound
    <3>3. QED
      BY <2>3, <3>1, <3>2, EmptyPlanIsSound DEF PlansFirst
  <2>5. n - 1 \in 0 .. Len(hs) /\ n \in Nat /\ n \in 1 .. Len(hs)
    BY <1>1, <2>3, <2>4
  <2>6. n - 1 \notin unsound
    <3>1. ~ (n <= n - 1)
      BY <2>5
    <3> HIDE DEF unsound
    <3>2. QED
      BY <2>2, <3>1
  <2> DEFINE p == walk[n - 1]
  <2>7. PlansFirst(p, hs, n - 1)
    BY <2>5, <2>6
  <2>8. walk[n] = Assign(p, hs[n])
    BY <1>5, <2>3, <2>4
  <2> HIDE DEF p, Step, unsound
  <2>9. hs[n] \in Record
    BY <1>1, <2>5
  <2>10. PICK q : q = Assign(p, hs[n])
    OBVIOUS
  <2>11. /\ PlanSound(q) /\ Len(q.records) = Len(p.records) + 1
         /\ \A i \in 1 .. Len(p.records) : q.records[i] = p.records[i]
         /\ q.records[Len(p.records) + 1] = hs[n]
    BY <2>7, <2>9, <2>10, AssignKeepsSound DEF PlansFirst
  <2>12. Len(p.records) = n - 1 /\ \A i \in 1 .. n - 1 : p.records[i] = hs[i]
    BY <2>7 DEF PlansFirst
  <2>13. PlansFirst(q, hs, n)
    BY <2>5, <2>11, <2>12 DEF PlansFirst
  <2>14. QED
    BY <2>3, <2>8, <2>10, <2>13
<1>7. PICK p : p = PlanOf(hs)
  OBVIOUS
<1>8. PlansFirst(p, hs, Len(hs))
  BY <1>1, <1>4, <1>6, <1>7
<1>9. p.records \in Seq(Record)
  BY <1>8 DEF PlansFirst, PlanSound, PlanInv, WellFormed
<1>10. p.records = hs
  <2>1. Len(p.records) = Len(hs) /\ \A i \in 1 .. Len(hs) : p.records[i] = hs[i]
    BY <1>8 DEF PlansFirst
  <2>2. QED
    BY <1>9, <2>1
<1>11. QED
  BY <1>7, <1>8, <1>10 DEF PlansFirst

\* A record that is a fence on both sides: a Release, or what an acquiring
\* record leads.
Barrier(hs, i) ==
  hs[i].ordering = "Release" \/ \E f \in 1 .. i : Leads(hs, f, i)

\* What a record leads shares its stage.
LEMMA LedSharesStage ==
  ASSUME NEW p, PlanSound(p), NEW i \in Records(p), NEW f \in 1 .. i, Leads(p.records, f, i)
  PROVE  /\ f \in Records(p) /\ p.segment[i] = p.segment[f]
         /\ KeyAt(p, f) = KeyAt(p, i) /\ TagAt(p, f) = TagAt(p, i)
         /\ MetaAt(p, i).head = {TagAt(p, i)} /\ Rank(p, i) = 1 /\ Rank(p, f) = 1
<1>1. Len(p.records) \in Nat
  BY DEF PlanSound, PlanInv, WellFormed
<1>2. f \in Records(p) /\ i \in f .. i /\ f \in f .. i
  BY <1>1 DEF Records
<1>3. p.segment[i] = p.segment[f]
  BY DEF PlanSound, LedTogether
<1>4. KeyAt(p, f) = KeyAt(p, i) /\ TagAt(p, f) = TagAt(p, i)
  BY <1>2 DEF Leads, KeyAt, TagAt
<1>5. MetaAt(p, f).head = {TagAt(p, f)}
  BY <1>2 DEF Leads, PlanSound, PlanInv, AcquireStarts
<1>6. QED
  BY <1>2, <1>3, <1>4, <1>5 DEF Rank, MetaAt, TagAt

LEMMA BarrierKeepsEarlier ==
  ASSUME NEW p, PlanSound(p), NEW k \in Records(p), NEW i \in Records(p), k < i,
         KeyAt(p, k) = KeyAt(p, i), Barrier(p.records, i)
  PROVE  Precedes(p, k, i)
<1>1. PlanInv(p)
  BY DEF PlanSound
<1>2. CASE p.records[i].ordering = "Release"
  BY <1>1, <1>2, ReleaseIsTail
<1>3. ASSUME NEW f \in 1 .. i, Leads(p.records, f, i) PROVE Precedes(p, k, i)
  <2>1. /\ f \in Records(p) /\ p.segment[i] = p.segment[f]
    BY <1>3, LedSharesStage
  <2>2. i \in Nat /\ k \in Nat /\ f \in Nat
    BY <2>1 DEF Records
  <2>3. CASE k < f
    <3>1. p.segment[k] # p.segment[f]
      BY <1>1, <1>3, <2>1, <2>3 DEF Leads, PlanInv, AcquireStarts
    <3>2. QED
      BY <1>1, <2>1, <3>1, LaterSegmentPrecedes
  <2>4. CASE ~ (k < f)
    <3>1. k \in f .. i /\ i \in f .. i
      BY <2>2, <2>4
    <3>2. TagAt(p, k) = TagAt(p, i)
      BY <1>3, <3>1 DEF Leads, TagAt
    <3>3. QED
      BY <1>1, <3>2, SameTypeKeepsLogOrder
  <2>5. QED
    BY <2>3, <2>4
<1>4. QED
  BY <1>2, <1>3 DEF Barrier

LEMMA BarrierKeepsLater ==
  ASSUME NEW p, PlanSound(p), NEW i \in Records(p), NEW k \in Records(p), i < k,
         KeyAt(p, i) = KeyAt(p, k), Barrier(p.records, i)
  PROVE  Precedes(p, i, k)
<1>1. PlanInv(p)
  BY DEF PlanSound
<1>2. CASE p.records[i].ordering = "Release"
  BY <1>1, <1>2, ReleaseKeepsLater
<1>3. ASSUME NEW f \in 1 .. i, Leads(p.records, f, i) PROVE Precedes(p, i, k)
  <2>1. MetaAt(p, i).head = {TagAt(p, i)} /\ Rank(p, i) = 1
    BY <1>3, LedSharesStage
  <2>2. CASE TagAt(p, i) = TagAt(p, k)
    BY <1>1, <2>2, SameTypeKeepsLogOrder
  <2>3. CASE p.segment[i] # p.segment[k]
    BY <1>1, <2>3, LaterSegmentPrecedes
  <2>4. CASE p.segment[i] = p.segment[k] /\ TagAt(p, i) # TagAt(p, k)
    <3>1. Rank(p, k) \in {2, 3}
      BY <2>1, <2>4 DEF Rank, MetaAt, TagAt
    <3>2. QED
      BY <2>1, <2>4, <3>1 DEF Precedes, StageBefore
  <2>5. QED
    BY <2>2, <2>3, <2>4
<1>4. QED
  BY <1>2, <1>3 DEF Barrier

\* What the headers of two records of a key may demand of their order.
Demand(x, y) == x.tag = y.tag \/ x.ordering # "Relaxed" \/ y.ordering # "Relaxed"

\* It is what the documented orderings demand, in both directions.
LEMMA DemandIs ==
  ASSUME NEW x \in Record, NEW y \in Record, x.key = y.key
  PROVE  Demand(x, y) <=> Required(x, y) \/ Fenced(x, y)
<1>1. x.ordering \in Ordering /\ y.ordering \in Ordering
  BY DEF Record
<1>2. QED
  BY <1>1 DEF Demand, Required, Fenced, Ordering, Acquiring

\* The plan of a batch keeps what its headers demand.
LEMMA PlanKeepsDemand ==
  ASSUME NEW p, PlanSound(p), NEW i \in Records(p), NEW j \in Records(p), i < j,
         KeyAt(p, i) = KeyAt(p, j), Demand(p.records[i], p.records[j])
  PROVE  Precedes(p, i, j)
<1>1. PlanInv(p)
  BY DEF PlanSound
<1>2. p.records[i].ordering \in Ordering /\ p.records[j].ordering \in Ordering
  <2>1. p.records \in Seq(Record)
    BY <1>1 DEF PlanInv, WellFormed
  <2>2. p.records[i] \in Record /\ p.records[j] \in Record
    BY <2>1 DEF Records
  <2>3. QED
    BY <2>2 DEF Record
<1>3. \/ TagAt(p, i) = TagAt(p, j)
      \/ p.records[i].ordering \in Acquiring
      \/ p.records[j].ordering \in Acquiring
      \/ p.records[i].ordering = "Release"
      \/ p.records[j].ordering = "Release"
  BY <1>2 DEF Demand, Ordering, Acquiring, TagAt
<1>4. QED
  BY <1>1, <1>3, SameTypeKeepsLogOrder, AcquireIsHead, AcquireKeepsEarlier,
     ReleaseIsTail, ReleaseKeepsLater

\* A plan keeps an order between records that their types or a barrier keep.
LEMMA BarriersKeepDemand ==
  ASSUME NEW p, PlanSound(p), NEW i \in Records(p), NEW j \in Records(p), i < j,
         KeyAt(p, i) = KeyAt(p, j),
         \/ TagAt(p, i) = TagAt(p, j)
         \/ Barrier(p.records, i) \/ Barrier(p.records, j)
  PROVE  Precedes(p, i, j)
<1>1. PlanInv(p)
  BY DEF PlanSound
<1>2. QED
  BY <1>1, SameTypeKeepsLogOrder, BarrierKeepsEarlier, BarrierKeepsLater

-----------------------------------------------------------------------------
\* The order in which encode_key writes, as a set of pairs.
Writing(p, S) == {e \in S \X S : WrittenBefore(p, e[1], e[2])}

\* It puts the records of a plan in one row.
LEMMA WritingInOneRow ==
  ASSUME NEW p, WellFormed(p), NEW S, S \subseteq Records(p)
  PROVE  InOneRow(S, Writing(p, S))
<1>1. \A x, y \in S : <<x, y>> \in Writing(p, S) <=> WrittenBefore(p, x, y)
  BY DEF Writing
<1>2. ASSUME NEW x \in S
      PROVE  /\ x \in Nat /\ p.segment[x] \in Nat /\ p.records[x].tag \in Nat
             /\ Rank(p, x) \in Nat
  <2>1. Len(p.records) \in Nat /\ x \in 1 .. Len(p.records)
    BY DEF WellFormed, Records
  <2>2. x \in Nat
    BY <2>1
  <2>3. p.segment[x] \in Nat
    BY <2>1 DEF WellFormed
  <2>4. p.records[x] \in Record
    BY <2>1 DEF WellFormed
  <2>5. p.records[x].tag \in Nat
    BY <2>4, PlanAssumption DEF Record, PlanAssumption
  <2>6. Rank(p, x) \in Nat
    BY DEF Rank
  <2>7. QED
    BY <2>2, <2>3, <2>5, <2>6
<1>3. ASSUME NEW x \in S, NEW y \in S, NEW z \in S,
             WrittenBefore(p, x, y), WrittenBefore(p, y, z)
      PROVE  WrittenBefore(p, x, z)
  BY <1>2, <1>3 DEF WrittenBefore, StageBefore, SameStage
<1>4. ASSUME NEW x \in S PROVE ~ WrittenBefore(p, x, x)
  BY <1>2 DEF WrittenBefore, StageBefore, SameStage
<1>5. ASSUME NEW x \in S, NEW y \in S, x # y
      PROVE  WrittenBefore(p, x, y) \/ WrittenBefore(p, y, x)
  BY <1>2, <1>5 DEF WrittenBefore, StageBefore, SameStage
<1>6. QED
  BY <1>1, <1>3, <1>4, <1>5 DEF InOneRow

\* WrittenOrder lists the records of S, each once, in the order of writing.
LEMMA WrittenOrderIs ==
  ASSUME NEW p, WellFormed(p), NEW S, S \subseteq Records(p)
  PROVE  /\ Cardinality(S) \in Nat
         /\ DOMAIN WrittenOrder(p, S) = 1 .. Cardinality(S)
         /\ Len(WrittenOrder(p, S)) = Cardinality(S)
         /\ \A n \in 1 .. Cardinality(S) : WrittenOrder(p, S)[n] \in S
         /\ \A i \in S : \E n \in 1 .. Cardinality(S) : WrittenOrder(p, S)[n] = i
         /\ \A m, n \in 1 .. Cardinality(S) :
              m < n <=> WrittenBefore(p, WrittenOrder(p, S)[m], WrittenOrder(p, S)[n])
<1> DEFINE R == Writing(p, S)
           number(i) == Cardinality({j \in S : WrittenBefore(p, j, i)}) + 1
           o == WrittenOrder(p, S)
<1>1. InOneRow(S, R) /\ \A x, y \in S : <<x, y>> \in R <=> WrittenBefore(p, x, y)
  BY WritingInOneRow DEF Writing
<1>2. IsFiniteSet(S)
  <2>1. 1 \in Int /\ Len(p.records) \in Int
    BY DEF WellFormed
  <2>2. IsFiniteSet(Records(p))
    BY <2>1, FS_Interval DEF Records
  <2>3. QED
    BY <2>2, FS_Subset
<1>3. ASSUME NEW i \in S PROVE number(i) = Cardinality(Below(S, R, i)) + 1
  BY <1>1 DEF Below
<1> HIDE DEF R, number
<1>4. /\ Cardinality(S) \in Nat
      /\ \A x \in S : number(x) \in 1 .. Cardinality(S)
      /\ \A x, y \in S : <<x, y>> \in R <=> number(x) < number(y)
      /\ \A n \in 1 .. Cardinality(S) : \E x \in S : number(x) = n
  BY <1>1, <1>2, <1>3, Numbered
<1>5. o = [n \in 1 .. Cardinality(S) |-> CHOOSE i \in S : number(i) = n]
  BY DEF WrittenOrder, number
<1>6. ASSUME NEW n \in 1 .. Cardinality(S) PROVE o[n] \in S /\ number(o[n]) = n
  BY <1>4, <1>5
<1>7. ASSUME NEW i \in S PROVE \E n \in 1 .. Cardinality(S) : o[n] = i
  <2> DEFINE n == number(i)
  <2>1. n \in 1 .. Cardinality(S)
    BY <1>4
  <2> HIDE DEF n
  <2>2. o[n] \in S /\ number(o[n]) = n
    BY <1>6, <2>1
  <2>3. o[n] = i
    <3>1. n \in Nat /\ ~ (n < n)
      BY <1>4, <2>1
    <3>2. <<o[n], i>> \notin R /\ <<i, o[n]>> \notin R
      BY <1>4, <2>2, <3>1 DEF n
    <3>3. QED
      BY <1>1, <2>2, <3>2 DEF InOneRow
  <2>4. QED
    BY <2>1, <2>3
<1>8. ASSUME NEW m \in 1 .. Cardinality(S), NEW n \in 1 .. Cardinality(S)
      PROVE  m < n <=> WrittenBefore(p, o[m], o[n])
  <2>1. /\ o[m] \in S /\ number(o[m]) = m
        /\ o[n] \in S /\ number(o[n]) = n
    BY <1>6
  <2>2. <<o[m], o[n]>> \in R <=> m < n
    BY <1>4, <2>1
  <2>3. QED
    BY <1>1, <2>1, <2>2
<1>9. DOMAIN o = 1 .. Cardinality(S) /\ Len(o) = Cardinality(S)
  BY <1>4, <1>5
<1>10. QED
  BY <1>4, <1>6, <1>7, <1>8, <1>9

\* What precedes another record is written before it.
LEMMA PrecedingIsWrittenBefore ==
  ASSUME NEW p, NEW i, NEW j, Precedes(p, i, j)
  PROVE  WrittenBefore(p, i, j)
BY DEF Precedes, WrittenBefore, SameRun

\* What encode_key leaves of a record: all but its ordering.
LEMMA EncodingIs ==
  ASSUME NEW p, WellFormed(p), NEW S, S \subseteq Records(p)
  PROVE  /\ Encode(p, S) \in Seq(Record)
         /\ Len(Encode(p, S)) = Cardinality(S) /\ DOMAIN Encode(p, S) = 1 .. Cardinality(S)
         /\ \A n \in 1 .. Cardinality(S) :
              /\ Encode(p, S)[n].key = KeyAt(p, WrittenOrder(p, S)[n])
              /\ Encode(p, S)[n].tag = TagAt(p, WrittenOrder(p, S)[n])
              /\ Encode(p, S)[n].ordering = StageOrdering(p, S, WrittenOrder(p, S)[n])
<1> DEFINE o == WrittenOrder(p, S)
           c == Cardinality(S)
           e == Encode(p, S)
<1>1. /\ c \in Nat /\ Len(o) = c
      /\ \A n \in 1 .. c : o[n] \in S
  BY WrittenOrderIs
<1>2. e = [n \in 1 .. Len(o) |->
             [p.records[o[n]] EXCEPT !.ordering = StageOrdering(p, S, o[n])]]
  BY DEF Encode
<1> HIDE DEF e, o, c
<1>3. ASSUME NEW i \in S PROVE p.records[i] \in Record /\ StageOrdering(p, S, i) \in Ordering
  <2>1. p.records[i] \in Record
    BY DEF WellFormed, Records
  <2>2. StageOrdering(p, S, i) \in Ordering
    BY DEF StageOrdering, Ordering
  <2>3. QED
    BY <2>1, <2>2
<1>4. ASSUME NEW n \in 1 .. c
      PROVE  /\ e[n] \in Record
             /\ e[n].key = KeyAt(p, o[n]) /\ e[n].tag = TagAt(p, o[n])
             /\ e[n].ordering = StageOrdering(p, S, o[n])
  <2>1. o[n] \in S
    BY <1>1
  <2>2. p.records[o[n]] \in Record /\ StageOrdering(p, S, o[n]) \in Ordering
    BY <1>3, <2>1
  <2>3. e[n] = [p.records[o[n]] EXCEPT !.ordering = StageOrdering(p, S, o[n])]
    BY <1>1, <1>2
  <2>4. QED
    BY <2>2, <2>3 DEF Record, KeyAt, TagAt
<1>5. e \in Seq(Record) /\ Len(e) = c /\ DOMAIN e = 1 .. c
  BY <1>1, <1>2, <1>4
<1>6. QED
  BY <1>4, <1>5 DEF e, o, c

\* A record that was a fence is still a barrier in what is written, whatever
\* part of the plan was left unfinished.
LEMMA EncodingKeepsFences ==
  ASSUME NEW p, PlanSound(p), NEW S, S \subseteq Records(p),
         NEW n \in 1 .. Cardinality(S),
         p.records[WrittenOrder(p, S)[n]].ordering # "Relaxed"
  PROVE  Barrier(Encode(p, S), n)
<1> DEFINE o == WrittenOrder(p, S)
           c == Cardinality(S)
           e == Encode(p, S)
<1>1. PlanInv(p) /\ WellFormed(p)
  BY DEF PlanSound, PlanInv
<1>2. /\ c \in Nat
      /\ \A m \in 1 .. c : o[m] \in S
      /\ \A j \in S : \E m \in 1 .. c : o[m] = j
      /\ \A k, m \in 1 .. c : k < m <=> WrittenBefore(p, o[k], o[m])
  BY <1>1, WrittenOrderIs
<1>3. \A m \in 1 .. c : /\ e[m].key = KeyAt(p, o[m]) /\ e[m].tag = TagAt(p, o[m])
                        /\ e[m].ordering = StageOrdering(p, S, o[m])
  BY <1>1, EncodingIs
<1> HIDE DEF e, o, c
<1>4. n \in 1 .. c /\ n \in Nat /\ n \in 1 .. n
  BY <1>2 DEF c
<1> DEFINE i == o[n]
<1>5. i \in S /\ i \in Records(p) /\ p.records[i].ordering # "Relaxed"
  BY <1>2, <1>4 DEF o
<1>6. /\ p.records[i].ordering \in Acquiring \cup {"Release"}
      /\ \A j \in S : j \in Nat /\ p.segment[j] \in Nat
  <2>1. Len(p.records) \in Nat /\ p.records[i] \in Record
    BY <1>1, <1>5 DEF WellFormed, Records
  <2>2. \A j \in S : j \in 1 .. Len(p.records)
    BY DEF Records
  <2>3. \A j \in S : j \in Nat /\ p.segment[j] \in Nat
    BY <1>1, <2>1, <2>2 DEF WellFormed
  <2>4. QED
    BY <1>5, <2>1, <2>3 DEF Record, Ordering, Acquiring
<1> HIDE DEF i
<1>7. CASE p.records[i].ordering \in Acquiring
  <2>1. /\ MetaAt(p, i).head = {TagAt(p, i)}
        /\ \A j \in Records(p) : j < i => p.segment[j] # p.segment[i]
    BY <1>1, <1>5, <1>7 DEF PlanInv, AcquireStarts
  <2>2. Rank(p, i) = 1
    BY <2>1 DEF Rank, MetaAt, TagAt
  <2>3. \A j \in S : SameRun(p, i, j) => i <= j
    BY <1>5, <1>6, <2>1 DEF SameRun, SameStage
  <2>4. e[n].ordering = "Acquire"
    BY <1>3, <1>4, <2>2, <2>3 DEF StageOrdering, i
  <2>5. \A y \in n .. n : y = n
    BY <1>4
  <2>6. \A y \in n + 1 .. n : FALSE
    BY <1>4
  <2>7. Leads(e, n, n)
    BY <1>4, <2>4, <2>5, <2>6 DEF Leads, Acquiring
  <2>8. QED
    BY <1>4, <2>7 DEF Barrier, e
<1>8. ASSUME p.records[i].ordering = "Release" PROVE Barrier(e, n)
  <2>1. /\ MetaAt(p, i).tail = {TagAt(p, i)}
        /\ \A j \in Records(p) : i < j => p.segment[j] # p.segment[i]
        /\ TagAt(p, i) \in MetaAt(p, i).head =>
             \A j \in Records(p) : p.segment[j] = p.segment[i] => TagAt(p, j) = TagAt(p, i)
    BY <1>1, <1>5, <1>8 DEF PlanInv, ReleaseEnds
  <2>2. CASE TagAt(p, i) \notin MetaAt(p, i).head
    <3>1. Rank(p, i) = 3
      BY <2>1, <2>2 DEF Rank, MetaAt, TagAt
    <3>2. \A j \in S : SameRun(p, i, j) => j <= i
      BY <1>5, <1>6, <2>1 DEF SameRun, SameStage
    <3>3. e[n].ordering = "Release"
      BY <1>3, <1>4, <3>1, <3>2 DEF StageOrdering, i
    <3>4. QED
      BY <3>3 DEF Barrier
  <2>3. CASE TagAt(p, i) \in MetaAt(p, i).head
    <3> DEFINE run == {j \in S : p.segment[j] = p.segment[i]}
    <3>1. ASSUME NEW j \in run
          PROVE  /\ j \in S /\ j \in Nat /\ p.segment[j] = p.segment[i]
                 /\ TagAt(p, j) = TagAt(p, i) /\ KeyAt(p, j) = KeyAt(p, i)
                 /\ Rank(p, j) = 1
      <4>1. j \in S /\ j \in Nat /\ j \in Records(p) /\ p.segment[j] = p.segment[i]
        BY <1>6
      <4>2. TagAt(p, j) = TagAt(p, i)
        BY <2>1, <2>3, <4>1
      <4>3. KeyAt(p, j) = KeyAt(p, i)
        BY <1>1, <1>5, <4>1 DEF PlanInv, SegmentsFollowLog
      <4>4. Rank(p, j) = 1
        BY <2>3, <4>1, <4>2 DEF Rank, MetaAt, TagAt
      <4>5. QED
        BY <4>1, <4>2, <4>3, <4>4
    <3>2. \A a, b \in run : SameRun(p, a, b)
      <4>1. ASSUME NEW a \in run, NEW b \in run PROVE SameRun(p, a, b)
        <5>1. p.segment[a] = p.segment[b] /\ TagAt(p, a) = TagAt(p, b) /\ Rank(p, a) = Rank(p, b)
          BY <3>1
        <5>2. QED
          BY <5>1 DEF SameRun, SameStage, TagAt
      <4>2. QED
        BY <4>1
    <3>3. i \in run
      BY <1>5
    <3>4. PICK a \in run : \A j \in run : a <= j
      <4>1. run \subseteq Nat /\ run # {}
        BY <3>1, <3>3
      <4> HIDE DEF run
      <4>2. QED
        BY <4>1, LeastNumber
    <3>5. \A j \in S : SameRun(p, a, j) => j \in run
      BY <3>1 DEF SameRun, SameStage
    <3> HIDE DEF run
    <3>6. a \in S /\ a \in Nat
      BY <3>1
    <3>7. PICK f \in 1 .. c : o[f] = a
      BY <1>2, <3>6
    <3>8. f \in Nat /\ f \in 1 .. n
      <4>1. f \in Nat
        BY <1>2
      <4>2. ~ (n < f)
        <5> SUFFICES ASSUME n < f PROVE FALSE
          OBVIOUS
        <5>1. WrittenBefore(p, i, a)
          BY <1>2, <1>4, <3>7 DEF i
        <5>2. /\ p.segment[i] = p.segment[a] /\ Rank(p, i) = 1 /\ Rank(p, a) = 1
              /\ TagAt(p, i) = TagAt(p, a)
              /\ p.segment[i] \in Nat
          BY <1>5, <1>6, <3>1, <3>3
        <5>3. p.records[i].tag \in Nat
          <6>1. p.records[i] \in Record
            BY <1>1, <1>5 DEF WellFormed, Records
          <6>2. QED
            BY <6>1, PlanAssumption DEF Record, PlanAssumption
        <5>4. i < a
          BY <5>1, <5>2, <5>3 DEF WrittenBefore, StageBefore, SameStage, TagAt
        <5>5. a <= i /\ i \in Nat /\ a \in Nat
          BY <3>1, <3>3, <3>4
        <5>6. QED
          BY <5>4, <5>5
      <4>3. QED
        BY <1>4, <4>1, <4>2
    <3>9. e[f].ordering = "Acquire"
      <4>1. \A j \in S : SameRun(p, a, j) => a <= j
        BY <3>4, <3>5
      <4>2. Rank(p, a) = 1
        BY <3>1
      <4>3. QED
        BY <1>3, <3>7, <4>1, <4>2 DEF StageOrdering
    <3>10. ASSUME NEW y \in f .. n
           PROVE  /\ y \in 1 .. c /\ o[y] \in run
                  /\ e[y].key = KeyAt(p, i) /\ e[y].tag = TagAt(p, i)
      <4>1. y \in 1 .. c /\ y \in Nat /\ f <= y /\ y <= n
        BY <1>2, <1>4, <3>8
      <4>2. o[y] \in S /\ o[y] \in Nat /\ p.segment[o[y]] \in Nat
        BY <1>2, <1>6, <4>1
      <4>3. p.segment[a] <= p.segment[o[y]]
        <5>1. CASE y = f
          BY <3>7, <4>2, <5>1
        <5>2. CASE f < y
          <6>1. WrittenBefore(p, a, o[y])
            BY <1>2, <3>7, <4>1, <5>2
          <6>2. QED
            BY <1>6, <3>6, <4>2, <6>1 DEF WrittenBefore, StageBefore, SameStage
        <5>3. QED
          BY <3>8, <4>1, <5>1, <5>2
      <4>4. p.segment[o[y]] <= p.segment[i]
        <5>1. CASE y = n
          BY <4>2, <5>1 DEF i
        <5>2. CASE y < n
          <6>1. WrittenBefore(p, o[y], i)
            BY <1>2, <1>4, <4>1, <5>2 DEF i
          <6>2. QED
            BY <1>5, <1>6, <4>2, <6>1 DEF WrittenBefore, StageBefore, SameStage
        <5>3. QED
          BY <1>4, <4>1, <5>1, <5>2
      <4>5. p.segment[a] = p.segment[i] /\ p.segment[i] \in Nat
        BY <1>5, <1>6, <3>1
      <4>6. p.segment[o[y]] = p.segment[i]
        BY <4>2, <4>3, <4>4, <4>5
      <4>7. o[y] \in run
        BY <4>2, <4>6 DEF run
      <4>8. QED
        BY <1>3, <3>1, <4>1, <4>7
    <3>11. ASSUME NEW y \in f + 1 .. n PROVE e[y].ordering = "Relaxed"
      <4>1. y \in f .. n /\ f < y /\ y \in 1 .. c
        BY <1>2, <1>4, <3>8
      <4>2. o[y] \in run /\ Rank(p, o[y]) = 1 /\ o[y] \in S /\ o[y] \in Nat
        BY <3>1, <3>10, <4>1
      <4>3. WrittenBefore(p, a, o[y])
        BY <1>2, <3>7, <4>1
      <4>4. a # o[y]
        <5>1. ~ (f < f) /\ f \in 1 .. c
          BY <3>8
        <5>2. ~ WrittenBefore(p, a, a)
          BY <1>2, <3>7, <5>1
        <5>3. QED
          BY <4>3, <5>2
      <4>5. a <= o[y]
        BY <3>4, <4>2
      <4>6. ~ (o[y] <= a)
        BY <3>6, <4>2, <4>4, <4>5
      <4>7. SameRun(p, o[y], a)
        BY <3>2, <4>2
      <4>8. StageOrdering(p, S, o[y]) = "Relaxed"
        BY <3>6, <4>2, <4>6, <4>7 DEF StageOrdering
      <4>9. QED
        BY <1>3, <4>1, <4>8
    <3>12. f \in f .. n
      BY <1>4, <3>8
    <3>13. Leads(e, f, n)
      BY <3>8, <3>9, <3>10, <3>11, <3>12 DEF Leads, Acquiring
    <3>14. QED
      BY <3>8, <3>13 DEF Barrier
  <2>4. QED
    BY <2>2, <2>3
<1>9. QED
  BY <1>6, <1>7, <1>8 DEF e
=============================================================================
