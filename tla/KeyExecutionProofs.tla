------------------------- MODULE KeyExecutionProofs -------------------------
(***************************************************************************)
(* Theorems about KeyExecution, for any number of events, types and        *)
(* orderings, any sizes of batches, and any crashes: no event is settled   *)
(* before one that must precede it, and none is forgotten.                 *)
(*                                                                         *)
(* Neither is inductive.  What carries them is a promise about every       *)
(* record of the retry partition: the events that must precede its own are *)
(* settled or have a record before it (OrderWritten), and a record of an   *)
(* unsettled event with a fence is still a fence where it will be planned, *)
(* which it is on its own or by an acquiring record that leads it and has  *)
(* not left the pending records either (FencesWritten).                    *)
(***************************************************************************)
EXTENDS KeyExecution, PlanProofs

Headers(R) == [x \in 1 .. Len(R) |-> R[x].header]

\* An event that is settled or has a retry record.
Kept(e, R, st) == e \in st \/ \E p \in 1 .. Len(R) : R[p].event = e

\* A retry record that is pending, or that the cursor has not reached.
Waits(f, pend, next) == f \in pend \/ f > next

FencesWritten(lg, R, st, pend, next) ==
  \A x \in 1 .. Len(R) :
    /\ R[x].header.tag = lg[R[x].event].tag
    /\ R[x].event \notin st /\ lg[R[x].event].ordering # "Relaxed" =>
         \/ R[x].header.ordering = "Release"
         \/ \E f \in 1 .. x : Leads(Headers(R), f, x) /\ Waits(f, pend, next)

OrderWritten(lg, R, st) ==
  \A x \in 1 .. Len(R) : \A d \in 1 .. R[x].event - 1 :
    Demand(lg[d], lg[R[x].event]) => d \in st \/ \E p \in 1 .. x - 1 : R[p].event = d

PendingKept(R, st, pend, next) ==
  \A x \in 1 .. next : x \in pend \/ R[x].event \in st

CommittedKept(R, st, main) == \A e \in 1 .. main : Kept(e, R, st)

SettledInOrder(lg, st) ==
  \A e \in st : \A d \in 1 .. e - 1 : Demand(lg[d], lg[e]) => d \in st

\* The parts about the retry partition and the cursors.
RetryPart(lg, R, st, pend, next, main) ==
  /\ FencesWritten(lg, R, st, pend, next)
  /\ OrderWritten(lg, R, st)
  /\ PendingKept(R, st, pend, next)
  /\ CommittedKept(R, st, main)

\* The log, the retry partition and what is settled.
LogTypes(lg, R, st) ==
  /\ lg \in Seq(Record)
  /\ R \in Seq([event : 1 .. Len(lg), header : Record])
  /\ st \subseteq 1 .. Len(lg)

\* An attempt plans all pending records in the order of the partition.
AttemptWork(R, st, pend, its, pl, left) ==
  /\ \A i, j \in 1 .. Len(its) : i < j => its[i] < its[j]
  /\ \A i \in 1 .. Len(its) : its[i] \in pend
  /\ \A x \in pend : \E i \in 1 .. Len(its) : its[i] = x
  /\ \A i \in 1 .. Len(its) : pl.records[i] = R[its[i]].header
  /\ \A i \in (1 .. Len(its)) \ left : R[its[i]].event \in st

\* A batch is what follows the main cursor.
BatchWork(lg, st, main, its, pl, left) ==
  /\ main + Len(its) <= Len(lg)
  /\ \A i \in 1 .. Len(its) : its[i] = main + i /\ pl.records[i] = lg[main + i]
  /\ \A i \in (1 .. Len(its)) \ left : its[i] \in st

\* Whatever is worked on has a sound plan.
PlannedWork(its, pl, left) ==
  /\ PlanSound(pl) /\ Len(pl.records) = Len(its)
  /\ left \subseteq 1 .. Len(its)

\* All that is known of an attempt, and of a batch.
AttemptOf(lg, R, st, pend, main, its, pl, left) ==
  /\ LogTypes(lg, R, st) /\ its \in Seq(Nat) /\ pend \subseteq 1 .. Len(R)
  /\ RetryPart(lg, R, st, pend, Len(R), main)
  /\ PlannedWork(its, pl, left) /\ AttemptWork(R, st, pend, its, pl, left)

BatchOf(lg, R, st, main, its, pl, left) ==
  /\ LogTypes(lg, R, st) /\ its \in Seq(Nat) /\ main \in Nat
  /\ PlannedWork(its, pl, left) /\ BatchWork(lg, st, main, its, pl, left)

KeyInv ==
  /\ TypeOK /\ items \in Seq(Nat)
  /\ pc \notin {"drain", "store"} => retryNext = Len(retryLog)
  /\ RetryPart(log, retryLog, settled, pending, retryNext, mainNext)
  /\ SettledInOrder(log, settled)
  /\ PlannedWork(items, plan, todo)
  /\ pc = "attempt" => AttemptWork(retryLog, settled, pending, items, plan, todo)
  /\ pc \in {"plan", "execute"} => BatchWork(log, settled, mainNext, items, plan, todo)
  /\ pc = "execute" => pending = {}
  /\ pc = "store" => /\ mainNext + Len(items) <= Len(log)
                     /\ CommittedKept(retryLog, settled, mainNext + Len(items))
-----------------------------------------------------------------------------
\* Records that stand at other places, side by side as before, are led as before.
LEMMA LeadsShifted ==
  ASSUME NEW a, NEW b, NEW L \in Nat, NEW x \in Nat, NEW f \in 1 .. x, Leads(a, f, x),
         \A y \in 1 .. x : b[L + y] = a[y]
  PROVE  Leads(b, L + f, L + x)
<1>1. f \in Nat /\ 1 <= f /\ f <= x
  OBVIOUS
<1>2. L + f \in 1 .. L + x /\ b[L + f] = a[f]
  BY <1>1
<1>3. ASSUME NEW y \in L + f .. L + x PROVE b[y] = a[y - L] /\ y - L \in f .. x
  <2>1. y - L \in 1 .. x /\ y - L \in f .. x /\ L + (y - L) = y
    BY <1>1
  <2>2. QED
    BY <2>1
<1>4. \A y \in L + f + 1 .. L + x : y \in L + f .. L + x /\ y - L \in f + 1 .. x
  BY <1>1
<1>5. QED
  BY <1>2, <1>3, <1>4 DEF Leads

\* Of the records that another one leads, those that are picked out in order are
\* led by it still, when it is one of them.
LEMMA LeadsPicked ==
  ASSUME NEW a, NEW b, NEW s \in Seq(Nat),
         \A i, j \in 1 .. Len(s) : i < j => s[i] < s[j],
         \A i \in 1 .. Len(s) : b[i] = a[s[i]],
         NEW k \in 1 .. Len(s), NEW n \in 1 .. Len(s), s[k] \in 1 .. s[n], Leads(a, s[k], s[n])
  PROVE  k \in 1 .. n /\ Leads(b, k, n)
<1>1. Len(s) \in Nat /\ \A i \in 1 .. Len(s) : s[i] \in Nat
  OBVIOUS
<1>2. k \in 1 .. n
  <2>1. ~ (n < k)
    <3>1. n < k => s[n] < s[k]
      OBVIOUS
    <3>2. s[k] <= s[n] /\ s[k] \in Nat /\ s[n] \in Nat
      BY <1>1
    <3>3. QED
      BY <3>1, <3>2
  <2>2. QED
    BY <1>1, <2>1
<1>3. ASSUME NEW y \in k .. n PROVE b[y] = a[s[y]] /\ s[y] \in s[k] .. s[n]
  <2>1. y \in 1 .. Len(s) /\ (y = k \/ k < y) /\ (y = n \/ y < n)
    BY <1>1, <1>2
  <2>2. s[y] \in Nat /\ s[k] \in Nat /\ s[n] \in Nat
    BY <1>1, <2>1
  <2>3. s[k] <= s[y] /\ s[y] <= s[n]
    BY <2>1, <2>2
  <2>4. QED
    BY <2>1, <2>2, <2>3
<1>4. ASSUME NEW y \in k + 1 .. n PROVE y \in k .. n /\ s[y] \in s[k] + 1 .. s[n]
  <2>1. y \in k .. n /\ y \in 1 .. Len(s) /\ k < y
    BY <1>1, <1>2
  <2>2. s[k] < s[y] /\ s[y] \in s[k] .. s[n] /\ s[k] \in Nat /\ s[y] \in Nat /\ s[n] \in Nat
    BY <1>1, <1>3, <2>1
  <2>3. QED
    BY <2>1, <2>2
<1>5. b[k] = a[s[k]] /\ b[k].ordering \in Acquiring
  BY DEF Leads
<1>6. ASSUME NEW y \in k .. n PROVE b[y].key = b[k].key /\ b[y].tag = b[k].tag
  <2>1. \A z \in s[k] .. s[n] : a[z].key = a[s[k]].key /\ a[z].tag = a[s[k]].tag
    BY DEF Leads
  <2>2. b[y] = a[s[y]] /\ s[y] \in s[k] .. s[n]
    BY <1>3
  <2>3. a[s[y]].key = a[s[k]].key /\ a[s[y]].tag = a[s[k]].tag
    BY <2>1, <2>2
  <2>4. b[y].key = a[s[y]].key /\ b[y].tag = a[s[y]].tag /\ b[k].key = a[s[k]].key /\ b[k].tag = a[s[k]].tag
    BY <1>5, <2>2
  <2>5. QED
    BY <2>3, <2>4
<1>7. \A y \in k + 1 .. n : b[y].ordering = "Relaxed"
  BY <1>3, <1>4 DEF Leads
<1>8. QED
  BY ONLY <1>2, <1>5, <1>6, <1>7 DEF Leads

\* The retry partition as it was, with more events settled.
LEMMA SettlingKeepsRetry ==
  ASSUME NEW lg, NEW R, NEW st, NEW st2, NEW pend, NEW next, NEW main,
         RetryPart(lg, R, st, pend, next, main), st \subseteq st2
  PROVE  RetryPart(lg, R, st2, pend, next, main)
<1>1. FencesWritten(lg, R, st2, pend, next)
  BY DEF RetryPart, FencesWritten
<1>2. OrderWritten(lg, R, st2)
  BY DEF RetryPart, OrderWritten
<1>3. PendingKept(R, st2, pend, next)
  BY DEF RetryPart, PendingKept
<1>4. CommittedKept(R, st2, main)
  BY DEF RetryPart, CommittedKept, Kept
<1>5. QED
  BY <1>1, <1>2, <1>3, <1>4 DEF RetryPart

\* What is recorded is published.
LEMMA RecordsArePublished ==
  ASSUME NEW lg, NEW R, NEW st, LogTypes(lg, R, st)
  PROVE  /\ Len(lg) \in Nat /\ Len(R) \in Nat
         /\ \A e \in 1 .. Len(lg) : lg[e] \in Record
         /\ \A x \in 1 .. Len(R) :
              /\ R[x].event \in 1 .. Len(lg) /\ R[x].event \in Nat
              /\ R[x].header \in Record
              /\ \A d \in 1 .. R[x].event - 1 : d \in 1 .. Len(lg) /\ d \in Nat
<1> DEFINE Entry == [event : 1 .. Len(lg), header : Record]
<1>0. \A r \in Entry : r.event \in 1 .. Len(lg) /\ r.header \in Record
  OBVIOUS
<1>1. lg \in Seq(Record) /\ R \in Seq(Entry)
  BY DEF LogTypes
<1> HIDE DEF Entry
<1>2. Len(lg) \in Nat /\ Len(R) \in Nat /\ \A e \in 1 .. Len(lg) : lg[e] \in Record
  BY <1>1
<1>3. ASSUME NEW x \in 1 .. Len(R)
      PROVE  /\ R[x].event \in 1 .. Len(lg) /\ R[x].event \in Nat
             /\ R[x].header \in Record
             /\ \A d \in 1 .. R[x].event - 1 : d \in 1 .. Len(lg) /\ d \in Nat
  <2>1. R[x] \in Entry
    BY <1>1
  <2>2. R[x].event \in 1 .. Len(lg) /\ R[x].header \in Record
    BY <1>0, <2>1
  <2>3. QED
    BY <1>2, <2>2
<1>4. QED
  BY <1>2, <1>3

\* New events are in nobody's way.
LEMMA PublishKeepsRetry ==
  ASSUME NEW lg, NEW lg2, NEW R, NEW st, NEW pend, NEW next, NEW main,
         LogTypes(lg, R, st), RetryPart(lg, R, st, pend, next, main),
         \A e \in 1 .. Len(lg) : lg2[e] = lg[e]
  PROVE  RetryPart(lg2, R, st, pend, next, main)
<1>1. ASSUME NEW x \in 1 .. Len(R)
      PROVE  /\ R[x].event \in 1 .. Len(lg)
             /\ \A d \in 1 .. R[x].event - 1 : d \in 1 .. Len(lg)
  BY RecordsArePublished
<1>2. FencesWritten(lg2, R, st, pend, next)
  BY <1>1 DEF RetryPart, FencesWritten
<1>3. OrderWritten(lg2, R, st)
  BY <1>1 DEF RetryPart, OrderWritten
<1>4. QED
  BY <1>2, <1>3 DEF RetryPart

LEMMA PublishKeepsOrder ==
  ASSUME NEW lg, NEW lg2, NEW R, NEW st, LogTypes(lg, R, st), SettledInOrder(lg, st),
         \A e \in 1 .. Len(lg) : lg2[e] = lg[e]
  PROVE  SettledInOrder(lg2, st)
<1>1. ASSUME NEW e \in st
      PROVE  e \in 1 .. Len(lg) /\ \A d \in 1 .. e - 1 : d \in 1 .. Len(lg)
  <2>1. Len(lg) \in Nat /\ e \in 1 .. Len(lg)
    BY DEF LogTypes
  <2>2. QED
    BY <2>1
<1>2. QED
  BY <1>1 DEF SettledInOrder

\* Records leave the pending ones when their events are settled, and when the
\* records they lead are settled too; the cursor may go back over the former.
LEMMA LeavingKeepsRetry ==
  ASSUME NEW lg, NEW R, NEW st, NEW pend, NEW next, NEW main,
         NEW pend2, NEW next2, NEW main2,
         RetryPart(lg, R, st, pend, next, main),
         \A x \in 1 .. next2 : x \in 1 .. next /\ (x \in pend => x \in pend2 \/ R[x].event \in st),
         \A x \in 1 .. Len(R) : \A f \in 1 .. x :
           (R[x].event \notin st /\ Leads(Headers(R), f, x) /\ Waits(f, pend, next)) => Waits(f, pend2, next2),
         \A e \in 1 .. main2 : e \in 1 .. main
  PROVE  RetryPart(lg, R, st, pend2, next2, main2)
<1>1. FencesWritten(lg, R, st, pend2, next2)
  BY DEF RetryPart, FencesWritten
<1>2. PendingKept(R, st, pend2, next2)
  BY DEF RetryPart, PendingKept
<1>3. CommittedKept(R, st, main2)
  BY DEF RetryPart, CommittedKept
<1>4. QED
  BY <1>1, <1>2, <1>3 DEF RetryPart

\* The retry partition is read to its end.
LEMMA DrainKeepsRetry ==
  ASSUME NEW lg, NEW R, NEW st, NEW pend, NEW next \in Nat, NEW main,
         R \in Seq([event : 1 .. Len(lg), header : Record]), next <= Len(R),
         RetryPart(lg, R, st, pend, next, main)
  PROVE  RetryPart(lg, R, st, pend \cup (next + 1 .. Len(R)), Len(R), main)
<1> DEFINE pend2 == pend \cup (next + 1 .. Len(R))
<1>1. Len(R) \in Nat
  OBVIOUS
<1>2. FencesWritten(lg, R, st, pend2, Len(R))
  <2>1. ASSUME NEW x \in 1 .. Len(R), NEW f \in 1 .. x, Waits(f, pend, next)
        PROVE  Waits(f, pend2, Len(R))
    <3>1. f \in Nat /\ f <= Len(R)
      BY <1>1
    <3>2. QED
      BY <1>1, <2>1, <3>1 DEF Waits
  <2> HIDE DEF pend2
  <2>2. QED
    BY <2>1 DEF RetryPart, FencesWritten
<1>3. PendingKept(R, st, pend2, Len(R))
  <2>1. \A x \in 1 .. Len(R) : x \in 1 .. next \/ x \in next + 1 .. Len(R)
    BY <1>1
  <2>2. QED
    BY <2>1 DEF RetryPart, PendingKept
<1>4. QED
  BY <1>2, <1>3 DEF RetryPart

-----------------------------------------------------------------------------
\* What must precede an event of the attempt, and is not settled, is in the
\* attempt and precedes it there.
LEMMA AttemptOrder ==
  ASSUME NEW lg, NEW R, NEW st, NEW pend, NEW main, NEW its, NEW pl, NEW left,
         AttemptOf(lg, R, st, pend, main, its, pl, left),
         NEW i \in 1 .. Len(its), R[its[i]].event \notin st,
         NEW d \in 1 .. R[its[i]].event - 1, Demand(lg[d], lg[R[its[i]].event]), d \notin st
  PROVE  \E k \in left : R[its[k]].event = d /\ Precedes(pl, k, i)
<1>0. /\ LogTypes(lg, R, st) /\ RetryPart(lg, R, st, pend, Len(R), main)
      /\ pend \subseteq 1 .. Len(R) /\ its \in Seq(Nat)
      /\ PlannedWork(its, pl, left) /\ AttemptWork(R, st, pend, its, pl, left)
  BY DEF AttemptOf
<1> USE <1>0
<1> DEFINE x == its[i]
           e == R[x].event
<1>1. x \in pend /\ x \in 1 .. Len(R) /\ x \in Nat /\ Len(R) \in Nat /\ Len(its) \in Nat
  BY RecordsArePublished DEF AttemptWork
<1>2. /\ Len(lg) \in Nat /\ e \in 1 .. Len(lg) /\ e \in Nat /\ d \in 1 .. Len(lg) /\ d \in Nat
  BY <1>1, RecordsArePublished
<1>3. PICK p \in 1 .. x - 1 : R[p].event = d
  BY <1>1 DEF RetryPart, OrderWritten
<1>4. p \in 1 .. Len(R) /\ p \in Nat /\ p < x
  BY <1>1, <1>3
<1>5. p \in pend
  BY <1>3, <1>4 DEF RetryPart, PendingKept
<1>6. PICK k \in 1 .. Len(its) : its[k] = p
  BY <1>5 DEF AttemptWork
<1>7. k \in left /\ k < i
  <2>1. k \in left
    BY <1>3, <1>6 DEF AttemptWork
  <2>2. k \in Nat /\ i \in Nat /\ ~ (i < k) /\ i # k
    <3>1. i < k => its[i] < its[k]
      BY DEF AttemptWork
    <3>2. k \in Nat /\ i \in Nat
      BY <1>1
    <3>3. QED
      BY <1>1, <1>4, <1>6, <3>1, <3>2
  <2>3. QED
    BY <2>1, <2>2
<1>8. /\ PlanSound(pl) /\ Len(pl.records) = Len(its)
      /\ pl.records[k] = R[p].header /\ pl.records[i] = R[x].header
      /\ k \in Records(pl) /\ i \in Records(pl)
  BY <1>6 DEF PlannedWork, AttemptWork, Records
\* A fence of the attempt is a barrier of its plan.
<1>9. ASSUME NEW n \in 1 .. Len(its), R[its[n]].event \notin st,
             lg[R[its[n]].event].ordering # "Relaxed"
      PROVE  Barrier(pl.records, n)
  <2>1. its[n] \in 1 .. Len(R) /\ its[n] \in pend
    BY DEF AttemptWork
  <2>2. pl.records[n] = R[its[n]].header
    BY DEF AttemptWork
  <2>3. CASE R[its[n]].header.ordering = "Release"
    BY <2>2, <2>3 DEF Barrier
  <2>4. ASSUME NEW f \in 1 .. its[n], Leads(Headers(R), f, its[n]), Waits(f, pend, Len(R))
        PROVE  Barrier(pl.records, n)
    <3>1. f \in pend
      <4>1. its[n] \in Nat /\ its[n] <= Len(R) /\ f <= its[n] /\ f \in Nat
        BY <1>1, <2>1
      <4>2. ~ (f > Len(R))
        BY <1>1, <4>1
      <4>3. QED
        BY <2>4, <4>2 DEF Waits
    <3>2. PICK a \in 1 .. Len(its) : its[a] = f
      BY <3>1 DEF AttemptWork
    <3>3. \A m \in 1 .. Len(its) : pl.records[m] = Headers(R)[its[m]]
      <4>1. \A m \in 1 .. Len(its) : its[m] \in 1 .. Len(R)
        BY DEF AttemptWork
      <4>2. QED
        BY <4>1 DEF AttemptWork, Headers
    <3>4. \A m, o \in 1 .. Len(its) : m < o => its[m] < its[o]
      BY DEF AttemptWork
    <3> DEFINE hs == Headers(R)
               rs == pl.records
    <3> HIDE DEF hs, rs
    <3>5. /\ \A m \in 1 .. Len(its) : rs[m] = hs[its[m]]
          /\ its[a] \in 1 .. its[n] /\ Leads(hs, its[a], its[n])
      BY <2>4, <3>2, <3>3 DEF hs, rs
    <3>6. a \in 1 .. n /\ Leads(rs, a, n)
      BY <3>4, <3>5, LeadsPicked
    <3>7. QED
      BY <3>6 DEF Barrier, rs
  <2>5. QED
    BY <1>9, <2>1, <2>3, <2>4 DEF RetryPart, FencesWritten
<1>10. \/ TagAt(pl, k) = TagAt(pl, i)
       \/ Barrier(pl.records, k) \/ Barrier(pl.records, i)
  <2>1. R[p].header.tag = lg[d].tag /\ R[x].header.tag = lg[e].tag
    BY <1>1, <1>3, <1>4 DEF RetryPart, FencesWritten
  <2>2. lg[d].ordering # "Relaxed" => Barrier(pl.records, k)
    BY <1>3, <1>6, <1>9
  <2>3. lg[e].ordering # "Relaxed" => Barrier(pl.records, i)
    BY <1>9
  <2>4. QED
    BY <1>8, <2>1, <2>2, <2>3 DEF Demand, TagAt
<1>11. KeyAt(pl, k) = KeyAt(pl, i)
  <2>1. R[p].header \in Record /\ R[x].header \in Record
    BY <1>1, <1>4, RecordsArePublished
  <2>2. R[p].header.key \in Key /\ R[x].header.key \in Key
    BY <2>1 DEF Record
  <2>3. QED
    BY <1>8, <2>2, ExecutionAssumption DEF KeyAt, ExecutionAssumption
<1>12. Precedes(pl, k, i)
  BY <1>7, <1>8, <1>10, <1>11, BarriersKeepDemand
<1>13. QED
  BY <1>3, <1>6, <1>7, <1>12

\* What must precede an event of a batch whose key is not quarantined, and is not
\* settled, is in the batch and precedes it there.
LEMMA BatchOrder ==
  ASSUME NEW lg, NEW R, NEW st, NEW main, NEW its, NEW pl, NEW left,
         BatchOf(lg, R, st, main, its, pl, left),
         NEW i \in 1 .. Len(its), NEW d \in 1 .. its[i] - 1, d > main,
         Demand(lg[d], lg[its[i]]), d \notin st
  PROVE  \E k \in left : its[k] = d /\ Precedes(pl, k, i)
<1>0. /\ LogTypes(lg, R, st) /\ main \in Nat /\ its \in Seq(Nat)
      /\ PlannedWork(its, pl, left) /\ BatchWork(lg, st, main, its, pl, left)
  BY DEF BatchOf
<1> USE <1>0
<1>1. Len(its) \in Nat /\ Len(lg) \in Nat /\ main + Len(its) <= Len(lg) /\ i \in Nat
  BY RecordsArePublished DEF BatchWork
<1>2. its[i] = main + i /\ pl.records[i] = lg[main + i]
  BY DEF BatchWork
<1> DEFINE k == d - main
<1>3. k \in 1 .. Len(its) /\ k < i /\ main + k = d
  BY <1>1, <1>2
<1> HIDE DEF k
<1>4. its[k] = d /\ pl.records[k] = lg[d] /\ k \in left
  BY <1>3 DEF BatchWork
<1>5. /\ PlanSound(pl) /\ k \in Records(pl) /\ i \in Records(pl)
  BY <1>3 DEF PlannedWork, Records
<1>6. KeyAt(pl, k) = KeyAt(pl, i)
  <2>1. d \in 1 .. Len(lg) /\ main + i \in 1 .. Len(lg)
    BY <1>1, <1>3
  <2>2. lg[d] \in Record /\ lg[main + i] \in Record
    BY <2>1, RecordsArePublished
  <2>3. lg[d].key \in Key /\ lg[main + i].key \in Key
    BY <2>2 DEF Record
  <2>4. QED
    BY <1>2, <1>4, <2>3, ExecutionAssumption DEF KeyAt, ExecutionAssumption
<1>7. Demand(pl.records[k], pl.records[i])
  BY <1>2, <1>4
<1>8. Precedes(pl, k, i)
  BY <1>3, <1>5, <1>6, <1>7, PlanKeepsDemand
<1>9. QED
  BY <1>4, <1>8

-----------------------------------------------------------------------------
\* What is written for the indices S of a batch.
WrittenOf(its, pl, S) ==
  [n \in 1 .. Cardinality(S) |->
     [event |-> its[WrittenOrder(pl, S)[n]], header |-> Encode(pl, S)[n]]]

\* R2 is R with that behind it.
Appended(lg, R, R2, its, pl, S) ==
  /\ R2 \in Seq([event : 1 .. Len(lg), header : Record])
  /\ Len(R2) = Len(R) + Cardinality(S)
  /\ \A x \in 1 .. Len(R) : R2[x] = R[x]
  /\ \A n \in 1 .. Cardinality(S) :
       /\ R2[Len(R) + n].event = its[WrittenOrder(pl, S)[n]]
       /\ R2[Len(R) + n].header = Encode(pl, S)[n]

\* Two sequences, one behind the other.
LEMMA JoinedIs ==
  ASSUME NEW E, NEW a \in Seq(E), NEW b \in Seq(E)
  PROVE  /\ a \o b \in Seq(E) /\ Len(a \o b) = Len(a) + Len(b)
         /\ \A x \in 1 .. Len(a) : (a \o b)[x] = a[x]
         /\ \A n \in 1 .. Len(b) : (a \o b)[Len(a) + n] = b[n]
OBVIOUS

\* What is written for a batch goes to the end of the retry partition.
LEMMA WritingAppends ==
  ASSUME NEW lg, NEW R, NEW st, LogTypes(lg, R, st), NEW main \in Nat,
         NEW its \in Seq(Nat), NEW pl, NEW left, PlannedWork(its, pl, left),
         BatchWork(lg, st, main, its, pl, left)
  PROVE  Appended(lg, R, R \o WrittenOf(its, pl, left), its, pl, left)
<1> DEFINE o == WrittenOrder(pl, left)
           c == Cardinality(left)
           e == Encode(pl, left)
           W == WrittenOf(its, pl, left)
           Entry == [event : 1 .. Len(lg), header : Record]
<1>1. /\ WellFormed(pl) /\ left \subseteq Records(pl)
      /\ left \subseteq 1 .. Len(its) /\ Len(its) \in Nat
  BY DEF PlannedWork, PlanSound, PlanInv, Records
<1>2. c \in Nat /\ \A n \in 1 .. c : o[n] \in left
  BY <1>1, WrittenOrderIs
<1>3. e \in Seq(Record) /\ Len(e) = c
  BY <1>1, EncodingIs
<1>4. W = [n \in 1 .. c |-> [event |-> its[o[n]], header |-> e[n]]]
  BY DEF WrittenOf
<1>5. Len(lg) \in Nat /\ main + Len(its) <= Len(lg)
  BY RecordsArePublished DEF BatchWork
<1> HIDE DEF o, c, e, W
<1>6. ASSUME NEW n \in 1 .. c PROVE [event |-> its[o[n]], header |-> e[n]] \in Entry
  <2>1. o[n] \in left
    BY <1>2
  <2>2. o[n] \in 1 .. Len(its) /\ o[n] \in Nat
    <3>1. o[n] \in 1 .. Len(its)
      BY <1>1, <2>1
    <3>2. QED
      BY <1>1, <3>1
  <2>3. its[o[n]] = main + o[n]
    BY <2>2 DEF BatchWork
  <2>4. main + o[n] \in 1 .. Len(lg)
    BY <1>1, <1>5, <2>2
  <2>5. e[n] \in Record
    BY <1>3
  <2>6. QED
    BY <2>3, <2>4, <2>5
<1>7. R \in Seq(Entry)
  BY DEF LogTypes
<1> HIDE DEF Entry
<1>8. W \in Seq(Entry) /\ Len(W) = c /\ \A n \in 1 .. c : W[n] = [event |-> its[o[n]], header |-> e[n]]
  BY <1>2, <1>4, <1>6
<1>9. /\ R \o W \in Seq(Entry) /\ Len(R \o W) = Len(R) + Len(W)
      /\ \A x \in 1 .. Len(R) : (R \o W)[x] = R[x]
      /\ \A n \in 1 .. Len(W) : (R \o W)[Len(R) + n] = W[n]
  <2>1. W \in Seq(Entry)
    BY <1>8
  <2>2. QED
    BY <1>7, <2>1, JoinedIs
<1> DEFINE R2 == R \o W
<1> HIDE DEF R2
<1>12. /\ R2 \in Seq(Entry) /\ Len(R2) = Len(R) + c
       /\ \A x \in 1 .. Len(R) : R2[x] = R[x]
       /\ \A n \in 1 .. c : R2[Len(R) + n].event = its[o[n]] /\ R2[Len(R) + n].header = e[n]
  BY <1>8, <1>9 DEF R2
<1>13. QED
  BY <1>12 DEF Appended, R2, W, Entry, o, c, e

\* Writing what is left of a batch keeps every event of it, and the promises
\* about the records.
LEMMA WritingKeepsRetry ==
  ASSUME NEW lg, NEW R, NEW st, LogTypes(lg, R, st), NEW pend, NEW main \in Nat,
         RetryPart(lg, R, st, pend, Len(R), main),
         NEW its \in Seq(Nat), NEW pl, NEW left, PlannedWork(its, pl, left),
         BatchWork(lg, st, main, its, pl, left),
         NEW R2, Appended(lg, R, R2, its, pl, left)
  PROVE  /\ LogTypes(lg, R2, st) /\ Len(R) <= Len(R2)
         /\ RetryPart(lg, R2, st, pend, Len(R), main)
         /\ CommittedKept(R2, st, main + Len(its))
<1> DEFINE o == WrittenOrder(pl, left)
           c == Cardinality(left)
           e == Encode(pl, left)
           L == Len(R)
<1>1. /\ PlanSound(pl) /\ WellFormed(pl) /\ left \subseteq Records(pl)
      /\ left \subseteq 1 .. Len(its) /\ Len(its) \in Nat
  BY DEF PlannedWork, PlanSound, PlanInv, Records
<1>2. /\ c \in Nat
      /\ \A n \in 1 .. c : o[n] \in left
      /\ \A j \in left : \E n \in 1 .. c : o[n] = j
      /\ \A m, n \in 1 .. c : m < n <=> WrittenBefore(pl, o[m], o[n])
  BY <1>1, WrittenOrderIs
<1>3. /\ e \in Seq(Record) /\ Len(e) = c
      /\ \A n \in 1 .. c : e[n].tag = TagAt(pl, o[n])
  BY <1>1, EncodingIs
<1>4. \A n \in 1 .. c : pl.records[o[n]].ordering # "Relaxed" => Barrier(e, n)
  BY <1>1, EncodingKeepsFences
<1>6. L \in Nat /\ Len(lg) \in Nat /\ main + Len(its) <= Len(lg)
  BY RecordsArePublished DEF BatchWork
<1>10. /\ Len(R2) = L + c
       /\ \A x \in 1 .. L : R2[x] = R[x]
       /\ \A n \in 1 .. c : R2[L + n].event = its[o[n]] /\ R2[L + n].header = e[n]
  BY DEF Appended
<1> HIDE DEF o, c, e
<1>8. ASSUME NEW n \in 1 .. c
      PROVE  /\ o[n] \in left /\ o[n] \in 1 .. Len(its)
             /\ R2[L + n].event = main + o[n] /\ main + o[n] \in 1 .. Len(lg)
             /\ R2[L + n].event = its[o[n]] /\ R2[L + n].header = e[n]
             /\ pl.records[o[n]] = lg[main + o[n]]
  <2>1. o[n] \in left
    BY <1>2
  <2>2. o[n] \in 1 .. Len(its) /\ o[n] \in Nat
    <3>1. o[n] \in 1 .. Len(its)
      BY <1>1, <2>1
    <3>2. QED
      BY <1>1, <3>1
  <2>3. its[o[n]] = main + o[n] /\ pl.records[o[n]] = lg[main + o[n]]
    BY <2>2 DEF BatchWork
  <2>4. main + o[n] \in 1 .. Len(lg)
    BY <1>1, <1>6, <2>2
  <2>5. QED
    BY <1>10, <2>1, <2>2, <2>3, <2>4
<1>11. LogTypes(lg, R2, st)
  BY DEF LogTypes, Appended
<1> HIDE DEF L
<1>12. ASSUME NEW x \in 1 .. Len(R2)
       PROVE  x \in 1 .. L \/ \E n \in 1 .. c : x = L + n
  <2>1. x \in Nat /\ 1 <= x /\ x <= L + c
    BY <1>2, <1>6, <1>10
  <2>2. CASE x <= L
    BY <1>6, <2>1, <2>2
  <2>3. CASE L < x
    <3>1. x - L \in 1 .. c /\ x = L + (x - L)
      BY <1>2, <1>6, <2>1, <2>3
    <3>2. QED
      BY <3>1
  <2>4. QED
    BY <1>6, <2>1, <2>2, <2>3
<1>13. \A y \in 1 .. L : Headers(R)[y] = R[y].header /\ Headers(R2)[y] = R[y].header
  <2>1. \A y \in 1 .. L : y \in 1 .. Len(R2)
    BY <1>2, <1>6, <1>10
  <2>2. QED
    BY <1>10, <2>1 DEF Headers, L
<1>14. \A n \in 1 .. c : Headers(R2)[L + n] = e[n]
  <2>1. \A n \in 1 .. c : L + n \in 1 .. Len(R2)
    BY <1>2, <1>6, <1>10
  <2>2. QED
    BY <1>8, <1>10, <2>1 DEF Headers
<1>15. FencesWritten(lg, R2, st, pend, L)
  <2>1. ASSUME NEW x \in 1 .. L
        PROVE  /\ R2[x].header.tag = lg[R2[x].event].tag
               /\ R2[x].event \notin st /\ lg[R2[x].event].ordering # "Relaxed" =>
                    \/ R2[x].header.ordering = "Release"
                    \/ \E f \in 1 .. x : Leads(Headers(R2), f, x) /\ Waits(f, pend, L)
    <3>1. ASSUME NEW f \in 1 .. x, Leads(Headers(R), f, x) PROVE Leads(Headers(R2), f, x)
      <4> DEFINE a == Headers(R)
                 b == Headers(R2)
      <4>1. \A y \in 1 .. x : b[0 + y] = a[y]
        <5>1. ASSUME NEW y \in 1 .. x PROVE y \in 1 .. L /\ 0 + y = y
          BY <1>6
        <5>2. QED
          BY <1>13, <5>1
      <4>2. x \in Nat /\ f \in Nat /\ 0 + x = x /\ 0 + f = f /\ 0 \in Nat
        BY <1>6
      <4> HIDE DEF a, b
      <4>3. Leads(b, 0 + f, 0 + x)
        BY <3>1, <4>1, <4>2, LeadsShifted DEF a
      <4>4. QED
        BY <4>2, <4>3 DEF b
    <3>2. R2[x] = R[x]
      BY <1>10
    <3>3. /\ R[x].header.tag = lg[R[x].event].tag
          /\ R[x].event \notin st /\ lg[R[x].event].ordering # "Relaxed" =>
               \/ R[x].header.ordering = "Release"
               \/ \E f \in 1 .. x : Leads(Headers(R), f, x) /\ Waits(f, pend, L)
      BY DEF RetryPart, FencesWritten, L
    <3>4. QED
      BY <3>1, <3>2, <3>3
  <2>2. ASSUME NEW n \in 1 .. c
        PROVE  /\ R2[L + n].header.tag = lg[R2[L + n].event].tag
               /\ lg[R2[L + n].event].ordering # "Relaxed" =>
                    \/ R2[L + n].header.ordering = "Release"
                    \/ \E f \in 1 .. L + n : Leads(Headers(R2), f, L + n) /\ Waits(f, pend, L)
    <3>1. /\ R2[L + n].header = e[n] /\ R2[L + n].event = main + o[n]
          /\ lg[main + o[n]] = pl.records[o[n]] /\ e[n].tag = TagAt(pl, o[n])
      BY <1>3, <1>8, <1>10
    <3>2. CASE e[n].ordering = "Release"
      BY <3>1, <3>2 DEF TagAt
    <3>3. ASSUME NEW f \in 1 .. n, Leads(e, f, n)
          PROVE  \E g \in 1 .. L + n : Leads(Headers(R2), g, L + n) /\ Waits(g, pend, L)
      <4> DEFINE b == Headers(R2)
      <4>1. n \in Nat /\ f \in Nat /\ 1 <= f /\ f <= n
        BY <1>2
      <4>2. \A y \in 1 .. n : b[L + y] = e[y]
        <5>1. ASSUME NEW y \in 1 .. n PROVE y \in 1 .. c
          BY <1>2
        <5>2. QED
          BY <1>14, <5>1
      <4> HIDE DEF b
      <4>3. Leads(b, L + f, L + n)
        BY <1>6, <3>3, <4>1, <4>2, LeadsShifted
      <4>4. L + f \in 1 .. L + n /\ L + f > L
        BY <1>6, <4>1
      <4>5. QED
        BY <4>3, <4>4 DEF Waits, b
    <3>4. lg[R2[L + n].event].ordering # "Relaxed" => Barrier(e, n)
      BY <1>4, <3>1
    <3>5. QED
      BY <3>1, <3>2, <3>3, <3>4 DEF Barrier, TagAt
  <2>3. QED
    BY <1>12, <2>1, <2>2 DEF FencesWritten
<1>16. ASSUME NEW k, Kept(k, R, st) PROVE Kept(k, R2, st)
  <2>1. \A p \in 1 .. L : p \in 1 .. Len(R2) /\ R2[p] = R[p]
    BY <1>2, <1>6, <1>10
  <2>2. QED
    BY <1>16, <2>1 DEF Kept, L
<1>17. OrderWritten(lg, R2, st)
  <2>1. ASSUME NEW x \in 1 .. L, NEW d \in 1 .. R2[x].event - 1,
               Demand(lg[d], lg[R2[x].event]), d \notin st
        PROVE  \E p \in 1 .. x - 1 : R2[p].event = d
    <3>1. R2[x] = R[x]
      BY <1>10
    <3>2. PICK p \in 1 .. x - 1 : R[p].event = d
      BY <2>1, <3>1 DEF RetryPart, OrderWritten, L
    <3>3. p \in 1 .. L
      BY <1>6, <3>2
    <3>4. QED
      BY <1>10, <3>2, <3>3
  <2>2. ASSUME NEW n \in 1 .. c, NEW d \in 1 .. R2[L + n].event - 1,
               Demand(lg[d], lg[R2[L + n].event]), d \notin st
        PROVE  \E p \in 1 .. L + n - 1 : R2[p].event = d
    <3>1. /\ R2[L + n].event = its[o[n]] /\ its[o[n]] = main + o[n] /\ o[n] \in 1 .. Len(its)
          /\ main + o[n] \in 1 .. Len(lg)
      BY <1>8, <1>10
    <3>2. d \in Nat /\ 1 <= d /\ n \in Nat /\ 1 <= n
      <4>1. d \in 1 .. (main + o[n]) - 1
        BY <3>1
      <4>2. main + o[n] \in Nat
        BY <1>6, <3>1
      <4>3. QED
        BY <1>2, <4>1, <4>2
    <3>3. CASE d <= main
      <4>1. d \in 1 .. main
        BY <3>2, <3>3
      <4>2. PICK p \in 1 .. L : R[p].event = d
        BY <2>2, <4>1 DEF RetryPart, CommittedKept, Kept, L
      <4>3. p \in 1 .. L + n - 1
        BY <1>6, <3>2, <4>2
      <4>4. QED
        BY <1>10, <4>2, <4>3
    <3>4. CASE d > main
      <4> DEFINE i == o[n]
      <4>1. i \in 1 .. Len(its) /\ d \in 1 .. its[i] - 1 /\ Demand(lg[d], lg[its[i]])
        BY <2>2, <3>1
      <4> HIDE DEF i
      <4>2. BatchOf(lg, R, st, main, its, pl, left)
        BY DEF BatchOf
      <4>3. PICK k \in left : its[k] = d /\ Precedes(pl, k, i)
        BY <2>2, <3>4, <4>1, <4>2, BatchOrder
      <4>4. PICK m \in 1 .. c : o[m] = k
        BY <1>2
      <4>5. WrittenBefore(pl, o[m], o[n])
        BY <4>3, <4>4, PrecedingIsWrittenBefore DEF i
      <4>6. m < n
        BY <1>2, <4>5
      <4>7. L + m \in 1 .. L + n - 1
        BY <1>2, <1>6, <3>2, <4>6
      <4>8. R2[L + m].event = d
        BY <1>8, <1>10, <4>3, <4>4
      <4>9. QED
        BY <4>7, <4>8
    <3>5. d <= main \/ d > main
      BY <3>2
    <3>6. QED
      BY <3>3, <3>4, <3>5
  <2>3. ASSUME NEW x \in 1 .. Len(R2), NEW d \in 1 .. R2[x].event - 1,
               Demand(lg[d], lg[R2[x].event]), d \notin st
        PROVE  \E p \in 1 .. x - 1 : R2[p].event = d
    <3>1. CASE x \in 1 .. L
      BY <2>1, <2>3, <3>1
    <3>2. ASSUME NEW n \in 1 .. c, x = L + n PROVE \E p \in 1 .. x - 1 : R2[p].event = d
      <4>1. d \in 1 .. R2[L + n].event - 1 /\ Demand(lg[d], lg[R2[L + n].event]) /\ d \notin st
        BY <2>3, <3>2
      <4>2. PICK p \in 1 .. L + n - 1 : R2[p].event = d
        BY <2>2, <4>1
      <4>3. p \in 1 .. x - 1
        BY <1>2, <1>6, <3>2
      <4>4. QED
        BY <4>2, <4>3
    <3>3. QED
      BY <1>12, <3>1, <3>2
  <2>4. QED
    BY <2>3 DEF OrderWritten
<1>18. PendingKept(R2, st, pend, L)
  BY <1>10 DEF RetryPart, PendingKept, L
<1>19. CommittedKept(R2, st, main)
  BY <1>16 DEF RetryPart, CommittedKept
<1>20. CommittedKept(R2, st, main + Len(its))
  <2> SUFFICES ASSUME NEW k \in 1 .. main + Len(its) PROVE Kept(k, R2, st)
    BY DEF CommittedKept
  <2>1. CASE k <= main
    <3>1. k \in 1 .. main
      BY <1>1, <2>1
    <3>2. QED
      BY <1>19, <3>1 DEF CommittedKept
  <2>2. CASE k > main
    <3>1. k - main \in 1 .. Len(its) /\ main + (k - main) = k
      BY <1>1, <2>2
    <3>2. its[k - main] = k
      BY <3>1 DEF BatchWork
    <3>3. CASE k - main \in left
      <4>1. PICK m \in 1 .. c : o[m] = k - main
        BY <1>2, <3>3
      <4>2. R2[L + m].event = k
        BY <1>8, <1>10, <3>2, <4>1
      <4>3. L + m \in 1 .. Len(R2)
        BY <1>2, <1>6, <1>10, <4>1
      <4>4. QED
        BY <4>2, <4>3 DEF Kept
    <3>4. CASE k - main \notin left
      BY <3>1, <3>2, <3>4 DEF BatchWork, Kept
    <3>5. QED
      BY <3>3, <3>4
  <2>3. QED
    BY <1>1, <2>1, <2>2
<1>21. Len(R) <= Len(R2)
  BY <1>2, <1>6, <1>10 DEF L
<1>22. QED
  BY <1>11, <1>15, <1>17, <1>18, <1>19, <1>20, <1>21 DEF RetryPart, L

-----------------------------------------------------------------------------
\* The pending records, from the first to the last.
LEMMA AscendingIs ==
  ASSUME NEW b \in Nat, NEW S, S \subseteq 1 .. b
  PROVE  /\ Ascending(S) \in Seq(Nat)
         /\ \A i, j \in 1 .. Len(Ascending(S)) : i < j => Ascending(S)[i] < Ascending(S)[j]
         /\ \A i \in 1 .. Len(Ascending(S)) : Ascending(S)[i] \in S
         /\ \A x \in S : \E i \in 1 .. Len(Ascending(S)) : Ascending(S)[i] = x
         /\ DOMAIN Ascending(S) = 1 .. Len(Ascending(S))
<1> DEFINE R == {e \in S \X S : e[1] < e[2]}
           c == Cardinality(S)
           number(x) == Cardinality(Below(S, R, x)) + 1
           Rising(s) == \A i, j \in DOMAIN s : i < j => s[i] < s[j]
           U == 1 .. c
<1>1. IsFiniteSet(S) /\ S \subseteq Nat
  <2>1. IsFiniteSet(1 .. b)
    <3>1. 1 \in Int /\ b \in Int
      OBVIOUS
    <3>2. QED
      BY <3>1, FS_Interval
  <2>2. IsFiniteSet(S)
    BY <2>1, FS_Subset
  <2>3. \A x \in 1 .. b : x \in Nat
    OBVIOUS
  <2>4. QED
    BY <2>2, <2>3
<1>2. \A x, y \in S : <<x, y>> \in R <=> x < y
  OBVIOUS
<1> HIDE DEF R
<1>3. InOneRow(S, R)
  <2>1. \A x \in S : x \in Nat
    BY <1>1
  <2>2. QED
    BY <1>2, <2>1 DEF InOneRow
<1> HIDE DEF number
<1>4. /\ c \in Nat
      /\ \A x \in S : number(x) \in U
      /\ \A x, y \in S : <<x, y>> \in R <=> number(x) < number(y)
      /\ \A n \in U : \E x \in S : number(x) = n
  BY <1>1, <1>3, Numbered DEF number
<1> HIDE DEF c
<1> DEFINE s1 == [n \in U |-> CHOOSE x \in S : number(x) = n]
<1>5. \A n \in U : s1[n] \in S /\ number(s1[n]) = n
  BY <1>4
<1>6. s1 \in [U -> S] /\ Rising(s1)
  <2>1. s1 \in [U -> S] /\ DOMAIN s1 = U
    BY <1>5
  <2> HIDE DEF s1
  <2>2. ASSUME NEW i \in U, NEW j \in U, i < j PROVE s1[i] < s1[j]
    BY <1>2, <1>4, <1>5, <2>2
  <2>3. QED
    BY <2>1, <2>2
<1> HIDE DEF s1
<1> DEFINE s == Ascending(S)
<1>7. s \in [U -> S] /\ Rising(s)
  <2>1. s = CHOOSE t \in [U -> S] : Rising(t)
    BY DEF Ascending, c
  <2> HIDE DEF s, Rising, U
  <2>2. QED
    BY <1>6, <2>1
<1> HIDE DEF s
<1>8. s \in Injection(U, S)
  <2>1. ASSUME NEW i \in U, NEW j \in U, i # j PROVE s[i] # s[j]
    <3>0. s[i] \in S /\ s[j] \in S
      BY <1>7
    <3>5. s[i] \in Nat /\ s[j] \in Nat
      BY <1>1, <3>0
    <3>6. i \in Nat /\ j \in Nat
      <4>1. c \in Nat
        BY <1>4
      <4>2. QED
        BY <4>1
    <3>1. i \in Nat /\ j \in Nat /\ s[i] \in Nat /\ s[j] \in Nat
      BY <3>5, <3>6
    <3>2. i < j \/ j < i
      BY <2>1, <3>1
    <3>3. s[i] < s[j] \/ s[j] < s[i]
      BY <1>7, <3>2
    <3>4. QED
      BY <3>1, <3>3
  <2>2. QED
    BY <1>7, <2>1 DEF Injection, IsInjective
<1>9. IsFiniteSet(U) /\ Cardinality(U) = Cardinality(S)
  <2>1. /\ IsFiniteSet(U) /\ Cardinality(U) = IF 1 > c THEN 0 ELSE c - 1 + 1
    <3>1. 1 \in Int /\ c \in Int
      BY <1>4
    <3>2. QED
      BY <3>1, FS_Interval
  <2>2. Cardinality(U) = c
    BY <1>4, <2>1
  <2>3. QED
    BY <2>1, <2>2 DEF c
<1>10. s \in Surjection(U, S)
  <2> HIDE DEF U
  <2>1. QED
    BY <1>1, <1>8, <1>9, FS_Injection
<1>11. \A x \in S : \E i \in U : s[i] = x
  BY <1>10 DEF Surjection
<1>12. s \in Seq(Nat) /\ Len(s) = c /\ DOMAIN s = U
  <2>1. s \in [1 .. c -> Nat]
    BY <1>1, <1>7
  <2>2. QED
    BY <1>4, <2>1
<1>13. QED
  BY <1>7, <1>11, <1>12 DEF s

\* What KeyInv says of the kinds of the values.
LEMMA KeyFacts ==
  ASSUME KeyInv
  PROVE  /\ Len(log) \in Nat /\ Len(retryLog) \in Nat /\ Len(items) \in Nat
         /\ mainNext \in Nat /\ retryNext \in Nat /\ mainStored \in Nat /\ retryStored \in Nat
         /\ mainStored <= mainNext /\ mainNext <= Len(log)
         /\ retryStored <= retryNext /\ retryNext <= Len(retryLog)
         /\ pending \subseteq 1 .. Len(retryLog)
         /\ LogTypes(log, retryLog, settled)
<1>1. /\ log \in Seq(Record) /\ items \in Seq(Nat)
      /\ retryLog \in Seq([event : Event, header : Record])
  BY DEF KeyInv, TypeOK
<1>2. Len(log) \in Nat /\ Len(retryLog) \in Nat /\ Len(items) \in Nat
  BY <1>1
<1>3. /\ mainStored \in 0 .. Len(log) /\ retryStored \in 0 .. Len(retryLog)
      /\ mainNext \in mainStored .. Len(log)
      /\ retryNext \in retryStored .. Len(retryLog)
      /\ pending \subseteq retryStored + 1 .. retryNext
  BY DEF KeyInv, TypeOK
<1>4. pending \subseteq 1 .. Len(retryLog)
  <2>1. \A x \in retryStored + 1 .. retryNext : x \in 1 .. Len(retryLog)
    BY <1>2, <1>3
  <2>2. QED
    BY <1>3, <2>1
<1>5. LogTypes(log, retryLog, settled)
  BY DEF KeyInv, TypeOK, Event, LogTypes
<1>6. QED
  BY <1>2, <1>3, <1>4, <1>5

\* No event is settled yet that had to wait for one that is not.
LEMMA SettlingInOrder ==
  ASSUME NEW lg, NEW st, NEW st2, SettledInOrder(lg, st), st \subseteq st2,
         \A e \in st2 \ st : \A d \in 1 .. e - 1 : Demand(lg[d], lg[e]) => d \in st2
  PROVE  SettledInOrder(lg, st2)
BY DEF SettledInOrder

\* The first index left of its run in the first stage left has no other before it.
LEMMA NothingBefore ==
  ASSUME NEW pl, NEW left, left \subseteq Nat, NEW i \in left, NEW k \in left, k # i,
         \A j \in left : ~ StageBefore(pl, j, i),
         \A j \in left : SameRun(pl, i, j) => i <= j
  PROVE  ~ Precedes(pl, k, i)
<1>1. i \in Nat /\ k \in Nat /\ ~ StageBefore(pl, k, i)
  OBVIOUS
<1>2. SameRun(pl, k, i) => i <= k
  BY DEF SameRun, SameStage
<1>3. QED
  BY <1>1, <1>2 DEF Precedes

-----------------------------------------------------------------------------
\* The steps.

\* The steps that only choose what comes next, or end a run.
LEMMA ChoosingKeeps ==
  ASSUME KeyInv,
         UNCHANGED <<server, task, items, plan, todo, settled, crashes>>,
         failed' \subseteq Tag,
         pc' \in {"drain", "due", "attempt", "commit", "poll", "plan", "execute", "store"},
         pc' \notin {"drain", "store"} => pc \notin {"drain", "store"},
         pc' = "attempt" => pc = "attempt",
         pc' \in {"plan", "execute"} => pc \in {"plan", "execute"},
         pc' = "execute" => pending = {},
         pc' = "store" => (pc = "store" \/ (pc = "execute" /\ todo = {}))
  PROVE  KeyInv'
<1>1. TypeOK' /\ items' \in Seq(Nat)
  BY DEF KeyInv, TypeOK, server, task, Event
<1>2. /\ pc' \notin {"drain", "store"} => retryNext' = Len(retryLog')
      /\ RetryPart(log', retryLog', settled', pending', retryNext', mainNext')
      /\ SettledInOrder(log', settled')
      /\ PlannedWork(items', plan', todo')
      /\ pc' = "attempt" => AttemptWork(retryLog', settled', pending', items', plan', todo')
      /\ pc' \in {"plan", "execute"} =>
           BatchWork(log', settled', mainNext', items', plan', todo')
      /\ pc' = "execute" => pending' = {}
  BY DEF KeyInv, server, task
<1>3. ASSUME pc = "execute", todo = {}
      PROVE  /\ mainNext + Len(items) <= Len(log)
             /\ CommittedKept(retryLog, settled, mainNext + Len(items))
  <2>1. BatchWork(log, settled, mainNext, items, plan, todo)
    BY <1>3 DEF KeyInv
  <2>2. CommittedKept(retryLog, settled, mainNext)
    BY DEF KeyInv, RetryPart
  <2>3. ASSUME NEW e \in 1 .. mainNext + Len(items) PROVE Kept(e, retryLog, settled)
    <3>1. CASE e \in 1 .. mainNext
      BY <2>2, <3>1 DEF CommittedKept
    <3>2. CASE e \notin 1 .. mainNext
      <4>1. e - mainNext \in 1 .. Len(items) /\ mainNext + (e - mainNext) = e
        BY <3>2, KeyFacts
      <4>2. items[e - mainNext] = e /\ items[e - mainNext] \in settled
        BY <1>3, <2>1, <4>1 DEF BatchWork
      <4>3. QED
        BY <4>2 DEF Kept
    <3>3. QED
      BY <3>1, <3>2
  <2>4. QED
    BY <2>1, <2>3 DEF BatchWork, CommittedKept
<1>4. pc' = "store" => /\ mainNext' + Len(items') <= Len(log')
                       /\ CommittedKept(retryLog', settled', mainNext' + Len(items'))
  BY <1>3 DEF KeyInv, server, task
<1>5. QED
  BY <1>1, <1>2, <1>4 DEF KeyInv

\* An event is published.
LEMMA PublishKeeps ==
  ASSUME KeyInv, NEW tag \in Tag, NEW ordering \in Ordering, Publish(tag, ordering)
  PROVE  KeyInv'
<1> DEFINE r == [key |-> TheKey, tag |-> tag, ordering |-> ordering]
<1>1. /\ log' = Append(log, r) /\ Len(log) < NumEvents
      /\ UNCHANGED <<retryLog, mainStored, retryStored, pc, task, work, settled, crashes>>
  BY DEF Publish
<1>2. r \in Record
  BY ExecutionAssumption DEF Record, ExecutionAssumption
<1> HIDE DEF r
<1>3. log \in Seq(Record) /\ Len(log) \in Nat /\ NumEvents \in Nat
  BY KeyFacts, ExecutionAssumption DEF KeyInv, TypeOK, ExecutionAssumption
<1>4. /\ log' \in Seq(Record) /\ Len(log') = Len(log) + 1
      /\ \A e \in 1 .. Len(log) : log'[e] = log[e]
  BY <1>1, <1>2, <1>3
<1>5. Len(log') <= NumEvents
  BY <1>1, <1>3, <1>4
<1>6. UNCHANGED <<retryLog, mainStored, retryStored, pc, task, work, settled, crashes>>
  BY <1>1
<1> HIDE <1>1
<1>7. \A e \in 1 .. Len(log) : e \in 1 .. Len(log')
  BY <1>3, <1>4
<1>8. retryLog' \in Seq([event : Event', header : Record])
  <2> DEFINE Old == [event : Event, header : Record]
             New == [event : Event', header : Record]
  <2>1. \A x \in Old : x \in New
    BY <1>7 DEF Event
  <2>2. retryLog \in Seq(Old) /\ retryLog' = retryLog
    BY <1>6 DEF KeyInv, TypeOK
  <2> HIDE DEF Old, New
  <2>3. retryLog' \in Seq(New)
    BY <2>1, <2>2
  <2>4. QED
    BY <2>3 DEF New
<1>9. mainStored \in 0 .. Len(log') /\ mainNext \in mainStored .. Len(log') /\ settled \subseteq Event'
  <2>1. mainStored \in 0 .. Len(log) /\ mainNext \in mainStored .. Len(log) /\ settled \subseteq Event
    BY DEF KeyInv, TypeOK
  <2>2. QED
    BY <1>3, <1>4, <1>7, <2>1 DEF Event
<1>10. TypeOK' /\ items' \in Seq(Nat)
  BY <1>4, <1>5, <1>6, <1>8, <1>9 DEF KeyInv, TypeOK, task, work
<1>11. LogTypes(log, retryLog, settled)
  BY KeyFacts
<1>12. RetryPart(log', retryLog, settled, pending, retryNext, mainNext)
  <2>1. PICK lg2 : lg2 = log'
    OBVIOUS
  <2>2. \A e \in 1 .. Len(log) : lg2[e] = log[e]
    BY <1>4, <2>1
  <2>3. RetryPart(log, retryLog, settled, pending, retryNext, mainNext)
    BY DEF KeyInv
  <2>4. QED
    BY <1>11, <2>1, <2>2, <2>3, PublishKeepsRetry
<1>13. SettledInOrder(log', settled)
  <2>1. PICK lg2 : lg2 = log'
    OBVIOUS
  <2>2. \A e \in 1 .. Len(log) : lg2[e] = log[e]
    BY <1>4, <2>1
  <2>3. SettledInOrder(log, settled)
    BY DEF KeyInv
  <2>4. QED
    BY <1>11, <2>1, <2>2, <2>3, PublishKeepsOrder
<1>14. ASSUME BatchWork(log, settled, mainNext, items, plan, todo)
       PROVE  BatchWork(log', settled, mainNext, items, plan, todo)
  <2>1. mainNext + Len(items) <= Len(log) /\ mainNext \in Nat /\ Len(items) \in Nat
    BY <1>14, KeyFacts DEF BatchWork
  <2>2. \A i \in 1 .. Len(items) : mainNext + i \in 1 .. Len(log)
    BY <1>3, <2>1
  <2>3. mainNext + Len(items) <= Len(log')
    BY <1>3, <1>4, <2>1
  <2>4. QED
    BY <1>4, <1>14, <2>2, <2>3 DEF BatchWork
<1>15. pc = "store" => mainNext + Len(items) <= Len(log')
  <2>1. pc = "store" => mainNext + Len(items) <= Len(log)
    BY DEF KeyInv
  <2>2. mainNext \in Nat /\ Len(items) \in Nat
    BY KeyFacts
  <2>3. QED
    BY <1>3, <1>4, <2>1, <2>2
<1>16. QED
  BY <1>6, <1>10, <1>12, <1>13, <1>14, <1>15 DEF KeyInv, task, work

LEMMA DrainKeeps ==
  ASSUME KeyInv, Drain
  PROVE  KeyInv'
<1>1. /\ pc = "drain" /\ pc' = "due"
      /\ retryNext' = Len(retryLog)
      /\ pending' = pending \cup (retryNext + 1 .. Len(retryLog))
      /\ attempt' \in {0, attempt}
      /\ UNCHANGED <<server, mainNext, work, settled, crashes>>
  BY DEF Drain
<1>2. /\ Len(retryLog) \in Nat /\ retryNext \in Nat /\ retryStored \in Nat
      /\ retryStored <= retryNext /\ retryNext <= Len(retryLog)
  BY KeyFacts
<1>3. pending \subseteq retryStored + 1 .. retryNext
  BY DEF KeyInv, TypeOK
<1>4. /\ retryNext' \in retryStored .. Len(retryLog)
      /\ pending' \subseteq retryStored + 1 .. retryNext'
  <2>1. \A x \in retryStored + 1 .. retryNext : x \in retryStored + 1 .. Len(retryLog)
    BY <1>2
  <2>2. \A x \in retryNext + 1 .. Len(retryLog) : x \in retryStored + 1 .. Len(retryLog)
    BY <1>2
  <2>3. retryNext' \in retryStored .. Len(retryLog)
    BY <1>1, <1>2
  <2>4. QED
    BY <1>1, <1>3, <2>1, <2>2, <2>3
<1>5. attempt' \in 0 .. NumDelays - 1
  <2>1. attempt \in 0 .. NumDelays - 1 /\ NumDelays \in Nat /\ NumDelays # 0
    BY ExecutionAssumption DEF KeyInv, TypeOK, ExecutionAssumption
  <2>2. QED
    BY <1>1, <2>1
<1>6. TypeOK' /\ items' \in Seq(Nat)
  BY <1>1, <1>4, <1>5 DEF KeyInv, TypeOK, server, work, Event
<1>7. RetryPart(log, retryLog, settled, pending \cup (retryNext + 1 .. Len(retryLog)),
                Len(retryLog), mainNext)
  BY <1>2, DrainKeepsRetry DEF KeyInv, TypeOK, Event
<1>8. QED
  BY <1>1, <1>6, <1>7 DEF KeyInv, server, work

LEMMA StartAttemptKeeps ==
  ASSUME KeyInv, StartAttempt
  PROVE  KeyInv'
<1> DEFINE seq == Ascending(pending)
           headers == [n \in DOMAIN seq |-> retryLog[seq[n]].header]
<1>1. /\ pc = "due" /\ pc' = "attempt"
      /\ items' = seq /\ plan' = PlanOf(headers) /\ todo' = DOMAIN seq /\ failed' = {}
      /\ UNCHANGED <<server, task, settled, crashes>>
  BY DEF StartAttempt, Start
<1>2. Len(retryLog) \in Nat /\ pending \subseteq 1 .. Len(retryLog)
  BY KeyFacts
<1>3. /\ seq \in Seq(Nat)
      /\ \A i, j \in 1 .. Len(seq) : i < j => seq[i] < seq[j]
      /\ \A i \in 1 .. Len(seq) : seq[i] \in pending
      /\ \A x \in pending : \E i \in 1 .. Len(seq) : seq[i] = x
      /\ DOMAIN seq = 1 .. Len(seq)
  BY <1>2, AscendingIs
<1> HIDE DEF seq
<1>4. \A x \in 1 .. Len(retryLog) : retryLog[x].header \in Record
  BY KeyFacts, RecordsArePublished
<1>5. headers \in Seq(Record) /\ Len(headers) = Len(seq)
      /\ \A n \in 1 .. Len(seq) : headers[n] = retryLog[seq[n]].header
  <2>1. \A n \in 1 .. Len(seq) : retryLog[seq[n]].header \in Record
    BY <1>2, <1>3, <1>4
  <2>2. Len(seq) \in Nat
    BY <1>3
  <2>3. QED
    BY <1>3, <2>1, <2>2
<1> HIDE DEF headers
<1>6. PlanSound(plan') /\ plan'.records = headers
  BY <1>1, <1>5, PlanOfIsSound
<1>7. TypeOK' /\ items' \in Seq(Nat)
  BY <1>1, <1>3 DEF KeyInv, TypeOK, server, task, Event
<1>8. PlannedWork(items', plan', todo')
  BY <1>1, <1>3, <1>5, <1>6 DEF PlannedWork
<1>9. AttemptWork(retryLog', settled', pending', items', plan', todo')
  BY <1>1, <1>3, <1>5, <1>6 DEF AttemptWork, server, task
<1>10. QED
  BY <1>1, <1>7, <1>8, <1>9 DEF KeyInv, server, task

LEMMA CommitRetryKeeps ==
  ASSUME KeyInv, CommitRetry
  PROVE  KeyInv'
<1>1. /\ pc = "commit" /\ pc' = "poll" /\ retryStored' = Committable
      /\ UNCHANGED <<log, retryLog, mainStored, task, work, settled, crashes>>
  BY DEF CommitRetry
<1>2. /\ Len(retryLog) \in Nat /\ retryNext \in Nat /\ retryStored \in Nat
      /\ retryStored <= retryNext /\ retryNext <= Len(retryLog)
      /\ pending \subseteq retryStored + 1 .. retryNext
  BY KeyFacts DEF KeyInv, TypeOK
<1>3. Committable \in 0 .. Len(retryLog) /\ Committable <= retryNext
      /\ \A x \in pending : Committable < x
  <2>1. CASE pending = {}
    BY <1>2, <2>1 DEF Committable
  <2>2. CASE pending # {}
    <3> DEFINE low == CHOOSE p \in pending : \A q \in pending : p <= q
    <3>1. \E p \in pending : \A q \in pending : p <= q
      <4>1. pending \subseteq Nat
        BY <1>2
      <4>2. QED
        BY <2>2, <4>1, LeastNumber
    <3>2. low \in pending /\ \A q \in pending : low <= q
      BY <3>1
    <3>3. Committable = low - 1
      BY <2>2 DEF Committable
    <3> HIDE DEF low
    <3>4. \A x \in pending : x \in Nat /\ 1 <= x /\ x <= retryNext
      BY <1>2
    <3>5. QED
      BY <1>2, <3>2, <3>3, <3>4
  <2>3. QED
    BY <2>1, <2>2
<1>4. /\ retryStored' \in 0 .. Len(retryLog) /\ retryNext \in retryStored' .. Len(retryLog)
      /\ pending \subseteq retryStored' + 1 .. retryNext
  <2>1. \A x \in pending : x \in Nat /\ x <= retryNext
    BY <1>2
  <2>2. Committable \in Nat
    BY <1>3
  <2>3. \A x \in pending : x \in Committable + 1 .. retryNext
    BY <1>2, <1>3, <2>1, <2>2
  <2>4. QED
    BY <1>1, <1>2, <1>3, <2>3
<1>5. TypeOK' /\ items' \in Seq(Nat)
  BY <1>1, <1>4 DEF KeyInv, TypeOK, task, work, Event
<1>6. QED
  BY <1>1, <1>5 DEF KeyInv, task, work

LEMMA PollMainKeeps ==
  ASSUME KeyInv, PollMain
  PROVE  KeyInv'
<1> DEFINE count == IF mainNext + PollCount <= Len(log) THEN PollCount ELSE Len(log) - mainNext
           seq == [n \in 1 .. count |-> mainNext + n]
           headers == SubSeq(log, mainNext + 1, mainNext + count)
<1>1. /\ pc = "poll" /\ pc' = "plan" /\ mainNext < Len(log)
      /\ items' = seq /\ plan' = PlanOf(headers) /\ todo' = DOMAIN seq /\ failed' = {}
      /\ UNCHANGED <<server, task, settled, crashes>>
  BY DEF PollMain, Start
<1>2. Len(log) \in Nat /\ mainNext \in Nat /\ PollCount \in Nat /\ log \in Seq(Record)
  BY KeyFacts, ExecutionAssumption DEF KeyInv, TypeOK, ExecutionAssumption
<1>3. count \in Nat /\ mainNext + count <= Len(log)
  BY <1>1, <1>2
<1> HIDE DEF count
<1>4. /\ seq \in Seq(Nat) /\ Len(seq) = count /\ DOMAIN seq = 1 .. count
      /\ \A n \in 1 .. count : seq[n] = mainNext + n
  BY <1>2, <1>3
<1>5. /\ headers \in Seq(Record) /\ Len(headers) = count
      /\ \A n \in 1 .. count : headers[n] = log[mainNext + n]
  BY <1>2, <1>3
<1> HIDE DEF seq, headers
<1>6. PlanSound(plan') /\ plan'.records = headers
  BY <1>1, <1>5, PlanOfIsSound
<1>7. TypeOK' /\ items' \in Seq(Nat)
  BY <1>1, <1>4 DEF KeyInv, TypeOK, server, task, Event
<1>8. PlannedWork(items', plan', todo')
  BY <1>1, <1>4, <1>5, <1>6 DEF PlannedWork
<1>9. BatchWork(log', settled', mainNext', items', plan', todo')
  BY <1>1, <1>3, <1>4, <1>5, <1>6 DEF BatchWork, server, task
<1>10. QED
  BY <1>1, <1>7, <1>8, <1>9 DEF KeyInv, server, task

LEMMA StoreMainKeeps ==
  ASSUME KeyInv, StoreMain
  PROVE  KeyInv'
<1>1. /\ pc = "store" /\ pc' = "drain"
      /\ mainNext' = mainNext + Len(items) /\ mainStored' = mainNext + Len(items)
      /\ items' = <<>> /\ plan' = EmptyPlan /\ todo' = {} /\ failed' = {}
      /\ UNCHANGED <<log, retryLog, retryStored, retryNext, pending, attempt, settled, crashes>>
  BY DEF StoreMain, NoWork
<1>2. /\ mainNext \in Nat /\ Len(items) \in Nat /\ Len(log) \in Nat
      /\ mainNext + Len(items) <= Len(log)
      /\ CommittedKept(retryLog, settled, mainNext + Len(items))
  BY <1>1, KeyFacts DEF KeyInv
<1>3. /\ mainStored' \in 0 .. Len(log) /\ mainNext' \in mainStored' .. Len(log)
  BY <1>1, <1>2
<1>4. TypeOK' /\ items' \in Seq(Nat)
  BY <1>1, <1>3 DEF KeyInv, TypeOK, Event
<1>5. PlannedWork(items', plan', todo')
  BY <1>1, EmptyPlanIsSound DEF PlannedWork
<1>6. RetryPart(log', retryLog', settled', pending', retryNext', mainNext')
  BY <1>1, <1>2 DEF KeyInv, RetryPart
<1>7. QED
  BY <1>1, <1>4, <1>5, <1>6 DEF KeyInv

LEMMA CrashKeeps ==
  ASSUME KeyInv, Crash
  PROVE  KeyInv'
<1>1. /\ crashes < MaxCrashes /\ crashes' = crashes + 1
      /\ mainNext' = mainStored /\ retryNext' = retryStored
      /\ pending' = {} /\ attempt' = 0 /\ pc' = "drain"
      /\ items' = <<>> /\ plan' = EmptyPlan /\ todo' = {} /\ failed' = {}
      /\ UNCHANGED <<server, settled>>
  BY DEF Crash, NoWork
<1>2. /\ mainStored \in Nat /\ mainNext \in Nat /\ mainStored <= mainNext
      /\ retryStored \in Nat /\ retryNext \in Nat /\ retryStored <= retryNext
      /\ pending \subseteq retryStored + 1 .. retryNext
  BY KeyFacts DEF KeyInv, TypeOK
<1>3. attempt' \in 0 .. NumDelays - 1 /\ crashes' \in 0 .. MaxCrashes
  <2>1. crashes \in 0 .. MaxCrashes /\ MaxCrashes \in Nat /\ NumDelays \in Nat /\ NumDelays # 0
    BY ExecutionAssumption DEF KeyInv, TypeOK, ExecutionAssumption
  <2>2. QED
    BY <1>1, <2>1
<1>4. /\ mainStored \in mainStored .. Len(log) /\ retryStored \in retryStored .. Len(retryLog)
  BY <1>2 DEF KeyInv, TypeOK
<1>5. TypeOK' /\ items' \in Seq(Nat)
  BY <1>1, <1>3, <1>4 DEF KeyInv, TypeOK, server, Event
<1>6. PlannedWork(items', plan', todo')
  BY <1>1, EmptyPlanIsSound DEF PlannedWork
<1>7. RetryPart(log, retryLog, settled, {}, retryStored, mainStored)
  <2>1. ASSUME NEW x \in 1 .. retryStored
        PROVE  x \in 1 .. retryNext /\ x \notin pending
    BY <1>2
  <2>2. ASSUME NEW f, Waits(f, pending, retryNext), NEW x \in 1 .. Len(retryLog), f \in 1 .. x
        PROVE  Waits(f, {}, retryStored)
    <3>1. f \in Nat
      BY <2>2, KeyFacts
    <3>2. f > retryStored
      BY <1>2, <2>2, <3>1 DEF Waits
    <3>3. QED
      BY <3>2 DEF Waits
  <2>3. \A e \in 1 .. mainStored : e \in 1 .. mainNext
    BY <1>2
  <2>4. RetryPart(log, retryLog, settled, pending, retryNext, mainNext)
    BY DEF KeyInv
  <2>5. QED
    BY <2>1, <2>2, <2>3, <2>4, LeavingKeepsRetry
<1>8. RetryPart(log', retryLog', settled', pending', retryNext', mainNext')
  BY <1>1, <1>7 DEF server
<1>9. QED
  BY <1>1, <1>5, <1>6, <1>8 DEF KeyInv, server

\* An event is settled at last, with all that had to be settled before it.
LEMMA SettlingKeeps ==
  ASSUME KeyInv, NEW more, more \subseteq Event,
         settled' = settled \cup more,
         UNCHANGED <<server, task, crashes, items>>,
         \A e \in more \ settled : \A d \in 1 .. e - 1 :
           Demand(log[d], log[e]) => d \in settled'
  PROVE  /\ RetryPart(log', retryLog', settled', pending', retryNext', mainNext')
         /\ SettledInOrder(log', settled')
         /\ settled' \subseteq Event'
<1>1. /\ settled \subseteq settled' /\ log' = log /\ retryLog' = retryLog
      /\ pending' = pending /\ retryNext' = retryNext /\ mainNext' = mainNext
  BY DEF server, task
<1>2. RetryPart(log, retryLog, settled', pending, retryNext, mainNext)
  <2>1. PICK st2 : st2 = settled'
    OBVIOUS
  <2>2. RetryPart(log, retryLog, settled, pending, retryNext, mainNext)
    BY DEF KeyInv
  <2>3. RetryPart(log, retryLog, st2, pending, retryNext, mainNext)
    BY <1>1, <2>1, <2>2, SettlingKeepsRetry
  <2>4. QED
    BY <2>1, <2>3
<1>3. SettledInOrder(log, settled')
  <2>1. PICK st2 : st2 = settled'
    OBVIOUS
  <2>2. SettledInOrder(log, settled)
    BY DEF KeyInv
  <2>3. \A e \in st2 \ settled : \A d \in 1 .. e - 1 : Demand(log[d], log[e]) => d \in st2
    BY <2>1
  <2>4. SettledInOrder(log, st2)
    BY <1>1, <2>1, <2>2, <2>3, SettlingInOrder
  <2>5. QED
    BY <2>1, <2>4
<1>4. settled' \subseteq Event'
  BY <1>1 DEF KeyInv, TypeOK, Event
<1>5. QED
  BY <1>1, <1>2, <1>3, <1>4

\* The event that an index stands for.
LEMMA EventOfIs ==
  ASSUME KeyInv, NEW i \in 1 .. Len(items), pc \in {"attempt", "plan", "execute"}
  PROVE  /\ EventOf(i) \in Event
         /\ pc = "attempt" => EventOf(i) = retryLog[items[i]].event /\ items[i] \in pending
         /\ pc # "attempt" => EventOf(i) = items[i] /\ items[i] = mainNext + i
<1>1. CASE pc = "attempt"
  <2>1. EventOf(i) = retryLog[items[i]].event
    BY <1>1 DEF EventOf
  <2>2. items[i] \in pending /\ items[i] \in 1 .. Len(retryLog)
    BY <1>1, KeyFacts DEF KeyInv, AttemptWork
  <2>3. retryLog[items[i]].event \in 1 .. Len(log)
    BY <2>2, KeyFacts, RecordsArePublished
  <2>4. QED
    BY <1>1, <2>1, <2>2, <2>3 DEF Event
<1>2. CASE pc # "attempt"
  <2>1. EventOf(i) = items[i]
    BY <1>2 DEF EventOf
  <2>2. BatchWork(log, settled, mainNext, items, plan, todo)
    BY <1>2 DEF KeyInv
  <2>3. items[i] = mainNext + i /\ mainNext + Len(items) <= Len(log)
    BY <2>2 DEF BatchWork
  <2>4. mainNext + i \in 1 .. Len(log)
    BY <2>3, KeyFacts
  <2>5. QED
    BY <1>2, <2>1, <2>3, <2>4 DEF Event
<1>3. QED
  BY <1>1, <1>2

\* What must be settled before an event that is worked on, and is not, is among
\* what is left, and precedes it in the plan.
LEMMA WorkOrder ==
  ASSUME KeyInv, pc \in {"attempt", "execute"}, NEW i \in 1 .. Len(items),
         EventOf(i) \notin settled,
         NEW d \in 1 .. EventOf(i) - 1, Demand(log[d], log[EventOf(i)]), d \notin settled
  PROVE  \E k \in todo : EventOf(k) = d /\ Precedes(plan, k, i)
<1>1. /\ LogTypes(log, retryLog, settled) /\ PlannedWork(items, plan, todo)
      /\ items \in Seq(Nat) /\ pending \subseteq 1 .. Len(retryLog)
      /\ RetryPart(log, retryLog, settled, pending, Len(retryLog), mainNext)
      /\ retryNext = Len(retryLog) /\ todo \subseteq 1 .. Len(items)
      /\ mainNext \in Nat /\ Len(log) \in Nat
  BY KeyFacts DEF KeyInv, PlannedWork
<1>2. CASE pc = "attempt"
  <2>1. AttemptWork(retryLog, settled, pending, items, plan, todo)
    BY <1>2 DEF KeyInv
  <2>2. EventOf(i) = retryLog[items[i]].event
    BY <1>2 DEF EventOf
  <2>3. PICK e : e = retryLog[items[i]].event
    OBVIOUS
  <2>4. e \notin settled /\ d \in 1 .. e - 1 /\ Demand(log[d], log[e]) /\ d \notin settled
    BY <2>2, <2>3
  <2>5. \E k \in todo : retryLog[items[k]].event = d /\ Precedes(plan, k, i)
    <3>1. AttemptOf(log, retryLog, settled, pending, mainNext, items, plan, todo)
      BY <1>1, <2>1 DEF AttemptOf
    <3>2. /\ retryLog[items[i]].event \notin settled /\ d \in 1 .. retryLog[items[i]].event - 1
          /\ Demand(log[d], log[retryLog[items[i]].event])
      BY <2>3, <2>4
    <3>3. QED
      BY <2>4, <3>1, <3>2, AttemptOrder
  <2>6. QED
    BY <1>2, <2>5 DEF EventOf
<1>3. CASE pc = "execute"
  <2>1. BatchWork(log, settled, mainNext, items, plan, todo) /\ pending = {}
    BY <1>3 DEF KeyInv
  <2>2. EventOf(i) = items[i]
    BY <1>3 DEF EventOf
  <2>3. d > mainNext
    <3> SUFFICES ASSUME ~ (d > mainNext) PROVE FALSE
      OBVIOUS
    <3>1. EventOf(i) \in Nat
      BY <1>1, EventOfIs DEF Event
    <3>2. d \in 1 .. mainNext
      BY <1>1, <3>1
    <3>3. PICK p \in 1 .. Len(retryLog) : retryLog[p].event = d
      BY <1>1, <3>2 DEF RetryPart, CommittedKept, Kept
    <3>4. QED
      BY <1>1, <2>1, <3>3 DEF RetryPart, PendingKept
  <2>4. items[i] \notin settled /\ d \in 1 .. items[i] - 1 /\ Demand(log[d], log[items[i]])
        /\ d \notin settled
    BY <2>2
  <2>5. \E k \in todo : items[k] = d /\ Precedes(plan, k, i)
    <3>1. BatchOf(log, retryLog, settled, mainNext, items, plan, todo)
      BY <1>1, <2>1 DEF BatchOf
    <3>2. QED
      BY <2>3, <2>4, <3>1, BatchOrder
  <2>6. QED
    BY <1>3, <2>5 DEF EventOf
<1>4. QED
  BY <1>2, <1>3

LEMMA HandleKeeps ==
  ASSUME KeyInv, NEW i \in todo, HandleNext(i)
  PROVE  KeyInv'
<1>1. /\ pc \in {"attempt", "execute"} /\ Runnable(i)
      /\ \A j \in todo : SameRun(plan, i, j) => i <= j
      /\ todo' = todo \ {i} /\ settled' = settled \cup {EventOf(i)}
      /\ UNCHANGED <<server, pc, task, items, plan, failed, crashes>>
  BY DEF HandleNext
<1>2. /\ todo \subseteq 1 .. Len(items) /\ i \in 1 .. Len(items) /\ Len(items) \in Nat
      /\ PlannedWork(items, plan, todo)
  BY KeyFacts DEF KeyInv, PlannedWork
<1>3. EventOf(i) \in Event
  BY <1>1, <1>2, EventOfIs
<1>4. ASSUME EventOf(i) \notin settled, NEW d \in 1 .. EventOf(i) - 1,
             Demand(log[d], log[EventOf(i)])
      PROVE  d \in settled
  <2> SUFFICES ASSUME d \notin settled PROVE FALSE
    OBVIOUS
  <2>1. PICK k \in todo : EventOf(k) = d /\ Precedes(plan, k, i)
    BY <1>1, <1>2, <1>4, WorkOrder
  <2>2. k # i
    <3>1. d # EventOf(i)
      <4>1. EventOf(i) \in Nat
        BY <1>3, KeyFacts DEF Event
      <4>2. QED
        BY <4>1
    <3>2. QED
      BY <2>1, <3>1
  <2>3. todo \subseteq Nat
    BY <1>2
  <2>4. \A j \in todo : ~ StageBefore(plan, j, i)
    BY <1>1 DEF Runnable, InStage
  <2>5. QED
    BY <1>1, <2>1, <2>2, <2>3, <2>4, NothingBefore
<1>5. /\ RetryPart(log', retryLog', settled', pending', retryNext', mainNext')
      /\ SettledInOrder(log', settled') /\ settled' \subseteq Event'
  <2> DEFINE more == {EventOf(i)}
  <2>1. more \subseteq Event /\ settled' = settled \cup more
    BY <1>1, <1>3
  <2>2. \A e \in more \ settled : \A d \in 1 .. e - 1 : Demand(log[d], log[e]) => d \in settled'
    BY <1>1, <1>4
  <2>3. UNCHANGED <<server, task, crashes, items>>
    BY <1>1
  <2> HIDE DEF more
  <2>4. QED
    BY <2>1, <2>2, <2>3, SettlingKeeps
<1>6. TypeOK' /\ items' \in Seq(Nat)
  BY <1>1, <1>5 DEF KeyInv, TypeOK, server, task, Event
<1>7. PlannedWork(items', plan', todo')
  BY <1>1, <1>2 DEF PlannedWork
<1>8. ASSUME pc = "attempt" PROVE AttemptWork(retryLog, settled', pending, items, plan, todo')
  <2>1. AttemptWork(retryLog, settled, pending, items, plan, todo)
    BY <1>8 DEF KeyInv
  <2>2. EventOf(i) = retryLog[items[i]].event
    BY <1>8 DEF EventOf
  <2>3. \A k \in (1 .. Len(items)) \ todo' : retryLog[items[k]].event \in settled'
    BY <1>1, <2>1, <2>2 DEF AttemptWork
  <2>4. QED
    BY <2>1, <2>3 DEF AttemptWork
<1>9. ASSUME pc = "execute" PROVE BatchWork(log, settled', mainNext, items, plan, todo')
  <2>1. BatchWork(log, settled, mainNext, items, plan, todo)
    BY <1>9 DEF KeyInv
  <2>2. EventOf(i) = items[i]
    BY <1>9 DEF EventOf
  <2>3. \A k \in (1 .. Len(items)) \ todo' : items[k] \in settled'
    BY <1>1, <2>1, <2>2 DEF BatchWork
  <2>4. QED
    BY <2>1, <2>3 DEF BatchWork
<1>10. QED
  BY <1>1, <1>5, <1>6, <1>7, <1>8, <1>9 DEF KeyInv, server, task

\* What is left of a batch, and what its key writes.
LEMMA WriteKeeps ==
  ASSUME KeyInv, pc \in {"plan", "execute"}, pc' = "store",
         retryLog' = retryLog \o Written(todo),
         UNCHANGED <<log, mainStored, retryStored, task, work, settled, crashes>>
  PROVE  KeyInv'
<1>1. /\ BatchWork(log, settled, mainNext, items, plan, todo)
      /\ retryNext = Len(retryLog) /\ PlannedWork(items, plan, todo) /\ items \in Seq(Nat)
      /\ LogTypes(log, retryLog, settled) /\ mainNext \in Nat
      /\ RetryPart(log, retryLog, settled, pending, Len(retryLog), mainNext)
  BY KeyFacts DEF KeyInv
<1>2. Written(todo) = WrittenOf(items, plan, todo)
  <2>1. WellFormed(plan) /\ todo \subseteq Records(plan)
    BY <1>1 DEF PlannedWork, PlanSound, PlanInv, Records
  <2>2. DOMAIN WrittenOrder(plan, todo) = 1 .. Cardinality(todo)
    BY <2>1, WrittenOrderIs
  <2>3. \A n : EventOf(n) = items[n]
    BY DEF EventOf
  <2>4. QED
    BY <2>2, <2>3 DEF Written, WrittenOf
<1>3. PICK R2 : R2 = retryLog'
  OBVIOUS
<1>4. Appended(log, retryLog, R2, items, plan, todo)
  <2>1. R2 = retryLog \o WrittenOf(items, plan, todo)
    BY <1>2, <1>3
  <2>2. QED
    BY <1>1, <2>1, WritingAppends
<1>5. UNCHANGED <<log, mainStored, retryStored, task, work, settled, crashes>>
  OBVIOUS
<1>6. /\ LogTypes(log, R2, settled) /\ Len(retryLog) <= Len(R2)
      /\ RetryPart(log, R2, settled, pending, Len(retryLog), mainNext)
      /\ CommittedKept(R2, settled, mainNext + Len(items))
  BY <1>1, <1>4, WritingKeepsRetry
<1>7. /\ retryStored \in 0 .. Len(R2) /\ retryNext \in retryStored .. Len(R2)
      /\ retryStored \in Nat /\ retryNext \in Nat
  <2>1. R2 \in Seq([event : 1 .. Len(log), header : Record])
    BY <1>4 DEF Appended
  <2>2. Len(R2) \in Nat
    BY <2>1
  <2>3. /\ Len(retryLog) \in Nat /\ retryStored \in Nat /\ retryNext \in Nat
        /\ retryStored <= retryNext /\ retryNext <= Len(retryLog)
    BY KeyFacts
  <2>4. QED
    BY <1>6, <2>2, <2>3
<1>8. TypeOK' /\ items' \in Seq(Nat)
  <2>1. R2 \in Seq([event : Event, header : Record])
    BY <1>4 DEF Appended, Event
  <2>2. pc' \in {"drain", "due", "attempt", "commit", "poll", "plan", "execute", "store"}
    OBVIOUS
  <2>3. QED
    BY <1>3, <1>5, <1>7, <2>1, <2>2 DEF KeyInv, TypeOK, task, work, Event
<1>9. mainNext + Len(items) <= Len(log)
  BY <1>1 DEF BatchWork
<1>10. pc' = "store"
  OBVIOUS
<1>11. SettledInOrder(log, settled)
  BY DEF KeyInv
<1>12. QED
  BY <1>1, <1>3, <1>5, <1>6, <1>8, <1>9, <1>10, <1>11 DEF KeyInv, task, work

LEMMA DropKeeps ==
  ASSUME KeyInv, DropFailedBatch
  PROVE  KeyInv'
<1> DEFINE more == {EventOf(i) : i \in todo}
<1>1. /\ pc = "execute" /\ pc' = "store" /\ settled' = settled \cup more
      /\ UNCHANGED <<server, task, work, crashes>>
  BY DEF DropFailedBatch
<1>2. /\ todo \subseteq 1 .. Len(items) /\ Len(items) \in Nat
      /\ PlannedWork(items, plan, todo)
  BY KeyFacts DEF KeyInv, PlannedWork
<1>3. more \subseteq Event
  BY <1>1, <1>2, EventOfIs
<1>4. ASSUME NEW e \in more \ settled, NEW d \in 1 .. e - 1, Demand(log[d], log[e])
      PROVE  d \in settled'
  <2>1. PICK i \in todo : e = EventOf(i)
    OBVIOUS
  <2>2. CASE d \in settled
    BY <1>1, <2>2
  <2>3. CASE d \notin settled
    <3>1. \E k \in todo : EventOf(k) = d /\ Precedes(plan, k, i)
      BY <1>1, <1>2, <1>4, <2>1, <2>3, WorkOrder
    <3>2. QED
      BY <1>1, <3>1
  <2>4. QED
    BY <2>2, <2>3
<1>5. /\ RetryPart(log', retryLog', settled', pending', retryNext', mainNext')
      /\ SettledInOrder(log', settled') /\ settled' \subseteq Event'
  <2>1. UNCHANGED <<server, task, crashes, items>> /\ settled' = settled \cup more
    BY <1>1 DEF work
  <2> HIDE DEF more
  <2>2. QED
    BY <1>3, <1>4, <2>1, SettlingKeeps
<1>6. TypeOK' /\ items' \in Seq(Nat)
  BY <1>1, <1>5 DEF KeyInv, TypeOK, server, task, work, Event
<1>7. /\ mainNext + Len(items) <= Len(log)
      /\ CommittedKept(retryLog, settled', mainNext + Len(items))
  <2>1. BatchWork(log, settled, mainNext, items, plan, todo)
    BY <1>1 DEF KeyInv
  <2>2. CommittedKept(retryLog, settled, mainNext)
    BY DEF KeyInv, RetryPart
  <2>3. ASSUME NEW e \in 1 .. mainNext + Len(items) PROVE Kept(e, retryLog, settled')
    <3>1. CASE e \in 1 .. mainNext
      BY <1>1, <2>2, <3>1 DEF CommittedKept, Kept
    <3>2. CASE e \notin 1 .. mainNext
      <4>1. e - mainNext \in 1 .. Len(items) /\ mainNext + (e - mainNext) = e
        BY <3>2, KeyFacts
      <4>2. items[e - mainNext] = e
        BY <2>1, <4>1 DEF BatchWork
      <4>3. CASE e - mainNext \in todo
        <5>1. EventOf(e - mainNext) = e
          BY <1>1, <4>2 DEF EventOf
        <5>2. QED
          BY <1>1, <4>3, <5>1 DEF Kept
      <4>4. CASE e - mainNext \notin todo
        BY <1>1, <2>1, <4>1, <4>2, <4>4 DEF BatchWork, Kept
      <4>5. QED
        BY <4>3, <4>4
    <3>3. QED
      BY <3>1, <3>2
  <2>4. QED
    BY <2>1, <2>3 DEF BatchWork, CommittedKept
<1>8. QED
  BY <1>1, <1>2, <1>5, <1>6, <1>7 DEF KeyInv, server, task, work

\* Runs of a plan are the same run or not, however they are named.
LEMMA RunsAreShared ==
  ASSUME NEW pl, NEW i, NEW j, SameRun(pl, i, j)
  PROVE  /\ SameRun(pl, j, i)
         /\ \A k : SameRun(pl, k, i) => SameRun(pl, k, j)
         /\ \A k : StageBefore(pl, k, i) => StageBefore(pl, k, j)
BY DEF SameRun, SameStage, StageBefore

\* An attempt ends.  Its completed runs leave the pending records, and after the
\* last attempt the failed runs do, settled: nothing that is led by what leaves
\* stays behind, and nothing that had to precede what is given up.
LEMMA FinishKeeps ==
  ASSUME KeyInv, FinishAttempt
  PROVE  KeyInv'
<1> DEFINE unfinished == {i \in DOMAIN items : \E j \in todo : SameRun(plan, i, j)}
           failedRuns == {i \in unfinished : \E j \in todo : SameRun(plan, i, j) /\ InStage(j)}
           giveUp     == failed # {} /\ NextAttempt >= NumDelays
           kept       == IF giveUp THEN unfinished \ failedRuns ELSE unfinished
<1>1. /\ pc = "attempt" /\ pc' = "commit"
      /\ pending' = {items[i] : i \in kept}
      /\ settled' = IF giveUp THEN settled \cup {EventOf(i) : i \in failedRuns} ELSE settled
      /\ attempt' = IF failed = {} \/ giveUp THEN 0 ELSE NextAttempt
      /\ items' = <<>> /\ plan' = EmptyPlan /\ todo' = {} /\ failed' = {}
      /\ UNCHANGED <<server, mainNext, retryNext, crashes>>
  BY DEF FinishAttempt, NoWork
<1>2. /\ items \in Seq(Nat) /\ DOMAIN items = 1 .. Len(items) /\ Len(items) \in Nat
      /\ todo \subseteq 1 .. Len(items) /\ PlannedWork(items, plan, todo)
      /\ AttemptWork(retryLog, settled, pending, items, plan, todo)
      /\ retryNext = Len(retryLog) /\ Len(retryLog) \in Nat
      /\ pending \subseteq 1 .. Len(retryLog)
      /\ RetryPart(log, retryLog, settled, pending, retryNext, mainNext)
  BY <1>1, KeyFacts DEF KeyInv, PlannedWork
<1>3. /\ \A i \in unfinished : i \in 1 .. Len(items)
      /\ \A i \in 1 .. Len(items) : i \in unfinished <=> \E j \in todo : SameRun(plan, i, j)
      /\ \A i \in unfinished : i \in failedRuns <=> \E j \in todo : SameRun(plan, i, j) /\ InStage(j)
      /\ failedRuns \subseteq unfinished
  BY <1>2
<1>4. \A j \in todo : InStage(j) => \A k \in todo : ~ StageBefore(plan, k, j)
  BY DEF InStage
<1>5. kept = IF giveUp THEN unfinished \ failedRuns ELSE unfinished
  OBVIOUS
<1>6. attempt' \in 0 .. NumDelays - 1
  <2>1. attempt \in 0 .. NumDelays - 1 /\ NumDelays \in Nat /\ NumDelays # 0
    BY ExecutionAssumption DEF KeyInv, TypeOK, ExecutionAssumption
  <2>2. NextAttempt = attempt + 1
    BY DEF NextAttempt
  <2>3. QED
    BY <1>1, <2>1, <2>2
<1>7. ~ giveUp \/ giveUp
  OBVIOUS
<1> HIDE DEF unfinished, failedRuns, giveUp, kept
<1>8. PICK st2 : st2 = settled'
  OBVIOUS
<1>9. /\ settled \subseteq st2
      /\ giveUp => \A i \in failedRuns : EventOf(i) \in st2
      /\ \A e \in st2 \ settled : giveUp /\ \E i \in failedRuns : e = EventOf(i)
  BY <1>1, <1>8
<1>10. \A i \in todo : i \in unfinished
  BY <1>2, <1>3 DEF SameRun, SameStage
<1>11. \A i : EventOf(i) = retryLog[items[i]].event
  BY <1>1 DEF EventOf
<1>12. ASSUME NEW e \in st2 \ settled, NEW d \in 1 .. e - 1, Demand(log[d], log[e])
       PROVE  d \in st2
  <2> SUFFICES ASSUME d \notin settled PROVE d \in st2
    BY <1>9
  <2>1. PICK i \in failedRuns : e = EventOf(i)
    BY <1>9, <1>12
  <2>2. giveUp
    BY <1>9, <1>12
  <2>3. i \in 1 .. Len(items)
    BY <1>3
  <2>4. PICK k \in todo : EventOf(k) = d /\ Precedes(plan, k, i)
    BY <1>1, <1>12, <2>1, <2>3, WorkOrder
  <2>5. PICK j \in todo : SameRun(plan, i, j) /\ InStage(j)
    BY <1>3
  <2>6. ~ StageBefore(plan, k, i)
    BY <1>4, <2>5, RunsAreShared
  <2>7. SameRun(plan, k, i)
    BY <2>4, <2>6 DEF Precedes
  <2>8. SameRun(plan, k, j)
    BY <2>5, <2>7, RunsAreShared
  <2>9. k \in failedRuns
    BY <1>3, <1>10, <2>5, <2>8
  <2>10. QED
    BY <1>9, <2>2, <2>4, <2>9
<1>13. SettledInOrder(log, st2)
  <2>1. SettledInOrder(log, settled)
    BY DEF KeyInv
  <2>2. QED
    BY <1>9, <1>12, <2>1, SettlingInOrder
<1>14. RetryPart(log, retryLog, st2, pending, retryNext, mainNext)
  BY <1>2, <1>9, SettlingKeepsRetry
<1>15. PICK pend2 : pend2 = pending'
  OBVIOUS
<1>16. /\ \A i \in kept : items[i] \in pend2
       /\ \A x \in pend2 : \E i \in kept : x = items[i]
  BY <1>1, <1>15
\* What leaves is settled.
<1>17. ASSUME NEW x \in pending PROVE x \in pend2 \/ retryLog[x].event \in st2
  <2>1. PICK i \in 1 .. Len(items) : items[i] = x
    BY <1>2 DEF AttemptWork
  <2>2. CASE i \notin todo
    BY <1>2, <1>9, <2>1, <2>2 DEF AttemptWork
  <2>3. CASE i \in kept
    BY <1>16, <2>1, <2>3
  <2>4. CASE i \in todo /\ i \notin kept
    <3>1. giveUp /\ i \in failedRuns
      BY <1>5, <1>10, <2>4
    <3>2. QED
      BY <1>9, <1>11, <2>1, <3>1
  <2>5. QED
    BY <2>2, <2>3, <2>4
\* What leads a record that is not settled stays.
<1>18. ASSUME NEW x \in 1 .. Len(retryLog), NEW f \in 1 .. x, retryLog[x].event \notin st2,
              Leads(Headers(retryLog), f, x), Waits(f, pending, retryNext)
       PROVE  Waits(f, pend2, retryNext)
  <2>1. f \in pending
    <3>1. f \in Nat /\ ~ (f > retryNext)
      BY <1>2
    <3>2. QED
      BY <1>18, <3>1 DEF Waits
  <2>2. x \in pending
    <3>1. x \in 1 .. retryNext /\ retryLog[x].event \notin settled
      BY <1>2, <1>9, <1>18
    <3>2. QED
      BY <1>2, <3>1 DEF RetryPart, PendingKept
  <2>3. PICK a \in 1 .. Len(items) : items[a] = f
    BY <1>2, <2>1 DEF AttemptWork
  <2>4. PICK b \in 1 .. Len(items) : items[b] = x
    BY <1>2, <2>2 DEF AttemptWork
  <2>5. b \in todo
    <3>1. retryLog[items[b]].event \notin settled
      BY <1>9, <1>18, <2>4
    <3>2. QED
      BY <1>2, <3>1 DEF AttemptWork
  <2>6. \A i \in 1 .. Len(items) : plan.records[i] = Headers(retryLog)[items[i]]
    <3>1. \A i \in 1 .. Len(items) : items[i] \in 1 .. Len(retryLog)
      BY <1>2 DEF AttemptWork
    <3>2. QED
      BY <1>2, <3>1 DEF AttemptWork, Headers
  <2>7. a \in 1 .. b /\ Leads(plan.records, a, b)
    <3>1. \A i, j \in 1 .. Len(items) : i < j => items[i] < items[j]
      BY <1>2 DEF AttemptWork
    <3>2. items[a] \in 1 .. items[b] /\ Leads(Headers(retryLog), items[a], items[b])
      BY <1>18, <2>3, <2>4
    <3>3. QED
      BY ONLY <1>2, <2>6, <3>1, <3>2, a \in 1 .. Len(items), b \in 1 .. Len(items), LeadsPicked
  <2>8. SameRun(plan, a, b)
    <3>1. PlanSound(plan) /\ b \in Records(plan)
      BY <1>2 DEF PlannedWork, Records
    <3>2. /\ plan.segment[b] = plan.segment[a] /\ TagAt(plan, a) = TagAt(plan, b)
          /\ Rank(plan, a) = 1 /\ Rank(plan, b) = 1
      BY <2>7, <3>1, LedSharesStage
    <3>3. QED
      BY <3>2 DEF SameRun, SameStage, TagAt
  <2>9. a \in unfinished /\ b \in unfinished
    BY <1>3, <1>10, <2>5, <2>8
  <2>10. a \in kept
    <3> SUFFICES ASSUME a \notin kept PROVE FALSE
      OBVIOUS
    <3>1. giveUp /\ a \in failedRuns
      BY <1>5, <2>9
    <3>2. PICK j \in todo : SameRun(plan, a, j) /\ InStage(j)
      BY <1>3, <3>1
    <3>3. SameRun(plan, b, j)
      BY <2>8, <3>2, RunsAreShared
    <3>4. b \in failedRuns
      BY <1>3, <2>9, <3>2, <3>3
    <3>5. EventOf(b) \in st2
      BY <1>9, <3>1, <3>4
    <3>6. QED
      BY <1>11, <1>18, <2>4, <3>5
  <2>11. QED
    BY <1>16, <2>3, <2>10 DEF Waits
<1>19. RetryPart(log, retryLog, st2, pend2, retryNext, mainNext)
  <2>1. \A x \in 1 .. retryNext :
          x \in 1 .. retryNext /\ (x \in pending => x \in pend2 \/ retryLog[x].event \in st2)
    BY <1>17
  <2>2. \A x \in 1 .. Len(retryLog) : \A f \in 1 .. x :
          (retryLog[x].event \notin st2 /\ Leads(Headers(retryLog), f, x)
             /\ Waits(f, pending, retryNext)) => Waits(f, pend2, retryNext)
    BY <1>18
  <2>3. QED
    BY ONLY <1>14, <2>1, <2>2, LeavingKeepsRetry
<1>20. pend2 \subseteq pending
  <2>1. \A i \in kept : i \in 1 .. Len(items)
    BY <1>3, <1>5
  <2>2. QED
    BY <1>2, <1>16, <2>1 DEF AttemptWork
<1>21. st2 \subseteq Event
  <2>1. settled \subseteq Event
    BY DEF KeyInv, TypeOK
  <2>2. ASSUME NEW e \in st2 \ settled PROVE e \in Event
    <3>1. PICK i \in failedRuns : e = EventOf(i)
      BY <1>9
    <3>2. i \in 1 .. Len(items)
      BY <1>3
    <3>3. QED
      BY <1>1, <3>1, <3>2, EventOfIs
  <2>3. QED
    BY <2>1, <2>2
<1>22. TypeOK' /\ items' \in Seq(Nat)
  <2>1. pending' \subseteq retryStored + 1 .. retryNext
    BY <1>15, <1>20 DEF KeyInv, TypeOK
  <2>2. QED
    BY <1>1, <1>6, <1>8, <1>21, <2>1 DEF KeyInv, TypeOK, server, Event
<1>23. PlannedWork(items', plan', todo')
  BY <1>1, EmptyPlanIsSound DEF PlannedWork
<1>24. QED
  BY <1>1, <1>2, <1>8, <1>13, <1>15, <1>19, <1>22, <1>23 DEF KeyInv, server

-----------------------------------------------------------------------------
\* Nothing is published, written or settled at first.
LEMMA InitKeyInv == Init => KeyInv
<1> SUFFICES ASSUME Init PROVE KeyInv
  OBVIOUS
<1>1. /\ log = <<>> /\ retryLog = <<>> /\ mainStored = 0 /\ retryStored = 0
      /\ pc = "drain" /\ mainNext = 0 /\ retryNext = 0 /\ pending = {} /\ attempt = 0
      /\ items = <<>> /\ plan = EmptyPlan /\ todo = {} /\ failed = {}
      /\ settled = {} /\ crashes = 0
  BY DEF Init
<1>2. NumEvents \in Nat /\ MaxCrashes \in Nat /\ NumDelays \in Nat /\ NumDelays # 0
  BY ExecutionAssumption DEF ExecutionAssumption
<1>3. /\ log \in Seq(Record) /\ Len(log) = 0 /\ items \in Seq(Nat) /\ Len(items) = 0
      /\ retryLog \in Seq([event : Event, header : Record]) /\ Len(retryLog) = 0
  BY <1>1
<1>4. TypeOK
  BY <1>1, <1>2, <1>3 DEF TypeOK
<1>5. PlannedWork(items, plan, todo)
  BY <1>1, <1>3, EmptyPlanIsSound DEF PlannedWork
<1>6. RetryPart(log, retryLog, settled, pending, retryNext, mainNext)
  <2>1. 1 .. Len(retryLog) = {} /\ 1 .. retryNext = {} /\ 1 .. mainNext = {}
    BY <1>1, <1>3
  <2>2. QED
    BY <2>1 DEF RetryPart, FencesWritten, OrderWritten, PendingKept, CommittedKept
<1>7. SettledInOrder(log, settled)
  BY <1>1 DEF SettledInOrder
<1>8. QED
  BY <1>1, <1>3, <1>4, <1>5, <1>6, <1>7 DEF KeyInv

\* Every step keeps the invariant.
LEMMA NextKeyInv == KeyInv /\ [Next]_vars => KeyInv'
<1> SUFFICES ASSUME KeyInv, [Next]_vars PROVE KeyInv'
  OBVIOUS
<1>0. failed \subseteq Tag /\ pc \in {"drain", "due", "attempt", "commit", "poll", "plan", "execute", "store"}
  BY DEF KeyInv, TypeOK
<1>1. CASE Drain
  BY <1>1, DrainKeeps
<1>2. CASE StartAttempt
  BY <1>2, StartAttemptKeeps
<1>3. CASE FinishAttempt
  BY <1>3, FinishKeeps
<1>4. CASE CommitRetry
  BY <1>4, CommitRetryKeeps
<1>5. CASE PollNothing
  BY <1>0, <1>5, ChoosingKeeps DEF PollNothing, work
<1>6. CASE PollMain
  BY <1>6, PollMainKeeps
<1>7. CASE DivertBatch
  BY <1>7, WriteKeeps DEF DivertBatch
<1>8. CASE StartBatch
  BY <1>0, <1>8, ChoosingKeeps DEF StartBatch, work
<1>9. CASE WriteFailedBatch
  BY <1>9, WriteKeeps DEF WriteFailedBatch
<1>10. CASE DropFailedBatch
  BY <1>10, DropKeeps
<1>11. CASE FinishBatch
  BY <1>0, <1>11, ChoosingKeeps DEF FinishBatch, work
<1>12. CASE StoreMain
  BY <1>12, StoreMainKeeps
<1>13. CASE \E i \in todo : HandleNext(i)
  BY <1>13, HandleKeeps
<1>14. CASE NothingDue
  BY <1>0, <1>14, ChoosingKeeps DEF NothingDue, work
<1>15. CASE \E i \in todo : FailRun(i)
  <2>1. PICK i \in todo : FailRun(i)
    BY <1>15
  <2>2. TagOf(i) \in Tag
    <3>1. todo \subseteq 1 .. Len(items) /\ PlanSound(plan) /\ Len(plan.records) = Len(items)
      BY DEF KeyInv, PlannedWork
    <3>2. plan.records \in Seq(Record) /\ i \in 1 .. Len(plan.records)
      BY <3>1 DEF PlanSound, PlanInv, WellFormed
    <3>3. plan.records[i] \in Record
      BY <3>2
    <3>4. QED
      BY <3>3 DEF TagOf, Record
  <2>3. /\ failed' = failed \cup {TagOf(i)} /\ pc \in {"attempt", "execute"}
        /\ UNCHANGED <<server, pc, task, items, plan, todo, settled, crashes>>
    BY <2>1 DEF FailRun
  <2>4. failed' \subseteq Tag
    BY <1>0, <2>2, <2>3
  <2>5. pc = "execute" => pending = {}
    BY DEF KeyInv
  <2>6. QED
    BY <1>0, <2>3, <2>4, <2>5, ChoosingKeeps
<1>16. CASE Crash
  BY <1>16, CrashKeeps
<1>17. CASE \E tag \in Tag, ordering \in Ordering : Publish(tag, ordering)
  BY <1>17, PublishKeeps
<1>18. CASE UNCHANGED vars
  <2>1. pc = "execute" => pending = {}
    BY DEF KeyInv
  <2>2. QED
    BY <1>0, <1>18, <2>1, ChoosingKeeps DEF vars, work
<1>19. QED
  BY <1>1, <1>2, <1>3, <1>4, <1>5, <1>6, <1>7, <1>8, <1>9, <1>10, <1>11, <1>12, <1>13,
     <1>14, <1>15, <1>16, <1>17, <1>18 DEF Next, TaskStep

\* The invariant holds throughout.
THEOREM KeyInvariant == Spec => []KeyInv
<1>1. QED
  BY InitKeyInv, NextKeyInv, PTL DEF Spec

\* The variables have their types.
THEOREM KeyTypeOK == Spec => []TypeOK
<1>1. KeyInv => TypeOK
  BY DEF KeyInv
<1>2. QED
  BY <1>1, KeyInvariant, PTL

\* Through failures, diversions, attempts that are planned again from what
\* encode_key wrote, give-ups and crashes, no event is settled before one that
\* EventAtomicOrdering orders before it, in either direction of a fence.
THEOREM DemandsAreKept == Spec => []DemandsKept
<1>1. KeyInv => DemandsKept
  <2> SUFFICES ASSUME KeyInv PROVE DemandsKept
    OBVIOUS
  <2>1. ASSUME NEW d \in Event, NEW e \in Event, d < e, e \in settled,
               Required(log[d], log[e]) \/ Fenced(log[d], log[e])
        PROVE  d \in settled
    <3>1. log[d] \in Record /\ log[e] \in Record /\ Len(log) \in Nat
      BY KeyFacts, RecordsArePublished DEF Event
    <3>2. log[d].key = log[e].key
      BY <2>1 DEF Required, Fenced
    <3>3. Demand(log[d], log[e])
      BY <2>1, <3>1, <3>2, DemandIs
    <3>4. d \in 1 .. e - 1
      BY <2>1, <3>1 DEF Event
    <3>5. QED
      BY <2>1, <3>3, <3>4 DEF KeyInv, SettledInOrder
  <2>2. QED
    BY <2>1 DEF DemandsKept, OrderKept, FencesKept
<1>2. QED
  BY <1>1, KeyInvariant, PTL

\* Whatever was committed is settled or waits in the retry partition above the
\* offset stored there, where a restarted task finds it.
THEOREM NothingIsForgotten == Spec => []NothingForgotten
<1>1. KeyInv => NothingForgotten
  <2> SUFFICES ASSUME KeyInv, NEW e \in 1 .. mainStored, e \notin settled
               PROVE  \E p \in retryStored + 1 .. Len(retryLog) : retryLog[p].event = e
    BY DEF NothingForgotten
  <2>1. /\ mainStored \in Nat /\ mainNext \in Nat /\ mainStored <= mainNext
        /\ retryStored \in Nat /\ retryNext \in Nat /\ Len(retryLog) \in Nat
        /\ retryStored <= retryNext /\ retryNext <= Len(retryLog)
        /\ pending \subseteq retryStored + 1 .. retryNext
    BY KeyFacts DEF KeyInv, TypeOK
  <2>2. e \in 1 .. mainNext
    BY <2>1
  <2>3. PICK p \in 1 .. Len(retryLog) : retryLog[p].event = e
    BY <2>2 DEF KeyInv, RetryPart, CommittedKept, Kept
  <2>4. p > retryNext \/ p \in pending
    <3>1. p \in 1 .. retryNext \/ p > retryNext
      BY <2>1
    <3>2. QED
      BY <2>3, <3>1 DEF KeyInv, RetryPart, PendingKept
  <2>5. p \in retryStored + 1 .. Len(retryLog)
    BY <2>1, <2>4
  <2>6. QED
    BY <2>3, <2>5
<1>2. QED
  BY <1>1, KeyInvariant, PTL
=============================================================================
