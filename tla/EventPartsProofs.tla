-------------------------- MODULE EventPartsProofs --------------------------
(***************************************************************************)
(* Theorems about the parts of wakuwaku-iggy around the partition task:    *)
(* the planner, for batches of any length over any keys and types; the     *)
(* start of consumers, for any processes, topics and handlers; the         *)
(* publisher, for any callers, keys and events; the headers, for words and *)
(* bytes of any size; and runs in their handler, for any values, chunk     *)
(* sizes and arrivals.                                                     *)
(***************************************************************************)
EXTENDS Planner, ConsumerStart, Publisher, Headers, RunHandling,
        FiniteSetTheorems, PlanProofs

-----------------------------------------------------------------------------
\* Planner.

\* Every reachable plan is sound.
LEMMA PlansAreSound == Spec => []PlanSound(plan)
<1>1. Init => PlanSound(plan)
  BY EmptyPlanIsSound DEF Init
<1>2. PlanSound(plan) /\ [Next]_plan => PlanSound(plan)'
  BY AssignKeepsSound DEF Next, Walk
<1>3. QED
  BY <1>1, <1>2, PTL DEF Spec

\* The plan of any batch keeps same-type records of a key in log order, lets
\* nothing that came after an Acquire run before it and nothing that came before
\* a Release run after it (Plan::new).
THEOREM PlanRespectsOrder == Spec => []RespectsOrder
<1>1. PlanSound(plan) => RespectsOrder
  <2> SUFFICES ASSUME PlanSound(plan), NEW i \in Index, NEW j \in Index, i < j,
                      Required(plan.records[i], plan.records[j])
               PROVE  Precedes(plan, i, j)
    BY DEF RespectsOrder
  <2>1. i \in Records(plan) /\ j \in Records(plan) /\ KeyAt(plan, i) = KeyAt(plan, j)
    BY DEF Index, Records, Required, KeyAt
  <2>0. PlanInv(plan)
    BY DEF PlanSound
  <2>2. \/ TagAt(plan, i) = TagAt(plan, j)
        \/ plan.records[i].ordering \in Acquiring
        \/ plan.records[j].ordering = "Release"
        \/ plan.records[j].ordering \in Acquiring
    BY DEF Required, TagAt, Acquiring
  <2>3. QED
    BY <2>0, <2>1, <2>2, SameTypeKeepsLogOrder, AcquireIsHead, ReleaseIsTail, AcquireKeepsEarlier
<1>2. QED
  BY <1>1, PlansAreSound, PTL

\* "Acquire and AcqRel also keep earlier events of the key before the fence, and
\* Release also keeps later events after it": in the plan of any batch.
THEOREM PlanFencesBothWays == Spec => []FencesBothWays
<1>1. PlanSound(plan) => FencesBothWays
  <2> SUFFICES ASSUME PlanSound(plan), NEW i \in Index, NEW j \in Index, i < j,
                      Fenced(plan.records[i], plan.records[j])
               PROVE  Precedes(plan, i, j)
    BY DEF FencesBothWays
  <2>1. i \in Records(plan) /\ j \in Records(plan) /\ KeyAt(plan, i) = KeyAt(plan, j)
    BY DEF Index, Records, Fenced, KeyAt
  <2>0. PlanInv(plan)
    BY DEF PlanSound
  <2>2. \/ plan.records[i].ordering = "Release"
        \/ plan.records[j].ordering \in Acquiring
    BY DEF Fenced
  <2>3. QED
    BY <2>0, <2>1, <2>2, ReleaseKeepsLater, AcquireKeepsEarlier
<1>2. QED
  BY <1>1, PlansAreSound, PTL

\* Every record of a batch has exactly one segment, that exists, and what the
\* walk keeps open are segments: the vectors of Plan::new fit together.
THEOREM PlanTypeOK == Spec => []TypeOK
<1>1. PlanSound(plan) => TypeOK
  BY DEF PlanSound, PlanInv, WellFormed, TypeOK
<1>2. QED
  BY <1>1, PlansAreSound, PTL

\* Retry records keep what the headers of the original events demand, when a
\* whole plan is written (encode_key) and planned again.
THEOREM ReencodingKeeps == Spec => []ReencodingKeepsDemands
<1> DEFINE Wanted(i, j) == i < j /\ (Required(plan.records[i], plan.records[j])
                                    \/ Fenced(plan.records[i], plan.records[j]))
<1>1. ASSUME PlanSound(plan), NEW k \in Key, NEW S, S = {i \in Index : plan.records[i].key = k},
             NEW m \in 1 .. Cardinality(S), NEW n \in 1 .. Cardinality(S),
             Wanted(WrittenOrder(plan, S)[m], WrittenOrder(plan, S)[n])
      PROVE  Precedes(PlanOf(Encode(plan, S)), m, n)
  <2> DEFINE o == WrittenOrder(plan, S)
             e == Encode(plan, S)
             again == PlanOf(e)
  <2>1. WellFormed(plan) /\ S \subseteq Records(plan)
    BY <1>1 DEF PlanSound, PlanInv, Index, Records
  <2>2. /\ Cardinality(S) \in Nat
        /\ \A x \in 1 .. Cardinality(S) : o[x] \in S
        /\ \A x, y \in 1 .. Cardinality(S) : x < y <=> WrittenBefore(plan, o[x], o[y])
    BY <2>1, WrittenOrderIs
  <2>3. /\ e \in Seq(Record) /\ Len(e) = Cardinality(S)
        /\ \A x \in 1 .. Cardinality(S) :
             e[x].key = KeyAt(plan, o[x]) /\ e[x].tag = TagAt(plan, o[x])
    BY <2>1, EncodingIs
  <2>4. PlanSound(again) /\ again.records = e
    <3> HIDE DEF e
    <3>1. QED
      BY <2>3, PlanOfIsSound
  <2>5. /\ o[m] \in Records(plan) /\ o[n] \in Records(plan) /\ o[m] < o[n]
        /\ KeyAt(plan, o[m]) = k /\ KeyAt(plan, o[n]) = k
    BY <1>1, <2>1, <2>2 DEF KeyAt
  <2>6. plan.records[o[m]] \in Record /\ plan.records[o[n]] \in Record
    BY <2>1, <2>5 DEF WellFormed, Records
  <2>7. Demand(plan.records[o[m]], plan.records[o[n]])
    BY <1>1, <2>5, <2>6, DemandIs DEF KeyAt
  <2>8. WrittenBefore(plan, o[m], o[n])
    BY <1>1, <2>5, <2>7, PlanKeepsDemand, PrecedingIsWrittenBefore
  <2>9. m < n
    BY <2>2, <2>8
  <2>10. \/ TagAt(plan, o[m]) = TagAt(plan, o[n])
         \/ Barrier(e, m) \/ Barrier(e, n)
    <3>1. plan.records[o[m]].ordering # "Relaxed" => Barrier(e, m)
      BY <1>1, <2>1, EncodingKeepsFences
    <3>2. plan.records[o[n]].ordering # "Relaxed" => Barrier(e, n)
      BY <1>1, <2>1, EncodingKeepsFences
    <3>3. QED
      BY <2>7, <3>1, <3>2 DEF Demand, TagAt
  <2> HIDE DEF again, e, o
  <2>11. m \in Records(again) /\ n \in Records(again)
    BY <2>2, <2>3, <2>4 DEF Records
  <2>12. KeyAt(again, m) = KeyAt(again, n)
    BY <2>3, <2>4, <2>5 DEF KeyAt
  <2>13. TagAt(plan, o[m]) = TagAt(plan, o[n]) => TagAt(again, m) = TagAt(again, n)
    BY <2>3, <2>4 DEF TagAt
  <2>14. Precedes(again, m, n)
    BY <2>4, <2>9, <2>10, <2>11, <2>12, <2>13, BarriersKeepDemand
  <2>15. QED
    BY <2>14 DEF again, e
<1>2. PlanSound(plan) => ReencodingKeepsDemands
  BY <1>1 DEF ReencodingKeepsDemands, KeptByReencoding
<1>3. QED
  BY <1>2, PlansAreSound, PTL
-----------------------------------------------------------------------------
\* Start of consumers.

\* A list that start accepted, with the partitions it is to consume.
Accepted(s) ==
  /\ DOMAIN starter[s].list = 1 .. Len(starter[s].list) /\ Len(starter[s].list) \in Nat \ {0}
  /\ \A i \in DOMAIN starter[s].list : starter[s].list[i].topic \in Topics
  /\ NoDuplicate(starter[s].list)
  /\ starter[s].partitions \subseteq Nat

\* The main topic still has the partitions it had when it was read.
MainRead(s) == starter[s].count \in Nat \ {0} /\ starter[s].count <= main[TopicOf(s)]

\* So has the retry topic, in which there were as many.
RetryRead(s) ==
  /\ starter[s].count <= retry[TopicOf(s)]
  /\ \A p \in starter[s].partitions : p < starter[s].count

TopicsOK == main \in [Topics -> Nat] /\ retry \in [Topics -> Nat]

StarterOK(s) ==
  /\ "at" \in DOMAIN starter[s]
  /\ starter[s].at \in {"idle", "refused", "main", "retry", "create", "running"}
  /\ starter[s].at \in {"main", "retry", "create", "running"} => Accepted(s)
  /\ starter[s].at \in {"retry", "create", "running"} => MainRead(s)
  /\ starter[s].at = "running" => RetryRead(s)

StartInv == TopicsOK /\ DOMAIN starter = Starters /\ \A s \in Starters : StarterOK(s)

-----------------------------------------------------------------------------
\* The topic of an accepted list exists as a name.
LEMMA TopicIs ==
  ASSUME NEW s \in Starters, Accepted(s)
  PROVE  TopicOf(s) \in Topics
BY DEF Accepted, TopicOf

\* Topics that only grow disturb no starter that stays where it is.
LEMMA GrowingTopics ==
  ASSUME StartInv, TopicsOK', NEW s \in Starters, starter'[s] = starter[s],
         \A t \in Topics : main[t] <= main'[t] /\ retry[t] <= retry'[t]
  PROVE  StarterOK(s)'
<1> USE DEF StarterOK
<1>1. /\ TopicOf(s)' = TopicOf(s) /\ (Accepted(s) => Accepted(s)')
      /\ StarterOK(s)
  BY DEF TopicOf, Accepted, StartInv
<1>2. CASE ~ Accepted(s)
  BY <1>1, <1>2
<1>3. CASE Accepted(s)
  <2>1. TopicOf(s) \in Topics
    BY <1>3, TopicIs
  <2>2. /\ main[TopicOf(s)] <= main'[TopicOf(s)] /\ retry[TopicOf(s)] <= retry'[TopicOf(s)]
        /\ main[TopicOf(s)] \in Nat /\ main'[TopicOf(s)] \in Nat
        /\ retry[TopicOf(s)] \in Nat /\ retry'[TopicOf(s)] \in Nat
    BY <2>1 DEF StartInv, TopicsOK
  <2>3. MainRead(s) => MainRead(s)'
    BY <1>1, <2>2 DEF MainRead
  <2>4. MainRead(s) /\ RetryRead(s) => RetryRead(s)'
    BY <1>1, <2>2 DEF MainRead, RetryRead
  <2>5. QED
    BY <1>1, <2>3, <2>4
<1>4. QED
  BY <1>2, <1>3

\* Whoever becomes something else leaves the others alone.
LEMMA OneBecomes ==
  ASSUME StartInv, TopicsOK', NEW s \in Starters, NEW state, Becomes(s, state),
         \A t \in Topics : main[t] <= main'[t] /\ retry[t] <= retry'[t],
         StarterOK(s)'
  PROVE  StartInv'
<1>1. DOMAIN starter' = Starters /\ \A r \in Starters \ {s} : starter'[r] = starter[r]
  BY DEF StartInv, Becomes
<1>2. QED
  BY <1>1, GrowingTopics DEF StartInv

\* A call that is refused is over.
LEMMA RefusedIs ==
  ASSUME StartInv, NEW s \in Starters, NEW why, Becomes(s, Refused(why))
  PROVE  StarterOK(s)'
<1>1. starter'[s] = Refused(why)
  BY DEF StartInv, Becomes
<1>2. starter'[s].at = "refused" /\ "at" \in DOMAIN starter'[s]
  BY <1>1 DEF Refused
<1>3. QED
  BY <1>2 DEF StarterOK

\* What a bounded list is made of.
LEMMA ListIs ==
  ASSUME NEW S, NEW n \in Nat, NEW list \in BoundedSeq(S, n)
  PROVE  /\ DOMAIN list = 1 .. Len(list) /\ Len(list) \in Nat
         /\ \A i \in DOMAIN list : list[i] \in S
         /\ list # <<>> => Len(list) # 0
<1>1. PICK m \in 0 .. n : list \in [1 .. m -> S]
  BY DEF BoundedSeq, SeqOf
<1>2. list \in Seq(S) /\ Len(list) = m
  BY <1>1
<1>3. QED
  BY <1>1, <1>2

\* The call of start that passes its checks has a list and partitions.
LEMMA CallKeeps ==
  ASSUME StartInv, NEW s \in Starters, StartCall(s)
  PROVE  StartInv'
<1>1. TopicsOK' /\ \A t \in Topics : main[t] <= main'[t] /\ retry[t] <= retry'[t]
  BY DEF StartCall, StartInv, TopicsOK
<1>2. PICK list \in BoundedSeq(Handler, MaxHandlers) \ {<<>>},
           partitions \in SUBSET (0 .. MaxPartitions - 1), usable \in BOOLEAN :
       Becomes(s,
         IF ~ usable \/ partitions = {} THEN Refused("InvalidConfig")
         ELSE IF ~ OneTopic(list) THEN Refused("MixedTopics")
         ELSE IF ~ NoDuplicate(list) THEN Refused("DuplicateEventType")
         ELSE [at |-> "main", list |-> list, partitions |-> partitions])
  BY DEF StartCall
<1>3. CASE \E why : Becomes(s, Refused(why))
  BY <1>1, <1>3, RefusedIs, OneBecomes
<1>4. CASE /\ NoDuplicate(list)
           /\ Becomes(s, [at |-> "main", list |-> list, partitions |-> partitions])
  <2>1. /\ starter'[s] = [at |-> "main", list |-> list, partitions |-> partitions]
    BY <1>4 DEF Becomes, StartInv
  <2>2. /\ starter'[s].at = "main" /\ starter'[s].list = list
        /\ starter'[s].partitions = partitions
    BY <2>1
  <2>3. /\ DOMAIN list = 1 .. Len(list) /\ Len(list) \in Nat \ {0}
        /\ \A i \in DOMAIN list : list[i] \in Handler
    BY <1>2, ListIs, StartAssumption
  <2>5. partitions \subseteq Nat
    BY <1>2, StartAssumption DEF StartAssumption
  <2>6. Accepted(s)'
    BY <2>2, <2>3, <2>5, <1>4 DEF Accepted, Handler
  <2>7. StarterOK(s)'
    BY <2>1, <2>2, <2>6 DEF StarterOK
  <2>8. QED
    BY <2>7, <1>1, <1>4, OneBecomes
<1>5. QED
  BY <1>2, <1>3, <1>4

\* A call that goes on keeps its list and its partitions.
LEMMA GoesOn ==
  ASSUME NEW s \in Starters, Accepted(s),
         starter'[s].list = starter[s].list, starter'[s].partitions = starter[s].partitions
  PROVE  Accepted(s)' /\ TopicOf(s)' = TopicOf(s) /\ TopicOf(s) \in Topics
BY TopicIs DEF Accepted, TopicOf

\* What was read of the main topic stays true of it.
LEMMA MainKeeps ==
  ASSUME StartInv, NEW s \in Starters, GetMain(s)
  PROVE  StartInv'
<1>1. TopicsOK' /\ \A t \in Topics : main[t] <= main'[t] /\ retry[t] <= retry'[t]
  BY DEF GetMain, StartInv, TopicsOK
<1>2. CASE Becomes(s, Refused("TopicNotFound"))
  BY <1>1, <1>2, RefusedIs, OneBecomes
<1>3. CASE /\ main[TopicOf(s)] # 0
           /\ Becomes(s, [at |-> "retry", list |-> starter[s].list,
                  partitions |-> starter[s].partitions, count |-> main[TopicOf(s)]])
  <2>1. starter'[s] = [at |-> "retry", list |-> starter[s].list,
                  partitions |-> starter[s].partitions, count |-> main[TopicOf(s)]]
    BY <1>3 DEF Becomes, StartInv
  <2>2. /\ starter'[s].at = "retry" /\ starter'[s].list = starter[s].list
        /\ starter'[s].partitions = starter[s].partitions
        /\ starter'[s].count = main[TopicOf(s)]
    BY <2>1
  <2>3. Accepted(s)
    BY DEF StartInv, StarterOK, GetMain, At
  <2>4. Accepted(s)' /\ TopicOf(s)' = TopicOf(s) /\ TopicOf(s) \in Topics
    BY <2>2, <2>3, GoesOn
  <2>5. main' = main /\ main[TopicOf(s)] \in Nat
    BY <2>4 DEF GetMain, StartInv, TopicsOK
  <2>6. MainRead(s)'
    BY <1>3, <2>2, <2>4, <2>5 DEF MainRead
  <2>7. StarterOK(s)'
    BY <2>1, <2>2, <2>4, <2>6 DEF StarterOK
  <2>8. QED
    BY <2>7, <1>1, <1>3, OneBecomes
<1>4. QED
  BY <1>2, <1>3 DEF GetMain

\* Whoever goes on to create the retry topic, or to run, with a retry topic
\* that has at least the partitions read of the main one, is as it should be.
LEMMA ProceedKeeps ==
  ASSUME StartInv, TopicsOK', NEW s \in Starters, starter[s].at \in {"retry", "create"},
         \A t \in Topics : main[t] <= main'[t] /\ retry[t] <= retry'[t],
         \/ Becomes(s, [starter[s] EXCEPT !.at = "create"])
         \/ starter[s].count <= retry'[TopicOf(s)] /\ Becomes(s, Spawned(s))
  PROVE  StartInv'
<1>1. CASE \E why : Becomes(s, Refused(why))
  BY <1>1, RefusedIs, OneBecomes
<1>2. CASE \E at \in {"create", "running"} :
             /\ Becomes(s, [starter[s] EXCEPT !.at = at])
             /\ at = "running" => /\ starter[s].count <= retry'[TopicOf(s)]
                                  /\ \A p \in starter[s].partitions : p < starter[s].count
  <2>1. PICK at \in {"create", "running"} :
             /\ Becomes(s, [starter[s] EXCEPT !.at = at])
             /\ at = "running" => /\ starter[s].count <= retry'[TopicOf(s)]
                                  /\ \A p \in starter[s].partitions : p < starter[s].count
    BY <1>2
  <2>2. starter'[s] = [starter[s] EXCEPT !.at = at]
    BY <2>1 DEF Becomes, StartInv
  <2>3. /\ starter'[s].list = starter[s].list
        /\ starter'[s].partitions = starter[s].partitions
        /\ starter'[s].count = starter[s].count
    BY <2>2
  <2>4. starter'[s].at = at /\ "at" \in DOMAIN starter'[s]
    BY <2>2 DEF StartInv, StarterOK
  <2>5. Accepted(s) /\ MainRead(s)
    BY DEF StartInv, StarterOK
  <2>6. Accepted(s)' /\ TopicOf(s)' = TopicOf(s) /\ TopicOf(s) \in Topics
    BY <2>3, <2>5, GoesOn
  <2>7. /\ main[TopicOf(s)] \in Nat /\ main'[TopicOf(s)] \in Nat
        /\ main[TopicOf(s)] <= main'[TopicOf(s)]
    BY <2>6 DEF StartInv, TopicsOK
  <2>8. MainRead(s)'
    BY <2>3, <2>5, <2>6, <2>7 DEF MainRead
  <2>9. starter'[s].at = "running" => RetryRead(s)'
    BY <2>1, <2>3, <2>4, <2>6 DEF RetryRead
  <2>10. StarterOK(s)'
    BY <2>1, <2>4, <2>6, <2>8, <2>9 DEF StarterOK
  <2>11. QED
    BY <2>1, <2>10, OneBecomes
<1>3. QED
  BY <1>1, <1>2 DEF Spawned

\* The retry topic that is found is used only if it has as many partitions.
LEMMA RetryKeeps ==
  ASSUME StartInv, NEW s \in Starters, GetRetry(s)
  PROVE  StartInv'
<1>1. TopicsOK' /\ \A t \in Topics : main[t] <= main'[t] /\ retry[t] <= retry'[t]
  BY DEF GetRetry, StartInv, TopicsOK
<1>2. starter[s].at \in {"retry", "create"}
  BY DEF GetRetry, At
<1>3. CASE Becomes(s, Refused("PartitionCountMismatch"))
  BY <1>1, <1>3, RefusedIs, OneBecomes
<1>4. CASE Becomes(s, [starter[s] EXCEPT !.at = "create"])
  BY <1>1, <1>2, <1>4, ProceedKeeps
<1>5. CASE retry[TopicOf(s)] = starter[s].count /\ Becomes(s, Spawned(s))
  <2>1. Accepted(s) /\ MainRead(s)
    BY <1>2 DEF StartInv, StarterOK
  <2>2. retry' = retry /\ starter[s].count \in Nat
    BY <2>1 DEF GetRetry, MainRead
  <2>3. starter[s].count <= retry'[TopicOf(s)]
    BY <1>5, <2>2
  <2>4. QED
    BY <1>1, <1>2, <1>5, <2>3, ProceedKeeps
<1>6. QED
  BY <1>3, <1>4, <1>5 DEF GetRetry

\* Creating the retry topic only grows it, and gives it what was read of the
\* main topic.
LEMMA CreatingGrows ==
  ASSUME StartInv, NEW s \in Starters, At(s, "create"), main' = main,
         \/ retry' = retry
         \/ retry[TopicOf(s)] = 0 /\ retry' = [retry EXCEPT ![TopicOf(s)] = starter[s].count]
  PROVE  /\ TopicsOK' /\ \A t \in Topics : main[t] <= main'[t] /\ retry[t] <= retry'[t]
         /\ retry' # retry => starter[s].count <= retry'[TopicOf(s)]
<1>1. Accepted(s) /\ MainRead(s)
  BY DEF StartInv, StarterOK, At
<1>2. TopicOf(s) \in Topics /\ starter[s].count \in Nat
  BY <1>1, TopicIs DEF MainRead
<1>3. main \in [Topics -> Nat] /\ retry \in [Topics -> Nat]
  BY DEF StartInv, TopicsOK
<1>4. CASE retry' = retry
  BY <1>3, <1>4 DEF TopicsOK
<1>5. CASE retry[TopicOf(s)] = 0 /\ retry' = [retry EXCEPT ![TopicOf(s)] = starter[s].count]
  <2>1. /\ retry' \in [Topics -> Nat] /\ retry'[TopicOf(s)] = starter[s].count
        /\ \A t \in Topics : t # TopicOf(s) => retry'[t] = retry[t]
    BY <1>2, <1>3, <1>5
  <2>2. \A t \in Topics : main[t] <= main'[t] /\ retry[t] <= retry'[t]
    BY <1>2, <1>3, <1>5, <2>1
  <2>3. QED
    BY <1>2, <1>3, <2>1, <2>2 DEF TopicsOK
<1>6. QED
  BY <1>4, <1>5

\* The process that creates the retry topic may run on it.
LEMMA CreateKeeps ==
  ASSUME StartInv, NEW s \in Starters, CreateRetry(s)
  PROVE  StartInv'
<1>1. At(s, "create") /\ main' = main
  BY DEF CreateRetry
<1>2. CASE retry' = retry /\ Becomes(s, Refused("Iggy"))
  BY <1>1, <1>2, CreatingGrows, RefusedIs, OneBecomes
<1>3. CASE /\ retry[TopicOf(s)] = 0
           /\ retry' = [retry EXCEPT ![TopicOf(s)] = starter[s].count]
           /\ Becomes(s, Spawned(s))
  <2>1. Accepted(s) /\ MainRead(s)
    BY <1>1 DEF StartInv, StarterOK, At
  <2>2. TopicOf(s) \in Topics /\ starter[s].count \in Nat
    BY <2>1, TopicIs DEF MainRead
  <2>3. retry'[TopicOf(s)] = starter[s].count
    BY <1>3, <2>2 DEF StartInv, TopicsOK
  <2>4. starter[s].count <= retry'[TopicOf(s)]
    BY <2>2, <2>3
  <2>5. starter[s].at \in {"retry", "create"}
    BY <1>1 DEF At
  <2>6. TopicsOK' /\ \A t \in Topics : main[t] <= main'[t] /\ retry[t] <= retry'[t]
    BY <1>1, <1>3, CreatingGrows
  <2>7. QED
    BY <1>3, <2>4, <2>5, <2>6, ProceedKeeps
<1>4. QED
  BY <1>2, <1>3 DEF CreateRetry

\* A failed request ends the call, whether or not it created the retry topic.
LEMMA FailureKeeps ==
  ASSUME StartInv, NEW s \in Starters, RequestFails(s)
  PROVE  StartInv'
<1>1. Becomes(s, Refused("Iggy"))
  BY DEF RequestFails
<1>2. TopicsOK' /\ \A t \in Topics : main[t] <= main'[t] /\ retry[t] <= retry'[t]
  <2>1. CASE At(s, "create")
    BY <2>1, CreatingGrows DEF RequestFails
  <2>2. CASE ~ At(s, "create")
    BY <2>2 DEF RequestFails, StartInv, TopicsOK
  <2>3. QED
    BY <2>1, <2>2
<1>3. QED
  BY <1>1, <1>2, RefusedIs, OneBecomes

\* Partitions that are added disturb nobody.
LEMMA GrowKeeps ==
  ASSUME StartInv, Grow
  PROVE  StartInv'
<1>1. main \in [Topics -> Nat] /\ retry \in [Topics -> Nat]
  BY DEF StartInv, TopicsOK
<1>2. PICK t \in Existing :
       \/ main' = [main EXCEPT ![t] = @ + 1] /\ retry' = retry
       \/ retry' = [retry EXCEPT ![t] = @ + 1] /\ main' = main
  BY DEF Grow
<1>3. t \in Topics
  BY StartAssumption
<1>4. /\ main' \in [Topics -> Nat] /\ retry' \in [Topics -> Nat]
      /\ \A u \in Topics : main[u] <= main'[u] /\ retry[u] <= retry'[u]
  BY <1>1, <1>2, <1>3
<1>5. TopicsOK'
  BY <1>4 DEF TopicsOK
<1>6. starter' = starter
  BY DEF Grow
<1>7. QED
  BY <1>4, <1>5, <1>6, GrowingTopics DEF StartInv

\* Nothing happens.
LEMMA StartStutters ==
  ASSUME StartInv, UNCHANGED startVars
  PROVE  StartInv'
<1>1. TopicsOK' /\ starter' = starter
      /\ \A t \in Topics : main[t] <= main'[t] /\ retry[t] <= retry'[t]
  BY DEF StartInv, TopicsOK, startVars
<1>2. QED
  BY <1>1, GrowingTopics DEF StartInv

LEMMA StartBegins ==
  ASSUME StartInit
  PROVE  StartInv
<1>1. TopicsOK
  BY DEF StartInit, TopicsOK
<1>2. DOMAIN starter = Starters /\ \A s \in Starters : starter[s] = [at |-> "idle"]
  BY DEF StartInit, NotStarted
<1>3. \A s \in Starters : StarterOK(s)
  BY <1>2 DEF StarterOK
<1>4. QED
  BY <1>1, <1>2, <1>3 DEF StartInv

LEMMA StartSteps ==
  ASSUME StartInv, [StartNext]_startVars
  PROVE  StartInv'
<1>1. CASE \E s \in Starters : StartCall(s) \/ StartStep(s) \/ RequestFails(s)
  BY <1>1, CallKeeps, MainKeeps, RetryKeeps, CreateKeeps, FailureKeeps DEF StartStep
<1>2. CASE Grow
  BY <1>2, GrowKeeps
<1>3. CASE UNCHANGED startVars
  BY <1>3, StartStutters
<1>4. QED
  BY <1>1, <1>2, <1>3 DEF StartNext

-----------------------------------------------------------------------------
\* With one handler of a tag, the walk over the list stops at that one.
LEMMA OnlyHandler ==
  ASSUME NEW list, NoDuplicate(list), NEW i \in DOMAIN list, DOMAIN list \subseteq Nat
  PROVE  Dispatch(list, list[i].tag) = i
<1>1. \A a \in DOMAIN list, b \in DOMAIN list : list[a].tag = list[b].tag => a = b
  BY DEF NoDuplicate, TagsOf, IsInjective
<1>2. {j \in DOMAIN list : list[j].tag = list[i].tag} = {i}
  BY <1>1
<1>3. (CHOOSE k \in {i} : \A j \in {i} : j <= k) = i
  OBVIOUS
<1>4. QED
  BY <1>2, <1>3 DEF Dispatch

\* Each consumer that start let run has its partitions in the main topic and in
\* the retry topic, and every one of its handlers is reached, for any number of
\* processes, topics, partitions and failures.
THEOREM StartedConsumersCanRun == StartSpec => []StartedCanRun
<1>1. ASSUME StartInv
      PROVE  StartedCanRun
  <2>1. SUFFICES ASSUME NEW s \in Starters, Running(s)
                 PROVE  /\ \A p \in starter[s].partitions :
                             p < main[TopicOf(s)] /\ p < retry[TopicOf(s)]
                        /\ \A i \in DOMAIN starter[s].list :
                             Dispatch(starter[s].list, starter[s].list[i].tag) = i
    BY DEF StartedCanRun
  <2>2. Accepted(s) /\ MainRead(s) /\ RetryRead(s)
    BY <1>1, <2>1 DEF StartInv, StarterOK, Running, At
  <2>3. TopicOf(s) \in Topics
    BY <2>2, TopicIs
  <2>4. main[TopicOf(s)] \in Nat /\ retry[TopicOf(s)] \in Nat
    BY <1>1, <2>3 DEF StartInv, TopicsOK
  <2>5. \A p \in starter[s].partitions : p < main[TopicOf(s)] /\ p < retry[TopicOf(s)]
    BY <2>2, <2>4 DEF Accepted, MainRead, RetryRead
  <2>6. DOMAIN starter[s].list \subseteq Nat /\ NoDuplicate(starter[s].list)
    BY <2>2 DEF Accepted
  <2>7. QED
    BY <2>5, <2>6, OnlyHandler
<1>2. QED
  BY <1>1, StartBegins, StartSteps, PTL DEF StartSpec

-----------------------------------------------------------------------------
\* Publisher.

MessageType == [call : Nat, index : Nat]
GroupType == [key : Keys, messages : Seq(MessageType)]
CallType == [by : Publishers, events : Seq(Events),
             result : {"pending", "ok", "send", "serialize"}]

\* A group has the events of its key among the first N of the call, in order.
Carries(group, c, given, N) ==
  /\ group.messages # <<>>
  /\ \A i \in DOMAIN group.messages :
       /\ group.messages[i].call = c /\ group.messages[i].index \in 1 .. N
       /\ given[group.messages[i].index].key = group.key
  /\ \A i, j \in DOMAIN group.messages :
       i < j => group.messages[i].index < group.messages[j].index
  /\ \A n \in 1 .. N : given[n].key = group.key =>
       \E i \in DOMAIN group.messages : group.messages[i] = ToMessage(c, n)

\* Groups stand in the order in which their keys appear.
InTurn(found, given, N) ==
  \A g, h \in DOMAIN found : g < h =>
    /\ found[g].key # found[h].key
    /\ \A n \in 1 .. N : given[n].key = found[h].key =>
         \E m \in 1 .. n - 1 : given[m].key = found[g].key

Right(found, c, given, N) ==
  /\ found \in Seq(GroupType)
  /\ \A g \in DOMAIN found : Carries(found[g], c, given, N)
  /\ InTurn(found, given, N)

Covers(found, given, N) ==
  \A n \in 1 .. N : \E g \in DOMAIN found : found[g].key = given[n].key

LEMMA PlaceKeepsRight ==
  ASSUME NEW c \in Nat, NEW given \in Seq(Events), NEW N \in Nat, N < Len(given),
         NEW found, Right(found, c, given, N), Covers(found, given, N)
  PROVE  LET next == Place(found, given[N + 1].key, ToMessage(c, N + 1))
         IN Right(next, c, given, N + 1) /\ Covers(next, given, N + 1)
<1> DEFINE n == N + 1
           key == given[n].key
           msg == ToMessage(c, n)
           next == Place(found, key, msg)
<1>1. n \in 1 .. Len(given) /\ n \in Nat /\ key \in Keys /\ msg \in MessageType
      /\ msg.call = c /\ msg.index = n
  <2>1. n \in 1 .. Len(given) /\ n \in Nat
    OBVIOUS
  <2>2. given[n] \in Events
    BY <2>1
  <2>3. QED
    BY <2>1, <2>2 DEF ToMessage, MessageType, Events
<1>2. found \in Seq(GroupType) /\ Len(found) \in Nat /\ DOMAIN found = 1 .. Len(found)
  BY DEF Right
<1>3. \A g \in DOMAIN found : /\ found[g] \in GroupType /\ found[g].key \in Keys
                              /\ found[g].messages \in Seq(MessageType)
  <2>1. \A g \in DOMAIN found : found[g] \in GroupType
    BY <1>2
  <2>2. \A x \in GroupType : x.key \in Keys /\ x.messages \in Seq(MessageType)
    BY DEF GroupType
  <2>3. QED
    BY <2>1, <2>2
\* Every group has an event so far.
<1>4. ASSUME NEW g \in DOMAIN found
      PROVE  \E m \in 1 .. N : given[m].key = found[g].key
  <2>1. Carries(found[g], c, given, N) /\ Len(found[g].messages) > 0
    BY <1>3 DEF Right, Carries
  <2>2. 1 \in DOMAIN found[g].messages
    BY <1>3, <2>1
  <2>3. QED
    BY <2>1, <2>2 DEF Carries
\* A group of another key carries what it has to.
<1>5. ASSUME NEW g \in DOMAIN found, found[g].key # key
      PROVE  Carries(found[g], c, given, n)
  <2>1. Carries(found[g], c, given, N)
    BY DEF Right
  <2>2. /\ 1 .. N \subseteq 1 .. n
        /\ \A k \in 1 .. n : k \in 1 .. N \/ given[k].key # found[g].key
    <3>1. 1 .. N \subseteq 1 .. n /\ \A k \in 1 .. n : k \in 1 .. N \/ k = n
      OBVIOUS
    <3>2. QED
      BY <1>5, <3>1
  <2> HIDE DEF n, key, msg, next
  <2>3. QED
    BY <2>1, <2>2 DEF Carries
<1>6. CASE \E i \in DOMAIN found : found[i].key = key
  <2>1. PICK h \in DOMAIN found : found[h].key = key
    BY <1>6
  <2>2. next = [i \in DOMAIN found |->
                 IF found[i].key = key
                 THEN [found[i] EXCEPT !.messages = Append(@, msg)] ELSE found[i]]
    BY <1>6 DEF Place
  <2>3. \A g \in DOMAIN found : found[g].key = key => g = h
    BY <1>2, <2>1 DEF Right, InTurn
  <2> HIDE DEF next, msg, key, n
  <2>4. Len(next) = Len(found) /\ DOMAIN next = DOMAIN found
        /\ \A g \in DOMAIN found : next[g].key = found[g].key
    BY <1>2, <1>3, <2>2 DEF GroupType
  <2>5. next[h] = [found[h] EXCEPT !.messages = Append(@, msg)]
        /\ \A g \in DOMAIN found : g # h => next[g] = found[g]
    BY <2>1, <2>2, <2>3
  <2>6. next[h].messages = Append(found[h].messages, msg) /\ next[h] \in GroupType
    <3>1. \A x \in GroupType, ms \in Seq(MessageType) :
            [x EXCEPT !.messages = ms].messages = ms /\ [x EXCEPT !.messages = ms] \in GroupType
      BY DEF GroupType
    <3>2. Append(found[h].messages, msg) \in Seq(MessageType) /\ found[h] \in GroupType
      BY <1>1, <1>3
    <3>3. next[h] = [found[h] EXCEPT !.messages = Append(found[h].messages, msg)]
      BY <2>5
    <3>4. QED
      BY <3>1, <3>2, <3>3
  <2>7. next \in Seq(GroupType)
    <3>1. \A g \in DOMAIN found : next[g] \in GroupType
      BY <1>3, <2>5, <2>6
    <3>2. next = [g \in 1 .. Len(found) |-> next[g]]
      BY <1>2, <2>2
    <3>3. QED
      BY <1>2, <3>1, <3>2
  <2>8. Carries(next[h], c, given, n)
    <3> DEFINE ms == found[h].messages
               new == next[h].messages
    <3>1. Carries(found[h], c, given, N) /\ ms \in Seq(MessageType)
      BY <1>3 DEF Right
    <3>2. Len(new) = Len(ms) + 1 /\ DOMAIN new = 1 .. Len(ms) + 1 /\ DOMAIN ms = 1 .. Len(ms)
          /\ new[Len(ms) + 1] = msg /\ Len(ms) \in Nat
          /\ \A i \in DOMAIN ms : new[i] = ms[i] /\ i \in DOMAIN new
      BY <1>1, <2>6, <3>1
    <3>3. next[h].key = key /\ found[h].key = key
      BY <2>1, <2>4
    <3>4. \A i \in DOMAIN ms : ms[i].call = c /\ ms[i].index \in 1 .. N
                               /\ given[ms[i].index].key = key
      BY <3>1, <3>3 DEF Carries
    <3>5. \A i, j \in DOMAIN ms : i < j => ms[i].index < ms[j].index
      BY <3>1 DEF Carries
    <3>6. \A m \in 1 .. N : given[m].key = key => \E i \in DOMAIN ms : ms[i] = ToMessage(c, m)
      BY <3>1, <3>3 DEF Carries
    <3> HIDE DEF ms, new
    <3>7. \A i \in DOMAIN new : i \in DOMAIN ms \/ i = Len(ms) + 1
      BY <3>2
    <3>8. new # <<>>
      BY <3>2
    <3>9. \A i \in DOMAIN new : new[i].call = c /\ new[i].index \in 1 .. n
                                /\ given[new[i].index].key = key
      BY <1>1, <3>2, <3>4, <3>7 DEF n, key
    <3>10. \A i, j \in DOMAIN new : i < j => new[i].index < new[j].index
      BY <1>1, <3>2, <3>4, <3>5, <3>7 DEF n
    <3>11. \A m \in 1 .. n : given[m].key = key => \E i \in DOMAIN new : new[i] = ToMessage(c, m)
      <4> SUFFICES ASSUME NEW m \in 1 .. n, given[m].key = key
                   PROVE  \E i \in DOMAIN new : new[i] = ToMessage(c, m)
        OBVIOUS
      <4>1. CASE m = n
        BY <3>2, <4>1 DEF msg
      <4>2. CASE m # n
        BY <3>2, <3>6, <4>2 DEF n
      <4>3. QED
        BY <4>1, <4>2
    <3>12. QED
      BY <3>3, <3>8, <3>9, <3>10, <3>11 DEF Carries, new
  <2>9. \A g \in DOMAIN next : Carries(next[g], c, given, n)
    BY <1>5, <2>3, <2>4, <2>5, <2>8
  <2>10. InTurn(next, given, n)
    <3> SUFFICES ASSUME NEW g \in DOMAIN next, NEW i \in DOMAIN next, g < i
                 PROVE  /\ next[g].key # next[i].key
                        /\ \A m \in 1 .. n : given[m].key = next[i].key =>
                             \E o \in 1 .. m - 1 : given[o].key = next[g].key
      BY DEF InTurn
    <3>0. /\ g \in DOMAIN found /\ i \in DOMAIN found
          /\ next[g].key = found[g].key /\ next[i].key = found[i].key
      BY <2>4
    <3>1. found[g].key # found[i].key
          /\ \A m \in 1 .. N : given[m].key = found[i].key =>
               \E o \in 1 .. m - 1 : given[o].key = found[g].key
      BY <3>0 DEF Right, InTurn
    <3>2. \E o \in 1 .. n - 1 : given[o].key = found[g].key
      BY <1>4, <3>0 DEF n
    <3>3. \A m \in 1 .. n : m \in 1 .. N \/ m = n
      BY DEF n
    <3>4. QED
      BY <3>0, <3>1, <3>2, <3>3
  <2>11. Covers(next, given, n)
    <3>1. \A m \in 1 .. n : m \in 1 .. N \/ m = n
      BY DEF n
    <3>2. QED
      BY <2>1, <2>4, <3>1 DEF Covers, key
  <2>12. QED
    BY <2>7, <2>9, <2>10, <2>11 DEF Right, next, msg, key, n
<1>7. CASE ~ \E i \in DOMAIN found : found[i].key = key
  <2> DEFINE group == [key |-> key, messages |-> <<msg>>]
  <2>1. next = Append(found, group)
    BY <1>7 DEF Place
  <2>2. group \in GroupType /\ group.key = key /\ group.messages = <<msg>>
    BY <1>1 DEF GroupType
  <2> HIDE DEF next, msg, key, n, group
  <2>3. next \in Seq(GroupType) /\ Len(next) = Len(found) + 1
        /\ DOMAIN next = 1 .. Len(found) + 1 /\ next[Len(found) + 1] = group
        /\ \A g \in DOMAIN found : g \in DOMAIN next /\ next[g] = found[g]
    BY <1>2, <2>1, <2>2
  <2>4. \A g \in DOMAIN next : g \in DOMAIN found \/ g = Len(found) + 1
    BY <1>2, <2>3
  <2>5. \A m \in 1 .. N : given[m].key # key
    BY <1>7 DEF Covers
  <2>6. \A m \in 1 .. n : m \in 1 .. N \/ m = n
    BY DEF n
  <2>7. Carries(group, c, given, n)
    <3>1. group.messages # <<>> /\ DOMAIN group.messages = {1} /\ group.messages[1] = msg
      BY <2>2
    <3>2. \A i \in DOMAIN group.messages :
            /\ group.messages[i].call = c /\ group.messages[i].index \in 1 .. n
            /\ given[group.messages[i].index].key = group.key
      BY <1>1, <2>2, <3>1 DEF key
    <3>3. \A m \in 1 .. n : given[m].key = group.key =>
            \E i \in DOMAIN group.messages : group.messages[i] = ToMessage(c, m)
      BY <2>2, <2>5, <2>6, <3>1 DEF msg
    <3>4. QED
      BY <3>1, <3>2, <3>3 DEF Carries
  <2>8. \A g \in DOMAIN next : Carries(next[g], c, given, n)
    BY <1>5, <1>7, <2>3, <2>4, <2>7
  <2>9. InTurn(next, given, n)
    <3> SUFFICES ASSUME NEW g \in DOMAIN next, NEW i \in DOMAIN next, g < i
                 PROVE  /\ next[g].key # next[i].key
                        /\ \A m \in 1 .. n : given[m].key = next[i].key =>
                             \E o \in 1 .. m - 1 : given[o].key = next[g].key
      BY DEF InTurn
    <3>1. g \in DOMAIN found /\ next[g] = found[g] /\ found[g].key # key
      BY <1>2, <1>7, <2>3, <2>4
    <3>2. \E o \in 1 .. n - 1 : given[o].key = found[g].key
      BY <1>4, <3>1 DEF n
    <3>3. CASE i \in DOMAIN found
      <4>1. next[i] = found[i] /\ found[i].key # key
        BY <1>7, <2>3, <3>3
      <4>2. found[g].key # found[i].key
            /\ \A m \in 1 .. N : given[m].key = found[i].key =>
               \E o \in 1 .. m - 1 : given[o].key = found[g].key
        BY <3>1, <3>3 DEF Right, InTurn
      <4>3. given[n].key # found[i].key
        BY <4>1 DEF key
      <4>4. QED
        BY <2>6, <3>1, <4>1, <4>2, <4>3
    <3>4. CASE i = Len(found) + 1
      <4>1. next[i].key = key
        BY <2>2, <2>3, <3>4
      <4>2. QED
        BY <2>5, <2>6, <3>1, <3>2, <4>1
    <3>5. QED
      BY <2>4, <3>3, <3>4
  <2>10. Covers(next, given, n)
    BY <2>2, <2>3, <2>6 DEF Covers, key
  <2>11. QED
    BY <2>3, <2>8, <2>9, <2>10 DEF Right, next, msg, key, n
<1>8. QED
  BY <1>6, <1>7

-----------------------------------------------------------------------------
\* f is a walk over S of k turns.
WalkOver(f, S, first, turn, k) ==
  /\ f \in [0 .. k -> S] /\ f[0] = first
  /\ \A n \in 1 .. k : f[n] = turn[n][f[n - 1]]

Turns(S, N) == [1 .. N -> [S -> S]]

\* A walk exists, for whatever the turns do to what is in S.
LEMMA WalkExists ==
  ASSUME NEW S, NEW first \in S, NEW N \in Nat, NEW turn \in Turns(S, N)
  PROVE  \E f : WalkOver(f, S, first, turn, N)
<1> USE DEF WalkOver, Turns
<1> DEFINE Walks(f, k) == WalkOver(f, S, first, turn, k)
           bad == {k \in 0 .. N : ~ \E f : Walks(f, k)}
<1>1. SUFFICES bad = {}
  <2>1. N \in 0 .. N
    OBVIOUS
  <2>2. QED
    BY <2>1
<1>2. SUFFICES ASSUME bad # {} PROVE FALSE
  OBVIOUS
<1>3. PICK k \in bad : \A m \in bad : k <= m
  <2>1. bad \subseteq Nat
    OBVIOUS
  <2> HIDE DEF bad
  <2>2. QED
    BY <1>2, <2>1, LeastNumber
<1>4. k \in 0 .. N /\ ~ \E f : Walks(f, k)
  OBVIOUS
<1>5. CASE k = 0
  <2>1. Walks([n \in 0 .. 0 |-> first], 0)
    OBVIOUS
  <2>2. QED
    BY <1>4, <1>5, <2>1
<1>6. CASE k # 0
  <2>1. k - 1 \in 0 .. N /\ ~ (k <= k - 1) /\ k \in 1 .. N /\ k \in Nat
    BY <1>4, <1>6
  <2>2. k - 1 \notin bad
    <3> HIDE DEF bad
    <3>1. QED
      BY <1>3, <2>1
  <2>3. PICK f : Walks(f, k - 1)
    BY <2>1, <2>2
  <2> DEFINE g == [n \in 0 .. k |-> IF n = k THEN turn[k][f[k - 1]] ELSE f[n]]
  <2>4. \A n \in 0 .. k : n # k => n \in 0 .. k - 1
    BY <2>1
  <2>5. turn[k][f[k - 1]] \in S
    BY <2>1, <2>3
  <2>6. \A n \in 0 .. k - 1 : n \in 0 .. k /\ n # k /\ g[n] = f[n] /\ f[n] \in S
    BY <2>1, <2>3
  <2>7. g \in [0 .. k -> S]
    BY <2>4, <2>5, <2>6
  <2>8. g[k] = turn[k][f[k - 1]] /\ g[0] = first
    BY <2>1, <2>3
  <2> HIDE DEF g
  <2>9. ASSUME NEW n \in 1 .. k PROVE g[n] = turn[n][g[n - 1]]
    <3>1. n - 1 \in 0 .. k - 1 /\ g[n - 1] = f[n - 1]
      BY <2>1, <2>6
    <3>2. CASE n = k
      BY <2>8, <3>1, <3>2
    <3>3. CASE n # k
      <4>1. n \in 1 .. k - 1 /\ n \in 0 .. k - 1
        BY <2>1, <3>3
      <4>2. QED
        BY <2>3, <2>6, <3>1, <4>1
    <3>4. QED
      BY <3>2, <3>3
  <2>10. Walks(g, k)
    BY <2>7, <2>8, <2>9
  <2>11. QED
    BY <1>4, <2>10
<1>7. QED
  BY <1>5, <1>6

LEMMA PlaceType ==
  ASSUME NEW found \in Seq(GroupType), NEW key \in Keys, NEW msg \in MessageType
  PROVE  Place(found, key, msg) \in Seq(GroupType)
<1>1. CASE \E i \in DOMAIN found : found[i].key = key
  <2> DEFINE next == [i \in DOMAIN found |->
               IF found[i].key = key
               THEN [found[i] EXCEPT !.messages = Append(@, msg)] ELSE found[i]]
  <2>1. \A x \in GroupType : [x EXCEPT !.messages = Append(@, msg)] \in GroupType
    <3> SUFFICES ASSUME NEW x \in GroupType
                 PROVE  [x EXCEPT !.messages = Append(x.messages, msg)] \in GroupType
      OBVIOUS
    <3>1. Append(x.messages, msg) \in Seq(MessageType)
      BY DEF GroupType
    <3>2. QED
      BY <3>1 DEF GroupType
  <2>2. \A i \in DOMAIN found : found[i] \in GroupType
    OBVIOUS
  <2>3. DOMAIN found = 1 .. Len(found) /\ Len(found) \in Nat
    OBVIOUS
  <2>4. \A i \in 1 .. Len(found) : next[i] \in GroupType
    BY <2>1, <2>2, <2>3
  <2>5. next \in [1 .. Len(found) -> GroupType]
    BY <2>3, <2>4
  <2>6. Place(found, key, msg) = next
    BY <1>1 DEF Place
  <2>7. next \in Seq(GroupType)
    <3> HIDE DEF next
    <3>1. QED
      BY <2>3, <2>5
  <2>8. QED
    BY <2>6, <2>7
<1>2. CASE ~ \E i \in DOMAIN found : found[i].key = key
  <2>1. [key |-> key, messages |-> <<msg>>] \in GroupType
    BY DEF GroupType
  <2>2. QED
    BY <1>2, <2>1 DEF Place
<1>3. QED
  BY <1>1, <1>2

\* publish_batch groups its events right, for any number of them.
LEMMA GroupedIsRight ==
  ASSUME NEW c \in Nat, NEW given \in Seq(Events)
  PROVE  /\ Right(Grouped(c, given), c, given, Len(given))
         /\ Covers(Grouped(c, given), given, Len(given))
<1> DEFINE N == Len(given)
           S == Seq(GroupType)
           Turn(f, n) == IF n = 0 THEN <<>> ELSE Place(f[n - 1], given[n].key, ToMessage(c, n))
           Walks(f) == f = [n \in 0 .. N |-> Turn(f, n)]
           walk == CHOOSE f : Walks(f)
           turn == [n \in 1 .. N |-> [x \in S |-> Place(x, given[n].key, ToMessage(c, n))]]
           bad == {n \in 0 .. N : ~ (Right(walk[n], c, given, n) /\ Covers(walk[n], given, n))}
<1>1. N \in Nat /\ <<>> \in S /\ \A n \in 1 .. N : given[n].key \in Keys
  <2>1. \A n \in 1 .. N : given[n] \in Events
    OBVIOUS
  <2>2. \A e \in Events : e.key \in Keys
    BY DEF Events
  <2>3. N \in Nat /\ <<>> \in S
    OBVIOUS
  <2>4. QED
    BY <2>1, <2>2, <2>3
<1>2. turn \in Turns(S, N)
  <2>1. \A n \in 1 .. N : ToMessage(c, n) \in MessageType
    BY <1>1 DEF ToMessage, MessageType
  <2>2. \A n \in 1 .. N, x \in S : Place(x, given[n].key, ToMessage(c, n)) \in S
    BY <1>1, <2>1, PlaceType
  <2> HIDE DEF S, N
  <2>3. QED
    BY <2>2 DEF Turns
<1>3. \E f : Walks(f)
  <2>0. PICK f : WalkOver(f, S, <<>>, turn, N)
    <3> HIDE DEF S, N, turn
    <3>1. QED
      BY <1>1, <1>2, WalkExists
  <2>1. f \in [0 .. N -> S] /\ f[0] = <<>> /\ \A n \in 1 .. N : f[n] = turn[n][f[n - 1]]
    BY <2>0 DEF WalkOver
  <2>2. ASSUME NEW n \in 0 .. N PROVE f[n] = Turn(f, n)
    <3>1. CASE n = 0
      BY <2>1, <3>1
    <3>2. CASE n # 0
      <4>1. n \in 1 .. N /\ n - 1 \in 0 .. N
        <5> HIDE DEF N
        <5>1. QED
          BY <1>1, <3>2
      <4>3. f[n - 1] \in S
        <5> HIDE DEF N, S
        <5>1. QED
          BY <2>1, <4>1
      <4>2. QED
        BY <2>1, <3>2, <4>1, <4>3
    <3>3. QED
      BY <3>1, <3>2
  <2>3. f = [n \in 0 .. N |-> f[n]]
    BY <2>1
  <2> HIDE DEF Turn, N
  <2>4. QED
    BY <2>2, <2>3
<1>4. Walks(walk)
  <2> HIDE DEF Walks
  <2>1. QED
    BY <1>3
<1>5. Grouped(c, given) = walk[N]
  BY DEF Grouped
<1> HIDE DEF walk
<1>6. \A n \in 0 .. N : walk[n] = Turn(walk, n)
  <2> HIDE DEF Turn, N
  <2>1. QED
    BY <1>4
<1>7. bad = {}
  <2> SUFFICES ASSUME bad # {} PROVE FALSE
    OBVIOUS
  <2>1. PICK n \in bad : \A m \in bad : n <= m
    <3>1. bad \subseteq Nat
      BY <1>1
    <3> HIDE DEF bad
    <3>2. QED
      BY <3>1, LeastNumber
  <2>2. n \in 0 .. N /\ ~ (Right(walk[n], c, given, n) /\ Covers(walk[n], given, n))
    OBVIOUS
  <2>3. CASE n = 0
    <3>1. walk[0] = <<>>
      BY <1>1, <1>6
    <3>2. Right(<<>>, c, given, 0) /\ Covers(<<>>, given, 0)
      BY DEF Right, Covers, InTurn
    <3>3. QED
      BY <2>2, <2>3, <3>1, <3>2
  <2>4. CASE n # 0
    <3>1. n - 1 \in Nat /\ n - 1 < Len(given) /\ n - 1 \in 0 .. N /\ ~ (n <= n - 1)
          /\ (n - 1) + 1 = n
      BY <1>1, <2>2, <2>4
    <3>2. n - 1 \notin bad
      <4> HIDE DEF bad
      <4>1. QED
        BY <2>1, <3>1
    <3>3. Right(walk[n - 1], c, given, n - 1) /\ Covers(walk[n - 1], given, n - 1)
      BY <3>1, <3>2
    <3>4. walk[n] = Place(walk[n - 1], given[n].key, ToMessage(c, n))
      BY <1>6, <2>2, <2>4
    <3>5. Right(walk[n], c, given, n) /\ Covers(walk[n], given, n)
      <4> DEFINE o == n - 1
      <4>1. o \in Nat /\ o < Len(given) /\ o + 1 = n
            /\ Right(walk[o], c, given, o) /\ Covers(walk[o], given, o)
        BY <3>1, <3>3
      <4>2. walk[n] = Place(walk[o], given[o + 1].key, ToMessage(c, o + 1))
        BY <3>4, <4>1
      <4> HIDE DEF o
      <4>3. LET next == Place(walk[o], given[o + 1].key, ToMessage(c, o + 1))
            IN Right(next, c, given, o + 1) /\ Covers(next, given, o + 1)
        BY <4>1, PlaceKeepsRight
      <4>4. QED
        BY <4>1, <4>2, <4>3
    <3>6. QED
      BY <2>2, <3>5
  <2>5. QED
    BY <2>3, <2>4
<1>8. QED
  <2>1. N \in 0 .. N /\ N \notin bad
    BY <1>1, <1>7
  <2>2. QED
    BY <1>5, <2>1

-----------------------------------------------------------------------------
ReachedIn(lg, c, k) == \E i \in DOMAIN lg[k] : lg[k][i].call = c

\* SharesWhole, of a log lg and calls cs, with what makes its terms defined.
LogRight(lg, cs) == \A k \in Keys :
  /\ \A i \in DOMAIN lg[k] :
       /\ lg[k][i].call \in DOMAIN cs
       /\ lg[k][i].index \in DOMAIN cs[lg[k][i].call].events
       /\ cs[lg[k][i].call].events[lg[k][i].index].key = k
  /\ \A c \in DOMAIN cs : ReachedIn(lg, c, k) =>
       \A n \in DOMAIN cs[c].events : cs[c].events[n].key = k =>
         \E i \in DOMAIN lg[k] : lg[k][i] = ToMessage(c, n)
  /\ \A i, j \in DOMAIN lg[k] : i < j =>
       /\ lg[k][i].call = lg[k][j].call =>
            /\ lg[k][i].index < lg[k][j].index
            /\ \A m \in i .. j : lg[k][m].call = lg[k][i].call
       /\ cs[lg[k][i].call].by = cs[lg[k][j].call].by =>
            lg[k][i].call <= lg[k][j].call

\* ErrorsStop, of a log lg and calls cs.
StopsRight(lg, cs) == \A c \in DOMAIN cs :
  /\ cs[c].result = "serialize" => \A k \in Keys : ~ ReachedIn(lg, c, k)
  /\ cs[c].result = "ok" => \A n \in DOMAIN cs[c].events : ReachedIn(lg, c, cs[c].events[n].key)
  /\ \A k \in Keys, n \in DOMAIN cs[c].events :
       ReachedIn(lg, c, k) /\ (\A m \in 1 .. n : cs[c].events[m].key # k) =>
         ReachedIn(lg, c, cs[c].events[n].key)

\* Call c is the one p waits in, and found what is left of its groups: the keys
\* that were not reached yet.
Current(lg, cs, found, p, c) ==
  /\ c \in DOMAIN cs /\ cs[c].by = p /\ cs[c].result = "pending"
  /\ \A d \in DOMAIN cs : cs[d].by = p => d <= c /\ (d # c => cs[d].result # "pending")
  /\ Right(found, c, cs[c].events, Len(cs[c].events))
  /\ \A g \in DOMAIN found : ~ ReachedIn(lg, c, found[g].key)
  /\ \A n \in DOMAIN cs[c].events :
       \/ ReachedIn(lg, c, cs[c].events[n].key)
       \/ \E g \in DOMAIN found : found[g].key = cs[c].events[n].key

WaitsRight(lg, cs, found, p) ==
  /\ found = <<>> => \A d \in DOMAIN cs : cs[d].by = p => cs[d].result # "pending"
  /\ found # <<>> => \E c : Current(lg, cs, found, p, c)

PublisherTypes(lg, cs, gs) ==
  /\ lg \in [Keys -> Seq(MessageType)] /\ cs \in Seq(CallType)
  /\ gs \in [Publishers -> Seq(GroupType)]

PublisherParts(lg, cs, gs) ==
  /\ PublisherTypes(lg, cs, gs) /\ LogRight(lg, cs) /\ StopsRight(lg, cs)
  /\ \A p \in Publishers : WaitsRight(lg, cs, gs[p], p)

PublisherInv == PublisherParts(log, calls, groups)

Sent(lg, group) == [lg EXCEPT ![group.key] = @ \o group.messages]

\* What can be said of the group that is sent next.
FirstGroup(lg, cs, found, p, c, group) ==
  /\ lg \in [Keys -> Seq(MessageType)] /\ cs \in Seq(CallType)
  /\ found # <<>> /\ group = found[1]
  /\ Current(lg, cs, found, p, c)

LEMMA FirstGroupIs ==
  ASSUME NEW lg, NEW cs, NEW found, NEW p, NEW c, NEW group,
         FirstGroup(lg, cs, found, p, c, group)
  PROVE  /\ found \in Seq(GroupType) /\ Len(found) \in Nat \ {0} /\ 1 \in DOMAIN found
         /\ group \in GroupType /\ group.key \in Keys /\ group.messages \in Seq(MessageType)
         /\ ~ ReachedIn(lg, c, group.key)
         /\ Carries(group, c, cs[c].events, Len(cs[c].events))
         /\ c \in DOMAIN cs /\ cs[c] \in CallType /\ cs[c].events \in Seq(Events)
<1>1. found \in Seq(GroupType) /\ found # <<>>
  BY DEF FirstGroup, Current, Right
<1>2. Len(found) \in Nat \ {0} /\ 1 \in DOMAIN found /\ found[1] \in GroupType
  BY <1>1
<1>3. group \in GroupType /\ \A x \in GroupType : x.key \in Keys /\ x.messages \in Seq(MessageType)
  BY <1>2 DEF FirstGroup, GroupType
<1>4. c \in DOMAIN cs /\ cs \in Seq(CallType)
  BY DEF FirstGroup, Current
<1>5. cs[c] \in CallType
  BY <1>4
<1>6. cs[c].events \in Seq(Events)
  BY <1>5 DEF CallType
<1>7. ~ ReachedIn(lg, c, group.key) /\ Carries(group, c, cs[c].events, Len(cs[c].events))
  BY <1>2 DEF FirstGroup, Current, Right
<1>8. QED
  BY <1>1, <1>2, <1>3, <1>4, <1>5, <1>6, <1>7

\* lg2 is lg with messages ms after those of key, position by position.
GrownBy(lg, lg2, key, ms) ==
  /\ lg2 \in [Keys -> Seq(MessageType)]
  /\ \A k \in Keys : k # key => lg2[k] = lg[k]
  /\ Len(lg[key]) \in Nat /\ Len(ms) \in Nat /\ Len(ms) > 0
  /\ DOMAIN lg[key] = 1 .. Len(lg[key]) /\ DOMAIN ms = 1 .. Len(ms)
  /\ DOMAIN lg2[key] = 1 .. Len(lg[key]) + Len(ms)
  /\ \A i \in DOMAIN lg[key] : lg2[key][i] = lg[key][i]
  /\ \A i \in DOMAIN ms : lg2[key][Len(lg[key]) + i] = ms[i]

LEMMA SentIs ==
  ASSUME NEW lg, NEW cs, NEW found, NEW p, NEW c, NEW group,
         FirstGroup(lg, cs, found, p, c, group)
  PROVE  GrownBy(lg, Sent(lg, group), group.key, group.messages)
<1> DEFINE old == lg[group.key]
           ms == group.messages
<1>1. group.key \in Keys /\ ms \in Seq(MessageType) /\ lg \in [Keys -> Seq(MessageType)]
      /\ ms # <<>>
  BY FirstGroupIs DEF FirstGroup, Carries
<1>2. old \in Seq(MessageType)
  BY <1>1
<1>3. Sent(lg, group)[group.key] = old \o ms
  BY <1>1 DEF Sent
<1>4. old \o ms \in Seq(MessageType)
  BY <1>1, <1>2
<1>5. Sent(lg, group) \in [Keys -> Seq(MessageType)]
      /\ \A k \in Keys : k # group.key => Sent(lg, group)[k] = lg[k]
  BY <1>1, <1>4 DEF Sent
<1> HIDE DEF old, ms
<1>6. /\ Len(old) \in Nat /\ Len(ms) \in Nat /\ Len(ms) > 0
      /\ DOMAIN old = 1 .. Len(old) /\ DOMAIN ms = 1 .. Len(ms)
      /\ DOMAIN (old \o ms) = 1 .. Len(old) + Len(ms)
      /\ \A i \in DOMAIN old : (old \o ms)[i] = old[i]
      /\ \A i \in DOMAIN ms : (old \o ms)[Len(old) + i] = ms[i]
  BY <1>1, <1>2
<1>7. QED
  BY <1>3, <1>5, <1>6 DEF GrownBy, old, ms

\* Sending a group reaches its key and no other.
LEMMA SentReaches ==
  ASSUME NEW lg, NEW cs, NEW found, NEW p, NEW c, NEW group,
         FirstGroup(lg, cs, found, p, c, group)
  PROVE  \A d, k : k \in Keys =>
           (ReachedIn(Sent(lg, group), d, k) <=> ReachedIn(lg, d, k) \/ (d = c /\ k = group.key))
<1> SUFFICES ASSUME NEW d, NEW k, k \in Keys
             PROVE  ReachedIn(Sent(lg, group), d, k)
                      <=> ReachedIn(lg, d, k) \/ (d = c /\ k = group.key)
  OBVIOUS
<1> DEFINE lg2 == Sent(lg, group)
           old == lg[group.key]
           new == lg2[group.key]
           ms == group.messages
<1>0. GrownBy(lg, lg2, group.key, ms)
  BY SentIs
<1>1. k # group.key => lg2[k] = lg[k]
  BY <1>0 DEF GrownBy
<1>2. /\ Len(old) \in Nat /\ Len(ms) \in Nat /\ Len(ms) > 0
      /\ DOMAIN old = 1 .. Len(old) /\ DOMAIN ms = 1 .. Len(ms)
      /\ DOMAIN new = 1 .. Len(old) + Len(ms)
      /\ \A i \in DOMAIN old : new[i] = old[i]
      /\ \A i \in DOMAIN ms : new[Len(old) + i] = ms[i]
  BY <1>0 DEF GrownBy
<1>3. \A i \in DOMAIN ms : ms[i].call = c
  BY FirstGroupIs DEF Carries
<1> HIDE DEF lg2, old, new, ms
<1>4. CASE k # group.key
  BY <1>1, <1>4 DEF ReachedIn, lg2
<1>5. CASE k = group.key
  <2>1. ASSUME NEW i \in DOMAIN new, new[i].call = d
        PROVE  d = c \/ \E j \in DOMAIN old : old[j].call = d
    <3>1. CASE i \in DOMAIN old
      BY <1>2, <2>1, <3>1
    <3>2. CASE i \notin DOMAIN old
      <4>1. i - Len(old) \in DOMAIN ms /\ Len(old) + (i - Len(old)) = i
        BY <1>2, <3>2
      <4>2. new[i] = ms[i - Len(old)]
        BY <1>2, <4>1
      <4>3. QED
        BY <1>3, <2>1, <4>1, <4>2
    <3>3. QED
      BY <3>1, <3>2
  <2>2. ASSUME NEW j \in DOMAIN old, old[j].call = d
        PROVE  \E i \in DOMAIN new : new[i].call = d
    BY <1>2, <2>2
  <2>3. \E i \in DOMAIN new : new[i].call = c
    <3>1. 1 \in DOMAIN ms /\ Len(old) + 1 \in DOMAIN new
      BY <1>2
    <3>2. QED
      BY <1>2, <1>3, <3>1
  <2>4. ReachedIn(lg, d, k) <=> \E j \in DOMAIN old : old[j].call = d
    BY <1>5 DEF ReachedIn, old
  <2>5. ReachedIn(lg2, d, k) <=> \E i \in DOMAIN new : new[i].call = d
    BY <1>5 DEF ReachedIn, new
  <2>6. QED
    BY <1>5, <2>1, <2>2, <2>3, <2>4, <2>5 DEF lg2
<1>6. QED
  BY <1>4, <1>5

\* The share of a key is appended as a whole.
LEMMA SentKeepsLog ==
  ASSUME NEW lg, NEW cs, NEW found, NEW p, NEW c, NEW group,
         FirstGroup(lg, cs, found, p, c, group), LogRight(lg, cs)
  PROVE  LogRight(Sent(lg, group), cs)
<1> DEFINE lg2 == Sent(lg, group)
           key == group.key
           old == lg[key]
           new == lg2[key]
           ms == group.messages
           given == cs[c].events
<1>0. GrownBy(lg, lg2, key, ms)
  BY SentIs
<1>1. \A k \in Keys : k # key => lg2[k] = lg[k]
  BY <1>0 DEF GrownBy
<1>2. /\ Len(old) \in Nat /\ Len(ms) \in Nat /\ Len(ms) > 0
      /\ DOMAIN old = 1 .. Len(old) /\ DOMAIN ms = 1 .. Len(ms)
      /\ DOMAIN new = 1 .. Len(old) + Len(ms)
      /\ \A i \in DOMAIN old : new[i] = old[i]
      /\ \A i \in DOMAIN ms : new[Len(old) + i] = ms[i]
  BY <1>0 DEF GrownBy
<1>3. key \in Keys /\ Carries(group, c, given, Len(given)) /\ given \in Seq(Events)
      /\ c \in DOMAIN cs
  BY FirstGroupIs
<1>4. \A i \in DOMAIN ms : ms[i].call = c /\ ms[i].index \in DOMAIN given
                           /\ given[ms[i].index].key = key
  BY <1>3 DEF Carries
<1>5. \A i, j \in DOMAIN ms : i < j => ms[i].index < ms[j].index
  BY <1>3 DEF Carries
<1>6. \A n \in DOMAIN given : given[n].key = key => \E i \in DOMAIN ms : ms[i] = ToMessage(c, n)
  BY <1>3 DEF Carries
<1>7. \A i \in DOMAIN old : old[i].call # c
  BY FirstGroupIs DEF ReachedIn
<1>8. cs[c].by = p /\ \A d \in DOMAIN cs : cs[d].by = p => d <= c
  BY DEF FirstGroup, Current
<1>9. \A k, d : k \in Keys /\ k # key => (ReachedIn(lg2, d, k) <=> ReachedIn(lg, d, k))
  BY <1>1 DEF ReachedIn
<1>10. \A d : ReachedIn(lg2, d, key) => d = c \/ ReachedIn(lg, d, key)
  BY <1>3, SentReaches
<1>11. /\ \A i \in DOMAIN old :
            /\ old[i].call \in DOMAIN cs
            /\ old[i].index \in DOMAIN cs[old[i].call].events
            /\ cs[old[i].call].events[old[i].index].key = key
       /\ \A d \in DOMAIN cs : ReachedIn(lg, d, key) =>
            \A n \in DOMAIN cs[d].events : cs[d].events[n].key = key =>
              \E i \in DOMAIN old : old[i] = ToMessage(d, n)
       /\ \A i, j \in DOMAIN old : i < j =>
            /\ old[i].call = old[j].call =>
                 /\ old[i].index < old[j].index
                 /\ \A m \in i .. j : old[m].call = old[i].call
            /\ cs[old[i].call].by = cs[old[j].call].by => old[i].call <= old[j].call
  BY <1>3 DEF LogRight
<1> HIDE DEF lg2, key, old, new, ms, given
\* A position is one of before or one of the group.
<1>12. ASSUME NEW i \in DOMAIN new, i \notin DOMAIN old
       PROVE  /\ i - Len(old) \in DOMAIN ms /\ new[i] = ms[i - Len(old)]
              /\ new[i].call = c /\ i > Len(old)
  <2>1. i - Len(old) \in DOMAIN ms /\ Len(old) + (i - Len(old)) = i /\ i > Len(old)
    BY <1>2, <1>12
  <2>2. new[i] = ms[i - Len(old)]
    BY <1>2, <2>1
  <2>3. QED
    BY <1>4, <2>1, <2>2
<1>13. ASSUME NEW i \in DOMAIN new
       PROVE  /\ new[i].call \in DOMAIN cs
              /\ new[i].index \in DOMAIN cs[new[i].call].events
              /\ cs[new[i].call].events[new[i].index].key = key
  <2>1. CASE i \in DOMAIN old
    BY <1>2, <1>11, <2>1
  <2>2. CASE i \notin DOMAIN old
    BY <1>3, <1>4, <1>12, <2>2 DEF given
  <2>3. QED
    BY <2>1, <2>2
<1>14. ASSUME NEW d \in DOMAIN cs, ReachedIn(lg2, d, key),
              NEW n \in DOMAIN cs[d].events, cs[d].events[n].key = key
       PROVE  \E i \in DOMAIN new : new[i] = ToMessage(d, n)
  <2>1. CASE d = c
    <3>1. PICK i \in DOMAIN ms : ms[i] = ToMessage(c, n)
      BY <1>6, <1>14, <2>1 DEF given
    <3>2. Len(old) + i \in DOMAIN new /\ new[Len(old) + i] = ms[i]
      BY <1>2
    <3>3. QED
      BY <2>1, <3>1, <3>2
  <2>2. CASE d # c
    <3>1. PICK i \in DOMAIN old : old[i] = ToMessage(d, n)
      BY <1>10, <1>11, <1>14, <2>2
    <3>2. i \in DOMAIN new /\ new[i] = old[i]
      BY <1>2
    <3>3. QED
      BY <3>1, <3>2
  <2>3. QED
    BY <2>1, <2>2
<1>15. ASSUME NEW i \in DOMAIN new, NEW j \in DOMAIN new, i < j
       PROVE  /\ new[i].call = new[j].call =>
                   /\ new[i].index < new[j].index
                   /\ \A m \in i .. j : new[m].call = new[i].call
              /\ cs[new[i].call].by = cs[new[j].call].by => new[i].call <= new[j].call
  <2>1. CASE j \in DOMAIN old
    <3>1. i \in DOMAIN old /\ \A m \in i .. j : m \in DOMAIN old
      BY <1>2, <1>15, <2>1
    <3>2. new[i] = old[i] /\ new[j] = old[j] /\ \A m \in i .. j : new[m] = old[m]
      BY <1>2, <2>1, <3>1
    <3>3. /\ old[i].call = old[j].call =>
               /\ old[i].index < old[j].index
               /\ \A m \in i .. j : old[m].call = old[i].call
          /\ cs[old[i].call].by = cs[old[j].call].by => old[i].call <= old[j].call
      BY <1>11, <1>15, <2>1, <3>1
    <3>4. QED
      BY <3>2, <3>3
  <2>2. CASE j \notin DOMAIN old /\ i \in DOMAIN old
    <3>1. new[j].call = c /\ new[i] = old[i] /\ old[i].call # c
      BY <1>2, <1>7, <1>12, <2>2
    <3>2. old[i].call \in DOMAIN cs
      BY <1>11, <2>2
    <3>3. cs[old[i].call].by = cs[c].by => old[i].call <= c
      BY <1>8, <3>2
    <3>4. QED
      BY <3>1, <3>3
  <2>3. CASE j \notin DOMAIN old /\ i \notin DOMAIN old
    <3>1. /\ i - Len(old) \in DOMAIN ms /\ new[i] = ms[i - Len(old)] /\ new[i].call = c
          /\ i > Len(old) /\ i - Len(old) < j - Len(old)
          /\ j - Len(old) \in DOMAIN ms /\ new[j] = ms[j - Len(old)] /\ new[j].call = c
      BY <1>2, <1>12, <1>15, <2>3
    <3>2. ms[i - Len(old)].index < ms[j - Len(old)].index
      BY <1>5, <3>1
    <3>3. \A m \in i .. j : m \in DOMAIN new /\ m \notin DOMAIN old
      BY <1>2, <3>1
    <3>4. \A m \in i .. j : new[m].call = c
      BY <1>12, <3>3
    <3>5. c <= c
      BY <1>3 DEF FirstGroup
    <3>6. QED
      BY <3>1, <3>2, <3>4, <3>5
  <2>4. QED
    BY <2>1, <2>2, <2>3
<1>16. ASSUME NEW k \in Keys
       PROVE  /\ \A i \in DOMAIN lg2[k] :
                   /\ lg2[k][i].call \in DOMAIN cs
                   /\ lg2[k][i].index \in DOMAIN cs[lg2[k][i].call].events
                   /\ cs[lg2[k][i].call].events[lg2[k][i].index].key = k
              /\ \A d \in DOMAIN cs : ReachedIn(lg2, d, k) =>
                   \A n \in DOMAIN cs[d].events : cs[d].events[n].key = k =>
                     \E i \in DOMAIN lg2[k] : lg2[k][i] = ToMessage(d, n)
              /\ \A i, j \in DOMAIN lg2[k] : i < j =>
                   /\ lg2[k][i].call = lg2[k][j].call =>
                        /\ lg2[k][i].index < lg2[k][j].index
                        /\ \A m \in i .. j : lg2[k][m].call = lg2[k][i].call
                   /\ cs[lg2[k][i].call].by = cs[lg2[k][j].call].by =>
                        lg2[k][i].call <= lg2[k][j].call
  <2>1. CASE k = key
    BY <1>13, <1>14, <1>15, <2>1 DEF new
  <2>2. CASE k # key
    <3>1. lg2[k] = lg[k]
      BY <1>1, <2>2
    <3>2. \A d : ReachedIn(lg2, d, k) <=> ReachedIn(lg, d, k)
      BY <1>9, <2>2
    <3>3. QED
      BY <3>1, <3>2 DEF LogRight
  <2>3. QED
    BY <2>1, <2>2
<1>17. QED
  BY <1>16 DEF LogRight, lg2

\* A key is reached after those that come before it in the call.
LEMMA SentKeepsStops ==
  ASSUME NEW lg, NEW cs, NEW found, NEW p, NEW c, NEW group,
         FirstGroup(lg, cs, found, p, c, group), StopsRight(lg, cs)
  PROVE  StopsRight(Sent(lg, group), cs)
<1> DEFINE lg2 == Sent(lg, group)
           given == cs[c].events
<1>1. \A d, k : k \in Keys =>
        (ReachedIn(lg2, d, k) <=> ReachedIn(lg, d, k) \/ (d = c /\ k = group.key))
  BY SentReaches
<1>2. /\ found \in Seq(GroupType) /\ 1 \in DOMAIN found /\ group = found[1]
      /\ cs[c].result = "pending" /\ cs[c].events \in Seq(Events)
      /\ DOMAIN found = 1 .. Len(found) /\ Len(found) \in Nat
  <2>1. found \in Seq(GroupType) /\ 1 \in DOMAIN found /\ cs[c].events \in Seq(Events)
    BY FirstGroupIs
  <2>2. group = found[1] /\ cs[c].result = "pending"
    BY DEF FirstGroup, Current
  <2>3. DOMAIN found = 1 .. Len(found) /\ Len(found) \in Nat
    BY <2>1
  <2>4. QED
    BY <2>1, <2>2, <2>3
<1>3. \A d \in DOMAIN cs : \A n \in DOMAIN cs[d].events : cs[d].events[n].key \in Keys
  <2> SUFFICES ASSUME NEW d \in DOMAIN cs, NEW n \in DOMAIN cs[d].events
               PROVE  cs[d].events[n].key \in Keys
    OBVIOUS
  <2>1. cs[d] \in CallType
    BY DEF FirstGroup
  <2>2. cs[d].events \in Seq(Events)
    BY <2>1 DEF CallType
  <2>3. cs[d].events[n] \in Events
    BY <2>2
  <2>4. QED
    BY <2>3 DEF Events
<1> HIDE DEF lg2
<1>4. ASSUME NEW k \in Keys, NEW n \in DOMAIN given, ReachedIn(lg2, c, k),
             \A m \in 1 .. n : given[m].key # k
      PROVE  ReachedIn(lg2, c, given[n].key)
  <2>1. n \in Nat /\ n \in 1 .. n /\ n \in 1 .. Len(given)
    BY <1>2
  <2>2. CASE ReachedIn(lg, c, k)
    <3>1. c \in DOMAIN cs
      BY FirstGroupIs
    <3>2. ReachedIn(lg, c, given[n].key)
      BY <1>4, <2>2, <3>1 DEF StopsRight
    <3>3. QED
      BY <1>1, <1>3, <3>1, <3>2
  <2>3. CASE k = group.key
    <3>1. c \in DOMAIN cs
      BY FirstGroupIs
    <3>2. ASSUME NEW g \in DOMAIN found, found[g].key = given[n].key
          PROVE  FALSE
      <4>1. g # 1
        BY <1>2, <1>4, <2>1, <2>3, <3>2
      <4>2. 1 < g
        BY <1>2, <4>1
      <4>3. InTurn(found, given, Len(given))
        BY DEF FirstGroup, Current, Right
      <4>4. \E m \in 1 .. n - 1 : given[m].key = found[1].key
        BY <1>2, <2>1, <3>2, <4>2, <4>3 DEF InTurn
      <4>5. QED
        BY <1>2, <1>4, <2>1, <2>3, <4>4
    <3>3. ReachedIn(lg, c, given[n].key)
      BY <3>2 DEF FirstGroup, Current
    <3>4. QED
      BY <1>1, <1>3, <3>1, <3>3
  <2>4. QED
    BY <1>1, <1>4, <2>2, <2>3
<1>5. ASSUME NEW d \in DOMAIN cs
      PROVE  /\ cs[d].result = "serialize" => \A k \in Keys : ~ ReachedIn(lg2, d, k)
             /\ cs[d].result = "ok" =>
                  \A n \in DOMAIN cs[d].events : ReachedIn(lg2, d, cs[d].events[n].key)
             /\ \A k \in Keys, n \in DOMAIN cs[d].events :
                  ReachedIn(lg2, d, k) /\ (\A m \in 1 .. n : cs[d].events[m].key # k) =>
                    ReachedIn(lg2, d, cs[d].events[n].key)
  <2>1. CASE d = c
    BY <1>2, <1>4, <2>1
  <2>2. CASE d # c
    <3>1. \A k \in Keys : ReachedIn(lg2, d, k) <=> ReachedIn(lg, d, k)
      BY <1>1, <2>2
    <3>2. QED
      BY <1>3, <3>1 DEF StopsRight
  <2>3. QED
    BY <2>1, <2>2
<1>6. QED
  BY <1>5 DEF StopsRight, lg2

\* Calls cs2 are calls cs, some with another result, and perhaps later ones.
GoOn(cs, cs2) ==
  /\ DOMAIN cs \subseteq DOMAIN cs2
  /\ \A x \in DOMAIN cs : cs2[x].by = cs[x].by /\ cs2[x].events = cs[x].events

LEMMA GoOnKeepsLog ==
  ASSUME NEW lg, NEW cs, NEW cs2, GoOn(cs, cs2), LogRight(lg, cs)
  PROVE  LogRight(lg, cs2)
<1> SUFFICES ASSUME NEW k \in Keys
             PROVE  /\ \A i \in DOMAIN lg[k] :
                         /\ lg[k][i].call \in DOMAIN cs2
                         /\ lg[k][i].index \in DOMAIN cs2[lg[k][i].call].events
                         /\ cs2[lg[k][i].call].events[lg[k][i].index].key = k
                    /\ \A c \in DOMAIN cs2 : ReachedIn(lg, c, k) =>
                         \A n \in DOMAIN cs2[c].events : cs2[c].events[n].key = k =>
                           \E i \in DOMAIN lg[k] : lg[k][i] = ToMessage(c, n)
                    /\ \A i, j \in DOMAIN lg[k] : i < j =>
                         /\ lg[k][i].call = lg[k][j].call =>
                              /\ lg[k][i].index < lg[k][j].index
                              /\ \A m \in i .. j : lg[k][m].call = lg[k][i].call
                         /\ cs2[lg[k][i].call].by = cs2[lg[k][j].call].by =>
                              lg[k][i].call <= lg[k][j].call
  BY DEF LogRight
<1>1. \A i \in DOMAIN lg[k] :
        /\ lg[k][i].call \in DOMAIN cs
        /\ lg[k][i].index \in DOMAIN cs[lg[k][i].call].events
        /\ cs[lg[k][i].call].events[lg[k][i].index].key = k
  BY DEF LogRight
<1>2. \A c \in DOMAIN cs : ReachedIn(lg, c, k) =>
        \A n \in DOMAIN cs[c].events : cs[c].events[n].key = k =>
          \E i \in DOMAIN lg[k] : lg[k][i] = ToMessage(c, n)
  BY DEF LogRight
<1>3. \A i, j \in DOMAIN lg[k] : i < j =>
        /\ lg[k][i].call = lg[k][j].call =>
             /\ lg[k][i].index < lg[k][j].index
             /\ \A m \in i .. j : lg[k][m].call = lg[k][i].call
        /\ cs[lg[k][i].call].by = cs[lg[k][j].call].by => lg[k][i].call <= lg[k][j].call
  BY DEF LogRight
<1>4. DOMAIN cs \subseteq DOMAIN cs2
      /\ \A x \in DOMAIN cs : cs2[x].by = cs[x].by /\ cs2[x].events = cs[x].events
  BY DEF GoOn
<1>5. \A c : ReachedIn(lg, c, k) => c \in DOMAIN cs
  BY <1>1 DEF ReachedIn
<1>6. \A i \in DOMAIN lg[k] :
        /\ lg[k][i].call \in DOMAIN cs2
        /\ lg[k][i].index \in DOMAIN cs2[lg[k][i].call].events
        /\ cs2[lg[k][i].call].events[lg[k][i].index].key = k
  BY <1>1, <1>4
<1>7. \A c \in DOMAIN cs2 : ReachedIn(lg, c, k) =>
        \A n \in DOMAIN cs2[c].events : cs2[c].events[n].key = k =>
          \E i \in DOMAIN lg[k] : lg[k][i] = ToMessage(c, n)
  BY <1>2, <1>4, <1>5
<1>8. \A i, j \in DOMAIN lg[k] : i < j =>
        /\ lg[k][i].call = lg[k][j].call =>
             /\ lg[k][i].index < lg[k][j].index
             /\ \A m \in i .. j : lg[k][m].call = lg[k][i].call
        /\ cs2[lg[k][i].call].by = cs2[lg[k][j].call].by => lg[k][i].call <= lg[k][j].call
  BY <1>1, <1>3, <1>4
<1>9. QED
  BY <1>6, <1>7, <1>8

\* Another publisher waits as before.
LEMMA OthersWait ==
  ASSUME NEW lg, NEW lg2, NEW cs, NEW cs2, NEW found, NEW q,
         cs \in Seq(CallType), found \in Seq(GroupType),
         WaitsRight(lg, cs, found, q), GoOn(cs, cs2),
         \A x \in DOMAIN cs2 : cs2[x].by = q => x \in DOMAIN cs /\ cs2[x] = cs[x],
         \A x \in DOMAIN cs, k \in Keys : cs[x].by = q =>
           (ReachedIn(lg2, x, k) <=> ReachedIn(lg, x, k))
  PROVE  WaitsRight(lg2, cs2, found, q)
<1>1. CASE found = <<>>
  BY <1>1 DEF WaitsRight
<1>2. CASE found # <<>>
  <2>1. PICK c : Current(lg, cs, found, q, c)
    BY <1>2 DEF WaitsRight
  <2>2. c \in DOMAIN cs /\ cs[c].by = q /\ c \in DOMAIN cs2 /\ cs2[c] = cs[c]
    BY <2>1 DEF Current, GoOn
  <2>3. cs[c].events \in Seq(Events)
    <3>1. cs[c] \in CallType
      BY <2>2
    <3>2. QED
      BY <3>1 DEF CallType
  <2>4. \A n \in DOMAIN cs[c].events : cs[c].events[n].key \in Keys
    <3>1. \A n \in DOMAIN cs[c].events : cs[c].events[n] \in Events
      BY <2>3
    <3>2. QED
      BY <3>1 DEF Events
  <2>5. \A g \in DOMAIN found : found[g].key \in Keys
    <3>1. \A g \in DOMAIN found : found[g] \in GroupType
      OBVIOUS
    <3>2. QED
      BY <3>1 DEF GroupType
  <2>6. \A d \in DOMAIN cs2 : cs2[d].by = q => d <= c /\ (d # c => cs2[d].result # "pending")
    BY <2>1 DEF Current
  <2>7. \A g \in DOMAIN found : ~ ReachedIn(lg2, c, found[g].key)
    BY <2>1, <2>2, <2>5 DEF Current
  <2>8. \A n \in DOMAIN cs[c].events :
          \/ ReachedIn(lg2, c, cs[c].events[n].key)
          \/ \E g \in DOMAIN found : found[g].key = cs[c].events[n].key
    BY <2>1, <2>2, <2>4 DEF Current
  <2>9. cs2[c].result = "pending" /\ Right(found, c, cs2[c].events, Len(cs2[c].events))
    BY <2>1, <2>2 DEF Current
  <2>10. Current(lg2, cs2, found, q, c)
    BY <2>2, <2>6, <2>7, <2>8, <2>9 DEF Current
  <2>11. QED
    BY <1>2, <2>10 DEF WaitsRight
<1>3. QED
  BY <1>1, <1>2

Finished(cs, p, result) ==
  [x \in DOMAIN cs |-> IF cs[x].by = p /\ cs[x].result = "pending"
                       THEN [cs[x] EXCEPT !.result = result] ELSE cs[x]]

LEMMA FinishedIs ==
  ASSUME NEW cs \in Seq(CallType), NEW p, NEW result \in {"ok", "send"}
  PROVE  /\ Finished(cs, p, result) \in Seq(CallType)
         /\ GoOn(cs, Finished(cs, p, result))
         /\ DOMAIN Finished(cs, p, result) = DOMAIN cs
         /\ \A x \in DOMAIN cs :
              /\ cs[x].by # p \/ cs[x].result # "pending" => Finished(cs, p, result)[x] = cs[x]
              /\ cs[x].by = p /\ cs[x].result = "pending" =>
                   Finished(cs, p, result)[x].result = result
<1> DEFINE cs2 == Finished(cs, p, result)
<1>1. \A x \in DOMAIN cs : cs[x] \in CallType
  OBVIOUS
<1>2. \A y \in CallType : /\ [y EXCEPT !.result = result] \in CallType
                          /\ [y EXCEPT !.result = result].by = y.by
                          /\ [y EXCEPT !.result = result].events = y.events
                          /\ [y EXCEPT !.result = result].result = result
  BY DEF CallType
<1>3. DOMAIN cs = 1 .. Len(cs) /\ Len(cs) \in Nat
  OBVIOUS
<1>4. \A x \in DOMAIN cs : cs2[x] = IF cs[x].by = p /\ cs[x].result = "pending"
                                    THEN [cs[x] EXCEPT !.result = result] ELSE cs[x]
  BY DEF Finished
<1>5. cs2 = [x \in 1 .. Len(cs) |-> cs2[x]] /\ DOMAIN cs2 = DOMAIN cs
  BY <1>3 DEF Finished
<1> HIDE DEF cs2
<1>6. \A x \in DOMAIN cs : /\ cs2[x] \in CallType
                           /\ cs2[x].by = cs[x].by /\ cs2[x].events = cs[x].events
  BY <1>1, <1>2, <1>4
<1>7. cs2 \in Seq(CallType)
  BY <1>3, <1>5, <1>6
<1>8. \A x \in DOMAIN cs :
        /\ cs[x].by # p \/ cs[x].result # "pending" => cs2[x] = cs[x]
        /\ cs[x].by = p /\ cs[x].result = "pending" => cs2[x].result = result
  <2> SUFFICES ASSUME NEW x \in DOMAIN cs
               PROVE  /\ cs[x].by # p \/ cs[x].result # "pending" => cs2[x] = cs[x]
                      /\ cs[x].by = p /\ cs[x].result = "pending" => cs2[x].result = result
    OBVIOUS
  <2>1. CASE cs[x].by = p /\ cs[x].result = "pending"
    <3>1. cs2[x] = [cs[x] EXCEPT !.result = result]
      BY <1>4, <2>1
    <3>2. cs2[x].result = result
      BY <1>1, <1>2, <3>1
    <3>3. QED
      BY <2>1, <3>2
  <2>2. CASE ~ (cs[x].by = p /\ cs[x].result = "pending")
    <3>1. cs2[x] = cs[x]
      BY <1>4, <2>2
    <3>2. QED
      BY <2>2, <3>1
  <2>3. QED
    BY <2>1, <2>2
<1>9. GoOn(cs, cs2)
  BY <1>5, <1>6 DEF GoOn
<1>10. QED
  BY <1>5, <1>7, <1>8, <1>9 DEF cs2

LEMMA FinishedStops ==
  ASSUME NEW lg, NEW cs \in Seq(CallType), NEW p, NEW result \in {"ok", "send"},
         StopsRight(lg, cs),
         \A x \in DOMAIN cs : result = "ok" /\ cs[x].by = p /\ cs[x].result = "pending" =>
           \A n \in DOMAIN cs[x].events : ReachedIn(lg, x, cs[x].events[n].key)
  PROVE  StopsRight(lg, Finished(cs, p, result))
<1> DEFINE cs2 == Finished(cs, p, result)
<1>1. /\ DOMAIN cs2 = DOMAIN cs
      /\ \A x \in DOMAIN cs :
           /\ cs2[x].events = cs[x].events
           /\ cs[x].by # p \/ cs[x].result # "pending" => cs2[x] = cs[x]
           /\ cs[x].by = p /\ cs[x].result = "pending" => cs2[x].result = result
  BY FinishedIs DEF GoOn
<1> HIDE DEF cs2
<1>2. ASSUME NEW x \in DOMAIN cs
      PROVE  /\ cs2[x].result = "serialize" => \A k \in Keys : ~ ReachedIn(lg, x, k)
             /\ cs2[x].result = "ok" =>
                  \A n \in DOMAIN cs2[x].events : ReachedIn(lg, x, cs2[x].events[n].key)
             /\ \A k \in Keys, n \in DOMAIN cs2[x].events :
                  ReachedIn(lg, x, k) /\ (\A m \in 1 .. n : cs2[x].events[m].key # k) =>
                    ReachedIn(lg, x, cs2[x].events[n].key)
  BY <1>1 DEF StopsRight
<1>3. QED
  BY <1>1, <1>2 DEF StopsRight, cs2

\* A call begins: all its groups are to be sent.
LEMMA BeginCallKeeps ==
  ASSUME PublisherInv, NEW p \in Publishers, NEW given \in Seq(Events), NEW requests,
         BeginCall(p, given, requests),
         Right(requests, Len(calls) + 1, given, Len(given)),
         Covers(requests, given, Len(given))
  PROVE  PublisherParts(log, calls', groups')
<1> DEFINE c == Len(calls) + 1
           broken == \E i \in DOMAIN given : ~ given[i].serializes
           new == [by |-> p, events |-> given,
                   result |-> IF broken THEN "serialize"
                              ELSE IF requests = <<>> THEN "ok" ELSE "pending"]
           cs2 == Append(calls, new)
           gs2 == [groups EXCEPT ![p] = IF broken THEN <<>> ELSE requests]
<1>1. /\ log \in [Keys -> Seq(MessageType)] /\ calls \in Seq(CallType)
      /\ groups \in [Publishers -> Seq(GroupType)]
      /\ LogRight(log, calls) /\ StopsRight(log, calls)
      /\ \A q \in Publishers : WaitsRight(log, calls, groups[q], q)
  BY DEF PublisherInv, PublisherParts, PublisherTypes
<1>2. calls' = cs2 /\ groups' = gs2
  BY DEF BeginCall
<1>3. \A d \in DOMAIN calls : calls[d].by = p => calls[d].result # "pending"
  BY DEF BeginCall, Pending
<1>4. new \in CallType /\ new.by = p /\ new.events = given
  BY DEF CallType
<1>5. requests \in Seq(GroupType)
  BY DEF Right
<1>6. gs2 \in [Publishers -> Seq(GroupType)]
      /\ gs2[p] = (IF broken THEN <<>> ELSE requests)
      /\ \A q \in Publishers : q # p => gs2[q] = groups[q]
  BY <1>1, <1>5
<1>7. new.result = IF broken THEN "serialize" ELSE IF requests = <<>> THEN "ok" ELSE "pending"
  OBVIOUS
<1> HIDE DEF new, broken
<1>8. /\ cs2 \in Seq(CallType) /\ DOMAIN calls = 1 .. Len(calls) /\ Len(calls) \in Nat
      /\ DOMAIN cs2 = 1 .. Len(calls) + 1 /\ cs2[Len(calls) + 1] = new
      /\ \A x \in DOMAIN calls : cs2[x] = calls[x]
  BY <1>1, <1>4
<1> HIDE DEF cs2, gs2
<1>9. GoOn(calls, cs2)
  BY <1>8 DEF GoOn
<1>10. \A x \in DOMAIN cs2 : x \in DOMAIN calls \/ x = c
  BY <1>8
<1>11. c \notin DOMAIN calls /\ c \in DOMAIN cs2 /\ cs2[c] = new /\ c \in Nat
  BY <1>8
<1> HIDE DEF c
<1>12. \A k \in Keys : ~ ReachedIn(log, c, k)
  BY <1>1, <1>11 DEF ReachedIn, LogRight
<1>13. StopsRight(log, cs2)
  <2>1. ASSUME NEW x \in DOMAIN calls
        PROVE  /\ cs2[x].result = "serialize" => \A k \in Keys : ~ ReachedIn(log, x, k)
               /\ cs2[x].result = "ok" =>
                    \A n \in DOMAIN cs2[x].events : ReachedIn(log, x, cs2[x].events[n].key)
               /\ \A k \in Keys, n \in DOMAIN cs2[x].events :
                    ReachedIn(log, x, k) /\ (\A m \in 1 .. n : cs2[x].events[m].key # k) =>
                      ReachedIn(log, x, cs2[x].events[n].key)
    <3>1. cs2[x] = calls[x]
      BY <1>8
    <3>2. /\ calls[x].result = "serialize" => \A k \in Keys : ~ ReachedIn(log, x, k)
          /\ calls[x].result = "ok" =>
               \A n \in DOMAIN calls[x].events : ReachedIn(log, x, calls[x].events[n].key)
          /\ \A k \in Keys, n \in DOMAIN calls[x].events :
               ReachedIn(log, x, k) /\ (\A m \in 1 .. n : calls[x].events[m].key # k) =>
                 ReachedIn(log, x, calls[x].events[n].key)
      BY <1>1 DEF StopsRight
    <3>3. QED
      BY <3>1, <3>2
  <2>2. cs2[c].result = "ok" => DOMAIN cs2[c].events = {}
    <3> SUFFICES ASSUME cs2[c].result = "ok" PROVE DOMAIN given = {}
      BY <1>4, <1>11
    <3>1. requests = <<>>
      BY <1>7, <1>11
    <3>2. \A n \in 1 .. Len(given) : FALSE
      BY <3>1 DEF Covers
    <3>3. QED
      BY <3>2
  <2>3. QED
    BY <1>10, <1>12, <2>1, <2>2 DEF StopsRight
<1>14. ASSUME NEW q \in Publishers, q # p
       PROVE  WaitsRight(log, cs2, gs2[q], q)
  <2>1. \A x \in DOMAIN cs2 : cs2[x].by = q => x \in DOMAIN calls /\ cs2[x] = calls[x]
    BY <1>4, <1>8, <1>10, <1>11, <1>14
  <2>2. WaitsRight(log, calls, groups[q], q) /\ groups[q] \in Seq(GroupType)
    BY <1>1
  <2>3. WaitsRight(log, cs2, groups[q], q)
    BY <1>1, <1>9, <2>1, <2>2, OthersWait
  <2>4. QED
    BY <1>6, <1>14, <2>3
<1>15. WaitsRight(log, cs2, gs2[p], p)
  <2>1. \A x \in DOMAIN calls : cs2[x].by = p => cs2[x].result # "pending" /\ x <= c
    BY <1>3, <1>8 DEF c
  <2>2. CASE gs2[p] = <<>>
    <3>1. new.result # "pending"
      BY <1>6, <1>7, <2>2
    <3>2. QED
      BY <1>10, <1>11, <2>1, <2>2, <3>1 DEF WaitsRight
  <2>3. CASE gs2[p] # <<>>
    <3>1. gs2[p] = requests /\ new.result = "pending"
      BY <1>6, <1>7, <2>3
    <3>2. \A d \in DOMAIN cs2 : cs2[d].by = p => d <= c /\ (d # c => cs2[d].result # "pending")
      BY <1>10, <1>11, <2>1
    <3>3. \A g \in DOMAIN requests : ~ ReachedIn(log, c, requests[g].key)
      <4>1. \A g \in DOMAIN requests : requests[g] \in GroupType
        BY <1>5
      <4>2. QED
        BY <1>12, <4>1 DEF GroupType
    <3>4. \A n \in DOMAIN given : \E g \in DOMAIN requests : requests[g].key = given[n].key
      BY DEF Covers
    <3>5. Right(requests, c, given, Len(given))
      BY DEF c
    <3>6. Current(log, cs2, requests, p, c)
      BY <1>4, <1>11, <3>1, <3>2, <3>3, <3>4, <3>5 DEF Current
    <3>7. QED
      BY <2>3, <3>1, <3>6 DEF WaitsRight
  <2>4. QED
    BY <2>2, <2>3
<1>16. LogRight(log, cs2)
  BY <1>1, <1>9, GoOnKeepsLog
<1>17. QED
  BY <1>1, <1>2, <1>6, <1>8, <1>13, <1>14, <1>15, <1>16 DEF PublisherParts, PublisherTypes

LEMMA PublishBatchKeeps ==
  ASSUME PublisherInv, NEW p \in Publishers, NEW given \in Seq(Events), PublishBatch(p, given)
  PROVE  PublisherParts(log', calls', groups')
<1>1. Len(calls) + 1 \in Nat
  BY DEF PublisherInv, PublisherParts, PublisherTypes
<1>2. /\ Right(Grouped(Len(calls) + 1, given), Len(calls) + 1, given, Len(given))
      /\ Covers(Grouped(Len(calls) + 1, given), given, Len(given))
  BY <1>1, GroupedIsRight
<1>3. PublisherParts(log, calls', groups')
  BY <1>2, BeginCallKeeps DEF PublishBatch
<1>4. log' = log
  BY DEF PublishBatch, BeginCall
<1>5. QED
  BY <1>3, <1>4

LEMMA PublishKeeps ==
  ASSUME PublisherInv, NEW p \in Publishers, NEW event \in Events, Publish(p, event)
  PROVE  PublisherParts(log', calls', groups')
<1> DEFINE c == Len(calls) + 1
           given == <<event>>
           one == <<[key |-> event.key, messages |-> <<ToMessage(c, 1)>>]>>
<1>1. c \in Nat /\ given \in Seq(Events) /\ Len(given) = 1 /\ given[1] = event
  BY DEF PublisherInv, PublisherParts, PublisherTypes
<1>2. Right(<<>>, c, given, 0) /\ Covers(<<>>, given, 0)
  BY DEF Right, Covers, InTurn
<1>3. Place(<<>>, given[1].key, ToMessage(c, 1)) = one
  BY <1>1 DEF Place
<1>4. BeginCall(p, given, one)
  BY DEF Publish
<1> HIDE DEF c, given, one
<1>5. LET next == Place(<<>>, given[0 + 1].key, ToMessage(c, 0 + 1))
      IN Right(next, c, given, 0 + 1) /\ Covers(next, given, 0 + 1)
  BY <1>1, <1>2, PlaceKeepsRight
<1>6. Right(one, c, given, Len(given)) /\ Covers(one, given, Len(given))
  BY <1>1, <1>3, <1>5
<1>7. PublisherParts(log, calls', groups')
  BY <1>1, <1>4, <1>6, BeginCallKeeps DEF c
<1>8. log' = log
  BY <1>4 DEF BeginCall
<1>9. QED
  BY <1>7, <1>8

\* What was sent leaves the other groups of the call to be sent.
LEMMA RestIsCurrent ==
  ASSUME NEW lg, NEW cs, NEW found, NEW p, NEW c, NEW group,
         FirstGroup(lg, cs, found, p, c, group)
  PROVE  Current(Sent(lg, group), cs, Tail(found), p, c)
<1> DEFINE lg2 == Sent(lg, group)
           rest == Tail(found)
           given == cs[c].events
           N == Len(cs[c].events)
<1>1. /\ found \in Seq(GroupType) /\ Len(found) \in Nat /\ Len(found) # 0 /\ group = found[1]
      /\ DOMAIN found = 1 .. Len(found) /\ 1 \in DOMAIN found
      /\ c \in DOMAIN cs /\ given \in Seq(Events)
  BY FirstGroupIs DEF FirstGroup
<1>2. /\ rest \in Seq(GroupType) /\ DOMAIN rest = 1 .. Len(found) - 1
      /\ \A g \in DOMAIN rest : g + 1 \in DOMAIN found /\ rest[g] = found[g + 1] /\ g > 0
  BY <1>1
<1>3. \A d, k : k \in Keys =>
        (ReachedIn(lg2, d, k) <=> ReachedIn(lg, d, k) \/ (d = c /\ k = group.key))
  BY SentReaches
<1>4. /\ cs[c].by = p /\ cs[c].result = "pending"
      /\ \A d \in DOMAIN cs : cs[d].by = p => d <= c /\ (d # c => cs[d].result # "pending")
      /\ \A g \in DOMAIN found : ~ ReachedIn(lg, c, found[g].key)
      /\ \A n \in DOMAIN given :
           \/ ReachedIn(lg, c, given[n].key)
           \/ \E g \in DOMAIN found : found[g].key = given[n].key
  BY DEF FirstGroup, Current
<1>5. /\ \A g \in DOMAIN found : Carries(found[g], c, given, N)
      /\ \A g, h \in DOMAIN found : g < h =>
           /\ found[g].key # found[h].key
           /\ \A n \in 1 .. N : given[n].key = found[h].key =>
                \E m \in 1 .. n - 1 : given[m].key = found[g].key
  BY DEF FirstGroup, Current, Right, InTurn
<1>6. \A n \in DOMAIN given : given[n].key \in Keys
  <2>1. \A n \in DOMAIN given : given[n] \in Events
    BY <1>1
  <2>2. QED
    BY <2>1 DEF Events
<1>7. \A g \in DOMAIN found : found[g].key \in Keys
  <2>1. \A g \in DOMAIN found : found[g] \in GroupType
    BY <1>1
  <2>2. QED
    BY <2>1 DEF GroupType
<1> HIDE DEF lg2, rest, given, N
<1>8. Right(rest, c, given, N)
  <2>1. \A g, h \in DOMAIN rest : g < h => g + 1 < h + 1
    BY <1>1, <1>2
  <2>2. QED
    BY <1>2, <1>5, <2>1 DEF Right, InTurn
<1>9. ASSUME NEW g \in DOMAIN rest
      PROVE  ~ ReachedIn(lg2, c, rest[g].key)
  <2>1. g + 1 \in DOMAIN found /\ rest[g] = found[g + 1] /\ 1 < g + 1
    BY <1>1, <1>2
  <2>2. found[1].key # found[g + 1].key
    BY <1>1, <1>5, <2>1
  <2>3. QED
    BY <1>1, <1>3, <1>4, <1>7, <2>1, <2>2
<1>10. ASSUME NEW n \in DOMAIN given
       PROVE  \/ ReachedIn(lg2, c, given[n].key)
              \/ \E g \in DOMAIN rest : rest[g].key = given[n].key
  <2>1. CASE ReachedIn(lg, c, given[n].key)
    BY <1>3, <1>6, <2>1
  <2>2. CASE \E g \in DOMAIN found : found[g].key = given[n].key
    <3>1. PICK g \in DOMAIN found : found[g].key = given[n].key
      BY <2>2
    <3>2. CASE g = 1
      BY <1>1, <1>3, <1>6, <3>1, <3>2
    <3>3. CASE g # 1
      <4>1. g - 1 \in DOMAIN rest /\ (g - 1) + 1 = g
        BY <1>1, <1>2, <3>3
      <4>2. rest[g - 1] = found[g]
        BY <1>2, <4>1
      <4>3. QED
        BY <3>1, <4>1, <4>2
    <3>4. QED
      BY <3>2, <3>3
  <2>3. QED
    BY <1>4, <2>1, <2>2
<1>11. QED
  BY <1>1, <1>4, <1>8, <1>9, <1>10 DEF Current, lg2, rest, given, N

\* What holds when a group of p is sent, or may have been.
LEMMA SendBegins ==
  ASSUME PublisherInv, NEW p \in Publishers, groups[p] # <<>>
  PROVE  \E c : /\ FirstGroup(log, calls, groups[p], p, c, Head(groups[p]))
                /\ Appended(Head(groups[p])) = Sent(log, Head(groups[p]))
<1>1. PICK c : Current(log, calls, groups[p], p, c)
  BY DEF PublisherInv, PublisherParts, WaitsRight
<1>2. groups[p] \in Seq(GroupType) /\ Head(groups[p]) = groups[p][1]
  BY DEF PublisherInv, PublisherParts, PublisherTypes
<1>3. FirstGroup(log, calls, groups[p], p, c, Head(groups[p]))
  BY <1>1, <1>2 DEF FirstGroup, PublisherInv, PublisherParts, PublisherTypes
<1>4. QED
  BY <1>3 DEF Appended, Sent

\* The other publishers wait as before when p sent to lg2 and its call is as in cs2.
LEMMA SenderLeavesOthers ==
  ASSUME PublisherInv, NEW p \in Publishers, NEW c, NEW lg2, NEW cs2,
         FirstGroup(log, calls, groups[p], p, c, Head(groups[p])),
         lg2 \in {log, Sent(log, Head(groups[p]))},
         cs2 \in {calls, Finished(calls, p, "ok"), Finished(calls, p, "send")},
         NEW q \in Publishers, q # p
  PROVE  WaitsRight(lg2, cs2, groups[q], q)
<1>1. calls \in Seq(CallType) /\ groups[q] \in Seq(GroupType)
      /\ WaitsRight(log, calls, groups[q], q)
  BY DEF PublisherInv, PublisherParts, PublisherTypes
<1>2. /\ GoOn(calls, cs2) /\ DOMAIN cs2 = DOMAIN calls
      /\ \A x \in DOMAIN calls : calls[x].by # p => cs2[x] = calls[x]
  BY <1>1, FinishedIs DEF GoOn
<1>3. \A x \in DOMAIN cs2 : cs2[x].by = q => x \in DOMAIN calls /\ cs2[x] = calls[x]
  BY <1>2 DEF GoOn
<1>4. \A d, k : k \in Keys =>
        (ReachedIn(Sent(log, Head(groups[p])), d, k)
           <=> ReachedIn(log, d, k) \/ (d = c /\ k = Head(groups[p]).key))
  BY SentReaches
<1>5. calls[c].by = p
  BY DEF FirstGroup, Current
<1>6. \A x \in DOMAIN calls, k \in Keys : calls[x].by = q =>
        (ReachedIn(lg2, x, k) <=> ReachedIn(log, x, k))
  BY <1>4, <1>5
<1>7. QED
  BY <1>1, <1>2, <1>3, <1>6, OthersWait

LEMMA SendGroupKeeps ==
  ASSUME PublisherInv, NEW p \in Publishers, SendGroup(p)
  PROVE  PublisherParts(log', calls', groups')
<1>1. /\ log \in [Keys -> Seq(MessageType)] /\ calls \in Seq(CallType)
      /\ groups \in [Publishers -> Seq(GroupType)]
      /\ LogRight(log, calls) /\ StopsRight(log, calls)
  BY DEF PublisherInv, PublisherParts, PublisherTypes
<1>2. groups[p] # <<>>
  BY DEF SendGroup
<1> DEFINE group == Head(groups[p])
           rest == Tail(groups[p])
           lg2 == Sent(log, group)
           cs2 == IF Len(groups[p]) = 1 THEN Finished(calls, p, "ok") ELSE calls
<1>3. PICK c : FirstGroup(log, calls, groups[p], p, c, group) /\ Appended(group) = lg2
  BY <1>2, SendBegins
<1>4. log' = lg2 /\ groups' = [groups EXCEPT ![p] = rest] /\ calls' = cs2
  BY <1>3 DEF SendGroup, Finish, Finished
<1>5. groups[p] \in Seq(GroupType) /\ rest \in Seq(GroupType)
      /\ (rest = <<>> <=> Len(groups[p]) = 1)
  <2>1. ASSUME NEW found \in Seq(GroupType), found # <<>>
        PROVE  /\ Tail(found) \in Seq(GroupType) /\ Len(Tail(found)) = Len(found) - 1
               /\ (Tail(found) = <<>> <=> Len(found) = 1)
    <3>1. /\ Tail(found) \in Seq(GroupType) /\ Len(Tail(found)) = Len(found) - 1
          /\ Len(found) \in Nat
      BY <2>1
    <3>2. QED
      BY <3>1
  <2>2. groups[p] \in Seq(GroupType)
    BY <1>1
  <2>3. QED
    BY <1>2, <2>1, <2>2
<1>6. groups' \in [Publishers -> Seq(GroupType)] /\ groups'[p] = rest
      /\ \A q \in Publishers : q # p => groups'[q] = groups[q]
  <2> HIDE DEF rest
  <2>1. QED
    BY <1>1, <1>4, <1>5
<1>7. lg2 \in [Keys -> Seq(MessageType)] /\ LogRight(lg2, calls) /\ StopsRight(lg2, calls)
  BY <1>1, <1>3, SentIs, SentKeepsLog, SentKeepsStops DEF GrownBy
<1>8. Current(lg2, calls, rest, p, c)
  BY <1>3, RestIsCurrent
<1>9. cs2 \in Seq(CallType) /\ GoOn(calls, cs2) /\ DOMAIN cs2 = DOMAIN calls
  BY <1>1, FinishedIs DEF GoOn
<1>10. ASSUME NEW q \in Publishers, q # p PROVE WaitsRight(lg2, cs2, groups'[q], q)
  BY <1>3, <1>6, <1>10, SenderLeavesOthers
<1>11. CASE rest = <<>>
  <2>1. cs2 = Finished(calls, p, "ok")
    BY <1>5, <1>11
  <2>2. \A x \in DOMAIN calls : calls[x].by = p /\ calls[x].result = "pending" =>
          \A n \in DOMAIN calls[x].events : ReachedIn(lg2, x, calls[x].events[n].key)
    BY <1>8, <1>11 DEF Current
  <2> HIDE DEF lg2, rest, group
  <2>3. StopsRight(lg2, cs2)
    BY <1>1, <1>7, <2>1, <2>2, FinishedStops
  <2>4. \A x \in DOMAIN cs2 : cs2[x].by = p => cs2[x].result # "pending"
    <3>1. \A x \in DOMAIN calls :
            /\ calls[x].by = p /\ calls[x].result = "pending" => cs2[x].result = "ok"
            /\ calls[x].result # "pending" => cs2[x] = calls[x]
            /\ cs2[x].by = calls[x].by
      BY <1>1, <2>1, FinishedIs DEF GoOn
    <3>2. QED
      BY <1>9, <3>1
  <2>5. WaitsRight(lg2, cs2, rest, p)
    BY <1>11, <2>4 DEF WaitsRight
  <2>6. QED
    BY <1>4, <1>6, <1>7, <1>9, <1>10, <2>3, <2>5, GoOnKeepsLog DEF PublisherParts, PublisherTypes
<1>12. CASE rest # <<>>
  <2>1. cs2 = calls
    BY <1>5, <1>12
  <2>2. WaitsRight(lg2, cs2, rest, p)
    BY <1>8, <1>12, <2>1 DEF WaitsRight
  <2> HIDE DEF lg2, rest, group, cs2
  <2>3. QED
    BY <1>4, <1>6, <1>7, <1>9, <1>10, <2>1, <2>2 DEF PublisherParts, PublisherTypes
<1>13. QED
  BY <1>11, <1>12

LEMMA SendFailsKeeps ==
  ASSUME PublisherInv, NEW p \in Publishers, SendFails(p)
  PROVE  PublisherParts(log', calls', groups')
<1>1. /\ log \in [Keys -> Seq(MessageType)] /\ calls \in Seq(CallType)
      /\ groups \in [Publishers -> Seq(GroupType)]
      /\ LogRight(log, calls) /\ StopsRight(log, calls)
  BY DEF PublisherInv, PublisherParts, PublisherTypes
<1>2. groups[p] # <<>>
  BY DEF SendFails
<1> DEFINE group == Head(groups[p])
           cs2 == Finished(calls, p, "send")
<1>3. PICK c : FirstGroup(log, calls, groups[p], p, c, group)
               /\ Appended(group) = Sent(log, group)
  BY <1>2, SendBegins
<1>4. PICK lg2 : lg2 = log' /\ lg2 \in {log, Sent(log, group)}
  BY <1>3 DEF SendFails
<1>5. groups' = [groups EXCEPT ![p] = <<>>] /\ calls' = cs2
  BY DEF SendFails, Finish, Finished
<1>6. groups' \in [Publishers -> Seq(GroupType)] /\ groups'[p] = <<>>
      /\ \A q \in Publishers : q # p => groups'[q] = groups[q]
  BY <1>1, <1>5
<1>7. lg2 \in [Keys -> Seq(MessageType)] /\ LogRight(lg2, calls) /\ StopsRight(lg2, calls)
  <2>1. GrownBy(log, Sent(log, group), group.key, group.messages)
        /\ LogRight(Sent(log, group), calls) /\ StopsRight(Sent(log, group), calls)
    BY <1>1, <1>3, SentIs, SentKeepsLog, SentKeepsStops
  <2>2. Sent(log, group) \in [Keys -> Seq(MessageType)]
    BY <2>1 DEF GrownBy
  <2> HIDE DEF group
  <2>3. QED
    BY <1>1, <1>4, <2>1, <2>2
<1>8. cs2 \in Seq(CallType) /\ GoOn(calls, cs2) /\ DOMAIN cs2 = DOMAIN calls
  BY <1>1, FinishedIs DEF GoOn
<1>9. ASSUME NEW q \in Publishers, q # p PROVE WaitsRight(lg2, cs2, groups'[q], q)
  BY <1>3, <1>4, <1>6, <1>9, SenderLeavesOthers
<1>10. StopsRight(lg2, cs2)
  BY <1>1, <1>7, FinishedStops
<1>11. \A x \in DOMAIN cs2 : cs2[x].by = p => cs2[x].result # "pending"
  <2>1. \A x \in DOMAIN calls :
          /\ calls[x].by = p /\ calls[x].result = "pending" => cs2[x].result = "send"
          /\ calls[x].result # "pending" => cs2[x] = calls[x]
          /\ cs2[x].by = calls[x].by
    BY <1>1, FinishedIs DEF GoOn
  <2>2. QED
    BY <1>8, <2>1
<1>12. WaitsRight(lg2, cs2, groups'[p], p)
  BY <1>6, <1>11 DEF WaitsRight
<1> HIDE DEF cs2, group
<1>13. LogRight(lg2, cs2)
  BY <1>7, <1>8, GoOnKeepsLog
<1>14. QED
  BY <1>4, <1>5, <1>6, <1>7, <1>8, <1>9, <1>10, <1>12, <1>13 DEF PublisherParts, PublisherTypes

LEMMA PublisherInitInv == PublisherInit => PublisherInv
<1> SUFFICES ASSUME PublisherInit PROVE PublisherInv
  OBVIOUS
<1>1. log = [k \in Keys |-> <<>>] /\ calls = <<>> /\ groups = [p \in Publishers |-> <<>>]
  BY DEF PublisherInit
<1>2. PublisherTypes(log, calls, groups)
  BY <1>1 DEF PublisherTypes
<1>3. \A k \in Keys : DOMAIN log[k] = {}
  BY <1>1
<1>4. DOMAIN calls = {}
  BY <1>1
<1>5. LogRight(log, calls) /\ StopsRight(log, calls)
  BY <1>3, <1>4 DEF LogRight, StopsRight
<1>6. \A p \in Publishers : WaitsRight(log, calls, groups[p], p)
  BY <1>1, <1>4 DEF WaitsRight
<1>7. QED
  BY <1>2, <1>5, <1>6 DEF PublisherInv, PublisherParts

LEMMA PublisherStepInv == PublisherInv /\ [PublisherNext]_publisherVars => PublisherInv'
<1> SUFFICES ASSUME PublisherInv, [PublisherNext]_publisherVars
             PROVE  PublisherParts(log', calls', groups')
  BY DEF PublisherInv
<1>1. ASSUME NEW p \in Publishers, NEW given \in BoundedSeq(Events, MaxBatch),
             PublishBatch(p, given)
      PROVE  PublisherParts(log', calls', groups')
  <2>1. PICK m \in 0 .. MaxBatch : given \in [1 .. m -> Events]
    BY <1>1 DEF BoundedSeq, SeqOf
  <2>2. given \in Seq(Events)
    BY <2>1, PublisherAssumption DEF PublisherAssumption
  <2>3. QED
    BY <1>1, <2>2, PublishBatchKeeps
<1>2. CASE UNCHANGED publisherVars
  BY <1>2 DEF publisherVars, PublisherInv
<1>3. QED
  BY <1>1, <1>2, PublishKeeps, SendGroupKeeps, SendFailsKeeps DEF PublisherNext

\* For any number of publishers, keys and events, and wherever requests fail or
\* calls are dropped: the log of a key holds the share of a call as a whole and in
\* order, and what publish_batch returns is what it sent.
THEOREM PublishersAreTold == PublisherSpec => []PublishedAsTold
<1>1. PublisherInv => PublishedAsTold
  <2> SUFFICES ASSUME PublisherInv PROVE PublishedAsTold
    OBVIOUS
  <2>1. LogRight(log, calls) /\ StopsRight(log, calls)
    BY DEF PublisherInv, PublisherParts
  <2>2. \A c, k : Reached(c, k) <=> ReachedIn(log, c, k)
    BY DEF Reached, ReachedIn
  <2>3. SharesWhole
    BY <2>1, <2>2 DEF SharesWhole, LogRight, EventOf
  <2>4. ErrorsStop
    BY <2>1, <2>2 DEF ErrorsStop, StopsRight
  <2>5. QED
    BY <2>3, <2>4 DEF PublishedAsTold
<1>2. QED
  BY <1>1, PublisherInitInv, PublisherStepInv, PTL DEF PublisherSpec

-----------------------------------------------------------------------------
\* Headers.

LEMMA BaseIs == Base \in Nat /\ Base >= 7 /\ TagLen \in Nat \ {0} /\ WordLen \in Nat \ {0}
BY HeadersAssumption DEF HeadersAssumption

LEMMA QuotientIs ==
  ASSUME NEW n \in Nat
  PROVE  n \div Base \in Nat /\ n % Base \in Byte /\ (n % Base) + Base * (n \div Base) = n
BY BaseIs DEF Byte

LEMMA DigitIs ==
  ASSUME NEW q \in Nat, NEW digit \in Byte
  PROVE  /\ digit + Base * q \in Nat
         /\ ((digit + Base * q) \div Base) = q /\ ((digit + Base * q) % Base) = digit
BY BaseIs DEF Byte

\* Induction up to N: what holds of 0, and of n whenever of n - 1, holds throughout.
LEMMA HoldsUpTo ==
  ASSUME NEW N \in Nat, NEW T, 0 \in T, \A n \in 1 .. N : n - 1 \in T => n \in T
  PROVE  \A n \in 0 .. N : n \in T
<1> DEFINE bad == {n \in 0 .. N : n \notin T}
<1>1. SUFFICES ASSUME bad # {} PROVE FALSE
  OBVIOUS
<1>2. PICK n \in bad : \A m \in bad : n <= m
  <2>1. bad \subseteq Nat
    OBVIOUS
  <2> HIDE DEF bad
  <2>2. QED
    BY <1>1, <2>1, LeastNumber
<1>3. n \in 0 .. N /\ n \notin T
  OBVIOUS
<1>4. n \in 1 .. N /\ n - 1 \in 0 .. N /\ ~ (n <= n - 1)
  BY <1>3
<1>5. n - 1 \notin bad
  <2> HIDE DEF bad
  <2>1. QED
    BY <1>2, <1>4
<1>6. QED
  BY <1>3, <1>4, <1>5

LEMMA ShiftedIs ==
  ASSUME NEW n \in Nat, NEW L \in Nat
  PROVE  /\ Shifted(n, L) \in [0 .. L -> Nat] /\ Shifted(n, L)[0] = n
         /\ \A i \in 1 .. L : Shifted(n, L)[i] = Shifted(n, L)[i - 1] \div Base
<1> DEFINE turn == [i \in 1 .. L |-> [x \in Nat |-> x \div Base]]
           Step1(f, i) == IF i = 0 THEN n ELSE f[i - 1] \div Base
           Walks(f) == f = [i \in 0 .. L |-> Step1(f, i)]
           rest == CHOOSE f : Walks(f)
<1>1. turn \in Turns(Nat, L)
  BY QuotientIs DEF Turns
<1>2. PICK f : WalkOver(f, Nat, n, turn, L)
  <2> HIDE DEF turn
  <2>1. QED
    BY <1>1, WalkExists
<1>3. f \in [0 .. L -> Nat] /\ f[0] = n /\ \A i \in 1 .. L : f[i] = turn[i][f[i - 1]]
  BY <1>2 DEF WalkOver
<1>4. \A i \in 1 .. L : f[i - 1] \in Nat
  BY <1>3
<1>5. ASSUME NEW i \in 0 .. L PROVE f[i] = Step1(f, i)
  <2>1. \A m \in 1 .. L, x \in Nat : turn[m][x] = x \div Base
    OBVIOUS
  <2> HIDE DEF turn
  <2>2. QED
    BY <1>3, <1>4, <2>1
<1>6. f = [i \in 0 .. L |-> f[i]]
  BY <1>3
<1>7. Walks(f)
  <2> HIDE DEF Step1
  <2>1. QED
    BY <1>5, <1>6
<1>8. Walks(rest)
  <2> HIDE DEF Walks
  <2>1. QED
    BY <1>7
<1>9. Shifted(n, L) = rest
  BY DEF Shifted
<1> HIDE DEF rest
<1>10. \A i \in 0 .. L : rest[i] = Step1(rest, i)
  <2> HIDE DEF Step1
  <2>1. QED
    BY <1>8
<1>11. rest[0] = n /\ \A i \in 1 .. L : rest[i] = rest[i - 1] \div Base
  BY <1>10
<1>13. \A i \in 0 .. L : rest[i] \in Nat
  <2> DEFINE T == {i \in 0 .. L : rest[i] \in Nat}
  <2>1. 0 \in T
    BY <1>11
  <2>2. ASSUME NEW i \in 1 .. L, i - 1 \in T PROVE i \in T
    BY <1>11, <2>2, QuotientIs
  <2>3. \A i \in 0 .. L : i \in T
    <3> HIDE DEF T
    <3>1. QED
      BY <2>1, <2>2, HoldsUpTo
  <2>4. QED
    BY <2>3
<1>14. DOMAIN rest = 0 .. L /\ rest = [i \in 0 .. L |-> rest[i]]
  <2> HIDE DEF Step1
  <2>1. QED
    BY <1>8
<1>15. rest \in [0 .. L -> Nat]
  BY <1>13, <1>14
<1>16. QED
  BY <1>9, <1>11, <1>15

\* The numbers in the last bytes of a word, up to the whole of it.
LEMMA NumberIs ==
  ASSUME NEW bytes \in Seq(Byte)
  PROVE  \E last \in [0 .. Len(bytes) -> Nat] :
           /\ last[0] = 0 /\ Number(bytes) = last[Len(bytes)]
           /\ \A i \in 1 .. Len(bytes) :
                last[i] = bytes[Len(bytes) - i + 1] + Base * last[i - 1]
<1> DEFINE L == Len(bytes)
           turn == [i \in 1 .. L |-> [x \in Nat |-> bytes[L - i + 1] + Base * x]]
           Step1(f, i) == IF i = 0 THEN 0 ELSE bytes[L - i + 1] + Base * f[i - 1]
           Walks(f) == f = [i \in 0 .. L |-> Step1(f, i)]
           last == CHOOSE f : Walks(f)
<1>1. L \in Nat /\ \A i \in 1 .. L : bytes[L - i + 1] \in Byte
  OBVIOUS
<1>2. turn \in Turns(Nat, L)
  <2> HIDE DEF L
  <2>1. QED
    BY <1>1, DigitIs DEF Turns
<1>3. PICK f : WalkOver(f, Nat, 0, turn, L)
  <2> HIDE DEF turn, L
  <2>1. QED
    BY <1>1, <1>2, WalkExists
<1>4. f \in [0 .. L -> Nat] /\ f[0] = 0 /\ \A i \in 1 .. L : f[i] = turn[i][f[i - 1]]
  BY <1>3 DEF WalkOver
<1> HIDE DEF L
<1>5. \A i \in 1 .. L : f[i - 1] \in Nat
  BY <1>1, <1>4
<1>6. ASSUME NEW i \in 0 .. L PROVE f[i] = Step1(f, i)
  <2>1. \A m \in 1 .. L, x \in Nat : turn[m][x] = bytes[L - m + 1] + Base * x
    OBVIOUS
  <2> HIDE DEF turn
  <2>2. QED
    <3>1. CASE i = 0
      BY <1>4, <3>1
    <3>2. CASE i # 0
      <4>1. i \in 1 .. L
        BY <1>1, <3>2
      <4>2. f[i] = turn[i][f[i - 1]] /\ f[i - 1] \in Nat
        BY <1>4, <1>5, <4>1
      <4>3. f[i] = bytes[L - i + 1] + Base * f[i - 1]
        BY <2>1, <4>1, <4>2
      <4>4. QED
        BY <3>2, <4>3
    <3>3. QED
      BY <3>1, <3>2
<1>7. f = [i \in 0 .. L |-> f[i]]
  BY <1>4
<1>8. Walks(f)
  <2> HIDE DEF Step1
  <2>1. QED
    BY <1>6, <1>7
<1>9. Walks(last)
  <2> HIDE DEF Walks
  <2>1. QED
    BY <1>8
<1>10. Number(bytes) = last[L]
  BY DEF Number, L
<1> HIDE DEF last
<1>11. \A i \in 0 .. L : last[i] = Step1(last, i)
  <2> HIDE DEF Step1
  <2>1. QED
    BY <1>9
<1>12. last[0] = 0 /\ \A i \in 1 .. L : last[i] = bytes[L - i + 1] + Base * last[i - 1]
  BY <1>1, <1>11
<1>14. \A i \in 0 .. L : last[i] \in Nat
  <2> DEFINE T == {i \in 0 .. L : last[i] \in Nat}
  <2>1. 0 \in T
    BY <1>1, <1>12
  <2>2. ASSUME NEW i \in 1 .. L, i - 1 \in T PROVE i \in T
    <3>1. bytes[L - i + 1] \in Byte /\ last[i - 1] \in Nat /\ i \in 0 .. L
      BY <1>1, <2>2
    <3>2. bytes[L - i + 1] + Base * last[i - 1] \in Nat
      BY <3>1, DigitIs
    <3>3. last[i] = bytes[L - i + 1] + Base * last[i - 1]
      BY <1>12
    <3>4. QED
      BY <3>1, <3>2, <3>3
  <2>3. \A i \in 0 .. L : i \in T
    <3> HIDE DEF T
    <3>1. QED
      BY <1>1, <2>1, <2>2, HoldsUpTo
  <2>4. QED
    BY <2>3
<1>15. DOMAIN last = 0 .. L /\ last = [i \in 0 .. L |-> last[i]]
  <2> HIDE DEF Step1
  <2>1. QED
    BY <1>9
<1>16. last \in [0 .. L -> Nat]
  BY <1>14, <1>15
<1>17. QED
  BY <1>10, <1>12, <1>16 DEF L

LEMMA LittleEndianIs ==
  ASSUME NEW n \in Nat, NEW L \in Nat
  PROVE  /\ LittleEndian(n, L) \in Seq(Byte) /\ Len(LittleEndian(n, L)) = L
         /\ DOMAIN LittleEndian(n, L) = 1 .. L
         /\ \A i \in 1 .. L : LittleEndian(n, L)[i] = Shifted(n, L)[i - 1] % Base
<1>1. \A i \in 1 .. L : Shifted(n, L)[i - 1] \in Nat
  BY ShiftedIs
<1>2. \A i \in 1 .. L : Shifted(n, L)[i - 1] % Base \in Byte
  BY <1>1, QuotientIs
<1>3. LittleEndian(n, L) \in [1 .. L -> Byte]
  BY <1>2 DEF LittleEndian
<1>4. QED
  BY <1>3 DEF LittleEndian

\* from_le_bytes undoes to_le_bytes.
LEMMA ReadsBack ==
  ASSUME NEW n \in Nat, NEW L \in Nat, Fits(n, L)
  PROVE  Number(LittleEndian(n, L)) = n
<1> DEFINE bytes == LittleEndian(n, L)
           rest == Shifted(n, L)
<1>1. /\ bytes \in Seq(Byte) /\ Len(bytes) = L
      /\ \A i \in 1 .. L : bytes[i] = rest[i - 1] % Base
  BY LittleEndianIs
<1>2. /\ rest \in [0 .. L -> Nat] /\ rest[0] = n /\ rest[L] = 0
      /\ \A i \in 1 .. L : rest[i] = rest[i - 1] \div Base
  BY ShiftedIs DEF Fits
<1> HIDE DEF bytes, rest
<1>3. PICK last \in [0 .. L -> Nat] :
        /\ last[0] = 0 /\ Number(bytes) = last[L]
        /\ \A i \in 1 .. L : last[i] = bytes[L - i + 1] + Base * last[i - 1]
  BY <1>1, NumberIs
<1> DEFINE T == {i \in 0 .. L : last[i] = rest[L - i]}
<1>4. 0 \in T
  BY <1>2, <1>3
<1>5. ASSUME NEW i \in 1 .. L, i - 1 \in T PROVE i \in T
  <2> DEFINE o == L - i
  <2>1. o + 1 = L - i + 1 /\ o + 1 \in 1 .. L /\ o \in 0 .. L /\ L - (i - 1) = o + 1
        /\ (o + 1) - 1 = o /\ i \in 0 .. L
    OBVIOUS
  <2>2. last[i - 1] = rest[L - (i - 1)]
    BY <1>5
  <2> HIDE DEF o
  <2>3. last[i - 1] = rest[o + 1] /\ rest[o + 1] = rest[o] \div Base
    BY <1>2, <2>1, <2>2
  <2>4. bytes[o + 1] = rest[o] % Base /\ rest[o] \in Nat
    BY <1>1, <1>2, <2>1
  <2>5. last[i] = bytes[o + 1] + Base * last[i - 1]
    BY <1>3, <2>1
  <2>6. last[i] = rest[o]
    BY <2>3, <2>4, <2>5, QuotientIs
  <2>7. QED
    BY <2>1, <2>6 DEF o
<1>6. \A i \in 0 .. L : i \in T
  <2> HIDE DEF T
  <2>1. QED
    BY <1>4, <1>5, HoldsUpTo
<1>7. last[L] = rest[0]
  <2>1. L \in 0 .. L /\ L - L = 0
    OBVIOUS
  <2>2. last[L] = rest[L - L]
    BY <1>6, <2>1
  <2>3. QED
    BY <2>1, <2>2
<1>8. QED
  BY <1>2, <1>3, <1>7 DEF bytes

\* to_le_bytes undoes from_le_bytes.
LEMMA WritesBack ==
  ASSUME NEW bytes \in Seq(Byte)
  PROVE  Number(bytes) \in Nat /\ LittleEndian(Number(bytes), Len(bytes)) = bytes
<1> DEFINE L == Len(bytes)
           n == Number(bytes)
           rest == Shifted(n, L)
<1>1. PICK last \in [0 .. L -> Nat] :
        /\ last[0] = 0 /\ n = last[L]
        /\ \A i \in 1 .. L : last[i] = bytes[L - i + 1] + Base * last[i - 1]
  BY NumberIs
<1>2. L \in Nat /\ bytes \in [1 .. L -> Byte]
  OBVIOUS
<1> HIDE DEF L
<1>3. n \in Nat
  BY <1>1, <1>2
<1> HIDE DEF n
<1>4. /\ rest \in [0 .. L -> Nat] /\ rest[0] = n
      /\ \A i \in 1 .. L : rest[i] = rest[i - 1] \div Base
  BY <1>2, <1>3, ShiftedIs
<1>5. \A i \in 1 .. L : LittleEndian(n, L)[i] = rest[i - 1] % Base
  BY <1>2, <1>3, LittleEndianIs
<1>6. LittleEndian(n, L) \in Seq(Byte) /\ Len(LittleEndian(n, L)) = L
      /\ DOMAIN LittleEndian(n, L) = 1 .. L
  BY <1>2, <1>3, LittleEndianIs
<1> HIDE DEF rest
\* The number in the last bytes, split at its lowest one.
<1>7. ASSUME NEW i \in 1 .. L
      PROVE  last[L - i + 1] \div Base = last[L - i] /\ last[L - i + 1] % Base = bytes[i]
  <2> DEFINE o == L - i + 1
  <2>1. o \in 1 .. L /\ o - 1 = L - i /\ L - o + 1 = i /\ o - 1 \in 0 .. L
    BY <1>2
  <2> HIDE DEF o
  <2>2. last[o] = bytes[L - o + 1] + Base * last[o - 1]
    BY <1>1, <2>1
  <2>3. last[o] = bytes[i] + Base * last[o - 1]
    BY <2>1, <2>2
  <2>4. bytes[i] \in Byte /\ last[o - 1] \in Nat
    BY <1>1, <1>2, <2>1
  <2>5. last[o] \div Base = last[o - 1] /\ last[o] % Base = bytes[i]
    BY <2>3, <2>4, DigitIs
  <2>6. QED
    BY <2>1, <2>5 DEF o
<1> DEFINE T == {i \in 0 .. L : rest[i] = last[L - i]}
<1>8. 0 \in T
  BY <1>1, <1>2, <1>4
<1>9. ASSUME NEW i \in 1 .. L, i - 1 \in T PROVE i \in T
  <2>1. rest[i - 1] = last[L - i + 1]
    <3>1. L - (i - 1) = L - i + 1
      BY <1>2
    <3>2. rest[i - 1] = last[L - (i - 1)]
      BY <1>9
    <3>3. QED
      BY <3>1, <3>2
  <2>2. rest[i] = last[L - i]
    BY <1>4, <1>7, <2>1
  <2>3. QED
    BY <1>2, <2>2
<1>10. \A i \in 0 .. L : i \in T
  <2> HIDE DEF T
  <2>1. QED
    BY <1>2, <1>8, <1>9, HoldsUpTo
<1>11. ASSUME NEW i \in 1 .. L PROVE LittleEndian(n, L)[i] = bytes[i]
  <2>1. i - 1 \in 0 .. L /\ L - (i - 1) = L - i + 1
    BY <1>2
  <2>2. rest[i - 1] = last[L - i + 1]
    BY <1>10, <2>1
  <2>3. QED
    BY <1>5, <1>7, <2>2
<1>12. LittleEndian(n, L) = bytes
  BY <1>2, <1>6, <1>11
<1>13. QED
  BY <1>3, <1>12 DEF L, n

Names == {"tag", "key", "props", "retry"}

LEMMA Results ==
  /\ \A kind : IsError(Error(kind))
  /\ \A v : ~ IsError(Value(v)) /\ Value(v).value = v
  /\ \A ms : RetryAt(ms) # NoRetry /\ RetryAt(ms).failed = {ms}
<1>1. \A ms : RetryAt(ms).failed = {ms} /\ NoRetry.failed = {}
  BY DEF RetryAt, NoRetry
<1>2. QED
  BY <1>1 DEF IsError, Error, Value

LEMMA PropertiesBack ==
  /\ \A p \in Properties : ParseProperties(IntoBytes(p)) = Value(p)
  /\ \A bytes \in Seq(Byte) : ~ IsError(ParseProperties(bytes)) =>
       \E p \in Properties : ParseProperties(bytes) = Value(p) /\ IntoBytes(p) = bytes
<1>1. ASSUME NEW p \in Properties PROVE ParseProperties(IntoBytes(p)) = Value(p)
  <2> DEFINE bytes == IntoBytes(p)
  <2>1. Len(bytes) = 3 /\ bytes[1] = VERSION /\ bytes[2] = p.ordering /\ bytes[3] = p.associativity
    BY DEF IntoBytes
  <2>2. p.ordering \in Orderings /\ p.associativity \in Associativities
        /\ p = [ordering |-> p.ordering, associativity |-> p.associativity]
    BY DEF Properties
  <2> HIDE DEF bytes
  <2>3. ParseProperties(bytes) = Value([ordering |-> bytes[2], associativity |-> bytes[3]])
    BY <2>1, <2>2 DEF ParseProperties
  <2>4. QED
    BY <2>1, <2>2, <2>3 DEF bytes
<1>2. ASSUME NEW bytes \in Seq(Byte), ~ IsError(ParseProperties(bytes))
      PROVE  \E p \in Properties : ParseProperties(bytes) = Value(p) /\ IntoBytes(p) = bytes
  <2>1. /\ Len(bytes) = 3 /\ bytes[1] = VERSION
        /\ bytes[2] \in Orderings /\ bytes[3] \in Associativities
    BY <1>2, Results DEF ParseProperties
  <2> DEFINE p == [ordering |-> bytes[2], associativity |-> bytes[3]]
  <2>2. p \in Properties /\ p.ordering = bytes[2] /\ p.associativity = bytes[3]
    BY <2>1 DEF Properties
  <2>3. ParseProperties(bytes) = Value(p)
    BY <2>1 DEF ParseProperties
  <2> HIDE DEF p
  <2>4. IntoBytes(p) = bytes
    <3>1. bytes = <<bytes[1], bytes[2], bytes[3]>>
      BY <2>1
    <3>2. QED
      BY <2>1, <2>2, <3>1 DEF IntoBytes
  <2>5. QED
    BY <2>2, <2>3, <2>4
<1>3. QED
  BY <1>1, <1>2

LEMMA RetryBack ==
  /\ \A ms \in Nat : Fits(ms, WordLen) => ParseRetry(RetryBytes(ms)) = Value(RetryAt(ms))
  /\ \A bytes \in Seq(Byte) : ~ IsError(ParseRetry(bytes)) =>
       \E ms \in Nat : ParseRetry(bytes) = Value(RetryAt(ms)) /\ RetryBytes(ms) = bytes
<1>1. ASSUME NEW ms \in Nat, Fits(ms, WordLen)
      PROVE  ParseRetry(RetryBytes(ms)) = Value(RetryAt(ms))
  <2> DEFINE word == LittleEndian(ms, WordLen)
  <2>1. word \in Seq(Byte) /\ Len(word) = WordLen /\ Number(word) = ms
    BY <1>1, BaseIs, LittleEndianIs, ReadsBack
  <2> HIDE DEF word
  <2>2. Len(<<VERSION>> \o word) = WordLen + 1 /\ (<<VERSION>> \o word)[1] = VERSION
        /\ Tail(<<VERSION>> \o word) = word
    BY <2>1
  <2>3. RetryBytes(ms) = <<VERSION>> \o word
    BY DEF RetryBytes, word
  <2>4. QED
    BY <2>1, <2>2, <2>3 DEF ParseRetry
<1>2. ASSUME NEW bytes \in Seq(Byte), ~ IsError(ParseRetry(bytes))
      PROVE  \E ms \in Nat : ParseRetry(bytes) = Value(RetryAt(ms)) /\ RetryBytes(ms) = bytes
  <2>1. /\ Len(bytes) = WordLen + 1 /\ bytes[1] = VERSION
        /\ ParseRetry(bytes) = Value(RetryAt(Number(Tail(bytes))))
    BY <1>2, Results DEF ParseRetry
  <2>2. bytes # <<>>
    BY <2>1, BaseIs
  <2>3. Tail(bytes) \in Seq(Byte) /\ Len(Tail(bytes)) = WordLen
        /\ <<bytes[1]>> \o Tail(bytes) = bytes
    BY <2>1, <2>2, BaseIs
  <2>4. Number(Tail(bytes)) \in Nat /\ LittleEndian(Number(Tail(bytes)), WordLen) = Tail(bytes)
    BY <2>3, WritesBack
  <2>5. RetryBytes(Number(Tail(bytes))) = bytes
    BY <2>1, <2>3, <2>4 DEF RetryBytes
  <2>6. QED
    BY <2>1, <2>4, <2>5
<1>3. QED
  BY <1>1, <1>2

HeaderType == [tag : {n \in Nat : Fits(n, TagLen)}, key : {n \in Nat : Fits(n, WordLen)},
               properties : Properties]
RetryType == {NoRetry} \cup {RetryAt(ms) : ms \in {n \in Nat : Fits(n, WordLen)}}

LEMMA ToMapIs ==
  ASSUME NEW h, NEW again
  PROVE  LET m == ToMap(h, again)
         IN /\ DOMAIN m = {"tag", "key", "props"} \cup (IF again = NoRetry THEN {} ELSE {"retry"})
            /\ m["tag"] = LittleEndian(h.tag, TagLen)
            /\ m["key"] = LittleEndian(h.key, WordLen)
            /\ m["props"] = IntoBytes(h.properties)
            /\ again # NoRetry => m["retry"] = RetryBytes(CHOOSE ms \in again.failed : TRUE)
BY DEF ToMap

\* What the publisher and the retry encoder write is parsed.
LEMMA ParseOfMap ==
  ASSUME NEW h \in HeaderType, NEW again \in RetryType
  PROVE  Parse(ToMap(h, again)) = Value([headers |-> h, retry |-> again])
<1> DEFINE m == ToMap(h, again)
           p == ParseProperties(m["props"])
           r == IF "retry" \in DOMAIN m THEN ParseRetry(m["retry"]) ELSE Value(NoRetry)
<1>1. /\ DOMAIN m = {"tag", "key", "props"} \cup (IF again = NoRetry THEN {} ELSE {"retry"})
      /\ m["tag"] = LittleEndian(h.tag, TagLen) /\ m["key"] = LittleEndian(h.key, WordLen)
      /\ m["props"] = IntoBytes(h.properties)
      /\ again # NoRetry => m["retry"] = RetryBytes(CHOOSE ms \in again.failed : TRUE)
  BY ToMapIs
<1> HIDE DEF m
<1>2. /\ h.tag \in Nat /\ Fits(h.tag, TagLen) /\ h.key \in Nat /\ Fits(h.key, WordLen)
      /\ h.properties \in Properties
      /\ h = [tag |-> h.tag, key |-> h.key, properties |-> h.properties]
  BY DEF HeaderType
<1>3. Len(m["tag"]) = TagLen /\ Number(m["tag"]) = h.tag
      /\ Len(m["key"]) = WordLen /\ Number(m["key"]) = h.key
  BY <1>1, <1>2, BaseIs, LittleEndianIs, ReadsBack
<1>4. p = Value(h.properties)
  BY <1>1, <1>2, PropertiesBack
<1>5. r = Value(again)
  <2>1. CASE again = NoRetry
    BY <1>1, <2>1
  <2>2. CASE again # NoRetry
    <3>1. PICK ms \in Nat : Fits(ms, WordLen) /\ again = RetryAt(ms)
      BY <2>2 DEF RetryType
    <3>2. (CHOOSE x \in again.failed : TRUE) = ms
      <4>1. again.failed = {ms}
        BY <3>1, Results
      <4>2. QED
        BY <4>1
    <3>3. r = ParseRetry(RetryBytes(ms))
      BY <1>1, <2>2, <3>2
    <3>4. QED
      BY <3>1, <3>3, RetryBack
  <2>3. QED
    BY <2>1, <2>2
<1>6. ~ IsError(p) /\ ~ IsError(r) /\ p.value = h.properties /\ r.value = again
  BY <1>4, <1>5, Results
<1>7. Parse(m) = IF ~ ("tag" \in DOMAIN m) THEN Error("MissingHeader")
                 ELSE IF Len(m["tag"]) # TagLen THEN Error("BadHeader")
                 ELSE IF ~ ("key" \in DOMAIN m) THEN Error("MissingHeader")
                 ELSE IF Len(m["key"]) # WordLen THEN Error("BadHeader")
                 ELSE IF ~ ("props" \in DOMAIN m) THEN Error("MissingHeader")
                 ELSE IF IsError(p) THEN p ELSE IF IsError(r) THEN r
                 ELSE Value([headers |-> [tag |-> Number(m["tag"]), key |-> Number(m["key"]),
                                          properties |-> p.value], retry |-> r.value])
  BY DEF Parse
<1> HIDE DEF p, r
<1>8. Parse(m) = Value([headers |-> [tag |-> h.tag, key |-> h.key,
                                     properties |-> h.properties], retry |-> again])
  BY <1>1, <1>3, <1>6, <1>7
<1>9. QED
  BY <1>2, <1>8 DEF m

\* What is parsed is what was written, to the byte.
LEMMA MapOfParse ==
  ASSUME NEW m, m = [name \in DOMAIN m |-> m[name]], DOMAIN m \subseteq Names,
         \A name \in DOMAIN m : m[name] \in Seq(Byte), ~ IsError(Parse(m))
  PROVE  ToMap(Parse(m).value.headers, Parse(m).value.retry) = m
<1> DEFINE p == ParseProperties(m["props"])
           r == IF "retry" \in DOMAIN m THEN ParseRetry(m["retry"]) ELSE Value(NoRetry)
           h == [tag |-> Number(m["tag"]), key |-> Number(m["key"]), properties |-> p.value]
<1>1. Parse(m) = IF ~ ("tag" \in DOMAIN m) THEN Error("MissingHeader")
                 ELSE IF Len(m["tag"]) # TagLen THEN Error("BadHeader")
                 ELSE IF ~ ("key" \in DOMAIN m) THEN Error("MissingHeader")
                 ELSE IF Len(m["key"]) # WordLen THEN Error("BadHeader")
                 ELSE IF ~ ("props" \in DOMAIN m) THEN Error("MissingHeader")
                 ELSE IF IsError(p) THEN p ELSE IF IsError(r) THEN r
                 ELSE Value([headers |-> h, retry |-> r.value])
  BY DEF Parse
<1>2. h.tag = Number(m["tag"]) /\ h.key = Number(m["key"]) /\ h.properties = p.value
  OBVIOUS
<1> HIDE DEF p, r, h
<1>3. /\ "tag" \in DOMAIN m /\ "key" \in DOMAIN m /\ "props" \in DOMAIN m
      /\ Len(m["tag"]) = TagLen /\ Len(m["key"]) = WordLen
      /\ ~ IsError(p) /\ ~ IsError(r)
      /\ Parse(m) = Value([headers |-> h, retry |-> r.value])
  BY <1>1, Results
<1>4. LittleEndian(h.tag, TagLen) = m["tag"] /\ LittleEndian(h.key, WordLen) = m["key"]
  BY <1>2, <1>3, WritesBack
<1>5. IntoBytes(h.properties) = m["props"]
  BY <1>2, <1>3, PropertiesBack, Results DEF p
<1>6. IF "retry" \in DOMAIN m
      THEN r.value # NoRetry /\ RetryBytes(CHOOSE ms \in r.value.failed : TRUE) = m["retry"]
      ELSE r.value = NoRetry
  <2>1. CASE "retry" \notin DOMAIN m
    BY <2>1, Results DEF r
  <2>2. CASE "retry" \in DOMAIN m
    <3>1. r = ParseRetry(m["retry"])
      BY <2>2 DEF r
    <3>2. PICK ms \in Nat : r = Value(RetryAt(ms)) /\ RetryBytes(ms) = m["retry"]
      BY <1>3, <2>2, <3>1, RetryBack
    <3>3. r.value # NoRetry /\ r.value.failed = {ms}
      BY <3>2, Results
    <3>4. (CHOOSE x \in r.value.failed : TRUE) = ms
      BY <3>3
    <3>5. QED
      BY <2>2, <3>2, <3>3, <3>4
  <2>3. QED
    BY <2>1, <2>2
<1> DEFINE w == ToMap(h, r.value)
<1>7. /\ DOMAIN w = {"tag", "key", "props"} \cup (IF r.value = NoRetry THEN {} ELSE {"retry"})
      /\ w["tag"] = LittleEndian(h.tag, TagLen) /\ w["key"] = LittleEndian(h.key, WordLen)
      /\ w["props"] = IntoBytes(h.properties)
      /\ r.value # NoRetry => w["retry"] = RetryBytes(CHOOSE ms \in r.value.failed : TRUE)
  BY ToMapIs
<1>8. w = [name \in DOMAIN w |-> w[name]]
  BY DEF ToMap
<1> HIDE DEF w
<1>9. DOMAIN w = DOMAIN m
  BY <1>3, <1>6, <1>7 DEF Names
<1>10. \A name \in DOMAIN m : w[name] = m[name]
  BY <1>4, <1>5, <1>6, <1>7 DEF Names
<1>11. w = m
  BY <1>8, <1>9, <1>10
<1>12. QED
  <2>1. Parse(m).value = [headers |-> h, retry |-> r.value]
    BY <1>3, Results
  <2>2. Parse(m).value.headers = h /\ Parse(m).value.retry = r.value
    BY <2>1
  <2>3. QED
    BY <1>11, <2>2 DEF w

\* A header map: names this code knows, with bytes.
MapType(m) ==
  /\ m = [name \in DOMAIN m |-> m[name]] /\ DOMAIN m \subseteq Names
  /\ \A name \in DOMAIN m : m[name] \in Seq(Byte)

WriterType == [headers : HeaderType, retry : RetryType]

\* What is carried is a header map, and the writer's own as long as nobody
\* wrote another.
HeadersInv ==
  /\ MapType(carried)
  /\ intact \in BOOLEAN
  /\ intact => written \in WriterType /\ carried = ToMap(written.headers, written.retry)

LEMMA MapOfWriter ==
  ASSUME NEW h \in HeaderType, NEW again \in RetryType
  PROVE  MapType(ToMap(h, again))
<1> DEFINE m == ToMap(h, again)
<1>1. /\ DOMAIN m = {"tag", "key", "props"} \cup (IF again = NoRetry THEN {} ELSE {"retry"})
      /\ m["tag"] = LittleEndian(h.tag, TagLen) /\ m["key"] = LittleEndian(h.key, WordLen)
      /\ m["props"] = IntoBytes(h.properties)
      /\ again # NoRetry => m["retry"] = RetryBytes(CHOOSE ms \in again.failed : TRUE)
  BY ToMapIs
<1>2. m = [name \in DOMAIN m |-> m[name]]
  BY DEF ToMap
<1> HIDE DEF m
<1>3. m["tag"] \in Seq(Byte) /\ m["key"] \in Seq(Byte)
  <2>1. h.tag \in Nat /\ h.key \in Nat
    BY DEF HeaderType
  <2>2. LittleEndian(h.tag, TagLen) \in Seq(Byte) /\ LittleEndian(h.key, WordLen) \in Seq(Byte)
    BY <2>1, BaseIs, LittleEndianIs
  <2>3. QED
    BY <1>1, <2>2
<1>4. VERSION \in Byte
  <2>1. VERSION \in 0 .. Base - 1
    BY BaseIs DEF VERSION
  <2>2. QED
    BY <2>1 DEF Byte
<1>5. m["props"] \in Seq(Byte)
  <2>1. h.properties \in Properties
    BY DEF HeaderType
  <2>2. h.properties.ordering \in Byte /\ h.properties.associativity \in Byte
    BY <2>1, BaseIs DEF Properties, Orderings, Associativities, Byte
  <2>3. IntoBytes(h.properties) \in Seq(Byte)
    BY <1>4, <2>2 DEF IntoBytes
  <2>4. QED
    BY <1>1, <2>3
<1>6. again # NoRetry => m["retry"] \in Seq(Byte)
  <2>1. SUFFICES ASSUME again # NoRetry PROVE m["retry"] \in Seq(Byte)
    OBVIOUS
  <2>2. PICK ms \in Nat : again = RetryAt(ms)
    BY <2>1 DEF RetryType
  <2>3. (CHOOSE x \in again.failed : TRUE) = ms
    <3>1. again.failed = {ms}
      BY <2>2, Results
    <3>2. QED
      BY <3>1
  <2>4. LittleEndian(ms, WordLen) \in Seq(Byte)
    BY BaseIs, LittleEndianIs
  <2>5. RetryBytes(ms) \in Seq(Byte)
    BY <1>4, <2>4 DEF RetryBytes
  <2>6. QED
    BY <1>1, <2>1, <2>3, <2>5
<1>7. QED
  BY <1>1, <1>2, <1>3, <1>5, <1>6 DEF MapType, Names, m

LEMMA HeadersInitInv == HeadersInit => HeadersInv
<1>1. SUFFICES ASSUME HeadersInit PROVE HeadersInv
  OBVIOUS
<1>2. Samples \subseteq Nat
  BY HeadersAssumption DEF HeadersAssumption
<1>3. {n \in Samples : Fits(n, TagLen)} \subseteq {n \in Nat : Fits(n, TagLen)}
      /\ {n \in Samples : Fits(n, WordLen)} \subseteq {n \in Nat : Fits(n, WordLen)}
  BY <1>2
<1>4. written \in WriterType
  <2>1. PICK h \in [tag : {n \in Samples : Fits(n, TagLen)},
                    key : {n \in Samples : Fits(n, WordLen)}, properties : Properties],
             again \in {NoRetry} \cup
                       {RetryAt(ms) : ms \in {n \in Samples : Fits(n, WordLen)}} :
          written = [headers |-> h, retry |-> again]
    BY <1>1 DEF HeadersInit
  <2>2. h \in HeaderType
    BY <1>3 DEF HeaderType
  <2>3. again \in RetryType
    BY <1>3 DEF RetryType
  <2>4. QED
    BY <2>1, <2>2, <2>3 DEF WriterType
<1>5. written.headers \in HeaderType /\ written.retry \in RetryType
  BY <1>4 DEF WriterType
<1>6. carried = ToMap(written.headers, written.retry) /\ intact = TRUE
  BY <1>1 DEF HeadersInit
<1>7. MapType(carried)
  BY <1>5, <1>6, MapOfWriter
<1>8. QED
  BY <1>4, <1>6, <1>7 DEF HeadersInv

\* Whatever another writer does to a header map leaves a header map.
LEMMA MapChanged ==
  ASSUME NEW m, MapType(m), NEW name \in DOMAIN m
  PROVE  /\ MapType([n \in DOMAIN m \ {name} |-> m[n]])
         /\ \A bytes \in Seq(Byte) : MapType([m EXCEPT ![name] = bytes])
         /\ Front(m[name]) \in Seq(Byte) /\ Append(m[name], 0) \in Seq(Byte)
         /\ \A i \in DOMAIN m[name], byte \in Byte : [m[name] EXCEPT ![i] = byte] \in Seq(Byte)
<1>1. /\ m = [n \in DOMAIN m |-> m[n]] /\ DOMAIN m \subseteq Names
      /\ \A n \in DOMAIN m : m[n] \in Seq(Byte)
  BY DEF MapType
<1>2. 0 \in Byte
  BY BaseIs DEF Byte
<1>3. MapType([n \in DOMAIN m \ {name} |-> m[n]])
  BY <1>1 DEF MapType
<1>4. ASSUME NEW bytes \in Seq(Byte) PROVE MapType([m EXCEPT ![name] = bytes])
  BY <1>1 DEF MapType
<1>5. m[name] \in Seq(Byte)
  BY <1>1
<1>6. Append(m[name], 0) \in Seq(Byte)
  BY <1>2, <1>5
<1>7. ASSUME NEW s \in Seq(Byte) PROVE Front(s) \in Seq(Byte)
  BY DEF Front
<1>8. ASSUME NEW s \in Seq(Byte), NEW i \in DOMAIN s, NEW byte \in Byte
      PROVE  [s EXCEPT ![i] = byte] \in Seq(Byte)
  OBVIOUS
<1>9. QED
  BY <1>3, <1>4, <1>5, <1>6, <1>7, <1>8

LEMMA HeadersStepInv == HeadersInv /\ [Differ]_headersVars => HeadersInv'
<1>1. SUFFICES ASSUME HeadersInv, [Differ]_headersVars PROVE HeadersInv'
  OBVIOUS
<1>2. CASE UNCHANGED headersVars
  BY <1>1, <1>2 DEF headersVars, HeadersInv, MapType
<1>3. CASE Differ
  <2>1. MapType(carried)
    BY <1>1 DEF HeadersInv
  <2>2. PICK name \in DOMAIN carried :
          \/ carried' = [n \in DOMAIN carried \ {name} |-> carried[n]]
          \/ carried' = [carried EXCEPT ![name] = Front(carried[name])]
          \/ carried' = [carried EXCEPT ![name] = Append(carried[name], 0)]
          \/ \E i \in DOMAIN carried[name], byte \in Byte :
               carried' = [carried EXCEPT ![name] = [carried[name] EXCEPT ![i] = byte]]
    BY <1>3 DEF Differ
  <2>3. MapType(carried')
    <3>1. CASE carried' = [n \in DOMAIN carried \ {name} |-> carried[n]]
      BY <2>1, <3>1, MapChanged
    <3>2. CASE carried' = [carried EXCEPT ![name] = Front(carried[name])]
      BY <2>1, <3>2, MapChanged
    <3>3. CASE carried' = [carried EXCEPT ![name] = Append(carried[name], 0)]
      BY <2>1, <3>3, MapChanged
    <3>4. CASE \E i \in DOMAIN carried[name], byte \in Byte :
                 carried' = [carried EXCEPT ![name] = [carried[name] EXCEPT ![i] = byte]]
      <4>1. PICK i \in DOMAIN carried[name], byte \in Byte :
              carried' = [carried EXCEPT ![name] = [carried[name] EXCEPT ![i] = byte]]
        BY <3>4
      <4>2. [carried[name] EXCEPT ![i] = byte] \in Seq(Byte)
        BY <2>1, MapChanged
      <4> DEFINE bytes == [carried[name] EXCEPT ![i] = byte]
      <4>3. MapType([carried EXCEPT ![name] = bytes])
        <5> HIDE DEF bytes
        <5>1. bytes \in Seq(Byte)
          BY <4>2 DEF bytes
        <5>2. QED
          BY <2>1, <5>1, MapChanged
      <4>4. QED
        BY <4>1, <4>3
    <3>5. QED
      BY <2>2, <3>1, <3>2, <3>3, <3>4
  <2>4. intact' = FALSE
    BY <1>3 DEF Differ
  <2>5. (MapType(carried))'
    BY <2>3 DEF MapType
  <2>6. QED
    BY <2>4, <2>5 DEF HeadersInv
<1>4. QED
  BY <1>1, <1>2, <1>3

LEMMA HeadersInvExact == HeadersInv => HeadersExact
<1>1. SUFFICES ASSUME HeadersInv PROVE HeadersExact
  OBVIOUS
<1>2. HeadersRoundTrip
  <2>1. SUFFICES ASSUME intact PROVE Parse(carried) = Value(written)
    BY DEF HeadersRoundTrip
  <2>2. written \in WriterType /\ carried = ToMap(written.headers, written.retry)
    BY <1>1, <2>1 DEF HeadersInv
  <2>3. written.headers \in HeaderType /\ written.retry \in RetryType
        /\ written = [headers |-> written.headers, retry |-> written.retry]
    BY <2>2 DEF WriterType
  <2>4. QED
    BY <2>2, <2>3, ParseOfMap
<1>3. ParseIsExact
  <2>1. SUFFICES ASSUME ~ IsError(Parse(carried))
                 PROVE  ToMap(Parse(carried).value.headers, Parse(carried).value.retry) = carried
    BY DEF ParseIsExact
  <2>2. MapType(carried)
    BY <1>1 DEF HeadersInv
  <2>3. QED
    BY <2>1, <2>2, MapOfParse DEF MapType
<1>4. QED
  BY <1>2, <1>3 DEF HeadersExact

\* For numbers of any width, bytes of any base and whatever another writer made
\* of the headers: parsing is the inverse of writing.  What the publisher and
\* the retry encoder wrote is read as they had it, and a map that parses at
\* all is, to the byte, the one that writing what was parsed gives
\* (EventHeaders::to_map and ::parse, RetryProperties, EventAlgebraicProperties).
THEOREM HeadersAreExact == HeadersSpec => []HeadersExact
<1>1. HeadersInit => HeadersInv
  BY HeadersInitInv
<1>2. HeadersInv /\ [Differ]_headersVars => HeadersInv'
  BY HeadersStepInv
<1>3. HeadersInv => HeadersExact
  BY HeadersInvExact
<1>4. QED
  BY <1>1, <1>2, <1>3, PTL DEF HeadersSpec


-----------------------------------------------------------------------------
\* Runs in their handler.

\* What an event is, and a run of events: sequences of values, and of those.
Bodies == Seq(Values)

\* The turns of a fold over run, when turn[e] is what e does to a state.
TurnsOf(turn, run) == [n \in 1 .. Len(run) |-> turn[run[n]]]

Folder(turn, E, S) == turn \in [E -> [S -> S]]

\* y is what a fold over run, from first, comes to.
Folds(turn, S, first, run, y) ==
  \E f : WalkOver(f, S, first, TurnsOf(turn, run), Len(run)) /\ y = f[Len(run)]

LEMMA TurnsAre ==
  ASSUME NEW E, NEW S, NEW turn, Folder(turn, E, S), NEW run \in Seq(E)
  PROVE  TurnsOf(turn, run) \in Turns(S, Len(run))
BY DEF Folder, TurnsOf, Turns

\* Two walks of the same turns agree.
LEMMA WalksAgree ==
  ASSUME NEW S, NEW first, NEW k \in Nat, NEW m \in Nat, k <= m, NEW t, NEW u, NEW f, NEW g,
         WalkOver(f, S, first, t, k), WalkOver(g, S, first, u, m),
         \A n \in 1 .. k : t[n] = u[n]
  PROVE  f[k] = g[k]
<1> DEFINE T == {n \in 0 .. k : f[n] = g[n]}
<1>1. 0 \in T
  BY DEF WalkOver
<1>2. ASSUME NEW n \in 1 .. k, n - 1 \in T PROVE n \in T
  <2>1. f[n - 1] = g[n - 1] /\ n \in 1 .. m /\ n \in 0 .. k
    BY <1>2
  <2>2. f[n] = t[n][f[n - 1]] /\ g[n] = u[n][g[n - 1]]
    BY <2>1 DEF WalkOver
  <2>3. QED
    BY <2>1, <2>2
<1>3. \A n \in 0 .. k : n \in T
  <2> HIDE DEF T
  <2>1. QED
    BY <1>1, <1>2, HoldsUpTo
<1>4. QED
  BY <1>3

LEMMA FoldsEmpty ==
  ASSUME NEW turn, NEW S, NEW first, NEW y, Folds(turn, S, first, <<>>, y)
  PROVE  y = first
BY DEF Folds, WalkOver

\* One more event is one more turn.
LEMMA FoldsStep ==
  ASSUME NEW E, NEW S, NEW first, NEW turn, Folder(turn, E, S), NEW run \in Seq(E), NEW e \in E,
         NEW x, NEW y, Folds(turn, S, first, run, x), Folds(turn, S, first, Append(run, e), y)
  PROVE  x \in S /\ y = turn[e][x]
<1> DEFINE k == Len(run)
           longer == Append(run, e)
<1>1. k \in Nat /\ longer \in Seq(E) /\ Len(longer) = k + 1 /\ longer[k + 1] = e
      /\ \A n \in 1 .. k : longer[n] = run[n]
  OBVIOUS
<1>2. PICK f : WalkOver(f, S, first, TurnsOf(turn, run), k) /\ x = f[k]
  BY DEF Folds
<1>3. PICK g : WalkOver(g, S, first, TurnsOf(turn, longer), k + 1) /\ y = g[k + 1]
  BY <1>1 DEF Folds
<1>4. \A n \in 1 .. k : TurnsOf(turn, run)[n] = TurnsOf(turn, longer)[n]
  BY <1>1 DEF TurnsOf
<1>5. TurnsOf(turn, longer)[k + 1] = turn[e]
  BY <1>1 DEF TurnsOf
<1> HIDE DEF k, longer
<1>6. k + 1 \in Nat /\ k <= k + 1 /\ k \in 0 .. k /\ k + 1 \in 1 .. k + 1 /\ (k + 1) - 1 = k
  BY <1>1
<1>7. f[k] = g[k]
  BY <1>1, <1>2, <1>3, <1>4, <1>6, WalksAgree
<1>8. g[k + 1] = TurnsOf(turn, longer)[k + 1][g[k]]
  BY <1>3, <1>6 DEF WalkOver
<1>9. f[k] \in S
  BY <1>2, <1>6 DEF WalkOver
<1>10. QED
  BY <1>2, <1>3, <1>5, <1>7, <1>8, <1>9

\* A function that takes every turn it can take is the walk.
LEMMA TakesTurns ==
  ASSUME NEW S, NEW first \in S, NEW N \in Nat, NEW turn \in Turns(S, N), NEW h,
         h = [n \in 0 .. N |-> h[n]], h[0] = first,
         \A n \in 1 .. N : h[n - 1] \in S => h[n] = turn[n][h[n - 1]]
  PROVE  WalkOver(h, S, first, turn, N)
<1> DEFINE T == {n \in 0 .. N : h[n] \in S}
<1>1. 0 \in T
  OBVIOUS
<1>2. ASSUME NEW n \in 1 .. N, n - 1 \in T PROVE n \in T
  <2>1. h[n - 1] \in S /\ n \in 0 .. N
    BY <1>2
  <2>2. turn[n] \in [S -> S]
    BY DEF Turns
  <2>3. QED
    BY <2>1, <2>2
<1>3. \A n \in 0 .. N : n \in T
  <2> HIDE DEF T
  <2>1. QED
    BY <1>1, <1>2, HoldsUpTo
<1>4. \A n \in 0 .. N : h[n] \in S
  BY <1>3
<1>5. \A n \in 1 .. N : h[n - 1] \in S
  BY <1>4
<1>6. h \in [0 .. N -> S]
  BY <1>4
<1>7. QED
  BY <1>5, <1>6 DEF WalkOver

LEMMA FoldsIn ==
  ASSUME NEW E, NEW S, NEW first, NEW turn, NEW run \in Seq(E), NEW y,
         Folds(turn, S, first, run, y)
  PROVE  y \in S
<1>1. PICK f : WalkOver(f, S, first, TurnsOf(turn, run), Len(run)) /\ y = f[Len(run)]
  BY DEF Folds
<1>2. Len(run) \in 0 .. Len(run)
  OBVIOUS
<1>3. QED
  BY <1>1, <1>2 DEF WalkOver

CombineTurn == [e \in Bodies |-> [x \in Bodies |-> Combine(x, e)]]

LEMMA CombinedFolder == Folder(CombineTurn, Bodies, Bodies) /\ <<>> \in Bodies
<1>1. \A e \in Bodies, x \in Bodies : Combine(x, e) \in Bodies
  BY DEF Combine, Bodies
<1>2. <<>> \in Bodies
  BY DEF Bodies
<1>3. QED
  BY <1>1, <1>2 DEF Folder, CombineTurn

LEMMA CombinedIs ==
  ASSUME NEW run \in Seq(Bodies)
  PROVE  Folds(CombineTurn, Bodies, <<>>, run, Combined(run))
<1> DEFINE N == Len(run)
           turn == TurnsOf(CombineTurn, run)
           Turn(f, n) == IF n = 0 THEN <<>> ELSE Combine(f[n - 1], run[n])
           Walks(f) == f = [n \in 0 .. N |-> Turn(f, n)]
           walk == CHOOSE f : Walks(f)
<1>1. N \in Nat /\ \A n \in 1 .. N : run[n] \in Bodies
  OBVIOUS
<1>2. Folder(CombineTurn, Bodies, Bodies) /\ <<>> \in Bodies
  BY CombinedFolder
<1>3. turn \in Turns(Bodies, N)
  BY <1>2, TurnsAre
<1>4. \A n \in 1 .. N, x \in Bodies : turn[n][x] = Combine(x, run[n])
  <2>1. \A e \in Bodies, x \in Bodies : CombineTurn[e][x] = Combine(x, e)
    BY DEF CombineTurn
  <2>2. \A n \in 1 .. N : turn[n] = CombineTurn[run[n]]
    BY DEF TurnsOf
  <2> HIDE DEF turn, N
  <2>3. QED
    BY <1>1, <2>1, <2>2
<1>5. Combined(run) = walk[N]
  BY DEF Combined
<1> HIDE DEF turn, N
<1>6. PICK f : WalkOver(f, Bodies, <<>>, turn, N)
  BY <1>1, <1>2, <1>3, WalkExists
<1>7. f \in [0 .. N -> Bodies] /\ f[0] = <<>> /\ \A n \in 1 .. N : f[n] = turn[n][f[n - 1]]
  BY <1>6 DEF WalkOver
<1>8. ASSUME NEW n \in 0 .. N PROVE f[n] = Turn(f, n)
  <2>1. CASE n = 0
    BY <1>7, <2>1
  <2>2. CASE n # 0
    <3>1. n \in 1 .. N /\ n - 1 \in 0 .. N
      BY <1>1, <2>2
    <3>2. f[n - 1] \in Bodies /\ f[n] = turn[n][f[n - 1]]
      BY <1>7, <3>1
    <3>3. f[n] = Combine(f[n - 1], run[n])
      BY <1>4, <3>1, <3>2
    <3>4. QED
      BY <2>2, <3>3
  <2>3. QED
    BY <2>1, <2>2
<1>9. Walks(f)
  <2>1. f = [n \in 0 .. N |-> f[n]]
    BY <1>7
  <2> HIDE DEF Turn
  <2>2. QED
    BY <1>8, <2>1
<1>10. Walks(walk)
  <2> HIDE DEF Walks
  <2>1. QED
    BY <1>9
<1> HIDE DEF walk
<1>11. walk = [n \in 0 .. N |-> walk[n]] /\ \A n \in 0 .. N : walk[n] = Turn(walk, n)
  <2> HIDE DEF Turn
  <2>1. QED
    BY <1>10
<1>12. walk[0] = <<>>
  BY <1>1, <1>11
<1>13. \A n \in 1 .. N : walk[n] = Combine(walk[n - 1], run[n])
  BY <1>1, <1>11
<1>14. \A n \in 1 .. N : walk[n - 1] \in Bodies => walk[n] = turn[n][walk[n - 1]]
  BY <1>4, <1>13
<1>15. WalkOver(walk, Bodies, <<>>, turn, N)
  <2> HIDE DEF Turn, Walks
  <2>1. walk = [n \in 0 .. N |-> walk[n]]
    BY <1>11
  <2>2. QED
    BY <1>1, <1>2, <1>3, <1>12, <1>14, <2>1, TakesTurns
<1>16. QED
  BY <1>5, <1>15 DEF Folds, turn, N

LEMMA CombinedSteps ==
  /\ Combined(<<>>) = <<>>
  /\ \A run \in Seq(Bodies) : Combined(run) \in Bodies
  /\ \A run \in Seq(Bodies), e \in Bodies : Combined(Append(run, e)) = Combine(Combined(run), e)
<1>1. Folder(CombineTurn, Bodies, Bodies) /\ <<>> \in Bodies /\ <<>> \in Seq(Bodies)
  BY CombinedFolder
<1>2. Combined(<<>>) = <<>>
  BY <1>1, CombinedIs, FoldsEmpty
<1>3. ASSUME NEW run \in Seq(Bodies), NEW e \in Bodies
      PROVE  Combined(run) \in Bodies /\ Combined(Append(run, e)) = Combine(Combined(run), e)
  <2>1. Append(run, e) \in Seq(Bodies)
    OBVIOUS
  <2>2. /\ Folds(CombineTurn, Bodies, <<>>, run, Combined(run))
        /\ Folds(CombineTurn, Bodies, <<>>, Append(run, e), Combined(Append(run, e)))
    BY <2>1, CombinedIs
  <2>3. Combined(run) \in Bodies /\ Combined(Append(run, e)) = CombineTurn[e][Combined(run)]
    BY <1>1, <2>2, FoldsStep
  <2>4. QED
    BY <2>3 DEF CombineTurn
<1>4. ASSUME NEW run \in Seq(Bodies) PROVE Combined(run) \in Bodies
  BY CombinedIs, FoldsIn
<1>5. QED
  BY <1>2, <1>3, <1>4

KeepTurn == [e \in Bodies |-> [x \in Seq(Bodies) |-> Keep(x, e)]]

LEMMA DedupFolder == Folder(KeepTurn, Bodies, Seq(Bodies)) /\ <<>> \in Seq(Bodies)
<1>1. \A e \in Bodies, x \in Seq(Bodies) : Keep(x, e) \in Seq(Bodies)
  BY DEF Keep
<1>2. QED
  BY <1>1 DEF Folder, KeepTurn

LEMMA DedupIs ==
  ASSUME NEW run \in Seq(Bodies)
  PROVE  Folds(KeepTurn, Seq(Bodies), <<>>, run, Dedup(run))
<1> DEFINE N == Len(run)
           turn == TurnsOf(KeepTurn, run)
           Turn(f, n) == IF n = 0 THEN <<>> ELSE Keep(f[n - 1], run[n])
           Walks(f) == f = [n \in 0 .. N |-> Turn(f, n)]
           walk == CHOOSE f : Walks(f)
<1>1. N \in Nat /\ \A n \in 1 .. N : run[n] \in Bodies
  OBVIOUS
<1>2. Folder(KeepTurn, Bodies, Seq(Bodies)) /\ <<>> \in Seq(Bodies)
  BY DedupFolder
<1>3. turn \in Turns(Seq(Bodies), N)
  BY <1>2, TurnsAre
<1>4. \A n \in 1 .. N, x \in Seq(Bodies) : turn[n][x] = Keep(x, run[n])
  <2>1. \A e \in Bodies, x \in Seq(Bodies) : KeepTurn[e][x] = Keep(x, e)
    BY DEF KeepTurn
  <2>2. \A n \in 1 .. N : turn[n] = KeepTurn[run[n]]
    BY DEF TurnsOf
  <2> HIDE DEF turn, N
  <2>3. QED
    BY <1>1, <2>1, <2>2
<1>5. Dedup(run) = walk[N]
  BY DEF Dedup
<1> HIDE DEF turn, N
<1>6. PICK f : WalkOver(f, Seq(Bodies), <<>>, turn, N)
  BY <1>1, <1>2, <1>3, WalkExists
<1>7. f \in [0 .. N -> Seq(Bodies)] /\ f[0] = <<>> /\ \A n \in 1 .. N : f[n] = turn[n][f[n - 1]]
  BY <1>6 DEF WalkOver
<1>8. ASSUME NEW n \in 0 .. N PROVE f[n] = Turn(f, n)
  <2>1. CASE n = 0
    BY <1>7, <2>1
  <2>2. CASE n # 0
    <3>1. n \in 1 .. N /\ n - 1 \in 0 .. N
      BY <1>1, <2>2
    <3>2. f[n - 1] \in Seq(Bodies) /\ f[n] = turn[n][f[n - 1]]
      BY <1>7, <3>1
    <3>3. f[n] = Keep(f[n - 1], run[n])
      BY <1>4, <3>1, <3>2
    <3>4. QED
      BY <2>2, <3>3
  <2>3. QED
    BY <2>1, <2>2
<1>9. Walks(f)
  <2>1. f = [n \in 0 .. N |-> f[n]]
    BY <1>7
  <2> HIDE DEF Turn
  <2>2. QED
    BY <1>8, <2>1
<1>10. Walks(walk)
  <2> HIDE DEF Walks
  <2>1. QED
    BY <1>9
<1> HIDE DEF walk
<1>11. walk = [n \in 0 .. N |-> walk[n]] /\ \A n \in 0 .. N : walk[n] = Turn(walk, n)
  <2> HIDE DEF Turn
  <2>1. QED
    BY <1>10
<1>12. walk[0] = <<>>
  BY <1>1, <1>11
<1>13. \A n \in 1 .. N : walk[n] = Keep(walk[n - 1], run[n])
  BY <1>1, <1>11
<1>14. \A n \in 1 .. N : walk[n - 1] \in Seq(Bodies) => walk[n] = turn[n][walk[n - 1]]
  BY <1>4, <1>13
<1>15. WalkOver(walk, Seq(Bodies), <<>>, turn, N)
  <2> HIDE DEF Turn, Walks
  <2>1. walk = [n \in 0 .. N |-> walk[n]]
    BY <1>11
  <2>2. QED
    BY <1>1, <1>2, <1>3, <1>12, <1>14, <2>1, TakesTurns
<1>16. QED
  BY <1>5, <1>15 DEF Folds, turn, N

LEMMA DedupSteps ==
  /\ Dedup(<<>>) = <<>>
  /\ \A run \in Seq(Bodies) : Dedup(run) \in Seq(Bodies)
  /\ \A run \in Seq(Bodies), e \in Bodies : Dedup(Append(run, e)) = Keep(Dedup(run), e)
<1>1. Folder(KeepTurn, Bodies, Seq(Bodies)) /\ <<>> \in Seq(Bodies) /\ <<>> \in Seq(Bodies)
  BY DedupFolder
<1>2. Dedup(<<>>) = <<>>
  BY <1>1, DedupIs, FoldsEmpty
<1>3. ASSUME NEW run \in Seq(Bodies), NEW e \in Bodies
      PROVE  Dedup(run) \in Seq(Bodies) /\ Dedup(Append(run, e)) = Keep(Dedup(run), e)
  <2>1. Append(run, e) \in Seq(Bodies)
    OBVIOUS
  <2>2. /\ Folds(KeepTurn, Seq(Bodies), <<>>, run, Dedup(run))
        /\ Folds(KeepTurn, Seq(Bodies), <<>>, Append(run, e), Dedup(Append(run, e)))
    BY <2>1, DedupIs
  <2>3. Dedup(run) \in Seq(Bodies) /\ Dedup(Append(run, e)) = KeepTurn[e][Dedup(run)]
    BY <1>1, <2>2, FoldsStep
  <2>4. QED
    BY <2>3 DEF KeepTurn
<1>4. ASSUME NEW run \in Seq(Bodies) PROVE Dedup(run) \in Seq(Bodies)
  BY DedupIs, FoldsIn
<1>5. QED
  BY <1>2, <1>3, <1>4

\* What arrives or was stored.
RunRecords == [payload : Bodies, associative : BOOLEAN, decodes : BOOLEAN]

ReadTurn == [e \in RunRecords |-> [x \in Seq(Bodies) |-> Read(x, e)]]

LEMMA PayloadsFolder == Folder(ReadTurn, RunRecords, Seq(Bodies)) /\ <<>> \in Seq(Bodies)
<1>1. ASSUME NEW e \in RunRecords, NEW x \in Seq(Bodies) PROVE Read(x, e) \in Seq(Bodies)
  <2>1. e.payload \in Bodies
    BY DEF RunRecords
  <2>2. Append(x, e.payload) \in Seq(Bodies)
    BY <2>1
  <2>3. QED
    BY <2>2 DEF Read
<1>2. QED
  BY <1>1 DEF Folder, ReadTurn

LEMMA PayloadsIs ==
  ASSUME NEW run \in Seq(RunRecords)
  PROVE  Folds(ReadTurn, Seq(Bodies), <<>>, run, Payloads(run))
<1> DEFINE N == Len(run)
           turn == TurnsOf(ReadTurn, run)
           Turn(f, n) == IF n = 0 THEN <<>> ELSE Read(f[n - 1], run[n])
           Walks(f) == f = [n \in 0 .. N |-> Turn(f, n)]
           walk == CHOOSE f : Walks(f)
<1>1. N \in Nat /\ \A n \in 1 .. N : run[n] \in RunRecords
  OBVIOUS
<1>2. Folder(ReadTurn, RunRecords, Seq(Bodies)) /\ <<>> \in Seq(Bodies)
  BY PayloadsFolder
<1>3. turn \in Turns(Seq(Bodies), N)
  BY <1>2, TurnsAre
<1>4. \A n \in 1 .. N, x \in Seq(Bodies) : turn[n][x] = Read(x, run[n])
  <2>1. \A e \in RunRecords, x \in Seq(Bodies) : ReadTurn[e][x] = Read(x, e)
    BY DEF ReadTurn
  <2>2. \A n \in 1 .. N : turn[n] = ReadTurn[run[n]]
    BY DEF TurnsOf
  <2> HIDE DEF turn, N
  <2>3. QED
    BY <1>1, <2>1, <2>2
<1>5. Payloads(run) = walk[N]
  BY DEF Payloads
<1> HIDE DEF turn, N
<1>6. PICK f : WalkOver(f, Seq(Bodies), <<>>, turn, N)
  BY <1>1, <1>2, <1>3, WalkExists
<1>7. f \in [0 .. N -> Seq(Bodies)] /\ f[0] = <<>> /\ \A n \in 1 .. N : f[n] = turn[n][f[n - 1]]
  BY <1>6 DEF WalkOver
<1>8. ASSUME NEW n \in 0 .. N PROVE f[n] = Turn(f, n)
  <2>1. CASE n = 0
    BY <1>7, <2>1
  <2>2. CASE n # 0
    <3>1. n \in 1 .. N /\ n - 1 \in 0 .. N
      BY <1>1, <2>2
    <3>2. f[n - 1] \in Seq(Bodies) /\ f[n] = turn[n][f[n - 1]]
      BY <1>7, <3>1
    <3>3. f[n] = Read(f[n - 1], run[n])
      BY <1>4, <3>1, <3>2
    <3>4. QED
      BY <2>2, <3>3
  <2>3. QED
    BY <2>1, <2>2
<1>9. Walks(f)
  <2>1. f = [n \in 0 .. N |-> f[n]]
    BY <1>7
  <2> HIDE DEF Turn
  <2>2. QED
    BY <1>8, <2>1
<1>10. Walks(walk)
  <2> HIDE DEF Walks
  <2>1. QED
    BY <1>9
<1> HIDE DEF walk
<1>11. walk = [n \in 0 .. N |-> walk[n]] /\ \A n \in 0 .. N : walk[n] = Turn(walk, n)
  <2> HIDE DEF Turn
  <2>1. QED
    BY <1>10
<1>12. walk[0] = <<>>
  BY <1>1, <1>11
<1>13. \A n \in 1 .. N : walk[n] = Read(walk[n - 1], run[n])
  BY <1>1, <1>11
<1>14. \A n \in 1 .. N : walk[n - 1] \in Seq(Bodies) => walk[n] = turn[n][walk[n - 1]]
  BY <1>4, <1>13
<1>15. WalkOver(walk, Seq(Bodies), <<>>, turn, N)
  <2> HIDE DEF Turn, Walks
  <2>1. walk = [n \in 0 .. N |-> walk[n]]
    BY <1>11
  <2>2. QED
    BY <1>1, <1>2, <1>3, <1>12, <1>14, <2>1, TakesTurns
<1>16. QED
  BY <1>5, <1>15 DEF Folds, turn, N

LEMMA PayloadsSteps ==
  /\ Payloads(<<>>) = <<>>
  /\ \A run \in Seq(RunRecords) : Payloads(run) \in Seq(Bodies)
  /\ \A run \in Seq(RunRecords), e \in RunRecords : Payloads(Append(run, e)) = Read(Payloads(run), e)
<1>1. Folder(ReadTurn, RunRecords, Seq(Bodies)) /\ <<>> \in Seq(Bodies) /\ <<>> \in Seq(RunRecords)
  BY PayloadsFolder
<1>2. Payloads(<<>>) = <<>>
  BY <1>1, PayloadsIs, FoldsEmpty
<1>3. ASSUME NEW run \in Seq(RunRecords), NEW e \in RunRecords
      PROVE  Payloads(run) \in Seq(Bodies) /\ Payloads(Append(run, e)) = Read(Payloads(run), e)
  <2>1. Append(run, e) \in Seq(RunRecords)
    OBVIOUS
  <2>2. /\ Folds(ReadTurn, Seq(Bodies), <<>>, run, Payloads(run))
        /\ Folds(ReadTurn, Seq(Bodies), <<>>, Append(run, e), Payloads(Append(run, e)))
    BY <2>1, PayloadsIs
  <2>3. Payloads(run) \in Seq(Bodies) /\ Payloads(Append(run, e)) = ReadTurn[e][Payloads(run)]
    BY <1>1, <2>2, FoldsStep
  <2>4. QED
    BY <2>3 DEF ReadTurn
<1>4. ASSUME NEW run \in Seq(RunRecords) PROVE Payloads(run) \in Seq(Bodies)
  BY PayloadsIs, FoldsIn
<1>5. QED
  BY <1>2, <1>3, <1>4

\* Induction over runs, for a set T of them.
LEMMA HoldsOfRuns ==
  ASSUME NEW E, NEW T, <<>> \in T, \A p \in Seq(E), e \in E : p \in T => Append(p, e) \in T
  PROVE  \A run \in Seq(E) : run \in T
<1> SUFFICES ASSUME NEW run \in Seq(E) PROVE run \in T
  OBVIOUS
<1> DEFINE N == Len(run)
           head == [n \in 0 .. N |-> SubSeq(run, 1, n)]
           good == {n \in 0 .. N : head[n] \in T}
<1>1. N \in Nat /\ head[0] = <<>> /\ head[N] = run
  OBVIOUS
<1>2. ASSUME NEW n \in 1 .. N
      PROVE  head[n - 1] \in Seq(E) /\ run[n] \in E /\ head[n] = Append(head[n - 1], run[n])
  <2>1. head[n] = SubSeq(run, 1, n) /\ head[n - 1] = SubSeq(run, 1, n - 1)
    OBVIOUS
  <2>2. /\ SubSeq(run, 1, n - 1) \in Seq(E) /\ run[n] \in E
        /\ SubSeq(run, 1, n) = Append(SubSeq(run, 1, n - 1), run[n])
    OBVIOUS
  <2>3. QED
    BY <2>1, <2>2
<1> HIDE DEF N, head
<1>3. 0 \in good
  BY <1>1
<1>4. ASSUME NEW n \in 1 .. N, n - 1 \in good PROVE n \in good
  <2>1. head[n - 1] \in T /\ n \in 0 .. N
    BY <1>4
  <2>2. head[n] \in T
    BY <1>2, <2>1
  <2>3. QED
    BY <2>1, <2>2
<1>5. \A n \in 0 .. N : n \in good
  <2> HIDE DEF good
  <2>1. QED
    BY <1>1, <1>3, <1>4, HoldsUpTo
<1>6. QED
  BY <1>1, <1>5

LEMMA Joined ==
  ASSUME NEW E, NEW a \in Seq(E), NEW b \in Seq(E), NEW c \in Seq(E)
  PROVE  a \o b \in Seq(E) /\ (a \o b) \o c = a \o (b \o c)
OBVIOUS

\* Combining is over any run the product of its parts.
LEMMA CombinedOfJoined ==
  ASSUME NEW a \in Seq(Bodies), NEW b \in Seq(Bodies)
  PROVE  Combined(a \o b) = Combined(a) \o Combined(b)
<1> DEFINE T == {p \in Seq(Bodies) : Combined(a \o p) = Combined(a) \o Combined(p)}
<1>1. Combined(a) \in Seq(Values)
  BY CombinedSteps DEF Bodies
<1>2. <<>> \in T
  BY <1>1, CombinedSteps
<1>3. ASSUME NEW p \in Seq(Bodies), NEW e \in Bodies, p \in T PROVE Append(p, e) \in T
  <2>1. a \o p \in Seq(Bodies) /\ Append(p, e) \in Seq(Bodies)
        /\ a \o Append(p, e) = Append(a \o p, e)
    OBVIOUS
  <2>2. Combined(Append(a \o p, e)) = Combined(a \o p) \o e
        /\ Combined(Append(p, e)) = Combined(p) \o e
    BY <2>1, CombinedSteps DEF Combine
  <2>3. Combined(a \o p) = Combined(a) \o Combined(p)
    BY <1>3
  <2>4. Combined(p) \in Seq(Values) /\ e \in Seq(Values)
    BY CombinedSteps DEF Bodies
  <2>5. (Combined(a) \o Combined(p)) \o e = Combined(a) \o (Combined(p) \o e)
    BY <1>1, <2>4
  <2>6. QED
    BY <2>1, <2>2, <2>3, <2>5
<1>4. \A p \in Seq(Bodies) : p \in T
  <2> HIDE DEF T
  <2>1. QED
    BY <1>2, <1>3, HoldsOfRuns
<1>5. QED
  BY <1>4

\* What follows two runs without adjacent repetitions is deduplicated alike.
LEMMA DedupOfJoined ==
  ASSUME NEW a \in Seq(Bodies), NEW c \in Seq(Bodies), Dedup(a) = Dedup(c),
         NEW b \in Seq(Bodies)
  PROVE  Dedup(a \o b) = Dedup(c \o b)
<1> DEFINE T == {p \in Seq(Bodies) : Dedup(a \o p) = Dedup(c \o p)}
<1>1. <<>> \in T
  <2>1. a \o <<>> = a /\ c \o <<>> = c /\ <<>> \in Seq(Bodies)
    OBVIOUS
  <2>2. QED
    BY <2>1
<1>2. ASSUME NEW p \in Seq(Bodies), NEW e \in Bodies, p \in T PROVE Append(p, e) \in T
  <2>1. /\ a \o p \in Seq(Bodies) /\ c \o p \in Seq(Bodies) /\ Append(p, e) \in Seq(Bodies)
        /\ a \o Append(p, e) = Append(a \o p, e) /\ c \o Append(p, e) = Append(c \o p, e)
    OBVIOUS
  <2>2. Dedup(Append(a \o p, e)) = Keep(Dedup(a \o p), e)
        /\ Dedup(Append(c \o p, e)) = Keep(Dedup(c \o p), e)
    BY <2>1, DedupSteps
  <2>3. Dedup(a \o p) = Dedup(c \o p)
    BY <1>2
  <2>4. QED
    BY <2>1, <2>2, <2>3
<1>3. \A p \in Seq(Bodies) : p \in T
  <2> HIDE DEF T
  <2>1. QED
    BY <1>1, <1>2, HoldsOfRuns
<1>4. QED
  BY <1>3

LEMMA KeptLast ==
  ASSUME NEW kept \in Seq(Bodies), NEW e \in Bodies
  PROVE  Keep(kept, e) # <<>> /\ Last(Keep(kept, e)) = e
<1>1. Append(kept, e) # <<>> /\ Last(Append(kept, e)) = e
  BY DEF Last
<1>2. QED
  BY <1>1 DEF Keep

\* Deduplicating a part first changes nothing.
LEMMA DedupTwice ==
  ASSUME NEW a \in Seq(Bodies), NEW b \in Seq(Bodies)
  PROVE  Dedup(a \o Dedup(b)) = Dedup(a \o b)
<1> DEFINE Ends(p) == Dedup(p) # <<>> =>
                        Dedup(a \o p) # <<>> /\ Last(Dedup(a \o p)) = Last(Dedup(p))
           T == {p \in Seq(Bodies) : Dedup(a \o Dedup(p)) = Dedup(a \o p) /\ Ends(p)}
<1>1. <<>> \in T
  <2>1. <<>> \in Seq(Bodies) /\ Dedup(<<>>) = <<>> /\ a \o <<>> = a
    BY DedupSteps
  <2>2. QED
    BY <2>1
<1>2. ASSUME NEW p \in Seq(Bodies), NEW e \in Bodies, p \in T PROVE Append(p, e) \in T
  <2>1. Dedup(a \o Dedup(p)) = Dedup(a \o p) /\ Ends(p)
    BY <1>2
  <2>2. Dedup(p) \in Seq(Bodies) /\ a \o p \in Seq(Bodies) /\ Dedup(a \o p) \in Seq(Bodies)
    <3>1. a \o p \in Seq(Bodies)
      OBVIOUS
    <3>2. QED
      BY <3>1, DedupSteps
  <2>3. /\ Append(p, e) \in Seq(Bodies) /\ a \o Append(p, e) = Append(a \o p, e)
        /\ Dedup(Append(p, e)) = Keep(Dedup(p), e)
        /\ Dedup(Append(a \o p, e)) = Keep(Dedup(a \o p), e)
    <3>1. Append(p, e) \in Seq(Bodies) /\ a \o Append(p, e) = Append(a \o p, e)
      OBVIOUS
    <3>2. QED
      BY <2>2, <3>1, DedupSteps
  <2>4. Ends(Append(p, e))
    BY <2>2, <2>3, KeptLast
  <2>5. CASE Dedup(p) # <<>> /\ Last(Dedup(p)) = e
    <3>1. Keep(Dedup(p), e) = Dedup(p) /\ Keep(Dedup(a \o p), e) = Dedup(a \o p)
      BY <2>1, <2>5 DEF Keep
    <3>2. QED
      BY <2>1, <2>3, <2>4, <3>1
  <2>6. CASE ~ (Dedup(p) # <<>> /\ Last(Dedup(p)) = e)
    <3>1. Keep(Dedup(p), e) = Append(Dedup(p), e)
      BY <2>6 DEF Keep
    <3>2. a \o Append(Dedup(p), e) = Append(a \o Dedup(p), e) /\ a \o Dedup(p) \in Seq(Bodies)
      BY <2>2
    <3>3. Dedup(Append(a \o Dedup(p), e)) = Keep(Dedup(a \o Dedup(p)), e)
      BY <3>2, DedupSteps
    <3>4. QED
      BY <2>1, <2>3, <2>4, <3>1, <3>2, <3>3
  <2>7. QED
    BY <2>5, <2>6
<1>3. \A p \in Seq(Bodies) : p \in T
  <2> HIDE DEF T
  <2>1. QED
    BY <1>1, <1>2, HoldsOfRuns
<1>4. QED
  BY <1>3

Members(run) == {run[i] : i \in DOMAIN run}

LEMMA MembersOfJoined ==
  ASSUME NEW E, NEW a \in Seq(E), NEW b \in Seq(E)
  PROVE  Members(a \o b) = Members(a) \cup Members(b)
<1>1. /\ DOMAIN (a \o b) = 1 .. Len(a) + Len(b)
      /\ DOMAIN a = 1 .. Len(a) /\ DOMAIN b = 1 .. Len(b) /\ Len(a) \in Nat /\ Len(b) \in Nat
      /\ \A i \in DOMAIN a : (a \o b)[i] = a[i]
      /\ \A i \in DOMAIN b : (a \o b)[Len(a) + i] = b[i]
  OBVIOUS
<1> DEFINE ab == a \o b
<1> HIDE DEF ab
<1>2. ASSUME NEW i \in DOMAIN ab PROVE ab[i] \in Members(a) \cup Members(b)
  <2>1. CASE i \in DOMAIN a
    BY <1>1, <2>1 DEF Members, ab
  <2>2. CASE i \notin DOMAIN a
    <3>1. i - Len(a) \in DOMAIN b /\ Len(a) + (i - Len(a)) = i
      BY <1>1, <2>2 DEF ab
    <3>2. ab[i] = b[i - Len(a)]
      BY <1>1, <3>1 DEF ab
    <3>3. QED
      BY <3>1, <3>2 DEF Members
  <2>3. QED
    BY <2>1, <2>2
<1>3. ASSUME NEW i \in DOMAIN a PROVE a[i] \in Members(ab)
  <2>1. i \in DOMAIN ab /\ ab[i] = a[i]
    BY <1>1 DEF ab
  <2>2. QED
    BY <2>1 DEF Members
<1>4. ASSUME NEW i \in DOMAIN b PROVE b[i] \in Members(ab)
  <2>1. Len(a) + i \in DOMAIN ab /\ ab[Len(a) + i] = b[i]
    BY <1>1 DEF ab
  <2>2. QED
    BY <2>1 DEF Members
<1>5. QED
  BY <1>2, <1>3, <1>4 DEF Members, ab

\* Sorted and deduplicated, a run has the members it had.
LEMMA SortedIs ==
  ASSUME NEW run \in Seq(Bodies)
  PROVE  SortDedup(run) \in Seq(Bodies) /\ Members(SortDedup(run)) = Members(run)
<1> DEFINE S == Members(run)
           n == Cardinality(S)
<1>1. S \subseteq Bodies
  BY DEF Members
<1>2. run \in Surjection(1 .. Len(run), S) /\ Len(run) \in Nat
  BY DEF Surjection, Members
<1>3. IsFiniteSet(1 .. Len(run))
  BY <1>2, FS_Interval
<1>4. IsFiniteSet(S)
  <2> HIDE DEF S
  <2>1. QED
    BY <1>2, <1>3, FS_Surjection
<1>5. n \in Nat /\ ExistsBijection(1 .. n, S)
  <2> HIDE DEF S
  <2>1. QED
    BY <1>4, FS_CardinalityType
<1>6. PICK f : f \in Bijection(1 .. n, S)
  BY <1>5 DEF ExistsBijection
<1>7. f \in [1 .. n -> S] /\ IsInjective(f)
  BY <1>6 DEF Bijection, Injection, IsInjective
<1> DEFINE s == SortDedup(run)
<1>8. s = SetToSeq(S)
  BY DEF SortDedup, Members
<1>9. s \in [1 .. n -> S] /\ IsInjective(s)
  <2>1. SetToSeq(S) = CHOOSE g \in [1 .. n -> S] : IsInjective(g)
    BY DEF SetToSeq
  <2> HIDE DEF S, n, s
  <2>2. QED
    BY <1>7, <1>8, <2>1
<1> HIDE DEF s
<1>10. s \in Injection(1 .. n, S)
  BY <1>9 DEF Injection
<1>11. Cardinality(1 .. n) = n
  <2> HIDE DEF n
  <2>1. QED
    BY <1>5, FS_Interval
<1>12. s \in Surjection(1 .. n, S)
  <2> HIDE DEF S
  <2>1. QED
    BY <1>4, <1>10, <1>11, FS_Injection
<1>13. Members(s) = S
  <2> HIDE DEF S, n
  <2>1. QED
    BY <1>12 DEF Surjection, Members
<1>14. s \in Seq(Bodies)
  <2> HIDE DEF S, n
  <2>1. QED
    BY <1>1, <1>5, <1>9
<1>15. QED
  BY <1>13, <1>14 DEF s

\* Every stored payload is read again.
LEMMA StoredIsRead ==
  ASSUME NEW run \in Seq(Bodies)
  PROVE  Payloads([i \in DOMAIN run |->
                    [payload |-> run[i], associative |-> TRUE, decodes |-> TRUE]]) = run
<1> DEFINE Rec(e) == [payload |-> e, associative |-> TRUE, decodes |-> TRUE]
           Recs(p) == [i \in DOMAIN p |-> Rec(p[i])]
           T == {p \in Seq(Bodies) : Recs(p) \in Seq(RunRecords) /\ Payloads(Recs(p)) = p}
<1>1. \A e \in Bodies : Rec(e) \in RunRecords /\ IsRead(Rec(e)) /\ Rec(e).payload = e
  BY DEF RunRecords, IsRead
<1>2. <<>> \in T
  <2>1. Recs(<<>>) = <<>> /\ <<>> \in Seq(Bodies) /\ <<>> \in Seq(RunRecords)
    OBVIOUS
  <2>2. QED
    BY <2>1, PayloadsSteps
<1> HIDE DEF Rec
<1>3. ASSUME NEW p \in Seq(Bodies), NEW e \in Bodies, p \in T PROVE Append(p, e) \in T
  <2>1. Recs(p) \in Seq(RunRecords) /\ Payloads(Recs(p)) = p /\ Append(p, e) \in Seq(Bodies)
    BY <1>3
  <2>2. Recs(Append(p, e)) = Append(Recs(p), Rec(e))
    OBVIOUS
  <2>3. Append(Recs(p), Rec(e)) \in Seq(RunRecords)
    BY <1>1, <2>1
  <2>4. Payloads(Append(Recs(p), Rec(e))) = Read(p, Rec(e))
    BY <1>1, <2>1, PayloadsSteps
  <2>5. Read(p, Rec(e)) = Append(p, e)
    BY <1>1 DEF Read
  <2>6. QED
    BY <2>1, <2>2, <2>3, <2>4, <2>5
<1>4. \A p \in Seq(Bodies) : p \in T
  <2> HIDE DEF T
  <2>1. QED
    BY <1>2, <1>3, HoldsOfRuns
<1>5. Payloads(Recs(run)) = run
  BY <1>4
<1>6. QED
  BY <1>5 DEF Rec

\* a and c have the same effect under law l; where nothing is reduced, they are
\* the same.
Alike(l, a, c) ==
  /\ l \in {"NonAssociative", "Commutative"} => a = c
  /\ l = "Idempotent" => Dedup(a) = Dedup(c)
  /\ l = "IdempotentCommutative" => Members(a) = Members(c)
  /\ l = "Associative" => Combined(a) = Combined(c)

\* The laws carry a reduction of later events, and what was alike before them.
LEMMA ReduceIsAlike ==
  ASSUME law \in Laws, NEW a \in Seq(Bodies), NEW c \in Seq(Bodies), NEW run \in Seq(Bodies),
         Alike(law, a, c)
  PROVE  Reduce(run) \in Seq(Bodies) /\ Alike(law, a \o Reduce(run), c \o run)
<1>1. CASE law \in {"NonAssociative", "Commutative"}
  <2>1. Reduce(run) = run /\ a = c
    BY <1>1 DEF Reduce, Alike
  <2>2. QED
    BY <2>1 DEF Alike
<1>2. CASE law = "Idempotent"
  <2>1. Reduce(run) = Dedup(run) /\ Dedup(a) = Dedup(c)
    BY <1>2 DEF Reduce, Alike
  <2>2. Dedup(run) \in Seq(Bodies)
    BY DedupSteps
  <2>3. Dedup(a \o Dedup(run)) = Dedup(a \o run)
    BY DedupTwice
  <2>4. Dedup(a \o run) = Dedup(c \o run)
    BY <2>1, DedupOfJoined
  <2>5. QED
    BY <1>2, <2>1, <2>2, <2>3, <2>4 DEF Alike
<1>3. CASE law = "IdempotentCommutative"
  <2>1. Reduce(run) = SortDedup(run) /\ Members(a) = Members(c)
    BY <1>3 DEF Reduce, Alike
  <2>2. SortDedup(run) \in Seq(Bodies) /\ Members(SortDedup(run)) = Members(run)
    BY SortedIs
  <2>3. /\ Members(a \o SortDedup(run)) = Members(a) \cup Members(SortDedup(run))
        /\ Members(c \o run) = Members(c) \cup Members(run)
    <3> DEFINE s == SortDedup(run)
    <3> HIDE DEF s
    <3>1. s \in Seq(Bodies)
      BY <2>2 DEF s
    <3>2. Members(a \o s) = Members(a) \cup Members(s)
      BY <3>1, MembersOfJoined
    <3>3. Members(c \o run) = Members(c) \cup Members(run)
      BY MembersOfJoined
    <3>4. QED
      BY <3>2, <3>3 DEF s
  <2>4. Members(a \o SortDedup(run)) = Members(c \o run)
    BY <2>1, <2>2, <2>3
  <2>5. QED
    BY <1>3, <2>1, <2>2, <2>4 DEF Alike
<1>4. CASE law = "Associative"
  <2>1. Reduce(run) = Fold(run) /\ Combined(a) = Combined(c)
    BY <1>4 DEF Reduce, Alike
  <2>2. Fold(run) \in Seq(Bodies) /\ Combined(Fold(run)) = Combined(run)
    <3>1. CASE run = <<>>
      BY <3>1 DEF Fold
    <3>2. CASE run # <<>>
      <4>1. Combined(run) \in Bodies
        BY CombinedSteps
      <4>2. Fold(run) = <<Combined(run)>> /\ <<Combined(run)>> = Append(<<>>, Combined(run))
        BY <3>2 DEF Fold
      <4>3. <<>> \in Seq(Bodies) /\ Combined(<<>>) = <<>>
        BY CombinedSteps
      <4>4. Combined(Append(<<>>, Combined(run))) = Combine(<<>>, Combined(run))
        BY <4>1, <4>3, CombinedSteps
      <4>5. Combine(<<>>, Combined(run)) = Combined(run)
        BY <4>1 DEF Combine, Bodies
      <4>6. Append(<<>>, Combined(run)) \in Seq(Bodies)
        BY <4>1
      <4>7. QED
        BY <4>2, <4>4, <4>5, <4>6
    <3>3. QED
      BY <3>1, <3>2
  <2>3. Combined(a \o Fold(run)) = Combined(c \o run)
    <3> DEFINE f == Fold(run)
    <3> HIDE DEF f
    <3>1. f \in Seq(Bodies) /\ Combined(f) = Combined(run)
      BY <2>2 DEF f
    <3>2. Combined(a \o f) = Combined(a) \o Combined(f)
      BY <3>1, CombinedOfJoined
    <3>3. Combined(c \o run) = Combined(c) \o Combined(run)
      BY CombinedOfJoined
    <3>4. QED
      BY <2>1, <3>1, <3>2, <3>3 DEF f
  <2>4. QED
    BY <1>4, <2>1, <2>2, <2>3 DEF Alike
<1>5. QED
  BY <1>1, <1>2, <1>3, <1>4 DEF Laws

-----------------------------------------------------------------------------
LEMMA MembersOfAppended ==
  ASSUME NEW E, NEW q \in Seq(E), NEW e \in E
  PROVE  Members(Append(q, e)) = Members(q) \cup {e}
<1>1. /\ DOMAIN q = 1 .. Len(q) /\ Len(q) \in Nat
      /\ DOMAIN Append(q, e) = 1 .. Len(q) + 1
      /\ \A i \in 1 .. Len(q) : Append(q, e)[i] = q[i]
      /\ Append(q, e)[Len(q) + 1] = e
  OBVIOUS
<1> DEFINE s == Append(q, e)
<1> HIDE DEF s
<1>2. \A i \in DOMAIN s : i \in DOMAIN q \/ i = Len(q) + 1
  BY <1>1 DEF s
<1>3. Len(q) + 1 \in DOMAIN s /\ \A i \in DOMAIN q : i \in DOMAIN s
  BY <1>1 DEF s
<1>4. QED
  BY <1>1, <1>2, <1>3 DEF Members, s

\* Reducing a run takes no event away for good, but where events are combined;
\* those are one event then.
LEMMA DedupMembers ==
  ASSUME NEW run \in Seq(Bodies)
  PROVE  Members(Dedup(run)) = Members(run)
<1> DEFINE T == {p \in Seq(Bodies) : Dedup(p) \in Seq(Bodies) /\ Members(Dedup(p)) = Members(p)}
<1>1. <<>> \in T
  <2>1. Dedup(<<>>) = <<>> /\ <<>> \in Seq(Bodies)
    BY DedupSteps
  <2>2. QED
    BY <2>1
<1>2. ASSUME NEW p \in Seq(Bodies), NEW e \in Bodies, p \in T PROVE Append(p, e) \in T
  <2>1. PICK d : d = Dedup(p) /\ d \in Seq(Bodies) /\ Members(d) = Members(p)
    BY <1>2
  <2>2. Dedup(Append(p, e)) = Keep(d, e) /\ Append(p, e) \in Seq(Bodies)
    BY <2>1, DedupSteps
  <2>3. \A q \in Seq(Bodies) : Members(Append(q, e)) = Members(q) \cup {e}
    BY MembersOfAppended
  <2>4. Members(Append(p, e)) = Members(p) \cup {e}
    BY <2>3
  <2>5. Members(Append(d, e)) = Members(d) \cup {e}
    BY <2>1, <2>3
  <2>6. CASE d # <<>> /\ Last(d) = e
    <3>1. e \in Members(d)
      <4>1. Len(d) \in DOMAIN d /\ d[Len(d)] = e
        BY <2>1, <2>6 DEF Last
      <4>2. QED
        BY <4>1 DEF Members
    <3>2. Keep(d, e) = d
      BY <2>6 DEF Keep
    <3>3. QED
      BY <2>1, <2>2, <2>4, <3>1, <3>2
  <2>7. CASE ~(d # <<>> /\ Last(d) = e)
    <3>1. Keep(d, e) = Append(d, e) /\ Append(d, e) \in Seq(Bodies)
      BY <2>1, <2>7 DEF Keep
    <3>2. QED
      BY <2>1, <2>2, <2>4, <2>5, <3>1
  <2>8. QED
    BY <2>6, <2>7
<1>3. \A p \in Seq(Bodies) : p \in T
  <2> HIDE DEF T
  <2>1. QED
    BY <1>1, <1>2, HoldsOfRuns
<1>4. QED
  BY <1>3

LEMMA ReduceMembers ==
  ASSUME law \in Laws, NEW run \in Seq(Bodies)
  PROVE  /\ law # "Associative" => Members(Reduce(run)) = Members(run)
         /\ law = "Associative" => Len(Reduce(run)) <= 1
<1>1. CASE law \in {"NonAssociative", "Commutative"}
  BY <1>1 DEF Reduce
<1>2. CASE law = "Idempotent"
  BY <1>2, DedupMembers DEF Reduce
<1>3. CASE law = "IdempotentCommutative"
  BY <1>3, SortedIs DEF Reduce
<1>4. CASE law = "Associative"
  BY <1>4 DEF Reduce, Fold
<1>5. QED
  BY <1>1, <1>2, <1>3, <1>4 DEF Laws

\* What is alike stays so before the same events.
LEMMA JoinIsAlike ==
  ASSUME NEW l \in Laws, NEW a \in Seq(Bodies), NEW c \in Seq(Bodies), NEW run \in Seq(Bodies),
         Alike(l, a, c)
  PROVE  Alike(l, a \o run, c \o run)
<1>1. CASE l \in {"NonAssociative", "Commutative"}
  BY <1>1 DEF Alike
<1>2. CASE l = "Idempotent"
  <2>1. Dedup(a \o run) = Dedup(c \o run)
    BY <1>2, DedupOfJoined DEF Alike
  <2>2. QED
    BY <1>2, <2>1 DEF Alike
<1>3. CASE l = "IdempotentCommutative"
  <2>1. Members(a) = Members(c)
    BY <1>3 DEF Alike
  <2>2. Members(a \o run) = Members(a) \cup Members(run)
    BY MembersOfJoined
  <2>3. Members(c \o run) = Members(c) \cup Members(run)
    BY MembersOfJoined
  <2>4. QED
    BY <1>3, <2>1, <2>2, <2>3 DEF Alike
<1>4. CASE l = "Associative"
  <2>1. Combined(a) = Combined(c)
    BY <1>4 DEF Alike
  <2>2. Combined(a \o run) = Combined(a) \o Combined(run)
    BY CombinedOfJoined
  <2>3. Combined(c \o run) = Combined(c) \o Combined(run)
    BY CombinedOfJoined
  <2>4. QED
    BY <1>4, <2>1, <2>2, <2>3 DEF Alike
<1>5. QED
  BY <1>1, <1>2, <1>3, <1>4 DEF Laws

LEMMA AlikeIs ==
  ASSUME NEW l \in Laws, NEW a, NEW b, NEW c
  PROVE  Alike(l, a, a) /\ (Alike(l, a, b) /\ Alike(l, b, c) => Alike(l, a, c))
BY DEF Alike

\* A part of a sequence, cut in two.
LEMMA CutAt ==
  ASSUME NEW E, NEW s \in Seq(E), NEW n \in 0 .. Len(s), NEW j \in 0 .. n, NEW i \in 0 .. j
  PROVE  /\ SubSeq(s, i + 1, j) \in Seq(E) /\ SubSeq(s, j + 1, n) \in Seq(E)
         /\ SubSeq(s, i + 1, j) \o SubSeq(s, j + 1, n) = SubSeq(s, i + 1, n)
<1>1. SubSeq(s, i + 1, j) \in Seq(E) /\ SubSeq(s, j + 1, n) \in Seq(E)
  OBVIOUS
<1> DEFINE a == SubSeq(s, i + 1, j)
           b == SubSeq(s, j + 1, n)
           c == SubSeq(s, i + 1, n)
<1>2. /\ Len(s) \in Nat /\ n \in Nat /\ i \in Nat /\ j \in Nat /\ i <= j /\ j <= n /\ n <= Len(s)
      /\ Len(a) = j - i /\ Len(b) = n - j /\ Len(c) = n - i
  OBVIOUS
<1>3. a \in Seq(E) /\ b \in Seq(E) /\ c \in Seq(E)
  OBVIOUS
<1>4. /\ \A k \in 1 .. j - i : a[k] = s[i + k]
      /\ \A k \in 1 .. n - j : b[k] = s[j + k]
      /\ \A k \in 1 .. n - i : c[k] = s[i + k]
  OBVIOUS
<1> HIDE DEF a, b, c
<1>5. /\ a \o b \in Seq(E) /\ Len(a \o b) = Len(c)
      /\ \A k \in 1 .. Len(a) : (a \o b)[k] = a[k]
      /\ \A k \in Len(a) + 1 .. Len(a) + Len(b) : (a \o b)[k] = b[k - Len(a)]
  <2>1. Len(a) + Len(b) = Len(c)
    BY <1>2
  <2>2. /\ a \o b \in Seq(E) /\ Len(a \o b) = Len(a) + Len(b)
        /\ \A k \in 1 .. Len(a) : (a \o b)[k] = a[k]
        /\ \A k \in Len(a) + 1 .. Len(a) + Len(b) : (a \o b)[k] = b[k - Len(a)]
    BY <1>3
  <2>3. QED
    BY <2>1, <2>2
<1>6. ASSUME NEW k \in 1 .. Len(c) PROVE (a \o b)[k] = c[k]
  <2>1. CASE k <= j - i
    BY <1>2, <1>4, <1>5, <2>1
  <2>2. CASE k > j - i
    <3>1. k - (j - i) \in 1 .. n - j /\ j + (k - (j - i)) = i + k
      BY <1>2, <2>2
    <3>2. (a \o b)[k] = b[k - (j - i)]
      BY <1>2, <1>5, <2>2
    <3>3. QED
      BY <1>2, <1>4, <3>1, <3>2
  <2>3. QED
    BY <1>2, <2>1, <2>2
<1> DEFINE ab == a \o b
<1>7. ab \in Seq(E) /\ Len(ab) = Len(c) /\ \A k \in 1 .. Len(c) : ab[k] = c[k]
  BY <1>5, <1>6
<1> HIDE DEF ab
<1>8. ab = c
  BY <1>3, <1>7
<1>9. QED
  BY <1>1, <1>8 DEF a, b, c, ab

-----------------------------------------------------------------------------
RunTypes(l, mb, st, ev, sa, ca, ar, wa, tr, se) ==
  /\ l \in Laws /\ mb \in Nat \ {0} /\ ar \in 0 .. MaxArrivals
  /\ st \in Seq(Bodies) /\ ev \in Seq(Bodies) /\ wa \in Seq(Bodies)
  /\ tr \in Seq(Bodies) /\ se \in Seq(Bodies)
  /\ sa \in 0 .. Len(ev) /\ ca \in {"none", "handler", "sleep"}

\* While a run is handled, all of its events after those settled before are like
\* what was wanted, and tr is the part before sa; between runs, and as long as an
\* attempt can fail, what is stored after those settled before is.  What failed
\* attempts handed over is stored, and with it in the events of an attempt.
RunParts(l, mb, st, ev, sa, ca, ar, wa, tr, se, re) ==
  /\ RunTypes(l, mb, st, ev, sa, ca, ar, wa, tr, se)
  /\ tr = SubSeq(ev, 1, sa)
  /\ ca = "none" => ev = <<>>
  /\ ca # "none" => sa < Len(ev) /\ Alike(l, se \o ev, wa)
  /\ ca = "none" \/ st # <<>> => Alike(l, se \o st, wa)
  /\ re \subseteq Members(st)
  /\ ca # "none" /\ st # <<>> /\ l # "Associative" => Members(ev) = Members(st)
  /\ l = "Associative" => re = {} /\ Len(ev) <= 1

RunInv ==
  RunParts(law, maxBatch, stored, events, start, call, arrived, wanted, tried, settled, repeated)

LEMMA RunFacts ==
  ASSUME RunInv
  PROVE  /\ law \in Laws /\ maxBatch \in Nat \ {0} /\ arrived \in 0 .. MaxArrivals
         /\ stored \in Seq(Bodies) /\ events \in Seq(Bodies)
         /\ wanted \in Seq(Bodies) /\ settled \in Seq(Bodies) /\ tried \in Seq(Bodies)
         /\ start \in 0 .. Len(events) /\ call \in {"none", "handler", "sleep"}
         /\ tried = SubSeq(events, 1, start)
         /\ call = "none" => events = <<>>
         /\ call # "none" => start < Len(events) /\ Alike(law, settled \o events, wanted)
         /\ call = "none" \/ stored # <<>> => Alike(law, settled \o stored, wanted)
         /\ repeated \subseteq Members(stored)
         /\ call # "none" /\ stored # <<>> /\ law # "Associative" => Members(events) = Members(stored)
         /\ law = "Associative" => repeated = {} /\ Len(events) <= 1
BY DEF RunInv, RunParts, RunTypes

\* Between runs, nothing is left of the last one.
LEMMA NothingHandled ==
  ASSUME RunInv, call = "none"
  PROVE  events = <<>> /\ start = 0 /\ tried = <<>>
<1>1. events = <<>> /\ start \in 0 .. Len(events) /\ tried = SubSeq(events, 1, start)
  BY RunFacts
<1>2. Len(<<>>) = 0 /\ SubSeq(<<>>, 1, 0) = <<>>
  OBVIOUS
<1>3. QED
  BY <1>1, <1>2

\* What of a run was handed over and what was not are the run.
LEMMA CutAtStart ==
  ASSUME RunInv
  PROVE  Unsettled \in Seq(Bodies) /\ tried \o Unsettled = events
<1>1. /\ events \in Seq(Bodies) /\ start \in 0 .. Len(events)
      /\ tried = SubSeq(events, 1, start)
  BY RunFacts
<1>2. Len(events) \in 0 .. Len(events) /\ 0 \in 0 .. start /\ 0 + 1 = 1
      /\ SubSeq(events, 1, Len(events)) = events
  BY <1>1
<1>3. /\ SubSeq(events, start + 1, Len(events)) \in Seq(Bodies)
      /\ SubSeq(events, 0 + 1, start) \o SubSeq(events, start + 1, Len(events))
         = SubSeq(events, 0 + 1, Len(events))
  BY <1>1, <1>2, CutAt
<1>4. QED
  BY <1>1, <1>2, <1>3 DEF Unsettled

\* Of records read from the log: what they carry.
LEMMA RunsAre ==
  ASSUME NEW n \in 0 .. MaxArrivals, NEW rs \in Runs[n]
  PROVE  Payloads(rs) \in Seq(Bodies) /\ Len(rs) \in 0 .. n
<1>1. PICK m \in 0 .. n : rs \in [1 .. m -> Arrival]
  BY DEF Runs, BoundedSeq, SeqOf
<1>2. MaxArrivals \in Nat
  BY RunAssumption DEF RunAssumption
<1>3. \A v \in Values : <<v>> \in Bodies
  BY DEF Bodies
<1>4. Arrival \subseteq RunRecords
  BY <1>3 DEF Arrival, RunRecords
<1>5. rs \in Seq(RunRecords) /\ Len(rs) = m
  BY <1>1, <1>2, <1>4
<1>6. QED
  BY <1>5, PayloadsSteps

\* A run begins: none of its events was handed over.
LEMMA RunBegins ==
  ASSUME NEW d \in Seq(Bodies), NEW l \in Laws, NEW mb \in Nat \ {0}, NEW ar \in 0 .. MaxArrivals,
         NEW st \in Seq(Bodies), NEW wa \in Seq(Bodies), NEW se \in Seq(Bodies), NEW re,
         Alike(l, se \o d, wa),
         d = <<>> \/ st # <<>> => Alike(l, se \o st, wa),
         re \subseteq Members(st),
         st # <<>> /\ l # "Associative" => Members(d) = Members(st),
         l = "Associative" => re = {} /\ Len(d) <= 1
  PROVE  RunParts(l, mb, st, d, 0, IF d = <<>> THEN "none" ELSE "handler", ar, wa, <<>>, se, re)
<1> DEFINE ca == IF d = <<>> THEN "none" ELSE "handler"
<1>1. RunTypes(l, mb, st, d, 0, ca, ar, wa, <<>>, se)
  BY DEF RunTypes
<1>2. SubSeq(d, 1, 0) = <<>> /\ (ca = "none" <=> d = <<>>) /\ (d # <<>> => 0 < Len(d))
  OBVIOUS
<1> HIDE DEF ca
<1>3. QED
  BY <1>1, <1>2 DEF RunParts, ca

\* Between runs, st waits.
LEMMA BetweenRuns ==
  ASSUME NEW l \in Laws, NEW mb \in Nat \ {0}, NEW ar \in 0 .. MaxArrivals,
         NEW st \in Seq(Bodies), NEW wa \in Seq(Bodies), NEW se \in Seq(Bodies), NEW re,
         Alike(l, se \o st, wa), re \subseteq Members(st), l = "Associative" => re = {}
  PROVE  RunParts(l, mb, st, <<>>, 0, "none", ar, wa, <<>>, se, re)
<1>1. Len(<<>>) = 0 /\ SubSeq(<<>>, 1, 0) = <<>> /\ <<>> \in Seq(Bodies)
  OBVIOUS
<1>2. RunTypes(l, mb, st, <<>>, 0, "none", ar, wa, <<>>, se)
  BY <1>1 DEF RunTypes
<1>3. QED
  BY <1>1, <1>2 DEF RunParts

LEMMA NoMembers == Members(<<>>) = {}
BY DEF Members

LEMMA InitKeepsRuns == RunInit => RunInv
<1> SUFFICES ASSUME RunInit PROVE RunInv
  OBVIOUS
<1>1. maxBatch \in Nat \ {0} /\ law \in Laws /\ 0 \in 0 .. MaxArrivals
  BY RunAssumption DEF RunAssumption, RunInit
<1>2. <<>> \in Seq(Bodies) /\ <<>> \o <<>> = <<>>
  OBVIOUS
<1>3. Alike(law, <<>> \o <<>>, <<>>)
  BY <1>2 DEF Alike
<1>4. RunParts(law, maxBatch, <<>>, <<>>, 0, "none", 0, <<>>, <<>>, <<>>, {})
  BY <1>1, <1>2, <1>3, BetweenRuns
<1>5. QED
  BY <1>4 DEF RunInv, RunInit

LEMMA BatchKeepsRuns ==
  ASSUME RunInv, NEW rs \in Runs[MaxArrivals - arrived], HandleBatch(rs)
  PROVE  RunInv'
<1>1. /\ law \in Laws /\ maxBatch \in Nat \ {0} /\ arrived \in 0 .. MaxArrivals
      /\ wanted \in Seq(Bodies) /\ settled \in Seq(Bodies)
      /\ stored = <<>> /\ call = "none" /\ Alike(law, settled \o stored, wanted)
      /\ repeated \subseteq Members(stored)
  BY RunFacts DEF HandleBatch, Handle
<1>2. MaxArrivals \in Nat
  BY RunAssumption DEF RunAssumption
<1>3. PICK p : p \in Seq(Bodies) /\ p = Payloads(rs)
  BY <1>1, <1>2, RunsAre
<1>4. arrived + Len(rs) \in 0 .. MaxArrivals
  <2>1. MaxArrivals - arrived \in 0 .. MaxArrivals
    BY <1>1, <1>2
  <2>2. Len(rs) \in 0 .. MaxArrivals - arrived
    BY <2>1, RunsAre
  <2>3. QED
    BY <1>1, <1>2, <2>2
<1>5. Alike(law, settled, wanted) /\ settled \o <<>> = settled
  BY <1>1
<1>6. PICK d : /\ d = Decode(rs) /\ d \in Seq(Bodies) /\ Alike(law, settled \o d, wanted \o p)
               /\ law = "Associative" => Len(d) <= 1
  BY <1>1, <1>3, <1>5, ReduceIsAlike, ReduceMembers DEF Decode
<1>7. wanted \o p \in Seq(Bodies)
  BY <1>1, <1>3
<1>8. repeated = {} /\ <<>> \in Seq(Bodies)
  BY <1>1, NoMembers
<1>9. d = <<>> => Alike(law, settled \o <<>>, wanted \o p)
  BY <1>6
<1>10. RunParts(law, maxBatch, <<>>, d, 0, IF d = <<>> THEN "none" ELSE "handler",
                arrived + Len(rs), wanted \o p, <<>>, settled, {})
  BY <1>1, <1>4, <1>6, <1>7, <1>8, <1>9, RunBegins
<1>11. start = 0 /\ tried = <<>>
  BY <1>1, NothingHandled
<1>12. /\ law' = law /\ maxBatch' = maxBatch /\ stored' = <<>> /\ events' = d /\ start' = 0
       /\ call' = (IF d = <<>> THEN "none" ELSE "handler")
       /\ arrived' = arrived + Len(rs)
       /\ wanted' = wanted \o p /\ tried' = <<>> /\ settled' = settled /\ repeated' = {}
  BY <1>1, <1>3, <1>6, <1>8, <1>11 DEF HandleBatch, Handle
<1>13. QED
  BY <1>10, <1>12 DEF RunInv

LEMMA StoredKeepsRuns ==
  ASSUME RunInv, HandleStored
  PROVE  RunInv'
<1>1. /\ law \in Laws /\ maxBatch \in Nat \ {0} /\ arrived \in 0 .. MaxArrivals
      /\ stored \in Seq(Bodies) /\ wanted \in Seq(Bodies) /\ settled \in Seq(Bodies)
      /\ Alike(law, settled \o stored, wanted) /\ call = "none"
      /\ repeated \subseteq Members(stored) /\ (law = "Associative" => repeated = {})
  BY RunFacts DEF HandleStored, Handle
<1>2. Payloads(StoredRecords) = stored
  BY <1>1, StoredIsRead DEF StoredRecords
<1>3. Alike(law, settled, settled)
  BY <1>1, AlikeIs
<1>4. PICK d : /\ d = Decode(StoredRecords) /\ d \in Seq(Bodies)
               /\ Alike(law, settled \o d, settled \o stored)
               /\ law # "Associative" => Members(d) = Members(stored)
               /\ law = "Associative" => Len(d) <= 1
  BY <1>1, <1>2, <1>3, ReduceIsAlike, ReduceMembers DEF Decode
<1>5. Alike(law, settled \o d, wanted)
  BY <1>1, <1>4, AlikeIs
<1>6. RunParts(law, maxBatch, stored, d, 0, IF d = <<>> THEN "none" ELSE "handler",
               arrived, wanted, <<>>, settled, repeated)
  BY <1>1, <1>4, <1>5, RunBegins
<1>7. start = 0 /\ tried = <<>>
  BY <1>1, NothingHandled
<1>8. /\ law' = law /\ maxBatch' = maxBatch /\ stored' = stored /\ events' = d /\ start' = 0
      /\ call' = (IF d = <<>> THEN "none" ELSE "handler") /\ arrived' = arrived
      /\ wanted' = wanted /\ tried' = <<>> /\ settled' = settled /\ repeated' = repeated
  BY <1>4, <1>7 DEF HandleStored, Handle
<1>9. QED
  BY <1>6, <1>8 DEF RunInv

LEMMA SettledKeepsRuns ==
  ASSUME RunInv, ChunkSettled
  PROVE  RunInv'
<1>1. /\ law \in Laws /\ maxBatch \in Nat \ {0} /\ arrived \in 0 .. MaxArrivals
      /\ stored \in Seq(Bodies) /\ events \in Seq(Bodies)
      /\ wanted \in Seq(Bodies) /\ settled \in Seq(Bodies) /\ tried \in Seq(Bodies)
      /\ start \in 0 .. Len(events) /\ call = "handler"
      /\ Alike(law, settled \o events, wanted) /\ tried = SubSeq(events, 1, start)
  BY RunFacts DEF ChunkSettled
<1>2. PICK end : end = ChunkEnd /\ end \in 0 .. Len(events) /\ start \in 0 .. end
  <2>1. Len(events) \in Nat /\ start \in Nat /\ start <= Len(events) /\ maxBatch \in Nat
    BY <1>1
  <2>2. PICK n : n = Len(events) /\ n \in Nat /\ start <= n
    BY <2>1
  <2>3. ChunkEnd \in 0 .. n /\ start \in 0 .. ChunkEnd
    <3>1. ChunkEnd = IF start + maxBatch < n THEN start + maxBatch ELSE n
      BY <2>2 DEF ChunkEnd
    <3>2. QED
      BY <2>1, <2>2, <3>1
  <2>4. QED
    BY <2>2, <2>3
<1>3. PICK chunk : chunk = Chunk /\ chunk \in Seq(Bodies) /\ tried \o chunk = SubSeq(events, 1, end)
  <2>1. 0 \in 0 .. start /\ 0 + 1 = 1
    BY <1>1
  <2>2. /\ SubSeq(events, start + 1, end) \in Seq(Bodies)
        /\ SubSeq(events, 0 + 1, start) \o SubSeq(events, start + 1, end) = SubSeq(events, 0 + 1, end)
    BY <1>1, <1>2, <2>1, CutAt
  <2>3. QED
    BY <1>1, <1>2, <2>1, <2>2 DEF Chunk
<1>4. tried \o chunk \in Seq(Bodies)
  BY <1>1, <1>3
<1>5. CASE end < Len(events)
  <2>1. RunTypes(law, maxBatch, stored, events, end, call, arrived, wanted, tried \o chunk, settled)
    BY <1>1, <1>2, <1>4 DEF RunTypes
  <2>2. RunParts(law, maxBatch, stored, events, end, call, arrived, wanted, tried \o chunk,
                 settled, repeated)
    BY <1>1, <1>3, <1>5, <2>1 DEF RunInv, RunParts
  <2>3. /\ law' = law /\ maxBatch' = maxBatch /\ stored' = stored /\ events' = events
        /\ start' = end /\ call' = call /\ arrived' = arrived /\ wanted' = wanted
        /\ tried' = tried \o chunk /\ settled' = settled /\ repeated' = repeated
    BY <1>2, <1>3, <1>5 DEF ChunkSettled
  <2>4. QED
    BY <2>2, <2>3 DEF RunInv
<1>6. CASE end = Len(events)
  <2>1. tried \o chunk = events
    <3>1. SubSeq(events, 1, Len(events)) = events
      BY <1>1
    <3>2. QED
      BY <1>3, <1>6, <3>1
  <2>2. settled \o events \in Seq(Bodies) /\ <<>> \in Seq(Bodies)
        /\ (settled \o events) \o <<>> = settled \o events
    BY <1>1
  <2>3. RunParts(law, maxBatch, <<>>, <<>>, 0, "none", arrived, wanted, <<>>, settled \o events, {})
    BY <1>1, <2>2, BetweenRuns
  <2>4. /\ law' = law /\ maxBatch' = maxBatch /\ stored' = <<>> /\ events' = <<>>
        /\ start' = 0 /\ call' = "none" /\ arrived' = arrived /\ wanted' = wanted
        /\ tried' = <<>> /\ settled' = settled \o events /\ repeated' = {}
    BY <1>2, <1>3, <1>6, <2>1 DEF ChunkSettled, Return, Removed
  <2>5. QED
    BY <2>3, <2>4 DEF RunInv
<1>7. QED
  BY <1>2, <1>5, <1>6

\* Waiting changes nothing of the run.
LEMMA WaitKeepsRuns ==
  ASSUME RunInv, ChunkTransient \/ SleepEnds
  PROVE  RunInv'
<1>1. /\ RunParts(law, maxBatch, stored, events, start, call, arrived, wanted, tried, settled, repeated)
      /\ call # "none"
  BY DEF RunInv, ChunkTransient, SleepEnds
<1>2. /\ law' = law /\ maxBatch' = maxBatch /\ stored' = stored /\ events' = events
      /\ start' = start /\ arrived' = arrived /\ wanted' = wanted /\ tried' = tried
      /\ settled' = settled /\ repeated' = repeated /\ call' \in {"handler", "sleep"}
  BY DEF ChunkTransient, SleepEnds
<1>3. ASSUME NEW ca \in {"handler", "sleep"}
      PROVE  RunParts(law, maxBatch, stored, events, start, ca, arrived, wanted, tried, settled, repeated)
  <2>1. RunTypes(law, maxBatch, stored, events, start, ca, arrived, wanted, tried, settled)
    BY <1>1 DEF RunParts, RunTypes
  <2>2. QED
    BY <1>1, <2>1 DEF RunParts
<1>4. QED
  BY <1>2, <1>3 DEF RunInv

\* What is left of a run when it is serialized is a run.
LEMMA SerializedIs ==
  ASSUME NEW run \in Seq(Bodies), NEW kept \in Serialized(run)
  PROVE  kept \in Seq(Bodies)
<1>1. CASE kept = run
  BY <1>1
<1>2. CASE kept # run
  <2>1. PICK i \in DOMAIN run : kept = RemoveAt(run, i)
    BY <1>2 DEF Serialized
  <2>2. SubSeq(run, 1, i - 1) \in Seq(Bodies) /\ SubSeq(run, i + 1, Len(run)) \in Seq(Bodies)
    BY <2>1
  <2>3. QED
    BY <2>1, <2>2, Joined DEF RemoveAt
<1>3. QED
  BY <1>1, <1>2

LEMMA ToRetryKeepsRuns ==
  ASSUME RunInv, ChunkToRetry
  PROVE  RunInv'
<1>1. /\ law \in Laws /\ maxBatch \in Nat \ {0} /\ arrived \in 0 .. MaxArrivals
      /\ events \in Seq(Bodies) /\ wanted \in Seq(Bodies)
      /\ settled \in Seq(Bodies) /\ tried \in Seq(Bodies)
      /\ Alike(law, settled \o events, wanted) /\ repeated \subseteq Members(stored)
      /\ stored = <<>>
  BY RunFacts DEF ChunkToRetry, IsAttempt
<1>2. repeated = {}
  BY <1>1, NoMembers
<1>3. PICK rest : rest = Unsettled /\ rest \in Seq(Bodies) /\ tried \o rest = events
  BY CutAtStart
<1>4. PICK kept \in Serialized(rest) :
        stored' = kept /\ wanted' = IF kept = rest THEN wanted ELSE settled \o (tried \o kept)
  BY <1>3 DEF ChunkToRetry
<1>5. kept \in Seq(Bodies)
  BY <1>3, SerializedIs
<1>6. settled \o tried \in Seq(Bodies)
      /\ \A run \in Seq(Bodies) : (settled \o tried) \o run = settled \o (tried \o run)
  BY <1>1, Joined
<1>7. PICK wa : wa = wanted' /\ wa \in Seq(Bodies) /\ Alike(law, (settled \o tried) \o kept, wa)
  <2>1. CASE kept = rest
    <3>1. (settled \o tried) \o kept = settled \o events
      BY <1>3, <1>5, <1>6, <2>1
    <3>2. QED
      BY <1>1, <1>4, <2>1, <3>1
  <2>2. CASE kept # rest
    <3>1. wanted' = (settled \o tried) \o kept
      BY <1>4, <1>5, <1>6, <2>2
    <3>2. (settled \o tried) \o kept \in Seq(Bodies)
      BY <1>5, <1>6
    <3>3. QED
      BY <1>1, <3>1, <3>2, AlikeIs
  <2>3. QED
    BY <2>1, <2>2
<1>8. RunParts(law, maxBatch, kept, <<>>, 0, "none", arrived, wa, <<>>, settled \o tried, {})
  BY <1>1, <1>5, <1>6, <1>7, BetweenRuns
<1>9. /\ law' = law /\ maxBatch' = maxBatch /\ stored' = kept /\ events' = <<>>
      /\ start' = 0 /\ call' = "none" /\ arrived' = arrived /\ wanted' = wa
      /\ tried' = <<>> /\ settled' = settled \o tried /\ repeated' = {}
  BY <1>2, <1>4, <1>7 DEF ChunkToRetry, Return
<1>10. QED
  BY <1>8, <1>9 DEF RunInv

\* What the failed attempt handed over is still stored.
LEMMA FailsKeepsRuns ==
  ASSUME RunInv, AttemptFails
  PROVE  RunInv'
<1>1. /\ law \in Laws /\ maxBatch \in Nat \ {0} /\ arrived \in 0 .. MaxArrivals
      /\ stored \in Seq(Bodies) /\ events \in Seq(Bodies) /\ wanted \in Seq(Bodies)
      /\ settled \in Seq(Bodies) /\ tried \in Seq(Bodies)
      /\ start \in 0 .. Len(events) /\ start < Len(events) /\ stored # <<>>
      /\ tried = SubSeq(events, 1, start)
      /\ Alike(law, settled \o stored, wanted) /\ repeated \subseteq Members(stored)
      /\ law # "Associative" => Members(events) = Members(stored)
      /\ law = "Associative" => repeated = {} /\ Len(events) <= 1
  BY RunFacts DEF AttemptFails, IsAttempt
<1>2. PICK re : re = repeated \cup Members(tried)
  OBVIOUS
<1>3. re \subseteq Members(stored) /\ (law = "Associative" => re = {})
  <2>1. CASE law = "Associative"
    <3>1. start = 0
      BY <1>1, <2>1
    <3>2. tried = <<>>
      BY <1>1, <3>1
    <3>3. QED
      BY <1>1, <1>2, <2>1, <3>2, NoMembers
  <2>2. CASE law # "Associative"
    <3>1. \A i \in DOMAIN tried : i \in DOMAIN events /\ tried[i] = events[i]
      BY <1>1
    <3>2. Members(tried) \subseteq Members(events)
      BY <3>1 DEF Members
    <3>3. QED
      BY <1>1, <1>2, <2>2, <3>2
  <2>3. QED
    BY <2>1, <2>2
<1>4. RunParts(law, maxBatch, stored, <<>>, 0, "none", arrived, wanted, <<>>, settled, re)
  BY <1>1, <1>3, BetweenRuns
<1>5. /\ law' = law /\ maxBatch' = maxBatch /\ stored' = stored /\ events' = <<>>
      /\ start' = 0 /\ call' = "none" /\ arrived' = arrived /\ wanted' = wanted
      /\ tried' = <<>> /\ settled' = settled /\ repeated' = re
  BY <1>2 DEF AttemptFails, Return, ToSet, Members
<1>6. QED
  BY <1>4, <1>5 DEF RunInv

LEMMA GaveUpKeepsRuns ==
  ASSUME RunInv, GaveUp
  PROVE  RunInv'
<1>1. /\ law \in Laws /\ maxBatch \in Nat \ {0} /\ arrived \in 0 .. MaxArrivals
      /\ settled \in Seq(Bodies) /\ tried \in Seq(Bodies)
  BY RunFacts
<1>2. PICK se : /\ se = settled \o tried /\ se \in Seq(Bodies) /\ <<>> \in Seq(Bodies)
                /\ se \o <<>> = se
  <2>1. \A s \in Seq(Bodies) : s \o <<>> = s
    OBVIOUS
  <2>2. settled \o tried \in Seq(Bodies) /\ <<>> \in Seq(Bodies)
    BY <1>1
  <2>3. QED
    BY <2>1, <2>2
<1>3. Alike(law, se \o <<>>, se)
  BY <1>1, <1>2, AlikeIs
<1>4. RunParts(law, maxBatch, <<>>, <<>>, 0, "none", arrived, se, <<>>, se, {})
  BY <1>1, <1>2, <1>3, BetweenRuns
<1>5. /\ law' = law /\ maxBatch' = maxBatch /\ stored' = <<>> /\ events' = <<>>
      /\ start' = 0 /\ call' = "none" /\ arrived' = arrived /\ wanted' = se
      /\ tried' = <<>> /\ settled' = se /\ repeated' = {}
  BY <1>2 DEF GaveUp, Return, Removed
<1>6. QED
  BY <1>4, <1>5 DEF RunInv

LEMMA DivertKeepsRuns ==
  ASSUME RunInv, NEW rs \in Runs[MaxArrivals - arrived], Divert(rs)
  PROVE  RunInv'
<1>1. /\ law \in Laws /\ maxBatch \in Nat \ {0} /\ arrived \in 0 .. MaxArrivals
      /\ stored \in Seq(Bodies) /\ wanted \in Seq(Bodies) /\ settled \in Seq(Bodies)
      /\ call = "none" /\ Alike(law, settled \o stored, wanted)
      /\ repeated \subseteq Members(stored) /\ (law = "Associative" => repeated = {})
  BY RunFacts DEF Divert
<1>2. MaxArrivals \in Nat
  BY RunAssumption DEF RunAssumption
<1>3. PICK p : p \in Seq(Bodies) /\ p = Payloads(rs)
  BY <1>1, <1>2, RunsAre
<1>4. arrived + Len(rs) \in 0 .. MaxArrivals
  <2>1. MaxArrivals - arrived \in 0 .. MaxArrivals
    BY <1>1, <1>2
  <2>2. Len(rs) \in 0 .. MaxArrivals - arrived
    BY <2>1, RunsAre
  <2>3. QED
    BY <1>1, <1>2, <2>2
<1>5. settled \o stored \in Seq(Bodies)
  BY <1>1
<1>6. PICK d : /\ d = Decode(rs) /\ d \in Seq(Bodies)
               /\ Alike(law, (settled \o stored) \o d, wanted \o p)
  BY <1>1, <1>3, <1>5, ReduceIsAlike DEF Decode
<1>7. PICK kept \in Serialized(d) :
        stored' = stored \o kept /\ wanted' = wanted \o (IF kept = d THEN p ELSE kept)
  BY <1>3, <1>6 DEF Divert
<1>8. kept \in Seq(Bodies)
  BY <1>6, SerializedIs
<1>9. /\ stored \o kept \in Seq(Bodies)
      /\ (settled \o stored) \o kept = settled \o (stored \o kept)
      /\ wanted \o p \in Seq(Bodies) /\ wanted \o kept \in Seq(Bodies)
  BY <1>1, <1>3, <1>8, Joined
<1>10. PICK wa : wa = wanted' /\ wa \in Seq(Bodies) /\ Alike(law, settled \o (stored \o kept), wa)
  <2>1. CASE kept = d
    BY <1>6, <1>7, <1>9, <2>1
  <2>2. CASE kept # d
    <3>1. Alike(law, (settled \o stored) \o kept, wanted \o kept)
      BY <1>1, <1>5, <1>8, JoinIsAlike
    <3>2. QED
      BY <1>7, <1>9, <2>2, <3>1
  <2>3. QED
    BY <2>1, <2>2
<1>11. repeated \subseteq Members(stored \o kept)
  BY <1>1, <1>8, MembersOfJoined
<1>12. RunParts(law, maxBatch, stored \o kept, <<>>, 0, "none", arrived + Len(rs), wa, <<>>,
                settled, repeated)
  BY <1>1, <1>4, <1>9, <1>10, <1>11, BetweenRuns
<1>13. events = <<>> /\ start = 0 /\ tried = <<>>
  BY <1>1, NothingHandled
<1>14. /\ law' = law /\ maxBatch' = maxBatch /\ stored' = stored \o kept /\ events' = <<>>
       /\ start' = 0 /\ call' = "none" /\ arrived' = arrived + Len(rs) /\ wanted' = wa
       /\ tried' = <<>> /\ settled' = settled /\ repeated' = repeated
  BY <1>1, <1>7, <1>10, <1>13 DEF Divert
<1>15. QED
  BY <1>12, <1>14 DEF RunInv

LEMMA NextKeepsRuns == RunInv /\ [RunNext]_runVars => RunInv'
<1> SUFFICES ASSUME RunInv, [RunNext]_runVars PROVE RunInv'
  OBVIOUS
<1>1. CASE \E rs \in Runs[MaxArrivals - arrived] : HandleBatch(rs) \/ Divert(rs)
  BY <1>1, BatchKeepsRuns, DivertKeepsRuns
<1>2. CASE HandleStored
  BY <1>2, StoredKeepsRuns
<1>3. CASE ChunkSettled
  BY <1>3, SettledKeepsRuns
<1>4. CASE ChunkTransient \/ SleepEnds
  BY <1>4, WaitKeepsRuns
<1>5. CASE ChunkToRetry
  BY <1>5, ToRetryKeepsRuns
<1>6. CASE AttemptFails
  BY <1>6, FailsKeepsRuns
<1>7. CASE GaveUp
  BY <1>7, GaveUpKeepsRuns
<1>8. CASE UNCHANGED runVars
  BY <1>8 DEF runVars, RunInv
<1>9. QED
  BY <1>1, <1>2, <1>3, <1>4, <1>5, <1>6, <1>7, <1>8 DEF RunNext

LEMMA AlikeHasEffect ==
  ASSUME law \in Laws, NEW a, NEW c, Alike(law, a, c)
  PROVE  EffectOf(a) = EffectOf(c)
<1>1. CASE law \in {"NonAssociative", "Commutative"}
  BY <1>1 DEF Alike
<1>2. CASE law = "Idempotent"
  BY <1>2 DEF Alike, EffectOf
<1>3. CASE law = "IdempotentCommutative"
  BY <1>3 DEF Alike, EffectOf, Members
<1>4. CASE law = "Associative"
  BY <1>4 DEF Alike, EffectOf
<1>5. QED
  BY <1>1, <1>2, <1>3, <1>4 DEF Laws

\* What was settled and is still to come of a run has the effect of the events as
\* they came, whatever law the event type has: however the run is cut into chunks,
\* written back after a retryable failure, diverted behind what waits and reduced
\* again, attempt after attempt (decode, encode and handle_events of handler.rs,
\* reduce of algebra.rs, finish of retry.rs).  What a failed attempt had handed
\* over is in the next attempt again.
THEOREM EffectIsKept == RunSpec => []EffectKept
<1>1. RunInv => EffectKept
  <2> SUFFICES ASSUME RunInv PROVE EffectKept
    OBVIOUS
  <2>1. PICK todo : todo = tried \o Rest
    OBVIOUS
  <2>2. Alike(law, settled \o todo, wanted) /\ repeated \subseteq Members(todo)
    <3>1. CASE call = "none"
      <4>1. tried = <<>> /\ Rest = stored /\ stored \in Seq(Bodies) /\ <<>> \o stored = stored
        BY <3>1, NothingHandled, RunFacts DEF Rest
      <4>2. QED
        BY <2>1, <3>1, <4>1, RunFacts
    <3>2. CASE call # "none"
      <4>1. todo = events
        BY <2>1, <3>2, CutAtStart DEF Rest
      <4>2. CASE stored = <<>>
        BY <3>2, <4>1, <4>2, RunFacts, NoMembers
      <4>3. CASE stored # <<>>
        BY <3>2, <4>1, <4>3, RunFacts
      <4>4. QED
        BY <4>2, <4>3
    <3>3. QED
      BY <3>1, <3>2
  <2>3. EffectOf(settled \o todo) = EffectOf(wanted)
    BY <2>2, AlikeHasEffect, RunFacts
  <2>4. ToSet(todo) = Members(todo)
    BY DEF ToSet, Members
  <2>5. QED
    BY <2>1, <2>2, <2>3, <2>4 DEF EffectKept
<1>2. QED
  BY <1>1, InitKeepsRuns, NextKeepsRuns, PTL DEF RunSpec
=============================================================================
