------------------------ MODULE ConsumerCursorProofs ------------------------
(***************************************************************************)
(* Theorems about the cursors of PartitionConsumer: how far events are     *)
(* settled, what a stop leaves uncommitted, what a restart repeats, and    *)
(* what the task knows of the retry partition when it executes a batch;    *)
(* and what follows from them in at-least-once mode: the events of a lane  *)
(* keep their order, and the consumer implements KeyedDelivery.            *)
(***************************************************************************)
EXTENDS PartitionConsumerProofs

\* The offset stored for the main partition, against the cursor and the batch.
CursorAt ==
  /\ pc \in {"drain", "due", "attempt", "commit", "poll", "claim"} => mainStored = mainNext
  /\ pc \in {"plan", "execute", "encode", "store"} =>
       mainStored = IF Mode = "NoEventLose" THEN mainNext ELSE batchEnd
  /\ pc \in {"claim", "plan", "execute", "encode", "store"} => mainNext <= batchEnd
  /\ pc = "store" => Mode = "NoEventLose"
  /\ pc = "claim" => Mode # "NoEventLose"

\* The last event that may have been settled.
Reach ==
  IF pc \in {"execute", "encode", "store"} THEN batchEnd
  ELSE IF pc \in {"boot", "stopped"} THEN mainStored
  ELSE mainNext

\* Nothing is done again: the mode, or luck, does not allow it.
Once == Mode = "NoDoubleConsume" \/ crashes = 0

SettledReached == Once => \A e \in Settled : e <= Reach
RetryReached == Once => \A p \in 1 .. Len(retryLog) : retryLog[p] <= Reach
EntriesReached == pc = "encode" => \A i \in 1 .. Len(entries) : entries[i] <= batchEnd

\* What is executed was settled by nobody.
TodoUnsettled == Once /\ pc = "execute" => todo \cap Settled = {}

RepeatedAreRetried ==
  Once => \A e \in reapplied : \E p \in 1 .. Len(retryLog) : retryLog[p] = e

CursorInv ==
  /\ CursorAt /\ SettledReached /\ RetryReached /\ EntriesReached
  /\ TodoUnsettled /\ RepeatedAreRetried

-----------------------------------------------------------------------------
(* Numbers.                                                                *)

LEMMA CursorTypes ==
  ASSUME TypeOK
  PROVE  /\ mainStored \in Nat /\ mainNext \in Nat /\ batchEnd \in Nat /\ published \in Nat
         /\ Settled \subseteq Nat /\ todo \subseteq Nat /\ Len(retryLog) \in Nat
         /\ retryLog \in Seq(Event) /\ entries \in Seq(Event) /\ Event \subseteq Nat
         /\ \A p \in 1 .. Len(retryLog) : retryLog[p] \in Nat
         /\ mainStored <= published /\ mainNext <= published
<1>1. NumEvents \in Nat /\ Event \subseteq Nat
  BY ConsumerAssumption DEF ConsumerAssumption, Event
<1>2. published \in Nat /\ retryLog \in Seq(Event) /\ mainStored \in 0 .. published
  BY <1>1 DEF TypeOK, ServerOK
<1>3. mainNext \in 0 .. published
  BY DEF TypeOK, TaskOK
<1>4. batchEnd \in 0 .. published /\ todo \subseteq Nat /\ entries \in Seq(Event)
  BY DEF TypeOK, WorkOK
<1>5. Settled \subseteq Nat
  BY <1>1 DEF TypeOK, HistoryOK, Settled
<1>6. Len(retryLog) \in Nat /\ \A p \in 1 .. Len(retryLog) : retryLog[p] \in Nat
  <2>1. retryLog \in Seq(Event)
    BY <1>2
  <2>2. Len(retryLog) \in Nat /\ \A p \in 1 .. Len(retryLog) : retryLog[p] \in Event
    BY <2>1
  <2>3. QED
    BY <1>1, <2>2
<1>7. QED
  BY <1>1, <1>2, <1>3, <1>4, <1>5, <1>6

\* The records encode_key writes are those of the key.
LEMMA EncodingsWriteOnly ==
  ASSUME NEW S \in SUBSET Event, NEW s \in Encodings(S)
  PROVE  \A i \in 1 .. Len(s) : s[i] \in S
<1>1. s \in Seq(Event)
  BY EncodingsWriteAll
<1>2. s \in [1 .. Cardinality(S) -> S]
  BY DEF Encodings
<1>3. DOMAIN s = 1 .. Len(s)
  BY <1>1
<1>4. QED
  BY <1>2, <1>3

\* A bound on two logs is one on both together.
LEMMA BoundOfConcat ==
  ASSUME NEW s \in Seq(Event), NEW t \in Seq(Event), NEW b,
         \A i \in 1 .. Len(s) : s[i] <= b,
         \A i \in 1 .. Len(t) : t[i] <= b
  PROVE  \A i \in 1 .. Len(s \o t) : (s \o t)[i] <= b
<1>1. /\ Len(s) \in Nat /\ Len(t) \in Nat
      /\ Len(s \o t) = Len(s) + Len(t)
      /\ \A i \in 1 .. Len(s) + Len(t) :
           (s \o t)[i] = IF i <= Len(s) THEN s[i] ELSE t[i - Len(s)]
  BY ConcatProperties, LenProperties
<1>2. SUFFICES ASSUME NEW i \in 1 .. Len(s) + Len(t) PROVE (s \o t)[i] <= b
  BY <1>1
<1>3. CASE i <= Len(s)
  BY <1>1, <1>2, <1>3
<1>4. CASE ~ (i <= Len(s))
  <2>1. i - Len(s) \in 1 .. Len(t)
    BY <1>1, <1>4
  <2>2. QED
    BY <1>1, <1>4, <2>1
<1>5. QED
  BY <1>3, <1>4

LEMMA InitCursorInv == Init => CursorInv
BY DEF Init, CursorInv, CursorAt, SettledReached, RetryReached, EntriesReached,
       TodoUnsettled, RepeatedAreRetried, Settled, Reach

\* The parts of the invariant that speak of what was done, for a step that does
\* nothing to it and moves no limit down.
LEMMA NothingDone ==
  ASSUME TypeOK, CursorInv, [Next]_vars,
         Settled' = Settled, retryLog' = retryLog, reapplied' = reapplied,
         Once' => Once /\ Reach <= Reach' /\ Reach \in Nat /\ Reach' \in Nat
  PROVE  SettledReached' /\ RetryReached' /\ RepeatedAreRetried'
<1>1. SettledReached'
  BY CursorTypes DEF CursorInv, SettledReached
<1>2. RetryReached'
  BY CursorTypes DEF CursorInv, RetryReached
<1>3. RepeatedAreRetried'
  BY DEF CursorInv, RepeatedAreRetried
<1>4. QED
  BY <1>1, <1>2, <1>3

\* No step makes a second time of the first.
LEMMA OnceBefore ==
  ASSUME TypeOK, [Next]_vars, Once'
  PROVE  Once
<1>1. crashes \in Nat /\ (crashes' = crashes \/ crashes' = crashes + 1)
  <2>1. crashes \in Nat
    BY ConsumerAssumption DEF ConsumerAssumption, TypeOK, HistoryOK
  <2>2. CASE Crash
    BY <2>1, <2>2 DEF Crash
  <2>3. CASE ~ Crash
    BY <2>1, <2>3
       DEF Next, vars, bounds, server, cursors, retries, work, history, TaskStep, HandleChunk,
           Publish, Boot, DrainRetry, DrainDone, StartAttempts, ChunkDone, RunFailed,
           FinishAttempts, CommitRetry, PollMain, PollNothing, Claim, StartBatch, FinishBatch,
           EncodeKey, DivertKey, RetryFailedKey, DropFailedKey, SkipFinishedKey, KeyVisited,
           SendRetry, StoreMain, StopTask, Elapse, SendRetryUnacknowledged, RequestStop, Restart
  <2>4. QED
    BY <2>2, <2>3
<1>2. QED
  BY <1>1 DEF Once

\* What a handler did with a chunk.
LEMMA ChunkDoneCursor ==
  ASSUME TypeOK, CursorInv, NEW lane \in Lane, ChunkDone(lane), Once => Once'
  PROVE  CursorInv'
<1> DEFINE events == {EventAt(x) : x \in Chunk(lane)}
<1>1. /\ pc' = pc /\ mainNext' = mainNext /\ mainStored' = mainStored /\ batchEnd' = batchEnd
      /\ retryLog' = retryLog /\ entries' = entries /\ crashes' = crashes
      /\ pc \in {"attempt", "execute"} /\ todo' = todo \ Chunk(lane)
      /\ Settled' = Settled \cup events
      /\ reapplied' = reapplied \/ reapplied' = reapplied \cup (applied \cap events)
  BY DEF ChunkDone, server, cursors, bounds, Settled
<1>2. Chunk(lane) \subseteq todo /\ Reach' = Reach /\ (Once' <=> Once)
  BY <1>1 DEF Chunk, Reach, Once
<1>3. CursorAt' /\ EntriesReached' /\ RetryReached'
  BY <1>1, <1>2 DEF CursorInv, CursorAt, EntriesReached, RetryReached
<1>4. CASE pc = "attempt"
  <2>1. ASSUME NEW e \in events PROVE \E p \in 1 .. Len(retryLog) : retryLog[p] = e
    <3>1. PICK x \in Chunk(lane) : e = EventAt(x)
      BY <2>1
    <3>2. e = retryLog[x] /\ x \in pending
      BY <1>2, <1>4, <3>1 DEF EventAt, TypeOK, WorkOK
    <3>3. x \in 1 .. Len(retryLog)
      BY <3>2, CursorTypes DEF TypeOK, TaskOK
    <3>4. QED
      BY <3>2, <3>3
  <2>2. SettledReached'
    BY <1>1, <1>2, <2>1 DEF CursorInv, SettledReached, RetryReached
  <2>3. RepeatedAreRetried'
    BY <1>1, <1>2, <2>1 DEF CursorInv, RepeatedAreRetried
  <2>4. TodoUnsettled'
    BY <1>1, <1>4 DEF TodoUnsettled
  <2>5. QED
    BY <1>3, <2>2, <2>3, <2>4 DEF CursorInv
<1>5. CASE pc = "execute"
  <2>1. events = Chunk(lane)
    BY <1>5 DEF EventAt
  <2>2. \A e \in Chunk(lane) : e <= Reach
    <3>1. Reach = batchEnd /\ todo \subseteq mainNext + 1 .. batchEnd
      BY <1>5 DEF Reach, TypeOK, WorkOK
    <3>2. mainNext \in Nat /\ batchEnd \in Nat
      BY CursorTypes
    <3>3. \A e \in Chunk(lane) : e \in mainNext + 1 .. batchEnd
      BY <1>2, <3>1
    <3>4. QED
      BY <3>1, <3>2, <3>3
  <2>3. SettledReached'
    BY <1>1, <1>2, <2>1, <2>2 DEF CursorInv, SettledReached
  <2>4. TodoUnsettled'
    BY <1>1, <1>2, <2>1, <1>5 DEF CursorInv, TodoUnsettled
  <2>5. Once => reapplied' = reapplied
    BY <1>1, <1>2, <2>1, <1>5 DEF CursorInv, TodoUnsettled, Settled
  <2>6. RepeatedAreRetried'
    BY <1>1, <1>2, <2>5 DEF CursorInv, RepeatedAreRetried
  <2>7. QED
    BY <1>3, <2>3, <2>4, <2>6 DEF CursorInv
<1>6. QED
  BY <1>1, <1>4, <1>5

\* What is discarded with its last attempt, and a start over the bad records.
LEMMA FinishAttemptsCursor ==
  ASSUME TypeOK, CursorInv, FinishAttempts
  PROVE  CursorInv'
<1>1. /\ pc = "attempt" /\ pc' = "commit" /\ mainNext' = mainNext /\ mainStored' = mainStored
      /\ batchEnd' = batchEnd /\ retryLog' = retryLog /\ entries' = entries
      /\ crashes' = crashes /\ reapplied' = reapplied
      /\ \A e \in Settled' : e \in Settled \/ \E p \in pending : retryLog[p] = e
  BY DEF FinishAttempts, server, cursors, bounds, Settled
<1>2. Reach' = Reach /\ (Once' <=> Once)
  BY <1>1 DEF Reach, Once
<1>3. CursorAt' /\ EntriesReached' /\ RetryReached' /\ TodoUnsettled' /\ RepeatedAreRetried'
  BY <1>1, <1>2
     DEF CursorInv, CursorAt, EntriesReached, RetryReached, TodoUnsettled, RepeatedAreRetried
<1>4. \A p \in pending : p \in 1 .. Len(retryLog)
  BY DEF TypeOK, ServerOK, TaskOK
<1>5. SettledReached'
  BY <1>1, <1>2, <1>4 DEF CursorInv, SettledReached, RetryReached
<1>6. QED
  BY <1>3, <1>5 DEF CursorInv

LEMMA StartBatchCursor ==
  ASSUME TypeOK, CursorInv, StartBatch
  PROVE  CursorInv'
<1> DEFINE bad == (mainNext + 1 .. batchEnd) \cap Bad
<1>1. /\ pc = "plan" /\ pc' = "execute" /\ mainNext' = mainNext /\ mainStored' = mainStored
      /\ batchEnd' = batchEnd /\ retryLog' = retryLog /\ crashes' = crashes
      /\ reapplied' = reapplied /\ Settled' = Settled \cup bad
      /\ todo' \subseteq (mainNext + 1 .. batchEnd) \ Bad
  BY DEF StartBatch, Runnable, Batch, server, cursors, bounds, Settled
<1>2. Reach = mainNext /\ Reach' = batchEnd /\ (Once' <=> Once) /\ mainNext <= batchEnd
  BY <1>1 DEF Reach, Once, CursorInv, CursorAt
<1>3. CursorAt' /\ EntriesReached'
  BY <1>1 DEF CursorInv, CursorAt, EntriesReached
<1>4. SettledReached'
  BY <1>1, <1>2, CursorTypes DEF CursorInv, SettledReached
<1>5. RetryReached'
  BY <1>1, <1>2, CursorTypes DEF CursorInv, RetryReached
<1>6. TodoUnsettled'
  <2>1. SUFFICES ASSUME Once, NEW e \in todo', e \in Settled' PROVE FALSE
    BY <1>2 DEF TodoUnsettled
  <2>2. e \in mainNext + 1 .. batchEnd /\ e \notin Bad
    BY <1>1, <2>1
  <2>3. e \in Settled
    BY <1>1, <2>1, <2>2
  <2>4. e <= mainNext
    BY <1>2, <2>1, <2>3 DEF CursorInv, SettledReached
  <2>5. QED
    BY <2>2, <2>4, CursorTypes
<1>7. RepeatedAreRetried'
  BY <1>1, <1>2 DEF CursorInv, RepeatedAreRetried
<1>8. QED
  BY <1>3, <1>4, <1>5, <1>6, <1>7 DEF CursorInv

\* The records written for a key, and what is dropped of it, are of the batch.
LEMMA EncodeKeyCursor ==
  ASSUME TypeOK, CursorInv, NEW k \in Key, EncodeKey(k)
  PROVE  CursorInv'
<1>1. /\ pc = "encode" /\ pc' = pc /\ mainNext' = mainNext /\ mainStored' = mainStored
      /\ batchEnd' = batchEnd /\ retryLog' = retryLog /\ crashes' = crashes
      /\ reapplied' = reapplied /\ todo' = todo
  BY DEF EncodeKey, DivertKey, RetryFailedKey, DropFailedKey, SkipFinishedKey, NextKey,
         KeyVisited, server, cursors, bounds
<1>2. Reach = batchEnd /\ Reach' = Reach /\ (Once' <=> Once)
  BY <1>1 DEF Reach, Once
<1>3. CursorAt' /\ RetryReached' /\ TodoUnsettled' /\ RepeatedAreRetried'
  BY <1>1, <1>2 DEF CursorInv, CursorAt, RetryReached, TodoUnsettled, RepeatedAreRetried
<1>4. Unhandled(k) \subseteq mainNext + 1 .. batchEnd
  BY <1>1 DEF Unhandled, TypeOK, WorkOK
<1>5. Settled' = Settled \/ Settled' = Settled \cup Unhandled(k)
  BY DEF EncodeKey, DivertKey, RetryFailedKey, DropFailedKey, SkipFinishedKey, KeyVisited, Settled
<1>6. SettledReached'
  BY <1>1, <1>2, <1>4, <1>5, CursorTypes DEF CursorInv, SettledReached
<1>7. ASSUME NEW S \in SUBSET Event, \A e \in S : e <= batchEnd,
             NEW s \in Encodings(S), entries' = entries \o s
      PROVE  EntriesReached'
  <2>1. s \in Seq(Event) /\ \A i \in 1 .. Len(s) : s[i] <= batchEnd
    BY <1>7, EncodingsWriteAll, EncodingsWriteOnly
  <2>2. entries \in Seq(Event) /\ \A i \in 1 .. Len(entries) : entries[i] <= batchEnd
    BY <1>1, CursorTypes DEF CursorInv, EntriesReached
  <2>3. \A i \in 1 .. Len(entries \o s) : (entries \o s)[i] <= batchEnd
    BY <2>1, <2>2, BoundOfConcat
  <2>4. QED
    BY <1>1, <1>7, <2>3 DEF EntriesReached
<1>8. EntriesReached'
  <2>1. CASE DivertKey(k)
    <3>1. {e \in Batch : KeyOf[e] = k} \in SUBSET Event
      BY BatchEvents
    <3>2. \A e \in {e \in Batch : KeyOf[e] = k} : e <= batchEnd
      BY CursorTypes DEF Batch
    <3>3. QED
      BY <1>7, <2>1, <3>1, <3>2 DEF DivertKey
  <2>2. CASE RetryFailedKey(k)
    <3>1. Unhandled(k) \in SUBSET Event /\ \A e \in Unhandled(k) : e <= batchEnd
      BY <1>1, <1>4, UnhandledEvents, CursorTypes
    <3>2. QED
      BY <1>7, <2>2, <3>1 DEF RetryFailedKey
  <2>3. CASE entries' = entries
    BY <1>1, <2>3 DEF CursorInv, EntriesReached
  <2>4. QED
    BY <2>1, <2>2, <2>3 DEF EncodeKey, DropFailedKey, SkipFinishedKey
<1>9. QED
  BY <1>3, <1>6, <1>8 DEF CursorInv

\* The retry records of a batch are written, and perhaps written again.
LEMMA SendCursor ==
  ASSUME TypeOK, CursorInv, SendRetry \/ SendRetryUnacknowledged
  PROVE  CursorInv'
<1>1. /\ pc = "encode" /\ mainStored' = mainStored /\ batchEnd' = batchEnd
      /\ retryLog' = retryLog \o entries /\ crashes' = crashes
      /\ reapplied' = reapplied /\ Settled' = Settled
      /\ \/ pc' = "encode" /\ mainNext' = mainNext /\ entries' = entries
         \/ pc' = "store" /\ mainNext' = mainNext /\ Mode = "NoEventLose"
         \/ pc' = "drain" /\ mainNext' = batchEnd /\ Mode # "NoEventLose"
  BY DEF SendRetry, SendRetryUnacknowledged, server, cursors, work, history, bounds, Settled
<1>2. Reach = batchEnd /\ Reach' = batchEnd /\ (Once' <=> Once)
  BY <1>1 DEF Reach, Once
<1>3. CursorAt'
  BY <1>1 DEF CursorInv, CursorAt
<1>4. SettledReached' /\ EntriesReached' /\ TodoUnsettled'
  BY <1>1, <1>2 DEF CursorInv, SettledReached, EntriesReached, TodoUnsettled
<1>5. RetryReached'
  <2>1. SUFFICES ASSUME Once PROVE \A p \in 1 .. Len(retryLog') : retryLog'[p] <= batchEnd
    BY <1>2 DEF RetryReached
  <2>2. /\ \A p \in 1 .. Len(retryLog) : retryLog[p] <= batchEnd
        /\ \A p \in 1 .. Len(entries) : entries[p] <= batchEnd
    BY <1>1, <1>2, <2>1 DEF CursorInv, RetryReached, EntriesReached
  <2>3. QED
    BY <1>1, <2>2, CursorTypes, BoundOfConcat
<1>6. RepeatedAreRetried'
  <2>1. SUFFICES ASSUME Once, NEW e \in reapplied
                 PROVE  \E p \in 1 .. Len(retryLog') : retryLog'[p] = e
    BY <1>1, <1>2 DEF RepeatedAreRetried
  <2>2. Occurs(e, retryLog)
    BY <2>1 DEF CursorInv, RepeatedAreRetried, Occurs
  <2>3. Occurs(e, retryLog \o entries)
    BY <2>2, CursorTypes, OccursInConcat
  <2>4. QED
    BY <1>1, <2>3 DEF Occurs
<1>7. QED
  BY <1>3, <1>4, <1>5, <1>6 DEF CursorInv

\* The same of the next state.
LEMMA TypesNext ==
  ASSUME TypeOK'
  PROVE  mainStored' \in Nat /\ mainNext' \in Nat /\ batchEnd' \in Nat
<1>1. NumEvents \in Nat
  BY ConsumerAssumption DEF ConsumerAssumption
<1>2. published' \in Nat /\ mainStored' \in 0 .. published'
  BY <1>1 DEF TypeOK, ServerOK
<1>3. mainNext' \in 0 .. published' /\ batchEnd' \in 0 .. published'
  BY DEF TypeOK, TaskOK, WorkOK
<1>4. QED
  BY <1>2, <1>3

\* The steps that neither settle an event nor write a record.
LEMMA QuietCursor ==
  ASSUME TypeOK, CursorInv, [Next]_vars,
         Settled' = Settled, retryLog' = retryLog, reapplied' = reapplied,
         Once' => Reach <= Reach',
         CursorAt',
         pc' # "execute" \/ (pc = "execute" /\ todo' = todo),
         pc' # "encode" \/ (pc = "encode" /\ entries' = entries /\ batchEnd' = batchEnd)
                        \/ entries' = <<>>
  PROVE  CursorInv'
<1>1. Reach \in Nat
  BY CursorTypes DEF Reach
<1>2. Reach' \in Nat
  <2>1. TypeOK'
    BY StepTypeOK
  <2>2. mainStored' \in Nat /\ mainNext' \in Nat /\ batchEnd' \in Nat
    BY <2>1, TypesNext
  <2>3. QED
    BY <2>2 DEF Reach
<1>3. Once' => Once
  BY OnceBefore
<1>4. SettledReached' /\ RetryReached' /\ RepeatedAreRetried'
  BY <1>1, <1>2, <1>3, NothingDone
<1>5. TodoUnsettled'
  BY <1>3 DEF CursorInv, TodoUnsettled
<1>6. EntriesReached'
  BY DEF CursorInv, EntriesReached
<1>7. QED
  BY <1>4, <1>5, <1>6 DEF CursorInv

LEMMA StepCursorInv == TypeOK /\ CursorInv /\ [Next]_vars => CursorInv'
<1> SUFFICES ASSUME TypeOK, CursorInv, [Next]_vars PROVE CursorInv'
  OBVIOUS
<1> USE DEF server, cursors, retries, work, history, bounds
<1>a. CursorAt
  BY DEF CursorInv
<1>b. mainStored \in Nat /\ mainNext \in Nat /\ batchEnd \in Nat /\ published \in Nat
      /\ mainNext <= published
  BY CursorTypes
\* A step that moves neither the cursor nor what is stored, within a phase.
<1>c. ASSUME Settled' = Settled, retryLog' = retryLog, reapplied' = reapplied,
             pc' = pc, mainNext' = mainNext, mainStored' = mainStored, batchEnd' = batchEnd,
             todo' = todo, entries' = entries
      PROVE  CursorInv'
  <2>1. CursorAt' /\ Reach' = Reach /\ Reach \in Nat
    BY <1>a, <1>b, <1>c DEF CursorAt, Reach
  <2>2. QED
    BY <1>c, <2>1, QuietCursor
\* A step to another phase.
<1>d. ASSUME Settled' = Settled, retryLog' = retryLog, reapplied' = reapplied,
             pc' \notin {"execute", "encode"}, CursorAt', Once' => Reach <= Reach'
      PROVE  CursorInv'
  BY <1>d, QuietCursor
<1>1. CASE Publish
  BY <1>1, <1>c DEF Publish, Settled
<1>2. CASE Boot
  BY <1>2, <1>a, <1>b, <1>d DEF Boot, CursorAt, Reach, Settled
<1>3. CASE DrainRetry
  BY <1>3, <1>c DEF DrainRetry, Settled
<1>4. CASE DrainDone
  BY <1>4, <1>a, <1>b, <1>d DEF DrainDone, CursorAt, Reach, Settled
<1>5. ASSUME NEW k \in Key, Elapse(k) PROVE CursorInv'
  BY <1>5, <1>c DEF Elapse, Settled
<1>6. CASE StartAttempts
  BY <1>6, <1>a, <1>b, <1>d DEF StartAttempts, CursorAt, Reach, Settled
<1>7. ASSUME NEW lane \in Lane, ChunkDone(lane) PROVE CursorInv'
  <2>1. Once => Once'
    BY <1>7 DEF ChunkDone, Once
  <2>2. QED
    BY <1>7, <2>1, ChunkDoneCursor
<1>8. ASSUME NEW lane \in Lane, RunFailed(lane) PROVE CursorInv'
  BY <1>8, <1>c DEF RunFailed, Settled
<1>9. CASE FinishAttempts
  BY <1>9, FinishAttemptsCursor
<1>10. CASE CommitRetry
  BY <1>10, <1>a, <1>b, <1>d DEF CommitRetry, CursorAt, Reach, Settled
<1>11. CASE PollMain
  <2>1. /\ pc = "poll" /\ pc' = IF Mode = "NoDoubleConsume" THEN "claim" ELSE "plan"
        /\ batchEnd' = Least(mainNext + PollCount, published) /\ mainNext < published
        /\ mainNext' = mainNext /\ mainStored' = mainStored
        /\ Settled' = Settled /\ retryLog' = retryLog /\ reapplied' = reapplied
    BY <1>11 DEF PollMain, Settled
  <2>2. mainNext <= batchEnd'
    BY <1>b, <2>1, ConsumerAssumption DEF ConsumerAssumption, Least
  <2>3. CursorAt'
    BY <1>a, <2>1, <2>2, ConsumerAssumption DEF ConsumerAssumption, Modes, CursorAt
  <2>4. Reach' = Reach /\ Reach \in Nat
    BY <1>b, <2>1 DEF Reach
  <2>5. QED
    BY <1>d, <2>1, <2>3, <2>4
<1>12. CASE PollNothing
  BY <1>12, <1>a, <1>b, <1>d DEF PollNothing, CursorAt, Reach, Settled
<1>13. CASE Claim
  <2>1. /\ pc = "claim" /\ pc' = "plan" /\ mainNext' = mainNext /\ mainStored' = batchEnd
        /\ batchEnd' = batchEnd
        /\ Settled' = Settled /\ retryLog' = retryLog /\ reapplied' = reapplied
    BY <1>13 DEF Claim, Settled
  <2>2. QED
    BY <1>a, <1>b, <1>d, <2>1 DEF CursorAt, Reach
<1>14. CASE StartBatch
  BY <1>14, StartBatchCursor
<1>15. CASE FinishBatch
  <2>1. /\ pc = "execute" /\ pc' = "encode" /\ mainNext' = mainNext /\ mainStored' = mainStored
        /\ batchEnd' = batchEnd /\ entries' = <<>>
        /\ Settled' = Settled /\ retryLog' = retryLog /\ reapplied' = reapplied
    BY <1>15 DEF FinishBatch, Settled
  <2>2. CursorAt' /\ Reach' = Reach /\ Reach \in Nat
    BY <1>a, <1>b, <2>1 DEF CursorAt, Reach
  <2>3. QED
    BY <2>1, <2>2, QuietCursor
<1>16. ASSUME NEW k \in Key, EncodeKey(k) PROVE CursorInv'
  BY <1>16, EncodeKeyCursor
<1>17. CASE SendRetry
  BY <1>17, SendCursor
<1>18. CASE SendRetryUnacknowledged
  BY <1>18, SendCursor
<1>19. CASE StoreMain
  BY <1>19, <1>a, <1>b, <1>d DEF StoreMain, CursorAt, Reach, Settled
<1>20. CASE RequestStop
  BY <1>20, <1>c DEF RequestStop, Settled
<1>21. CASE StopTask
  BY <1>21, <1>a, <1>b, <1>d DEF StopTask, CursorAt, Reach, Settled
<1>22. CASE Restart
  BY <1>22, <1>a, <1>b, <1>d DEF Restart, CursorAt, Reach, Settled
<1>23. CASE Crash
  <2>1. /\ pc \notin {"boot", "stopped"} /\ pc' = "boot" /\ mainStored' = mainStored
        /\ crashes' = crashes + 1
        /\ Settled' = Settled /\ retryLog' = retryLog /\ reapplied' = reapplied
    BY <1>23 DEF Crash, Settled
  <2>2. CursorAt'
    BY <2>1 DEF CursorAt
  <2>3. Once' => Mode = "NoDoubleConsume"
    BY <2>1, ConsumerAssumption DEF ConsumerAssumption, Once, TypeOK, HistoryOK
  <2>4. Mode = "NoDoubleConsume" => Reach <= mainStored
    BY <1>a, <1>b, <2>1 DEF CursorAt, Reach, TypeOK, ControlOK, Phase
  <2>5. Reach' = mainStored
    BY <2>1 DEF Reach
  <2>6. QED
    BY <1>d, <2>1, <2>2, <2>3, <2>4, <2>5
<1>24. CASE UNCHANGED vars
  BY <1>24, <1>c DEF vars, Settled
<1>25. QED
  BY <1>1, <1>2, <1>3, <1>4, <1>5, <1>6, <1>7, <1>8, <1>9, <1>10, <1>11, <1>12,
     <1>13, <1>14, <1>15, <1>16, <1>17, <1>18, <1>19, <1>20, <1>21, <1>22, <1>23, <1>24
     DEF Next, TaskStep, HandleChunk

LEMMA CursorInvariant == Spec => []CursorInv
BY ConsumerTypeOK, InitCursorInv, StepCursorInv, PTL DEF Spec

\* Unless the process crashed, a consumer that was shut down has committed every
\* event that was settled, in both modes and wherever the shutdown met it.
THEOREM ShutdownCommitsAll == Spec => []ShutdownCommits
<1>1. CursorInv => ShutdownCommits
  BY DEF CursorInv, SettledReached, Once, Reach, ShutdownCommits
<1>2. QED
  BY <1>1, CursorInvariant, PTL

\* In at-most-once mode, and as long as nothing crashes in the other one, no
\* handler accepts an event a second time unless it went through the retry
\* partition.
THEOREM OnlyRetriesRepeat == Spec => []OnlyRetryRepeats
<1>1. CursorInv => OnlyRetryRepeats
  BY DEF CursorInv, RepeatedAreRetried, Once, OnlyRetryRepeats
<1>2. QED
  BY <1>1, CursorInvariant, PTL

-----------------------------------------------------------------------------
(* The quarantine.                                                         *)

\* Between its drain and the records of the batch, the task has read the whole
\* retry partition.
AllRead ==
  pc \in {"due", "attempt", "commit", "poll", "claim", "plan", "execute"} =>
    retryNext = Len(retryLog)

\* No key of what is executed is quarantined.
NoneQuarantined == pc = "execute" => \A e \in todo : ~ Quarantined(KeyOf[e])

QuarantineInv == AllRead /\ NoneQuarantined

LEMMA StepQuarantineInv == TypeOK /\ QuarantineInv /\ [Next]_vars => QuarantineInv'
<1> SUFFICES ASSUME TypeOK, AllRead, NoneQuarantined, [Next]_vars PROVE QuarantineInv'
  BY DEF QuarantineInv
<1> USE DEF server, cursors, retries, work, history, bounds, QuarantineInv
\* A step that leaves the execution of a batch to itself.
<1>a. ASSUME retryNext' = retryNext, retryLog' = retryLog,
             pc' \in {"due", "attempt", "commit", "poll", "claim", "plan", "execute"} =>
               pc \in {"due", "attempt", "commit", "poll", "claim", "plan", "execute"}
      PROVE  AllRead'
  BY <1>a DEF AllRead
<1>b. ASSUME pc' = pc, pending' = pending, retryLog' = retryLog, todo' \subseteq todo
      PROVE  NoneQuarantined'
  BY <1>b DEF NoneQuarantined, Quarantined, RetryKey
<1>c. ASSUME pc' # "execute" PROVE NoneQuarantined'
  BY <1>c DEF NoneQuarantined
<1>d. ASSUME pc' \in {"boot", "drain", "encode", "store", "stopped"} PROVE AllRead'
  BY <1>d DEF AllRead
<1>1. CASE Publish
  BY <1>1, <1>a, <1>b DEF Publish
<1>2. CASE Boot
  BY <1>2, <1>c, <1>d DEF Boot
<1>3. CASE DrainRetry
  <2>1. pc' = "drain"
    BY <1>3 DEF DrainRetry
  <2>2. QED
    BY <2>1, <1>c, <1>d
<1>4. CASE DrainDone
  BY <1>4, <1>c DEF DrainDone, AllRead
<1>5. ASSUME NEW k \in Key, Elapse(k) PROVE QuarantineInv'
  BY <1>5, <1>a, <1>b DEF Elapse
<1>6. CASE StartAttempts
  BY <1>6, <1>a, <1>c DEF StartAttempts
<1>7. ASSUME NEW lane \in Lane, ChunkDone(lane) PROVE QuarantineInv'
  <2>1. /\ pc' = pc /\ pending' = pending /\ retryLog' = retryLog /\ retryNext' = retryNext
        /\ todo' \subseteq todo
    BY <1>7 DEF ChunkDone
  <2>2. QED
    BY <2>1, <1>a, <1>b
<1>8. ASSUME NEW lane \in Lane, RunFailed(lane) PROVE QuarantineInv'
  BY <1>8, <1>a, <1>b DEF RunFailed
<1>9. CASE FinishAttempts
  <2>1. pc = "attempt" /\ pc' = "commit" /\ retryNext' = retryNext /\ retryLog' = retryLog
    BY <1>9 DEF FinishAttempts
  <2>2. QED
    BY <2>1, <1>a, <1>c
<1>10. CASE CommitRetry
  <2>1. pc = "commit" /\ pc' = "poll" /\ retryNext' = retryNext /\ retryLog' = retryLog
    BY <1>10 DEF CommitRetry
  <2>2. QED
    BY <2>1, <1>a, <1>c
<1>11. CASE PollMain
  BY <1>11, <1>a, <1>c DEF PollMain
<1>12. CASE PollNothing
  BY <1>12, <1>c, <1>d DEF PollNothing
<1>13. CASE Claim
  BY <1>13, <1>a, <1>c DEF Claim
<1>14. CASE StartBatch
  <2>1. /\ pc = "plan" /\ pc' = "execute" /\ todo' = Runnable /\ pending' = pending
        /\ retryLog' = retryLog /\ retryNext' = retryNext
    BY <1>14 DEF StartBatch
  <2>2. NoneQuarantined'
    BY <2>1 DEF NoneQuarantined, Runnable, Quarantined, RetryKey
  <2>3. QED
    BY <2>1, <2>2, <1>a
<1>15. CASE FinishBatch
  BY <1>15, <1>c, <1>d DEF FinishBatch
<1>16. ASSUME NEW k \in Key, EncodeKey(k) PROVE QuarantineInv'
  <2>1. pc' = "encode"
    BY <1>16 DEF EncodeKey, DivertKey, RetryFailedKey, DropFailedKey, SkipFinishedKey,
                 NextKey, KeyVisited
  <2>2. QED
    BY <2>1, <1>c, <1>d
<1>17. CASE SendRetry
  <2>1. pc' \in {"store", "drain"}
    BY <1>17 DEF SendRetry
  <2>2. QED
    BY <2>1, <1>c, <1>d
<1>18. CASE SendRetryUnacknowledged
  BY <1>18, <1>c, <1>d DEF SendRetryUnacknowledged
<1>19. CASE StoreMain
  BY <1>19, <1>c, <1>d DEF StoreMain
<1>20. CASE RequestStop
  BY <1>20, <1>a, <1>b DEF RequestStop
<1>21. CASE StopTask
  BY <1>21, <1>c, <1>d DEF StopTask
<1>22. CASE Restart
  BY <1>22, <1>c, <1>d DEF Restart
<1>23. CASE Crash
  BY <1>23, <1>c, <1>d DEF Crash
<1>24. CASE UNCHANGED vars
  BY <1>24, <1>a, <1>b DEF vars
<1>25. QED
  BY <1>1, <1>2, <1>3, <1>4, <1>5, <1>6, <1>7, <1>8, <1>9, <1>10, <1>11, <1>12,
     <1>13, <1>14, <1>15, <1>16, <1>17, <1>18, <1>19, <1>20, <1>21, <1>22, <1>23, <1>24
     DEF Next, TaskStep, HandleChunk

\* While a batch is executed, every retry record of a key in it has been read and
\* is over: a quarantined key runs from the retry partition alone, also when its
\* records came from an earlier run, from another batch or twice.
THEOREM QuarantineIsKept == Spec => []QuarantineHolds
<1>1. Init => QuarantineInv
  BY DEF Init, QuarantineInv, AllRead, NoneQuarantined
<1>2. ASSUME TypeOK, QuarantineInv PROVE QuarantineHolds
  <2>1. SUFFICES ASSUME pc = "execute", NEW e \in todo, NEW p \in 1 .. Len(retryLog),
                        KeyOf[e] = RetryKey(p)
                 PROVE  p <= retryNext /\ p \notin pending
    BY DEF QuarantineHolds
  <2>2. p <= retryNext
    BY <1>2, <2>1 DEF QuarantineInv, AllRead
  <2>3. p \notin pending
    BY <1>2, <2>1 DEF QuarantineInv, NoneQuarantined, Quarantined
  <2>4. QED
    BY <2>2, <2>3
<1>3. QED
  BY <1>1, <1>2, StepQuarantineInv, ConsumerTypeOK, PTL DEF Spec
-----------------------------------------------------------------------------
(* The order of the events of a lane, in at-least-once mode.               *)

\* d is an earlier event of the lane of e.
Before(d, e) == d < e /\ {d, e} \cap Bad = {} /\ KeyOf[d] = KeyOf[e] /\ TagOf[d] = TagOf[e]

\* Every earlier event of the lane of a record stands before it, or is in S.
Ordered(log, S) ==
  \A i \in 1 .. Len(log), d \in Event :
    Before(d, log[i]) => d \in S \/ \E j \in 1 .. i - 1 : log[j] = d

InRetryLog == {e \in Event : Occurs(e, retryLog)}

InLaneOrder == \A e \in Settled, d \in Event : Before(d, e) => d \in Settled
RetryInOrder == Ordered(retryLog, Settled)

\* The records collected for a batch, which are of keys that were visited.
EntriesInOrder ==
  pc = "encode" =>
    /\ Ordered(entries, Settled \cup InRetryLog)
    /\ \A i \in 1 .. Len(entries) : KeyOf[entries[i]] \notin running

\* The keys of an attempt, and what was read when keys are still to be encoded.
AttemptKeys == pc = "attempt" => \A x \in todo : RetryKey(x) \in running
ReadWhenEncoding == pc = "encode" /\ running # {} => retryNext = Len(retryLog)

\* What is settled or waits for a retry was published.
WasPublished ==
  /\ Settled \subseteq 1 .. published
  /\ \A p \in 1 .. Len(retryLog) : retryLog[p] <= published

OrderInv ==
  /\ InLaneOrder /\ RetryInOrder /\ EntriesInOrder
  /\ AttemptKeys /\ ReadWhenEncoding /\ WasPublished

\* More may be missing from a log in order when more is known.
LEMMA OrderedMore ==
  ASSUME NEW log, NEW S, NEW T, Ordered(log, S), S \subseteq T
  PROVE  Ordered(log, T)
BY DEF Ordered

\* A log in order, followed by one that needs only what the first one holds.
LEMMA OrderedConcat ==
  ASSUME NEW s \in Seq(Event), NEW t \in Seq(Event), NEW S, NEW T,
         Ordered(s, S), Ordered(t, T),
         \A d \in Event : d \in T => d \in S \/ Occurs(d, s)
  PROVE  Ordered(s \o t, S)
<1>1. /\ Len(s) \in Nat /\ Len(t) \in Nat
      /\ Len(s \o t) = Len(s) + Len(t)
      /\ \A i \in 1 .. Len(s) + Len(t) :
           (s \o t)[i] = IF i <= Len(s) THEN s[i] ELSE t[i - Len(s)]
  BY ConcatProperties, LenProperties
<1>2. SUFFICES ASSUME NEW i \in 1 .. Len(s) + Len(t), NEW d \in Event,
                      Before(d, (s \o t)[i]), d \notin S
               PROVE  \E j \in 1 .. i - 1 : (s \o t)[j] = d
  BY <1>1 DEF Ordered
<1>3. ASSUME NEW j \in 1 .. Len(s), s[j] = d, j < i
      PROVE  \E m \in 1 .. i - 1 : (s \o t)[m] = d
  <2>1. j \in 1 .. i - 1 /\ (s \o t)[j] = d
    BY <1>1, <1>3
  <2>2. QED
    BY <2>1
<1>4. CASE i <= Len(s)
  <2>1. i \in 1 .. Len(s) /\ Before(d, s[i])
    BY <1>1, <1>2, <1>4
  <2>2. PICK j \in 1 .. i - 1 : s[j] = d
    BY <1>2, <2>1 DEF Ordered
  <2>3. j \in 1 .. Len(s) /\ j < i
    BY <1>1, <1>4, <2>2
  <2>4. QED
    BY <1>3, <2>2, <2>3
<1>5. CASE ~ (i <= Len(s))
  <2>1. i - Len(s) \in 1 .. Len(t) /\ Before(d, t[i - Len(s)])
    BY <1>1, <1>2, <1>5
  <2>2. d \in T \/ \E j \in 1 .. i - Len(s) - 1 : t[j] = d
    BY <2>1 DEF Ordered
  <2>3. CASE d \in T
    <3>1. PICK j \in 1 .. Len(s) : s[j] = d
      BY <1>2, <2>3 DEF Occurs
    <3>2. j < i
      BY <1>1, <1>5
    <3>3. QED
      BY <1>3, <3>1, <3>2
  <2>4. ASSUME NEW j \in 1 .. i - Len(s) - 1, t[j] = d
        PROVE  \E m \in 1 .. i - 1 : (s \o t)[m] = d
    <3>1. Len(s) + j \in 1 .. i - 1 /\ (s \o t)[Len(s) + j] = d
      BY <1>1, <1>5, <2>4
    <3>2. QED
      BY <3>1
  <2>5. QED
    BY <2>2, <2>3, <2>4
<1>6. QED
  BY <1>4, <1>5

\* What encode_key writes is in order, given what it does not write.
LEMMA OrderedEncoding ==
  ASSUME NEW S \in SUBSET Event, NEW s \in Encodings(S), NEW T,
         \A e \in S, d \in Event : Before(d, e) => d \in T \/ d \in S
  PROVE  Ordered(s, T)
<1>1. s \in Seq(Event) /\ (\A e \in S : \E i \in 1 .. Len(s) : s[i] = e)
      /\ \A i \in 1 .. Len(s) : s[i] \in S
  BY EncodingsWriteAll, EncodingsWriteOnly
<1>2. \A i, j \in 1 .. Len(s) : i < j => EncodedBefore(s[i], s[j])
  <2>1. s \in [1 .. Cardinality(S) -> S]
    BY DEF Encodings
  <2>2. DOMAIN s = 1 .. Len(s)
    BY <1>1
  <2>3. QED
    BY <2>2 DEF Encodings
<1>3. SUFFICES ASSUME NEW i \in 1 .. Len(s), NEW d \in Event, Before(d, s[i]), d \notin T
               PROVE  \E j \in 1 .. i - 1 : s[j] = d
  BY DEF Ordered
<1>4. PICK j \in 1 .. Len(s) : s[j] = d
  BY <1>1, <1>3
<1>5. Len(s) \in Nat /\ s[i] \in Event
  BY <1>1
<1>6. d \in Nat /\ s[i] \in Nat /\ TagOf[d] \in Nat /\ TagOf[s[i]] = TagOf[d] /\ d < s[i]
  BY <1>3, <1>5, ConsumerAssumption DEF ConsumerAssumption, Event, Before
<1>7. ~ (i < j)
  <2>1. SUFFICES ASSUME i < j PROVE FALSE
    OBVIOUS
  <2>2. EncodedBefore(s[i], d)
    BY <1>2, <1>4, <2>1
  <2>3. QED
    BY <1>6, <2>2 DEF EncodedBefore
<1>8. i # j
  BY <1>4, <1>6
<1>9. j \in 1 .. i - 1
  BY <1>5, <1>7, <1>8
<1>10. QED
  BY <1>4, <1>9

\* In at-least-once mode, what the invariants of nothing lost say.
LEMMA LossParts ==
  ASSUME Mode = "NoEventLose", LossInv
  PROVE  MainSafe /\ RetrySafe /\ CursorCommitted /\ ReadCovered
         /\ AttemptCovered /\ BatchCovered
BY DEF LossInv

\* An earlier event of the lane of one that is not quarantined is settled or in
\* flight, or written just now.
LEMMA EarlierIsKnown ==
  ASSUME Mode = "NoEventLose", TypeOK, LossInv, pc \in {"execute", "encode"},
         retryNext = Len(retryLog),
         NEW e \in mainNext + 1 .. batchEnd, NEW d \in Event, Before(d, e),
         ~ Quarantined(KeyOf[e])
  PROVE  d \in Settled \/ d \in todo \/ (pc = "encode" /\ Occurs(d, entries))
<1>1. MainSafe /\ CursorCommitted /\ ReadCovered /\ BatchCovered
  BY LossParts
<1>2. mainNext \in Nat /\ batchEnd \in Nat /\ d \in Nat \ {0} /\ d < e /\ KeyOf[d] = KeyOf[e]
  BY CursorTypes DEF Event, Before
<1>3. CASE d <= mainNext
  <2>1. d \in 1 .. mainStored
    BY <1>1, <1>2, <1>3 DEF CursorCommitted
  <2>2. d \in Settled \/ \E p \in 1 .. Len(retryLog) : retryLog[p] = d
    BY <1>1, <2>1 DEF MainSafe, Safe, Occurs
  <2>3. ASSUME NEW p \in 1 .. Len(retryLog), retryLog[p] = d
        PROVE  d \in Settled
    BY <1>1, <1>2, <2>3 DEF ReadCovered, Quarantined, RetryKey
  <2>4. QED
    BY <2>2, <2>3
<1>4. CASE ~ (d <= mainNext)
  <2>1. d \in mainNext + 1 .. batchEnd
    BY <1>2, <1>4
  <2>2. ~ Quarantined(KeyOf[d])
    BY <1>2
  <2>3. QED
    BY <1>1, <2>1, <2>2 DEF BatchCovered, Owed
<1>5. QED
  BY <1>3, <1>4

\* A chunk takes the first records of its run.
LEMMA ChunkIsFirst ==
  ASSUME NEW lane, IsFiniteSet(todo), todo \subseteq Nat,
         NEW x \in Chunk(lane), NEW y \in todo, LaneAt(y) = lane, y <= x
  PROVE  y \in Chunk(lane)
<1> DEFINE rest == {z \in todo : LaneAt(z) = lane}
           upTo(z) == {w \in rest : w <= z}
<1>1. x \in rest /\ y \in rest /\ Cardinality(upTo(x)) <= MaxBatch
  BY DEF Chunk
<1>2. upTo(y) \subseteq upTo(x)
  <2>1. ASSUME NEW w \in upTo(y) PROVE w \in upTo(x)
    <3>1. w \in rest /\ w \in Nat /\ y \in Nat /\ x \in Nat /\ w <= y
      BY <1>1, <2>1
    <3>2. QED
      BY <3>1
  <2>2. QED
    BY <2>1
<1>3. IsFiniteSet(upTo(x)) /\ IsFiniteSet(upTo(y))
  <2>1. upTo(x) \subseteq todo /\ upTo(y) \subseteq todo
    OBVIOUS
  <2>2. QED
    BY <2>1, FS_Subset
<1>4. /\ Cardinality(upTo(y)) <= Cardinality(upTo(x))
      /\ Cardinality(upTo(x)) \in Nat /\ Cardinality(upTo(y)) \in Nat
  BY <1>2, <1>3, FS_Subset, FS_CardinalityType
<1>5. Cardinality(upTo(y)) <= MaxBatch
  BY <1>1, <1>4, ConsumerAssumption DEF ConsumerAssumption
<1>6. QED
  BY <1>1, <1>5 DEF Chunk

\* The steps that settle nothing and write nothing to the retry partition.
LEMMA QuietOrder ==
  ASSUME TypeOK, OrderInv, [Next]_vars, published' \in Nat, published <= published',
         Settled' = Settled, retryLog' = retryLog,
         pc' # "encode" \/ UNCHANGED <<pc, entries, running, retryNext>>,
         pc' # "attempt" \/ (UNCHANGED <<pc, running>> /\ todo' \subseteq todo)
  PROVE  OrderInv'
<1>1. InLaneOrder' /\ RetryInOrder'
  BY DEF OrderInv, InLaneOrder, RetryInOrder, Ordered, Before
<1>2. EntriesInOrder'
  BY DEF OrderInv, EntriesInOrder, Ordered, Before, InRetryLog, Occurs
<1>3. AttemptKeys'
  BY DEF OrderInv, AttemptKeys, RetryKey
<1>4. ReadWhenEncoding'
  BY DEF OrderInv, ReadWhenEncoding
<1>5. WasPublished'
  <2>1. published \in Nat /\ \A p \in 1 .. Len(retryLog) : retryLog[p] \in Nat
    BY CursorTypes
  <2>2. Settled' \subseteq 1 .. published'
    BY <2>1 DEF OrderInv, WasPublished
  <2>3. \A p \in 1 .. Len(retryLog) : retryLog[p] <= published'
    BY <2>1 DEF OrderInv, WasPublished
  <2>4. QED
    BY <2>2, <2>3 DEF WasPublished
<1>6. QED
  BY <1>1, <1>2, <1>3, <1>4, <1>5 DEF OrderInv

\* What is left of the invariant when events are settled from the retry partition
\* or from a batch, in the order of their lanes.
LEMMA SettlingOrder ==
  ASSUME TypeOK, OrderInv, [Next]_vars, NEW S \in SUBSET Event, Settled' = Settled \cup S,
         \A e \in S, d \in Event : Before(d, e) => d \in Settled \/ d \in S,
         \A e \in S : e <= published,
         UNCHANGED <<retryLog, published>>
  PROVE  InLaneOrder' /\ RetryInOrder' /\ WasPublished'
<1>1. InLaneOrder'
  BY DEF OrderInv, InLaneOrder, Before
<1>2. RetryInOrder'
  <2>1. Ordered(retryLog, Settled')
    BY OrderedMore DEF OrderInv, RetryInOrder
  <2>2. QED
    BY <2>1 DEF RetryInOrder, Ordered, Before
<1>3. WasPublished'
  <2>1. published \in Nat /\ \A e \in Event : e \in Nat \ {0}
    BY CursorTypes DEF Event
  <2>2. S \subseteq 1 .. published
    BY <2>1
  <2>3. QED
    BY <2>2 DEF OrderInv, WasPublished
<1>4. QED
  BY <1>1, <1>2, <1>3

\* A retry record of a run that is neither first in it nor settled follows one
\* that is still pending.
LEMMA EarlierPending ==
  ASSUME Mode = "NoEventLose", TypeOK, LossInv, OrderInv,
         NEW x \in pending, NEW d \in Event, Before(d, retryLog[x]), d \notin Settled
  PROVE  \E y \in pending : /\ y < x /\ retryLog[y] = d
                            /\ RetryKey(y) = RetryKey(x)
                            /\ TagOf[retryLog[y]] = TagOf[retryLog[x]]
<1>1. x \in 1 .. Len(retryLog) /\ x \in 1 .. retryNext /\ retryNext \in Nat /\ Len(retryLog) \in Nat
  BY CursorTypes DEF TypeOK, TaskOK
<1>2. PICK y \in 1 .. x - 1 : retryLog[y] = d
  BY <1>1 DEF OrderInv, RetryInOrder, Ordered
<1>3. y \in 1 .. retryNext /\ y < x
  BY <1>1, <1>2
<1>4. y \in pending
  BY <1>2, <1>3, LossParts DEF ReadCovered
<1>5. QED
  BY <1>2, <1>3, <1>4 DEF Before, RetryKey

\* A handler call settles the first events of a run that are left.
LEMMA ChunkDoneOrder ==
  ASSUME Mode = "NoEventLose", TypeOK, LossInv, QuarantineInv, OrderInv, [Next]_vars,
         NEW lane \in Lane, ChunkDone(lane)
  PROVE  OrderInv'
<1> DEFINE events == {EventAt(x) : x \in Chunk(lane)}
<1>1. /\ pc' = pc /\ pc \in {"attempt", "execute"} /\ running' = running
      /\ retryLog' = retryLog /\ published' = published
      /\ todo' \subseteq todo /\ Settled' = Settled \cup events
  BY DEF ChunkDone, server, Settled
<1>2. Chunk(lane) \subseteq todo /\ \A x \in Chunk(lane) : LaneAt(x) = lane
  BY DEF Chunk
<1>3. events \in SUBSET Event
  BY <1>1, <1>2, InFlightEvents
<1>4. todo \subseteq Nat /\ IsFiniteSet(todo)
  <2>1. todo \subseteq 1 .. retryNext \/ todo \subseteq mainNext + 1 .. batchEnd
    BY <1>1 DEF TypeOK, TaskOK, WorkOK
  <2>2. retryNext \in Nat /\ mainNext + 1 \in Int /\ batchEnd \in Int
    BY CursorTypes DEF TypeOK, TaskOK
  <2>3. IsFiniteSet(1 .. retryNext) /\ IsFiniteSet(mainNext + 1 .. batchEnd)
    BY <2>2, FS_Interval
  <2>4. QED
    BY <2>1, <2>3, FS_Subset, CursorTypes
<1>5. \A x \in Chunk(lane), y \in todo : LaneAt(y) = lane /\ y <= x => y \in Chunk(lane)
  BY <1>4, ChunkIsFirst
<1>6. CASE pc = "attempt"
  <2>1. \A x \in todo : x \in pending /\ EventAt(x) = retryLog[x]
    BY <1>6 DEF TypeOK, WorkOK, EventAt
  <2>2. ASSUME NEW x \in Chunk(lane), NEW d \in Event, Before(d, retryLog[x]), d \notin Settled
        PROVE  d \in events
    <3>1. x \in todo /\ x \in pending
      BY <1>2, <2>1, <2>2
    <3>2. PICK y \in pending : /\ y < x /\ retryLog[y] = d
                               /\ RetryKey(y) = RetryKey(x)
                               /\ TagOf[retryLog[y]] = TagOf[retryLog[x]]
      BY <2>2, <3>1, EarlierPending
    <3>3. RetryKey(y) \in running
      BY <1>6, <3>1, <3>2 DEF OrderInv, AttemptKeys
    <3>4. y \in todo
      BY <1>6, <2>2, <3>2, <3>3, LossParts DEF AttemptCovered
    <3>5. LaneAt(y) = lane
      <4>1. /\ LaneAt(y) = <<RetryKey(y), TagOf[retryLog[y]]>>
             /\ LaneAt(x) = <<RetryKey(x), TagOf[retryLog[x]]>>
        BY <1>6 DEF LaneAt, EventAt, RetryKey
      <4>2. QED
        BY <1>2, <2>2, <3>2, <4>1
    <3>6. y \in Chunk(lane)
      <4>1. y <= x
        <5>1. x \in Nat /\ y \in Nat
          BY <1>4, <3>1, <3>4
        <5>2. QED
          BY <3>2, <5>1
      <4>2. QED
        BY <1>5, <2>2, <3>4, <3>5, <4>1
    <3>7. QED
      BY <2>1, <3>2, <3>4, <3>6
  <2>3. \A e \in events : e <= published
    <3>1. \A x \in pending : x \in 1 .. Len(retryLog)
      BY DEF TypeOK, ServerOK, TaskOK
    <3>2. QED
      BY <1>2, <2>1, <3>1 DEF OrderInv, WasPublished
  <2>4. \A e \in events, d \in Event : Before(d, e) => d \in Settled \/ d \in events
    BY <1>2, <2>1, <2>2
  <2>5. InLaneOrder' /\ RetryInOrder' /\ WasPublished'
    BY <1>1, <1>3, <2>3, <2>4, SettlingOrder
  <2>6. EntriesInOrder' /\ ReadWhenEncoding'
    BY <1>1, <1>6 DEF EntriesInOrder, ReadWhenEncoding
  <2>7. AttemptKeys'
    BY <1>1, <1>6 DEF OrderInv, AttemptKeys, RetryKey
  <2>8. QED
    BY <2>5, <2>6, <2>7 DEF OrderInv
<1>7. CASE pc = "execute"
  <2>1. events = Chunk(lane) /\ todo \subseteq mainNext + 1 .. batchEnd
    BY <1>7 DEF EventAt, TypeOK, WorkOK
  <2>2. retryNext = Len(retryLog) /\ \A e \in todo : ~ Quarantined(KeyOf[e])
    BY <1>7 DEF QuarantineInv, AllRead, NoneQuarantined
  <2>3. ASSUME NEW e \in Chunk(lane), NEW d \in Event, Before(d, e), d \notin Settled
        PROVE  d \in Chunk(lane)
    <3>1. e \in todo /\ e \in mainNext + 1 .. batchEnd
      BY <1>2, <2>1, <2>3
    <3>2. d \in todo
      BY <1>7, <2>2, <2>3, <3>1, EarlierIsKnown
    <3>3. LaneAt(d) = lane /\ d <= e
      <4>1. LaneAt(d) = <<KeyOf[d], TagOf[d]>> /\ LaneAt(e) = <<KeyOf[e], TagOf[e]>>
        BY <1>7 DEF LaneAt, EventAt
      <4>2. d \in Nat /\ e \in Nat
        BY <1>4, <3>1, <3>2
      <4>3. QED
        BY <1>2, <2>3, <4>1, <4>2 DEF Before
    <3>4. QED
      BY <1>5, <2>3, <3>2, <3>3
  <2>4. \A e \in events : e <= published
    <3>1. batchEnd \in 0 .. published /\ mainNext \in Nat /\ published \in Nat
      BY CursorTypes DEF TypeOK, WorkOK
    <3>2. \A e \in mainNext + 1 .. batchEnd : e <= published
      BY <3>1
    <3>3. events \subseteq mainNext + 1 .. batchEnd
      BY <1>2, <2>1
    <3>4. QED
      BY <3>2, <3>3
  <2>5. InLaneOrder' /\ RetryInOrder' /\ WasPublished'
    BY <1>1, <1>3, <2>1, <2>3, <2>4, SettlingOrder
  <2>6. EntriesInOrder' /\ ReadWhenEncoding' /\ AttemptKeys'
    BY <1>1, <1>7 DEF EntriesInOrder, ReadWhenEncoding, AttemptKeys
  <2>7. QED
    BY <2>5, <2>6 DEF OrderInv
<1>8. QED
  BY <1>1, <1>6, <1>7

\* A run is given up with every earlier record of it that is still pending.
LEMMA FinishAttemptsOrder ==
  ASSUME Mode = "NoEventLose", TypeOK, LossInv, OrderInv, [Next]_vars, FinishAttempts
  PROVE  OrderInv'
<1> DEFINE givenUp == {k \in {lane[1] : lane \in failed} : LastAttempt(k)}
           discarded == {p \in pending : RetryKey(p) \in givenUp /\ LaneAt(p) \in failed}
           lostEvents == {retryLog[p] : p \in discarded}
<1>1. /\ pc = "attempt" /\ pc' = "commit" /\ retryLog' = retryLog /\ published' = published
      /\ Settled' = Settled \cup lostEvents
  BY DEF FinishAttempts, server, Settled
<1>2. \A p \in pending : p \in 1 .. Len(retryLog) /\ retryLog[p] \in Event
  BY DEF TypeOK, ServerOK, TaskOK
<1>3. \A p \in pending : LaneAt(p) = <<RetryKey(p), TagOf[retryLog[p]]>>
  BY <1>1 DEF LaneAt, EventAt, RetryKey
<1>4. ASSUME NEW p \in discarded, NEW d \in Event, Before(d, retryLog[p]), d \notin Settled
      PROVE  d \in lostEvents
  <2>1. PICK y \in pending : /\ y < p /\ retryLog[y] = d
                             /\ RetryKey(y) = RetryKey(p)
                             /\ TagOf[retryLog[y]] = TagOf[retryLog[p]]
    BY <1>4, EarlierPending
  <2>2. LaneAt(y) = LaneAt(p)
    BY <1>3, <1>4, <2>1
  <2>3. y \in discarded
    BY <1>4, <2>1, <2>2
  <2>4. QED
    BY <2>1, <2>3
<1>5. lostEvents \in SUBSET Event /\ \A e \in lostEvents : e <= published
  BY <1>2 DEF OrderInv, WasPublished
<1>6. InLaneOrder' /\ RetryInOrder' /\ WasPublished'
  BY <1>1, <1>4, <1>5, SettlingOrder
<1>7. EntriesInOrder' /\ AttemptKeys' /\ ReadWhenEncoding'
  BY <1>1 DEF EntriesInOrder, AttemptKeys, ReadWhenEncoding
<1>8. QED
  BY <1>6, <1>7 DEF OrderInv

\* A record whose headers cannot be parsed is of no lane.
LEMMA StartBatchOrder ==
  ASSUME TypeOK, OrderInv, [Next]_vars, StartBatch
  PROVE  OrderInv'
<1> DEFINE bad == (mainNext + 1 .. batchEnd) \cap Bad
<1>1. /\ pc' = "execute" /\ retryLog' = retryLog /\ published' = published
      /\ Settled' = Settled \cup bad
  BY DEF StartBatch, server, Settled
<1>2. bad \in SUBSET Event /\ \A e \in bad : e <= published
  <2>1. batchEnd \in 0 .. published /\ mainNext \in Nat /\ published \in Nat
    BY CursorTypes DEF TypeOK, WorkOK
  <2>2. \A e \in mainNext + 1 .. batchEnd : e <= published
    BY <2>1
  <2>3. QED
    BY <2>2, BatchEvents
<1>3. \A e \in bad, d \in Event : ~ Before(d, e)
  BY DEF Before
<1>4. InLaneOrder' /\ RetryInOrder' /\ WasPublished'
  BY <1>1, <1>2, <1>3, SettlingOrder
<1>5. EntriesInOrder' /\ AttemptKeys' /\ ReadWhenEncoding'
  BY <1>1 DEF EntriesInOrder, AttemptKeys, ReadWhenEncoding
<1>6. QED
  BY <1>4, <1>5 DEF OrderInv

\* Records of one key are written after those of the keys visited before.
LEMMA WriteKeyOrder ==
  ASSUME TypeOK, OrderInv, pc = "encode", pc' = "encode", retryLog' = retryLog,
         Settled \subseteq Settled',
         NEW k \in running, running' = running \ {k},
         NEW S \in SUBSET Event, \A e \in S : KeyOf[e] = k,
         \A e \in S, d \in Event : Before(d, e) => d \in Settled \cup InRetryLog \/ d \in S,
         NEW s \in Encodings(S), entries' = entries \o s
  PROVE  EntriesInOrder'
<1> DEFINE known == Settled \cup InRetryLog
<1>1. s \in Seq(Event) /\ entries \in Seq(Event) /\ \A i \in 1 .. Len(s) : s[i] \in S
  BY EncodingsWriteAll, EncodingsWriteOnly, CursorTypes
<1>2. Ordered(s, known)
  <2>1. \A e \in S, d \in Event : Before(d, e) => d \in known \/ d \in S
    OBVIOUS
  <2>2. QED
    BY <2>1, OrderedEncoding
<1>3. Ordered(entries, known)
  BY DEF OrderInv, EntriesInOrder
<1>4. Ordered(entries \o s, known)
  BY <1>1, <1>2, <1>3, OrderedConcat
<1>5. known \subseteq Settled' \cup InRetryLog'
  BY DEF InRetryLog, Occurs
<1>6. Ordered(entries', Settled' \cup InRetryLog')
  BY <1>4, <1>5, OrderedMore
<1>7. \A i \in 1 .. Len(entries') : KeyOf[entries'[i]] \notin running'
  <2>1. /\ Len(entries) \in Nat /\ Len(s) \in Nat /\ Len(entries \o s) = Len(entries) + Len(s)
        /\ \A i \in 1 .. Len(entries) + Len(s) :
             (entries \o s)[i] = IF i <= Len(entries) THEN entries[i] ELSE s[i - Len(entries)]
    BY <1>1, ConcatProperties, LenProperties
  <2>2. SUFFICES ASSUME NEW i \in 1 .. Len(entries) + Len(s)
                 PROVE  KeyOf[(entries \o s)[i]] \notin running'
    BY <2>1
  <2>3. CASE i <= Len(entries)
    <3>1. i \in 1 .. Len(entries) /\ (entries \o s)[i] = entries[i]
      BY <2>1, <2>3
    <3>2. QED
      BY <3>1 DEF OrderInv, EntriesInOrder
  <2>4. CASE ~ (i <= Len(entries))
    <3>1. i - Len(entries) \in 1 .. Len(s) /\ (entries \o s)[i] = s[i - Len(entries)]
      BY <2>1, <2>4
    <3>2. KeyOf[s[i - Len(entries)]] = k
      BY <1>1, <3>1
    <3>3. QED
      BY <3>1, <3>2
  <2>5. QED
    BY <2>3, <2>4
<1>8. QED
  BY <1>6, <1>7 DEF EntriesInOrder, Ordered, Before, InRetryLog, Occurs

\* A key is diverted or retried with everything of it that is left, and dropped
\* only when nothing of it waits.
LEMMA EncodeKeyOrder ==
  ASSUME Mode = "NoEventLose", TypeOK, LossInv, OrderInv, EntriesReached, [Next]_vars,
         NEW k \in Key, EncodeKey(k)
  PROVE  OrderInv'
<1>1. /\ pc = "encode" /\ pc' = "encode" /\ retryLog' = retryLog /\ published' = published
      /\ k \in running /\ running' = running \ {k} /\ retryNext' = retryNext
  BY DEF EncodeKey, DivertKey, RetryFailedKey, DropFailedKey, SkipFinishedKey, NextKey,
         KeyVisited, server, cursors
<1>2. retryNext = Len(retryLog)
  BY <1>1 DEF OrderInv, ReadWhenEncoding
<1>3. AttemptKeys' /\ ReadWhenEncoding'
  BY <1>1, <1>2 DEF AttemptKeys, ReadWhenEncoding
<1>4. todo \subseteq mainNext + 1 .. batchEnd /\ mainNext \in Nat /\ batchEnd \in Nat
  BY <1>1, CursorTypes DEF TypeOK, WorkOK
<1>5. ASSUME NEW d \in Event, KeyOf[d] = k PROVE ~ Occurs(d, entries)
  BY <1>1, <1>5 DEF OrderInv, EntriesInOrder, Occurs
<1>6. Settled \subseteq Settled'
  BY StepGrows
\* A step that settles nothing.
<1>7. ASSUME Settled' = Settled PROVE InLaneOrder' /\ RetryInOrder' /\ WasPublished'
  BY <1>1, <1>7
     DEF OrderInv, InLaneOrder, RetryInOrder, WasPublished, Ordered, Before
\* What is earlier in a lane of an unhandled event is unhandled too.
<1>8. ASSUME ~ Quarantined(k), NEW e \in Unhandled(k), NEW d \in Event, Before(d, e)
      PROVE  d \in Settled \/ d \in Unhandled(k)
  <2>1. e \in todo /\ e \in mainNext + 1 .. batchEnd /\ KeyOf[e] = k /\ KeyOf[d] = k
    BY <1>4, <1>8 DEF Unhandled, Before
  <2>2. d \in Settled \/ d \in todo \/ Occurs(d, entries)
    BY <1>1, <1>2, <1>8, <2>1, EarlierIsKnown
  <2>3. QED
    BY <1>5, <2>1, <2>2 DEF Unhandled
<1>9. CASE DivertKey(k)
  <2> DEFINE S == {e \in Batch : KeyOf[e] = k}
  <2>1. Settled' = Settled
    BY <1>9 DEF DivertKey, KeyVisited, Settled
  <2>2. PICK s \in Encodings(S) : entries' = entries \o s
    BY <1>9 DEF DivertKey
  <2>3. S \in SUBSET Event
    BY BatchEvents
  <2>4. ASSUME NEW e \in S, NEW d \in Event, Before(d, e)
        PROVE  d \in Settled \cup InRetryLog \/ d \in S
    <3>1. d \in Nat \ {0} /\ e \in mainNext + 1 .. batchEnd /\ d < e /\ d \notin Bad /\ KeyOf[d] = k
      BY <2>4, CursorTypes DEF Batch, Before, Event
    <3>2. CASE d <= mainNext
      <4>1. d \in 1 .. mainStored
        BY <1>1, <1>4, <3>1, <3>2, LossParts DEF CursorCommitted
      <4>2. QED
        BY <2>4, <4>1, LossParts DEF MainSafe, Safe, InRetryLog
    <3>3. CASE ~ (d <= mainNext)
      <4>1. d \in mainNext + 1 .. batchEnd
        BY <1>4, <3>1, <3>3
      <4>2. QED
        BY <3>1, <4>1 DEF Batch
    <3>4. QED
      BY <3>2, <3>3
  <2>5. EntriesInOrder'
    BY <1>1, <1>6, <2>2, <2>3, <2>4, WriteKeyOrder
  <2>6. QED
    BY <1>3, <1>7, <2>1, <2>5 DEF OrderInv
<1>10. CASE RetryFailedKey(k)
  <2>1. Settled' = Settled /\ ~ Quarantined(k)
    BY <1>10 DEF RetryFailedKey, KeyVisited, Settled
  <2>2. PICK s \in Encodings(Unhandled(k)) : entries' = entries \o s
    BY <1>10 DEF RetryFailedKey
  <2>3. Unhandled(k) \in SUBSET Event /\ \A e \in Unhandled(k) : KeyOf[e] = k
    BY <1>1, UnhandledEvents DEF Unhandled
  <2>4. \A e \in Unhandled(k), d \in Event :
          Before(d, e) => d \in Settled \cup InRetryLog \/ d \in Unhandled(k)
    BY <1>8, <2>1
  <2>5. EntriesInOrder'
    BY <1>1, <1>6, <2>2, <2>3, <2>4, WriteKeyOrder
  <2>6. QED
    BY <1>3, <1>7, <2>1, <2>5 DEF OrderInv
<1>11. ASSUME entries' = entries PROVE EntriesInOrder'
  <2>1. Ordered(entries, Settled \cup InRetryLog)
    BY <1>1 DEF OrderInv, EntriesInOrder
  <2>2. Settled \cup InRetryLog \subseteq Settled' \cup InRetryLog'
    BY <1>1, <1>6 DEF InRetryLog, Occurs
  <2>3. Ordered(entries, Settled' \cup InRetryLog')
    BY <2>1, <2>2, OrderedMore
  <2>4. \A i \in 1 .. Len(entries) : KeyOf[entries[i]] \notin running'
    BY <1>1 DEF OrderInv, EntriesInOrder
  <2>5. QED
    BY <1>11, <2>3, <2>4 DEF EntriesInOrder, Ordered, Before, InRetryLog, Occurs
<1>12. CASE DropFailedKey(k)
  <2>1. Settled' = Settled \cup Unhandled(k) /\ ~ Quarantined(k) /\ entries' = entries
    BY <1>12 DEF DropFailedKey, KeyVisited, Settled
  <2>2. Unhandled(k) \in SUBSET Event
    BY <1>1, UnhandledEvents
  <2>3. \A e \in Unhandled(k) : e <= published
    <3>1. batchEnd <= published /\ published \in Nat
      BY CursorTypes DEF TypeOK, WorkOK
    <3>2. \A e \in mainNext + 1 .. batchEnd : e <= published
      BY <1>4, <3>1
    <3>3. Unhandled(k) \subseteq mainNext + 1 .. batchEnd
      BY <1>4 DEF Unhandled
    <3>4. QED
      BY <3>2, <3>3
  <2>4. InLaneOrder' /\ RetryInOrder' /\ WasPublished'
    BY <1>1, <1>8, <2>1, <2>2, <2>3, SettlingOrder
  <2>5. QED
    BY <1>3, <1>11, <2>1, <2>4 DEF OrderInv
<1>13. CASE SkipFinishedKey(k)
  <2>1. Settled' = Settled /\ entries' = entries
    BY <1>13 DEF SkipFinishedKey, KeyVisited, Settled
  <2>2. QED
    BY <1>3, <1>7, <1>11, <2>1 DEF OrderInv
<1>14. QED
  BY <1>9, <1>10, <1>12, <1>13 DEF EncodeKey

\* The records of a batch are appended, once or, when an answer is lost, again.
LEMMA SendOrder ==
  ASSUME TypeOK, OrderInv, EntriesReached, [Next]_vars, SendRetry \/ SendRetryUnacknowledged
  PROVE  OrderInv'
<1>1. /\ pc = "encode" /\ running = {} /\ retryLog' = retryLog \o entries
      /\ published' = published /\ Settled' = Settled /\ running' = running
      /\ (pc' \in {"store", "drain"} \/ (pc' = pc /\ entries' = entries))
  BY DEF SendRetry, SendRetryUnacknowledged, server, work, history, Settled
<1>2. retryLog \in Seq(Event) /\ entries \in Seq(Event)
  BY CursorTypes
<1>3. InLaneOrder'
  BY <1>1 DEF OrderInv, InLaneOrder, Before
<1>4. RetryInOrder'
  <2>1. Ordered(retryLog, Settled) /\ Ordered(entries, Settled \cup InRetryLog)
    BY <1>1 DEF OrderInv, RetryInOrder, EntriesInOrder
  <2>2. \A d \in Event : d \in Settled \cup InRetryLog => d \in Settled \/ Occurs(d, retryLog)
    BY DEF InRetryLog
  <2>3. Ordered(retryLog \o entries, Settled)
    BY <1>2, <2>1, <2>2, OrderedConcat
  <2>4. QED
    BY <1>1, <2>3 DEF RetryInOrder, Ordered, Before
<1>5. EntriesInOrder'
  <2>1. CASE pc' = pc /\ entries' = entries
    <3>1. InRetryLog \subseteq InRetryLog'
      BY <1>1, <1>2, OccursInConcat DEF InRetryLog, Occurs
    <3>2. Ordered(entries, Settled \cup InRetryLog)
      BY <1>1 DEF OrderInv, EntriesInOrder
    <3>3. Ordered(entries, Settled' \cup InRetryLog')
      BY <1>1, <3>1, <3>2, OrderedMore
    <3>4. QED
      BY <1>1, <2>1, <3>3 DEF EntriesInOrder, Ordered, Before, InRetryLog, Occurs
  <2>2. QED
    BY <1>1, <2>1 DEF EntriesInOrder
<1>6. AttemptKeys' /\ ReadWhenEncoding'
  BY <1>1 DEF AttemptKeys, ReadWhenEncoding
<1>7. WasPublished'
  <2>1. batchEnd <= published /\ batchEnd \in Nat /\ published \in Nat
    BY CursorTypes DEF TypeOK, WorkOK
  <2>2. \A i \in 1 .. Len(entries) : entries[i] <= batchEnd /\ entries[i] \in Nat
    <3>1. \A i \in 1 .. Len(entries) : entries[i] \in Event
      BY <1>2
    <3>2. QED
      BY <1>1, <3>1, CursorTypes DEF EntriesReached
  <2>3. \A i \in 1 .. Len(entries) : entries[i] <= published
    BY <2>1, <2>2
  <2>4. \A i \in 1 .. Len(retryLog) : retryLog[i] <= published
    BY DEF OrderInv, WasPublished
  <2>5. \A i \in 1 .. Len(retryLog \o entries) : (retryLog \o entries)[i] <= published
    BY <1>2, <2>3, <2>4, BoundOfConcat
  <2>6. QED
    BY <1>1, <2>5 DEF OrderInv, WasPublished
<1>8. QED
  BY <1>3, <1>4, <1>5, <1>6, <1>7 DEF OrderInv

\* Nothing is settled or written at the start.
LEMMA InitOrderInv == Init => OrderInv
BY DEF Init, OrderInv, InLaneOrder, RetryInOrder, EntriesInOrder, Ordered, AttemptKeys,
       ReadWhenEncoding, WasPublished, Settled

\* Only a producer publishes, one event after the other, and that settles none.
LEMMA PublishOrNot ==
  ASSUME TypeOK, [Next]_vars
  PROVE  published' = published \/ (Publish /\ Settled' = Settled)
BY DEF Next, vars, bounds, server, cursors, retries, work, history, TaskStep, HandleChunk,
       Publish, Boot, DrainRetry, DrainDone, StartAttempts, ChunkDone, RunFailed,
       FinishAttempts, CommitRetry, PollMain, PollNothing, Claim, StartBatch, FinishBatch,
       EncodeKey, DivertKey, RetryFailedKey, DropFailedKey, SkipFinishedKey, KeyVisited,
       SendRetry, StoreMain, StopTask, Elapse, SendRetryUnacknowledged, RequestStop, Restart,
       Crash, Settled

\* Every step of any actor keeps the order of the lanes.
LEMMA StepOrderInv ==
  ASSUME Mode = "NoEventLose", TypeOK, LossInv, QuarantineInv, CursorInv, OrderInv, [Next]_vars
  PROVE  OrderInv'
<1> USE DEF server, cursors, retries, work, history, bounds
<1>a. published' \in Nat /\ published <= published'
  <2>1. published \in Nat
    BY CursorTypes
  <2>2. QED
    BY <2>1, PublishOrNot DEF Publish
\* A step to a phase that holds no records, or that leaves them alone.
<1>b. ASSUME Settled' = Settled, retryLog' = retryLog, pc' \notin {"encode", "attempt"}
      PROVE  OrderInv'
  BY <1>a, <1>b, QuietOrder
<1>c. ASSUME Settled' = Settled, retryLog' = retryLog,
             UNCHANGED <<pc, entries, running, todo, retryNext>>
      PROVE  OrderInv'
  BY <1>a, <1>c, QuietOrder
<1>1. CASE Publish
  BY <1>1, <1>c DEF Publish, Settled
<1>2. CASE Boot
  BY <1>2, <1>b DEF Boot, Settled
<1>3. CASE DrainRetry
  <2>1. pc' = "drain" /\ retryLog' = retryLog /\ Settled' = Settled
    BY <1>3 DEF DrainRetry, Settled
  <2>2. QED
    BY <2>1, <1>b
<1>4. CASE DrainDone
  BY <1>4, <1>b DEF DrainDone, Settled
<1>5. ASSUME NEW k \in Key, Elapse(k) PROVE OrderInv'
  BY <1>5, <1>c DEF Elapse, Settled
<1>6. CASE StartAttempts
  <2>1. /\ retryLog' = retryLog /\ Settled' = Settled /\ published' = published
        /\ pc' # "encode" /\ running' = due /\ todo' = {p \in pending : RetryKey(p) \in due}
    BY <1>6 DEF StartAttempts, Settled
  <2>2. AttemptKeys'
    BY <2>1 DEF AttemptKeys, RetryKey
  <2>3. EntriesInOrder' /\ ReadWhenEncoding'
    BY <2>1 DEF EntriesInOrder, ReadWhenEncoding
  <2>4. InLaneOrder' /\ RetryInOrder' /\ WasPublished'
    BY <2>1 DEF OrderInv, InLaneOrder, RetryInOrder, WasPublished, Ordered, Before
  <2>5. QED
    BY <2>2, <2>3, <2>4 DEF OrderInv
<1>7. ASSUME NEW lane \in Lane, ChunkDone(lane) PROVE OrderInv'
  BY <1>7, ChunkDoneOrder
<1>8. ASSUME NEW lane \in Lane, RunFailed(lane) PROVE OrderInv'
  BY <1>8, <1>c DEF RunFailed, Settled
<1>9. CASE FinishAttempts
  BY <1>9, FinishAttemptsOrder
<1>10. CASE CommitRetry
  <2>1. pc' = "poll" /\ retryLog' = retryLog /\ Settled' = Settled
    BY <1>10 DEF CommitRetry, Settled
  <2>2. QED
    BY <2>1, <1>b
<1>11. CASE PollMain
  BY <1>11, <1>b DEF PollMain, Settled
<1>12. CASE PollNothing
  BY <1>12, <1>b DEF PollNothing, Settled
<1>13. CASE Claim
  BY <1>13, <1>b DEF Claim, Settled
<1>14. CASE StartBatch
  BY <1>14, StartBatchOrder
<1>15. CASE FinishBatch
  <2>1. /\ pc = "execute" /\ pc' = "encode" /\ retryLog' = retryLog /\ Settled' = Settled
        /\ published' = published /\ entries' = <<>> /\ retryNext' = retryNext
    BY <1>15 DEF FinishBatch, Settled
  <2>2. EntriesInOrder' /\ AttemptKeys'
    BY <2>1 DEF EntriesInOrder, Ordered, AttemptKeys
  <2>3. ReadWhenEncoding'
    BY <2>1 DEF QuarantineInv, AllRead, ReadWhenEncoding
  <2>4. InLaneOrder' /\ RetryInOrder' /\ WasPublished'
    BY <2>1 DEF OrderInv, InLaneOrder, RetryInOrder, WasPublished, Ordered, Before
  <2>5. QED
    BY <2>2, <2>3, <2>4 DEF OrderInv
<1>16. ASSUME NEW k \in Key, EncodeKey(k) PROVE OrderInv'
  BY <1>16, EncodeKeyOrder DEF CursorInv
<1>17. CASE SendRetry
  BY <1>17, SendOrder DEF CursorInv
<1>18. CASE SendRetryUnacknowledged
  BY <1>18, SendOrder DEF CursorInv
<1>19. CASE StoreMain
  BY <1>19, <1>b DEF StoreMain, Settled
<1>20. CASE RequestStop
  BY <1>20, <1>c DEF RequestStop, Settled
<1>21. CASE StopTask
  BY <1>21, <1>b DEF StopTask, Settled
<1>22. CASE Restart
  BY <1>22, <1>b DEF Restart, Settled
<1>23. CASE Crash
  BY <1>23, <1>b DEF Crash, Settled
<1>24. CASE UNCHANGED vars
  BY <1>24, <1>c DEF vars, Settled
<1>25. QED
  BY <1>1, <1>2, <1>3, <1>4, <1>5, <1>6, <1>7, <1>8, <1>9, <1>10, <1>11, <1>12,
     <1>13, <1>14, <1>15, <1>16, <1>17, <1>18, <1>19, <1>20, <1>21, <1>22, <1>23, <1>24
     DEF Next, TaskStep, HandleChunk

\* Everything that is known of a state in at-least-once mode.
KnownInv == TypeOK /\ LossInv /\ QuarantineInv /\ CursorInv /\ OrderInv

\* It holds in every state.
LEMMA KnownInvariant ==
  ASSUME Mode = "NoEventLose"
  PROVE  Spec => []KnownInv
<1>1. Init => KnownInv
  BY InitTypeOK, InitLossInv, InitCursorInv, InitOrderInv
     DEF KnownInv, Init, QuarantineInv, AllRead, NoneQuarantined
<1>2. KnownInv /\ [Next]_vars => KnownInv'
  BY StepTypeOK, StepLossInv, StepQuarantineInv, StepCursorInv, StepOrderInv DEF KnownInv
<1>3. QED
  BY <1>1, <1>2, PTL DEF Spec

\* A step that settles events settles a set that the promise allows.
LEMMA StepDelivers ==
  ASSUME TypeOK, KnownInv', [Next]_vars
  PROVE  [Delivery!Next]_Delivery!vars
<1>1. CASE Settled' = Settled
  BY <1>1, PublishOrNot DEF Publish, Delivery!Next, Delivery!Publish, Delivery!vars
<1>2. CASE Settled' # Settled
  <2> DEFINE S == Settled' \ Settled
  <2>1. published' = published /\ Settled \subseteq Settled'
    BY <1>2, PublishOrNot, StepGrows
  <2>2. S \in SUBSET (1 .. published) /\ S # {} /\ S \cap Settled = {} /\ Settled' = Settled \cup S
    BY <1>2, <2>1 DEF KnownInv, OrderInv, WasPublished
  <2>3. ASSUME NEW e \in S, NEW d \in Event, Delivery!Precedes(d, e)
        PROVE  d \in Settled \cup S
    <3>1. e \in Event /\ e \in Settled'
      BY <2>2 DEF KnownInv, TypeOK, HistoryOK, Settled
    <3>2. Before(d, e)'
      BY <2>3, <3>1 DEF Delivery!Precedes, Before
    <3>3. d \in Settled'
      BY <3>1, <3>2 DEF KnownInv, OrderInv, InLaneOrder
    <3>4. QED
      BY <3>3
  <2>4. Delivery!Settle(S)
    BY <2>1, <2>2, <2>3 DEF Delivery!Settle, Delivery!Event, Event
  <2>5. QED
    BY <2>2, <2>4 DEF Delivery!Next
<1>3. QED
  BY <1>1, <1>2

\* In at-least-once mode the offsets, the retry partition and the quarantine
\* implement the promise of KeyedDelivery, whatever fails, stops, crashes or is
\* written twice: every event is settled once, and no later than an event that
\* follows it in its lane.
THEOREM ConsumerImplementsDelivery ==
  ASSUME Mode = "NoEventLose"
  PROVE  Spec => ImplementsDelivery
<1>1. Init => Delivery!Init
  BY DEF Init, Delivery!Init, Settled
<1>2. KnownInv /\ KnownInv' /\ [Next]_vars => [Delivery!Next]_Delivery!vars
  BY StepDelivers DEF KnownInv
<1>3. QED
  BY <1>1, <1>2, KnownInvariant, PTL DEF Spec, ImplementsDelivery, Delivery!Spec

\* In at-least-once mode nothing is settled for the first time after a later
\* event of its lane, through retries, diversions, crashes and restarts.
THEOREM LanesKeepOrder ==
  ASSUME Mode = "NoEventLose"
  PROVE  Spec => SettledInOrder
<1>1. ASSUME KnownInv, NEW d \in Settled' \ Settled, NEW e \in Settled, d \in Event,
             KeyOf[d] = KeyOf[e], TagOf[d] = TagOf[e], {d, e} \cap Bad = {}
      PROVE  e < d
  <2>1. d \in Nat /\ e \in Nat /\ d # e
    BY <1>1 DEF KnownInv, TypeOK, HistoryOK, Settled, Event
  <2>2. ~ Before(d, e)
    BY <1>1 DEF KnownInv, OrderInv, InLaneOrder
  <2>3. QED
    BY <1>1, <2>1, <2>2 DEF Before
<1>2. KnownInv /\ KnownInv' /\ [Next]_vars =>
        [\A d \in Settled' \ Settled, e \in Settled :
           KeyOf[d] = KeyOf[e] /\ TagOf[d] = TagOf[e] /\ {d, e} \cap Bad = {}
             => e < d]_<<applied, dropped>>
  <2>1. SUFFICES ASSUME KnownInv, KnownInv'
                 PROVE  \A d \in Settled' \ Settled, e \in Settled :
                          KeyOf[d] = KeyOf[e] /\ TagOf[d] = TagOf[e] /\ {d, e} \cap Bad = {}
                            => e < d
    OBVIOUS
  <2>2. \A d \in Settled' : d \in Event
    BY <2>1 DEF KnownInv, TypeOK, HistoryOK, Settled
  <2>3. QED
    BY <1>1, <2>1, <2>2
<1>3. QED
  BY <1>2, KnownInvariant, PTL DEF Spec, SettledInOrder
=============================================================================
