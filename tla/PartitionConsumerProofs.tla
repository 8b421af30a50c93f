---------------------- MODULE PartitionConsumerProofs ----------------------
(***************************************************************************)
(* Theorems about PartitionConsumer, for every number of events, every     *)
(* assignment of keys and types, every configuration and any number of     *)
(* crashes, shutdowns and lost acknowledgements.                           *)
(***************************************************************************)
EXTENDS PartitionConsumer, FiniteSetTheorems, SequenceTheorems, TLAPS

-----------------------------------------------------------------------------
(* The retry records written for a set of events.                          *)

\* encode_key writes every unfinished event of a key, and nothing else.
LEMMA EncodingsWriteAll ==
  ASSUME NEW S \in SUBSET Event, NEW s \in Encodings(S)
  PROVE  /\ s \in Seq(Event)
         /\ \A e \in S : \E i \in 1 .. Len(s) : s[i] = e
<1>1. Cardinality(S) \in Nat
  <2>1. IsFiniteSet(Event)
    BY ConsumerAssumption, FS_Interval DEF Event, ConsumerAssumption
  <2>2. QED
    BY <2>1, FS_Subset, FS_CardinalityType
<1>2. s \in [1 .. Cardinality(S) -> S] /\ \A e \in S : \E i \in DOMAIN s : s[i] = e
  BY DEF Encodings
<1>3. s \in Seq(S) /\ Len(s) = Cardinality(S)
  BY <1>1, <1>2
<1>4. QED
  BY <1>2, <1>3
-----------------------------------------------------------------------------
(* Type correctness.                                                       *)

\* Every event has a key.
LEMMA KeysOfEvents ==
  ASSUME NEW e \in Event
  PROVE  KeyOf[e] \in Key
BY DEF Key

\* A consumer starts well-typed.
LEMMA InitTypeOK == Init => TypeOK
<1> SUFFICES ASSUME Init PROVE TypeOK
  OBVIOUS
<1> USE ConsumerAssumption DEF Init, ConsumerAssumption
<1>1. ServerOK  BY DEF ServerOK
<1>2. ControlOK  BY DEF ControlOK, Phase
<1>3. TaskOK  BY DEF TaskOK
<1>4. WorkOK  BY DEF WorkOK
<1>5. HistoryOK  BY DEF HistoryOK
<1>6. QED
  BY <1>1, <1>2, <1>3, <1>4, <1>5 DEF TypeOK

\* What the handlers are called with are events.
LEMMA InFlightEvents ==
  ASSUME TypeOK, pc \in {"attempt", "execute"}, NEW x \in todo
  PROVE  EventAt(x) \in Event
<1>1. CASE pc = "attempt"
  BY <1>1 DEF TypeOK, ServerOK, TaskOK, WorkOK, EventAt
<1>2. CASE pc = "execute"
  BY <1>2, ConsumerAssumption
     DEF ConsumerAssumption, TypeOK, ServerOK, TaskOK, WorkOK, EventAt, Event
<1>3. QED
  BY <1>1, <1>2

\* Parsed records of the main batch are events, and so is what is left of a key.
LEMMA BatchEvents ==
  ASSUME TypeOK
  PROVE  /\ mainNext + 1 .. batchEnd \subseteq Event
         /\ Batch \subseteq Event
BY ConsumerAssumption
   DEF ConsumerAssumption, TypeOK, ServerOK, TaskOK, WorkOK, Batch, Event

\* What is left of a key to encode are events of the batch.
LEMMA UnhandledEvents ==
  ASSUME TypeOK, pc = "encode", NEW k
  PROVE  Unhandled(k) \subseteq Event
<1>1. todo \subseteq mainNext + 1 .. batchEnd
  BY DEF TypeOK, WorkOK
<1>2. QED
  BY <1>1, BatchEvents DEF Unhandled

\* No step of any actor leaves the types.
LEMMA StepTypeOK == TypeOK /\ [Next]_vars => TypeOK'
<1> SUFFICES ASSUME TypeOK, [Next]_vars
             PROVE  TypeOK'
  OBVIOUS
<1> USE ConsumerAssumption DEF ConsumerAssumption, TypeOK, server, cursors,
        retries, work, history, bounds
<1>1. CASE Publish
  BY <1>1 DEF Publish, ServerOK, ControlOK, TaskOK, WorkOK, HistoryOK, Phase
<1>2. CASE Boot
  BY <1>2 DEF Boot, ServerOK, ControlOK, TaskOK, WorkOK, HistoryOK, Phase
<1>3. CASE DrainRetry
  <2> USE <1>3 DEF DrainRetry
  <2>1. ServerOK'
    <3>1. Least(retryNext + PollCount, Len(retryLog)) \in 0 .. Len(retryLog)
      BY DEF Least, ServerOK, TaskOK
    <3>2. QED
      BY <3>1 DEF ServerOK
  <2>2. ControlOK'
    BY DEF ControlOK, Phase
  <2>3. TaskOK'
    <3> DEFINE last == Least(retryNext + PollCount, Len(retryLog))
    <3>1. last \in retryNext .. Len(retryLog)
      BY DEF Least, ServerOK, TaskOK
    <3>2. retryNext' = last /\ pending' = pending \cup (retryNext + 1 .. last)
      OBVIOUS
    <3>3. {RetryKey(p) : p \in retryNext + 1 .. last} \subseteq Key
      <4>1. ASSUME NEW p \in retryNext + 1 .. last PROVE RetryKey(p) \in Key
        <5>1. p \in 1 .. Len(retryLog)
          BY <3>1, <4>1 DEF ServerOK, TaskOK
        <5>2. QED
          BY <5>1, KeysOfEvents DEF ServerOK, RetryKey
      <4>2. QED
        BY <4>1
    <3>4. due' \subseteq Key
      BY <3>3 DEF TaskOK
    <3>5. attempt' \in [Key -> 0 .. NumDelays - 1]
      BY DEF TaskOK
    <3> HIDE <1>3 DEF last, DrainRetry
    <3>6. pending' \subseteq 1 .. retryNext'
      BY <3>1, <3>2 DEF ServerOK, TaskOK
    <3>7. QED
      BY <1>3, <3>1, <3>2, <3>4, <3>5, <3>6 DEF DrainRetry, ServerOK, TaskOK
  <2>4. WorkOK'
    BY DEF ServerOK, TaskOK, WorkOK
  <2>5. HistoryOK'
    BY DEF ServerOK, TaskOK, WorkOK, HistoryOK, Event
  <2>6. QED
    BY <2>1, <2>2, <2>3, <2>4, <2>5
<1>4. CASE DrainDone
  BY <1>4 DEF DrainDone, ServerOK, ControlOK, TaskOK, WorkOK, HistoryOK, Phase
<1>5. ASSUME NEW k \in Key, Elapse(k) PROVE TypeOK'
  BY <1>5 DEF Elapse, ServerOK, ControlOK, TaskOK, WorkOK, HistoryOK, Phase
<1>6. CASE StartAttempts
  <2> USE <1>6 DEF StartAttempts
  <2>1. ServerOK'
    BY DEF ServerOK, TaskOK, WorkOK
  <2>2. ControlOK'
    BY DEF ControlOK, Phase
  <2>3. TaskOK'
    BY DEF ServerOK, TaskOK, WorkOK
  <2>4. WorkOK'
    <3>1. running' \subseteq Key /\ todo' \subseteq pending /\ pending \subseteq Nat
      BY DEF ServerOK, TaskOK
    <3>2. pc' = "attempt" \/ pc' = "commit"
      OBVIOUS
    <3>3. QED
      BY <3>1, <3>2 DEF ServerOK, TaskOK, WorkOK
  <2>5. HistoryOK'
    BY DEF ServerOK, TaskOK, WorkOK, HistoryOK, Event
  <2>6. QED
    BY <2>1, <2>2, <2>3, <2>4, <2>5
<1>7. ASSUME NEW lane \in Lane, ChunkDone(lane) PROVE TypeOK'
  <2> USE <1>7 DEF ChunkDone
  <2>1. ServerOK'
    BY DEF ServerOK, TaskOK, WorkOK
  <2>2. ControlOK'
    BY DEF ControlOK, Phase
  <2>3. TaskOK'
    BY DEF ServerOK, TaskOK, WorkOK
  <2>4. WorkOK'
    BY DEF ServerOK, TaskOK, WorkOK
  <2>5. HistoryOK'
    <3>1. Chunk(lane) \subseteq todo
      BY DEF Chunk
    <3>2. {EventAt(x) : x \in Chunk(lane)} \subseteq Event
      BY <3>1, InFlightEvents
    <3>3. QED
      BY <3>2 DEF HistoryOK
  <2>6. QED
    BY <2>1, <2>2, <2>3, <2>4, <2>5
<1>8. ASSUME NEW lane \in Lane, RunFailed(lane) PROVE TypeOK'
  BY <1>8 DEF RunFailed, ServerOK, ControlOK, TaskOK, WorkOK, HistoryOK, Phase
<1>9. CASE FinishAttempts
  <2> USE <1>9 DEF FinishAttempts
  <2>1. ServerOK'
    BY DEF ServerOK, TaskOK, WorkOK
  <2>2. ControlOK'
    BY DEF ControlOK, Phase
  <2>3. TaskOK'
    <3>1. attempt' \in [Key -> 0 .. NumDelays - 1]
      BY DEF TaskOK, LastAttempt, AttemptAfterFailure
    <3>2. pending' \subseteq pending
      OBVIOUS
    <3>3. {lane[1] : lane \in failed} \subseteq Key
      BY DEF WorkOK, Lane, Key
    <3>4. due' \subseteq Key
      BY <3>3 DEF TaskOK
    <3>5. QED
      BY <3>1, <3>2, <3>4 DEF ServerOK, TaskOK
  <2>4. WorkOK'
    BY DEF ServerOK, TaskOK, WorkOK
  <2>5. HistoryOK'
    <3>1. \A p \in pending : retryLog[p] \in Event
      BY DEF ServerOK, TaskOK
    <3>2. dropped' \subseteq Event
      BY <3>1 DEF HistoryOK
    <3>3. QED
      BY <3>2 DEF HistoryOK
  <2>6. QED
    BY <2>1, <2>2, <2>3, <2>4, <2>5
<1>10. CASE CommitRetry
  <2> USE <1>10 DEF CommitRetry
  <2>1. ServerOK'
    BY DEF ServerOK, TaskOK, WorkOK
  <2>2. ControlOK'
    BY DEF ControlOK, Phase
  <2>3. TaskOK'
    BY DEF ServerOK, TaskOK, WorkOK
  <2>4. WorkOK'
    BY DEF ServerOK, TaskOK, WorkOK
  <2>5. HistoryOK'
    BY DEF ServerOK, TaskOK, WorkOK, HistoryOK, Event
  <2>6. QED
    BY <2>1, <2>2, <2>3, <2>4, <2>5
<1>11. CASE PollMain
  BY <1>11 DEF PollMain, Least, ServerOK, ControlOK, TaskOK, WorkOK, HistoryOK, Phase
<1>12. CASE PollNothing
  BY <1>12 DEF PollNothing, ServerOK, ControlOK, TaskOK, WorkOK, HistoryOK, Phase
<1>13. CASE Claim
  BY <1>13 DEF Claim, ServerOK, ControlOK, TaskOK, WorkOK, HistoryOK, Phase
<1>14. CASE StartBatch
  <2> USE <1>14 DEF StartBatch, Runnable, Batch
  <2>1. ServerOK'
    BY DEF ServerOK, TaskOK, WorkOK
  <2>2. ControlOK'
    BY DEF ControlOK, Phase
  <2>3. TaskOK'
    BY DEF ServerOK, TaskOK, WorkOK
  <2>4. WorkOK'
    BY DEF ServerOK, TaskOK, WorkOK
  <2>5. HistoryOK'
    BY DEF ServerOK, TaskOK, WorkOK, HistoryOK, Event
  <2>6. QED
    BY <2>1, <2>2, <2>3, <2>4, <2>5
<1>15. CASE FinishBatch
  <2> USE <1>15 DEF FinishBatch
  <2>1. ServerOK'
    BY DEF ServerOK, TaskOK, WorkOK
  <2>2. ControlOK'
    BY DEF ControlOK, Phase
  <2>3. TaskOK'
    BY DEF ServerOK, TaskOK, WorkOK
  <2>4. WorkOK'
    <3>1. running' \subseteq Key
      BY BatchEvents, KeysOfEvents
    <3>2. QED
      BY <3>1 DEF TaskOK, WorkOK
  <2>5. HistoryOK'
    BY DEF ServerOK, TaskOK, WorkOK, HistoryOK, Event
  <2>6. QED
    BY <2>1, <2>2, <2>3, <2>4, <2>5
<1>16. ASSUME NEW k \in Key, EncodeKey(k) PROVE TypeOK'
  <2> USE <1>16 DEF EncodeKey, DivertKey, RetryFailedKey, DropFailedKey, SkipFinishedKey, NextKey, KeyVisited
  <2>1. ServerOK'
    BY DEF ServerOK, TaskOK, WorkOK
  <2>2. ControlOK'
    BY DEF ControlOK, Phase
  <2>3. TaskOK'
    BY DEF ServerOK, TaskOK, WorkOK
  <2>4. WorkOK'
    <3>1. CASE UNCHANGED entries
      BY <3>1 DEF TaskOK, WorkOK
    <3>2. ASSUME NEW S \in SUBSET Event, NEW s \in Encodings(S), entries' = entries \o s
          PROVE  WorkOK'
      <4>1. s \in Seq(Event)
        BY <3>2, EncodingsWriteAll
      <4>2. entries' \in Seq(Event)
        BY <3>2, <4>1 DEF WorkOK
      <4>3. QED
        BY <4>2 DEF TaskOK, WorkOK
    <3>3. QED
      BY <3>1, <3>2, BatchEvents, UnhandledEvents
  <2>5. HistoryOK'
    BY UnhandledEvents DEF HistoryOK
  <2>6. QED
    BY <2>1, <2>2, <2>3, <2>4, <2>5
<1>17. CASE SendRetry
  BY <1>17 DEF SendRetry, ServerOK, ControlOK, TaskOK, WorkOK, HistoryOK, Phase
<1>18. CASE SendRetryUnacknowledged
  BY <1>18 DEF SendRetryUnacknowledged, ServerOK, ControlOK, TaskOK, WorkOK, HistoryOK, Phase
<1>19. CASE StoreMain
  BY <1>19 DEF StoreMain, ServerOK, ControlOK, TaskOK, WorkOK, HistoryOK, Phase
<1>20. CASE RequestStop
  BY <1>20 DEF RequestStop, ServerOK, ControlOK, TaskOK, WorkOK, HistoryOK, Phase
<1>21. CASE StopTask
  BY <1>21 DEF StopTask, ForgetMemory, ServerOK, ControlOK, TaskOK, WorkOK, HistoryOK, Phase
<1>22. CASE Restart
  BY <1>22 DEF Restart, ServerOK, ControlOK, TaskOK, WorkOK, HistoryOK, Phase
<1>23. CASE Crash
  <2> USE <1>23 DEF Crash, ForgetMemory
  <2>1. ServerOK'
    BY DEF ServerOK, TaskOK, WorkOK
  <2>2. ControlOK'
    BY DEF ControlOK, Phase
  <2>3. TaskOK'
    BY DEF ServerOK, TaskOK, WorkOK
  <2>4. WorkOK'
    BY DEF ServerOK, TaskOK, WorkOK
  <2>5. HistoryOK'
    BY DEF ServerOK, TaskOK, WorkOK, HistoryOK, Event
  <2>6. QED
    BY <2>1, <2>2, <2>3, <2>4, <2>5
<1>24. CASE UNCHANGED vars
  BY <1>24 DEF vars, ServerOK, ControlOK, TaskOK, WorkOK, HistoryOK, Phase
<1>25. QED
  BY <1>1, <1>2, <1>3, <1>4, <1>5, <1>6, <1>7, <1>8, <1>9, <1>10, <1>11, <1>12,
     <1>13, <1>14, <1>15, <1>16, <1>17, <1>18, <1>19, <1>20, <1>21, <1>22, <1>23, <1>24
     DEF Next, TaskStep, HandleChunk

\* Every variable keeps its type: offsets stay inside their logs, the records in
\* flight are pending retry records or records of the main batch, and no key
\* fails more often than there are delays.
THEOREM ConsumerTypeOK == Spec => []TypeOK
BY InitTypeOK, StepTypeOK, PTL DEF Spec
-----------------------------------------------------------------------------
(* Nothing is forgotten: what is settled stays settled, and the retry      *)
(* partition only grows.                                                   *)

\* Appending records to a log removes none.
LEMMA OccursInConcat ==
  ASSUME NEW s \in Seq(Event), NEW t \in Seq(Event), NEW e
  PROVE  Occurs(e, s) \/ Occurs(e, t) => Occurs(e, s \o t)
<1>1. /\ Len(s) \in Nat /\ Len(t) \in Nat
      /\ Len(s \o t) = Len(s) + Len(t)
      /\ \A i \in 1 .. Len(s) + Len(t) :
           (s \o t)[i] = IF i <= Len(s) THEN s[i] ELSE t[i - Len(s)]
  BY ConcatProperties, LenProperties
<1>2. ASSUME NEW i \in 1 .. Len(s), s[i] = e PROVE Occurs(e, s \o t)
  BY <1>1, <1>2 DEF Occurs
<1>3. ASSUME NEW i \in 1 .. Len(t), t[i] = e PROVE Occurs(e, s \o t)
  <2>1. Len(s) + i \in 1 .. Len(s \o t) /\ (s \o t)[Len(s) + i] = e
    BY <1>1, <1>3
  <2>2. QED
    BY <2>1 DEF Occurs
<1>4. QED
  BY <1>2, <1>3 DEF Occurs

\* No step makes a settled event unsettled or removes a retry record.
LEMMA StepGrows ==
  ASSUME TypeOK, [Next]_vars
  PROVE  /\ Settled \subseteq Settled'
         /\ Len(retryLog) <= Len(retryLog')
         /\ \A p \in 1 .. Len(retryLog) : retryLog'[p] = retryLog[p]
<1> DEFINE Grows == /\ Settled \subseteq Settled'
                    /\ Len(retryLog) <= Len(retryLog')
                    /\ \A p \in 1 .. Len(retryLog) : retryLog'[p] = retryLog[p]
<1> USE DEF server, history, Settled
<1>0. Len(retryLog) \in Nat /\ retryLog \in Seq(Event) /\ entries \in Seq(Event)
  BY DEF TypeOK, ServerOK, WorkOK
<1>1. CASE Publish
  BY <1>1, <1>0 DEF Publish
<1>2. CASE Boot
  BY <1>2, <1>0 DEF Boot
<1>3. CASE DrainRetry
  BY <1>3, <1>0 DEF DrainRetry
<1>4. CASE DrainDone
  BY <1>4, <1>0 DEF DrainDone
<1>5. ASSUME NEW k \in Key, Elapse(k) PROVE Grows
  BY <1>5, <1>0 DEF Elapse
<1>6. CASE StartAttempts
  BY <1>6, <1>0 DEF StartAttempts
<1>7. ASSUME NEW lane \in Lane, ChunkDone(lane) PROVE Grows
  BY <1>7, <1>0 DEF ChunkDone
<1>8. ASSUME NEW lane \in Lane, RunFailed(lane) PROVE Grows
  BY <1>8, <1>0 DEF RunFailed
<1>9. CASE FinishAttempts
  BY <1>9, <1>0 DEF FinishAttempts
<1>10. CASE CommitRetry
  BY <1>10, <1>0 DEF CommitRetry
<1>11. CASE PollMain
  BY <1>11, <1>0 DEF PollMain
<1>12. CASE PollNothing
  BY <1>12, <1>0 DEF PollNothing
<1>13. CASE Claim
  BY <1>13, <1>0 DEF Claim
<1>14. CASE StartBatch
  BY <1>14, <1>0 DEF StartBatch
<1>15. CASE FinishBatch
  BY <1>15, <1>0 DEF FinishBatch
<1>16. ASSUME NEW k \in Key, EncodeKey(k) PROVE Grows
  BY <1>16, <1>0 DEF EncodeKey, DivertKey, RetryFailedKey, DropFailedKey, SkipFinishedKey, KeyVisited
<1>17. CASE SendRetry
  BY <1>17, <1>0 DEF SendRetry
<1>18. CASE SendRetryUnacknowledged
  BY <1>18, <1>0 DEF SendRetryUnacknowledged
<1>19. CASE StoreMain
  BY <1>19, <1>0 DEF StoreMain
<1>20. CASE RequestStop
  BY <1>20, <1>0 DEF RequestStop
<1>21. CASE StopTask
  BY <1>21, <1>0 DEF StopTask, ForgetMemory
<1>22. CASE Restart
  BY <1>22, <1>0 DEF Restart
<1>23. CASE Crash
  BY <1>23, <1>0 DEF Crash, ForgetMemory
<1>24. CASE UNCHANGED vars
  BY <1>24, <1>0 DEF vars
<1>25. QED
  BY <1>1, <1>2, <1>3, <1>4, <1>5, <1>6, <1>7, <1>8, <1>9, <1>10, <1>11, <1>12,
     <1>13, <1>14, <1>15, <1>16, <1>17, <1>18, <1>19, <1>20, <1>21, <1>22, <1>23, <1>24
     DEF Next, TaskStep, HandleChunk

\* An event that is settled or written to the retry partition stays so.
LEMMA SafeStable ==
  ASSUME TypeOK, [Next]_vars, NEW e, Safe(e)
  PROVE  Safe(e)'
<1>1. CASE e \in Settled
  BY <1>1, StepGrows DEF Safe
<1>2. ASSUME NEW p \in 1 .. Len(retryLog), retryLog[p] = e
      PROVE  Safe(e)'
  <2>1. Len(retryLog) \in Nat /\ Len(retryLog') \in Nat /\ TypeOK'
    BY StepTypeOK DEF TypeOK, ServerOK
  <2>2. p \in 1 .. Len(retryLog') /\ retryLog'[p] = e
    BY <1>2, <2>1, StepGrows
  <2>3. QED
    BY <2>2 DEF Safe, Occurs
<1>3. QED
  BY <1>1, <1>2 DEF Safe, Occurs
-----------------------------------------------------------------------------
(* The at-least-once mode loses nothing.                                   *)

\* Nothing is committed at the start.
LEMMA InitLossInv == Init => LossInv
BY DEF Init, LossInv, MainSafe, RetrySafe, CursorCommitted, ReadCovered,
       AttemptCovered, BatchCovered

\* Every step keeps what was committed safe.
LEMMA StepLossInv == TypeOK /\ LossInv /\ [Next]_vars => LossInv'
<1> SUFFICES ASSUME TypeOK, [Next]_vars, Mode = "NoEventLose",
                    MainSafe, RetrySafe, CursorCommitted, ReadCovered,
                    AttemptCovered, BatchCovered
             PROVE  /\ MainSafe' /\ RetrySafe' /\ CursorCommitted'
                    /\ ReadCovered' /\ AttemptCovered' /\ BatchCovered'
  BY DEF LossInv
<1> DEFINE Goal == /\ MainSafe' /\ RetrySafe' /\ CursorCommitted'
                   /\ ReadCovered' /\ AttemptCovered' /\ BatchCovered'
<1> USE DEF server, cursors, retries, work
\* A part of the invariant holds after every step that leaves its variables alone.
<1>a. mainStored' = mainStored => MainSafe'
  BY SafeStable DEF MainSafe
<1>b. retryStored' = retryStored => RetrySafe'
  BY StepGrows DEF RetrySafe, TypeOK, ServerOK
<1>h. \A p \in pending : p \in 1 .. Len(retryLog)
  BY DEF TypeOK, ServerOK, TaskOK
<1>c. UNCHANGED <<pc, mainNext, mainStored>> => CursorCommitted'
  BY DEF CursorCommitted
<1>d. retryNext' = retryNext /\ pending \subseteq pending' => ReadCovered'
  BY StepGrows DEF ReadCovered, TypeOK, ServerOK, TaskOK
<1>e. pc' # "attempt" \/ UNCHANGED <<pc, pending, running, todo>> => AttemptCovered'
  <2>1. \A p \in pending : RetryKey(p)' = RetryKey(p) /\ retryLog'[p] = retryLog[p]
    BY <1>h, StepGrows DEF RetryKey
  <2>2. ASSUME UNCHANGED <<pc, pending, running, todo>> PROVE AttemptCovered'
    BY <2>1, <2>2, StepGrows DEF AttemptCovered
  <2>3. QED
    BY <2>2 DEF AttemptCovered
<1>f. pc' \notin {"execute", "encode", "store"} => BatchCovered'
  BY DEF BatchCovered
<1>g. UNCHANGED pending => \A k : Quarantined(k) => Quarantined(k)'
  BY <1>h, StepGrows DEF Quarantined, RetryKey
<1>i. UNCHANGED <<pc, mainNext, batchEnd, pending, running, todo, entries>> => BatchCovered'
  BY <1>g, <1>h, StepGrows, SafeStable DEF BatchCovered, Owed
<1>1. CASE Publish
  BY <1>1, <1>a, <1>b, <1>c, <1>d, <1>e, <1>i DEF Publish
<1>2. CASE Boot
  <2> USE <1>2 DEF Boot
  <2>1. CursorCommitted'
    BY DEF CursorCommitted
  <2>2. ReadCovered'
    <3>1. retryNext' = retryStored /\ retryLog' = retryLog /\ Settled' = Settled
      BY DEF Settled, history
    <3>2. QED
      BY <3>1 DEF RetrySafe, ReadCovered
  <2>3. QED
    BY <2>1, <2>2, <1>a, <1>b, <1>e, <1>f
<1>3. CASE DrainRetry
  <2> USE <1>3 DEF DrainRetry
  <2>1. ReadCovered'
    BY StepGrows DEF ReadCovered, TypeOK, ServerOK, TaskOK
  <2>2. QED
    BY <2>1, <1>a, <1>b, <1>c, <1>e, <1>f
<1>4. CASE DrainDone
  BY <1>4, <1>a, <1>b, <1>d, <1>e, <1>f DEF DrainDone, CursorCommitted
<1>5. ASSUME NEW k \in Key, Elapse(k) PROVE Goal
  BY <1>5, <1>a, <1>b, <1>c, <1>d, <1>e, <1>i DEF Elapse
<1>6. CASE StartAttempts
  <2> USE <1>6 DEF StartAttempts
  <2>1. CursorCommitted'
    BY DEF CursorCommitted
  <2>2. AttemptCovered'
    BY DEF AttemptCovered, RetryKey
  <2>3. QED
    BY <2>1, <2>2, <1>a, <1>b, <1>d, <1>f
<1>7. ASSUME NEW lane \in Lane, ChunkDone(lane) PROVE Goal
  <2> USE <1>7 DEF ChunkDone
  <2>1. \A x \in todo : x \in todo' \/ EventAt(x) \in Settled'
    BY DEF Settled
  <2>2. AttemptCovered'
    BY <2>1, StepGrows DEF AttemptCovered, RetryKey, EventAt
  <2>3. BatchCovered'
    BY <2>1, StepGrows DEF BatchCovered, Owed, Quarantined, RetryKey, EventAt
  <2>4. QED
    BY <2>2, <2>3, <1>a, <1>b, <1>c, <1>d
<1>8. ASSUME NEW lane \in Lane, RunFailed(lane) PROVE Goal
  BY <1>8, <1>a, <1>b, <1>c, <1>d, <1>e, <1>i DEF RunFailed
<1>9. CASE FinishAttempts
  <2> USE <1>9 DEF FinishAttempts
  <2>1. CursorCommitted'
    BY DEF CursorCommitted
  <2>2. ReadCovered'
    <3>1. ASSUME NEW p \in pending, p \notin pending'
          PROVE  retryLog[p] \in Settled'
      <4>1. CASE RetryKey(p) \in running /\ LaneAt(p) \notin failed
        <5>1. p \notin todo
          BY <4>1 DEF RunsFinished
        <5>2. QED
          BY <4>1, <5>1, StepGrows DEF AttemptCovered
      <4>2. CASE LaneAt(p) \in failed /\ ~(RetryKey(p) \in running /\ LaneAt(p) \notin failed)
        BY <3>1, <4>2 DEF Settled
      <4>3. QED
        BY <3>1, <4>1, <4>2
    <3>2. QED
      BY <3>1, StepGrows DEF ReadCovered, TypeOK, TaskOK, ServerOK
  <2>3. QED
    BY <2>1, <2>2, <1>a, <1>b, <1>e, <1>f
<1>10. CASE CommitRetry
  <2> USE <1>10 DEF CommitRetry
  <2>1. RetrySafe'
    <3>1. ASSUME NEW c \in 0 .. retryNext, Committable(c)
          PROVE  \A p \in 1 .. c : retryLog[p] \in Settled
      BY <3>1 DEF Committable, ReadCovered, TypeOK, ServerOK, TaskOK
    <3>2. QED
      BY <3>1 DEF RetrySafe, Settled, history
  <2>2. CursorCommitted'
    BY DEF CursorCommitted
  <2>3. QED
    BY <2>1, <2>2, <1>a, <1>d, <1>e, <1>f
<1>11. CASE PollMain
  <2>1. CursorCommitted'
    BY <1>11 DEF PollMain, CursorCommitted
  <2>2. QED
    BY <1>11, <2>1, <1>a, <1>b, <1>d, <1>e, <1>f DEF PollMain
<1>12. CASE PollNothing
  BY <1>12, <1>a, <1>b, <1>d, <1>e, <1>f DEF PollNothing, CursorCommitted
<1>13. CASE Claim
  BY <1>13 DEF Claim, CursorCommitted
<1>14. CASE StartBatch
  <2> USE <1>14 DEF StartBatch
  <2>1. CursorCommitted'
    BY DEF CursorCommitted
  <2>2. BatchCovered'
    <3>1. \A e \in (mainNext + 1 .. batchEnd) \cap Bad : e \in Settled'
      BY DEF Settled
    <3>2. \A e \in Batch : e \in todo' \/ Quarantined(KeyOf[e])'
      BY DEF Runnable, Quarantined, RetryKey
    <3>3. QED
      BY <3>1, <3>2 DEF BatchCovered, Owed, Batch
  <2>3. QED
    BY <2>1, <2>2, <1>a, <1>b, <1>d, <1>e
<1>15. CASE FinishBatch
  <2> USE <1>15 DEF FinishBatch
  <2>1. CursorCommitted'
    BY DEF CursorCommitted
  <2>2. BatchCovered'
    <3>1. \A e \in mainNext + 1 .. batchEnd : e \in Settled \/ Owed(e)
      BY DEF BatchCovered
    <3>2. \A e \in mainNext + 1 .. batchEnd : Owed(e) => KeyOf[e] \in running'
      BY DEF Owed, Batch
    <3>3. QED
      BY <3>1, <3>2, <1>g, <1>h, StepGrows DEF BatchCovered, Owed
  <2>3. QED
    BY <2>1, <2>2, <1>a, <1>b, <1>d, <1>e
<1>16. ASSUME NEW k \in Key, EncodeKey(k) PROVE Goal
  <2>1. /\ pc = "encode" /\ running' = running \ {k}
        /\ UNCHANGED <<server, pc, stop, cursors, retries, batchEnd, todo, failed>>
    BY <1>16 DEF EncodeKey, DivertKey, RetryFailedKey, DropFailedKey,
                 SkipFinishedKey, NextKey, KeyVisited
  \* A set of records is written completely.
  <2>2. ASSUME NEW S \in SUBSET Event,
               \E s \in Encodings(S) : entries' = entries \o s,
               NEW e, Occurs(e, entries) \/ e \in S
        PROVE  Occurs(e, entries')
    <3>1. PICK s \in Encodings(S) : entries' = entries \o s
      BY <2>2
    <3>2. s \in Seq(Event) /\ (e \in S => Occurs(e, s))
      BY EncodingsWriteAll DEF Occurs
    <3>3. entries \in Seq(Event)
      BY DEF TypeOK, WorkOK
    <3>4. QED
      BY <2>2, <3>1, <3>2, <3>3, OccursInConcat
  <2>3. ASSUME NEW e \in mainNext + 1 .. batchEnd, Occurs(e, entries)
        PROVE  Occurs(e, entries')
    <3>1. CASE DivertKey(k)
      <4>1. {d \in Batch : KeyOf[d] = k} \in SUBSET Event
        BY BatchEvents
      <4>2. QED
        BY <2>2, <2>3, <3>1, <4>1 DEF DivertKey
    <3>2. CASE RetryFailedKey(k)
      BY <2>1, <2>2, <2>3, <3>2, UnhandledEvents DEF RetryFailedKey
    <3>3. CASE UNCHANGED entries
      BY <2>3, <3>3 DEF Occurs
    <3>4. QED
      BY <1>16, <3>1, <3>2, <3>3 DEF EncodeKey, DropFailedKey, SkipFinishedKey
  <2>4. ASSUME NEW e \in mainNext + 1 .. batchEnd, KeyOf[e] = k, Owed(e)
        PROVE  e \in Settled' \/ Occurs(e, entries')
    <3>1. CASE DivertKey(k)
      <4>1. {d \in Batch : KeyOf[d] = k} \in SUBSET Event /\ e \in Batch
        BY <2>4, BatchEvents DEF Owed, Batch
      <4>2. QED
        BY <2>2, <2>4, <3>1, <4>1 DEF DivertKey
    <3>2. ASSUME ~Quarantined(k) PROVE e \in Unhandled(k)
      BY <2>4, <3>2 DEF Owed, Unhandled
    <3>3. CASE RetryFailedKey(k)
      BY <2>1, <2>2, <3>2, <3>3, UnhandledEvents DEF RetryFailedKey
    <3>4. CASE DropFailedKey(k)
      BY <3>2, <3>4 DEF DropFailedKey, Settled
    <3>5. CASE SkipFinishedKey(k)
      BY <3>2, <3>5 DEF SkipFinishedKey
    <3>6. QED
      BY <1>16, <3>1, <3>3, <3>4, <3>5 DEF EncodeKey
  <2>5. BatchCovered'
    BY <2>1, <2>3, <2>4, <1>g, <1>h, StepGrows DEF BatchCovered, Owed
  <2>6. QED
    BY <2>1, <2>5, <1>a, <1>b, <1>c, <1>d, <1>e
<1>17. CASE SendRetry
  <2> USE <1>17 DEF SendRetry
  <2>1. CursorCommitted'
    BY DEF CursorCommitted
  <2>2. BatchCovered'
    <3>1. \A e \in mainNext + 1 .. batchEnd : e \in Settled \/ Occurs(e, entries)
      BY DEF BatchCovered
    <3>2. \A e : Occurs(e, entries) => Occurs(e, retryLog')
      BY OccursInConcat DEF TypeOK, ServerOK, WorkOK
    <3>3. QED
      BY <3>1, <3>2, StepGrows DEF BatchCovered, Safe
  <2>3. QED
    BY <2>1, <2>2, <1>a, <1>b, <1>d, <1>e
<1>18. CASE SendRetryUnacknowledged
  BY <1>18, <1>a, <1>b, <1>c, <1>d, <1>e, <1>i DEF SendRetryUnacknowledged
<1>19. CASE StoreMain
  <2> USE <1>19 DEF StoreMain
  <2>1. MainSafe'
    <3>1. \A e \in mainNext + 1 .. batchEnd : Safe(e)
      BY DEF BatchCovered
    <3>2. \A e \in 1 .. mainStored' : Safe(e)
      BY <3>1 DEF MainSafe, CursorCommitted, TypeOK, ServerOK, TaskOK, WorkOK
    <3>3. QED
      BY <3>2, SafeStable DEF MainSafe
  <2>2. CursorCommitted'
    BY DEF CursorCommitted
  <2>3. QED
    BY <2>1, <2>2, <1>b, <1>d, <1>e, <1>f
<1>20. CASE RequestStop
  BY <1>20, <1>a, <1>b, <1>c, <1>d, <1>e, <1>i DEF RequestStop
<1>21. CASE StopTask
  <2>1. CursorCommitted' /\ ReadCovered'
    BY <1>21 DEF StopTask, ForgetMemory, CursorCommitted, ReadCovered
  <2>2. QED
    BY <1>21, <2>1, <1>a, <1>b, <1>e, <1>f DEF StopTask
<1>22. CASE Restart
  <2>1. CursorCommitted'
    BY <1>22 DEF Restart, CursorCommitted
  <2>2. QED
    BY <1>22, <2>1, <1>a, <1>b, <1>d, <1>e, <1>f DEF Restart
<1>23. CASE Crash
  <2>1. CursorCommitted' /\ ReadCovered'
    BY <1>23 DEF Crash, ForgetMemory, CursorCommitted, ReadCovered
  <2>2. QED
    BY <1>23, <2>1, <1>a, <1>b, <1>e, <1>f DEF Crash
<1>24. CASE UNCHANGED vars
  BY <1>24, <1>a, <1>b, <1>c, <1>d, <1>e, <1>i DEF vars
<1>25. QED
  BY <1>1, <1>2, <1>3, <1>4, <1>5, <1>6, <1>7, <1>8, <1>9, <1>10, <1>11, <1>12,
     <1>13, <1>14, <1>15, <1>16, <1>17, <1>18, <1>19, <1>20, <1>21, <1>22, <1>23, <1>24
     DEF Next, TaskStep, HandleChunk

\* What is safe is settled or lies above the stored retry offset.
LEMMA LossInvSuffices == TypeOK /\ LossInv => NoLoss /\ RetryCommitSafe
<1> SUFFICES ASSUME TypeOK, Mode = "NoEventLose", MainSafe, RetrySafe
             PROVE  NoLoss /\ RetryCommitSafe
  BY DEF LossInv, NoLoss, RetryCommitSafe
<1>1. RetryCommitSafe
  BY DEF RetrySafe, RetryCommitSafe
<1>2. ASSUME NEW e \in 1 .. mainStored, NEW p \in 1 .. Len(retryLog), retryLog[p] = e,
             e \notin Settled
      PROVE  p \in retryStored + 1 .. Len(retryLog)
  BY <1>2 DEF RetrySafe, TypeOK, ServerOK
<1>3. NoLoss
  BY <1>2 DEF MainSafe, Safe, Occurs, NoLoss
<1>4. QED
  BY <1>1, <1>3

\* In at-least-once mode no crash, shutdown or lost acknowledgement, at any point,
\* leaves an event below the stored main offset that is neither settled nor in
\* the retry partition above the stored retry offset.
THEOREM AtLeastOnceLosesNothing == Spec => []NoLoss
BY ConsumerTypeOK, InitTypeOK, StepTypeOK, InitLossInv, StepLossInv, LossInvSuffices, PTL DEF Spec

\* In at-least-once mode the stored retry offset never passes a record that still
\* waits for its key.
THEOREM RetryOffsetIsSafe == Spec => []RetryCommitSafe
BY ConsumerTypeOK, InitTypeOK, StepTypeOK, InitLossInv, StepLossInv, LossInvSuffices, PTL DEF Spec
=============================================================================
