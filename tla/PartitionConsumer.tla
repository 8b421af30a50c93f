------------------------- MODULE PartitionConsumer -------------------------
(***************************************************************************)
(* One partition task of wakuwaku-iggy: the loop that consumes a partition *)
(* of a main topic and its retry partition, stores the two consumer        *)
(* offsets, quarantines the keys that failed, and runs them again.         *)
(*                                                                         *)
(* Events are numbered in main-log order: event e is the main record with  *)
(* offset e - 1.  The retry partition is a sequence of event numbers.  A   *)
(* read position or a stored offset is modelled by how many records lie    *)
(* below it, so 0 stands for "nothing stored" and for "start at the first  *)
(* record".                                                                *)
(*                                                                         *)
(* All events are Relaxed and of non-reducing types, so the plan of a      *)
(* batch is one segment per key, whose runs (one per type) are independent *)
(* of each other.  A <<key, type>> pair is called a lane here.             *)
(*                                                                         *)
(* A definition that precedes another one and differs from it in one place *)
(* (CommittableAll before Committable, DrainOnce before DrainDone) is a    *)
(* mutant: a slip the code could contain, which a property must notice.    *)
(* Nothing refers to mutants.                                              *)
(***************************************************************************)
EXTENDS Integers, Sequences, FiniteSets

CONSTANTS
  NumEvents,   \* events ever published to the partition
  KeyOf,       \* key hash in the headers of each event
  TagOf,       \* type tag in the headers of each event
  Bad,         \* events whose headers do not parse
  Mode,        \* the DeliveryMode of the ConsumerConfig
  PollCount,   \* ConsumerConfig.poll_count
  MaxPending,  \* ConsumerConfig.max_pending_retry
  NumDelays,   \* how many delays ConsumerConfig.retry_delays holds
  MaxBatch,    \* EventHandler::MAX_BATCH, the events of one handler call
  MaxCrashes,  \* bound: aborts and crashes of the task
  MaxStops,    \* bound: graceful shutdowns
  MaxLost      \* bound: retry batches written whose acknowledgement is lost

Event == 1 .. NumEvents
Key   == {KeyOf[e] : e \in Event}
Lane  == {<<KeyOf[e], TagOf[e]>> : e \in Event}
Modes == {"NoDoubleConsume", "NoEventLose"}

ASSUME ConsumerAssumption ==
  /\ NumEvents \in Nat
  /\ DOMAIN KeyOf = Event
  /\ TagOf \in [Event -> Nat]
  /\ Bad \subseteq Event
  /\ Mode \in Modes
  /\ PollCount \in Nat \ {0}      \* start() refuses 0
  /\ NumDelays \in Nat \ {0}      \* start() refuses an empty list
  /\ MaxBatch \in Nat \ {0}
  /\ MaxPending \in Nat
  /\ MaxCrashes \in Nat /\ MaxStops \in Nat /\ MaxLost \in Nat

VARIABLES
  \* The Iggy server.
  published,    \* events 1 .. published are in the main partition
  retryLog,     \* the retry partition
  mainStored,   \* stored offset of the main partition
  retryStored,  \* stored offset of the retry partition
  \* The partition task.
  pc,           \* what it does next
  stop,         \* the shutdown watch holds true
  mainNext,     \* main cursor
  retryNext,    \* retry cursor
  committed,    \* the local retry_stored: last retry offset stored by this run
  pending,      \* RetryState: retry positions of the pending records
  attempt,      \* RetryState: failed attempts of each key
  due,          \* RetryState: keys whose due time has come
  batchEnd,     \* last record of the main batch being processed
  running,      \* keys being executed, then keys still to be encoded
  todo,         \* records of the runs in flight not handled yet
  failed,       \* lanes whose run failed with a retryable error
  entries,      \* retry records collected for the batch
  \* History of what happened to the events.
  applied,      \* accepted by a handler
  reapplied,    \* accepted more than once
  dropped,      \* given up by the consumer
  \* How much of each bound was used.
  crashes, stops, lost

server  == <<published, retryLog, mainStored, retryStored>>
cursors == <<mainNext, retryNext, committed>>
retries == <<pending, attempt, due>>
work    == <<batchEnd, running, todo, failed, entries>>
history == <<applied, reapplied, dropped>>
bounds  == <<crashes, stops, lost>>
vars    == <<server, pc, stop, cursors, retries, work, history, bounds>>

Phase == {"boot", "drain", "due", "attempt", "commit", "poll", "claim",
          "plan", "execute", "encode", "store", "stopped"}

ServerOK ==
  /\ published \in 0 .. NumEvents
  /\ retryLog \in Seq(Event)
  /\ mainStored \in 0 .. published
  /\ retryStored \in 0 .. Len(retryLog)

ControlOK == pc \in Phase /\ stop \in BOOLEAN

TaskOK ==
  /\ mainNext \in 0 .. published
  /\ retryNext \in 0 .. Len(retryLog)
  /\ committed \in 0 .. retryNext
  /\ pending \subseteq 1 .. retryNext
  /\ attempt \in [Key -> 0 .. NumDelays - 1]
  /\ due \subseteq Key
  /\ pc \in {"boot", "stopped"} => committed = 0 /\ pending = {}

WorkOK ==
  /\ batchEnd \in 0 .. published
  /\ running \subseteq Key
  /\ todo \subseteq Nat
  /\ pc = "attempt" => todo \subseteq pending
  /\ pc \in {"execute", "encode"} => todo \subseteq mainNext + 1 .. batchEnd
  /\ failed \subseteq Lane
  /\ entries \in Seq(Event)

HistoryOK ==
  /\ applied \subseteq Event /\ reapplied \subseteq applied /\ dropped \subseteq Event
  /\ crashes \in 0 .. MaxCrashes /\ stops \in 0 .. MaxStops /\ lost \in 0 .. MaxLost

TypeOK == ServerOK /\ ControlOK /\ TaskOK /\ WorkOK /\ HistoryOK
-----------------------------------------------------------------------------
Least(a, b) == IF a <= b THEN a ELSE b

\* Nothing more will happen to the event, as far as this consumer can tell.
Settled == applied \cup dropped

RetryKey(p)    == KeyOf[retryLog[p]]
Quarantined(k) == \E p \in pending : RetryKey(p) = k

\* The parsed records of the main batch.
Batch == (mainNext + 1 .. batchEnd) \ Bad

\* Records in flight are retry positions during a retry attempt and main
\* records while a batch is executed.
EventAt(x) == IF pc = "attempt" THEN retryLog[x] ELSE x
LaneAt(x)  == <<KeyOf[EventAt(x)], TagOf[EventAt(x)]>>

\* The next chunk of the run of a lane: its first MaxBatch unhandled records.
Chunk(lane) ==
  LET rest == {x \in todo : LaneAt(x) = lane}
  IN  {x \in rest : Cardinality({y \in rest : y <= x}) <= MaxBatch}

\* A run is over when it is handled to the end, or failed.
RunsFinished == \A x \in todo : LaneAt(x) \in failed

\* committable(): the position just before the first pending record, or the
\* last record read when nothing is pending.
CommittableAll(c) == c = retryNext
Committable(c) ==
  /\ \A p \in pending : c < p
  /\ c = retryNext \/ c + 1 \in pending

\* The records encode_key writes: run by run in tag order, each run in log order.
EncodedBefore(d, e) ==
  TagOf[d] < TagOf[e] \/ (TagOf[d] = TagOf[e] /\ d < e)
Encodings(S) ==
  {s \in [1 .. Cardinality(S) -> S] :
     /\ \A e \in S : \E i \in DOMAIN s : s[i] = e
     /\ \A i, j \in DOMAIN s : i < j => EncodedBefore(s[i], s[j])}
-----------------------------------------------------------------------------
Init ==
  /\ published = 0 /\ retryLog = <<>> /\ mainStored = 0 /\ retryStored = 0
  /\ pc = "boot" /\ stop = FALSE
  /\ mainNext = 0 /\ retryNext = 0 /\ committed = 0
  /\ pending = {} /\ attempt = [k \in Key |-> 0] /\ due = {}
  /\ batchEnd = 0 /\ running = {} /\ todo = {} /\ failed = {} /\ entries = <<>>
  /\ applied = {} /\ reapplied = {} /\ dropped = {}
  /\ crashes = 0 /\ stops = 0 /\ lost = 0

\* A producer appends one event to the partition.
Publish ==
  /\ published < NumEvents
  /\ published' = published + 1
  /\ UNCHANGED <<retryLog, mainStored, retryStored, pc, stop, cursors, retries,
                 work, history, bounds>>

\* Read both stored offsets; everything else starts empty.
Boot ==
  /\ pc = "boot" /\ ~stop
  /\ mainNext' = mainStored
  /\ retryNext' = retryStored
  /\ pc' = "drain"
  /\ UNCHANGED <<server, stop, committed, retries, work, history, bounds>>

\* One non-empty poll of the retry partition.  A new key is due delays[0]
\* after its record was written, which may have passed already.
DrainRetry ==
  /\ pc = "drain" /\ ~stop
  /\ retryNext < Len(retryLog)
  /\ LET last  == Least(retryNext + PollCount, Len(retryLog))
         polled == retryNext + 1 .. last
         fresh == {k \in {RetryKey(p) : p \in polled} : ~Quarantined(k)}
     IN  /\ retryNext' = last
         /\ pending' = pending \cup polled
         /\ attempt' = [k \in Key |-> IF k \in fresh THEN 0 ELSE attempt[k]]
         /\ \E late \in SUBSET fresh : due' = due \cup late
         /\ retryStored' = IF Mode = "NoDoubleConsume" THEN last ELSE retryStored
  /\ UNCHANGED <<published, retryLog, mainStored, pc, stop, mainNext, committed,
                 work, history, bounds>>

DrainOnce ==
  /\ pc = "drain" /\ ~stop
  /\ pc' = "due"
  /\ UNCHANGED <<server, stop, cursors, retries, work, history, bounds>>

DrainDone ==
  /\ pc = "drain" /\ ~stop
  /\ retryNext = Len(retryLog)
  /\ pc' = "due"
  /\ UNCHANGED <<server, stop, cursors, retries, work, history, bounds>>

\* The delay of a quarantined key passes.
Elapse(k) ==
  /\ pc \notin {"boot", "stopped"}
  /\ Quarantined(k) /\ k \notin due
  /\ due' = due \cup {k}
  /\ UNCHANGED <<server, pc, stop, cursors, pending, attempt, work, history, bounds>>

\* run_due starts one attempt for every due key, over all its pending records.
StartAttempts ==
  /\ pc = "due"
  /\ pc' = IF due = {} THEN "commit" ELSE "attempt"
  /\ running' = due
  /\ todo' = {p \in pending : RetryKey(p) \in due}
  /\ failed' = {}
  /\ UNCHANGED <<server, stop, cursors, retries, batchEnd, entries, history, bounds>>

\* The handler is called with the next chunk of a run.  A transient error is
\* answered by calling it again with the same chunk, which changes nothing.
ChunkDone(lane) ==
  /\ pc \in {"attempt", "execute"}
  /\ lane \notin failed
  /\ LET chunk  == Chunk(lane)
         events == {EventAt(x) : x \in chunk}
     IN  /\ chunk # {}
         /\ todo' = todo \ chunk
         /\ \/ /\ applied' = applied \cup events
               /\ reapplied' = reapplied \cup (applied \cap events)
               /\ UNCHANGED dropped
            \/ /\ dropped' = dropped \cup events        \* unrecoverable
               /\ UNCHANGED <<applied, reapplied>>
  /\ UNCHANGED <<server, pc, stop, cursors, retries, batchEnd, running, failed,
                 entries, bounds>>

\* A retryable error ends the run: the chunk and all later ones are not handled.
RunFailed(lane) ==
  /\ pc \in {"attempt", "execute"}
  /\ lane \notin failed
  /\ Chunk(lane) # {}
  /\ failed' = failed \cup {lane}
  /\ UNCHANGED <<server, pc, stop, cursors, retries, batchEnd, running, todo,
                 entries, history, bounds>>

\* A failed key counts the attempt, and is given up when no delay is left.
LastAttempt(k) == attempt[k] + 1 >= NumDelays

AttemptNotCounted(k)   == attempt[k]
AttemptAfterFailure(k) == attempt[k] + 1

\* RetryState::finish for every key that ran.  The records of a completed run
\* leave; those of a failed run stay, whole, until the last attempt failed.
FinishAttempts ==
  /\ pc = "attempt" /\ RunsFinished
  /\ LET failedKeys == {lane[1] : lane \in failed}
         givenUp    == {k \in failedKeys : LastAttempt(k)}
         resolved   == {p \in pending : RetryKey(p) \in running /\ LaneAt(p) \notin failed}
         discarded  == {p \in pending : RetryKey(p) \in givenUp /\ LaneAt(p) \in failed}
         kept       == pending \ (resolved \cup discarded)
     IN  /\ pending' = kept
         /\ dropped' = dropped \cup {retryLog[p] : p \in discarded}
         /\ attempt' = [k \in Key |-> IF k \in failedKeys \ givenUp THEN AttemptAfterFailure(k)
                                      ELSE IF k \in running THEN 0
                                      ELSE attempt[k]]
         /\ due' = (due \ running) \cup {k \in givenUp : \E p \in kept : RetryKey(p) = k}
  /\ pc' = "commit"
  /\ running' = {} /\ todo' = {} /\ failed' = {}
  /\ UNCHANGED <<server, stop, cursors, batchEnd, entries, applied, reapplied, bounds>>

\* At-least-once mode stores the retry offset when it has advanced.
CommitRetry ==
  /\ pc = "commit"
  /\ \E c \in 0 .. retryNext :
       /\ Committable(c)
       /\ IF Mode = "NoEventLose" /\ c > committed
          THEN retryStored' = c /\ committed' = c
          ELSE UNCHANGED <<retryStored, committed>>
  /\ pc' = "poll"
  /\ UNCHANGED <<published, retryLog, mainStored, stop, mainNext, retryNext,
                 retries, work, history, bounds>>

PollMain ==
  /\ pc = "poll" /\ ~stop
  /\ mainNext < published
  /\ batchEnd' = Least(mainNext + PollCount, published)
  /\ pc' = IF Mode = "NoDoubleConsume" THEN "claim" ELSE "plan"
  /\ UNCHANGED <<server, stop, cursors, retries, running, todo, failed, entries,
                 history, bounds>>

\* An empty poll, and the idle wait after it.
PollNothing ==
  /\ pc = "poll" /\ ~stop
  /\ mainNext = published
  /\ pc' = "drain"
  /\ UNCHANGED <<server, stop, cursors, retries, work, history, bounds>>

ClaimNothing ==
  /\ pc = "claim"
  /\ mainStored' = mainNext
  /\ pc' = "plan"
  /\ UNCHANGED <<published, retryLog, retryStored, stop, cursors, retries, work,
                 history, bounds>>

\* At-most-once mode stores the offset of the batch before it is processed.
Claim ==
  /\ pc = "claim"
  /\ mainStored' = batchEnd
  /\ pc' = "plan"
  /\ UNCHANGED <<published, retryLog, retryStored, stop, cursors, retries, work,
                 history, bounds>>

\* A quarantined key is not executed from the main partition.
RunnableWhateverPends == Batch
Runnable              == {e \in Batch : ~Quarantined(KeyOf[e])}

\* Parse the batch and start every key of it that is not quarantined.
StartBatch ==
  /\ pc = "plan"
  /\ dropped' = dropped \cup ((mainNext + 1 .. batchEnd) \cap Bad)
  /\ todo' = Runnable
  /\ failed' = {}
  /\ pc' = "execute"
  /\ UNCHANGED <<server, stop, cursors, retries, batchEnd, running, entries,
                 applied, reapplied, bounds>>

FinishBatch ==
  /\ pc = "execute" /\ RunsFinished
  /\ running' = {KeyOf[e] : e \in Batch}
  /\ entries' = <<>>
  /\ pc' = "encode"
  /\ UNCHANGED <<server, stop, cursors, retries, batchEnd, todo, failed, history, bounds>>
-----------------------------------------------------------------------------
\* Keys are visited in the order in which they first appear in the batch.
NextKey(k) ==
  /\ pc = "encode"
  /\ k \in running
  /\ \E e \in Batch : KeyOf[e] = k /\ \A d \in Batch : KeyOf[d] \in running => e <= d

KeyVisited(k) ==
  /\ running' = running \ {k}
  /\ UNCHANGED <<server, pc, stop, cursors, retries, batchEnd, todo, failed,
                 applied, reapplied, bounds>>

UnhandledChunk(k) ==
  LET rest == {e \in todo : KeyOf[e] = k} IN {e \in rest : \A d \in rest : e <= d}
Unhandled(k) == {e \in todo : KeyOf[e] = k}
BacklogFull(k) ==
  Cardinality(pending) + Len(entries) + Cardinality(Unhandled(k)) > MaxPending

\* Every record of a quarantined key is diverted, whatever the backlog.
DivertKey(k) ==
  /\ NextKey(k) /\ Quarantined(k)
  /\ \E s \in Encodings({e \in Batch : KeyOf[e] = k}) : entries' = entries \o s
  /\ UNCHANGED dropped
  /\ KeyVisited(k)

\* A failed key is written from where it failed, or dropped when the backlog
\* is full.
RetryFailedKey(k) ==
  /\ NextKey(k) /\ ~Quarantined(k) /\ ~BacklogFull(k)
  /\ Unhandled(k) # {}
  /\ \E s \in Encodings(Unhandled(k)) : entries' = entries \o s
  /\ UNCHANGED dropped
  /\ KeyVisited(k)

DropFailedKey(k) ==
  /\ NextKey(k) /\ ~Quarantined(k) /\ BacklogFull(k)
  /\ Unhandled(k) # {}
  /\ dropped' = dropped \cup Unhandled(k)
  /\ UNCHANGED entries
  /\ KeyVisited(k)

SkipFinishedKey(k) ==
  /\ NextKey(k) /\ ~Quarantined(k)
  /\ Unhandled(k) = {}
  /\ UNCHANGED <<entries, dropped>>
  /\ KeyVisited(k)

SendRetryForgets ==
  /\ pc = "encode" /\ running = {}
  /\ retryLog' = retryLog
  /\ entries' = <<>> /\ todo' = {} /\ failed' = {}
  /\ pc' = "store" /\ UNCHANGED mainNext
  /\ UNCHANGED <<published, mainStored, retryStored, stop, retryNext, committed,
                 retries, batchEnd, running, history, bounds>>

\* The whole batch of retry records is written and acknowledged.
SendRetry ==
  /\ pc = "encode" /\ running = {}
  /\ retryLog' = retryLog \o entries
  /\ entries' = <<>> /\ todo' = {} /\ failed' = {}
  /\ IF Mode = "NoEventLose"
     THEN pc' = "store" /\ UNCHANGED mainNext
     ELSE pc' = "drain" /\ mainNext' = batchEnd
  /\ UNCHANGED <<published, mainStored, retryStored, stop, retryNext, committed,
                 retries, batchEnd, running, history, bounds>>

\* The records are written but the answer is lost: until_ok sends them again.
SendRetryUnacknowledged ==
  /\ pc = "encode" /\ running = {}
  /\ entries # <<>> /\ lost < MaxLost
  /\ retryLog' = retryLog \o entries
  /\ lost' = lost + 1
  /\ UNCHANGED <<published, mainStored, retryStored, pc, stop, cursors, retries,
                 work, history, crashes, stops>>

\* At-least-once mode stores the offset of the batch after it is processed.
StoreMain ==
  /\ pc = "store"
  /\ mainStored' = batchEnd
  /\ mainNext' = batchEnd
  /\ pc' = "drain"
  /\ UNCHANGED <<published, retryLog, retryStored, stop, retryNext, committed,
                 retries, work, history, bounds>>
-----------------------------------------------------------------------------
ForgetMemory ==
  /\ mainNext' = 0 /\ retryNext' = 0 /\ committed' = 0
  /\ pending' = {} /\ attempt' = [k \in Key |-> 0] /\ due' = {}
  /\ batchEnd' = 0 /\ running' = {} /\ todo' = {} /\ failed' = {} /\ entries' = <<>>

RequestStop ==
  /\ pc # "stopped" /\ ~stop
  /\ stops < MaxStops
  /\ stop' = TRUE /\ stops' = stops + 1
  /\ UNCHANGED <<server, pc, cursors, retries, work, history, crashes, lost>>

StopTaskAnywhere ==
  /\ pc \in {"boot", "drain", "poll", "store"} /\ stop
  /\ pc' = "stopped"
  /\ ForgetMemory
  /\ UNCHANGED <<server, stop, history, bounds>>

\* Shutdown cancels only the waits for new work.
StopTask ==
  /\ pc \in {"boot", "drain", "poll"} /\ stop
  /\ pc' = "stopped"
  /\ ForgetMemory
  /\ UNCHANGED <<server, stop, history, bounds>>

\* The next consumer with the same name.
Restart ==
  /\ pc = "stopped"
  /\ pc' = "boot" /\ stop' = FALSE
  /\ UNCHANGED <<server, cursors, retries, work, history, bounds>>

\* The process dies, or the runtime is aborted, and a new consumer starts.
Crash ==
  /\ pc \notin {"boot", "stopped"}
  /\ crashes < MaxCrashes
  /\ crashes' = crashes + 1
  /\ pc' = "boot" /\ stop' = FALSE
  /\ ForgetMemory
  /\ UNCHANGED <<server, history, stops, lost>>
-----------------------------------------------------------------------------
EncodeKey(k) ==
  DivertKey(k) \/ RetryFailedKey(k) \/ DropFailedKey(k) \/ SkipFinishedKey(k)

HandleChunk == \E lane \in Lane : ChunkDone(lane) \/ RunFailed(lane)

\* The steps of the task itself.
TaskStep ==
  \/ Boot \/ DrainRetry \/ DrainDone
  \/ StartAttempts \/ HandleChunk \/ FinishAttempts \/ CommitRetry
  \/ PollMain \/ PollNothing \/ Claim \/ StartBatch \/ FinishBatch
  \/ \E k \in Key : EncodeKey(k)
  \/ SendRetry \/ StoreMain \/ StopTask

Next ==
  \/ Publish
  \/ TaskStep
  \/ \E k \in Key : Elapse(k)
  \/ SendRetryUnacknowledged
  \/ RequestStop \/ Restart \/ Crash

Spec == Init /\ [][Next]_vars

\* The runtime schedules the task, delays pass, an operator starts the
\* consumer again after a shutdown, and a handler does not answer "transient"
\* for ever.  Nothing makes producers, failures or crashes happen.
FairSpec ==
  /\ Spec
  /\ WF_vars(TaskStep)
  /\ WF_vars(Restart)
  /\ \A k \in Key : WF_vars(Elapse(k))
-----------------------------------------------------------------------------
(***************************************************************************)
(* Safety.                                                                 *)
(***************************************************************************)

\* "A crash loses nothing" (DeliveryMode::NoEventLose): an event below the
\* stored main offset is settled, or waits in the retry partition above the
\* stored retry offset, where the next consumer finds it.
NoLoss ==
  Mode = "NoEventLose" =>
    \A e \in 1 .. mainStored :
      \/ e \in Settled
      \/ \E p \in retryStored + 1 .. Len(retryLog) : retryLog[p] = e

\* "The retry offset never passes a record that is still pending"
\* (DeliveryMode::NoEventLose): every retry record below it is settled.
RetryCommitSafe ==
  Mode = "NoEventLose" => \A p \in 1 .. retryStored : retryLog[p] \in Settled

\* The quarantine of RetryState: no event of a key is executed from the main
\* partition while a retry record of the key is unread or pending.
QuarantineHolds ==
  pc = "execute" =>
    \A e \in todo, p \in 1 .. Len(retryLog) :
      KeyOf[e] = RetryKey(p) => p <= retryNext /\ p \notin pending

\* A crash in at-most-once mode, and a graceful shutdown in both modes, never
\* makes a handler accept an event again: only the retry partition does.
OnlyRetryRepeats ==
  (Mode = "NoDoubleConsume" \/ crashes = 0) =>
    \A e \in reapplied : \E p \in 1 .. Len(retryLog) : retryLog[p] = e

\* shutdown() leaves no handled event uncommitted: what a handler was given
\* before a crash-free stop is below the stored main offset.
ShutdownCommits ==
  pc = "stopped" /\ crashes = 0 => \A e \in Settled : e <= mainStored

\* The runs of one type of a key keep log order, through retries, diversions
\* and restarts: no event is accepted or given up for the first time after a
\* later event of its lane was.  At most once, a batch written three times would
\* break it.
SettledInOrder ==
  [][\A d \in Settled' \ Settled, e \in Settled :
       KeyOf[d] = KeyOf[e] /\ TagOf[d] = TagOf[e] /\ {d, e} \cap Bad = {}
         => e < d]_<<applied, dropped>>

\* Stored offsets only grow, also over restarts, which forget what was stored.
OffsetsAdvance ==
  [][mainStored' >= mainStored /\ retryStored' >= retryStored]_<<mainStored, retryStored>>

(***************************************************************************)
(* Why nothing is lost: the inductive strengthening of NoLoss and          *)
(* RetryCommitSafe, for the at-least-once mode.                            *)
(***************************************************************************)
Occurs(e, log) == \E i \in 1 .. Len(log) : log[i] = e
Safe(e)        == e \in Settled \/ Occurs(e, retryLog)

\* What was committed is safe, in the main and in the retry partition.
MainSafe  == \A e \in 1 .. mainStored : Safe(e)
RetrySafe == \A p \in 1 .. retryStored : retryLog[p] \in Settled

\* The main cursor of a running task is the stored offset.
CursorCommitted ==
  pc \notin {"boot", "stopped"} => pc # "claim" /\ mainNext = mainStored

\* A retry record that was read is pending or settled.
ReadCovered == \A p \in 1 .. retryNext : p \in pending \/ retryLog[p] \in Settled

\* During an attempt, a record of a running key that is not in flight is settled.
AttemptCovered ==
  pc = "attempt" =>
    \A p \in pending : RetryKey(p) \in running => p \in todo \/ retryLog[p] \in Settled

\* An event still owed: in flight, or waiting for its diversion.
Owed(e) == e \notin Bad /\ (e \in todo \/ Quarantined(KeyOf[e]))

\* No event of a batch gets out of sight before the batch is committed.
BatchCovered ==
  \A e \in mainNext + 1 .. batchEnd :
    /\ pc = "execute" => e \in Settled \/ Owed(e)
    /\ pc = "encode" => \/ e \in Settled
                        \/ Occurs(e, entries)
                        \/ KeyOf[e] \in running /\ Owed(e)
    /\ pc = "store" => Safe(e)

LossInv ==
  Mode = "NoEventLose" =>
    /\ MainSafe /\ RetrySafe
    /\ CursorCommitted /\ ReadCovered /\ AttemptCovered /\ BatchCovered

(***************************************************************************)
(* The at-least-once mode implements KeyedDelivery.                        *)
(***************************************************************************)
Delivery == INSTANCE KeyedDelivery
              WITH settled <- Settled,
                   LaneOf  <- [e \in Event |-> <<KeyOf[e], TagOf[e]>>]

ImplementsDelivery == Delivery!Spec
EventuallySettled  == Delivery!EventuallySettled

\* Retries end: a key does not stay quarantined for ever.
QuarantineEnds == \A k \in Key : Quarantined(k) ~> ~Quarantined(k)

\* Whatever fails, is lost or restarted, every event is settled in the end, and
\* no key is kept from the main partition for ever.
NothingWaitsForEver == EventuallySettled /\ QuarantineEnds

(***************************************************************************)
(* What the documentation says of the code.                                *)
(***************************************************************************)

\* "No event is processed twice" (config.rs, DeliveryMode::NoDoubleConsume).
NoEventProcessedTwice == reapplied = {}

\* "Maximum number of records of one partition waiting in its retry
\* partition" (config.rs, ConsumerConfig::max_pending_retry).
PendingBounded == Cardinality(pending) <= MaxPending
=============================================================================
