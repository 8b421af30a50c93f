---------------------------- MODULE KeyExecution ----------------------------
(***************************************************************************)
(* The life of one key of one partition: its events are planned, executed  *)
(* stage by stage (consumer/execute.rs), and what fails is written to the  *)
(* retry partition in a form that is planned again (consumer/encode.rs),   *)
(* attempt after attempt, together with what is diverted behind it.        *)
(*                                                                         *)
(* PartitionConsumer has many keys whose events need no order between      *)
(* types; this module has one key whose events have every ordering.  What  *)
(* the other keys do is left open: they fill the backlog at will, and they *)
(* do not move the offsets.  Delivery is at least once.                    *)
(*                                                                         *)
(* As there, events are numbered in log order, the retry partition is a    *)
(* sequence, and an offset is the number of records below it.              *)
(***************************************************************************)
EXTENDS Plan

CONSTANTS
  TheKey,      \* the key, the only one of the plans
  NumEvents,   \* bound: events published for the key
  PollCount,   \* ConsumerConfig.poll_count
  NumDelays,   \* how many delays ConsumerConfig.retry_delays holds
  MaxCrashes   \* bound: aborts and crashes

ASSUME ExecutionAssumption ==
  /\ Key = {TheKey}
  /\ NumEvents \in Nat
  /\ PollCount \in Nat \ {0} /\ NumDelays \in Nat \ {0}
  /\ MaxCrashes \in Nat

VARIABLES
  log,          \* the headers of the published events
  retryLog,     \* the retry partition: an event and its headers as written
  mainStored,   \* stored offset of the main partition
  retryStored,  \* stored offset of the retry partition
  pc,           \* what the task does next
  mainNext,     \* main cursor
  retryNext,    \* retry cursor
  pending,      \* retry positions of the pending records
  attempt,      \* failed attempts of the key
  items,        \* what is executed: retry positions, or main events
  plan,         \* the plan of items
  todo,         \* indices into items that are not handled yet
  failed,       \* types whose run failed in the current stage
  settled,      \* events handled or given up
  crashes

server == <<log, retryLog, mainStored, retryStored>>
task   == <<mainNext, retryNext, pending, attempt>>
work   == <<items, plan, todo, failed>>
vars   == <<server, pc, task, work, settled, crashes>>

Event == 1 .. Len(log)

TypeOK ==
  /\ log \in Seq(Record) /\ Len(log) <= NumEvents
  /\ retryLog \in Seq([event : Event, header : Record])
  /\ mainStored \in 0 .. Len(log) /\ retryStored \in 0 .. Len(retryLog)
  /\ pc \in {"drain", "due", "attempt", "commit", "poll", "plan", "execute", "store"}
  /\ mainNext \in mainStored .. Len(log)
  /\ retryNext \in retryStored .. Len(retryLog)
  /\ pending \subseteq retryStored + 1 .. retryNext
  /\ attempt \in 0 .. NumDelays - 1
  /\ todo \subseteq 1 .. Len(items)
  /\ failed \subseteq Tag
  /\ settled \subseteq Event
  /\ crashes \in 0 .. MaxCrashes
-----------------------------------------------------------------------------
Ascending(S) == CHOOSE s \in [1 .. Cardinality(S) -> S] :
                  \A i, j \in DOMAIN s : i < j => s[i] < s[j]

\* Plan some work: the pending records, or the main batch.
Start(seq, headers) ==
  /\ items' = seq
  /\ plan' = PlanOf(headers)
  /\ todo' = DOMAIN seq
  /\ failed' = {}

NoWork == items' = <<>> /\ plan' = EmptyPlan /\ todo' = {} /\ failed' = {}

EventOf(i) == IF pc = "attempt" THEN retryLog[items[i]].event ELSE items[i]
TagOf(i)   == plan.records[i].tag

\* Mutant: the runs of every stage may go.
InAnyStage(i) == i \in todo

\* Only the first unfinished stage runs; its runs are independent of each other.
InStage(i)    == i \in todo /\ \A j \in todo : ~StageBefore(plan, j, i)
Runnable(i)   == InStage(i) /\ TagOf(i) \notin failed

\* The key is done, or every run of the stage it failed in has ended.
KeyEnded == \A i \in todo : ~Runnable(i)

\* The event and header of each record that encode_key writes for S.
Written(S) ==
  LET order   == WrittenOrder(plan, S)
      headers == Encode(plan, S)
  IN  [n \in DOMAIN order |-> [event |-> EventOf(order[n]), header |-> headers[n]]]

\* RetryState::committable: just before the first pending record.
Committable ==
  IF pending = {} THEN retryNext
  ELSE (CHOOSE p \in pending : \A q \in pending : p <= q) - 1

\* Mutant: attempts are not counted.
SameAttempt == attempt

NextAttempt == attempt + 1
-----------------------------------------------------------------------------
Init ==
  /\ log = <<>> /\ retryLog = <<>> /\ mainStored = 0 /\ retryStored = 0
  /\ pc = "drain" /\ mainNext = 0 /\ retryNext = 0 /\ pending = {} /\ attempt = 0
  /\ items = <<>> /\ plan = EmptyPlan /\ todo = {} /\ failed = {}
  /\ settled = {} /\ crashes = 0

Publish(tag, ordering) ==
  /\ Len(log) < NumEvents
  /\ log' = Append(log, [key |-> TheKey, tag |-> tag, ordering |-> ordering])
  /\ UNCHANGED <<retryLog, mainStored, retryStored, pc, task, work, settled, crashes>>

\* The retry partition is read to its end; a key that was not quarantined
\* starts with no failed attempts.
Drain ==
  /\ pc = "drain"
  /\ retryNext' = Len(retryLog)
  /\ pending' = pending \cup (retryNext + 1 .. Len(retryLog))
  /\ attempt' = IF pending = {} THEN 0 ELSE attempt
  /\ pc' = "due"
  /\ UNCHANGED <<server, mainNext, work, settled, crashes>>

\* The key is due: one attempt over all its pending records.
StartAttempt ==
  /\ pc = "due" /\ pending # {}
  /\ LET seq == Ascending(pending)
     IN  Start(seq, [n \in DOMAIN seq |-> retryLog[seq[n]].header])
  /\ pc' = "attempt"
  /\ UNCHANGED <<server, task, settled, crashes>>

\* No pending record, or its time has not come.
NothingDue ==
  /\ pc = "due"
  /\ pc' = "commit"
  /\ UNCHANGED <<server, task, work, settled, crashes>>

\* A handler call with one event of a run: the event is accepted, or dropped
\* after an unrecoverable error.
HandleNext(i) ==
  /\ pc \in {"attempt", "execute"}
  /\ Runnable(i) /\ \A j \in todo : SameRun(plan, i, j) => i <= j
  /\ todo' = todo \ {i}
  /\ settled' = settled \cup {EventOf(i)}
  /\ UNCHANGED <<server, pc, task, items, plan, failed, crashes>>

\* A retryable error ends a run; later stages do not start.
FailRun(i) ==
  /\ pc \in {"attempt", "execute"}
  /\ Runnable(i)
  /\ failed' = failed \cup {TagOf(i)}
  /\ UNCHANGED <<server, pc, task, items, plan, todo, settled, crashes>>

\* RetryState::finish.  Completed runs leave, failed runs stay whole until the
\* last attempt failed, runs that did not start stay.
FinishAttempt ==
  /\ pc = "attempt" /\ KeyEnded
  /\ LET unfinished  == {i \in DOMAIN items : \E j \in todo : SameRun(plan, i, j)}
         failedRuns  == {i \in unfinished : \E j \in todo : SameRun(plan, i, j) /\ InStage(j)}
         giveUp      == failed # {} /\ NextAttempt >= NumDelays
         kept        == IF giveUp THEN unfinished \ failedRuns ELSE unfinished
     IN  /\ pending' = {items[i] : i \in kept}
         /\ settled' = IF giveUp THEN settled \cup {EventOf(i) : i \in failedRuns}
                       ELSE settled
         /\ attempt' = IF failed = {} \/ giveUp THEN 0 ELSE NextAttempt
  /\ NoWork
  /\ pc' = "commit"
  /\ UNCHANGED <<server, mainNext, retryNext, crashes>>

CommitRetry ==
  /\ pc = "commit"
  /\ retryStored' = Committable
  /\ pc' = "poll"
  /\ UNCHANGED <<log, retryLog, mainStored, task, work, settled, crashes>>

PollNothing ==
  /\ pc = "poll" /\ mainNext = Len(log)
  /\ pc' = "drain"
  /\ UNCHANGED <<server, task, work, settled, crashes>>

\* A main batch is planned.
PollMain ==
  /\ pc = "poll" /\ mainNext < Len(log)
  /\ LET count == IF mainNext + PollCount <= Len(log) THEN PollCount ELSE Len(log) - mainNext
     IN  Start([n \in 1 .. count |-> mainNext + n], SubSeq(log, mainNext + 1, mainNext + count))
  /\ pc' = "plan"
  /\ UNCHANGED <<server, task, settled, crashes>>

\* A quarantined key is not executed but written out whole.
DivertBatch ==
  /\ pc = "plan" /\ pending # {}
  /\ retryLog' = retryLog \o Written(todo)
  /\ pc' = "store"
  /\ UNCHANGED <<log, mainStored, retryStored, task, work, settled, crashes>>

StartBatch ==
  /\ pc = "plan" /\ pending = {}
  /\ pc' = "execute"
  /\ UNCHANGED <<server, task, work, settled, crashes>>

\* Mutant: only the stage that failed is written out.
WriteFailedStage ==
  /\ pc = "execute" /\ KeyEnded /\ todo # {}
  /\ retryLog' = retryLog \o Written({i \in todo : InStage(i)})
  /\ pc' = "store"
  /\ UNCHANGED <<log, mainStored, retryStored, task, work, settled, crashes>>

\* A key that failed is written out from where it failed.
WriteFailedBatch ==
  /\ pc = "execute" /\ KeyEnded /\ todo # {}
  /\ retryLog' = retryLog \o Written(todo)
  /\ pc' = "store"
  /\ UNCHANGED <<log, mainStored, retryStored, task, work, settled, crashes>>

\* The backlog is full, with what other keys left in it.
DropFailedBatch ==
  /\ pc = "execute" /\ KeyEnded /\ todo # {}
  /\ settled' = settled \cup {EventOf(i) : i \in todo}
  /\ pc' = "store"
  /\ UNCHANGED <<server, task, work, crashes>>

FinishBatch ==
  /\ pc = "execute" /\ todo = {}
  /\ pc' = "store"
  /\ UNCHANGED <<server, task, work, settled, crashes>>

StoreMain ==
  /\ pc = "store"
  /\ mainNext' = mainNext + Len(items)
  /\ mainStored' = mainNext + Len(items)
  /\ NoWork
  /\ pc' = "drain"
  /\ UNCHANGED <<log, retryLog, retryStored, retryNext, pending, attempt, settled, crashes>>

\* The task dies and starts again from the stored offsets.
Crash ==
  /\ crashes < MaxCrashes
  /\ crashes' = crashes + 1
  /\ mainNext' = mainStored /\ retryNext' = retryStored
  /\ pending' = {} /\ attempt' = 0
  /\ NoWork
  /\ pc' = "drain"
  /\ UNCHANGED <<server, settled>>
-----------------------------------------------------------------------------
TaskStep ==
  \/ Drain \/ StartAttempt \/ FinishAttempt \/ CommitRetry
  \/ PollNothing \/ PollMain \/ DivertBatch \/ StartBatch
  \/ WriteFailedBatch \/ DropFailedBatch \/ FinishBatch \/ StoreMain
  \/ \E i \in todo : HandleNext(i)

Next ==
  \/ \E tag \in Tag, ordering \in Ordering : Publish(tag, ordering)
  \/ TaskStep \/ NothingDue
  \/ \E i \in todo : FailRun(i)
  \/ Crash

Spec == Init /\ [][Next]_vars

\* The loop never stops by itself and every handler call returns: a step of the
\* loop is possible in every state.  A key that waits is due in the end, once
\* its delay is over.  These are the weak fairness of LoopStep and the strong
\* fairness of StartAttempt with their ENABLED conditions written out.
LoopStep == TaskStep \/ NothingDue \/ \E i \in todo : FailRun(i)

FairSpec ==
  /\ Spec
  /\ []<><<LoopStep>>_vars
  /\ []<>(pc = "due" /\ pending # {}) => []<><<StartAttempt>>_vars
-----------------------------------------------------------------------------
\* The promise of EventAtomicOrdering over the whole life of the events, through
\* failures, diversions, attempts, give-ups and crashes: no event is handled
\* for the first time, or given up, before an event that must precede it.
OrderKept ==
  \A d, e \in Event :
    d < e /\ Required(log[d], log[e]) /\ e \in settled => d \in settled

\* Fences also keep the events on their other side where they are.
FencesKept ==
  \A d, e \in Event :
    d < e /\ Fenced(log[d], log[e]) /\ e \in settled => d \in settled

\* Both promises of EventAtomicOrdering.
DemandsKept == OrderKept /\ FencesKept

\* No stage of a failed or diverted key is forgotten: what was committed is
\* settled or waits above the stored retry offset.
NothingForgotten ==
  \A e \in 1 .. mainStored :
    e \in settled \/ \E p \in retryStored + 1 .. Len(retryLog) : retryLog[p].event = e

\* Whatever fails, every event is handled or given up in the end, however many
\* stages of its key stand before it: as at most NumEvents are published, the
\* whole log is settled time and again.
EventuallySettled == []<>(Event \subseteq settled)
=============================================================================
