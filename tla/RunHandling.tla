---------------------------- MODULE RunHandling ----------------------------
(***************************************************************************)
(* The events of one run on their way through the handler: decode, reduce  *)
(* and handle_events of consumer/handler.rs, the reductions of             *)
(* partition/algebra.rs, and the retry records in which what failed waits, *)
(* reduced again with the events that were diverted behind it, until an    *)
(* attempt gets through all of it or RetryState::finish gives it up.       *)
(*                                                                         *)
(* An event is the sequence of what it consists of: one value as published,*)
(* several once combined.                                                  *)
(***************************************************************************)
EXTENDS Naturals, Sequences, FiniteSets, SequencesExt

CONSTANTS
  Values,      \* what a published event may be
  MaxChunk,    \* the largest MAX_BATCH
  NumDelays,   \* the length of retry_delays
  MaxArrivals  \* bound: records in all

ASSUME RunAssumption ==
  /\ MaxChunk \in Nat \ {0} /\ NumDelays \in Nat \ {0} /\ MaxArrivals \in Nat

VARIABLES
  law,        \* the Algebra of the event type
  maxBatch,   \* MAX_BATCH of its handler
  stored,     \* the payloads that wait in the retry partition
  events,     \* handle_events: the decoded and reduced run
  start,      \* handle_events: where the chunk begins
  attempt,    \* handle_events: transient failures of the chunk
  call,       \* where handle_events is
  tries,      \* KeyRetry::attempt of what is stored
  arrived,    \* ghost: how many records came
  wanted,     \* ghost: the values that came, in order, less those dropped
  tried,      \* ghost: the events of the chunks of this run that got an answer
  settled,    \* ghost: such events of the runs before, less what will be retried
  repeated    \* ghost: events of failed attempts that got an answer

runVars == <<law, maxBatch, stored, events, start, attempt, call, tries,
             arrived, wanted, tried, settled, repeated>>

Laws == {"NonAssociative", "Commutative", "Idempotent", "IdempotentCommutative",
         "Associative"}

Arrival == [payload : {<<v>> : v \in Values}, associative : BOOLEAN, decodes : BOOLEAN]
\* The header names the law of the type, and the body decodes.
IsRead(r) == r.associative /\ r.decodes
Read(read, r) == IF IsRead(r) THEN Append(read, r.payload) ELSE read
Payloads(rs) ==
  LET read[n \in 0 .. Len(rs)] == IF n = 0 THEN <<>> ELSE Read(read[n - 1], rs[n])
  IN  read[Len(rs)]

\* Vec::dedup: an event goes if it equals the last one that was kept.
Keep(kept, event) ==
  IF kept # <<>> /\ Last(kept) = event THEN kept ELSE Append(kept, event)
Dedup(run) ==
  LET kept[n \in 0 .. Len(run)] == IF n = 0 THEN <<>> ELSE Keep(kept[n - 1], run[n])
  IN  kept[Len(run)]

\* sort_unstable, by an order of the values that is fixed, then dedup.
SortDedup(run) == SetToSeq({run[i] : i \in DOMAIN run})

\* EventSemigroup::combine, in the free semigroup.
Combine(a, b) == a \o b
Combined(run) ==
  LET whole[n \in 0 .. Len(run)] == IF n = 0 THEN <<>> ELSE Combine(whole[n - 1], run[n])
  IN  whole[Len(run)]
Fold(run) == IF run = <<>> THEN <<>> ELSE <<Combined(run)>>

\* Mutant: what equals an earlier event goes, adjacent or not.
ReduceByValue(run) ==
  CASE law \in {"NonAssociative", "Commutative"} -> run
    [] law \in {"Idempotent", "IdempotentCommutative"} -> SortDedup(run)
    [] law = "Associative" -> Fold(run)

\* Algebra::reduce.
Reduce(run) ==
  CASE law \in {"NonAssociative", "Commutative"} -> run
    [] law = "Idempotent" -> Dedup(run)
    [] law = "IdempotentCommutative" -> SortDedup(run)
    [] law = "Associative" -> Fold(run)

\* decode.
Decode(rs) == Reduce(Payloads(rs))

\* The effect of a sequence of events on a state of which only the law is known.
EffectOf(run) ==
  CASE law = "NonAssociative" -> run
    [] law = "Commutative" -> [v \in Values |-> Cardinality({i \in DOMAIN run : run[i] = <<v>>})]
    [] law = "Idempotent" -> Dedup(run)
    [] law = "IdempotentCommutative" -> {run[i] : i \in DOMAIN run}
    [] law = "Associative" -> Combined(run)

-----------------------------------------------------------------------------
ChunkEnd == IF start + maxBatch < Len(events) THEN start + maxBatch ELSE Len(events)
Chunk == SubSeq(events, start + 1, ChunkEnd)

Unsettled == SubSeq(events, start + 1, Len(events))

\* A batch is handled while nothing is stored for its key, an attempt otherwise:
\* everything stored is one run, and stays where it is.
IsAttempt == stored # <<>>

\* handle_run up to the first call.
Handle(rs) ==
  /\ call = "none"
  /\ events' = Decode(rs)
  /\ call' = IF Decode(rs) = <<>> THEN "none" ELSE "handler"
  /\ UNCHANGED <<law, maxBatch, start, attempt, tries, stored, tried, settled, repeated>>

HandleBatch(rs) ==
  /\ stored = <<>> /\ arrived = 0
  /\ Handle(rs)
  /\ arrived' = arrived + Len(rs)
  /\ wanted' = wanted \o Payloads(rs)

StoredRecords == [i \in DOMAIN stored |->
  [payload |-> stored[i], associative |-> TRUE, decodes |-> TRUE]]

HandleStored ==
  /\ IsAttempt
  /\ Handle(StoredRecords)
  /\ UNCHANGED <<arrived, wanted>>

\* handle_events returns.
Return ==
  /\ call' = "none" /\ events' = <<>> /\ start' = 0 /\ attempt' = 0 /\ tried' = <<>>
  /\ UNCHANGED <<law, maxBatch, arrived>>

\* RetryState::finish, which leaves nothing of the run pending.
Removed == stored' = <<>> /\ tries' = 0 /\ repeated' = {}

\* Mutant: the next chunk begins where this one did.
ChunkSettledInPlace ==
  /\ call = "handler"
  /\ attempt' = 0
  /\ call' = IF ChunkEnd = Len(events) THEN "none" ELSE "handler"
  /\ UNCHANGED <<law, maxBatch, stored, events, start, tries, arrived, wanted, tried,
                 settled, repeated>>

\* The chunk was applied, or dropped as unrecoverable: the next one begins, or
\* the run is done.
ChunkSettled ==
  /\ call = "handler"
  /\ \/ /\ ChunkEnd < Len(events)
        /\ start' = ChunkEnd /\ attempt' = 0
        /\ tried' = tried \o Chunk
        /\ UNCHANGED <<law, maxBatch, stored, events, call, tries, arrived, wanted,
                       settled, repeated>>
     \/ /\ ChunkEnd = Len(events)
        /\ settled' = settled \o (tried \o Chunk)
        /\ Return /\ Removed
        /\ UNCHANGED wanted

\* Transient: the same chunk again, after delay_for(delays, attempt), which is
\* the last delay from then on: failures beyond NumDelays are not told apart.
ChunkTransient ==
  /\ call = "handler"
  /\ call' = "sleep"
  /\ attempt' = IF attempt < NumDelays THEN attempt + 1 ELSE attempt
  /\ UNCHANGED <<law, maxBatch, stored, events, start, tries, arrived, wanted, tried,
                 settled, repeated>>

SleepEnds ==
  /\ call = "sleep"
  /\ call' = "handler"
  /\ UNCHANGED <<law, maxBatch, stored, events, start, attempt, tries, arrived, wanted,
                 tried, settled, repeated>>

\* encode: events go, those that cannot be serialized (at most one is lost).
Serialized(run) == {run} \cup {RemoveAt(run, i) : i \in DOMAIN run}

\* Retryable, in a batch: the chunk and what follows it is written to the retry
\* partition.
ChunkToRetry ==
  /\ call = "handler" /\ ~IsAttempt
  /\ \E kept \in Serialized(Unsettled) :
       /\ stored' = kept
       /\ wanted' = IF kept = Unsettled THEN wanted ELSE settled \o (tried \o kept)
  /\ settled' = settled \o tried
  /\ Return
  /\ UNCHANGED <<tries, repeated>>

\* Retryable, in an attempt: the records of the run stay pending as they are, and
\* the next attempt begins with the chunks that were answered in this one.
AttemptFails ==
  /\ call = "handler" /\ IsAttempt /\ tries + 1 < NumDelays
  /\ tries' = tries + 1
  /\ repeated' = repeated \cup ToSet(tried)
  /\ Return
  /\ UNCHANGED <<stored, wanted, settled>>

\* The last attempt: what was not answered in it is dropped.
GaveUp ==
  /\ call = "handler" /\ IsAttempt /\ tries + 1 >= NumDelays
  /\ settled' = settled \o tried
  /\ wanted' = settled \o tried
  /\ Return /\ Removed

\* Later events of the key are diverted: reduce_run, behind what is stored.
Divert(rs) ==
  /\ call = "none" /\ stored # <<>>
  /\ arrived' = arrived + Len(rs)
  /\ \E kept \in Serialized(Decode(rs)) :
       /\ stored' = stored \o kept
       /\ wanted' = wanted \o (IF kept = Decode(rs) THEN Payloads(rs) ELSE kept)
  /\ UNCHANGED <<law, maxBatch, events, start, attempt, call, tries, tried, settled,
                 repeated>>

RunInit ==
  /\ law \in Laws /\ maxBatch \in 1 .. MaxChunk
  /\ stored = <<>> /\ events = <<>>
  /\ start = 0 /\ attempt = 0 /\ tries = 0
  /\ call = "none"
  /\ arrived = 0
  /\ wanted = <<>> /\ tried = <<>> /\ settled = <<>> /\ repeated = {}

\* Runs of n records and fewer: at most one is not read, as for any the rest goes
\* on.
Runs == [n \in 0 .. MaxArrivals |->
  {rs \in BoundedSeq(Arrival, n) : rs # <<>> /\
     \A i, j \in DOMAIN rs : i # j => IsRead(rs[i]) \/ IsRead(rs[j])}]

RunNext ==
  \/ call = "none" /\ \E rs \in Runs[MaxArrivals - arrived] : HandleBatch(rs) \/ Divert(rs)
  \/ HandleStored \/ ChunkSettled \/ ChunkTransient \/ SleepEnds
  \/ ChunkToRetry \/ AttemptFails \/ GaveUp

RunSpec ==
  /\ RunInit /\ [][RunNext]_runVars
  /\ WF_runVars(SleepEnds) /\ SF_runVars(ChunkSettled)

-----------------------------------------------------------------------------
\* What the run, or the attempt to come, has yet to hand over.
Rest == IF call = "none" THEN stored ELSE Unsettled

\* The laws of algebra.rs (lines 15-23, 48-49), over the whole way of a run: cut
\* into chunks, written back and reduced again with later events, perhaps
\* several times, what was and what will be settled has the effect of the events
\* as they came, less those that could not be read or written and those given
\* up.  A failed attempt may have handed over chunks that succeeded: they are
\* handed over again (repeated), and nothing of them is missing from the attempt
\* that follows, so that a law under which repeating is harmless sees no
\* difference.
EffectKept ==
  /\ EffectOf(settled \o (tried \o Rest)) = EffectOf(wanted)
  /\ repeated \subseteq ToSet(tried \o Rest)

\* A handler that is not down forever gets through the run, however often it
\* was transient (error.rs:13-16).
RunEnds == []<>(call = "none")
=============================================================================
