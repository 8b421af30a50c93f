--------------------------- MODULE StreamBuffer ---------------------------
(***************************************************************************)
(* wakuwaku-entity/src/redis/dynamic/stream_buffer.rs: one buffer, whoever *)
(* appends to it and ends it, and a subscriber from one index on.          *)
(*                                                                         *)
(* A body is known by the life of the buffer it was appended in (a buffer  *)
(* that expired or was removed starts anew) and by its index.  The ID of   *)
(* an entry is 0-<n>, n its place from 1 on.  Whoever reads a body may be   *)
(* unable to: it is bytes, and another version may have written them.      *)
(***************************************************************************)
EXTENDS RedisServer, Sequences, SequencesExt

CONSTANTS
  BufferTtl,    \* StreamBuffer::ttl
  MaxBodies,    \* bound: bodies in one life of the buffer
  MaxLives,     \* bound: lives of the buffer
  MaxFailures   \* bound: failed reads

ASSUME StreamBufferAssumption ==
  BufferTtl \in Nat /\ MaxBodies \in Nat /\ MaxLives \in Nat /\ MaxFailures \in Nat

VARIABLES
  buffer,     \* the stream
  bufferTtl,  \* the time to live of its key
  life,       \* how often it was started
  reader,     \* the subscription: where recv stands, and its cursor
  got,        \* what recv came to, in order: the bodies, and those it failed on
  endSeen,    \* ghost: the End that ended the subscription
  failures

bufferVars == <<buffer, bufferTtl, life, reader, got, endSeen, failures>>

\* Item.
BodyAt(i, readable) == [is |-> "body", life |-> life', index |-> i, readable |-> readable]
EndAt(i) == [is |-> "end", life |-> life', index |-> i, readable |-> TRUE]

NoEnd == [is |-> "none"]

Ended(entries) == entries # <<>> /\ Last(entries).is = "end"

\* The entries after a cursor.
After(entries, n) == SubSeq(entries, n + 1, Len(entries))

\* The subscription waits in XREAD BLOCK, and is woken by an entry after its
\* cursor, within the command that adds it.
Wake(entries) ==
  IF reader.at = "blocked" /\ After(entries, reader.after) # <<>>
  THEN reader' = [reader EXCEPT !.at = "idle", !.after = Len(entries),
                                !.pending = After(entries, reader.after)]
  ELSE UNCHANGED reader

\* A key that is gone is created again.
NextLife == life' = IF buffer = <<>> THEN life + 1 ELSE life

\* XADD at the next ID, and PEXPIRE.
Extended(entry) ==
  /\ buffer' = Append(buffer, entry)
  /\ bufferTtl' = Millis(BufferTtl)
  /\ Wake(buffer')

APPEND(readable) ==
  /\ ~ Ended(buffer)
  /\ NextLife
  /\ Extended(BodyAt(Len(buffer), readable))

FINISH ==
  /\ ~ Ended(buffer)
  /\ NextLife
  /\ Extended(EndAt(Len(buffer)))

MayStart == buffer = <<>> => life < MaxLives

BufferAppend ==
  /\ MayStart /\ Len(buffer) < MaxBodies
  /\ \E readable \in BOOLEAN : APPEND(readable)
  /\ UNCHANGED <<got, endSeen, failures>>

BufferFinish ==
  /\ MayStart
  /\ FINISH
  /\ UNCHANGED <<got, endSeen, failures>>

BufferRemove ==
  /\ buffer # <<>>
  /\ buffer' = <<>>
  /\ bufferTtl' = 0
  /\ UNCHANGED <<life, reader, got, endSeen, failures>>

\* The bodies among these entries, in order.
BodiesAmong(entries) ==
  LET upTo[n \in 0 .. Len(entries)] ==
        IF n = 0 THEN <<>>
        ELSE IF entries[n].is = "body" THEN Append(upTo[n - 1], entries[n])
        ELSE upTo[n - 1]
  IN upTo[Len(entries)]

Unparsed(entries) == \E i \in 1 .. Len(entries) : ~ entries[i].readable

\* StreamBufferRead: the bodies from an index on, and whether they are all.  One
\* that cannot be read fails the whole read.
ReadFailed == [finished |-> FALSE]
Contents(from) ==
  LET entries == After(buffer, from)
  IN IF Unparsed(entries) THEN ReadFailed
     ELSE [bodies |-> BodiesAmong(entries),
           finished |-> \E i \in 1 .. Len(entries) : entries[i].is = "end"]

\* StreamBufferSubscribe, which sends nothing.
Subscription(from) ==
  [at |-> "idle", from |-> from, after |-> from, pending |-> <<>>, wait |-> 0]

-----------------------------------------------------------------------------
\* StreamBufferSubscription::recv, step by step.

\* StreamCursor::next with an entry at hand, which is taken before it is parsed: a
\* recv that fails on it leaves it behind, and the next one goes on after it.
RecvPending ==
  /\ reader.at = "idle" /\ reader.pending # <<>>
  /\ LET entry == Head(reader.pending)
     IN /\ reader' = [reader EXCEPT !.pending = Tail(@),
                        !.at = IF entry.is = "end" THEN "ended" ELSE "idle"]
        /\ got' = IF entry.is = "body" THEN Append(got, entry) ELSE got
        /\ endSeen' = IF entry.is = "end" THEN entry ELSE endSeen
  /\ UNCHANGED <<buffer, bufferTtl, life, failures>>

\* Mutant: the cursor moves on by one entry, whatever was read.
RecvReadFirst ==
  /\ reader.at = "idle" /\ reader.pending = <<>>
  /\ LET entries == After(buffer, reader.after) IN
     \/ \E n \in 1 .. Len(entries) :
          reader' = [reader EXCEPT !.pending = SubSeq(entries, 1, n), !.after = @ + 1]
     \/ /\ entries = <<>>
        /\ reader' = [reader EXCEPT !.at = "blocked", !.wait = Millis(BufferTtl)]
  /\ UNCHANGED <<buffer, bufferTtl, life, got, endSeen, failures>>

\* XREAD: what comes after the cursor, as much of it as one reply holds
\* (READ_BATCH, here any number), or a wait of one TTL.
RecvRead ==
  /\ reader.at = "idle" /\ reader.pending = <<>>
  /\ LET entries == After(buffer, reader.after) IN
     \/ \E n \in 1 .. Len(entries) :
          reader' = [reader EXCEPT !.pending = SubSeq(entries, 1, n), !.after = @ + n]
     \/ /\ entries = <<>>
        /\ reader' = [reader EXCEPT !.at = "blocked", !.wait = Millis(BufferTtl)]
  /\ UNCHANGED <<buffer, bufferTtl, life, got, endSeen, failures>>

\* Mutant: after a wait that timed out, another one.
RecvCheckAgain ==
  /\ reader.at = "checking"
  /\ reader' = [reader EXCEPT !.at = "idle"]
  /\ UNCHANGED <<buffer, bufferTtl, life, got, endSeen, failures>>

\* After a wait that timed out: EXISTS.
RecvCheck ==
  /\ reader.at = "checking"
  /\ reader' = [reader EXCEPT !.at = IF buffer = <<>> THEN "gone" ELSE "idle"]
  /\ UNCHANGED <<buffer, bufferTtl, life, got, endSeen, failures>>

\* A read fails, and the caller tries again.
RecvFails ==
  /\ failures < MaxFailures
  /\ failures' = failures + 1
  /\ reader.at \in {"blocked", "checking"}
  /\ reader' = [reader EXCEPT !.at = "idle", !.wait = 0]
  /\ UNCHANGED <<buffer, bufferTtl, life, got, endSeen>>

\* A millisecond passes.
BufferTick ==
  /\ buffer' = IF Expires(bufferTtl) THEN <<>> ELSE buffer
  /\ bufferTtl' = Less(bufferTtl)
  /\ reader' = [reader EXCEPT !.wait = Less(@),
                  !.at = IF @ = "blocked" /\ Expires(reader.wait) THEN "checking" ELSE @]
  /\ UNCHANGED <<life, got, endSeen, failures>>

BufferInit ==
  /\ buffer = <<>>
  /\ bufferTtl = 0
  /\ life = 0
  /\ reader \in {Subscription(from) : from \in 0 .. MaxBodies}
  /\ got = <<>>
  /\ endSeen = NoEnd
  /\ failures = 0

RecvStep == RecvPending \/ RecvRead \/ RecvCheck

BufferNext ==
  \/ BufferAppend \/ BufferFinish \/ BufferRemove
  \/ RecvStep \/ RecvFails
  \/ BufferTick

BufferSpec == BufferInit /\ [][BufferNext]_bufferVars

-----------------------------------------------------------------------------
BufferTypeOK ==
  /\ Len(buffer) <= MaxBodies + 1 /\ bufferTtl \in 0 .. Millis(BufferTtl)
  /\ (buffer = <<>>) = (bufferTtl = 0)
  /\ reader.at \in {"idle", "blocked", "checking", "ended", "gone"}
  /\ reader.after \in Nat /\ reader.wait \in 0 .. Millis(BufferTtl)

\* Recv comes to the bodies at the indices from the requested one on, each once
\* and in order, whatever it read in a batch, waited for or tried again; a body it
\* fails on counts, as it is not tried again.  As long as the buffer is the one the
\* first came from, they are what a plain read returns first (lines 164 to 179), or
\* it fails like recv did.  The subscription cannot tell a buffer that was started
\* anew within a TTL from the one before (against line 192): it goes on in it, at
\* the index it had come to.
SubscriberInOrder ==
  /\ \A i \in 1 .. Len(got) : got[i].index = reader.from + i - 1
  /\ \A i, j \in 1 .. Len(got) : i < j => got[i].life <= got[j].life
  /\ got # <<>> /\ buffer # <<>> /\ got[1].life = life =>
       /\ IsPrefix(got, BodiesAmong(After(buffer, reader.from)))
       /\ Unparsed(got) => Contents(reader.from) = ReadFailed

\* A subscription ends without an error only after the last body of a finished
\* buffer (line 409): none is between what it came to and that end.
EndsAfterLast ==
  (endSeen # NoEnd) = (reader.at = "ended")
  /\ (endSeen # NoEnd => endSeen.index = reader.from + Len(got))

\* While it waits, everything it could read has been read: a wake-up is never
\* missed.
NothingMissed ==
  reader.at = "blocked" => After(buffer, reader.after) = <<>>

\* What a subscriber gets is the buffer from its index on: in order, whole but for
\* what it fails on, and ended by its end alone.
BufferFaithful == BufferTypeOK /\ SubscriberInOrder /\ EndsAfterLast /\ NothingMissed
=============================================================================
