---------------------------- MODULE TokenBucket ----------------------------
(***************************************************************************)
(* wakuwaku-entity/src/redis/collection/token_bucket_limiter.rs: the       *)
(* bucket of one name.  The script counts tokens in doubles.  Here they    *)
(* are counted in units small enough to measure what a double is off by:   *)
(* one token is period_micros * Grain units, and a millisecond adds        *)
(* 1000 * Refill * Grain of them.  A sum or quotient is rounded: it is off *)
(* by up to Rounding units, either way.                                    *)
(*                                                                         *)
(* The script reads a wall clock.  Only its distance from the hash's "ts"  *)
(* matters, so the model keeps that: "age" grows with time and falls when  *)
(* the clock is set back, which also postpones the expiry of the key.      *)
(***************************************************************************)
EXTENDS RedisServer, Integers, FiniteSetsExt

CONSTANTS
  Capacity,  \* tokens a bucket holds
  Refill,    \* tokens added every Period
  Period,    \* in microseconds
  Costs,     \* what callers ask for
  Grain,     \* units in a token, for each microsecond of Period
  Rounding,  \* what the doubles of one result are off by at most, in units
  MaxDrift,  \* bound: roundings that add up before the bucket is full again
  MaxBack    \* bound: how far the clock is ever behind "ts"

\* What flows in within a millisecond is more than what a double is off by.
ASSUME BucketAssumption ==
  /\ Capacity \in Nat /\ Refill \in Nat \ {0} /\ Period \in Nat
  /\ Grain \in Nat \ {0} /\ Rounding \in Nat /\ Rounding <= 1000 * Refill * Grain
  /\ Costs \subseteq Nat /\ MaxBack \in Nat /\ MaxDrift \in Nat

VARIABLES
  bucket,     \* the hash: tokens, and how long ago it was written
  bucketTtl,  \* the time to live of its key, 0 if it is gone
  admission,  \* the output of the last acquire
  level,      \* ghost: an ideal bucket, refilled by the time that passes
  drift,      \* ghost: what the roundings since both were full add up to
  stepped,    \* ghost: the clock was set back during the life of the key
  promise     \* ghost: the retry_after somebody was told and waits for

bucketVars == <<bucket, bucketTtl, admission, level, drift, stepped, promise>>

PeriodMicros == IF Period < 1 THEN 1 ELSE Period

OneToken == PeriodMicros * Grain
Full == Capacity * OneToken
Inflow == 1000 * Refill * Grain

\* Mutant: rounded down.
RefillingDown(units) == units \div Inflow

\* Time for this many units to flow in, in milliseconds, rounded up.
Refilling(units) == (units + Inflow - 1) \div Inflow

\* What a result in doubles may be whose exact value is x.
Rounded(x) == x - Rounding .. x + Rounding

\* The milliseconds the script may come to for this many units.  Both of its
\* results are at least 1: until_full by the script's max, retry_after because it
\* is the ceiling of something positive.
Waits(units) == {Max({Refilling(u), 1}) : u \in Rounded(units)}

NoBucket == [tokens |-> Full, age |-> 0]
NoPromise == [cost |-> 0, left |-> 0]

\* What the bucket holds now, and what the first part of the script may come to.
\* Nothing is added where no time has passed, and the limit is exact.
Available == Min({Full, bucket.tokens + Max({bucket.age, 0}) * Inflow})
Refilled ==
  IF bucket.age <= 0 THEN {bucket.tokens}
  ELSE {Min({Full, sum}) : sum \in Rounded(bucket.tokens + bucket.age * Inflow)}

Allowed(remaining) == [allowed |-> TRUE, remaining |-> remaining]
Denied(retryAfter) == [allowed |-> FALSE, retryAfter |-> retryAfter]

\* The script's retry_after for a request larger than the bucket.
Never == -1

\* The second part of the script, for tokens it came to.
Admit(tokens, units) ==
  LET left == IF tokens >= units THEN tokens - units ELSE tokens
  IN /\ bucket' = [tokens |-> left, age |-> 0]
     /\ bucketTtl' \in Waits(Full - left)
     /\ IF tokens >= units THEN admission' = Allowed(left \div OneToken)
        ELSE \E wait \in Waits(units - tokens) : admission' = Denied(wait)

ACQUIRE(cost) ==
  IF cost > Capacity
  THEN admission' = Denied(Never) /\ UNCHANGED <<bucket, bucketTtl>>
  ELSE \E tokens \in Refilled : Admit(tokens, cost * OneToken)

\* TokenBucketAcquire.  Of two who wait, either is followed.
AcquireTokens(cost) ==
  /\ drift <= MaxDrift
  /\ ACQUIRE(cost)
  /\ level' = IF admission'.allowed THEN level - cost * OneToken ELSE level
  /\ drift' = IF bucket.age > 0 /\ admission' # Denied(Never) THEN drift + Rounding ELSE drift
  /\ \/ admission'.allowed /\ promise' = NoPromise
     \/ ~ admission'.allowed /\ promise' = promise
     \/ /\ ~ admission'.allowed /\ admission' # Denied(Never)
        /\ promise' = [cost |-> cost, left |-> admission'.retryAfter]
  /\ UNCHANGED stepped

\* TokenBucketReset.
ResetBucket ==
  /\ bucket' = NoBucket
  /\ bucketTtl' = 0
  /\ level' = Full /\ drift' = 0
  /\ stepped' = FALSE
  /\ promise' = NoPromise
  /\ UNCHANGED admission

\* A millisecond passes.  An expiry that was rounded removes a key that lacks what
\* it was off by.  Roundings no longer count once both buckets are full and nobody
\* waits.
BucketTick ==
  /\ bucket' = IF bucketTtl <= 1 THEN NoBucket ELSE [bucket EXCEPT !.age = @ + 1]
  /\ bucketTtl' = Less(bucketTtl)
  /\ level' = Min({Full, level + Inflow})
  /\ stepped' = (stepped /\ bucketTtl > 1)
  /\ promise' = [promise EXCEPT !.left = Less(@)]
  /\ drift' = IF level' = Full /\ Available' = Full /\ promise'.left = 0 THEN 0
              ELSE IF bucketTtl = 1 THEN drift + Rounding ELSE drift
  /\ UNCHANGED admission

\* The server's clock is set back.  What was promised before no longer counts.
ClockBack(by) ==
  /\ bucketTtl > 0
  /\ bucket.age - by >= - MaxBack
  /\ bucket' = [bucket EXCEPT !.age = @ - by]
  /\ bucketTtl' = bucketTtl + by
  /\ stepped' = TRUE
  /\ promise' = NoPromise
  /\ UNCHANGED <<admission, level, drift>>

BucketInit ==
  /\ bucket = NoBucket
  /\ bucketTtl = 0
  /\ admission = Allowed(Capacity)
  /\ level = Full /\ drift = 0
  /\ stepped = FALSE
  /\ promise = NoPromise

BucketNext ==
  \/ \E cost \in Costs : AcquireTokens(cost)
  \/ ResetBucket
  \/ BucketTick
  \/ \E by \in 1 .. MaxBack : ClockBack(by)

BucketSpec == BucketInit /\ [][BucketNext]_bucketVars

-----------------------------------------------------------------------------
\* What the bucket holds, against an ideal one that is refilled by the time that
\* really passes.  It never holds more than the roundings account for, so no
\* window of time admits more than the capacity, what flows in meanwhile and
\* these, even when the clock is set back and the time until it catches up is
\* counted from the earlier "ts" (lines 61 and 72).
AdmitsWithinRate == Available <= level + drift

\* While the clock only runs forward, no more than the roundings is lost either:
\* neither the expiry nor the removal of the key changes what the bucket holds
\* ("its key expires once it would be full again", line 131).
NothingLost == ~ stepped => level <= Available + drift

\* retry_after is the first millisecond at which the same request would be
\* admitted if nothing else takes any (lines 222-223), up to the roundings, those
\* of requests that were denied meanwhile among them.
RetryAfterNear ==
  promise # NoPromise =>
    IF promise.left = 0 THEN Available + drift + Rounding >= promise.cost * OneToken
                        ELSE Available < promise.cost * OneToken + drift + Rounding

\* The limiter admits what its rate allows, neither more nor less, and says
\* when, up to what its roundings add up to: through expiries, resets and a clock
\* that steps back.
BucketKept == AdmitsWithinRate /\ NothingLost /\ RetryAfterNear
=============================================================================
