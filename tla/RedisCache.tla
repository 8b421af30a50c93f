---------------------------- MODULE RedisCache ----------------------------
(***************************************************************************)
(* wakuwaku-entity/src/redis/collection/cache.rs: one item of a Cache and  *)
(* of a HashedCache, written by anyone, and a reader that keeps a copy of  *)
(* the hashed one and compares it by hash.                                 *)
(***************************************************************************)
EXTENDS RedisServer

CONSTANTS
  Body,        \* serialized bodies
  Unreadable,  \* those the reader's type refuses, of another version say
  CacheTtls    \* the TTLs of the cache values that share the name

\* No body: of an item that is not there, or that was not read yet.
Nothing == "nothing"

ASSUME CacheAssumption ==
  /\ Nothing \notin Body /\ Unreadable \subseteq Body
  /\ CacheTtls \subseteq Nat /\ CacheTtls # {}

VARIABLES
  plain,   \* the string key of the Cache
  hashed,  \* the hash key of the HashedCache
  copy,    \* the body and hash the reader last got
  result,  \* the output of the last read
  stored,  \* ghost: what the read item held when it was read
  age      \* ghost: per key, the time since the last put

cacheVars == <<plain, hashed, copy, result, stored, age>>

\* BLAKE3: equal hashes are of equal bodies.
HashOf(b) == <<"blake3", b>>

Absent == [body |-> Nothing, ttl |-> 0]
HashedAbsent == [body |-> Nothing, hash |-> Nothing, ttl |-> 0]

\* Option<B> and Freshness<B>: the outputs of a read.
Missing == [is |-> "missing"]
Unchanged == [is |-> "unchanged"]
Found(b) == [is |-> "found", body |-> b]
Failed == [is |-> "error"]

\* from_bytes.
Parse(b) == IF b \in Unreadable THEN Failed ELSE Found(b)

-----------------------------------------------------------------------------
CachePut(b, d) ==
  /\ plain' = [body |-> b, ttl |-> Millis(d)]
  /\ age' = [age EXCEPT !.plain = 0]
  /\ UNCHANGED <<hashed, copy, result, stored>>

CacheGet ==
  /\ result' = IF plain = Absent THEN Missing ELSE Parse(plain.body)
  /\ stored' = plain.body
  /\ UNCHANGED <<plain, hashed, copy, age>>

CacheRemove ==
  /\ plain # Absent
  /\ plain' = Absent
  /\ UNCHANGED <<hashed, copy, result, stored, age>>

\* HSET of both fields and PEXPIRE in one transaction.
HashedCachePut(b, d) ==
  /\ hashed' = [body |-> b, hash |-> HashOf(b), ttl |-> Millis(d)]
  /\ age' = [age EXCEPT !.hashed = 0]
  /\ UNCHANGED <<plain, copy, result, stored>>

HashedCacheRemove ==
  /\ hashed # HashedAbsent
  /\ hashed' = HashedAbsent
  /\ UNCHANGED <<plain, copy, result, stored, age>>

\* What the reader has after a read that found a body it can parse.
Take(body, hash) ==
  /\ result' = Parse(body)
  /\ copy' = IF body \in Unreadable THEN copy ELSE [body |-> body, hash |-> hash]

HashedCacheGet ==
  /\ IF hashed = HashedAbsent
     THEN result' = Missing /\ UNCHANGED copy
     ELSE Take(hashed.body, hashed.hash)
  /\ stored' = hashed.body
  /\ UNCHANGED <<plain, hashed, age>>

\* Reads the hash alone, which the reader compares with that of its copy.
HashedCacheHash ==
  /\ copy.body # Nothing
  /\ hashed # HashedAbsent /\ hashed.hash = copy.hash
  /\ result' = Unchanged
  /\ stored' = hashed.body
  /\ UNCHANGED <<plain, hashed, copy, age>>

\* Mutant: the hash is compared before the key is known to exist.
GET_IF_CHANGED_UNCHECKED(known) ==
  IF hashed = HashedAbsent \/ hashed.hash = known THEN <<1>>
  ELSE <<2, hashed.hash, hashed.body>>

GET_IF_CHANGED(known) ==
  CASE hashed = HashedAbsent -> <<0>>
    [] hashed # HashedAbsent /\ hashed.hash = known -> <<1>>
    [] OTHER -> <<2, hashed.hash, hashed.body>>

HashedCacheGetIfChanged ==
  LET answer == GET_IF_CHANGED(copy.hash)
  IN /\ copy.body # Nothing
     /\ CASE answer[1] = 0 -> result' = Missing /\ UNCHANGED copy
          [] answer[1] = 1 -> result' = Unchanged /\ UNCHANGED copy
          [] OTHER -> Take(answer[3], answer[2])
     /\ stored' = hashed.body
     /\ UNCHANGED <<plain, hashed, age>>

\* A millisecond passes.
CacheTick ==
  /\ plain' = IF Expires(plain.ttl) THEN Absent ELSE [plain EXCEPT !.ttl = Less(@)]
  /\ hashed' = IF Expires(hashed.ttl) THEN HashedAbsent ELSE [hashed EXCEPT !.ttl = Less(@)]
  /\ age' = [plain |-> IF plain' = Absent THEN 0 ELSE age.plain + 1,
             hashed |-> IF hashed' = HashedAbsent THEN 0 ELSE age.hashed + 1]
  /\ plain # Absent \/ hashed # HashedAbsent
  /\ UNCHANGED <<copy, result, stored>>

CacheInit ==
  /\ plain = Absent
  /\ hashed = HashedAbsent
  /\ copy = [body |-> Nothing, hash |-> Nothing]
  /\ result = Missing
  /\ stored = Nothing
  /\ age = [plain |-> 0, hashed |-> 0]

CacheNext ==
  \/ \E b \in Body, d \in CacheTtls : CachePut(b, d) \/ HashedCachePut(b, d)
  \/ CacheGet \/ CacheRemove
  \/ HashedCacheGet \/ HashedCacheHash \/ HashedCacheGetIfChanged \/ HashedCacheRemove
  \/ CacheTick

CacheSpec == CacheInit /\ [][CacheNext]_cacheVars

-----------------------------------------------------------------------------
\* Every answer is true of the item when it was read: "unchanged" only while
\* the reader's copy is the stored body, although the item may have expired and
\* been put again since it was copied (lines 245-246 and 314-323), "missing"
\* only if there is none, an error only for a body that cannot be parsed.
ReadsTrue ==
  CASE result = Missing -> stored = Nothing
    [] result = Unchanged -> stored = copy.body /\ stored # Nothing
    [] result = Failed -> stored \in Unreadable
    [] OTHER -> stored = result.body

\* A body is served for less than the longest TTL after it was put, whatever
\* puts, removals and expiries came before (line 108: "each expiring a fixed
\* TTL after it is put").
StaleBounded ==
  \E d \in CacheTtls :
    /\ plain # Absent => age.plain < Millis(d)
    /\ hashed # HashedAbsent => age.hashed < Millis(d)

\* Both of them: what a cache says is true, and not for longer than it may be.
CacheTruthful == ReadsTrue /\ StaleBounded
=============================================================================
