----------------------------- MODULE RedisLock -----------------------------
(***************************************************************************)
(* wakuwaku-entity/src/redis/collection/lock.rs: Lock and RwLock of one    *)
(* name, as their scripts leave them on the server, and the clients that   *)
(* hold tokens.  A script is atomic; a reply may be lost after it ran, in  *)
(* which case the server has granted a lease that nobody holds.            *)
(***************************************************************************)
EXTENDS RedisServer

CONSTANTS
  Token,    \* the tokens clients draw
  LockTtls  \* the TTLs of the Lock and RwLock values that share the name

ASSUME LockTtlsAssumption == LockTtls \subseteq Nat

VARIABLES
  string,      \* the keys of the Lock and of the RwLock's writer
  readers,     \* the sorted set of readers: how long each lease still runs
  readersTtl,  \* the time to live of that set's key
  held,        \* the token values of the clients
  reply        \* the output of the last query

lockVars == <<string, readers, readersTtl, held, reply>>

LockModes == {"lock", "write", "read"}

NoToken == "no token"

ASSUME TokenAssumption == NoToken \notin Token

NoKey == [holder |-> NoToken, ttl |-> 0]
StringKeys == {"lock", "write"}

\* A LockToken or a ReadToken a client has.  "left" is not in the code: it is
\* how long the client was told the lock is its own.
Hold(m, d) == [mode |-> m, ttl |-> d, left |-> Millis(d)]
NoHold == [mode |-> "none", ttl |-> 0, left |-> 0]

\* The token is in use nowhere: a random one always is.
Fresh(t) ==
  /\ held[t] = NoHold
  /\ \A k \in StringKeys : string[k].holder # t
  /\ t \notin DOMAIN readers

-----------------------------------------------------------------------------
\* The scripts.

\* SET key token NX PX ttl, the whole of LockAcquire.
SetNx(k, t, ttl) ==
  /\ reply' = (string[k] = NoKey)
  /\ string' = IF string[k] = NoKey
               THEN [string EXCEPT ![k] = [holder |-> t, ttl |-> ttl]]
               ELSE string

\* Mutant: whoever has the key.
RELEASE_ANY(k, t) ==
  /\ reply' = (string[k] # NoKey)
  /\ string' = [string EXCEPT ![k] = NoKey]

RELEASE(k, t) ==
  /\ reply' = (string[k].holder = t)
  /\ string' = IF string[k].holder = t THEN [string EXCEPT ![k] = NoKey] ELSE string

EXTEND(k, t, ttl) ==
  /\ reply' = (string[k].holder = t)
  /\ string' = IF string[k].holder = t
               THEN [string EXCEPT ![k].ttl = ttl]
               ELSE string

\* Mutant: the life of the key is that of the last reader to come.
KeepForLast(ttl) == readersTtl' = ttl

\* Members whose lease is over stay in the set until a script removes them.
RunningReaders == {t \in DOMAIN readers : readers[t] > 0}

Keep(members) == [t \in members |-> readers[t]]

\* Never shortens the life of the key: readers may have different TTLs.
KeepFor(ttl) == readersTtl' = IF readersTtl < ttl THEN ttl ELSE readersTtl

\* Redis deletes a sorted set with its last member.
KeepUnlessEmpty == readersTtl' = IF DOMAIN readers' = {} THEN 0 ELSE readersTtl

READ_ACQUIRE(t, ttl) ==
  IF string["write"] # NoKey
  THEN reply' = FALSE /\ UNCHANGED <<readers, readersTtl>>
  ELSE /\ reply' = TRUE
       /\ readers' = [u \in RunningReaders \cup {t} |-> IF u = t THEN ttl ELSE readers[u]]
       /\ KeepFor(ttl)

READ_RELEASE(t) ==
  /\ reply' = (t \in RunningReaders)
  /\ readers' = Keep(DOMAIN readers \ {t})
  /\ KeepUnlessEmpty

READ_EXTEND(t, ttl) ==
  IF t \notin RunningReaders
  THEN reply' = FALSE /\ UNCHANGED <<readers, readersTtl>>
  ELSE /\ reply' = TRUE
       /\ readers' = [readers EXCEPT ![t] = ttl]
       /\ KeepFor(ttl)

WRITE_ACQUIRE(t, ttl) ==
  /\ readers' = Keep(RunningReaders)
  /\ KeepUnlessEmpty
  /\ IF RunningReaders # {}
     THEN reply' = FALSE /\ UNCHANGED string
     ELSE SetNx("write", t, ttl)

-----------------------------------------------------------------------------
\* The queries.

\* The client gets its token if the query succeeded and the reply arrived.
Receive(t, m, d) ==
  \/ reply' /\ held' = [held EXCEPT ![t] = Hold(m, d)]
  \/ UNCHANGED held

TryLock(t, d) ==
  /\ Fresh(t)
  /\ SetNx("lock", t, Millis(d))
  /\ Receive(t, "lock", d)
  /\ UNCHANGED <<readers, readersTtl>>

TryWrite(t, d) ==
  /\ Fresh(t)
  /\ WRITE_ACQUIRE(t, Millis(d))
  /\ Receive(t, "write", d)

TryRead(t, d) ==
  /\ Fresh(t)
  /\ READ_ACQUIRE(t, Millis(d))
  /\ Receive(t, "read", d)
  /\ UNCHANGED string

\* Releasing consumes the token, whatever comes of it.
Release(t) ==
  /\ held[t].mode \in StringKeys
  /\ RELEASE(held[t].mode, t)
  /\ held' = [held EXCEPT ![t] = NoHold]
  /\ UNCHANGED <<readers, readersTtl>>

ReadRelease(t) ==
  /\ held[t].mode = "read"
  /\ READ_RELEASE(t)
  /\ held' = [held EXCEPT ![t] = NoHold]
  /\ UNCHANGED string

\* A client that hears of the renewal counts its lease anew.
Renewed(t) ==
  \/ held' = [held EXCEPT ![t].left = IF reply' THEN Millis(held[t].ttl) ELSE 0]
  \/ UNCHANGED held

Extend(t) ==
  /\ held[t].mode \in StringKeys
  /\ EXTEND(held[t].mode, t, Millis(held[t].ttl))
  /\ Renewed(t)
  /\ UNCHANGED <<readers, readersTtl>>

ReadExtend(t) ==
  /\ held[t].mode = "read"
  /\ READ_EXTEND(t, Millis(held[t].ttl))
  /\ Renewed(t)
  /\ UNCHANGED string

\* A token dropped without a query, by a crash for one.
DropToken(t) ==
  /\ held[t] # NoHold
  /\ held' = [held EXCEPT ![t] = NoHold]
  /\ UNCHANGED <<string, readers, readersTtl, reply>>

\* A millisecond passes.
LockTick ==
  /\ string' = [k \in StringKeys |->
                  IF Expires(string[k].ttl) THEN NoKey
                  ELSE [string[k] EXCEPT !.ttl = Less(@)]]
  /\ readers' = [t \in IF Expires(readersTtl) THEN {} ELSE DOMAIN readers |-> Less(readers[t])]
  /\ readersTtl' = Less(readersTtl)
  /\ held' = [t \in Token |-> [held[t] EXCEPT !.left = Less(@)]]
  /\ UNCHANGED reply

LockInit ==
  /\ string = [k \in StringKeys |-> NoKey]
  /\ readers = [t \in {} |-> 0]
  /\ readersTtl = 0
  /\ held = [t \in Token |-> NoHold]
  /\ reply = FALSE

LockStep(t) ==
  \/ \E d \in LockTtls : TryLock(t, d) \/ TryWrite(t, d) \/ TryRead(t, d)
  \/ Release(t)
  \/ ReadRelease(t)
  \/ Extend(t)
  \/ ReadExtend(t)
  \/ DropToken(t)

LockNext == (\E t \in Token : LockStep(t)) \/ LockTick

LockSpec == LockInit /\ [][LockNext]_lockVars

-----------------------------------------------------------------------------
Durations == {Millis(d) : d \in LockTtls}

LockTypeOK ==
  /\ string \in [StringKeys -> [holder : Token \cup {NoToken}, ttl : Nat]]
  /\ DOMAIN readers \subseteq Token
  /\ \A t \in DOMAIN readers : readers[t] \in Nat
  /\ readersTtl \in Nat
  /\ held \in [Token -> [mode : LockModes \cup {"none"}, ttl : LockTtls \cup {0}, left : Nat]]
  /\ reply \in BOOLEAN

\* Two leases of these modes exclude each other.
Excludes(m, n) == {m, n} \in {{"lock"}, {"write"}, {"write", "read"}}

\* No two clients are both within the lease they were told they have, unless
\* both read (lock.rs:3-4: at most one holder, or one writer or any number of
\* readers), although a renewal, a release and an expiry meet in any order.
LockExclusion ==
  \A t, u \in Token :
    /\ t # u
    /\ held[t].left > 0
    /\ held[u].left > 0
    => ~ Excludes(held[t].mode, held[u].mode)

\* The server's leases, as LeaseLock sees them.
ServerLeases ==
  {[token |-> string[k].holder, mode |-> k, left |-> string[k].ttl] :
     k \in {k \in StringKeys : string[k] # NoKey}}
  \cup
  {[token |-> t, mode |-> "read", left |-> readers[t]] : t \in RunningReaders}

Abstract == INSTANCE LeaseLock WITH
  LeaseTime <- Durations, leases <- ServerLeases, answer <- reply

\* A lease is refused only for one that still runs, answers "no longer held"
\* only when it ran out, and is cut short by no other token's query, although
\* all readers share one key with one expiry.
ImplementsLeaseLock == Abstract!LeaseSpec

\* A lease whose token was dropped, or whose reply was lost, ends by itself
\* (lock.rs:228 and 436: "the lease runs out instead").
LeaseRunsOut ==
  \A t \in Token :
    (\E l \in ServerLeases : l.token = t) /\ held[t] = NoHold
      ~> ~ \E l \in ServerLeases : l.token = t
=============================================================================
