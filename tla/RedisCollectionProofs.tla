------------------------ MODULE RedisCollectionProofs ------------------------
(***************************************************************************)
(* Theorems about the structures of redis/collection, for any values of    *)
(* their constants: the locks exclude and implement LeaseLock, the token   *)
(* bucket holds what it should, and the cache answers with what was put.   *)
(***************************************************************************)
EXTENDS RedisLock, TokenBucket, RedisCache, TLAPS

(***************************************************************************)
(* Locks: for any tokens and any TTLs, which the locks that share a name   *)
(* need not agree on. The second half shows that the locks implement       *)
(* LeaseLock: every query grants, refuses, restarts or gives back a lease, *)
(* or changes none, and every millisecond is one of LeaseLock.             *)
(***************************************************************************)

StringLease == [holder : Token \cup {NoToken}, ttl : Nat]

HoldOf == [mode : LockModes \cup {"none"}, ttl : LockTtls \cup {0}, left : Nat]

\* A key is held by a token, and expires.
KeysExpire == \A k \in StringKeys : string[k] = NoKey \/ (string[k].holder \in Token /\ string[k].ttl > 0)

\* The key of the readers lives as long as the longest lease in it.
ReadersKept == \A t \in DOMAIN readers : readers[t] <= readersTtl /\ readersTtl > 0

\* The server has no writer beside a reader whose lease runs.
WriterAlone == string["write"] # NoKey => \A t \in DOMAIN readers : readers[t] = 0

\* Whoever is within its lease has one on the server that runs as long.
Covered(t) ==
  held[t].left > 0 =>
    /\ held[t].mode \in StringKeys =>
         string[held[t].mode].holder = t /\ held[t].left <= string[held[t].mode].ttl
    /\ held[t].mode = "read" => t \in DOMAIN readers /\ held[t].left <= readers[t]

\* A client counts on no more than its TTL.
Bounded(t) == held[t].left <= Millis(held[t].ttl)

LockInv ==
  /\ LockTypeOK
  /\ KeysExpire
  /\ ReadersKept
  /\ WriterAlone
  /\ \A t \in Token : Covered(t) /\ Bounded(t)

-----------------------------------------------------------------------------
(* Durations, keys and tokens.                                             *)

LEMMA MillisType ==
  ASSUME NEW d \in LockTtls \cup {0}
  PROVE  Millis(d) \in Nat /\ Millis(d) > 0 /\ d \in Nat
BY LockTtlsAssumption DEF LockTtlsAssumption, Millis

LEMMA LessType ==
  ASSUME NEW n \in Nat
  PROVE  /\ Less(n) \in Nat /\ Less(n) <= n
         /\ n > 1 => Less(n) > 0
         /\ \A m \in Nat : m <= n => Less(m) <= Less(n)
BY DEF Less

LEMMA TypesUnfold ==
  ASSUME LockTypeOK
  PROVE  /\ string \in [StringKeys -> StringLease] /\ held \in [Token -> HoldOf]
         /\ DOMAIN readers \subseteq Token /\ readersTtl \in Nat
         /\ \A t \in DOMAIN readers : readers[t] \in Nat
BY DEF LockTypeOK, StringLease, HoldOf

LEMMA NoKeyType == NoKey \in StringLease /\ NoHold \in HoldOf
BY DEF NoKey, StringLease, NoHold, HoldOf

LEMMA HeldKeyIs ==
  ASSUME LockInv, NEW k \in StringKeys, string[k].holder \in Token
  PROVE  string[k] # NoKey
BY TokenAssumption DEF NoKey, TokenAssumption

LEMMA LockInitInv == LockInit => LockInv
<1> SUFFICES ASSUME LockInit PROVE LockInv
  OBVIOUS
<1> USE DEF LockInit
<1>1. LockTypeOK
  BY NoKeyType DEF LockTypeOK, NoKey, NoHold, StringLease, HoldOf
<1>2. KeysExpire /\ ReadersKept /\ WriterAlone
  BY DEF KeysExpire, ReadersKept, WriterAlone, StringKeys
<1>3. ASSUME NEW t \in Token PROVE Covered(t) /\ Bounded(t)
  BY <1>3 DEF Covered, Bounded, NoHold, Millis
<1>4. QED
  BY <1>1, <1>2, <1>3 DEF LockInv

-----------------------------------------------------------------------------
(* What clients make of a reply.                                           *)

LEMMA ReceiveGives ==
  ASSUME LockTypeOK, NEW t \in Token, NEW m \in LockModes, NEW d \in LockTtls, Receive(t, m, d)
  PROVE  /\ held' \in [Token -> HoldOf]
         /\ \A u \in Token \ {t} : held'[u] = held[u]
         /\ held'[t] = held[t] \/ (reply' /\ held'[t] = Hold(m, d))
<1>1. Hold(m, d) \in HoldOf
  BY MillisType DEF Hold, HoldOf
<1>2. held \in [Token -> HoldOf]
  BY TypesUnfold
<1>3. CASE reply' /\ held' = [held EXCEPT ![t] = Hold(m, d)]
  BY <1>1, <1>2, <1>3
<1>4. CASE UNCHANGED held
  BY <1>2, <1>4
<1>5. QED
  BY <1>3, <1>4 DEF Receive

LEMMA RenewedGives ==
  ASSUME LockTypeOK, NEW t \in Token, Renewed(t)
  PROVE  /\ held' \in [Token -> HoldOf]
         /\ \A u \in Token \ {t} : held'[u] = held[u]
         /\ held'[t].mode = held[t].mode /\ held'[t].ttl = held[t].ttl
         /\ \/ held'[t].left = held[t].left
            \/ held'[t].left = 0
            \/ reply' /\ held'[t].left = Millis(held[t].ttl)
<1> DEFINE new == IF reply' THEN Millis(held[t].ttl) ELSE 0
<1>1. held \in [Token -> HoldOf] /\ held[t] \in HoldOf
  BY TypesUnfold
<1>2. new \in Nat
  BY <1>1, MillisType DEF HoldOf
<1>3. CASE held' = [held EXCEPT ![t].left = new]
  <2>1. held' = [held EXCEPT ![t] = [held[t] EXCEPT !.left = new]]
    BY <1>3
  <2> HIDE DEF new
  <2>2. [held[t] EXCEPT !.left = new] \in HoldOf
    BY <1>1, <1>2 DEF HoldOf
  <2>3. /\ [held[t] EXCEPT !.left = new].left = new
        /\ [held[t] EXCEPT !.left = new].mode = held[t].mode
        /\ [held[t] EXCEPT !.left = new].ttl = held[t].ttl
    BY <1>1 DEF HoldOf
  <2>4. held'[t] = [held[t] EXCEPT !.left = new] /\ held' \in [Token -> HoldOf]
        /\ \A u \in Token \ {t} : held'[u] = held[u]
    BY <1>1, <2>1, <2>2
  <2>5. QED
    BY <2>3, <2>4 DEF new
<1>4. CASE UNCHANGED held
  BY <1>1, <1>4
<1>5. QED
  BY <1>3, <1>4 DEF Renewed

\* Giving a token up.
LEMMA DroppedGives ==
  ASSUME LockTypeOK, NEW t \in Token, held' = [held EXCEPT ![t] = NoHold]
  PROVE  /\ held' \in [Token -> HoldOf]
         /\ held'[t] = NoHold /\ NoHold.left = 0 /\ NoHold.ttl = 0
         /\ \A u \in Token \ {t} : held'[u] = held[u]
BY TypesUnfold, NoKeyType DEF NoHold

\* Clients other than t, when the server keeps their leases.
LEMMA OthersStay ==
  ASSUME LockInv, NEW t \in Token,
         \A u \in Token \ {t} : held'[u] = held[u],
         \A k \in StringKeys : string[k].holder \in Token \ {t} => string'[k] = string[k],
         \A u \in DOMAIN readers \ {t} :
           readers[u] > 0 => u \in DOMAIN readers' /\ readers'[u] = readers[u]
  PROVE  \A u \in Token \ {t} : Covered(u)' /\ Bounded(u)'
<1> SUFFICES ASSUME NEW u \in Token \ {t} PROVE Covered(u)' /\ Bounded(u)'
  OBVIOUS
<1>1. held'[u] = held[u] /\ Covered(u) /\ Bounded(u) /\ held[u] \in HoldOf
  BY TypesUnfold DEF LockInv
<1>2. Bounded(u)'
  BY <1>1 DEF Bounded
<1> SUFFICES Covered(u)'
  BY <1>2
<1>3. CASE held[u].left > 0 /\ held[u].mode \in StringKeys
  <2>1. PICK k \in StringKeys : k = held[u].mode
    BY <1>3
  <2>2. string[k].holder = u /\ held[u].left <= string[k].ttl /\ k # "read"
    BY <1>1, <1>3, <2>1 DEF Covered, StringKeys
  <2>3. string'[k] = string[k]
    BY <2>2
  <2>4. QED
    BY <1>1, <2>1, <2>2, <2>3 DEF Covered
<1>4. CASE held[u].left > 0 /\ held[u].mode = "read"
  <2>1. u \in DOMAIN readers \ {t} /\ readers[u] > 0 /\ held[u].left <= readers[u]
    BY <1>1, <1>4, TypesUnfold DEF Covered, LockInv, HoldOf
  <2>2. u \in DOMAIN readers' /\ readers'[u] = readers[u]
    BY <2>1
  <2>3. "read" \notin StringKeys
    BY DEF StringKeys
  <2>4. QED
    BY <1>1, <1>4, <2>1, <2>2, <2>3 DEF Covered
<1>5. CASE ~ (held[u].left > 0)
  BY <1>1, <1>5 DEF Covered
<1>6. CASE held[u].mode \notin StringKeys /\ held[u].mode # "read"
  BY <1>1, <1>6 DEF Covered
<1>7. QED
  BY <1>3, <1>4, <1>5, <1>6

\* The parts of the invariant, put together again.
LEMMA Together ==
  ASSUME string' \in [StringKeys -> StringLease], held' \in [Token -> HoldOf],
         DOMAIN readers' \subseteq Token, readersTtl' \in Nat,
         \A t \in DOMAIN readers' : readers'[t] \in Nat,
         reply' \in BOOLEAN,
         KeysExpire', ReadersKept', WriterAlone',
         \A t \in Token : Covered(t)' /\ Bounded(t)'
  PROVE  LockInv'
BY DEF LockInv, LockTypeOK, StringLease, HoldOf

-----------------------------------------------------------------------------
(* Acquiring.                                                              *)

LEMMA SetNxGives ==
  ASSUME LockInv, NEW k \in StringKeys, NEW t \in Token, NEW d \in LockTtls,
         SetNx(k, t, Millis(d))
  PROVE  /\ string' \in [StringKeys -> StringLease] /\ reply' \in BOOLEAN
         /\ KeysExpire'
         /\ \A j \in StringKeys \ {k} : string'[j] = string[j]
         /\ \A j \in StringKeys : string[j].holder \in Token => string'[j] = string[j]
         /\ reply' => string[k] = NoKey /\ string'[k] = [holder |-> t, ttl |-> Millis(d)]
         /\ ~ reply' => string' = string
<1>1. string \in [StringKeys -> StringLease] /\ KeysExpire
  BY TypesUnfold DEF LockInv
<1>2. [holder |-> t, ttl |-> Millis(d)] \in StringLease /\ Millis(d) > 0
  BY MillisType DEF StringLease
<1>3. \A j \in StringKeys : string[j].holder \in Token => string[j] # NoKey
  BY HeldKeyIs
<1>4. CASE string[k] = NoKey
  <2>1. reply' = TRUE /\ string' = [string EXCEPT ![k] = [holder |-> t, ttl |-> Millis(d)]]
    BY <1>4 DEF SetNx
  <2>2. /\ string' \in [StringKeys -> StringLease]
        /\ string'[k] = [holder |-> t, ttl |-> Millis(d)]
        /\ \A j \in StringKeys \ {k} : string'[j] = string[j]
    BY <1>1, <1>2, <2>1
  <2>3. KeysExpire'
    BY <1>1, <1>2, <2>2 DEF KeysExpire, NoKey
  <2>4. QED
    BY <1>3, <1>4, <2>1, <2>2, <2>3
<1>5. CASE string[k] # NoKey
  <2>1. reply' = FALSE /\ string' = string
    BY <1>5 DEF SetNx
  <2>2. QED
    BY <1>1, <2>1 DEF KeysExpire
<1>6. QED
  BY <1>4, <1>5

LEMMA TryLockStep ==
  ASSUME LockInv, NEW t \in Token, NEW d \in LockTtls, TryLock(t, d)
  PROVE  LockInv'
<1>1. /\ SetNx("lock", t, Millis(d)) /\ Receive(t, "lock", d)
      /\ readers' = readers /\ readersTtl' = readersTtl /\ held[t] = NoHold
      /\ "lock" \in StringKeys /\ "write" \in StringKeys /\ "lock" \in LockModes
  BY DEF TryLock, Fresh, StringKeys, LockModes
<1>2. /\ string' \in [StringKeys -> StringLease] /\ reply' \in BOOLEAN /\ KeysExpire'
      /\ string'["write"] = string["write"]
      /\ \A j \in StringKeys : string[j].holder \in Token => string'[j] = string[j]
      /\ reply' => string'["lock"] = [holder |-> t, ttl |-> Millis(d)]
  BY <1>1, SetNxGives
<1>3. /\ held' \in [Token -> HoldOf] /\ \A u \in Token \ {t} : held'[u] = held[u]
      /\ held'[t] = held[t] \/ (reply' /\ held'[t] = Hold("lock", d))
  BY <1>1, ReceiveGives DEF LockInv
<1>4. ReadersKept' /\ WriterAlone'
  BY <1>1, <1>2 DEF LockInv, ReadersKept, WriterAlone
<1>5. \A u \in Token \ {t} : Covered(u)' /\ Bounded(u)'
  BY <1>1, <1>2, <1>3, OthersStay
<1>6. Covered(t)' /\ Bounded(t)'
  BY <1>1, <1>2, <1>3, MillisType DEF Covered, Bounded, Hold, NoHold, StringKeys
<1>7. QED
  BY <1>1, <1>2, <1>3, <1>4, <1>5, <1>6, TypesUnfold, Together DEF LockInv

\* The writer drops the readers whose lease is over, and needs that none is left.
LEMMA TryWriteStep ==
  ASSUME LockInv, NEW t \in Token, NEW d \in LockTtls, TryWrite(t, d)
  PROVE  LockInv'
<1>1. /\ WRITE_ACQUIRE(t, Millis(d)) /\ Receive(t, "write", d) /\ held[t] = NoHold
      /\ "write" \in StringKeys /\ "write" \in LockModes
  BY DEF TryWrite, Fresh, StringKeys, LockModes
<1>2. /\ readers' = [u \in RunningReaders |-> readers[u]]
      /\ readersTtl' = IF DOMAIN readers' = {} THEN 0 ELSE readersTtl
  BY <1>1 DEF WRITE_ACQUIRE, Keep, KeepUnlessEmpty
<1>3. /\ DOMAIN readers' = RunningReaders /\ RunningReaders \subseteq DOMAIN readers
      /\ \A u \in RunningReaders : readers'[u] = readers[u] /\ readers[u] > 0
  BY <1>2 DEF RunningReaders
<1>4. /\ DOMAIN readers' \subseteq Token /\ readersTtl' \in Nat
      /\ \A u \in DOMAIN readers' : readers'[u] \in Nat
  BY <1>2, <1>3, TypesUnfold DEF LockInv
<1>5. ReadersKept'
  BY <1>2, <1>3 DEF LockInv, ReadersKept
<1>6. /\ string' \in [StringKeys -> StringLease] /\ reply' \in BOOLEAN /\ KeysExpire'
      /\ \A j \in StringKeys : string[j].holder \in Token => string'[j] = string[j]
      /\ reply' => string'["write"] = [holder |-> t, ttl |-> Millis(d)]
      /\ string' = string \/ RunningReaders = {}
  <2>1. CASE RunningReaders = {}
    BY <1>1, <2>1, SetNxGives DEF WRITE_ACQUIRE
  <2>2. CASE RunningReaders # {}
    <3>1. reply' = FALSE /\ string' = string
      BY <1>1, <2>2 DEF WRITE_ACQUIRE
    <3>2. QED
      BY <3>1, TypesUnfold DEF LockInv, KeysExpire
  <2>3. QED
    BY <2>1, <2>2
<1>7. WriterAlone'
  BY <1>3, <1>6 DEF LockInv, WriterAlone
<1>8. /\ held' \in [Token -> HoldOf] /\ \A u \in Token \ {t} : held'[u] = held[u]
      /\ held'[t] = held[t] \/ (reply' /\ held'[t] = Hold("write", d))
  BY <1>1, ReceiveGives DEF LockInv
<1>9. \A u \in DOMAIN readers \ {t} :
        readers[u] > 0 => u \in DOMAIN readers' /\ readers'[u] = readers[u]
  BY <1>3 DEF RunningReaders
<1>10. \A u \in Token \ {t} : Covered(u)' /\ Bounded(u)'
  BY <1>6, <1>8, <1>9, OthersStay
<1>11. Covered(t)' /\ Bounded(t)'
  BY <1>1, <1>6, <1>8, MillisType DEF Covered, Bounded, Hold, NoHold, StringKeys
<1>12. QED
  BY <1>4, <1>5, <1>6, <1>7, <1>8, <1>10, <1>11, Together

LEMMA TryReadStep ==
  ASSUME LockInv, NEW t \in Token, NEW d \in LockTtls, TryRead(t, d)
  PROVE  LockInv'
<1>1. /\ READ_ACQUIRE(t, Millis(d)) /\ Receive(t, "read", d)
      /\ string' = string /\ held[t] = NoHold /\ "read" \in LockModes
      /\ "write" \in StringKeys /\ Millis(d) \in Nat /\ Millis(d) > 0
  BY MillisType DEF TryRead, Fresh, StringKeys, LockModes
<1>2. /\ held' \in [Token -> HoldOf] /\ \A u \in Token \ {t} : held'[u] = held[u]
      /\ held'[t] = held[t] \/ (reply' /\ held'[t] = Hold("read", d))
  BY <1>1, ReceiveGives DEF LockInv
<1>3. string' \in [StringKeys -> StringLease] /\ KeysExpire'
  BY <1>1, TypesUnfold DEF LockInv, KeysExpire
<1>4. CASE string["write"] # NoKey
  <2>1. reply' = FALSE /\ readers' = readers /\ readersTtl' = readersTtl
    BY <1>1, <1>4 DEF READ_ACQUIRE
  <2>2. ReadersKept' /\ WriterAlone'
    BY <1>1, <2>1 DEF LockInv, ReadersKept, WriterAlone
  <2>3. \A u \in Token \ {t} : Covered(u)' /\ Bounded(u)'
    BY <1>1, <1>2, <2>1, OthersStay
  <2>4. Covered(t)' /\ Bounded(t)'
    BY <1>1, <1>2, <2>1, MillisType DEF Covered, Bounded, NoHold
  <2>5. QED
    BY <1>2, <1>3, <2>1, <2>2, <2>3, <2>4, TypesUnfold, Together DEF LockInv
<1>5. CASE string["write"] = NoKey
  <2>1. /\ reply' = TRUE
        /\ readers' = [u \in RunningReaders \cup {t} |-> IF u = t THEN Millis(d) ELSE readers[u]]
        /\ readersTtl' = IF readersTtl < Millis(d) THEN Millis(d) ELSE readersTtl
    BY <1>1, <1>5 DEF READ_ACQUIRE, KeepFor
  <2>2. /\ DOMAIN readers' = RunningReaders \cup {t} /\ readers'[t] = Millis(d)
        /\ \A u \in RunningReaders \ {t} : readers'[u] = readers[u]
    BY <2>1
  <2>3. /\ DOMAIN readers' \subseteq Token /\ readersTtl' \in Nat
        /\ \A u \in DOMAIN readers' : readers'[u] \in Nat
    BY <1>1, <2>1, <2>2, TypesUnfold DEF LockInv, RunningReaders
  <2>4. ReadersKept'
    <3>1. readersTtl \in Nat /\ readersTtl' >= Millis(d) /\ readersTtl' >= readersTtl
      BY <1>1, <2>1, TypesUnfold DEF LockInv
    <3>2. ASSUME NEW u \in RunningReaders \ {t} PROVE readers'[u] <= readersTtl'
      <4>1. readers[u] <= readersTtl /\ readers[u] \in Nat
        BY TypesUnfold DEF LockInv, ReadersKept, RunningReaders
      <4>2. QED
        BY <2>2, <2>3, <3>1, <4>1
    <3>3. readersTtl' > 0
      BY <1>1, <2>3, <3>1
    <3>4. QED
      BY <1>1, <2>2, <3>1, <3>2, <3>3 DEF ReadersKept
  <2>5. WriterAlone'
    BY <1>1, <1>5 DEF WriterAlone
  <2>6. \A u \in DOMAIN readers \ {t} :
          readers[u] > 0 => u \in DOMAIN readers' /\ readers'[u] = readers[u]
    BY <2>2 DEF RunningReaders
  <2>7. \A u \in Token \ {t} : Covered(u)' /\ Bounded(u)'
    BY <1>1, <1>2, <2>6, OthersStay
  <2>8. Covered(t)' /\ Bounded(t)'
    BY <1>1, <1>2, <2>2, MillisType DEF Covered, Bounded, Hold, NoHold, StringKeys
  <2>9. QED
    BY <1>2, <1>3, <2>1, <2>3, <2>4, <2>5, <2>7, <2>8, Together
<1>6. QED
  BY <1>4, <1>5

-----------------------------------------------------------------------------
(* Releasing and renewing.                                                 *)

\* A token that is given up takes nothing from the others.
LEMMA GivenUp ==
  ASSUME LockInv, NEW t \in Token, held' = [held EXCEPT ![t] = NoHold],
         string' \in [StringKeys -> StringLease], reply' \in BOOLEAN,
         DOMAIN readers' \subseteq Token, readersTtl' \in Nat,
         \A u \in DOMAIN readers' : readers'[u] \in Nat,
         KeysExpire', ReadersKept', WriterAlone',
         \A k \in StringKeys : string[k].holder \in Token \ {t} => string'[k] = string[k],
         \A u \in DOMAIN readers \ {t} :
           readers[u] > 0 => u \in DOMAIN readers' /\ readers'[u] = readers[u]
  PROVE  LockInv'
<1>1. /\ held' \in [Token -> HoldOf] /\ held'[t] = NoHold /\ NoHold.left = 0 /\ NoHold.ttl = 0
      /\ \A u \in Token \ {t} : held'[u] = held[u]
  BY DroppedGives DEF LockInv
<1>2. \A u \in Token \ {t} : Covered(u)' /\ Bounded(u)'
  BY <1>1, OthersStay
<1>3. Covered(t)' /\ Bounded(t)'
  BY <1>1, MillisType DEF Covered, Bounded
<1>4. QED
  BY <1>1, <1>2, <1>3, Together

LEMMA ReleaseStep ==
  ASSUME LockInv, NEW t \in Token, Release(t)
  PROVE  LockInv'
<1> DEFINE k == held[t].mode
<1>1. /\ k \in StringKeys /\ RELEASE(k, t) /\ held' = [held EXCEPT ![t] = NoHold]
      /\ readers' = readers /\ readersTtl' = readersTtl
  BY DEF Release
<1> HIDE DEF k
<1>2. string \in [StringKeys -> StringLease] /\ NoKey \in StringLease
  BY TypesUnfold, NoKeyType DEF LockInv
<1>3. /\ string' \in [StringKeys -> StringLease] /\ reply' \in BOOLEAN
      /\ \A j \in StringKeys : string'[j] = string[j] \/ (string[j].holder = t /\ string'[j] = NoKey)
  BY <1>1, <1>2 DEF RELEASE
<1>4. KeysExpire'
  BY <1>3 DEF LockInv, KeysExpire
<1>5. ReadersKept' /\ WriterAlone'
  BY <1>1, <1>3 DEF LockInv, ReadersKept, WriterAlone, StringKeys
<1>6. QED
  BY <1>1, <1>3, <1>4, <1>5, GivenUp, TypesUnfold DEF LockInv

LEMMA ReadReleaseStep ==
  ASSUME LockInv, NEW t \in Token, ReadRelease(t)
  PROVE  LockInv'
<1>1. /\ readers' = [u \in DOMAIN readers \ {t} |-> readers[u]]
      /\ readersTtl' = IF DOMAIN readers' = {} THEN 0 ELSE readersTtl
      /\ held' = [held EXCEPT ![t] = NoHold] /\ string' = string /\ reply' \in BOOLEAN
  BY DEF ReadRelease, READ_RELEASE, Keep, KeepUnlessEmpty
<1>2. DOMAIN readers' = DOMAIN readers \ {t} /\ \A u \in DOMAIN readers' : readers'[u] = readers[u]
  BY <1>1
<1>3. /\ DOMAIN readers' \subseteq Token /\ readersTtl' \in Nat
      /\ \A u \in DOMAIN readers' : readers'[u] \in Nat
  BY <1>1, <1>2, TypesUnfold DEF LockInv
<1>4. ReadersKept'
  BY <1>1, <1>2 DEF LockInv, ReadersKept
<1>5. WriterAlone' /\ KeysExpire'
  BY <1>1, <1>2 DEF LockInv, WriterAlone, KeysExpire
<1>6. QED
  BY <1>1, <1>2, <1>3, <1>4, <1>5, GivenUp, TypesUnfold DEF LockInv

LEMMA DropTokenStep ==
  ASSUME LockInv, NEW t \in Token, DropToken(t)
  PROVE  LockInv'
<1>1. /\ held' = [held EXCEPT ![t] = NoHold] /\ string' = string /\ readers' = readers
      /\ readersTtl' = readersTtl /\ reply' = reply
  BY DEF DropToken
<1>2. KeysExpire' /\ ReadersKept' /\ WriterAlone'
  BY <1>1 DEF LockInv, KeysExpire, ReadersKept, WriterAlone
<1>3. reply' \in BOOLEAN
  BY <1>1 DEF LockInv, LockTypeOK
<1>4. QED
  BY <1>1, <1>2, <1>3, GivenUp, TypesUnfold DEF LockInv

LEMMA ExtendStep ==
  ASSUME LockInv, NEW t \in Token, Extend(t)
  PROVE  LockInv'
<1> DEFINE k == held[t].mode
           ttl == Millis(held[t].ttl)
<1>1. /\ k \in StringKeys /\ EXTEND(k, t, ttl) /\ Renewed(t)
      /\ readers' = readers /\ readersTtl' = readersTtl
  BY DEF Extend
<1>2. held[t] \in HoldOf /\ ttl \in Nat /\ ttl > 0
  BY TypesUnfold, MillisType DEF LockInv, HoldOf
<1>3. /\ held' \in [Token -> HoldOf] /\ \A u \in Token \ {t} : held'[u] = held[u]
      /\ held'[t].mode = k /\ held'[t].ttl = held[t].ttl
      /\ held'[t].left = held[t].left \/ held'[t].left = 0 \/ (reply' /\ held'[t].left = ttl)
  BY <1>1, RenewedGives DEF LockInv
<1>4. Bounded(t) /\ Covered(t) /\ held[t].left \in Nat
  BY <1>2 DEF LockInv, HoldOf
<1>5. Bounded(t)'
  BY <1>2, <1>3, <1>4 DEF Bounded
<1> HIDE DEF k, ttl
<1>6. string \in [StringKeys -> StringLease]
  BY TypesUnfold DEF LockInv
<1>7. CASE string[k].holder = t
  <2>1. reply' = TRUE /\ string' = [string EXCEPT ![k] = [string[k] EXCEPT !.ttl = ttl]]
    BY <1>1, <1>7 DEF EXTEND
  <2>2. /\ [string[k] EXCEPT !.ttl = ttl] \in StringLease
        /\ [string[k] EXCEPT !.ttl = ttl].ttl = ttl
        /\ [string[k] EXCEPT !.ttl = ttl].holder = t
    BY <1>1, <1>2, <1>6, <1>7 DEF StringLease
  <2>3. /\ string' \in [StringKeys -> StringLease] /\ string'[k].ttl = ttl
        /\ string'[k].holder = t /\ \A j \in StringKeys \ {k} : string'[j] = string[j]
    BY <1>1, <1>6, <2>1, <2>2
  <2>4. KeysExpire'
    BY <1>2, <2>3 DEF LockInv, KeysExpire
  <2>5. string[k] # NoKey
    BY <1>1, <1>7, HeldKeyIs
  <2>6. ReadersKept' /\ WriterAlone'
    BY <1>1, <2>3, <2>5 DEF LockInv, ReadersKept, WriterAlone, StringKeys
  <2>7. \A u \in Token \ {t} : Covered(u)' /\ Bounded(u)'
    BY <1>1, <1>3, <1>7, <2>3, OthersStay
  <2>8. held'[t].left <= ttl
    BY <1>2, <1>3, <1>4 DEF Bounded, ttl
  <2>9. Covered(t)'
    BY <1>1, <1>3, <2>3, <2>8 DEF Covered, StringKeys
  <2>10. QED
    BY <1>1, <1>3, <1>5, <2>1, <2>3, <2>4, <2>6, <2>7, <2>9, TypesUnfold, Together DEF LockInv
<1>8. CASE string[k].holder # t
  <2>1. reply' = FALSE /\ string' = string
    BY <1>1, <1>8 DEF EXTEND
  <2>2. held[t].left = 0
    BY <1>1, <1>4, <1>8 DEF Covered, k
  <2>3. held'[t].left = 0
    BY <1>3, <2>1, <2>2
  <2>4. KeysExpire' /\ ReadersKept' /\ WriterAlone'
    BY <1>1, <2>1 DEF LockInv, KeysExpire, ReadersKept, WriterAlone
  <2>5. \A u \in Token \ {t} : Covered(u)' /\ Bounded(u)'
    BY <1>1, <1>3, <2>1, OthersStay
  <2>6. Covered(t)'
    BY <2>3 DEF Covered
  <2>7. QED
    BY <1>1, <1>3, <1>5, <2>1, <2>4, <2>5, <2>6, TypesUnfold, Together DEF LockInv
<1>9. QED
  BY <1>7, <1>8

\* A reader that renews has a running lease, so that no writer is there.
LEMMA ReadExtendStep ==
  ASSUME LockInv, NEW t \in Token, ReadExtend(t)
  PROVE  LockInv'
<1> DEFINE ttl == Millis(held[t].ttl)
<1>1. READ_EXTEND(t, ttl) /\ Renewed(t) /\ string' = string /\ held[t].mode = "read"
  BY DEF ReadExtend
<1>2. held[t] \in HoldOf /\ ttl \in Nat /\ ttl > 0
  BY TypesUnfold, MillisType DEF LockInv, HoldOf
<1>3. /\ held' \in [Token -> HoldOf] /\ \A u \in Token \ {t} : held'[u] = held[u]
      /\ held'[t].mode = "read" /\ held'[t].ttl = held[t].ttl
      /\ held'[t].left = held[t].left \/ held'[t].left = 0 \/ (reply' /\ held'[t].left = ttl)
  BY <1>1, RenewedGives DEF LockInv
<1>4. Bounded(t) /\ Covered(t) /\ held[t].left \in Nat
  BY <1>2 DEF LockInv, HoldOf
<1>5. Bounded(t)'
  BY <1>2, <1>3, <1>4 DEF Bounded
<1>6. held'[t].left <= ttl \/ held'[t].left = 0
  BY <1>2, <1>3, <1>4 DEF Bounded
<1> HIDE DEF ttl
<1>7. string' \in [StringKeys -> StringLease] /\ KeysExpire' /\ "read" \notin StringKeys
  BY <1>1, TypesUnfold DEF LockInv, KeysExpire, StringKeys
<1>8. CASE t \notin RunningReaders
  <2>1. reply' = FALSE /\ readers' = readers /\ readersTtl' = readersTtl
    BY <1>1, <1>8 DEF READ_EXTEND
  <2>2. ~ (held[t].left > 0)
    <3>1. SUFFICES ASSUME held[t].left > 0 PROVE FALSE
      OBVIOUS
    <3>2. t \in DOMAIN readers /\ held[t].left <= readers[t]
      BY <1>1, <1>4, <3>1 DEF Covered
    <3>3. readers[t] > 0
      BY <1>4, <3>1, <3>2, TypesUnfold DEF LockInv
    <3>4. QED
      BY <1>8, <3>2, <3>3 DEF RunningReaders
  <2>3. ~ (held'[t].left > 0)
    BY <1>3, <1>4, <2>1, <2>2
  <2>4. ReadersKept' /\ WriterAlone'
    BY <1>1, <2>1 DEF LockInv, ReadersKept, WriterAlone
  <2>5. \A u \in Token \ {t} : Covered(u)' /\ Bounded(u)'
    BY <1>1, <1>3, <2>1, OthersStay
  <2>6. Covered(t)'
    BY <2>3 DEF Covered
  <2>7. QED
    BY <1>3, <1>5, <1>7, <2>1, <2>4, <2>5, <2>6, TypesUnfold, Together DEF LockInv
<1>9. CASE t \in RunningReaders
  <2>1. /\ reply' = TRUE /\ readers' = [readers EXCEPT ![t] = ttl]
        /\ readersTtl' = IF readersTtl < ttl THEN ttl ELSE readersTtl
        /\ t \in DOMAIN readers /\ readers[t] > 0
    BY <1>1, <1>9 DEF READ_EXTEND, KeepFor, RunningReaders
  <2>2. /\ DOMAIN readers' = DOMAIN readers /\ readers'[t] = ttl
        /\ \A u \in DOMAIN readers \ {t} : readers'[u] = readers[u]
    BY <2>1
  <2>3. /\ DOMAIN readers' \subseteq Token /\ readersTtl' \in Nat
        /\ \A u \in DOMAIN readers' : readers'[u] \in Nat
    BY <1>2, <2>1, <2>2, TypesUnfold DEF LockInv
  <2>4. readersTtl \in Nat /\ readersTtl' >= ttl /\ readersTtl' >= readersTtl
    BY <1>2, <2>1, TypesUnfold DEF LockInv
  <2>5. ReadersKept'
    <3>1. ASSUME NEW u \in DOMAIN readers \ {t} PROVE readers'[u] <= readersTtl'
      <4>1. readers[u] <= readersTtl /\ readers[u] \in Nat
        BY TypesUnfold DEF LockInv, ReadersKept
      <4>2. QED
        BY <2>2, <2>3, <2>4, <4>1
    <3>2. readersTtl' > 0
      BY <1>2, <2>3, <2>4
    <3>3. QED
      BY <2>2, <2>4, <3>1, <3>2 DEF ReadersKept
  <2>6. string["write"] = NoKey
    BY <2>1, TypesUnfold DEF LockInv, WriterAlone
  <2>7. WriterAlone'
    BY <1>1, <2>6 DEF WriterAlone
  <2>8. \A u \in Token \ {t} : Covered(u)' /\ Bounded(u)'
    BY <1>1, <1>3, <2>2, OthersStay
  <2>9. Covered(t)'
    BY <1>3, <1>6, <1>7, <2>1, <2>2 DEF Covered
  <2>10. QED
    BY <1>3, <1>5, <1>7, <2>1, <2>3, <2>5, <2>7, <2>8, <2>9, Together
<1>10. QED
  BY <1>8, <1>9

-----------------------------------------------------------------------------
(* A millisecond.                                                          *)

LEMMA KeyTicks ==
  ASSUME LockInv, LockTick, NEW k \in StringKeys
  PROVE  /\ string'[k] \in StringLease
         /\ string'[k] = NoKey \/ (string'[k].holder = string[k].holder
                                   /\ string'[k].holder \in Token /\ string'[k].ttl > 0)
         /\ string[k].ttl # 1 => string'[k].holder = string[k].holder
         /\ string[k].ttl = 1 => string'[k] = NoKey
         /\ string'[k].ttl = Less(string[k].ttl)
<1>1. string'[k] = IF string[k].ttl = 1 THEN NoKey
                   ELSE [string[k] EXCEPT !.ttl = Less(string[k].ttl)]
  BY DEF LockTick, Expires
<1>2. string[k] \in StringLease /\ string[k].ttl \in Nat
  BY TypesUnfold DEF LockInv, StringLease
<1>3. CASE string[k].ttl = 1
  BY <1>1, <1>3, NoKeyType DEF NoKey, Less
<1>4. CASE string[k].ttl # 1
  <2> DEFINE less == Less(string[k].ttl)
  <2>1. less \in Nat /\ (string[k].ttl > 1 => less > 0) /\ (string[k].ttl = 0 => less = 0)
    BY <1>2, LessType DEF Less
  <2>2. string'[k] = [string[k] EXCEPT !.ttl = less]
    BY <1>1, <1>4
  <2> HIDE DEF less
  <2>3. /\ string'[k] \in StringLease /\ string'[k].ttl = less
        /\ string'[k].holder = string[k].holder
    BY <1>2, <2>1, <2>2 DEF StringLease
  <2>4. string[k] = NoKey => string'[k] = NoKey
    BY <2>1, <2>2 DEF NoKey
  <2>5. string[k] # NoKey => string[k].holder \in Token /\ string[k].ttl > 1
    BY <1>2, <1>4 DEF LockInv, KeysExpire
  <2>6. QED
    BY <1>4, <2>1, <2>3, <2>4, <2>5 DEF less
<1>5. QED
  BY <1>3, <1>4

LEMMA LockTickStep ==
  ASSUME LockInv, LockTick
  PROVE  LockInv'
<1>1. /\ string \in [StringKeys -> StringLease] /\ held \in [Token -> HoldOf]
      /\ DOMAIN readers \subseteq Token /\ readersTtl \in Nat
      /\ \A t \in DOMAIN readers : readers[t] \in Nat
      /\ reply' \in BOOLEAN
  BY TypesUnfold DEF LockInv, LockTypeOK, LockTick
<1>2. ASSUME NEW k \in StringKeys
      PROVE  /\ string'[k] \in StringLease
             /\ string'[k] = NoKey \/ (string'[k].holder = string[k].holder
                                       /\ string'[k].holder \in Token /\ string'[k].ttl > 0)
             /\ string[k].ttl # 1 => string'[k].holder = string[k].holder
             /\ string'[k].ttl = Less(string[k].ttl)
  BY KeyTicks
<1>3. string' \in [StringKeys -> StringLease]
  BY <1>2 DEF LockTick
<1>4. KeysExpire'
  BY <1>2 DEF KeysExpire
<1>5. /\ DOMAIN readers' \subseteq DOMAIN readers
      /\ readersTtl # 1 => DOMAIN readers' = DOMAIN readers
      /\ readersTtl = 1 => DOMAIN readers' = {}
      /\ \A t \in DOMAIN readers' : readers'[t] = Less(readers[t])
      /\ readersTtl' = Less(readersTtl)
  BY DEF LockTick, Expires
<1>6. /\ DOMAIN readers' \subseteq Token /\ readersTtl' \in Nat
      /\ \A t \in DOMAIN readers' : readers'[t] \in Nat
  BY <1>1, <1>5, LessType
<1>7. ReadersKept'
  <2>1. SUFFICES ASSUME NEW t \in DOMAIN readers' PROVE readers'[t] <= readersTtl' /\ readersTtl' > 0
    BY DEF ReadersKept
  <2>2. t \in DOMAIN readers /\ readersTtl # 1
    BY <1>5, <2>1
  <2>3. readers[t] <= readersTtl /\ readersTtl > 1 /\ readers[t] \in Nat
    BY <1>1, <2>2 DEF LockInv, ReadersKept
  <2>4. QED
    BY <1>1, <1>5, <2>3, LessType
<1>8. WriterAlone'
  <2>1. SUFFICES ASSUME string'["write"] # NoKey, NEW t \in DOMAIN readers' PROVE readers'[t] = 0
    BY DEF WriterAlone
  <2>2. "write" \in StringKeys
    BY DEF StringKeys
  <2>3. string["write"].holder \in Token
    BY <1>2, <2>1, <2>2
  <2>4. string["write"] # NoKey
    BY <2>2, <2>3, HeldKeyIs
  <2>5. readers[t] = 0
    BY <1>5, <2>4 DEF LockInv, WriterAlone
  <2>6. QED
    BY <1>5, <2>5 DEF Less
<1>9. ASSUME NEW t \in Token
      PROVE  held'[t] \in HoldOf /\ Covered(t)' /\ Bounded(t)'
  <2> DEFINE less == Less(held[t].left)
  <2>1. held[t] \in HoldOf /\ held[t].left \in Nat /\ Covered(t) /\ Bounded(t)
    BY <1>1 DEF LockInv, HoldOf
  <2>2. /\ less \in Nat /\ less <= held[t].left
        /\ less > 0 => held[t].left > 1
        /\ \A m \in Nat : held[t].left <= m => less <= Less(m)
    BY <2>1, LessType DEF Less
  <2>3. held'[t] = [held[t] EXCEPT !.left = less]
    BY DEF LockTick
  <2> HIDE DEF less
  <2>4. /\ held'[t] \in HoldOf /\ held'[t].left = less
        /\ held'[t].mode = held[t].mode /\ held'[t].ttl = held[t].ttl
    BY <2>1, <2>2, <2>3 DEF HoldOf
  <2>5. Bounded(t)'
    <3>1. Millis(held[t].ttl) \in Nat
      BY <2>1, MillisType DEF HoldOf
    <3>2. held[t].left <= Millis(held[t].ttl)
      BY <2>1 DEF Bounded
    <3>3. less <= Millis(held[t].ttl)
      BY <2>1, <2>2, <3>1, <3>2
    <3>4. QED
      BY <2>4, <3>3 DEF Bounded
  <2>6. ASSUME less > 0, held[t].mode \in StringKeys
        PROVE  string'[held[t].mode].holder = t /\ less <= string'[held[t].mode].ttl
    <3> DEFINE k == held[t].mode
    <3>1. string[k].holder = t /\ held[t].left <= string[k].ttl /\ string[k].ttl \in Nat
      BY <1>1, <2>1, <2>2, <2>6 DEF Covered, StringLease
    <3>2. string[k].ttl # 1
      BY <2>1, <2>2, <2>6, <3>1
    <3>3. QED
      BY <1>2, <2>2, <2>6, <3>1, <3>2
  <2>7. ASSUME less > 0, held[t].mode = "read"
        PROVE  t \in DOMAIN readers' /\ less <= readers'[t]
    <3>1. t \in DOMAIN readers /\ held[t].left <= readers[t] /\ readers[t] \in Nat
      BY <1>1, <2>1, <2>2, <2>7 DEF Covered
    <3>2. readers[t] <= readersTtl
      BY <3>1 DEF LockInv, ReadersKept
    <3>3. readersTtl # 1
      BY <1>1, <2>1, <2>2, <2>7, <3>1, <3>2
    <3>4. QED
      BY <1>5, <2>2, <3>1, <3>3
  <2>8. Covered(t)'
    BY <2>4, <2>6, <2>7 DEF Covered
  <2>9. QED
    BY <2>4, <2>5, <2>8
<1>10. held' \in [Token -> HoldOf]
  BY <1>9 DEF LockTick
<1>11. QED
  BY <1>1, <1>3, <1>4, <1>6, <1>7, <1>8, <1>9, <1>10, Together

-----------------------------------------------------------------------------
(* The theorems.                                                           *)

LEMMA LockNextInv == LockInv /\ [LockNext]_lockVars => LockInv'
<1> SUFFICES ASSUME LockInv, [LockNext]_lockVars PROVE LockInv'
  OBVIOUS
<1>1. CASE LockTick
  BY <1>1, LockTickStep
<1>2. ASSUME NEW t \in Token, LockStep(t) PROVE LockInv'
  <2>1. ASSUME NEW d \in LockTtls, TryLock(t, d) \/ TryWrite(t, d) \/ TryRead(t, d) PROVE LockInv'
    BY <2>1, TryLockStep, TryWriteStep, TryReadStep
  <2>2. CASE Release(t)
    BY <2>2, ReleaseStep
  <2>3. CASE ReadRelease(t)
    BY <2>3, ReadReleaseStep
  <2>4. CASE Extend(t)
    BY <2>4, ExtendStep
  <2>5. CASE ReadExtend(t)
    BY <2>5, ReadExtendStep
  <2>6. CASE DropToken(t)
    BY <2>6, DropTokenStep
  <2>7. QED
    BY <1>2, <2>1, <2>2, <2>3, <2>4, <2>5, <2>6 DEF LockStep
<1>3. CASE UNCHANGED lockVars
  <2>1. /\ string' = string /\ readers' = readers /\ readersTtl' = readersTtl
        /\ held' = held /\ reply' = reply
    BY <1>3 DEF lockVars
  <2>2. KeysExpire' /\ ReadersKept' /\ WriterAlone'
    BY <2>1 DEF LockInv, KeysExpire, ReadersKept, WriterAlone
  <2>3. \A t \in Token : Covered(t)' /\ Bounded(t)'
    BY <2>1 DEF LockInv, Covered, Bounded
  <2>4. reply' \in BOOLEAN
    BY <2>1 DEF LockInv, LockTypeOK
  <2>5. QED
    BY <2>1, <2>2, <2>3, <2>4, TypesUnfold, Together DEF LockInv
<1>4. QED
  BY <1>1, <1>2, <1>3 DEF LockNext

LEMMA LockInvariant == LockSpec => []LockInv
<1>1. LockInit => LockInv
  BY LockInitInv
<1>2. LockInv /\ [LockNext]_lockVars => LockInv'
  BY LockNextInv
<1>3. QED
  BY <1>1, <1>2, PTL DEF LockSpec

\* The keys of a lock, the tokens of its clients and the last reply keep their
\* types through every query and every expiry.
THEOREM LockTypeCorrect == LockSpec => []LockTypeOK
<1>1. LockInv => LockTypeOK
  BY DEF LockInv
<1>2. QED
  BY <1>1, LockInvariant, PTL

\* However many clients there are and whatever TTLs they ask for, no two are
\* both within the lease they were told they have unless both read.
THEOREM LockExcludes == LockSpec => []LockExclusion
<1>1. ASSUME LockInv PROVE LockExclusion
  <2>1. SUFFICES ASSUME NEW t \in Token, NEW u \in Token, t # u,
                        held[t].left > 0, held[u].left > 0,
                        Excludes(held[t].mode, held[u].mode)
                 PROVE  FALSE
    BY DEF LockExclusion
  <2>2. Covered(t) /\ Covered(u)
    BY <1>1 DEF LockInv
  <2>3. \/ held[t].mode = held[u].mode /\ held[t].mode \in StringKeys
        \/ held[t].mode = "write" /\ held[u].mode = "read"
        \/ held[t].mode = "read" /\ held[u].mode = "write"
    BY <2>1 DEF Excludes, StringKeys
  <2>4. CASE held[t].mode = held[u].mode /\ held[t].mode \in StringKeys
    BY <2>1, <2>2, <2>4 DEF Covered
  <2>5. ASSUME NEW w \in Token, NEW r \in Token, held[w].left > 0, held[r].left > 0,
               held[w].mode = "write", held[r].mode = "read"
        PROVE  FALSE
    <3>1. "write" \in StringKeys /\ Covered(w) /\ Covered(r)
      BY <1>1 DEF LockInv, StringKeys
    <3>2. string["write"] # NoKey
      BY <1>1, <2>5, <3>1, HeldKeyIs DEF Covered
    <3>3. r \in DOMAIN readers /\ held[r].left <= readers[r]
      BY <2>5, <3>1 DEF Covered
    <3>4. readers[r] = 0 /\ held[r].left \in Nat
      BY <1>1, <3>2, <3>3, TypesUnfold DEF LockInv, WriterAlone, HoldOf
    <3>5. QED
      BY <2>5, <3>3, <3>4
  <2>6. QED
    BY <2>1, <2>3, <2>4, <2>5
<1>2. QED
  BY <1>1, LockInvariant, PTL

-----------------------------------------------------------------------------
(* The locks implement LeaseLock.                                          *)

\* What the server has for a token is for what the client holds it for, and
\* the client asked for one of the TTLs.
Tied(t) ==
  held[t].mode # "none" =>
    /\ held[t].ttl \in LockTtls
    /\ \A k \in StringKeys : string[k].holder = t => held[t].mode = k
    /\ t \in RunningReaders => held[t].mode = "read"

LeaseInv == LockInv /\ \A t \in Token : Tied(t)

KeyLease(k) == [token |-> string[k].holder, mode |-> k, left |-> string[k].ttl]
ReadLease(t) == [token |-> t, mode |-> "read", left |-> readers[t]]

\* The leases that a key, or a reader, contributes.
OfKey(k) == IF string[k] = NoKey THEN {} ELSE {KeyLease(k)}
OfReader(t) == IF t \in RunningReaders THEN {ReadLease(t)} ELSE {}

NotOfKey(k) == {l \in ServerLeases : l.mode # k}
NotOfReader(t) == {l \in ServerLeases : ~ (l.mode = "read" /\ l.token = t)}

-----------------------------------------------------------------------------
(* What ServerLeases consists of.                                          *)

LEMMA Members ==
  \A l : l \in ServerLeases <=>
    \/ \E k \in StringKeys : string[k] # NoKey /\ l = KeyLease(k)
    \/ \E t \in RunningReaders : l = ReadLease(t)
BY DEF ServerLeases, KeyLease, ReadLease

LEMMA MembersNext ==
  \A l : l \in ServerLeases' <=>
    \/ \E k \in StringKeys : string'[k] # NoKey /\ l = KeyLease(k)'
    \/ \E t \in RunningReaders' : l = ReadLease(t)'
BY DEF ServerLeases, KeyLease, ReadLease

\* A step on one key changes the leases of that key.
LEMMA KeyChanges ==
  ASSUME NEW k \in StringKeys,
         \A j \in StringKeys \ {k} : string'[j] = string[j],
         RunningReaders' = RunningReaders,
         \A u \in RunningReaders : readers'[u] = readers[u]
  PROVE  /\ ServerLeases = NotOfKey(k) \cup OfKey(k)
         /\ ServerLeases' = NotOfKey(k) \cup OfKey(k)'
<1>1. "read" # k
  BY DEF StringKeys
<1>2. \A l : l \in NotOfKey(k) <=>
        \/ \E j \in StringKeys \ {k} : string[j] # NoKey /\ l = KeyLease(j)
        \/ \E t \in RunningReaders : l = ReadLease(t)
  BY <1>1, Members DEF NotOfKey, KeyLease, ReadLease
<1>3. \A j \in StringKeys \ {k} : KeyLease(j)' = KeyLease(j)
  BY DEF KeyLease
<1>4. \A t \in RunningReaders : ReadLease(t)' = ReadLease(t)
  BY DEF ReadLease
<1>5. ServerLeases = NotOfKey(k) \cup OfKey(k)
  BY <1>2, Members DEF OfKey
<1>6. ServerLeases' = NotOfKey(k) \cup OfKey(k)'
  BY <1>2, <1>3, <1>4, MembersNext DEF OfKey
<1>7. QED
  BY <1>5, <1>6

\* A step of one reader changes the lease of that reader.
LEMMA ReaderChanges ==
  ASSUME NEW t, string' = string,
         RunningReaders' \ {t} = RunningReaders \ {t},
         \A u \in RunningReaders \ {t} : readers'[u] = readers[u]
  PROVE  /\ ServerLeases = NotOfReader(t) \cup OfReader(t)
         /\ ServerLeases' = NotOfReader(t) \cup OfReader(t)'
<1>1. "read" \notin StringKeys
  BY DEF StringKeys
<1>2. \A l : l \in NotOfReader(t) <=>
        \/ \E j \in StringKeys : string[j] # NoKey /\ l = KeyLease(j)
        \/ \E u \in RunningReaders \ {t} : l = ReadLease(u)
  BY <1>1, Members DEF NotOfReader, KeyLease, ReadLease
<1>3. \A j \in StringKeys : KeyLease(j)' = KeyLease(j)
  BY DEF KeyLease
<1>4. \A u \in RunningReaders \ {t} : ReadLease(u)' = ReadLease(u)
  BY DEF ReadLease
<1>5. ServerLeases = NotOfReader(t) \cup OfReader(t)
  BY <1>2, Members DEF OfReader
<1>6. ServerLeases' = NotOfReader(t) \cup OfReader(t)'
  BY <1>2, <1>3, <1>4, MembersNext DEF OfReader
<1>7. QED
  BY <1>5, <1>6

\* Nothing that runs changes.
LEMMA LeasesStay ==
  ASSUME string' = string, RunningReaders' = RunningReaders,
         \A u \in RunningReaders : readers'[u] = readers[u]
  PROVE  ServerLeases' = ServerLeases
<1>1. \A u \in RunningReaders : ReadLease(u)' = ReadLease(u)
  BY DEF ReadLease
<1>2. \A j \in StringKeys : KeyLease(j)' = KeyLease(j)
  BY DEF KeyLease
<1>3. QED
  BY <1>1, <1>2, Members, MembersNext

\* A token that is new has no lease.
LEMMA FreshHasNone ==
  ASSUME NEW t \in Token, Fresh(t)
  PROVE  Abstract!LeasesOf(t) = {}
<1>1. t \notin RunningReaders
  BY DEF Fresh, RunningReaders
<1>2. \A l \in ServerLeases : l.token # t
  BY <1>1, Members DEF Fresh, KeyLease, ReadLease
<1>3. QED
  BY <1>2 DEF Abstract!LeasesOf

LEMMA ModesOfLeases ==
  ASSUME NEW l \in ServerLeases
  PROVE  /\ l.mode \in StringKeys => string[l.mode] # NoKey /\ l = KeyLease(l.mode)
         /\ l.mode \notin StringKeys =>
              l.mode = "read" /\ l.token \in RunningReaders /\ l = ReadLease(l.token)
BY Members DEF KeyLease, ReadLease, StringKeys

\* What the client holds is all it has on the server.
LEMMA OwnsByKey ==
  ASSUME LeaseInv, NEW t \in Token, held[t].mode \in StringKeys
  PROVE  \A l \in NotOfKey(held[t].mode) : l.token # t
<1>1. Tied(t) /\ held[t].mode # "none" /\ held[t].mode # "read"
  BY DEF LeaseInv, StringKeys
<1>2. SUFFICES ASSUME NEW l \in NotOfKey(held[t].mode), l.token = t PROVE FALSE
  OBVIOUS
<1>3. l \in ServerLeases /\ l.mode # held[t].mode
  BY <1>2 DEF NotOfKey
<1>4. CASE l.mode \in StringKeys
  BY <1>1, <1>2, <1>3, <1>4, ModesOfLeases DEF Tied, KeyLease
<1>5. CASE l.mode \notin StringKeys
  BY <1>1, <1>2, <1>3, <1>5, ModesOfLeases DEF Tied
<1>6. QED
  BY <1>4, <1>5

LEMMA OwnsAsReader ==
  ASSUME LeaseInv, NEW t \in Token, held[t].mode = "read"
  PROVE  \A l \in NotOfReader(t) : l.token # t
<1>1. Tied(t) /\ "read" \notin StringKeys
  BY DEF LeaseInv, StringKeys
<1>2. SUFFICES ASSUME NEW l \in NotOfReader(t), l.token = t PROVE FALSE
  OBVIOUS
<1>3. l \in ServerLeases /\ l.mode # "read"
  BY <1>2 DEF NotOfReader
<1>4. l.mode \in StringKeys /\ string[l.mode].holder = t
  BY <1>2, <1>3, ModesOfLeases DEF KeyLease
<1>5. QED
  BY <1>1, <1>4 DEF Tied

-----------------------------------------------------------------------------
(* Queries.                                                                *)

\* A key that is free is granted, one that is not is refused.
LEMMA SetNxRefines ==
  ASSUME LeaseInv, NEW k \in StringKeys, NEW t \in Token, NEW d \in LockTtls,
         Fresh(t), SetNx(k, t, Millis(d)),
         RunningReaders' = RunningReaders,
         \A u \in RunningReaders : readers'[u] = readers[u],
         k = "write" => RunningReaders = {}
  PROVE  Abstract!LeaseNext
<1>1. k \in {"lock", "write"} /\ k \in Abstract!Modes /\ Millis(d) \in Durations
  BY DEF StringKeys, Abstract!Modes, Durations
<1>2. /\ reply' \in BOOLEAN
      /\ \A j \in StringKeys \ {k} : string'[j] = string[j]
      /\ reply' => string[k] = NoKey /\ string'[k] = [holder |-> t, ttl |-> Millis(d)]
      /\ ~ reply' => string' = string
  BY SetNxGives DEF LeaseInv
<1>3. /\ ServerLeases = NotOfKey(k) \cup OfKey(k)
      /\ ServerLeases' = NotOfKey(k) \cup OfKey(k)'
  BY <1>2, KeyChanges
<1>4. CASE string[k] = NoKey
  <2>1. reply' = TRUE
    BY <1>4 DEF SetNx
  <2>2. string'[k] # NoKey
    BY <1>2, <2>1, TokenAssumption DEF NoKey, TokenAssumption
  <2>3. OfKey(k) = {} /\ OfKey(k)' = {Abstract!Lease(t, k, Millis(d))}
    BY <1>2, <1>4, <2>1, <2>2 DEF OfKey, KeyLease, Abstract!Lease
  <2>4. ServerLeases' = ServerLeases \cup {Abstract!Lease(t, k, Millis(d))}
    BY <1>3, <2>3
  <2>5. ASSUME NEW l \in ServerLeases PROVE ~ Abstract!Clash(l.mode, k)
    <3>1. CASE l.mode \in StringKeys
      <4>1. l.mode # k
        BY <1>4, <3>1, ModesOfLeases
      <4>2. QED
        BY <1>1, <3>1, <4>1 DEF Abstract!Clash, StringKeys
    <3>2. CASE l.mode \notin StringKeys
      <4>1. l.mode = "read" /\ k # "write"
        BY <3>2, ModesOfLeases
      <4>2. QED
        BY <1>1, <4>1 DEF Abstract!Clash
    <3>3. QED
      BY <3>1, <3>2
  <2>6. Abstract!Grant(t, k, Millis(d))
    BY <2>1, <2>4, <2>5, FreshHasNone DEF Abstract!Grant
  <2>7. QED
    BY <1>1, <2>6 DEF Abstract!LeaseNext
<1>5. CASE string[k] # NoKey
  <2>1. reply' = FALSE /\ string' = string
    BY <1>5 DEF SetNx
  <2>2. ServerLeases' = ServerLeases
    BY <2>1, LeasesStay
  <2>3. KeyLease(k) \in ServerLeases /\ Abstract!Clash(KeyLease(k).mode, k)
    BY <1>1, <1>5, Members DEF KeyLease, Abstract!Clash
  <2>4. Abstract!Refuse(k)
    BY <2>1, <2>2, <2>3 DEF Abstract!Refuse
  <2>5. QED
    BY <1>1, <2>4 DEF Abstract!LeaseNext
<1>6. QED
  BY <1>4, <1>5

LEMMA TryLockRefines ==
  ASSUME LeaseInv, NEW t \in Token, NEW d \in LockTtls, TryLock(t, d)
  PROVE  Abstract!LeaseNext
<1>1. Fresh(t) /\ SetNx("lock", t, Millis(d)) /\ readers' = readers /\ "lock" \in StringKeys
  BY DEF TryLock, StringKeys
<1>2. RunningReaders' = RunningReaders /\ \A u \in RunningReaders : readers'[u] = readers[u]
  BY <1>1 DEF RunningReaders
<1>3. QED
  BY <1>1, <1>2, SetNxRefines

LEMMA TryWriteRefines ==
  ASSUME LeaseInv, NEW t \in Token, NEW d \in LockTtls, TryWrite(t, d)
  PROVE  Abstract!LeaseNext
<1>1. /\ Fresh(t) /\ WRITE_ACQUIRE(t, Millis(d)) /\ "write" \in StringKeys
      /\ readers' = [u \in RunningReaders |-> readers[u]]
  BY DEF TryWrite, WRITE_ACQUIRE, Keep, StringKeys
<1>2. RunningReaders' = RunningReaders /\ \A u \in RunningReaders : readers'[u] = readers[u]
  BY <1>1 DEF RunningReaders
<1>3. CASE RunningReaders = {}
  BY <1>1, <1>2, <1>3, SetNxRefines DEF WRITE_ACQUIRE
<1>4. CASE RunningReaders # {}
  <2>1. reply' = FALSE /\ string' = string
    BY <1>1, <1>4 DEF WRITE_ACQUIRE
  <2>2. ServerLeases' = ServerLeases
    BY <1>2, <2>1, LeasesStay
  <2>3. PICK u \in RunningReaders : TRUE
    BY <1>4
  <2>4. ReadLease(u) \in ServerLeases /\ Abstract!Clash(ReadLease(u).mode, "write")
    BY Members DEF ReadLease, Abstract!Clash
  <2>5. Abstract!Refuse("write")
    BY <2>1, <2>2, <2>4 DEF Abstract!Refuse
  <2>6. QED
    BY <2>5 DEF Abstract!LeaseNext, Abstract!Modes
<1>5. QED
  BY <1>3, <1>4

LEMMA TryReadRefines ==
  ASSUME LeaseInv, NEW t \in Token, NEW d \in LockTtls, TryRead(t, d)
  PROVE  Abstract!LeaseNext
<1>1. /\ Fresh(t) /\ READ_ACQUIRE(t, Millis(d)) /\ string' = string
      /\ "write" \in StringKeys /\ "read" \in Abstract!Modes /\ Millis(d) \in Durations
      /\ Millis(d) > 0
  BY MillisType DEF TryRead, StringKeys, Abstract!Modes, Durations
<1>2. CASE string["write"] # NoKey
  <2>1. reply' = FALSE /\ readers' = readers
    BY <1>1, <1>2 DEF READ_ACQUIRE
  <2>2. ServerLeases' = ServerLeases
    BY <1>1, <2>1, LeasesStay DEF RunningReaders
  <2>3. KeyLease("write") \in ServerLeases /\ Abstract!Clash(KeyLease("write").mode, "read")
    BY <1>1, <1>2, Members DEF KeyLease, Abstract!Clash
  <2>4. Abstract!Refuse("read")
    BY <2>1, <2>2, <2>3 DEF Abstract!Refuse
  <2>5. QED
    BY <1>1, <2>4 DEF Abstract!LeaseNext
<1>3. CASE string["write"] = NoKey
  <2>1. /\ reply' = TRUE /\ t \notin RunningReaders
        /\ readers' = [u \in RunningReaders \cup {t} |-> IF u = t THEN Millis(d) ELSE readers[u]]
    BY <1>1, <1>3 DEF READ_ACQUIRE, Fresh, RunningReaders
  <2>2. /\ DOMAIN readers' = RunningReaders \cup {t} /\ readers'[t] = Millis(d)
        /\ \A u \in RunningReaders : readers'[u] = readers[u] /\ readers[u] > 0
    BY <2>1 DEF RunningReaders
  <2>3. RunningReaders' = RunningReaders \cup {t}
    BY <1>1, <2>2 DEF RunningReaders
  <2>4. /\ ServerLeases = NotOfReader(t) \cup OfReader(t)
        /\ ServerLeases' = NotOfReader(t) \cup OfReader(t)'
    BY <1>1, <2>1, <2>2, <2>3, ReaderChanges
  <2>5. OfReader(t) = {} /\ OfReader(t)' = {Abstract!Lease(t, "read", Millis(d))}
    BY <2>1, <2>2, <2>3 DEF OfReader, ReadLease, Abstract!Lease
  <2>6. ServerLeases' = ServerLeases \cup {Abstract!Lease(t, "read", Millis(d))}
    BY <2>4, <2>5
  <2>7. ASSUME NEW l \in ServerLeases PROVE ~ Abstract!Clash(l.mode, "read")
    <3>1. l.mode # "write"
      BY <1>1, <1>3, ModesOfLeases
    <3>2. QED
      BY <3>1 DEF Abstract!Clash
  <2>8. Abstract!Grant(t, "read", Millis(d))
    BY <1>1, <2>1, <2>6, <2>7, FreshHasNone DEF Abstract!Grant
  <2>9. QED
    BY <1>1, <2>8 DEF Abstract!LeaseNext
<1>4. QED
  BY <1>2, <1>3

\* A token's key is its only lease; without it, it has none.
LEMMA KeyIsItsLease ==
  ASSUME LeaseInv, NEW t \in Token, NEW k \in StringKeys, held[t].mode = k,
         ServerLeases = NotOfKey(k) \cup OfKey(k)
  PROVE  /\ string[k].holder = t => Abstract!LeasesOf(t) = OfKey(k) /\ OfKey(k) # {}
         /\ string[k].holder # t => Abstract!LeasesOf(t) = {}
<1>1. \A l \in NotOfKey(k) : l.token # t
  BY OwnsByKey
<1>2. \A l \in OfKey(k) : l = KeyLease(k) /\ l.token = string[k].holder
  BY DEF OfKey, KeyLease
<1>3. string[k].holder = t => OfKey(k) = {KeyLease(k)}
  BY HeldKeyIs DEF OfKey, LeaseInv
<1>4. \A l : l \in Abstract!LeasesOf(t) <=> l \in OfKey(k) /\ string[k].holder = t
  BY <1>1, <1>2 DEF Abstract!LeasesOf
<1>5. QED
  BY <1>3, <1>4

LEMMA ReleaseRefines ==
  ASSUME LeaseInv, NEW t \in Token, NEW k \in StringKeys, held[t].mode = k, Release(t)
  PROVE  Abstract!LeaseNext
<1>1. RELEASE(k, t) /\ readers' = readers
  BY DEF Release
<1>2. RunningReaders' = RunningReaders
  BY <1>1 DEF RunningReaders
<1>3. string \in [StringKeys -> StringLease]
  BY TypesUnfold DEF LeaseInv, LockInv
<1>4. /\ reply' = (string[k].holder = t)
      /\ string[k].holder = t => string'[k] = NoKey
      /\ string[k].holder # t => string' = string
      /\ \A j \in StringKeys \ {k} : string'[j] = string[j]
  BY <1>1, <1>3 DEF RELEASE
<1>5. /\ ServerLeases = NotOfKey(k) \cup OfKey(k)
      /\ ServerLeases' = NotOfKey(k) \cup OfKey(k)'
  BY <1>1, <1>2, <1>4, KeyChanges
<1>6. /\ string[k].holder = t => Abstract!LeasesOf(t) = OfKey(k) /\ OfKey(k) # {}
      /\ string[k].holder # t => Abstract!LeasesOf(t) = {}
  BY <1>1, <1>5, KeyIsItsLease
<1>7. \A l \in NotOfKey(k) : l \notin OfKey(k)
  BY DEF NotOfKey, OfKey, KeyLease
<1>8. CASE string[k].holder = t
  <2>1. OfKey(k)' = {}
    BY <1>4, <1>8 DEF OfKey
  <2>2. ServerLeases' = ServerLeases \ Abstract!LeasesOf(t)
    BY <1>5, <1>6, <1>7, <1>8, <2>1
  <2>3. Abstract!GiveBack(t)
    BY <1>4, <1>6, <1>8, <2>2 DEF Abstract!GiveBack
  <2>4. QED
    BY <2>3 DEF Abstract!LeaseNext
<1>9. CASE string[k].holder # t
  <2>1. ServerLeases' = ServerLeases
    BY <1>1, <1>2, <1>4, <1>9, LeasesStay
  <2>2. Abstract!GiveBack(t)
    BY <1>4, <1>6, <1>9, <2>1 DEF Abstract!GiveBack
  <2>3. QED
    BY <2>2 DEF Abstract!LeaseNext
<1>10. QED
  BY <1>8, <1>9

LEMMA ExtendRefines ==
  ASSUME LeaseInv, NEW t \in Token, NEW k \in StringKeys, held[t].mode = k, Extend(t)
  PROVE  Abstract!LeaseNext
<1> DEFINE d == Millis(held[t].ttl)
<1>1. EXTEND(k, t, d) /\ readers' = readers
  BY DEF Extend
<1>2. RunningReaders' = RunningReaders
  BY <1>1 DEF RunningReaders
<1>3. held[t].ttl \in LockTtls /\ d \in Durations
  BY <1>1 DEF LeaseInv, Tied, StringKeys, Durations
<1> HIDE DEF d
<1>4. string \in [StringKeys -> StringLease] /\ d \in Nat
  BY <1>3, TypesUnfold, MillisType DEF LeaseInv, LockInv, d
<1>5. CASE string[k].holder = t
  <2>1. reply' = TRUE /\ string' = [string EXCEPT ![k] = [string[k] EXCEPT !.ttl = d]]
    BY <1>1, <1>5 DEF EXTEND
  <2>2. [string[k] EXCEPT !.ttl = d] = [holder |-> t, ttl |-> d]
    BY <1>1, <1>4, <1>5 DEF StringLease
  <2>3. string'[k] = [holder |-> t, ttl |-> d] /\ \A j \in StringKeys \ {k} : string'[j] = string[j]
    BY <1>1, <1>4, <2>1, <2>2
  <2>4. /\ ServerLeases = NotOfKey(k) \cup OfKey(k)
        /\ ServerLeases' = NotOfKey(k) \cup OfKey(k)'
    BY <1>1, <1>2, <2>3, KeyChanges
  <2>5. Abstract!LeasesOf(t) = OfKey(k) /\ OfKey(k) # {}
    BY <1>1, <1>5, <2>4, KeyIsItsLease
  <2>6. OfKey(k) = {KeyLease(k)}
    BY <2>5 DEF OfKey
  <2>7. OfKey(k)' = {Abstract!Lease(t, k, d)}
    BY <2>3, TokenAssumption DEF OfKey, KeyLease, NoKey, TokenAssumption, Abstract!Lease
  <2>8. {Abstract!Lease(t, l.mode, d) : l \in Abstract!LeasesOf(t)} = {Abstract!Lease(t, k, d)}
    BY <2>5, <2>6 DEF KeyLease
  <2>9. \A l \in NotOfKey(k) : l \notin OfKey(k)
    BY DEF NotOfKey, OfKey, KeyLease
  <2>10. ServerLeases' = (ServerLeases \ Abstract!LeasesOf(t))
                           \cup {Abstract!Lease(t, l.mode, d) : l \in Abstract!LeasesOf(t)}
    BY <2>4, <2>5, <2>7, <2>8, <2>9
  <2>11. Abstract!Restart(t, d)
    BY <2>1, <2>5, <2>10 DEF Abstract!Restart
  <2>12. QED
    BY <1>3, <2>11 DEF Abstract!LeaseNext
<1>6. CASE string[k].holder # t
  <2>1. reply' = FALSE /\ string' = string
    BY <1>1, <1>6 DEF EXTEND
  <2>2. ServerLeases' = ServerLeases
    BY <1>1, <1>2, <2>1, LeasesStay
  <2>3. ServerLeases = NotOfKey(k) \cup OfKey(k)
    BY <1>1, <1>2, <2>1, KeyChanges
  <2>4. Abstract!LeasesOf(t) = {}
    BY <1>1, <1>6, <2>3, KeyIsItsLease
  <2>5. Abstract!Restart(t, d)
    BY <2>1, <2>2, <2>4 DEF Abstract!Restart
  <2>6. QED
    BY <1>3, <2>5 DEF Abstract!LeaseNext
<1>7. QED
  BY <1>5, <1>6

\* The same for a reader and its place in the set.
LEMMA ReadIsItsLease ==
  ASSUME LeaseInv, NEW t \in Token, held[t].mode = "read",
         ServerLeases = NotOfReader(t) \cup OfReader(t)
  PROVE  Abstract!LeasesOf(t) = OfReader(t) /\ (OfReader(t) # {} <=> t \in RunningReaders)
<1>1. \A l \in NotOfReader(t) : l.token # t
  BY OwnsAsReader
<1>2. \A l \in OfReader(t) : l.token = t
  BY DEF OfReader, ReadLease
<1>3. QED
  BY <1>1, <1>2 DEF Abstract!LeasesOf, OfReader

LEMMA ReadReleaseRefines ==
  ASSUME LeaseInv, NEW t \in Token, ReadRelease(t)
  PROVE  Abstract!LeaseNext
<1>1. /\ held[t].mode = "read" /\ string' = string /\ reply' = (t \in RunningReaders)
      /\ readers' = [u \in DOMAIN readers \ {t} |-> readers[u]]
  BY DEF ReadRelease, READ_RELEASE, Keep
<1>2. RunningReaders' = RunningReaders \ {t} /\ \A u \in RunningReaders \ {t} : readers'[u] = readers[u]
  BY <1>1 DEF RunningReaders
<1>3. /\ ServerLeases = NotOfReader(t) \cup OfReader(t)
      /\ ServerLeases' = NotOfReader(t) \cup OfReader(t)'
  BY <1>1, <1>2, ReaderChanges
<1>4. Abstract!LeasesOf(t) = OfReader(t) /\ (OfReader(t) # {} <=> t \in RunningReaders)
  BY <1>1, <1>3, ReadIsItsLease
<1>5. OfReader(t)' = {} /\ \A l \in NotOfReader(t) : l \notin OfReader(t)
  BY <1>2 DEF OfReader, NotOfReader, ReadLease
<1>6. ServerLeases' = ServerLeases \ Abstract!LeasesOf(t)
  BY <1>3, <1>4, <1>5
<1>7. Abstract!GiveBack(t)
  BY <1>1, <1>4, <1>6 DEF Abstract!GiveBack
<1>8. QED
  BY <1>7 DEF Abstract!LeaseNext

LEMMA ReadExtendRefines ==
  ASSUME LeaseInv, NEW t \in Token, ReadExtend(t)
  PROVE  Abstract!LeaseNext
<1> DEFINE d == Millis(held[t].ttl)
<1>1. held[t].mode = "read" /\ string' = string /\ READ_EXTEND(t, d)
  BY DEF ReadExtend
<1>2. held[t].ttl \in LockTtls /\ d \in Durations /\ d > 0
  BY <1>1, MillisType DEF LeaseInv, Tied, Durations
<1> HIDE DEF d
<1>3. CASE t \in RunningReaders
  <2>1. reply' = TRUE /\ readers' = [readers EXCEPT ![t] = d] /\ t \in DOMAIN readers
    BY <1>1, <1>3 DEF READ_EXTEND, RunningReaders
  <2>2. /\ DOMAIN readers' = DOMAIN readers /\ readers'[t] = d
        /\ \A u \in DOMAIN readers \ {t} : readers'[u] = readers[u]
    BY <2>1
  <2>3. RunningReaders' = RunningReaders /\ \A u \in RunningReaders \ {t} : readers'[u] = readers[u]
    BY <1>2, <1>3, <2>2 DEF RunningReaders
  <2>4. /\ ServerLeases = NotOfReader(t) \cup OfReader(t)
        /\ ServerLeases' = NotOfReader(t) \cup OfReader(t)'
    BY <1>1, <2>3, ReaderChanges
  <2>5. Abstract!LeasesOf(t) = OfReader(t) /\ OfReader(t) = {ReadLease(t)}
    BY <1>1, <1>3, <2>4, ReadIsItsLease DEF OfReader
  <2>6. OfReader(t)' = {Abstract!Lease(t, "read", d)}
    BY <1>3, <2>2, <2>3 DEF OfReader, ReadLease, Abstract!Lease
  <2>7. {Abstract!Lease(t, l.mode, d) : l \in Abstract!LeasesOf(t)} = {Abstract!Lease(t, "read", d)}
    BY <2>5 DEF ReadLease
  <2>8. \A l \in NotOfReader(t) : l \notin OfReader(t)
    BY DEF OfReader, NotOfReader, ReadLease
  <2>9. ServerLeases' = (ServerLeases \ Abstract!LeasesOf(t))
                          \cup {Abstract!Lease(t, l.mode, d) : l \in Abstract!LeasesOf(t)}
    BY <2>4, <2>5, <2>6, <2>7, <2>8
  <2>10. Abstract!Restart(t, d)
    BY <2>1, <2>5, <2>9 DEF Abstract!Restart
  <2>11. QED
    BY <1>2, <2>10 DEF Abstract!LeaseNext
<1>4. CASE t \notin RunningReaders
  <2>1. reply' = FALSE /\ readers' = readers
    BY <1>1, <1>4 DEF READ_EXTEND
  <2>2. RunningReaders' = RunningReaders
    BY <2>1 DEF RunningReaders
  <2>3. ServerLeases' = ServerLeases /\ ServerLeases = NotOfReader(t) \cup OfReader(t)
    BY <1>1, <2>1, <2>2, LeasesStay, ReaderChanges
  <2>4. Abstract!LeasesOf(t) = {}
    BY <1>1, <1>4, <2>3, ReadIsItsLease DEF OfReader
  <2>5. Abstract!Restart(t, d)
    BY <2>1, <2>3, <2>4 DEF Abstract!Restart
  <2>6. QED
    BY <1>2, <2>5 DEF Abstract!LeaseNext
<1>5. QED
  BY <1>3, <1>4

-----------------------------------------------------------------------------
(* A millisecond.                                                          *)

LEMMA LockTickRefines ==
  ASSUME LockInv, LockTick
  PROVE  Abstract!LeaseNext
<1> DEFINE after == {Abstract!Lease(l.token, l.mode, l.left - 1) : l \in {l \in ServerLeases : l.left > 1}}
<1>1. /\ string \in [StringKeys -> StringLease] /\ readersTtl \in Nat
      /\ \A t \in DOMAIN readers : readers[t] \in Nat /\ readers[t] <= readersTtl
  BY TypesUnfold DEF LockInv, ReadersKept
<1>2. ASSUME NEW k \in StringKeys
      PROVE  /\ string'[k] # NoKey <=> string[k] # NoKey /\ string[k].ttl > 1
             /\ string'[k] # NoKey =>
                  KeyLease(k)' = Abstract!Lease(string[k].holder, k, string[k].ttl - 1)
  <2>1. string[k].ttl \in Nat /\ (string[k] = NoKey \/ string[k].ttl > 0)
    BY <1>1 DEF StringLease, LockInv, KeysExpire
  <2>2. /\ string'[k] = NoKey \/ string'[k].ttl > 0
        /\ string[k].ttl = 1 => string'[k] = NoKey
        /\ string[k].ttl # 1 => string'[k].holder = string[k].holder
        /\ string'[k].ttl = Less(string[k].ttl)
    BY KeyTicks
  <2>3. CASE string[k].ttl > 1
    <3>1. string'[k].ttl = string[k].ttl - 1 /\ string'[k].ttl > 0
      BY <2>1, <2>2, <2>3 DEF Less
    <3>2. QED
      BY <2>1, <2>2, <2>3, <3>1 DEF NoKey, KeyLease, Abstract!Lease
  <2>4. CASE string[k].ttl = 1
    BY <2>2, <2>4
  <2>5. CASE string[k].ttl = 0
    BY <2>1, <2>2, <2>5 DEF Less
  <2>6. QED
    BY <2>1, <2>3, <2>4, <2>5
<1>3. ASSUME NEW t
      PROVE  /\ t \in RunningReaders' <=> t \in DOMAIN readers /\ readers[t] > 1
             /\ t \in RunningReaders' => ReadLease(t)' = Abstract!Lease(t, "read", readers[t] - 1)
  <2>1. /\ DOMAIN readers' = IF readersTtl = 1 THEN {} ELSE DOMAIN readers
        /\ t \in DOMAIN readers' => readers'[t] = Less(readers[t])
    BY DEF LockTick, Expires
  <2>2. t \in DOMAIN readers /\ readers[t] > 1 => readersTtl # 1
    BY <1>1
  <2>3. t \in DOMAIN readers => (Less(readers[t]) > 0 <=> readers[t] > 1)
                                /\ (readers[t] > 1 => Less(readers[t]) = readers[t] - 1)
    BY <1>1 DEF Less
  <2>4. QED
    BY <2>1, <2>2, <2>3 DEF RunningReaders, ReadLease, Abstract!Lease
<1>4. ASSUME NEW l \in ServerLeases' PROVE l \in after
  <2>1. CASE \E k \in StringKeys : string'[k] # NoKey /\ l = KeyLease(k)'
    <3>1. PICK k \in StringKeys : string'[k] # NoKey /\ l = KeyLease(k)'
      BY <2>1
    <3>2. KeyLease(k) \in ServerLeases /\ KeyLease(k).left > 1
      BY <1>2, <3>1, Members DEF KeyLease
    <3>3. l = Abstract!Lease(KeyLease(k).token, KeyLease(k).mode, KeyLease(k).left - 1)
      BY <1>2, <3>1 DEF KeyLease
    <3>4. QED
      BY <3>2, <3>3
  <2>2. CASE \E t \in RunningReaders' : l = ReadLease(t)'
    <3>1. PICK t \in RunningReaders' : l = ReadLease(t)'
      BY <2>2
    <3>2. t \in RunningReaders
      BY <1>1, <1>3, <3>1 DEF RunningReaders
    <3>3. ReadLease(t) \in ServerLeases /\ ReadLease(t).left > 1
      BY <1>3, <3>1, <3>2, Members DEF ReadLease
    <3>4. l = Abstract!Lease(ReadLease(t).token, ReadLease(t).mode, ReadLease(t).left - 1)
      BY <1>3, <3>1 DEF ReadLease
    <3>5. QED
      BY <3>3, <3>4
  <2>3. QED
    BY <2>1, <2>2, MembersNext
<1>5. ASSUME NEW m \in ServerLeases, m.left > 1
      PROVE  Abstract!Lease(m.token, m.mode, m.left - 1) \in ServerLeases'
  <2>1. CASE m.mode \in StringKeys
    <3>1. string[m.mode] # NoKey /\ m = KeyLease(m.mode)
      BY <2>1, ModesOfLeases
    <3>2. /\ string[m.mode].ttl > 1 /\ m.token = string[m.mode].holder
          /\ m.left = string[m.mode].ttl
      BY <1>5, <3>1 DEF KeyLease
    <3>3. string'[m.mode] # NoKey
      BY <1>2, <2>1, <3>1, <3>2
    <3>4. Abstract!Lease(m.token, m.mode, m.left - 1)
            = Abstract!Lease(string[m.mode].holder, m.mode, string[m.mode].ttl - 1)
      BY <3>2
    <3>5. \E k \in StringKeys : string'[k] # NoKey
             /\ Abstract!Lease(m.token, m.mode, m.left - 1) = KeyLease(k)'
      BY <1>2, <2>1, <3>3, <3>4
    <3>6. QED
      BY <3>5, MembersNext
  <2>2. CASE m.mode \notin StringKeys
    <3>1. m.mode = "read" /\ m.token \in RunningReaders /\ m = ReadLease(m.token)
      BY <2>2, ModesOfLeases
    <3>2. m.token \in DOMAIN readers /\ readers[m.token] > 1 /\ m.left = readers[m.token]
      BY <1>5, <3>1 DEF RunningReaders, ReadLease
    <3>3. m.token \in RunningReaders'
          /\ ReadLease(m.token)' = Abstract!Lease(m.token, m.mode, m.left - 1)
      <4> DEFINE u == m.token
      <4>1. u \in DOMAIN readers /\ readers[u] > 1 /\ m.left = readers[u]
        BY <3>2
      <4> HIDE DEF u
      <4>2. u \in RunningReaders'
        BY <1>3, <4>1
      <4>3. QED
        BY <1>3, <3>1, <4>1, <4>2 DEF u
    <3>4. QED
      BY <3>3, MembersNext
  <2>3. QED
    BY <2>1, <2>2
<1>6. ServerLeases' = after
  BY <1>4, <1>5
<1>7. Abstract!PassTime
  BY <1>6 DEF Abstract!PassTime, LockTick
<1>8. QED
  BY <1>7 DEF Abstract!LeaseNext

-----------------------------------------------------------------------------
(* The invariant.                                                          *)

\* Tokens other than t, when only t comes to hold something.
LEMMA OthersTied ==
  ASSUME LeaseInv, NEW t \in Token,
         \A u \in Token \ {t} : held'[u] = held[u],
         \A k \in StringKeys : string'[k].holder \in {string[k].holder, t, NoToken},
         \A u \in RunningReaders' \ {t} : u \in RunningReaders
  PROVE  \A u \in Token \ {t} : Tied(u)'
BY TokenAssumption DEF LeaseInv, Tied, TokenAssumption

\* An acquisition ties the token to what it asked for.
LEMMA AcquiredTied ==
  ASSUME LeaseInv, NEW t \in Token, NEW m \in LockModes, NEW d \in LockTtls,
         Fresh(t), Receive(t, m, d),
         \A k \in StringKeys : string'[k].holder \in {string[k].holder, t, NoToken},
         \A k \in StringKeys : k # m => string'[k] = string[k],
         \A u \in RunningReaders' \ {t} : u \in RunningReaders,
         m # "read" => t \notin RunningReaders'
  PROVE  \A u \in Token : Tied(u)'
<1>1. /\ \A u \in Token \ {t} : held'[u] = held[u]
      /\ held'[t] = held[t] \/ held'[t] = Hold(m, d)
  BY ReceiveGives DEF LeaseInv, LockInv
<1>2. \A u \in Token \ {t} : Tied(u)'
  BY <1>1, OthersTied
<1>3. held[t].mode = "none" /\ \A k \in StringKeys : string[k].holder # t
  BY DEF Fresh, NoHold
<1>4. CASE held'[t] = held[t]
  BY <1>2, <1>3, <1>4 DEF Tied
<1>5. CASE held'[t] = Hold(m, d)
  <2>1. held'[t].mode = m /\ held'[t].ttl = d
    BY <1>5 DEF Hold
  <2>2. \A k \in StringKeys : string'[k].holder = t => k = m
    BY <1>3
  <2>3. Tied(t)'
    BY <2>1, <2>2 DEF Tied
  <2>4. QED
    BY <1>2, <2>3
<1>6. QED
  BY <1>1, <1>4, <1>5

\* A key that is set if it is free has its old holder or t.
LEMMA SetNxHolders ==
  ASSUME LockInv, NEW k \in StringKeys, NEW t \in Token, NEW d \in LockTtls,
         SetNx(k, t, Millis(d))
  PROVE  /\ \A j \in StringKeys : string'[j].holder \in {string[j].holder, t, NoToken}
         /\ \A j \in StringKeys : j # k => string'[j] = string[j]
<1>1. /\ reply' \in BOOLEAN
      /\ \A j \in StringKeys \ {k} : string'[j] = string[j]
      /\ reply' => string'[k] = [holder |-> t, ttl |-> Millis(d)]
      /\ ~ reply' => string' = string
  BY SetNxGives
<1>2. QED
  BY <1>1

LEMMA TryLockTied ==
  ASSUME LeaseInv, NEW t \in Token, NEW d \in LockTtls, TryLock(t, d)
  PROVE  \A u \in Token : Tied(u)'
<1>1. /\ Fresh(t) /\ SetNx("lock", t, Millis(d)) /\ Receive(t, "lock", d)
      /\ readers' = readers /\ "lock" \in StringKeys /\ "lock" \in LockModes
  BY DEF TryLock, StringKeys, LockModes
<1>2. RunningReaders' = RunningReaders /\ t \notin RunningReaders
  BY <1>1 DEF RunningReaders, Fresh
<1>3. /\ \A j \in StringKeys : string'[j].holder \in {string[j].holder, t, NoToken}
      /\ \A j \in StringKeys : j # "lock" => string'[j] = string[j]
  BY <1>1, SetNxHolders DEF LeaseInv
<1>4. QED
  BY <1>1, <1>2, <1>3, AcquiredTied

LEMMA TryWriteTied ==
  ASSUME LeaseInv, NEW t \in Token, NEW d \in LockTtls, TryWrite(t, d)
  PROVE  \A u \in Token : Tied(u)'
<1>1. /\ Fresh(t) /\ WRITE_ACQUIRE(t, Millis(d)) /\ Receive(t, "write", d)
      /\ readers' = [u \in RunningReaders |-> readers[u]]
      /\ "write" \in StringKeys /\ "write" \in LockModes
  BY DEF TryWrite, WRITE_ACQUIRE, Keep, StringKeys, LockModes
<1>2. RunningReaders' = RunningReaders /\ t \notin RunningReaders
  BY <1>1 DEF RunningReaders, Fresh
<1>3. /\ \A j \in StringKeys : string'[j].holder \in {string[j].holder, t, NoToken}
      /\ \A j \in StringKeys : j # "write" => string'[j] = string[j]
  <2>1. CASE RunningReaders = {}
    <3>1. SetNx("write", t, Millis(d))
      BY <1>1, <2>1 DEF WRITE_ACQUIRE
    <3>2. QED
      BY <1>1, <3>1, SetNxHolders DEF LeaseInv
  <2>2. CASE RunningReaders # {}
    <3>1. string' = string
      BY <1>1, <2>2 DEF WRITE_ACQUIRE
    <3>2. QED
      BY <3>1
  <2>3. QED
    BY <2>1, <2>2
<1>4. QED
  BY <1>1, <1>2, <1>3, AcquiredTied

LEMMA TryReadTied ==
  ASSUME LeaseInv, NEW t \in Token, NEW d \in LockTtls, TryRead(t, d)
  PROVE  \A u \in Token : Tied(u)'
<1>1. /\ Fresh(t) /\ READ_ACQUIRE(t, Millis(d)) /\ Receive(t, "read", d)
      /\ string' = string /\ "read" \in LockModes
  BY DEF TryRead, LockModes
<1>2. \A u \in RunningReaders' \ {t} : u \in RunningReaders
  BY <1>1 DEF READ_ACQUIRE, RunningReaders
<1>3. \A j \in StringKeys : string'[j].holder \in {string[j].holder, t, NoToken}
  BY <1>1
<1>4. QED
  BY <1>1, <1>2, <1>3, AcquiredTied

\* A token that is given up is tied to nothing.
LEMMA GivenUpTied ==
  ASSUME LeaseInv, NEW t \in Token, held' = [held EXCEPT ![t] = NoHold],
         \A k \in StringKeys : string'[k].holder \in {string[k].holder, t, NoToken},
         \A u \in RunningReaders' \ {t} : u \in RunningReaders
  PROVE  \A u \in Token : Tied(u)'
<1>1. held'[t] = NoHold /\ \A u \in Token \ {t} : held'[u] = held[u]
  BY DroppedGives DEF LeaseInv, LockInv
<1>2. \A u \in Token \ {t} : Tied(u)'
  BY <1>1, OthersTied
<1>3. Tied(t)'
  BY <1>1 DEF Tied, NoHold
<1>4. QED
  BY <1>2, <1>3

LEMMA ReleaseTied ==
  ASSUME LeaseInv, NEW t \in Token, Release(t)
  PROVE  \A u \in Token : Tied(u)'
<1>1. /\ held' = [held EXCEPT ![t] = NoHold] /\ RELEASE(held[t].mode, t)
      /\ readers' = readers
  BY DEF Release
<1>2. string \in [StringKeys -> StringLease] /\ NoKey.holder = NoToken
  BY TypesUnfold DEF LeaseInv, LockInv, NoKey
<1>3. \A k \in StringKeys : string'[k] = string[k] \/ string'[k] = NoKey
  BY <1>1, <1>2 DEF RELEASE
<1>4. QED
  BY <1>1, <1>2, <1>3, GivenUpTied DEF RunningReaders

LEMMA ReadReleaseTied ==
  ASSUME LeaseInv, NEW t \in Token, ReadRelease(t)
  PROVE  \A u \in Token : Tied(u)'
<1>1. /\ held' = [held EXCEPT ![t] = NoHold] /\ string' = string
      /\ readers' = [u \in DOMAIN readers \ {t} |-> readers[u]]
  BY DEF ReadRelease, READ_RELEASE, Keep
<1>2. \A u \in RunningReaders' \ {t} : u \in RunningReaders
  BY <1>1 DEF RunningReaders
<1>3. QED
  BY <1>1, <1>2, GivenUpTied

LEMMA DropTokenTied ==
  ASSUME LeaseInv, NEW t \in Token, DropToken(t)
  PROVE  \A u \in Token : Tied(u)'
<1>1. held' = [held EXCEPT ![t] = NoHold] /\ string' = string /\ readers' = readers
  BY DEF DropToken
<1>2. QED
  BY <1>1, GivenUpTied DEF RunningReaders

\* A renewal ties the token to what it had.
LEMMA RenewedTied ==
  ASSUME LeaseInv, NEW t \in Token, Renewed(t),
         \A k \in StringKeys : string'[k].holder = string[k].holder,
         \A u \in RunningReaders' : u \in RunningReaders
  PROVE  \A u \in Token : Tied(u)'
<1>1. /\ \A u \in Token \ {t} : held'[u] = held[u]
      /\ held'[t].mode = held[t].mode /\ held'[t].ttl = held[t].ttl
  BY RenewedGives DEF LeaseInv, LockInv
<1>2. QED
  BY <1>1 DEF LeaseInv, Tied

LEMMA ExtendTied ==
  ASSUME LeaseInv, NEW t \in Token, NEW k \in StringKeys, held[t].mode = k, Extend(t)
  PROVE  \A u \in Token : Tied(u)'
<1> DEFINE ttl == Millis(held[t].ttl)
<1>1. EXTEND(k, t, ttl) /\ Renewed(t) /\ readers' = readers
  BY DEF Extend
<1>2. string \in [StringKeys -> StringLease]
  BY TypesUnfold DEF LeaseInv, LockInv
<1> HIDE DEF ttl
<1>3. \A j \in StringKeys : string'[j].holder = string[j].holder
  <2>1. CASE string[k].holder = t
    <3>1. string' = [string EXCEPT ![k] = [string[k] EXCEPT !.ttl = ttl]]
      BY <1>1, <2>1 DEF EXTEND
    <3>2. [string[k] EXCEPT !.ttl = ttl].holder = string[k].holder
      BY <1>2 DEF StringLease
    <3>3. QED
      BY <1>2, <3>1, <3>2
  <2>2. CASE string[k].holder # t
    BY <1>1, <2>2 DEF EXTEND
  <2>3. QED
    BY <2>1, <2>2
<1>4. QED
  BY <1>1, <1>3, RenewedTied DEF RunningReaders

LEMMA ReadExtendTied ==
  ASSUME LeaseInv, NEW t \in Token, ReadExtend(t)
  PROVE  \A u \in Token : Tied(u)'
<1> DEFINE ttl == Millis(held[t].ttl)
<1>1. READ_EXTEND(t, ttl) /\ Renewed(t) /\ string' = string
  BY DEF ReadExtend
<1> HIDE DEF ttl
<1>2. RunningReaders' \subseteq RunningReaders
  BY <1>1 DEF READ_EXTEND, RunningReaders
<1>3. QED
  BY <1>1, <1>2, RenewedTied

LEMMA LockTickTied ==
  ASSUME LeaseInv, LockTick
  PROVE  \A u \in Token : Tied(u)'
<1>1. LockInv /\ held \in [Token -> HoldOf]
  BY TypesUnfold DEF LeaseInv, LockInv
<1>2. \A k \in StringKeys : string'[k].holder = string[k].holder \/ string'[k] = NoKey
  BY <1>1, KeyTicks
<1>3. RunningReaders' \subseteq RunningReaders
  <2>1. SUFFICES ASSUME NEW t \in RunningReaders' PROVE t \in RunningReaders
    OBVIOUS
  <2>2. t \in DOMAIN readers /\ Less(readers[t]) > 0
    BY DEF LockTick, RunningReaders
  <2>3. readers[t] \in Nat
    BY <1>1, <2>2, TypesUnfold DEF LockInv
  <2>4. QED
    BY <2>2, <2>3 DEF Less, RunningReaders
<1>4. ASSUME NEW t \in Token
      PROVE  held'[t].mode = held[t].mode /\ held'[t].ttl = held[t].ttl
  <2> DEFINE less == Less(held[t].left)
  <2>1. held'[t] = [held[t] EXCEPT !.left = less]
    BY DEF LockTick
  <2> HIDE DEF less
  <2>2. QED
    BY <1>1, <2>1 DEF HoldOf
<1>5. NoKey.holder \notin Token
  BY TokenAssumption DEF NoKey, TokenAssumption
<1>6. QED
  BY <1>2, <1>3, <1>4, <1>5 DEF LeaseInv, Tied

-----------------------------------------------------------------------------
(* The theorem.                                                            *)

LEMMA LeaseInitial == LockInit => LeaseInv /\ Abstract!LeaseInit
<1> SUFFICES ASSUME LockInit PROVE LeaseInv /\ Abstract!LeaseInit
  OBVIOUS
<1>1. LeaseInv
  BY LockInitInv DEF LeaseInv, LockInit, Tied, NoHold
<1>2. (\A k \in StringKeys : string[k] = NoKey) /\ RunningReaders = {} /\ reply = FALSE
  BY DEF LockInit, RunningReaders
<1>3. ServerLeases = {}
  BY <1>2, Members
<1>4. QED
  BY <1>1, <1>2, <1>3 DEF Abstract!LeaseInit

LEMMA StepRefines ==
  ASSUME LeaseInv, NEW t \in Token, LockStep(t)
  PROVE  (\A u \in Token : Tied(u)') /\ [Abstract!LeaseNext]_Abstract!leaseVars
<1>1. ASSUME NEW d \in LockTtls, TryLock(t, d) \/ TryWrite(t, d) \/ TryRead(t, d)
      PROVE  (\A u \in Token : Tied(u)') /\ Abstract!LeaseNext
  BY <1>1, TryLockTied, TryWriteTied, TryReadTied, TryLockRefines, TryWriteRefines, TryReadRefines
<1>2. CASE Release(t)
  <2>1. held[t].mode \in StringKeys
    BY <1>2 DEF Release
  <2>2. QED
    BY <1>2, <2>1, ReleaseTied, ReleaseRefines
<1>3. CASE ReadRelease(t)
  BY <1>3, ReadReleaseTied, ReadReleaseRefines
<1>4. CASE Extend(t)
  <2>1. held[t].mode \in StringKeys
    BY <1>4 DEF Extend
  <2>2. QED
    BY <1>4, <2>1, ExtendTied, ExtendRefines
<1>5. CASE ReadExtend(t)
  BY <1>5, ReadExtendTied, ReadExtendRefines
<1>6. CASE DropToken(t)
  <2>1. ServerLeases' = ServerLeases /\ reply' = reply
    BY <1>6, LeasesStay DEF DropToken, RunningReaders
  <2>2. QED
    BY <1>6, <2>1, DropTokenTied DEF Abstract!leaseVars
<1>7. QED
  BY <1>1, <1>2, <1>3, <1>4, <1>5, <1>6 DEF LockStep

LEMMA NextRefines ==
  LeaseInv /\ [LockNext]_lockVars => LeaseInv' /\ [Abstract!LeaseNext]_Abstract!leaseVars
<1> SUFFICES ASSUME LeaseInv, [LockNext]_lockVars
             PROVE  LeaseInv' /\ [Abstract!LeaseNext]_Abstract!leaseVars
  OBVIOUS
<1>1. LockInv'
  BY LockNextInv DEF LeaseInv
<1>2. ASSUME NEW t \in Token, LockStep(t)
      PROVE  (\A u \in Token : Tied(u)') /\ [Abstract!LeaseNext]_Abstract!leaseVars
  BY <1>2, StepRefines
<1>3. CASE LockTick
  BY <1>1, <1>3, LockTickTied, LockTickRefines DEF LeaseInv
<1>4. CASE UNCHANGED lockVars
  <2>1. string' = string /\ readers' = readers /\ held' = held /\ reply' = reply
    BY <1>4 DEF lockVars
  <2>2. RunningReaders' = RunningReaders
    BY <2>1 DEF RunningReaders
  <2>3. \A u \in Token : Tied(u)'
    BY <2>1, <2>2 DEF LeaseInv, Tied
  <2>4. ServerLeases' = ServerLeases
    BY <2>1, <2>2, LeasesStay
  <2>5. QED
    BY <1>1, <2>1, <2>3, <2>4 DEF LeaseInv, Abstract!leaseVars
<1>5. QED
  BY <1>1, <1>2, <1>3, <1>4 DEF LockNext, LeaseInv

\* Every behaviour of the scripts, with replies lost and tokens dropped at any
\* point, is one of LeaseLock: a lease is refused only for one that runs, ends
\* only by its own token's query or when its time is over, and a query is
\* answered by what became of the lease.
THEOREM LocksImplementLeases == LockSpec => ImplementsLeaseLock
<1>1. LockInit => LeaseInv /\ Abstract!LeaseInit
  BY LeaseInitial
<1>2. LeaseInv /\ [LockNext]_lockVars => LeaseInv' /\ [Abstract!LeaseNext]_Abstract!leaseVars
  BY NextRefines
<1>3. QED
  BY <1>1, <1>2, PTL DEF LockSpec, ImplementsLeaseLock, Abstract!LeaseSpec

-----------------------------------------------------------------------------
(***************************************************************************)
(* The token bucket, for any refill, period, capacity and rounding: what   *)
(* was acquired exceeds what flowed in by no more than the roundings, and  *)
(* whoever is told to wait waits as long as it must, up to them.           *)
(***************************************************************************)

BucketTypes ==
  /\ bucket \in [tokens : 0 .. Full, age : Int] /\ bucketTtl \in Nat
  /\ level \in Int /\ level <= Full /\ drift \in Nat /\ stepped \in BOOLEAN
  /\ promise \in [cost : Nat, left : Nat]

\* A key that was not removed lives until the bucket is full, or lacks what the
\* expiry was off by, and an absent bucket is full.
LivesUntilFull ==
  /\ bucketTtl = 0 => bucket = NoBucket /\ ~ stepped
  /\ bucket.tokens + (bucket.age + bucketTtl) * Inflow >= Full - Rounding

\* Somebody who was told to wait does so for the milliseconds in which what is
\* missing flows in, and not for one more, up to d and one rounding.
Near(p, available, d) ==
  p # NoPromise =>
    /\ p.cost * OneToken <= Full
    /\ p.left * Inflow >= p.cost * OneToken - available - d - Rounding
    /\ p.left > 0 => (p.left - 1) * Inflow < p.cost * OneToken - available + d + Rounding

BucketInv ==
  /\ BucketTypes /\ LivesUntilFull
  /\ Near(promise, Available, drift) /\ (promise # NoPromise => bucket.age >= 0)
  /\ AdmitsWithinRate /\ NothingLost /\ (~ stepped => bucket.age >= 0)

\* The constants.
LEMMA BucketNumbers ==
  /\ OneToken \in Nat \ {0} /\ Full \in Nat /\ Inflow \in Nat \ {0}
  /\ Rounding \in Nat /\ Rounding <= Inflow
  /\ \A cost \in Nat : cost * OneToken \in Nat
  /\ \A cost \in Nat : cost <= Capacity => cost * OneToken <= Full
<1>1. ASSUME NEW m \in Nat \ {0}, NEW n \in Nat \ {0} PROVE m * n \in Nat \ {0}
  OBVIOUS
<1>2. /\ PeriodMicros \in Nat \ {0} /\ Grain \in Nat \ {0} /\ 1000 * Refill \in Nat \ {0}
      /\ Capacity \in Nat /\ Rounding \in Nat
  BY BucketAssumption DEF BucketAssumption, PeriodMicros
<1>3. OneToken \in Nat \ {0} /\ Inflow \in Nat \ {0}
  BY <1>1, <1>2 DEF OneToken, Inflow
<1>4. Rounding <= Inflow
  BY BucketAssumption DEF BucketAssumption, Inflow
<1>5. ASSUME NEW m \in Nat, NEW a \in Nat, NEW b \in Nat
      PROVE  a * m \in Nat /\ (a <= b => a * m <= b * m)
  OBVIOUS
<1>6. QED
  BY <1>2, <1>3, <1>4, <1>5 DEF Full

\* Rounding up a quotient.
LEMMA RoundedUp ==
  ASSUME NEW u \in Int
  PROVE  Refilling(u) \in Int /\ Refilling(u) * Inflow >= u /\ (Refilling(u) - 1) * Inflow < u
<1> DEFINE a == u + Inflow - 1
           q == a \div Inflow
<1>1. Inflow \in Nat \ {0} /\ a \in Int
  BY BucketNumbers
<1>2. Refilling(u) = q
  BY DEF Refilling
<1>3. ASSUME NEW n \in Int, NEW d \in Nat \ {0}
      PROVE  n \div d \in Int /\ (n \div d) * d <= n /\ n < (n \div d) * d + d
  OBVIOUS
<1>4. q \in Int /\ q * Inflow <= a /\ a < q * Inflow + Inflow
  BY <1>1, <1>3
<1>5. (q - 1) * Inflow = q * Inflow - Inflow
  BY <1>1, <1>4
<1>6. QED
  BY <1>1, <1>2, <1>4, <1>5

\* The smaller and the larger of two numbers.
LEMMA MinMaxOfTwo ==
  ASSUME NEW a \in Int, NEW b \in Int
  PROVE  /\ Min({a, b}) = IF a <= b THEN a ELSE b
         /\ Max({a, b}) = IF a <= b THEN b ELSE a
<1>1. \E x \in {a, b} : \A y \in {a, b} : x <= y
  OBVIOUS
<1>2. \E x \in {a, b} : \A y \in {a, b} : x >= y
  OBVIOUS
<1>3. Min({a, b}) \in {a, b} /\ \A y \in {a, b} : Min({a, b}) <= y
  BY <1>1 DEF Min
<1>4. Max({a, b}) \in {a, b} /\ \A y \in {a, b} : Max({a, b}) >= y
  BY <1>2 DEF Max
<1>5. QED
  BY <1>3, <1>4

\* A wait for u units lets them flow in, and no more than these in the millisecond
\* before it ends, up to a rounding.
LEMMA WaitsAre ==
  ASSUME NEW u \in Nat, NEW wait \in Waits(u)
  PROVE  /\ wait \in Nat \ {0} /\ wait * Inflow >= u - Rounding
         /\ u > 0 => (wait - 1) * Inflow < u + Rounding
<1>1. Rounding \in Nat /\ Inflow \in Nat \ {0}
  BY BucketNumbers
<1>2. PICK m \in Rounded(u) : wait = Max({Refilling(m), 1})
  BY DEF Waits
<1>3. m \in Int /\ u - Rounding <= m /\ m <= u + Rounding
  BY <1>1, <1>2 DEF Rounded
<1>4. PICK r : r = Refilling(m) /\ r \in Int /\ r * Inflow >= m /\ (r - 1) * Inflow < m
  BY <1>3, RoundedUp
<1>5. wait = IF r <= 1 THEN 1 ELSE r
  <2>1. 1 \in Int /\ wait = Max({r, 1})
    BY <1>2, <1>4
  <2>2. QED
    BY <1>4, <2>1, MinMaxOfTwo, Zenon
<1>6. CASE r <= 1
  <2>1. wait = 1 /\ 1 * Inflow = Inflow /\ (wait - 1) * Inflow = 0
    BY <1>1, <1>5, <1>6
  <2>2. r * Inflow <= Inflow
    <3>1. ASSUME NEW k \in Nat, NEW n \in Int, n <= 1 PROVE n * k <= k
      <4>1. (1 - n) * k \in Nat
        BY <3>1
      <4>2. (1 - n) * k = k - n * k /\ n * k \in Int
        BY <3>1
      <4>3. QED
        BY <4>1, <4>2
    <3>2. QED
      BY <1>1, <1>4, <1>6, <3>1
  <2>3. QED
    BY <1>1, <1>3, <1>4, <2>1, <2>2
<1>7. CASE r > 1
  <2>1. wait = r
    BY <1>4, <1>5, <1>7
  <2>2. r * Inflow \in Int /\ (r - 1) * Inflow \in Int
    BY <1>1, <1>4
  <2>3. QED
    BY <1>1, <1>3, <1>4, <1>7, <2>1, <2>2
<1>8. QED
  BY <1>4, <1>6, <1>7

\* What a bucket holds that was written some time ago.
Holding(b) == Min({Full, b.tokens + Max({b.age, 0}) * Inflow})

LEMMA HoldingIs ==
  ASSUME NEW b \in [tokens : 0 .. Full, age : Int]
  PROVE  /\ b.age <= 0 => Holding(b) = b.tokens
         /\ b.age >= 0 => LET sum == b.tokens + b.age * Inflow
                          IN Holding(b) = IF Full <= sum THEN Full ELSE sum
         /\ Holding(b) \in 0 .. Full /\ Holding(b) >= b.tokens
<1>1. /\ Full \in Nat /\ Inflow \in Nat \ {0}
      /\ b.tokens \in Nat /\ b.tokens <= Full /\ b.age \in Int
  BY BucketNumbers
<1> DEFINE up == IF b.age <= 0 THEN 0 ELSE b.age
<1>2. Max({b.age, 0}) = up
  <2>1. 0 \in Int /\ b.age \in Int
    BY <1>1
  <2>2. QED
    BY <2>1, MinMaxOfTwo, Zenon
<1>3. up \in Nat /\ up * Inflow \in Nat
  <2>1. up \in Nat
    BY <1>1
  <2>2. \A m, n \in Nat : m * n \in Nat
    OBVIOUS
  <2>3. QED
    BY <1>1, <2>1, <2>2
<1>4. b.age <= 0 => up * Inflow = 0
  BY <1>1
<1>5. b.age >= 0 => up * Inflow = b.age * Inflow
  <2>1. b.age >= 0 => up = b.age
    BY <1>1
  <2> HIDE DEF up
  <2>2. QED
    BY <2>1
<1> HIDE DEF up
<1>6. Holding(b) = Min({Full, b.tokens + up * Inflow})
  BY <1>2, Zenon DEF Holding
<1>7. Holding(b) = IF Full <= b.tokens + up * Inflow THEN Full
                  ELSE b.tokens + up * Inflow
  BY <1>1, <1>3, <1>6, MinMaxOfTwo
<1>8. QED
  BY <1>1, <1>3, <1>4, <1>5, <1>7

LEMMA AvailableIs == Available = Holding(bucket) /\ Available' = Holding(bucket')
BY DEF Available, Holding

\* What a bucket holds is no more than it can.
LEMMA AvailableBounded == BucketTypes => Available \in 0 .. Full
BY AvailableIs, HoldingIs DEF BucketTypes

\* What the script comes to is off by a rounding at most, and exact if no time has
\* passed.
LEMMA RefilledIs ==
  ASSUME BucketTypes, NEW tokens \in Refilled
  PROVE  /\ tokens \in 0 .. Full
         /\ bucket.age <= 0 => tokens = Available
         /\ tokens <= Available + Rounding /\ Available <= tokens + Rounding
<1>1. /\ Full \in Nat /\ Inflow \in Nat \ {0} /\ Rounding \in Nat /\ Rounding <= Inflow
      /\ bucket \in [tokens : 0 .. Full, age : Int]
      /\ bucket.tokens \in 0 .. Full /\ bucket.age \in Int
  BY BucketNumbers DEF BucketTypes
<1>2. CASE bucket.age <= 0
  <2>1. tokens = bucket.tokens /\ Available = bucket.tokens
    BY <1>1, <1>2, AvailableIs, HoldingIs DEF Refilled
  <2>2. QED
    BY <1>1, <2>1
<1>3. CASE bucket.age > 0
  <2>1. PICK exact : exact = bucket.tokens + bucket.age * Inflow
    OBVIOUS
  <2>2. exact \in Nat /\ exact >= Inflow
    <3>1. bucket.age * Inflow \in Nat /\ bucket.age * Inflow >= Inflow
      <4>1. ASSUME NEW k \in Nat, NEW n \in Nat \ {0} PROVE n * k \in Nat /\ n * k >= k
        <5>1. (n - 1) * k \in Nat /\ (n - 1) * k = n * k - k /\ n * k \in Nat
          OBVIOUS
        <5>2. QED
          BY <5>1
      <4>2. bucket.age \in Nat \ {0}
        BY <1>1, <1>3
      <4>3. QED
        BY <1>1, <4>1, <4>2
    <3>2. QED
      BY <1>1, <2>1, <3>1
  <2>3. Available = IF Full <= exact THEN Full ELSE exact
    <3>1. Available = Holding(bucket)
      BY AvailableIs
    <3>2. PICK b : b = bucket /\ b \in [tokens : 0 .. Full, age : Int] /\ b.age >= 0
      <4>1. bucket.age >= 0
        BY <1>1, <1>3
      <4>2. QED
        BY <1>1, <4>1
    <3>3. Holding(b) = IF Full <= b.tokens + b.age * Inflow THEN Full
                       ELSE b.tokens + b.age * Inflow
      BY <3>2, HoldingIs
    <3>4. exact = b.tokens + b.age * Inflow
      BY <2>1, <3>2
    <3>5. QED
      BY <3>1, <3>2, <3>3, <3>4
  <2>4. PICK sum \in Rounded(exact) : tokens = Min({Full, sum})
    <3>1. tokens \in {Min({Full, sum}) : sum \in Rounded(bucket.tokens + bucket.age * Inflow)}
      <4>1. ~ bucket.age <= 0
        BY <1>1, <1>3
      <4>2. QED
        BY <4>1, Zenon DEF Refilled
    <3>2. tokens \in {Min({Full, sum}) : sum \in Rounded(exact)}
      BY <2>1, <3>1
    <3>3. QED
      BY <3>2, Zenon
  <2>5. sum \in Nat /\ exact - Rounding <= sum /\ sum <= exact + Rounding
    BY <1>1, <2>2, <2>4 DEF Rounded
  <2>6. tokens = IF Full <= sum THEN Full ELSE sum
    <3>1. Full \in Int /\ sum \in Int
      BY <1>1, <2>5
    <3>2. QED
      BY <2>4, <3>1, MinMaxOfTwo, Zenon
  <2>7. QED
    BY <1>1, <1>3, <2>2, <2>3, <2>5, <2>6
<1>4. QED
  BY <1>1, <1>2, <1>3

\* A bucket that was just written holds what was written.
LEMMA WrittenHolds ==
  ASSUME NEW left \in 0 .. Full
  PROVE  Holding([tokens |-> left, age |-> 0]) = left
<1>1. Full \in Nat
  BY BucketNumbers
<1>2. [tokens |-> left, age |-> 0] \in [tokens : 0 .. Full, age : Int]
  BY <1>1
<1>3. QED
  BY <1>2, HoldingIs

\* An absent bucket is full.
LEMMA AbsentIsFull ==
  /\ NoBucket \in [tokens : 0 .. Full, age : Int]
  /\ Holding(NoBucket) = Full
BY BucketNumbers, WrittenHolds DEF NoBucket

\* Nobody waits.
LEMMA NobodyPromised == NoPromise \in [cost : Nat, left : Nat]
BY DEF NoPromise

\* A bucket is absent and full at first.
LEMMA BucketInitInv == BucketInit => BucketInv
<1> SUFFICES ASSUME BucketInit PROVE BucketInv
  OBVIOUS
<1>1. /\ Full \in Nat /\ Full \in 0 .. Full /\ Inflow \in Nat /\ Rounding \in Nat
      /\ Available = Full
  BY BucketNumbers, AbsentIsFull, AvailableIs DEF BucketInit
<1>2. BucketTypes
  <2>1. /\ bucket = NoBucket /\ bucketTtl = 0 /\ level = Full /\ drift = 0
        /\ stepped = FALSE /\ promise = NoPromise
    BY DEF BucketInit
  <2>2. level \in Int /\ level <= Full /\ drift \in Nat /\ bucketTtl \in Nat
    BY <1>1, <2>1
  <2>3. QED
    BY <2>1, <2>2, AbsentIsFull, NobodyPromised DEF BucketTypes
<1>3. LivesUntilFull
  <2>1. bucket = NoBucket /\ bucketTtl = 0 /\ ~ stepped
    BY DEF BucketInit
  <2>2. bucket.tokens = Full /\ (bucket.age + bucketTtl) = 0
    BY <2>1 DEF NoBucket
  <2>3. bucket.tokens + (bucket.age + bucketTtl) * Inflow = Full
    BY <1>1, <2>2
  <2>4. QED
    BY <1>1, <2>1, <2>3 DEF LivesUntilFull
<1>4. QED
  BY <1>1, <1>2, <1>3 DEF BucketInit, BucketInv, Near, AdmitsWithinRate, NothingLost, NoBucket

\* What the script writes lives long enough to be full again.
LEMMA WrittenLives ==
  ASSUME NEW left \in 0 .. Full, bucket' = [tokens |-> left, age |-> 0],
         bucketTtl' \in Waits(Full - left)
  PROVE  /\ bucketTtl' \in Nat \ {0} /\ LivesUntilFull'
<1>1. Full \in Nat /\ Inflow \in Nat \ {0} /\ Rounding \in Nat /\ Full - left \in Nat /\ left \in Nat
  BY BucketNumbers
<1>2. PICK wait : wait = bucketTtl' /\ wait \in Waits(Full - left)
  OBVIOUS
<1>3. wait \in Nat \ {0} /\ wait * Inflow >= Full - left - Rounding
  BY <1>1, <1>2, WaitsAre
<1>4. wait * Inflow \in Nat
  BY <1>1, <1>3
<1>5. left + wait * Inflow >= Full - Rounding
  <2> DEFINE upTo == wait * Inflow
  <2>1. upTo \in Nat /\ upTo >= Full - left - Rounding
    BY <1>3, <1>4
  <2> HIDE DEF upTo
  <2>2. left + upTo >= Full - Rounding
    BY <1>1, <2>1
  <2>3. QED
    BY <2>2 DEF upTo
<1>6. bucket'.tokens = left /\ bucket'.age + bucketTtl' = wait /\ bucketTtl' \in Nat \ {0}
  <2>1. bucket'.tokens = left /\ bucket'.age = 0 /\ bucketTtl' = wait
    BY <1>2
  <2>2. QED
    BY <1>3, <2>1
<1>7. bucket'.tokens + (bucket'.age + bucketTtl') * Inflow >= Full - Rounding
  BY <1>5, <1>6
<1>8. bucketTtl' # 0
  BY <1>6
<1>9. QED
  BY <1>6, <1>7, <1>8 DEF LivesUntilFull

\* A promise stays near when roundings shift what the bucket holds.
LEMMA NearStays ==
  ASSUME NEW p \in [cost : Nat, left : Nat], NEW a \in Int, NEW b \in Int, NEW d \in Nat,
         NEW e \in Nat, Near(p, a, d), d <= e, a <= b + (e - d), b <= a + (e - d)
  PROVE  Near(p, b, e)
<1> SUFFICES ASSUME p # NoPromise PROVE Near(p, b, e)
  BY DEF Near
<1>1. /\ Inflow \in Nat /\ Rounding \in Nat /\ p.left \in Nat /\ p.cost * OneToken \in Nat
      /\ p.left * Inflow \in Int /\ (p.left - 1) * Inflow \in Int
  BY BucketNumbers
<1>2. /\ p.cost * OneToken <= Full
      /\ p.left * Inflow >= p.cost * OneToken - a - d - Rounding
      /\ p.left > 0 => (p.left - 1) * Inflow < p.cost * OneToken - a + d + Rounding
  BY DEF Near
<1> DEFINE units == p.cost * OneToken
           upTo == p.left * Inflow
           before == (p.left - 1) * Inflow
<1> HIDE DEF units, upTo, before
<1>3. /\ units \in Nat /\ upTo \in Int /\ before \in Int /\ upTo >= units - a - d - Rounding
      /\ (p.left > 0 => before < units - a + d + Rounding)
  BY <1>1, <1>2 DEF units, upTo, before
<1>4. /\ upTo >= units - b - e - Rounding
      /\ (p.left > 0 => before < units - b + e + Rounding)
  BY <1>1, <1>3
<1>5. QED
  BY <1>2, <1>4 DEF Near, units, upTo, before

LEMMA AcquireKeeps ==
  ASSUME BucketInv, NEW cost \in Costs, AcquireTokens(cost) PROVE BucketInv'
<1> DEFINE units == cost * OneToken
<1>1. /\ Full \in Nat /\ Inflow \in Nat \ {0} /\ Rounding \in Nat /\ cost \in Nat
      /\ units \in Nat /\ (cost <= Capacity => units <= Full) /\ Capacity \in Nat
  BY BucketNumbers, BucketAssumption DEF BucketAssumption
<1>2. /\ Available \in 0 .. Full /\ Available <= level + drift /\ level \in Int
      /\ level <= Full /\ drift \in Nat /\ (~ stepped => level <= Available + drift)
      /\ promise \in [cost : Nat, left : Nat] /\ stepped' = stepped /\ stepped \in BOOLEAN
      /\ bucket.age \in Int
  BY AvailableBounded DEF BucketInv, BucketTypes, AdmitsWithinRate, NothingLost, AcquireTokens
<1>3. CASE cost > Capacity
  <2>1. admission' = Denied(Never) /\ UNCHANGED <<bucket, bucketTtl>>
    BY <1>3 DEF AcquireTokens, ACQUIRE
  <2>2. ~ admission'.allowed
    BY <2>1 DEF Denied
  <2>3. level' = level /\ promise' = promise /\ drift' = drift
    BY <2>1, <2>2 DEF AcquireTokens
  <2>4. Available' = Available
    BY <2>1 DEF Available
  <2>5. QED
    BY <1>2, <2>1, <2>3, <2>4 DEF BucketInv, BucketTypes, LivesUntilFull,
       AdmitsWithinRate, NothingLost
<1>4. CASE cost <= Capacity
  <2>1. ACQUIRE(cost)
    BY DEF AcquireTokens
  <2>2. PICK tokens \in Refilled : Admit(tokens, units)
    BY <1>1, <1>4, <2>1 DEF ACQUIRE
  <2> DEFINE gap == IF bucket.age > 0 THEN Rounding ELSE 0
             left == IF tokens >= units THEN tokens - units ELSE tokens
  <2>3. /\ tokens \in 0 .. Full /\ gap \in Nat
        /\ tokens <= Available + gap /\ Available <= tokens + gap
    <3>1. BucketTypes
      BY DEF BucketInv
    <3>2. /\ tokens \in 0 .. Full
          /\ bucket.age <= 0 => tokens = Available
          /\ tokens <= Available + Rounding /\ Available <= tokens + Rounding
      BY <3>1, RefilledIs
    <3>3. QED
      BY <1>1, <1>2, <3>2
  <2>4. /\ bucket' = [tokens |-> left, age |-> 0] /\ bucketTtl' \in Waits(Full - left)
        /\ tokens >= units => admission' = Allowed(left \div OneToken)
        /\ ~ (tokens >= units) => \E wait \in Waits(units - tokens) : admission' = Denied(wait)
    BY <2>2 DEF Admit
  <2>5. left \in 0 .. Full
    BY <1>1, <2>3
  <2>6. Available' = left /\ bucketTtl' \in Nat \ {0} /\ LivesUntilFull'
    <3> HIDE DEF left
    <3>1. QED
      BY <2>4, <2>5, AvailableIs, WrittenHolds, WrittenLives
  <2>7. bucket' \in [tokens : 0 .. Full, age : Int] /\ bucket'.age = 0
    BY <2>4, <2>5
  <2>8. CASE tokens >= units
    <3>1. admission'.allowed
      BY <2>4, <2>8 DEF Allowed
    <3>2. admission' # Denied(Never)
      BY <3>1 DEF Denied
    <3>3. level' = level - units /\ promise' = NoPromise /\ drift' = drift + gap
      BY <1>1, <1>2, <3>1, <3>2 DEF AcquireTokens
    <3>4. Available' = tokens - units
      BY <2>6, <2>8
    <3>5. level' \in Int /\ level' <= Full /\ drift' \in Nat
          /\ Available' <= level' + drift' /\ (~ stepped' => level' <= Available' + drift')
      <4> HIDE DEF units, gap, left
      <4>1. QED
        BY <1>1, <1>2, <2>3, <3>3, <3>4
    <3>6. Near(promise', Available', drift')
      BY <3>3 DEF Near
    <3>7. BucketTypes'
      BY <1>2, <2>6, <2>7, <3>3, <3>5, NobodyPromised DEF BucketTypes
    <3>8. QED
      BY <2>6, <2>7, <3>3, <3>5, <3>6, <3>7 DEF BucketInv, AdmitsWithinRate, NothingLost
  <2>9. CASE ~ (tokens >= units)
    <3>1. PICK wait \in Waits(units - tokens) : admission' = Denied(wait)
      BY <2>4, <2>9
    <3>2. units - tokens \in Nat /\ units - tokens > 0
      BY <1>1, <2>3, <2>9
    <3>3. /\ wait \in Nat \ {0} /\ wait * Inflow >= units - tokens - Rounding
          /\ (wait - 1) * Inflow < units - tokens + Rounding
      <4> HIDE DEF units
      <4>1. QED
        BY <3>1, <3>2, WaitsAre
    <3>4. ~ admission'.allowed /\ admission' # Denied(Never) /\ admission'.retryAfter = wait
      <4>1. admission'.retryAfter = wait /\ Denied(Never).retryAfter = Never /\ wait # Never
            /\ admission'.allowed = FALSE
        BY <3>1, <3>3 DEF Denied, Never
      <4>2. QED
        BY <4>1
    <3>5. /\ level' = level /\ drift' = drift + gap
          /\ promise' = promise \/ promise' = [cost |-> cost, left |-> wait]
      BY <1>1, <1>2, <3>4 DEF AcquireTokens
    <3>6. Available' = tokens
      BY <2>6, <2>9
    <3>7. drift' \in Nat /\ Available' <= level' + drift'
          /\ (~ stepped' => level' <= Available' + drift')
      <4> HIDE DEF units, gap, left
      <4>1. QED
        BY <1>1, <1>2, <2>3, <3>5, <3>6
    <3>8. promise' \in [cost : Nat, left : Nat] /\ Near(promise', Available', drift')
      <4>1. CASE promise' = promise
        <5>1. Near(promise, Available, drift)
          BY DEF BucketInv
        <5>2. PICK e : e = drift + gap /\ e \in Nat /\ drift <= e /\ gap = e - drift
          BY <1>2, <2>3
        <5>3. Near(promise, tokens, e)
          <6>1. Available \in Int /\ tokens \in Int /\ Available <= tokens + (e - drift)
                /\ tokens <= Available + (e - drift)
            BY <1>2, <2>3, <5>2
          <6>2. QED
            BY <1>2, <5>1, <5>2, <6>1, NearStays
        <5>4. QED
          BY <1>2, <3>5, <3>6, <4>1, <5>2, <5>3
      <4>2. CASE promise' = [cost |-> cost, left |-> wait]
        <5>1. PICK p : p = [cost |-> cost, left |-> wait]
          OBVIOUS
        <5>2. p \in [cost : Nat, left : Nat] /\ p.cost = cost /\ p.left = wait
          BY <1>1, <3>3, <5>1
        <5>3. PICK e : e = drift + gap /\ e \in Nat
          BY <1>2, <2>3
        <5>4. wait * Inflow \in Int /\ (wait - 1) * Inflow \in Int
          BY <1>1, <3>3
        <5>5. /\ wait * Inflow >= units - tokens - e - Rounding
              /\ (wait - 1) * Inflow < units - tokens + e + Rounding
          <6> DEFINE upTo == wait * Inflow
                     before == (wait - 1) * Inflow
          <6> HIDE DEF upTo, before, units, gap, left
          <6>1. upTo >= units - tokens - Rounding /\ before < units - tokens + Rounding
                /\ upTo \in Int /\ before \in Int
            BY <3>3, <5>4 DEF upTo, before
          <6>2. upTo >= units - tokens - e - Rounding /\ before < units - tokens + e + Rounding
            BY <1>1, <2>3, <5>3, <6>1
          <6>3. QED
            BY <6>2 DEF upTo, before
        <5>6. Near(p, tokens, e)
          BY <1>1, <1>4, <5>2, <5>5 DEF Near
        <5>7. QED
          BY <3>5, <3>6, <4>2, <5>1, <5>2, <5>3, <5>6
      <4>3. QED
        BY <3>5, <4>1, <4>2
    <3>9. BucketTypes'
      BY <1>2, <2>6, <2>7, <3>5, <3>7, <3>8 DEF BucketTypes
    <3>10. QED
      BY <2>6, <2>7, <3>7, <3>8, <3>9 DEF BucketInv, AdmitsWithinRate, NothingLost
  <2>10. QED
    BY <2>8, <2>9
<1>5. QED
  BY <1>1, <1>3, <1>4

LEMMA ResetKeeps == ASSUME BucketInv, ResetBucket PROVE BucketInv'
<1>1. /\ Full \in Nat /\ Full \in 0 .. Full /\ Inflow \in Nat /\ Rounding \in Nat
      /\ Available' = Full
  BY BucketNumbers, AbsentIsFull, AvailableIs DEF ResetBucket
<1>2. BucketTypes'
  <2>1. /\ bucket' = NoBucket /\ bucketTtl' = 0 /\ level' = Full /\ drift' = 0
        /\ stepped' = FALSE /\ promise' = NoPromise
    BY DEF ResetBucket
  <2>2. level' \in Int /\ level' <= Full /\ drift' \in Nat /\ bucketTtl' \in Nat
    BY <1>1, <2>1
  <2>3. QED
    BY <2>1, <2>2, AbsentIsFull, NobodyPromised DEF BucketTypes
<1>3. LivesUntilFull'
  <2>1. bucket' = NoBucket /\ bucketTtl' = 0 /\ ~ stepped'
    BY DEF ResetBucket
  <2>2. bucket'.tokens = Full /\ (bucket'.age + bucketTtl') = 0
    BY <2>1 DEF NoBucket
  <2>3. bucket'.tokens + (bucket'.age + bucketTtl') * Inflow = Full
    BY <1>1, <2>2
  <2>4. QED
    BY <1>1, <2>1, <2>3 DEF LivesUntilFull
<1>4. QED
  BY <1>1, <1>2, <1>3 DEF ResetBucket, BucketInv, Near, AdmitsWithinRate, NothingLost, NoBucket

LEMMA BackKeeps == ASSUME BucketInv, NEW by \in 1 .. MaxBack, ClockBack(by) PROVE BucketInv'
<1>1. /\ Full \in Nat /\ Inflow \in Nat \ {0} /\ by \in Nat \ {0}
      /\ bucket \in [tokens : 0 .. Full, age : Int] /\ bucketTtl \in Nat \ {0}
      /\ bucket.age \in Int /\ bucket.tokens \in Nat
  BY BucketNumbers, BucketAssumption DEF BucketAssumption, BucketInv, BucketTypes, ClockBack
<1>2. /\ bucket' = [bucket EXCEPT !.age = @ - by] /\ bucketTtl' = bucketTtl + by
      /\ stepped' = TRUE /\ promise' = NoPromise /\ level' = level /\ drift' = drift
  BY DEF ClockBack
<1>3. /\ bucket' \in [tokens : 0 .. Full, age : Int] /\ bucket'.tokens = bucket.tokens
      /\ bucket'.age = bucket.age - by /\ bucket'.age + bucketTtl' = bucket.age + bucketTtl
  BY <1>1, <1>2
<1>4. BucketTypes' /\ LivesUntilFull'
  BY <1>1, <1>2, <1>3 DEF BucketInv, BucketTypes, LivesUntilFull, NoPromise
<1>5. Available' <= Available
  <2>1. CASE bucket'.age <= 0
    <3>1. Available' = bucket.tokens
      BY <1>3, <2>1, AvailableIs, HoldingIs
    <3>2. Available >= bucket.tokens
      BY <1>1, AvailableIs, HoldingIs
    <3>3. QED
      BY <3>1, <3>2
  <2>2. CASE bucket'.age > 0
    <3>1. (bucket.age - by) * Inflow <= bucket.age * Inflow
      BY <1>1
    <3>2. QED
      BY <1>1, <1>3, <2>2, <3>1, AvailableIs, HoldingIs
  <2>3. QED
    BY <1>3, <2>1, <2>2
<1>6. /\ Available \in Int /\ Available' \in Int /\ level \in Int /\ drift \in Int
      /\ Available <= level + drift
  BY <1>1, <1>3, AvailableIs, HoldingIs DEF BucketInv, AdmitsWithinRate, BucketTypes
<1>7. QED
  BY <1>2, <1>4, <1>5, <1>6 DEF BucketInv, AdmitsWithinRate, NothingLost, Near

\* What is missing, and when it has flowed in: more of it comes in a millisecond,
\* off by what d has become e by.
LEMMA WaitGoesOn ==
  ASSUME NEW missing \in Int, NEW left \in Nat, NEW more \in Nat, NEW d \in Nat, NEW e \in Nat,
         left * Inflow >= missing - d, left > 0 => (left - 1) * Inflow < missing + d,
         d <= e, more <= Inflow + (e - d), more < Inflow => missing <= more
  PROVE  /\ Less(left) * Inflow >= missing - more - e
         /\ Less(left) > 0 => (Less(left) - 1) * Inflow < missing - more + e
<1>1. Inflow \in Nat \ {0}
  BY BucketNumbers
<1>2. CASE left = 0
  <2>1. Less(left) = 0 /\ 0 * Inflow = 0
    BY <1>1, <1>2 DEF Less
  <2>2. QED
    BY <1>1, <1>2, <2>1
<1>3. CASE left # 0
  <2>1. (left - 1) * Inflow = left * Inflow - Inflow /\ left * Inflow \in Nat
    BY <1>1
  <2>2. (left - 1 - 1) * Inflow = left * Inflow - Inflow - Inflow
    BY <1>1
  <2>3. (left - 1) * Inflow \in Nat
    BY <1>1, <1>3
  <2>4. Less(left) = left - 1
    BY <1>3 DEF Less
  <2> DEFINE all == left * Inflow
  <2> HIDE DEF all
  <2>5. /\ all \in Nat /\ all - Inflow \in Nat /\ all >= missing - d
        /\ all - Inflow < missing + d
    BY <1>1, <1>3, <2>1, <2>3 DEF all
  <2>6. all - Inflow >= missing - more - e
    <3>1. CASE more < Inflow
      BY <1>1, <2>5, <3>1
    <3>2. CASE more >= Inflow
      BY <1>1, <2>5, <3>2
    <3>3. QED
      BY <1>1, <3>1, <3>2
  <2>7. all - Inflow - Inflow < missing - more + e
    BY <1>1, <2>5
  <2>8. QED
    BY <2>1, <2>2, <2>4, <2>6, <2>7 DEF all
<1>4. QED
  BY <1>2, <1>3

\* A millisecond passes in the real and in the ideal bucket.
LEMMA TickKeeps == ASSUME BucketInv, BucketTick PROVE BucketInv'
<1> DEFINE sum == bucket.tokens + bucket.age * Inflow
           slack == IF bucketTtl = 1 THEN drift + Rounding ELSE drift
<1>1. /\ Full \in Nat /\ Inflow \in Nat \ {0} /\ Rounding \in Nat /\ bucketTtl \in Nat
      /\ bucket \in [tokens : 0 .. Full, age : Int] /\ level \in Int /\ level <= Full
      /\ bucket.age \in Int /\ bucket.tokens \in 0 .. Full /\ stepped \in BOOLEAN
      /\ promise \in [cost : Nat, left : Nat] /\ promise.cost * OneToken \in Nat
      /\ bucket.age * Inflow \in Int /\ drift \in Nat
  BY BucketNumbers DEF BucketInv, BucketTypes
<1>2. /\ Available \in 0 .. Full /\ Available <= level + drift
      /\ (~ stepped => level <= Available + drift /\ bucket.age >= 0)
      /\ (bucket.age <= 0 => Available = bucket.tokens)
      /\ (bucket.age >= 0 => Available = IF Full <= sum THEN Full ELSE sum)
      /\ Available >= bucket.tokens
  BY <1>1, AvailableIs, HoldingIs DEF BucketInv, AdmitsWithinRate, NothingLost
<1>3. /\ level' \in Int /\ level' <= Full
      /\ level' = IF Full <= level + Inflow THEN Full ELSE level + Inflow
  <2>1. level' = Min({Full, level + Inflow}) /\ level + Inflow \in Int /\ Full \in Int
    BY <1>1 DEF BucketTick
  <2>2. Min({Full, level + Inflow}) = IF Full <= level + Inflow THEN Full ELSE level + Inflow
    BY <2>1, MinMaxOfTwo, Zenon
  <2>3. QED
    BY <1>1, <2>1, <2>2
<1>4. /\ stepped' = (stepped /\ bucketTtl > 1) /\ bucketTtl' = Less(bucketTtl)
      /\ promise' = [promise EXCEPT !.left = Less(@)]
      /\ promise'.cost = promise.cost /\ promise'.left = Less(promise.left)
      /\ promise' \in [cost : Nat, left : Nat]
  BY <1>1 DEF BucketTick, Less
<1>5. /\ bucketTtl = 0 => bucket = NoBucket /\ ~ stepped
      /\ bucket.tokens + (bucket.age + bucketTtl) * Inflow >= Full - Rounding
  BY DEF BucketInv, LivesUntilFull
<1>6. slack \in Nat /\ drift <= slack
  BY <1>1
<1>7. /\ bucket' \in [tokens : 0 .. Full, age : Int] /\ bucketTtl' \in Nat /\ LivesUntilFull'
      /\ Available' \in 0 .. Full /\ Available' <= level' + slack /\ Available <= Available'
      /\ (~ stepped' => level' <= Available' + slack /\ bucket'.age >= 0)
      /\ (bucket.age >= 0 => /\ bucket'.age >= 0
                             /\ Available' - Available <= Inflow + (slack - drift)
                             /\ (Available' - Available < Inflow => Available' = Full))
  <2>1. CASE bucketTtl <= 1
    <3>1. bucket' = NoBucket /\ bucketTtl' = 0 /\ stepped' = FALSE /\ Available' = Full
      <4>1. bucket' = NoBucket
        BY <2>1 DEF BucketTick
      <4>2. bucketTtl' = 0 /\ ~ (bucketTtl > 1)
        BY <1>1, <1>4, <2>1 DEF Less
      <4>3. QED
        BY <1>4, <4>1, <4>2, AbsentIsFull, AvailableIs
    <3>2. bucket' \in [tokens : 0 .. Full, age : Int] /\ bucket'.tokens = Full /\ bucket'.age = 0
      BY <3>1, AbsentIsFull DEF NoBucket
    <3>3. LivesUntilFull'
      <4>1. bucket'.age + bucketTtl' = 0
        BY <3>1, <3>2
      <4>2. bucket'.tokens + (bucket'.age + bucketTtl') * Inflow = Full
        BY <1>1, <3>2, <4>1
      <4>3. QED
        BY <1>1, <3>1, <4>2 DEF LivesUntilFull
    <3>4. Available + Inflow >= Full - (slack - drift)
      <4>1. CASE bucketTtl = 0
        <5>1. bucket.age = 0 /\ bucket.tokens = Full /\ slack = drift
          BY <1>5, <4>1 DEF NoBucket
        <5>2. QED
          BY <1>1, <1>2, <5>1
      <4>2. CASE bucketTtl = 1
        <5>1. (bucket.age + bucketTtl) * Inflow = bucket.age * Inflow + Inflow
          BY <1>1, <4>2
        <5>2. bucket.age < 0 => bucket.age * Inflow <= - Inflow
          <6>1. ASSUME NEW k \in Nat, NEW a \in Int, a < 0 PROVE a * k <= - k
            <7>1. (- a - 1) * k \in Nat
              BY <6>1
            <7>2. (- a - 1) * k = - (a * k) - k
              BY <6>1
            <7>3. a * k \in Int
              BY <6>1
            <7>4. QED
              BY <6>1, <7>1, <7>2, <7>3
          <6>2. QED
            BY <1>1, <6>1
        <5>3. slack - drift = Rounding
          BY <1>1, <4>2
        <5> HIDE DEF slack
        <5>4. QED
          BY <1>1, <1>2, <1>5, <5>1, <5>2, <5>3
      <4>3. QED
        BY <1>1, <2>1, <4>1, <4>2
    <3> HIDE DEF slack
    <3>5. QED
      BY <1>1, <1>2, <1>3, <1>6, <3>1, <3>2, <3>3, <3>4
  <2>2. CASE bucketTtl > 1
    <3>1. /\ bucket' = [bucket EXCEPT !.age = @ + 1] /\ bucketTtl' = bucketTtl - 1
          /\ stepped' = stepped /\ slack = drift
      BY <1>1, <1>4, <2>2 DEF BucketTick, Less
    <3>2. /\ bucket' \in [tokens : 0 .. Full, age : Int] /\ bucket'.tokens = bucket.tokens
          /\ bucket'.age = bucket.age + 1 /\ bucket'.age + bucketTtl' = bucket.age + bucketTtl
      BY <1>1, <3>1
    <3>3. bucketTtl' \in Nat \ {0} /\ LivesUntilFull'
      BY <1>1, <1>5, <2>2, <3>1, <3>2 DEF LivesUntilFull
    <3>4. (bucket.age + 1) * Inflow = bucket.age * Inflow + Inflow
      BY <1>1
    <3>5. /\ Available' \in 0 .. Full
          /\ bucket'.age <= 0 => Available' = bucket.tokens
          /\ bucket'.age >= 0 => Available' = IF Full <= sum + Inflow THEN Full ELSE sum + Inflow
      <4>1. Available' = Holding(bucket')
        BY AvailableIs
      <4>2. bucket'.tokens + bucket'.age * Inflow = sum + Inflow
        BY <1>1, <3>2, <3>4
      <4> HIDE DEF sum
      <4>3. QED
        BY <3>2, <4>1, <4>2, HoldingIs
    <3> HIDE DEF slack
    <3>6. CASE bucket.age >= 0
      <4>1. sum \in Nat /\ bucket'.age >= 0
        BY <1>1, <3>2, <3>6
      <4> HIDE DEF sum
      <4>2. QED
        BY <1>1, <1>2, <1>3, <3>1, <3>2, <3>3, <3>5, <3>6, <4>1
    <3>7. CASE bucket.age < 0
      <4>1. bucket'.age <= 0 /\ stepped'
        BY <1>1, <1>2, <3>1, <3>2, <3>7
      <4> HIDE DEF sum
      <4>2. QED
        BY <1>1, <1>2, <1>3, <3>1, <3>2, <3>3, <3>5, <3>7, <4>1
    <3>8. QED
      BY <1>1, <3>6, <3>7
  <2>3. QED
    BY <1>1, <2>1, <2>2
<1>8. promise' # NoPromise => promise # NoPromise
  BY <1>4 DEF NoPromise, Less
<1>9. Near(promise', Available', slack)
  <2> SUFFICES ASSUME promise' # NoPromise PROVE Near(promise', Available', slack)
    BY DEF Near
  <2> DEFINE units == promise.cost * OneToken
             missing == units - Available
             more == Available' - Available
  <2>1. /\ bucket.age >= 0 /\ units <= Full
        /\ promise.left * Inflow >= missing - drift - Rounding
        /\ promise.left > 0 => (promise.left - 1) * Inflow < missing + drift + Rounding
    BY <1>8 DEF BucketInv, Near
  <2>2. PICK before, after : /\ before = Available /\ after = Available'
                             /\ before \in 0 .. Full /\ after \in 0 .. Full /\ before <= after
    BY <1>2, <1>7
  <2> HIDE DEF units, slack
  <2>3. /\ more \in Nat /\ missing \in Int /\ promise.left \in Nat
        /\ more <= Inflow + (slack - drift)
        /\ (more < Inflow => missing <= more)
        /\ missing - more = units - Available'
    <3>1. /\ units \in Nat /\ units <= Full /\ Full \in Nat /\ Inflow \in Nat /\ promise.left \in Nat
          /\ after - before <= Inflow + (slack - drift)
          /\ (after - before < Inflow => after = Full)
      <4>1. /\ Available' - Available <= Inflow + (slack - drift)
            /\ Available' - Available < Inflow => Available' = Full
        BY <1>7, <2>1
      <4>2. units \in Nat /\ units <= Full
        <5>1. promise.cost * OneToken \in Nat
          BY <1>1
        <5>2. QED
          BY <2>1, <5>1 DEF units
      <4>3. Full \in Nat /\ Inflow \in Nat /\ promise.left \in Nat
        BY <1>1
      <4>4. QED
        BY <2>2, <4>1, <4>2, <4>3
    <3>2. /\ after - before \in Nat /\ units - before \in Int
          /\ (after - before < Inflow => units - before <= after - before)
          /\ units - before - (after - before) = units - after
      <4>1. units \in Nat /\ units <= Full /\ Full \in Nat /\ Inflow \in Nat
        BY <3>1
      <4>2. before \in Nat /\ after \in Nat /\ before <= after
        BY <2>2, <4>1
      <4>3. after - before < Inflow => after = Full
        BY <3>1
      <4>4. QED
        BY <4>1, <4>2, <4>3
    <3>3. QED
      BY <2>2, <3>1, <3>2
  <2> HIDE DEF missing, more
  <2>4. PICK d, e : /\ d = drift + Rounding /\ e = slack + Rounding /\ d \in Nat /\ e \in Nat
                    /\ d <= e /\ e - d = slack - drift
    BY <1>1, <1>6
  <2>5. /\ promise.left * Inflow >= missing - d
        /\ promise.left > 0 => (promise.left - 1) * Inflow < missing + d
    <3> DEFINE upTo == promise.left * Inflow
               short == (promise.left - 1) * Inflow
    <3>1. upTo \in Int /\ short \in Int
      BY <1>1, <2>3
    <3>2. /\ upTo >= missing - drift - Rounding
          /\ (promise.left > 0 => short < missing + drift + Rounding)
      BY <2>1
    <3> HIDE DEF upTo, short
    <3>3. upTo >= missing - d /\ (promise.left > 0 => short < missing + d)
      BY <1>1, <2>3, <2>4, <3>1, <3>2
    <3>4. QED
      BY <3>3 DEF upTo, short
  <2>6. /\ Less(promise.left) * Inflow >= missing - more - e
        /\ Less(promise.left) > 0 => (Less(promise.left) - 1) * Inflow < missing - more + e
    BY <2>3, <2>4, <2>5, WaitGoesOn
  <2>7. PICK p : p = promise' /\ p.cost = promise.cost /\ p.left = Less(promise.left) /\ p.left \in Nat
    BY <1>4
  <2>8. /\ p.left * Inflow >= units - after - slack - Rounding
        /\ p.left > 0 => (p.left - 1) * Inflow < units - after + slack + Rounding
    <3> DEFINE upTo == p.left * Inflow
               short == (p.left - 1) * Inflow
    <3>1. upTo \in Int /\ short \in Int /\ units \in Nat
      BY <1>1, <2>7 DEF units
    <3>2. /\ upTo >= (units - after) - e
          /\ (p.left > 0 => short < (units - after) + e)
      <4>1. missing - more = units - after
        BY <2>2, <2>3
      <4>2. /\ upTo >= missing - more - e
            /\ (p.left > 0 => short < missing - more + e)
        <5>1. p.left = Less(promise.left)
          BY <2>7
        <5>2. /\ p.left * Inflow >= missing - more - e
              /\ (p.left > 0 => (p.left - 1) * Inflow < missing - more + e)
          BY <2>6, <5>1, Zenon
        <5>3. QED
          BY <5>2
      <4> HIDE DEF upTo, short
      <4>3. QED
        BY <4>1, <4>2
    <3> HIDE DEF upTo, short
    <3>3. /\ upTo >= units - after - slack - Rounding
          /\ (p.left > 0 => short < units - after + slack + Rounding)
      <4>1. e = slack + Rounding /\ slack \in Int /\ Rounding \in Int /\ after \in Int
        BY <1>1, <1>6, <2>2, <2>4
      <4>2. upTo \in Int /\ short \in Int /\ units \in Int
        BY <3>1
      <4>3. (units - after) - e = units - after - slack - Rounding
        BY <4>1, <4>2
      <4>4. (units - after) + e = units - after + slack + Rounding
        BY <4>1, <4>2
      <4>5. QED
        BY <3>2, <4>3, <4>4
    <3>4. QED
      BY <3>3 DEF upTo, short
  <2>9. p.cost * OneToken = units
    BY <2>7 DEF units
  <2>10. Near(p, after, slack)
    BY <2>1, <2>8, <2>9 DEF Near
  <2>11. QED
    BY <2>2, <2>7, <2>10
<1>10. CASE level' = Full /\ Available' = Full /\ promise'.left = 0
  <2>1. drift' = 0
    BY <1>10 DEF BucketTick
  <2>2. Near(promise', Available', 0)
    <3> SUFFICES ASSUME promise' # NoPromise PROVE Near(promise', Available', 0)
      BY DEF Near
    <3>1. promise.cost * OneToken <= Full
      BY <1>8 DEF BucketInv, Near
    <3>2. PICK p : p = promise' /\ p.left = 0 /\ p.cost = promise.cost
      BY <1>4, <1>10
    <3>3. p.cost * OneToken \in Nat /\ p.cost * OneToken <= Full /\ p.left * Inflow = 0
      BY <1>1, <3>1, <3>2
    <3>4. Near(p, Full, 0)
      <4> DEFINE units == p.cost * OneToken
      <4>1. units \in Nat /\ units <= Full
        BY <3>3
      <4> HIDE DEF units
      <4>2. 0 >= units - Full - 0 - Rounding
        BY <1>1, <4>1
      <4>3. QED
        BY <3>2, <3>3, <4>2 DEF Near, units
    <3>5. QED
      BY <1>10, <3>2, <3>4
  <2>3. /\ BucketTypes' /\ AdmitsWithinRate' /\ NothingLost'
    BY <1>1, <1>3, <1>4, <1>7, <1>10, <2>1 DEF BucketTypes, AdmitsWithinRate, NothingLost
  <2>4. QED
    BY <1>7, <1>8, <2>1, <2>2, <2>3 DEF BucketInv
<1>11. CASE ~ (level' = Full /\ Available' = Full /\ promise'.left = 0)
  <2>1. drift' = slack
    BY <1>11 DEF BucketTick
  <2> HIDE DEF slack
  <2>2. /\ BucketTypes' /\ AdmitsWithinRate' /\ NothingLost'
    BY <1>1, <1>3, <1>4, <1>6, <1>7, <2>1 DEF BucketTypes, AdmitsWithinRate, NothingLost
  <2>3. promise' # NoPromise => bucket'.age >= 0
    BY <1>7, <1>8 DEF BucketInv
  <2>4. QED
    BY <1>7, <1>9, <2>1, <2>2, <2>3 DEF BucketInv
<1>12. QED
  BY <1>10, <1>11

LEMMA BucketStepInv == BucketInv /\ [BucketNext]_bucketVars => BucketInv'
<1> SUFFICES ASSUME BucketInv, [BucketNext]_bucketVars PROVE BucketInv'
  OBVIOUS
<1>1. CASE UNCHANGED bucketVars
  BY <1>1 DEF bucketVars, BucketInv, BucketTypes, LivesUntilFull,
     AdmitsWithinRate, NothingLost, Available
<1>2. CASE BucketNext
  BY <1>2, AcquireKeeps, ResetKeeps, TickKeeps, BackKeeps DEF BucketNext
<1>3. QED
  BY <1>1, <1>2

\* The wait that was promised is over when the tokens are there, up to roundings.
LEMMA BucketInvKept == BucketInv => BucketKept
<1> SUFFICES ASSUME BucketInv PROVE BucketKept
  OBVIOUS
<1>1. RetryAfterNear
  <2> SUFFICES ASSUME promise # NoPromise
               PROVE  IF promise.left = 0
                      THEN Available + drift + Rounding >= promise.cost * OneToken
                      ELSE Available < promise.cost * OneToken + drift + Rounding
    BY DEF RetryAfterNear
  <2> DEFINE units == promise.cost * OneToken
             upTo == promise.left * Inflow
             short == (promise.left - 1) * Inflow
  <2>1. /\ Inflow \in Nat \ {0} /\ Rounding \in Nat /\ promise.left \in Nat /\ Available \in Nat
        /\ units \in Nat /\ drift \in Nat
    BY BucketNumbers, AvailableBounded DEF BucketInv, BucketTypes
  <2>2. /\ upTo >= units - Available - drift - Rounding
        /\ promise.left > 0 => short < units - Available + drift + Rounding
    BY DEF BucketInv, Near
  <2>3. (promise.left = 0 => upTo = 0) /\ (promise.left > 0 => short \in Nat)
    BY <2>1
  <2> HIDE DEF units, upTo, short
  <2>4. IF promise.left = 0 THEN Available + drift + Rounding >= units
                            ELSE Available < units + drift + Rounding
    BY <2>1, <2>2, <2>3
  <2>5. QED
    BY <2>4 DEF units
<1>2. QED
  BY <1>1 DEF BucketInv, BucketKept

\* The limiter admits within its rate, gives back what flowed in, and answers a
\* refused request with the first millisecond that admits it (ACQUIRE), all up to
\* what the doubles it counts in are off by since the bucket was full, through
\* expiry, resets and a server clock that steps back.
THEOREM BucketIsKept == BucketSpec => []BucketKept
<1>1. BucketSpec => []BucketInv
  BY BucketInitInv, BucketStepInv, PTL DEF BucketSpec
<1>2. QED
  BY <1>1, BucketInvKept, PTL

-----------------------------------------------------------------------------
(***************************************************************************)
(* The cache, for any bodies and any TTLs: a read answers with what was    *)
(* put last, and a copy that is said to be unchanged is.                   *)
(***************************************************************************)

\* What a key, a copy and an answer may be.
PlainItem == [body : Body, ttl : Nat \ {0}]
HashedItem == {[body |-> b, hash |-> HashOf(b), ttl |-> t] : b \in Body, t \in Nat \ {0}}
NoCopy == [body |-> Nothing, hash |-> Nothing]
Copies == {[body |-> b, hash |-> HashOf(b)] : b \in Body}
Answers == {Missing, Unchanged, Failed} \cup {Found(b) : b \in Body}

CacheTypes ==
  /\ plain \in PlainItem \cup {Absent}
  /\ hashed \in HashedItem \cup {HashedAbsent}
  /\ copy \in Copies \cup {NoCopy}
  /\ result \in Answers
  /\ age \in [plain : Nat, hashed : Nat]

\* An item's age and the rest of its time to live make one of the TTLs.
AgesAddUp ==
  /\ plain # Absent => \E d \in CacheTtls : age.plain + plain.ttl = Millis(d)
  /\ hashed # HashedAbsent => \E d \in CacheTtls : age.hashed + hashed.ttl = Millis(d)

CacheInv == CacheTypes /\ ReadsTrue /\ AgesAddUp

\* Durations become whole milliseconds, at least one.
LEMMA CacheMillis == \A d \in CacheTtls : Millis(d) \in Nat \ {0}
BY CacheAssumption DEF CacheAssumption, Millis

\* The answers can be told apart.
LEMMA AnswersDiffer ==
  /\ Missing # Unchanged /\ Missing # Failed /\ Unchanged # Failed
  /\ \A b : Found(b) \notin {Missing, Unchanged, Failed} /\ Found(b).body = b
<1>1. /\ Missing.is = "missing" /\ Unchanged.is = "unchanged" /\ Failed.is = "error"
      /\ \A b : Found(b).is = "found" /\ Found(b).body = b
  BY DEF Missing, Unchanged, Failed, Found
<1>2. QED
  BY <1>1

\* A hash is of one body alone.
LEMMA HashesDiffer == \A a, b : HashOf(a) = HashOf(b) => a = b
BY DEF HashOf

\* What is there, is not absent; what is absent has no body.
LEMMA ItemsAreThere ==
  /\ Absent.body = Nothing /\ HashedAbsent.body = Nothing
  /\ \A i \in PlainItem : i.body \in Body /\ i.ttl \in Nat \ {0} /\ i # Absent
  /\ \A i \in HashedItem : /\ i.body \in Body /\ i.ttl \in Nat \ {0} /\ i # HashedAbsent
                           /\ i.hash = HashOf(i.body)
  /\ NoCopy.body = Nothing
  /\ \A c \in Copies : c.body \in Body /\ c.hash = HashOf(c.body)
BY CacheAssumption DEF CacheAssumption, Absent, HashedAbsent, PlainItem, HashedItem, NoCopy, Copies

\* Nothing is stored, copied or answered at first.
LEMMA CacheInitInv == CacheInit => CacheInv
<1> SUFFICES ASSUME CacheInit PROVE CacheInv
  OBVIOUS
<1>1. CacheTypes
  BY DEF CacheInit, CacheTypes, Answers, NoCopy
<1>2. ReadsTrue
  BY AnswersDiffer DEF CacheInit, ReadsTrue
<1>3. QED
  BY <1>1, <1>2 DEF CacheInit, CacheInv, AgesAddUp

\* What a read of a body answers.
LEMMA ParseAnswers ==
  ASSUME NEW b \in Body
  PROVE  /\ Parse(b) \in Answers
         /\ Parse(b) # Missing /\ Parse(b) # Unchanged
         /\ Parse(b) = Failed => b \in Unreadable
         /\ Parse(b) # Failed => Parse(b).body = b
BY AnswersDiffer DEF Parse, Answers

LEMMA CachePutKeeps ==
  ASSUME CacheInv, NEW b \in Body, NEW d \in CacheTtls, CachePut(b, d) PROVE CacheInv'
<1>1. plain' \in PlainItem /\ plain'.ttl = Millis(d) /\ age'.plain = 0
      /\ age' \in [plain : Nat, hashed : Nat] /\ age'.hashed = age.hashed
  BY CacheMillis DEF CacheInv, CacheTypes, CachePut, PlainItem
<1>2. QED
  BY <1>1, CacheMillis DEF CacheInv, CacheTypes, CachePut, ReadsTrue, AgesAddUp

LEMMA HashedCachePutKeeps ==
  ASSUME CacheInv, NEW b \in Body, NEW d \in CacheTtls, HashedCachePut(b, d) PROVE CacheInv'
<1>1. hashed' \in HashedItem /\ hashed'.ttl = Millis(d) /\ age'.hashed = 0
      /\ age' \in [plain : Nat, hashed : Nat] /\ age'.plain = age.plain
  BY CacheMillis DEF CacheInv, CacheTypes, HashedCachePut, HashedItem
<1>2. QED
  BY <1>1, CacheMillis DEF CacheInv, CacheTypes, HashedCachePut, ReadsTrue, AgesAddUp

LEMMA CacheReadKeeps ==
  ASSUME CacheInv, UNCHANGED <<plain, hashed, age>>,
         copy' \in Copies \cup {NoCopy}, result' \in Answers,
         ReadsTrue'
  PROVE  CacheInv'
BY DEF CacheInv, CacheTypes, AgesAddUp

LEMMA CacheGetKeeps == ASSUME CacheInv, CacheGet PROVE CacheInv'
<1>1. UNCHANGED <<plain, hashed, copy, age>> /\ stored' = plain.body
  BY DEF CacheGet
<1>2. CASE plain = Absent
  <2>1. result' = Missing /\ stored' = Nothing
    BY <1>1, <1>2, ItemsAreThere DEF CacheGet
  <2>2. ReadsTrue' /\ result' \in Answers
    BY <2>1, AnswersDiffer DEF ReadsTrue, Answers
  <2>3. QED
    BY <1>1, <2>2, CacheReadKeeps DEF CacheInv, CacheTypes
<1>3. CASE plain # Absent
  <2>1. plain.body \in Body /\ result' = Parse(plain.body)
    BY <1>3, ItemsAreThere DEF CacheGet, CacheInv, CacheTypes
  <2>2. ReadsTrue' /\ result' \in Answers
    BY <1>1, <2>1, ParseAnswers DEF ReadsTrue
  <2>3. QED
    BY <1>1, <2>2, CacheReadKeeps DEF CacheInv, CacheTypes
<1>4. QED
  BY <1>2, <1>3

\* A read that takes the hashed item.
LEMMA TakeKeeps ==
  ASSUME CacheInv, hashed # HashedAbsent, Take(hashed.body, hashed.hash),
         stored' = hashed.body, UNCHANGED <<plain, hashed, age>>
  PROVE  CacheInv'
<1>1. hashed.body \in Body /\ hashed.hash = HashOf(hashed.body)
  BY ItemsAreThere DEF CacheInv, CacheTypes
<1>2. result' = Parse(hashed.body) /\ copy' \in Copies \cup {NoCopy}
  BY <1>1 DEF CacheInv, CacheTypes, Take, Copies
<1>3. ReadsTrue' /\ result' \in Answers
  BY <1>1, <1>2, ParseAnswers DEF ReadsTrue
<1>4. QED
  BY <1>2, <1>3, CacheReadKeeps

\* A read that finds no hashed item.
LEMMA MissingKeeps ==
  ASSUME CacheInv, hashed = HashedAbsent, result' = Missing, stored' = hashed.body,
         UNCHANGED <<plain, hashed, copy, age>>
  PROVE  CacheInv'
<1>1. ReadsTrue' /\ result' \in Answers
  BY ItemsAreThere, AnswersDiffer DEF ReadsTrue, Answers
<1>2. QED
  BY <1>1, CacheReadKeeps DEF CacheInv, CacheTypes

\* A read that finds the hash of the copy.
LEMMA UnchangedKeeps ==
  ASSUME CacheInv, hashed # HashedAbsent, copy.body # Nothing, hashed.hash = copy.hash,
         result' = Unchanged, stored' = hashed.body, UNCHANGED <<plain, hashed, copy, age>>
  PROVE  CacheInv'
<1>1. hashed.body \in Body /\ hashed.body = copy.body
  BY ItemsAreThere, HashesDiffer DEF CacheInv, CacheTypes
<1>2. ReadsTrue' /\ result' \in Answers
  BY <1>1, AnswersDiffer, CacheAssumption DEF ReadsTrue, Answers, CacheAssumption
<1>3. QED
  BY <1>2, CacheReadKeeps DEF CacheInv, CacheTypes

LEMMA HashedCacheGetIfChangedKeeps == ASSUME CacheInv, HashedCacheGetIfChanged PROVE CacheInv'
<1>1. copy.body # Nothing /\ stored' = hashed.body /\ UNCHANGED <<plain, hashed, age>>
  BY DEF HashedCacheGetIfChanged
<1>2. CASE hashed = HashedAbsent
  <2>1. GET_IF_CHANGED(copy.hash) = <<0>>
    BY <1>2 DEF GET_IF_CHANGED
  <2>2. result' = Missing /\ UNCHANGED copy
    BY <2>1 DEF HashedCacheGetIfChanged
  <2>3. QED
    BY <1>1, <1>2, <2>2, MissingKeeps
<1>3. CASE hashed # HashedAbsent /\ hashed.hash = copy.hash
  BY <1>1, <1>3, UnchangedKeeps DEF HashedCacheGetIfChanged, GET_IF_CHANGED
<1>4. CASE hashed # HashedAbsent /\ hashed.hash # copy.hash
  BY <1>1, <1>4, TakeKeeps DEF HashedCacheGetIfChanged, GET_IF_CHANGED
<1>5. QED
  BY <1>2, <1>3, <1>4

LEMMA CacheTickKeeps == ASSUME CacheInv, CacheTick PROVE CacheInv'
<1>1. /\ plain' \in PlainItem \cup {Absent}
      /\ plain' # Absent => plain # Absent /\ plain'.ttl = plain.ttl - 1 /\ age'.plain = age.plain + 1
  BY ItemsAreThere DEF CacheInv, CacheTypes, CacheTick, Less, Expires, PlainItem, Absent
<1>2. /\ hashed' \in HashedItem \cup {HashedAbsent}
      /\ hashed' # HashedAbsent =>
           hashed # HashedAbsent /\ hashed'.ttl = hashed.ttl - 1 /\ age'.hashed = age.hashed + 1
  BY ItemsAreThere DEF CacheInv, CacheTypes, CacheTick, Less, Expires, HashedItem, HashedAbsent
<1>3. age' \in [plain : Nat, hashed : Nat]
  BY DEF CacheInv, CacheTypes, CacheTick
<1>4. AgesAddUp'
  BY <1>1, <1>2, ItemsAreThere DEF CacheInv, CacheTypes, AgesAddUp
<1>5. QED
  BY <1>1, <1>2, <1>3, <1>4 DEF CacheInv, CacheTypes, CacheTick, ReadsTrue

LEMMA CacheStepInv == CacheInv /\ [CacheNext]_cacheVars => CacheInv'
<1> SUFFICES ASSUME CacheInv, [CacheNext]_cacheVars PROVE CacheInv'
  OBVIOUS
<1>1. CASE UNCHANGED cacheVars
  BY <1>1 DEF CacheInv, CacheTypes, ReadsTrue, AgesAddUp, cacheVars
<1>2. CASE CacheRemove
  BY <1>2 DEF CacheInv, CacheTypes, ReadsTrue, AgesAddUp, CacheRemove
<1>3. CASE HashedCacheRemove
  BY <1>3 DEF CacheInv, CacheTypes, ReadsTrue, AgesAddUp, HashedCacheRemove
<1>4. CASE HashedCacheGet
  BY <1>4, TakeKeeps, MissingKeeps DEF HashedCacheGet
<1>5. CASE HashedCacheHash
  BY <1>5, UnchangedKeeps DEF HashedCacheHash
<1>6. QED
  BY <1>1, <1>2, <1>3, <1>4, <1>5, CachePutKeeps, HashedCachePutKeeps, CacheGetKeeps,
     HashedCacheGetIfChangedKeeps, CacheTickKeeps DEF CacheNext

\* Every answer of a cache is true of its item, for any bodies, hashes and TTLs,
\* and none is older than the longest of the TTLs.
THEOREM CacheIsTruthful == CacheSpec => []CacheTruthful
<1>1. CacheInv => StaleBounded
  <2> SUFFICES ASSUME CacheInv PROVE StaleBounded
    OBVIOUS
  <2>1. /\ plain # Absent => \E d \in CacheTtls : age.plain < Millis(d)
        /\ hashed # HashedAbsent => \E d \in CacheTtls : age.hashed < Millis(d)
        /\ age.plain \in Nat /\ age.hashed \in Nat
    BY CacheMillis, ItemsAreThere DEF CacheInv, CacheTypes, AgesAddUp
  <2>2. CASE plain = Absent
    BY <2>1, <2>2, CacheAssumption DEF StaleBounded, CacheAssumption
  <2>3. CASE hashed = HashedAbsent
    BY <2>1, <2>3, CacheAssumption DEF StaleBounded, CacheAssumption
  <2>4. CASE plain # Absent /\ hashed # HashedAbsent
    <3>1. PICK d \in CacheTtls, e \in CacheTtls : age.plain < Millis(d) /\ age.hashed < Millis(e)
      BY <2>1, <2>4
    <3>2. CASE Millis(d) < Millis(e)
      BY <2>1, <3>1, <3>2, CacheMillis DEF StaleBounded
    <3>3. CASE ~ Millis(d) < Millis(e)
      BY <2>1, <3>1, <3>3, CacheMillis DEF StaleBounded
    <3>4. QED
      BY <3>2, <3>3
  <2>5. QED
    BY <2>2, <2>3, <2>4
<1>2. CacheInv => CacheTruthful
  BY <1>1 DEF CacheInv, CacheTruthful
<1>3. CacheSpec => []CacheInv
  BY CacheInitInv, CacheStepInv, PTL DEF CacheSpec
<1>4. QED
  BY <1>2, <1>3, PTL
==============================================================================
