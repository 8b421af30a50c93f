------------------------- MODULE RedisDynamicProofs --------------------------
(***************************************************************************)
(* Theorems about the structures of redis/dynamic, for any values of their *)
(* constants: a live view loses no commit and its subscribers have the     *)
(* body of their version, a stream buffer and a pipe deliver what was      *)
(* sent, in order.                                                         *)
(***************************************************************************)
EXTENDS LiveView, StreamBuffer, Pipe, Integers, WellFoundedInduction, TLAPS

\* A set of numbers has a least one: what the proofs about recursive functions
\* rest on, which look at the first argument with a wrong value.
LEMMA LeastNumber ==
  ASSUME NEW T, T \subseteq Nat, T # {}
  PROVE  \E n \in T : \A m \in T : n <= m
<1>1. \E x \in T : \A y \in T : ~ (<<y, x>> \in OpToRel(<, Nat))
  BY NatLessThanWellFounded, WFMin
<1>2. \A x, y \in Nat : <<x, y>> \in OpToRel(<, Nat) <=> x < y
  BY DEF OpToRel
<1>3. PICK x \in T : \A y \in T : ~ (<<y, x>> \in OpToRel(<, Nat))
  BY <1>1
<1>4. ASSUME NEW y \in T PROVE x <= y
  <2>1. x \in Nat /\ y \in Nat /\ ~ (y < x)
    BY <1>2, <1>3
  <2>2. QED
    BY <2>1
<1>5. QED
  BY <1>4

\* A slice of a sequence from its first element on.
LEMMA Slices ==
  ASSUME NEW S, NEW e \in Seq(S), NEW k \in 1 .. Len(e)
  PROVE  /\ SubSeq(e, 1, 0) = <<>>
         /\ SubSeq(e, 1, k) = Append(SubSeq(e, 1, k - 1), e[k])
<1>1. /\ Len(SubSeq(e, 1, k)) = k /\ SubSeq(e, 1, k) \in Seq(S)
      /\ Len(SubSeq(e, 1, k - 1)) = k - 1 /\ SubSeq(e, 1, k - 1) \in Seq(S)
      /\ e[k] \in S
  OBVIOUS
<1>2. \A i \in 1 .. k : SubSeq(e, 1, k)[i] = e[i]
  OBVIOUS
<1>3. \A i \in 1 .. k - 1 : SubSeq(e, 1, k - 1)[i] = e[i]
  OBVIOUS
<1> DEFINE a == SubSeq(e, 1, k)
           b == Append(SubSeq(e, 1, k - 1), e[k])
<1>4. b \in Seq(S) /\ Len(b) = k /\ \A i \in 1 .. k : b[i] = e[i]
  BY <1>1, <1>3
<1>5. a \in Seq(S) /\ Len(a) = k /\ \A i \in 1 .. k : a[i] = e[i]
  BY <1>1, <1>2
<1>6. ASSUME NEW x \in Seq(S), NEW y \in Seq(S), Len(x) = Len(y), \A i \in 1 .. Len(x) : x[i] = y[i]
      PROVE  x = y
  BY <1>6
<1>7. a = b
  <2> HIDE DEF a, b
  <2>1. QED
    BY <1>4, <1>5, <1>6
<1>8. SubSeq(e, 1, 0) = <<>>
  OBVIOUS
<1>9. QED
  BY <1>7, <1>8

-----------------------------------------------------------------------------
(***************************************************************************)
(* The live view: for any editors, any number of commits, creations and    *)
(* resumptions, any max_diffs and batches of any length: no commit is      *)
(* lost, and a subscriber has the body of its version.                     *)
(***************************************************************************)

Edit == Nat \cup Editor
State == [version : Nat, body : Seq(Edit)]
HistoryEntry == [id : Nat, base : Seq(Edit), diff : Editor \cup {NoDiff}]

ViewTypes ==
  /\ head \in State /\ history \in Seq(HistoryEntry)
  /\ seen \in [Editor -> State] /\ view \in State
  /\ follow \in [on : BOOLEAN, version : Nat, after : Nat,
                 pending : Seq(HistoryEntry), of : Nat]
  /\ creations \in Nat /\ edits \in Seq(Edit)
  /\ corrupt \in BOOLEAN /\ crossed \in BOOLEAN

\* s is how t begins.
Begins(s, t) == Len(s) <= Len(t) /\ \A i \in 1 .. Len(s) : s[i] = t[i]

\* What an entry holds is what it should, where made are all edits.
Sound(entry, made) ==
  /\ entry.id \in 1 .. Len(made)
  /\ entry.diff # NoDiff => entry.diff = made[entry.id]
  /\ entry.base # <<>> => Len(entry.base) = entry.id /\ Begins(entry.base, made)
  /\ entry.diff = NoDiff => entry.base # <<>>

\* Sound entries, of one version after the other.
Chained(log, made) ==
  /\ \A i \in 1 .. Len(log) : Sound(log[i], made)
  /\ \A i \in 1 .. Len(log) - 1 : log[i + 1].id = log[i].id + 1

\* The first edit of a view is its creation.
EditsBegin ==
  IF creations = 0 THEN edits = <<>> ELSE edits # <<>> /\ edits[1] = creations

HistoryKept ==
  /\ head = NoView => history = <<>>
  /\ head # NoView =>
       /\ creations # 0 /\ head = Versioned(Len(edits), edits)
       /\ history # <<>> /\ history[1].base # <<>>
       /\ Chained(history, edits) /\ history[Len(history)].id = Len(edits)

\* What an editor read is of this view, where it is still up to date or older,
\* or of an earlier one.
SeenKept ==
  \A e \in Editor : seen[e] # NoView =>
    /\ seen[e].body # <<>> /\ seen[e].version = Len(seen[e].body)
    /\ seen[e].body[1] \in 1 .. creations
    /\ seen[e].body[1] = creations => Begins(seen[e].body, edits)

\* The subscriber's body, and what it has read, are of the same edits.
Follows(made) ==
  /\ Begins(view.body, made)
  /\ view.version = Len(view.body) /\ follow.version = view.version
  /\ Chained(follow.pending, made)
  /\ IF follow.pending = <<>> THEN follow.after = follow.version
     ELSE /\ follow.after = follow.pending[Len(follow.pending)].id
          /\ \/ follow.pending[1].id = follow.version + 1
             \/ follow.pending[1].base # <<>>

SubscriberKept ==
  /\ ~ corrupt /\ follow.of <= creations
  /\ \E made \in Seq(Edit) :
       Follows(made) /\ (follow.of = creations => Begins(made, edits))

ViewInv ==
  ViewTypes /\ (~ crossed => EditsBegin /\ HistoryKept /\ SeenKept /\ SubscriberKept)

-----------------------------------------------------------------------------
(* Sequences of edits.                                                     *)

\* A prefix is one for IsPrefix.
LEMMA BeginsIsPrefix ==
  ASSUME NEW s \in Seq(Edit), NEW t \in Seq(Edit), Begins(s, t)
  PROVE  IsPrefix(s, t)
<1>1. Len(s) \in Nat /\ Len(t) \in Nat /\ Len(s) <= Len(t)
  BY DEF Begins
<1>2. SubSeq(s, 1, Len(s)) = SubSeq(t, 1, Len(s))
  <2>1. SubSeq(s, 1, Len(s)) \in Seq(Edit) /\ SubSeq(t, 1, Len(s)) \in Seq(Edit)
    BY <1>1
  <2>2. Len(SubSeq(s, 1, Len(s))) = Len(s) /\ Len(SubSeq(t, 1, Len(s))) = Len(s)
    BY <1>1
  <2>3. \A i \in 1 .. Len(s) : SubSeq(s, 1, Len(s))[i] = SubSeq(t, 1, Len(s))[i]
    BY <1>1 DEF Begins
  <2>4. QED
    BY <2>1, <2>2, <2>3
<1>3. QED
  BY <1>1, <1>2 DEF IsPrefix

\* A beginning of a beginning is one.
LEMMA BeginsTransitive ==
  ASSUME NEW s \in Seq(Edit), NEW t \in Seq(Edit), NEW u \in Seq(Edit),
         Begins(s, t), Begins(t, u)
  PROVE  Begins(s, u)
BY DEF Begins

\* Two sequences of edits of one length, one of which begins the other, are equal.
LEMMA BeginsWhole ==
  ASSUME NEW s \in Seq(Edit), NEW t \in Seq(Edit), Begins(s, t), Len(s) = Len(t)
  PROVE  s = t
BY DEF Begins

\* One more edit changes nothing about the ones before.
LEMMA OneMoreEdit ==
  ASSUME NEW s \in Seq(Edit), NEW e \in Edit
  PROVE  /\ Append(s, e) \in Seq(Edit) /\ Append(s, e) # <<>>
         /\ Len(Append(s, e)) = Len(s) + 1 /\ Append(s, e)[Len(s) + 1] = e
         /\ \A i \in 1 .. Len(s) : Append(s, e)[i] = s[i]
         /\ Begins(s, Append(s, e))
         /\ \A t \in Seq(Edit) : Begins(t, s) => Begins(t, Append(s, e))
BY DEF Begins

\* An entry that is right for some edits is right for more of them.
LEMMA StaySound ==
  ASSUME NEW s \in Seq(Edit), NEW t \in Seq(Edit), Begins(s, t),
         NEW entry \in HistoryEntry, Sound(entry, s)
  PROVE  Sound(entry, t)
<1>1. entry.base \in Seq(Edit) /\ entry.id \in Nat
  BY DEF HistoryEntry
<1>2. entry.id \in 1 .. Len(t) /\ t[entry.id] = s[entry.id]
  BY DEF Sound, Begins
<1>3. QED
  BY <1>1, <1>2, BeginsTransitive DEF Sound

\* So is a log of entries, as when an edit is committed.
LEMMA StayChained ==
  ASSUME NEW s \in Seq(Edit), NEW t \in Seq(Edit), Begins(s, t),
         NEW log \in Seq(HistoryEntry), Chained(log, s)
  PROVE  Chained(log, t)
<1>1. \A i \in 1 .. Len(log) : log[i] \in HistoryEntry
  OBVIOUS
<1>2. QED
  BY <1>1, StaySound DEF Chained

\* There is no view, no edit and no subscription at first.
LEMMA InitViewInv == ViewInit => ViewInv
<1> SUFFICES ASSUME ViewInit PROVE ViewInv
  OBVIOUS
<1> USE DEF ViewInit
<1>1. NoView \in State /\ NotFollowing \in [on : BOOLEAN, version : Nat, after : Nat,
                                           pending : Seq(HistoryEntry), of : Nat]
  BY DEF NoView, Versioned, State, NotFollowing
<1>2. ViewTypes
  <2>1. history \in Seq(HistoryEntry) /\ edits \in Seq(Edit)
    OBVIOUS
  <2>2. head \in State /\ view \in State /\ seen \in [Editor -> State]
    BY <1>1
  <2>3. corrupt \in BOOLEAN /\ crossed \in BOOLEAN /\ creations \in Nat
    OBVIOUS
  <2>4. follow = NotFollowing
    OBVIOUS
  <2>5. QED
    BY <1>1, <2>1, <2>2, <2>3, <2>4 DEF ViewTypes
<1>3. EditsBegin /\ HistoryKept /\ SeenKept
  BY DEF EditsBegin, HistoryKept, SeenKept
<1>4. Follows(<<>>) /\ Begins(<<>>, edits) /\ follow.of <= creations
  BY DEF Follows, Begins, Chained, NoView, Versioned, NotFollowing
<1>5. <<>> \in Seq(Edit)
  OBVIOUS
<1>6. SubscriberKept
  BY <1>4, <1>5 DEF SubscriberKept
<1>7. QED
  BY <1>2, <1>3, <1>6 DEF ViewInv

-----------------------------------------------------------------------------
(* The editors.                                                            *)

\* A version and a body are a state of a view.
LEMMA VersionedIsState ==
  ASSUME NEW v \in Nat, NEW b \in Seq(Edit)
  PROVE  Versioned(v, b) \in State /\ Versioned(v, b).version = v /\ Versioned(v, b).body = b
         /\ (v # 0 => Versioned(v, b) # NoView)
BY DEF Versioned, State, NoView

\* A new view has one edit, its creation; what was read before is of an earlier view.
LEMMA ViewCreateKeeps == ASSUME ViewInv, ViewCreate PROVE ViewInv'
<1> DEFINE first == <<creations + 1>>
<1>1. /\ creations' = creations + 1 /\ edits' = first /\ head = NoView
      /\ head' = Versioned(1, first) /\ history' = <<Entry(1, first, NoDiff)>>
      /\ seen' = seen /\ view' = view /\ follow' = follow
      /\ corrupt' = corrupt /\ crossed' = crossed
  BY DEF ViewCreate, CREATE
<1>2. creations \in Nat /\ first \in Seq(Edit) /\ Len(first) = 1 /\ first[1] = creations + 1
      /\ first # <<>>
  BY DEF ViewInv, ViewTypes, Edit
<1> HIDE DEF first
<1>a. Versioned(1, first) \in State /\ Versioned(1, first) # NoView
  BY <1>2, VersionedIsState
<1>3. Entry(1, first, NoDiff) \in HistoryEntry
  BY <1>2 DEF Entry, HistoryEntry
<1>4. ViewTypes'
  <2>1. head' \in State /\ creations' \in Nat /\ edits' \in Seq(Edit)
    BY <1>1, <1>2, <1>a
  <2>2. history' \in Seq(HistoryEntry)
    BY <1>1, <1>3
  <2>3. QED
    BY <1>1, <2>1, <2>2 DEF ViewInv, ViewTypes
<1>5. EditsBegin'
  BY <1>1, <1>2 DEF EditsBegin
<1>6. HistoryKept'
  <2>1. Sound(Entry(1, first, NoDiff), first)
    <3> DEFINE base == Entry(1, first, NoDiff)
    <3>1. base.id = 1 /\ base.base = first /\ base.diff = NoDiff
      BY DEF Entry
    <3>2. Begins(first, first)
      BY <1>2 DEF Begins
    <3>3. 1 \in 1 .. Len(first)
      BY <1>2
    <3> HIDE DEF base
    <3>4. Sound(base, first)
      BY <1>2, <3>1, <3>2, <3>3 DEF Sound
    <3>5. QED
      BY <3>4 DEF base
  <2>2. Chained(history', first) /\ history' # <<>> /\ history'[1] = Entry(1, first, NoDiff)
        /\ Len(history') = 1
    BY <1>1, <2>1 DEF Chained
  <2>3. history'[1].base # <<>> /\ history'[Len(history')].id = 1
    BY <1>2, <2>2 DEF Entry
  <2>4. head' # NoView
    BY <1>1, <1>a
  <2>5. creations' # 0 /\ Len(edits') = 1
    BY <1>1, <1>2
  <2>6. QED
    BY <1>1, <2>2, <2>3, <2>4, <2>5 DEF HistoryKept
<1>7. ASSUME ~ crossed PROVE SeenKept' /\ SubscriberKept'
  <2>1. SeenKept'
    BY <1>1, <1>2, <1>7 DEF ViewInv, SeenKept
  <2>2. follow.of \in Nat /\ follow.of <= creations
    BY <1>7 DEF ViewInv, ViewTypes, SubscriberKept
  <2>3. SubscriberKept'
    BY <1>1, <1>2, <1>7, <2>2 DEF ViewInv, SubscriberKept, Follows
  <2>4. QED
    BY <2>1, <2>3
<1>8. QED
  BY <1>1, <1>4, <1>5, <1>6, <1>7 DEF ViewInv

\* An editor reads the head.
LEMMA ViewGetKeeps == ASSUME ViewInv, NEW e \in Editor, ViewGet(e) PROVE ViewInv'
<1>1. /\ seen' = [seen EXCEPT ![e] = head]
      /\ UNCHANGED <<head, history, view, follow, creations, edits, corrupt, crossed>>
  BY DEF ViewGet
<1>2. ViewTypes'
  BY <1>1 DEF ViewInv, ViewTypes
<1>3. ASSUME ~ crossed PROVE SeenKept'
  <2>1. EditsBegin /\ HistoryKept /\ SeenKept /\ seen \in [Editor -> State]
        /\ creations \in Nat /\ edits \in Seq(Edit)
    BY <1>3 DEF ViewInv, ViewTypes
  <2>2. ASSUME head # NoView
        PROVE  /\ head.body # <<>> /\ head.version = Len(head.body)
               /\ head.body[1] \in 1 .. creations /\ Begins(head.body, edits)
    <3>1. head.body = edits /\ head.version = Len(edits) /\ creations # 0
      BY <2>1, <2>2, VersionedIsState DEF HistoryKept
    <3>2. QED
      BY <2>1, <3>1 DEF EditsBegin, Begins
  <2>3. \A f \in Editor : seen'[f] = IF f = e THEN head ELSE seen[f]
    BY <1>1, <2>1
  <2>4. QED
    BY <1>1, <2>1, <2>2, <2>3 DEF SeenKept
<1>4. QED
  BY <1>1, <1>2, <1>3
     DEF ViewInv, EditsBegin, HistoryKept, SubscriberKept, Follows

\* An editor that had read the head commits.
LEMMA CommittedKeeps ==
  ASSUME ViewInv, NEW e \in Editor, ViewCommit(e), COMMIT(seen[e].version) = Committed
  PROVE  ViewInv'
<1> DEFINE next == Versioned(seen[e].version + 1, Apply(seen[e].body, e))
<1>1. /\ head' = Versioned(head.version + 1, next.body)
      /\ history' = NextHistory(e, next.body) /\ edits' = Append(edits, e)
      /\ crossed' = (crossed \/ seen[e].body[1] # creations)
      /\ seen' \in {seen, [seen EXCEPT ![e] = next]} /\ seen[e] # NoView
      /\ view' = view /\ follow' = follow /\ creations' = creations /\ corrupt' = corrupt
  BY DEF ViewCommit
<1>2. head # NoView /\ head.version = seen[e].version
  BY DEF COMMIT, Committed, Gone, Conflict
<1>3. /\ head \in State /\ seen \in [Editor -> State] /\ seen[e] \in State
      /\ history \in Seq(HistoryEntry) /\ edits \in Seq(Edit) /\ creations \in Nat
      /\ head.version \in Nat /\ seen[e].body \in Seq(Edit) /\ e \in Edit
  BY DEF ViewInv, ViewTypes, State, Edit
<1> DEFINE body == Append(seen[e].body, e)
<1>4. /\ next = Versioned(head.version + 1, body) /\ body \in Seq(Edit)
      /\ next.body = body /\ next.version = head.version + 1 /\ next \in State /\ next # NoView
  <2>1. body \in Seq(Edit)
    BY <1>3, OneMoreEdit
  <2>2. next = Versioned(head.version + 1, body)
    BY <1>2 DEF Apply
  <2>3. head.version + 1 \in Nat /\ head.version + 1 # 0
    BY <1>3
  <2>4. /\ Versioned(head.version + 1, body) \in State
        /\ Versioned(head.version + 1, body).version = head.version + 1
        /\ Versioned(head.version + 1, body).body = body
        /\ Versioned(head.version + 1, body) # NoView
    <3> HIDE DEF body
    <3>1. QED
      BY <2>1, <2>3, VersionedIsState
  <2>5. QED
    BY <2>1, <2>2, <2>4
<1>5. head' = next /\ edits' \in Seq(Edit)
  <2>1. Append(edits, e) \in Seq(Edit)
    BY <1>3, OneMoreEdit
  <2>2. QED
    BY <1>1, <1>4, <2>1
<1>6. seen' \in [Editor -> State] /\ \A f \in Editor : seen'[f] \in {seen[f], next}
  BY <1>1, <1>3, <1>4
<1> DEFINE squashed == Entry(head.version + 1, body, e)
           added == Entry(head.version + 1, <<>>, e)
<1>7. /\ squashed \in HistoryEntry /\ added \in HistoryEntry
      /\ history' = <<squashed>> \/ history' = Append(history, added)
  <2>1. <<>> \in Seq(Edit) /\ head.version + 1 \in Nat /\ e \in Editor
    BY <1>3
  <2>2. squashed \in HistoryEntry /\ added \in HistoryEntry
    BY <1>4, <2>1 DEF Entry, HistoryEntry
  <2>3. history' = NextHistory(e, body)
    BY <1>1, <1>4
  <2>4. QED
    BY <2>2, <2>3 DEF NextHistory
<1>8. ViewTypes'
  <2>1. history' \in Seq(HistoryEntry)
    <3>1. <<squashed>> \in Seq(HistoryEntry) /\ Append(history, added) \in Seq(HistoryEntry)
      BY <1>3, <1>7
    <3>2. QED
      BY <1>7, <3>1
  <2>2. crossed' \in BOOLEAN
    BY <1>1
  <2>3. QED
    BY <1>1, <1>4, <1>5, <1>6, <2>1, <2>2 DEF ViewInv, ViewTypes
<1>9. SUFFICES ASSUME ~ crossed' PROVE EditsBegin' /\ HistoryKept' /\ SeenKept' /\ SubscriberKept'
  BY <1>8 DEF ViewInv
<1>10. ~ crossed /\ seen[e].body[1] = creations
  BY <1>1, <1>9 DEF ViewInv, ViewTypes
<1>11. EditsBegin /\ HistoryKept /\ SeenKept /\ SubscriberKept
  BY <1>10 DEF ViewInv
<1>12. /\ head.version = Len(edits) /\ history # <<>> /\ history[1].base # <<>> /\ creations # 0
       /\ Chained(history, edits) /\ history[Len(history)].id = Len(edits)
  BY <1>2, <1>3, <1>11, VersionedIsState DEF HistoryKept
<1>13. seen[e].body = edits
  <2>1. Begins(seen[e].body, edits) /\ Len(seen[e].body) = Len(edits)
    BY <1>1, <1>2, <1>10, <1>11, <1>12 DEF SeenKept
  <2>2. QED
    BY <1>3, <2>1, BeginsWhole
<1>14. body = edits' /\ next = Versioned(Len(edits'), edits') /\ Begins(edits, edits')
       /\ Len(edits') = Len(edits) + 1 /\ edits'[Len(edits')] = e /\ edits' # <<>>
  BY <1>1, <1>3, <1>4, <1>12, <1>13, OneMoreEdit
<1>15. EditsBegin'
  BY <1>1, <1>3, <1>11, <1>12, OneMoreEdit DEF EditsBegin
<1>16. Chained(history, edits')
  BY <1>3, <1>5, <1>12, <1>14, StayChained
<1>17. HistoryKept'
  <2>1. Sound(squashed, edits') /\ Sound(added, edits')
    BY <1>3, <1>5, <1>12, <1>14, LiveViewAssumption DEF LiveViewAssumption, Sound, Entry, Begins
  <2>2. squashed.base # <<>> /\ squashed.id = Len(edits') /\ added.id = Len(edits')
    BY <1>12, <1>14 DEF Entry
  <2>3. CASE history' = <<squashed>>
    <3>1. Len(history') = 1 /\ history'[1] = squashed /\ history' # <<>>
      BY <2>3
    <3>2. Chained(history', edits')
      BY <2>1, <3>1 DEF Chained
    <3>3. QED
      BY <1>1, <1>4, <1>5, <1>12, <1>14, <2>2, <3>1, <3>2 DEF HistoryKept
  <2>4. CASE history' = Append(history, added)
    <3>1. /\ Len(history) \in Nat /\ Len(history) > 0 /\ Len(history') = Len(history) + 1
          /\ history'[Len(history')] = added /\ history' # <<>>
          /\ \A i \in 1 .. Len(history) : history'[i] = history[i]
      BY <1>3, <1>7, <1>12, <2>4
    <3>2. \A i \in 1 .. Len(history') : Sound(history'[i], edits')
      BY <1>16, <2>1, <3>1 DEF Chained
    <3>3. \A i \in 1 .. Len(history') - 1 : history'[i + 1].id = history'[i].id + 1
      <4>1. SUFFICES ASSUME NEW i \in 1 .. Len(history)
                     PROVE  history'[i + 1].id = history'[i].id + 1
        BY <3>1
      <4>2. CASE i = Len(history)
        BY <1>12, <1>14, <2>2, <3>1, <4>2
      <4>3. CASE i # Len(history)
        <5>1. i \in 1 .. Len(history) - 1 /\ i + 1 \in 1 .. Len(history)
          BY <3>1, <4>3
        <5>2. QED
          BY <1>12, <3>1, <5>1 DEF Chained
      <4>4. QED
        BY <4>2, <4>3
    <3>4. history'[1].base # <<>>
      BY <1>12, <3>1
    <3>5. QED
      BY <1>1, <1>4, <1>5, <1>12, <1>14, <2>2, <3>1, <3>2, <3>3, <3>4 DEF HistoryKept, Chained
  <2>5. QED
    BY <1>7, <2>3, <2>4
<1>18. SeenKept'
  <2>1. SUFFICES ASSUME NEW f \in Editor, seen'[f] # NoView
                 PROVE  /\ seen'[f].body # <<>> /\ seen'[f].version = Len(seen'[f].body)
                        /\ seen'[f].body[1] \in 1 .. creations
                        /\ seen'[f].body[1] = creations => Begins(seen'[f].body, edits')
    BY <1>1 DEF SeenKept
  <2>2. CASE seen'[f] = next
    <3>1. seen'[f].body = edits' /\ seen'[f].version = Len(edits')
      BY <1>4, <1>12, <1>14, <2>2
    <3>2. edits'[1] = creations /\ edits' # <<>>
      BY <1>1, <1>12, <1>15 DEF EditsBegin
    <3>3. Begins(edits', edits')
      BY <1>5 DEF Begins
    <3>4. QED
      BY <1>3, <1>12, <3>1, <3>2, <3>3
  <2>3. CASE seen'[f] = seen[f]
    <3>1. seen[f].body \in Seq(Edit)
      BY <1>3 DEF State
    <3>2. seen[f].body[1] = creations => Begins(seen[f].body, edits')
      BY <1>3, <1>5, <1>11, <1>14, <2>1, <2>3, <3>1, BeginsTransitive DEF SeenKept
    <3>3. QED
      BY <1>11, <2>1, <2>3, <3>2 DEF SeenKept
  <2>4. QED
    BY <1>6, <2>2, <2>3
<1>19. SubscriberKept'
  <2>1. PICK made \in Seq(Edit) : Follows(made) /\ (follow.of = creations => Begins(made, edits))
    BY <1>11 DEF SubscriberKept
  <2>2. follow.of = creations => Begins(made, edits')
    BY <1>3, <1>5, <1>14, <2>1, BeginsTransitive
  <2>3. Follows(made)'
    BY <1>1, <2>1 DEF Follows
  <2>4. QED
    BY <1>1, <1>11, <2>2, <2>3 DEF SubscriberKept
<1>20. QED
  BY <1>15, <1>17, <1>18, <1>19

\* An editor whose commit is refused reads again.
LEMMA RefusedKeeps ==
  ASSUME ViewInv, NEW e \in Editor, ViewCommit(e), COMMIT(seen[e].version) # Committed
  PROVE  ViewInv'
<1>1. /\ seen' = [seen EXCEPT ![e] = NoView]
      /\ UNCHANGED <<head, history, view, follow, creations, edits, corrupt, crossed>>
  BY DEF ViewCommit
<1>2. NoView \in State
  BY DEF NoView, Versioned, State
<1>3. ViewTypes' /\ \A f \in Editor : seen'[f] = seen[f] \/ seen'[f] = NoView
  BY <1>1, <1>2 DEF ViewInv, ViewTypes
<1>4. SeenKept => SeenKept'
  BY <1>1, <1>3 DEF SeenKept
<1>5. QED
  BY <1>1, <1>3, <1>4 DEF ViewInv, EditsBegin, HistoryKept, SubscriberKept, Follows

\* What was read stays read when the view is removed.
LEMMA ViewRemoveKeeps == ASSUME ViewInv, ViewRemove PROVE ViewInv'
<1>1. /\ head' = NoView /\ history' = <<>>
      /\ UNCHANGED <<seen, view, follow, creations, edits, corrupt, crossed>>
  BY DEF ViewRemove
<1>2. NoView \in State
  BY DEF NoView, Versioned, State
<1>3. <<>> \in Seq(HistoryEntry)
  OBVIOUS
<1>4. ViewTypes'
  BY <1>1, <1>2, <1>3 DEF ViewInv, ViewTypes
<1>5. HistoryKept'
  BY <1>1 DEF HistoryKept
<1>6. QED
  BY <1>1, <1>4, <1>5 DEF ViewInv, EditsBegin, SeenKept, SubscriberKept, Follows

-----------------------------------------------------------------------------
(* The subscriber.                                                         *)

\* What a step of the subscriber has to show.
LEMMA SubscriberStep ==
  ASSUME ViewInv, UNCHANGED <<head, history, seen, creations, edits>>,
         ViewTypes', ~ crossed' => ~ crossed /\ SubscriberKept'
  PROVE  ViewInv'
BY DEF ViewInv, EditsBegin, HistoryKept, SeenKept

\* A cursor that starts after a version has read nothing.
LEMMA FollowingStarts ==
  ASSUME NEW v \in Nat, creations \in Nat
  PROVE  /\ Following(v) \in [on : BOOLEAN, version : Nat, after : Nat,
                              pending : Seq(HistoryEntry), of : Nat]
         /\ Following(v).version = v /\ Following(v).after = v
         /\ Following(v).pending = <<>> /\ Following(v).of = creations
BY DEF Following

\* A subscription starts with the head.
LEMMA ViewSubscribeKeeps == ASSUME ViewInv, ViewSubscribe PROVE ViewInv'
<1>1. /\ head # NoView /\ view' = head /\ follow' = Following(head.version)
      /\ UNCHANGED <<head, history, seen, creations, edits, corrupt, crossed>>
  BY DEF ViewSubscribe
<1>2. head \in State /\ head.version \in Nat /\ creations \in Nat /\ edits \in Seq(Edit)
  BY DEF ViewInv, ViewTypes, State
<1>3. ViewTypes'
  BY <1>1, <1>2, FollowingStarts DEF ViewInv, ViewTypes
<1>4. ASSUME ~ crossed' PROVE ~ crossed /\ SubscriberKept'
  <2>1. HistoryKept /\ SubscriberKept /\ ~ crossed
    BY <1>1, <1>4 DEF ViewInv
  <2>2. head.body = edits /\ head.version = Len(edits)
    BY <1>1, <1>2, <2>1, VersionedIsState DEF HistoryKept
  <2>3. Begins(edits, edits) /\ Chained(<<>>, edits)
    BY <1>2 DEF Begins, Chained
  <2>4. Follows(edits)'
    BY <1>1, <1>2, <2>2, <2>3, FollowingStarts DEF Follows
  <2>5. QED
    BY <1>1, <1>2, <2>1, <2>3, <2>4, FollowingStarts DEF SubscriberKept
<1>5. QED
  BY <1>1, <1>3, <1>4, SubscriberStep

\* A subscription goes on from its version, or from nothing.
LEMMA ViewResumeKeeps == ASSUME ViewInv, NEW v \in Nat, ViewResume(v) PROVE ViewInv'
<1>1. /\ v \in {0, follow.version} /\ follow' = [Following(v) EXCEPT !.of = follow.of]
      /\ view' = IF v = 0 THEN NoView ELSE view
      /\ UNCHANGED <<head, history, seen, creations, edits, corrupt, crossed>>
  BY DEF ViewResume
<1>2. view \in State /\ creations \in Nat /\ follow.of \in Nat /\ NoView \in State
      /\ NoView.version = 0 /\ NoView.body = <<>>
  BY DEF ViewInv, ViewTypes, NoView, Versioned, State
<1>3. /\ follow' \in [on : BOOLEAN, version : Nat, after : Nat,
                      pending : Seq(HistoryEntry), of : Nat]
      /\ follow'.version = v /\ follow'.after = v
      /\ follow'.pending = <<>> /\ follow'.of = follow.of
  BY <1>1, <1>2, FollowingStarts DEF Following
<1>4. ViewTypes'
  BY <1>1, <1>2, <1>3 DEF ViewInv, ViewTypes
<1>5. ASSUME ~ crossed' PROVE ~ crossed /\ SubscriberKept'
  <2>1. ~ crossed /\ SubscriberKept
    BY <1>1, <1>5 DEF ViewInv
  <2>2. PICK made \in Seq(Edit) : Follows(made) /\ (follow.of = creations => Begins(made, edits))
    BY <2>1 DEF SubscriberKept
  <2>3. Begins(<<>>, made) /\ Chained(<<>>, made)
    BY DEF Begins, Chained
  <2>4. Follows(made)'
    BY <1>1, <1>2, <1>3, <2>2, <2>3 DEF Follows
  <2>5. QED
    BY <1>1, <1>3, <2>1, <2>2, <2>4 DEF SubscriberKept
<1>6. QED
  BY <1>1, <1>4, <1>5, SubscriberStep

\* A part of a log is as sound as the log.
LEMMA PartOfLog ==
  ASSUME NEW log \in Seq(HistoryEntry), NEW i \in 1 .. Len(log), NEW j \in i .. Len(log)
  PROVE  /\ SubSeq(log, i, j) \in Seq(HistoryEntry)
         /\ Len(SubSeq(log, i, j)) = j - i + 1
         /\ \A m \in 1 .. j - i + 1 : SubSeq(log, i, j)[m] = log[i + m - 1]
         /\ SubSeq(log, i, j) # <<>>
OBVIOUS

\* A read returns entries that follow the cursor, or start with a base.
LEMMA ViewReadKeeps == ASSUME ViewInv, ViewRead PROVE ViewInv'
<1>1. /\ follow.pending = <<>> /\ crossed' = (crossed \/ follow.of # creations)
      /\ UNCHANGED <<head, history, seen, view, creations, edits, corrupt>>
  BY DEF ViewRead
<1>2. /\ history \in Seq(HistoryEntry) /\ Len(history) \in Nat /\ edits \in Seq(Edit)
      /\ follow \in [on : BOOLEAN, version : Nat, after : Nat,
                     pending : Seq(HistoryEntry), of : Nat]
      /\ view \in State /\ view.body \in Seq(Edit)
  BY DEF ViewInv, ViewTypes, State
<1>3. PICK first \in 1 .. Len(history), last \in 1 .. Len(history) :
        /\ last \in first .. Len(history)
        /\ history[first].id > follow.after
        /\ \A i \in 1 .. first - 1 : history[i].id <= follow.after
        /\ follow' = [follow EXCEPT !.pending = SubSeq(history, first, last),
                                    !.after = history[last].id]
  <2>1. ReadBatch \in Nat \ {0}
    BY LiveViewAssumption DEF LiveViewAssumption
  <2> DEFINE end(f) == IF f + ReadBatch - 1 < Len(history) THEN f + ReadBatch - 1
                       ELSE Len(history)
  <2>2. \A f \in 1 .. Len(history) : end(f) \in f .. Len(history)
    BY <1>2, <2>1
  <2>3. PICK f \in 1 .. Len(history) :
          /\ history[f].id > follow.after
          /\ \A i \in 1 .. f - 1 : history[i].id <= follow.after
          /\ follow' = [follow EXCEPT !.pending = SubSeq(history, f, end(f)),
                                      !.after = history[end(f)].id]
    BY DEF ViewRead
  <2> HIDE DEF end
  <2>4. end(f) \in f .. Len(history) /\ end(f) \in 1 .. Len(history)
    BY <1>2, <2>2
  <2>5. QED
    BY <2>3, <2>4
<1> DEFINE batch == SubSeq(history, first, last)
<1>4. /\ batch \in Seq(HistoryEntry) /\ Len(batch) = last - first + 1 /\ batch # <<>>
      /\ \A m \in 1 .. last - first + 1 : batch[m] = history[first + m - 1]
      /\ batch[1] = history[first] /\ batch[Len(batch)] = history[last]
  <2>1. /\ batch \in Seq(HistoryEntry) /\ Len(batch) = last - first + 1 /\ batch # <<>>
        /\ \A m \in 1 .. last - first + 1 : batch[m] = history[first + m - 1]
    BY <1>2, <1>3, PartOfLog
  <2>2. /\ 1 \in 1 .. last - first + 1 /\ last - first + 1 \in 1 .. last - first + 1
        /\ first + 1 - 1 = first /\ first + (last - first + 1) - 1 = last
    BY <1>2, <1>3
  <2> HIDE DEF batch
  <2>3. batch[1] = history[first + 1 - 1]
        /\ batch[last - first + 1] = history[first + (last - first + 1) - 1]
    BY <2>1, <2>2
  <2>4. QED
    BY <2>1, <2>2, <2>3
<1>5. \A i \in 1 .. Len(history) : history[i] \in HistoryEntry /\ history[i].id \in Nat
  <2>1. \A i \in 1 .. Len(history) : history[i] \in HistoryEntry
    BY <1>2
  <2>2. QED
    BY <2>1 DEF HistoryEntry
<1>6. history[last].id \in Nat
  BY <1>2, <1>5
<1> HIDE DEF batch
<1>7. /\ follow' = [follow EXCEPT !.pending = batch, !.after = history[last].id]
      /\ follow'.pending = batch /\ follow'.after = history[last].id
      /\ follow'.version = follow.version /\ follow'.of = follow.of
      /\ follow' \in [on : BOOLEAN, version : Nat, after : Nat,
                      pending : Seq(HistoryEntry), of : Nat]
  BY <1>2, <1>3, <1>4, <1>6 DEF batch
<1>8. ViewTypes'
  <2>1. crossed' \in BOOLEAN
    BY <1>1
  <2>2. QED
    BY <1>1, <1>7, <2>1 DEF ViewInv, ViewTypes
<1>9. ASSUME ~ crossed' PROVE ~ crossed /\ SubscriberKept'
  <2>1. ~ crossed /\ follow.of = creations
    BY <1>1, <1>9 DEF ViewInv, ViewTypes
  <2>2. HistoryKept /\ SubscriberKept
    BY <2>1 DEF ViewInv
  <2>3. Chained(history, edits) /\ history[1].base # <<>>
    BY <1>2, <2>2 DEF HistoryKept
  <2>4. PICK made \in Seq(Edit) : Follows(made) /\ Begins(made, edits)
    BY <2>1, <2>2 DEF SubscriberKept
  <2>5. Begins(view.body, edits) /\ follow.after = follow.version
        /\ view.version = Len(view.body) /\ follow.version = view.version
    BY <1>1, <1>2, <2>4, BeginsTransitive DEF Follows
  <2>6. Chained(batch, edits)
    <3>1. \A m \in 1 .. Len(batch) : Sound(batch[m], edits)
      BY <1>2, <1>4, <2>3 DEF Chained
    <3>2. \A m \in 1 .. Len(batch) - 1 : batch[m + 1].id = batch[m].id + 1
      <4>1. SUFFICES ASSUME NEW m \in 1 .. Len(batch) - 1 PROVE batch[m + 1].id = batch[m].id + 1
        OBVIOUS
      <4>2. /\ first + m - 1 \in 1 .. Len(history) - 1
            /\ m \in 1 .. last - first + 1 /\ m + 1 \in 1 .. last - first + 1
        BY <1>2, <1>4
      <4>3. batch[m] = history[first + m - 1] /\ batch[m + 1] = history[first + m - 1 + 1]
        BY <1>4, <4>2
      <4>4. QED
        BY <2>3, <4>2, <4>3 DEF Chained
    <3>3. QED
      BY <3>1, <3>2 DEF Chained
  <2>7. batch[1].id = follow.version + 1 \/ batch[1].base # <<>>
    <3>1. CASE first = 1
      BY <1>4, <2>3, <3>1
    <3>2. CASE first # 1
      <4>1. first - 1 \in 1 .. Len(history) - 1 /\ first - 1 \in 1 .. first - 1
        BY <1>2, <3>2
      <4>2. history[first - 1 + 1].id = history[first - 1].id + 1
        BY <2>3, <4>1 DEF Chained
      <4>3. history[first].id = history[first - 1].id + 1 /\ history[first - 1].id <= follow.after
        BY <1>3, <4>1, <4>2
      <4>4. /\ history[first - 1].id \in Nat /\ follow.after \in Nat
            /\ history[first].id > follow.after /\ batch[1].id = history[first].id
        <5>1. first - 1 \in 1 .. Len(history)
          BY <1>2, <4>1
        <5>2. history[first - 1].id \in Nat /\ follow.after \in Nat
          BY <1>2, <1>5, <5>1
        <5>3. QED
          BY <1>3, <1>4, <5>2
      <4>5. batch[1].id = follow.after + 1
        BY <4>3, <4>4
      <4>6. QED
        BY <2>5, <4>5
    <3>3. QED
      BY <3>1, <3>2
  <2>8. Follows(edits)'
    BY <1>1, <1>4, <1>7, <2>5, <2>6, <2>7 DEF Follows
  <2>9. Begins(edits, edits)
    BY <1>2 DEF Begins
  <2>10. QED
    BY <1>1, <1>2, <1>7, <2>1, <2>2, <2>8, <2>9 DEF SubscriberKept
<1>10. QED
  BY <1>1, <1>8, <1>9, SubscriberStep

\* A log without length is empty.
LEMMA EmptyLog ==
  ASSUME NEW log \in Seq(HistoryEntry)
  PROVE  (log = <<>>) <=> (Len(log) = 0)
OBVIOUS

\* What is left of a log after its first entry.
LEMMA RestOfLog ==
  ASSUME NEW log \in Seq(HistoryEntry), log # <<>>
  PROVE  /\ Len(log) = 1 => Tail(log) = <<>> /\ log[Len(log)] = log[1]
         /\ Len(log) # 1 => /\ Tail(log) # <<>>
                            /\ Tail(log)[1] = log[2] /\ 1 \in 1 .. Len(log) - 1
                            /\ Tail(log)[Len(Tail(log))] = log[Len(log)]
<1>1. /\ Len(log) \in Nat \ {0} /\ Tail(log) \in Seq(HistoryEntry)
      /\ Len(Tail(log)) = Len(log) - 1
      /\ \A i \in 1 .. Len(log) - 1 : Tail(log)[i] = log[i + 1]
  OBVIOUS
<1>2. CASE Len(log) = 1
  <2>1. Len(Tail(log)) = 0
    BY <1>1, <1>2
  <2>2. Tail(log) = <<>>
    BY <1>1, <2>1, EmptyLog, Zenon
  <2>3. QED
    BY <1>2, <2>2
<1>3. CASE Len(log) # 1
  <2>1. Len(log) - 1 \in 1 .. Len(log) - 1 /\ 1 \in 1 .. Len(log) - 1
    BY <1>1, <1>3
  <2>2. Tail(log) # <<>>
    <3>1. Len(Tail(log)) # 0
      BY <1>1, <1>3
    <3>2. QED
      BY <1>1, <3>1, EmptyLog, Zenon
  <2>3. Tail(log)[1] = log[1 + 1] /\ Tail(log)[Len(log) - 1] = log[Len(log) - 1 + 1]
    BY <1>1, <2>1
  <2>4. QED
    BY <1>1, <1>3, <2>1, <2>2, <2>3
<1>4. QED
  BY <1>2, <1>3

\* A pending entry is received: its diff is applied, or its base is taken.
LEMMA ViewRecvKeeps == ASSUME ViewInv, ViewRecv PROVE ViewInv'
<1> DEFINE pending == follow.pending
           entry == Head(pending)
           event == Parsed(entry, follow.version)
<1>1. /\ pending # <<>> /\ UNCHANGED <<head, history, seen, creations, edits, crossed>>
      /\ event = "corrupted" =>
           corrupt' = TRUE /\ view' = view /\ follow' = [follow EXCEPT !.pending = Tail(@)]
      /\ event # "corrupted" =>
           /\ corrupt' = corrupt /\ view' = Update(view, entry, event)
           /\ follow' = [follow EXCEPT !.pending = Tail(@), !.version = entry.id]
  BY DEF ViewRecv
<1>2. /\ pending \in Seq(HistoryEntry) /\ edits \in Seq(Edit) /\ view \in State
      /\ follow \in [on : BOOLEAN, version : Nat, after : Nat,
                     pending : Seq(HistoryEntry), of : Nat]
  BY DEF ViewInv, ViewTypes
<1>3. /\ Len(pending) \in Nat /\ Len(pending) > 0 /\ entry = pending[1] /\ entry \in HistoryEntry
      /\ Tail(pending) \in Seq(HistoryEntry) /\ Len(Tail(pending)) = Len(pending) - 1
      /\ \A i \in 1 .. Len(pending) - 1 : Tail(pending)[i] = pending[i + 1]
  BY <1>1, <1>2
<1>4. /\ entry.id \in Nat /\ entry.base \in Seq(Edit) /\ entry.diff \in Editor \cup {NoDiff}
      /\ view.body \in Seq(Edit) /\ view.version \in Nat
  BY <1>2, <1>3 DEF HistoryEntry, State
<1> HIDE DEF entry
<1>5. /\ event = "diff" => entry.diff \in Edit /\ entry.diff # NoDiff
                           /\ entry.id = follow.version + 1
      /\ event = "snapshot" => entry.base # <<>>
      /\ event = "corrupted" =>
           entry.base = <<>> /\ (entry.id # follow.version + 1 \/ entry.diff = NoDiff)
      /\ event \in {"diff", "snapshot", "corrupted"}
  BY <1>4 DEF Parsed, Edit
<1> HIDE DEF event
<1>6. /\ event = "diff" => Update(view, entry, event) = Versioned(entry.id, Append(view.body, entry.diff))
      /\ event = "snapshot" => Update(view, entry, event) = Versioned(entry.id, entry.base)
  BY DEF Update, Apply
<1>7. ViewTypes'
  <2>1. /\ event = "diff" => Update(view, entry, event) \in State
        /\ event = "snapshot" => Update(view, entry, event) \in State
    <3>1. CASE event = "diff"
      <4>1. Append(view.body, entry.diff) \in Seq(Edit)
        BY <1>4, <1>5, <3>1, OneMoreEdit
      <4>2. Versioned(entry.id, Append(view.body, entry.diff)) \in State
        BY <1>4, <4>1, VersionedIsState
      <4>3. QED
        BY <1>6, <3>1, <4>2
    <3>2. CASE event = "snapshot"
      BY <1>4, <1>6, <3>2, VersionedIsState
    <3>3. QED
      BY <3>1, <3>2
  <2>2. view' \in State /\ corrupt' \in BOOLEAN
    BY <1>1, <1>5, <2>1 DEF ViewInv, ViewTypes
  <2>3. follow' \in [on : BOOLEAN, version : Nat, after : Nat,
                     pending : Seq(HistoryEntry), of : Nat]
    BY <1>1, <1>2, <1>3, <1>4
  <2>4. QED
    BY <1>1, <2>2, <2>3 DEF ViewInv, ViewTypes
<1>8. ASSUME ~ crossed' PROVE ~ crossed /\ SubscriberKept'
  <2>1. ~ crossed /\ SubscriberKept
    BY <1>1, <1>8 DEF ViewInv
  <2>2. PICK made \in Seq(Edit) : Follows(made) /\ (follow.of = creations => Begins(made, edits))
    BY <2>1 DEF SubscriberKept
  <2>3. /\ Begins(view.body, made) /\ view.version = Len(view.body)
        /\ follow.version = view.version /\ Chained(pending, made)
        /\ follow.after = pending[Len(pending)].id
        /\ entry.id = follow.version + 1 \/ entry.base # <<>>
    BY <1>1, <1>3, <2>2 DEF Follows
  <2>4. Sound(entry, made)
    BY <1>3, <2>3 DEF Chained
  <2>5. event \in {"diff", "snapshot"}
    BY <1>5, <2>3, <2>4 DEF Sound
  <2>6. /\ view'.version = entry.id /\ Len(view'.body) = entry.id /\ Begins(view'.body, made)
    <3>1. CASE event = "diff"
      <4>1. view' = Versioned(entry.id, Append(view.body, entry.diff))
        BY <1>1, <1>6, <3>1
      <4>2. /\ Append(view.body, entry.diff) \in Seq(Edit)
            /\ Len(Append(view.body, entry.diff)) = entry.id
            /\ Append(view.body, entry.diff)[entry.id] = entry.diff
            /\ \A i \in 1 .. entry.id - 1 : Append(view.body, entry.diff)[i] = view.body[i]
        BY <1>4, <1>5, <2>3, <3>1, OneMoreEdit
      <4>3. entry.diff = made[entry.id] /\ entry.id <= Len(made)
        BY <1>5, <2>4, <3>1 DEF Sound
      <4>4. Begins(Append(view.body, entry.diff), made)
        BY <1>4, <1>5, <2>3, <3>1, <4>2, <4>3 DEF Begins
      <4>5. QED
        BY <1>4, <4>1, <4>2, <4>4, VersionedIsState
    <3>2. CASE event = "snapshot"
      <4>1. view' = Versioned(entry.id, entry.base)
        BY <1>1, <1>6, <3>2
      <4>2. QED
        BY <1>4, <1>5, <2>4, <3>2, <4>1, VersionedIsState DEF Sound
    <3>3. QED
      BY <2>5, <3>1, <3>2
  <2>7. /\ follow'.pending = Tail(pending) /\ follow'.version = entry.id
        /\ follow'.after = follow.after /\ follow'.of = follow.of /\ corrupt' = corrupt
    BY <1>1, <1>2, <2>5
  <2>8. Chained(Tail(pending), made)
    <3>1. \A i \in 1 .. Len(Tail(pending)) : Sound(Tail(pending)[i], made)
      BY <1>3, <2>3 DEF Chained
    <3>2. \A i \in 1 .. Len(Tail(pending)) - 1 : Tail(pending)[i + 1].id = Tail(pending)[i].id + 1
      BY <1>3, <2>3 DEF Chained
    <3>3. QED
      BY <3>1, <3>2 DEF Chained
  <2>9. /\ Len(pending) = 1 => Tail(pending) = <<>> /\ follow.after = entry.id
        /\ Len(pending) # 1 => /\ Tail(pending) # <<>>
                               /\ Tail(pending)[Len(Tail(pending))].id = follow.after
                               /\ Tail(pending)[1] = pending[2]
                               /\ 1 \in 1 .. Len(pending) - 1
    BY <1>1, <1>2, <1>3, <2>3, RestOfLog
  <2>10. CASE Len(pending) = 1
    <3>1. Follows(made)'
      BY <2>6, <2>7, <2>8, <2>9, <2>10 DEF Follows
    <3>2. QED
      BY <1>1, <2>1, <2>2, <2>7, <3>1 DEF SubscriberKept
  <2>11. CASE Len(pending) # 1
    <3>1. pending[1 + 1].id = pending[1].id + 1
      BY <2>3, <2>9, <2>11 DEF Chained
    <3>2. Tail(pending)[1].id = entry.id + 1
      BY <1>3, <2>9, <2>11, <3>1
    <3>3. Follows(made)'
      BY <2>3, <2>6, <2>7, <2>8, <2>9, <2>11, <3>2 DEF Follows
    <3>4. QED
      BY <1>1, <2>1, <2>2, <2>7, <3>3 DEF SubscriberKept
  <2>12. QED
    BY <2>10, <2>11
<1>9. QED
  BY <1>1, <1>7, <1>8, SubscriberStep

-----------------------------------------------------------------------------

\* Every query of an editor or a subscriber keeps the invariant.
LEMMA StepViewInv == ViewInv /\ [ViewNext]_viewVars => ViewInv'
<1> SUFFICES ASSUME ViewInv, [ViewNext]_viewVars PROVE ViewInv'
  OBVIOUS
<1>1. CASE UNCHANGED viewVars
  BY <1>1 DEF viewVars, ViewInv, ViewTypes, EditsBegin, HistoryKept, SeenKept,
              SubscriberKept, Follows
<1>2. ASSUME NEW e \in Editor, ViewCommit(e) PROVE ViewInv'
  BY <1>2, CommittedKeeps, RefusedKeeps
<1>3. ASSUME NEW v \in 0 .. MaxVersion, ViewResume(v) PROVE ViewInv'
  <2>1. v \in Nat
    BY LiveViewAssumption DEF LiveViewAssumption
  <2>2. QED
    BY <1>3, <2>1, ViewResumeKeeps
<1>4. QED
  BY <1>1, <1>2, <1>3, ViewCreateKeeps, ViewRemoveKeeps, ViewGetKeeps, ViewSubscribeKeeps,
     ViewReadKeeps, ViewRecvKeeps DEF ViewNext

\* The invariant holds of every behaviour.
LEMMA ViewInvariant == ViewSpec => []ViewInv
BY InitViewInv, StepViewInv, PTL DEF ViewSpec

\* Of editors that read the same version only one commits, so the body of the head
\* is all reported diffs in order, for any number of editors and commits.
THEOREM ViewLosesNoUpdate == ViewSpec => []NoLostUpdate
<1>1. ViewInv => NoLostUpdate
  BY DEF ViewInv, HistoryKept, NoLostUpdate
<1>2. QED
  BY <1>1, ViewInvariant, PTL

\* A subscriber has the body of its version, whatever was squashed while it was
\* behind, however many entries it reads at once and from wherever it resumes.
THEOREM SubscriberIsRight == ViewSpec => []SubscriberHasBody
<1>1. ASSUME ViewInv, ~ crossed
      PROVE  /\ ~ corrupt /\ view.version = follow.version /\ view.version = Len(view.body)
             /\ follow.of = creations => IsPrefix(view.body, edits)
  <2>1. SubscriberKept /\ edits \in Seq(Edit) /\ view.body \in Seq(Edit)
    BY <1>1 DEF ViewInv, ViewTypes, State
  <2>2. PICK made \in Seq(Edit) : Follows(made) /\ (follow.of = creations => Begins(made, edits))
    BY <2>1 DEF SubscriberKept
  <2>3. follow.of = creations => Begins(view.body, edits)
    BY <2>1, <2>2, BeginsTransitive DEF Follows
  <2>4. QED
    BY <2>1, <2>2, <2>3, BeginsIsPrefix DEF SubscriberKept, Follows
<1>2. ViewInv => SubscriberHasBody
  BY <1>1 DEF SubscriberHasBody
<1>3. QED
  BY <1>2, ViewInvariant, PTL

-----------------------------------------------------------------------------
\* The history is one entry, and diffs after it.
HistoryShape ==
  /\ history \in Seq(HistoryEntry) /\ Len(history) <= MaxDiffs + 1
  /\ \A i \in 2 .. Len(history) : history[i].diff # NoDiff

\* A body after its diffs, where body and diffs are of the same edits.
LEMMA AppliedIs ==
  ASSUME NEW made \in Seq(Edit), NEW body \in Seq(Edit), Begins(body, made),
         NEW diffs \in Seq(Edit), Len(body) + Len(diffs) = Len(made),
         \A i \in 1 .. Len(diffs) : diffs[i] = made[Len(body) + i]
  PROVE  Applied(body, diffs) = made
<1> DEFINE b == Len(body)
           Step(f, n) == IF n = 0 THEN body ELSE Apply(f[n - 1], diffs[n])
           Upto(f) == f = [n \in 0 .. Len(diffs) |-> Step(f, n)]
           all == [n \in 0 .. Len(diffs) |-> SubSeq(made, 1, b + n)]
           upTo == CHOOSE f : Upto(f)
<1>1. Len(diffs) \in Nat /\ b \in Nat /\ Len(made) \in Nat /\ Len(made) = b + Len(diffs)
  OBVIOUS
<1>2. SubSeq(made, 1, b) = body
  <2>2. /\ SubSeq(made, 1, b) \in Seq(Edit) /\ Len(SubSeq(made, 1, b)) = b
        /\ \A i \in 1 .. b : SubSeq(made, 1, b)[i] = made[i]
    BY <1>1
  <2>3. \A i \in 1 .. b : SubSeq(made, 1, b)[i] = body[i]
    BY <2>2 DEF Begins
  <2>4. QED
    BY <2>2, <2>3, BeginsWhole DEF Begins
<1> HIDE DEF b
<1>3. all[0] = body
  <2>1. all[0] = SubSeq(made, 1, b + 0) /\ b + 0 = b
    BY <1>1
  <2>2. QED
    BY <1>2, <2>1
<1>4. ASSUME NEW n \in 0 .. Len(diffs), n # 0, NEW f, f[n - 1] = all[n - 1]
      PROVE  Step(f, n) = all[n]
  <2>1. n - 1 \in 0 .. Len(diffs) /\ n \in 1 .. Len(diffs) /\ b + n \in 1 .. Len(made)
        /\ b + n - 1 = b + (n - 1)
    <3>1. n \in 1 .. Len(diffs)
      BY <1>1, <1>4
    <3>2. QED
      BY <1>1, <3>1
  <2>2. f[n - 1] = SubSeq(made, 1, b + (n - 1))
    BY <1>4, <2>1
  <2> DEFINE k == b + n
  <2>3. SubSeq(made, 1, k) = Append(SubSeq(made, 1, k - 1), made[k]) /\ k - 1 = b + (n - 1)
    <3>0. b \in Nat /\ n \in Nat
      BY <1>1
    <3>1. k \in 1 .. Len(made) /\ k - 1 = b + (n - 1)
      BY <2>1, <3>0
    <3> HIDE DEF k
    <3>2. QED
      BY <3>1, Slices
  <2>4. diffs[n] = made[b + n]
    BY <2>1 DEF b
  <2>5. all[n] = SubSeq(made, 1, k)
    OBVIOUS
  <2>7. diffs[n] = made[k]
    BY <2>4
  <2> HIDE DEF all, k
  <2>6. QED
    BY <1>4, <2>1, <2>2, <2>3, <2>5, <2>7 DEF Apply
<1>5. Upto(all)
  <2>1. ASSUME NEW n \in 0 .. Len(diffs) PROVE all[n] = Step(all, n)
    <3> HIDE DEF all
    <3>1. CASE n = 0
      BY <1>3, <3>1
    <3>2. CASE n # 0
      <4> HIDE DEF Step
      <4>1. QED
        BY <1>4, <3>2
    <3>3. QED
      BY <3>1, <3>2
  <2> HIDE DEF Step
  <2>2. QED
    BY <2>1
<1>6. Upto(upTo)
  BY <1>5
<1>7. Applied(body, diffs) = upTo[Len(diffs)]
  BY DEF Applied
<1> HIDE DEF upTo, all
<1>8. \A n \in 0 .. Len(diffs) : upTo[n] = Step(upTo, n)
  <2> HIDE DEF Step
  <2>1. QED
    BY <1>6
<1> DEFINE bad == {n \in 0 .. Len(diffs) : upTo[n] # all[n]}
<1>9. bad = {}
  <2> SUFFICES ASSUME bad # {} PROVE FALSE
    OBVIOUS
  <2>1. bad \subseteq Nat
    BY <1>1
  <2>2. PICK n \in bad : \A m \in bad : n <= m
    <3> HIDE DEF bad
    <3>1. QED
      BY <2>1, LeastNumber
  <2>3. n \in 0 .. Len(diffs) /\ upTo[n] # all[n]
    OBVIOUS
  <2>4. n # 0
    BY <1>3, <1>8, <2>3
  <2>5. n - 1 \in 0 .. Len(diffs) /\ n - 1 \notin bad
    <3>1. n \in Nat /\ n - 1 \in 0 .. Len(diffs) /\ ~ (n <= n - 1)
      BY <1>1, <2>3, <2>4
    <3>2. n - 1 \notin bad
      <4> HIDE DEF bad
      <4>1. QED
        BY <2>2, <3>1
    <3>3. QED
      BY <3>1, <3>2
  <2>6. upTo[n - 1] = all[n - 1]
    BY <2>5
  <2> HIDE DEF Step, bad
  <2>7. QED
    BY <1>4, <1>8, <2>3, <2>4, <2>6
<1>10. upTo[Len(diffs)] = all[Len(diffs)]
  BY <1>1, <1>9
<1>11. all[Len(diffs)] = SubSeq(made, 1, Len(made))
  BY <1>1 DEF all
<1>12. SubSeq(made, 1, Len(made)) = made
  OBVIOUS
<1>13. QED
  BY <1>7, <1>10, <1>11, <1>12

LEMMA HistoryShaped == ViewSpec => []HistoryShape
<1>1. MaxDiffs \in Nat /\ NoDiff \notin Editor
  BY LiveViewAssumption DEF LiveViewAssumption
<1>2. ViewInit => HistoryShape
  BY <1>1 DEF ViewInit, HistoryShape
<1>3. ViewInv' /\ HistoryShape /\ [ViewNext]_viewVars => HistoryShape'
  <2> SUFFICES ASSUME ViewInv', HistoryShape, [ViewNext]_viewVars PROVE HistoryShape'
    OBVIOUS
  <2>1. history' \in Seq(HistoryEntry)
    BY DEF ViewInv, ViewTypes
  <2>2. \A x : Len(<<x>>) = 1
    OBVIOUS
  <2>3. CASE history' = history
    BY <2>3 DEF HistoryShape
  <2>4. CASE ViewCreate
    <3>1. Len(history') = 1
      BY <2>2, <2>4 DEF ViewCreate, CREATE
    <3>2. QED
      BY <1>1, <2>1, <3>1 DEF HistoryShape
  <2>5. CASE ViewRemove
    <3>1. Len(history') = 0
      BY <2>5 DEF ViewRemove
    <3>2. QED
      BY <1>1, <2>1, <3>1 DEF HistoryShape
  <2>6. ASSUME NEW e \in Editor, ViewCommit(e) PROVE HistoryShape'
    <3>1. \/ history' = history
          \/ \E b : history' = NextHistory(e, b)
      BY <2>6 DEF ViewCommit
    <3>2. ASSUME NEW b, history' = NextHistory(e, b) PROVE HistoryShape'
      <4>1. CASE Len(history) > MaxDiffs
        <5>1. Len(history') = 1
          BY <2>2, <3>2, <4>1 DEF NextHistory
        <5>2. QED
          BY <1>1, <2>1, <5>1 DEF HistoryShape
      <4>2. CASE ~ (Len(history) > MaxDiffs)
        <5> DEFINE entry == Entry(head.version + 1, <<>>, e)
        <5>1. history' = Append(history, entry) /\ history \in Seq(HistoryEntry)
          BY <3>2, <4>2 DEF NextHistory, HistoryShape
        <5>2. entry.diff # NoDiff
          BY <1>1 DEF Entry
        <5> HIDE DEF entry
        <5>3. /\ Len(history') = Len(history) + 1 /\ history'[Len(history) + 1] = entry
              /\ \A i \in 1 .. Len(history) : history'[i] = history[i]
              /\ Len(history) \in Nat
          BY <5>1
        <5>4. ASSUME NEW i \in 2 .. Len(history') PROVE history'[i].diff # NoDiff
          <6>1. CASE i = Len(history) + 1
            BY <5>2, <5>3, <6>1
          <6>2. CASE i # Len(history) + 1
            <7>1. i \in 2 .. Len(history) /\ i \in 1 .. Len(history)
              BY <5>3, <6>2
            <7>2. QED
              BY <5>3, <7>1 DEF HistoryShape
          <6>3. QED
            BY <6>1, <6>2
        <5>5. QED
          BY <1>1, <2>1, <4>2, <5>3, <5>4 DEF HistoryShape
      <4>3. QED
        BY <4>1, <4>2
    <3>3. QED
      BY <2>3, <3>1, <3>2
  <2>7. QED
    BY <2>3, <2>4, <2>5, <2>6
       DEF ViewNext, viewVars, ViewGet, ViewSubscribe, ViewResume, ViewRead, ViewRecv
<1>4. QED
  BY <1>2, <1>3, ViewInvariant, PTL DEF ViewSpec

\* From its base on, the history has every diff up to the head.
LEMMA ReplayIsHead ==
  ASSUME ViewInv, HistoryShape, ~ crossed, head # NoView
  PROVE  Replay = head
<1>1. /\ history \in Seq(HistoryEntry) /\ edits \in Seq(Edit)
      /\ head = Versioned(Len(edits), edits)
      /\ history # <<>> /\ history[1].base # <<>>
      /\ Chained(history, edits) /\ history[Len(history)].id = Len(edits)
  BY DEF ViewInv, ViewTypes, HistoryKept
<1>2. /\ Len(history) \in Nat \ {0} /\ Len(edits) \in Nat
      /\ \A i \in 1 .. Len(history) : history[i] \in HistoryEntry
  BY <1>1
<1> DEFINE first == history[1].id
           n == Len(history) - 1
           base == history[1].base
<1>3. /\ first \in Nat /\ base \in Seq(Edit) /\ n \in Nat
      /\ Len(base) = first /\ Begins(base, edits)
  <2>1. 1 \in 1 .. Len(history)
    BY <1>2
  <2>2. history[1] \in HistoryEntry /\ Sound(history[1], edits)
    BY <1>1, <1>2, <2>1 DEF Chained
  <2>3. QED
    BY <1>1, <1>2, <2>2 DEF Sound, HistoryEntry
<1>4. ASSUME NEW i \in 0 .. n PROVE history[i + 1].id = first + i
  <2> DEFINE bad == {k \in 0 .. n : history[k + 1].id # first + k}
  <2>1. bad = {}
    <3> SUFFICES ASSUME bad # {} PROVE FALSE
      OBVIOUS
    <3>1. bad \subseteq Nat
      OBVIOUS
    <3>2. PICK k \in bad : \A m \in bad : k <= m
      <4> HIDE DEF bad
      <4>1. QED
        BY <3>1, LeastNumber
    <3>3. k \in 0 .. n /\ history[k + 1].id # first + k
      OBVIOUS
    <3>4. k # 0
      BY <1>3, <3>3
    <3>5. k - 1 \in 0 .. n /\ k - 1 \notin bad /\ k \in 1 .. Len(history) - 1 /\ k - 1 + 1 = k
      BY <1>2, <1>3, <3>1, <3>2, <3>3, <3>4
    <3>6. history[k].id = first + (k - 1)
      BY <3>5
    <3>7. history[k + 1].id = history[k].id + 1
      BY <1>1, <3>5 DEF Chained
    <3> HIDE DEF n, first
    <3>8. QED
      BY <1>3, <3>3, <3>5, <3>6, <3>7
  <2>2. QED
    BY <2>1
<1>5. first + n = Len(edits)
  <2>1. n \in 0 .. n /\ n + 1 = Len(history)
    BY <1>2
  <2>2. QED
    BY <1>1, <1>4, <2>1
<1> DEFINE diffs == [i \in 1 .. n |-> history[i + 1].diff]
<1>6. ASSUME NEW i \in 1 .. n
      PROVE  /\ i + 1 \in 2 .. Len(history) /\ i + 1 \in 1 .. Len(history)
             /\ history[i + 1].diff # NoDiff /\ history[i + 1].id = first + i
             /\ history[i + 1].diff = edits[first + i] /\ history[i + 1].diff \in Edit
  <2>1. i + 1 \in 2 .. Len(history) /\ i + 1 \in 1 .. Len(history) /\ i \in 0 .. n
    BY <1>2
  <2>2. history[i + 1].diff # NoDiff /\ history[i + 1].id = first + i
    BY <1>4, <2>1 DEF HistoryShape
  <2>3. Sound(history[i + 1], edits) /\ history[i + 1] \in HistoryEntry
    BY <1>1, <1>2, <2>1 DEF Chained
  <2>4. QED
    BY <2>1, <2>2, <2>3 DEF Sound, HistoryEntry, Edit
<1>7. diffs \in Seq(Edit) /\ Len(diffs) = n /\ \A i \in 1 .. n : diffs[i] = edits[first + i]
  <2>1. \A i \in 1 .. n : history[i + 1].diff \in Edit
    BY <1>6
  <2> HIDE DEF n
  <2>2. diffs \in [1 .. n -> Edit]
    BY <2>1
  <2>3. diffs \in Seq(Edit) /\ Len(diffs) = n
    BY <1>3, <2>2
  <2>4. QED
    BY <1>6, <2>3
<1>8. Applied(base, diffs) = edits
  <2> HIDE DEF diffs, n, first, base
  <2>1. QED
    BY <1>1, <1>3, <1>5, <1>7, AppliedIs
<1>9. \A i \in 2 .. Len(history) : Parsed(history[i], history[1].id + i - 2) = "diff"
  <2> SUFFICES ASSUME NEW i \in 2 .. Len(history)
               PROVE  Parsed(history[i], first + i - 2) = "diff"
    OBVIOUS
  <2>1. i - 1 \in 1 .. n /\ i - 1 + 1 = i
    BY <1>2
  <2>2. history[i].diff # NoDiff /\ history[i].id = first + (i - 1)
    <3>1. history[i - 1 + 1].diff # NoDiff /\ history[i - 1 + 1].id = first + (i - 1)
      BY <1>6, <2>1
    <3>2. QED
      BY <2>1, <3>1
  <2> HIDE DEF first
  <2>3. history[i].id = first + i - 2 + 1
    <3>1. i \in Int /\ first \in Int
      BY <1>2, <1>3
    <3>2. QED
      BY <2>2, <3>1
  <2>4. QED
    BY <2>2, <2>3 DEF Parsed
<1>10. Replay = Versioned(first + Len(diffs), Applied(base, diffs))
  BY <1>1, <1>9 DEF Replay
<1>11. QED
  BY <1>1, <1>5, <1>7, <1>8, <1>10

\* What commit wrote is kept: the base and the diffs of the history, applied one by
\* one, give the head, which is every committed edit; the history is bounded.
THEOREM ViewKeepsCommits == ViewSpec => []CommitsKept
<1>1. ViewInv /\ HistoryShape => CommitsKept
  BY ReplayIsHead DEF ViewInv, HistoryKept, HistoryShape, NoLostUpdate, HistoryLeadsToHead, CommitsKept
<1>2. QED
  BY <1>1, ViewInvariant, HistoryShaped, PTL

-----------------------------------------------------------------------------
(***************************************************************************)
(* The stream buffer, for any number of bodies, lives and failed reads: a  *)
(* subscriber comes to its bodies index by index, and to the end after the *)
(* last of them.                                                           *)
(***************************************************************************)

\* Among entries that are bodies but for the last, the bodies are all, or all but
\* the last.
LEMMA BodiesAre ==
  ASSUME NEW S, NEW e \in Seq(S), \A i \in 1 .. Len(e) - 1 : e[i].is = "body"
  PROVE  BodiesAmong(e) = IF e # <<>> /\ e[Len(e)].is # "body"
                          THEN SubSeq(e, 1, Len(e) - 1) ELSE SubSeq(e, 1, Len(e))
<1> DEFINE Step(f, n) == IF n = 0 THEN <<>>
                         ELSE IF e[n].is = "body" THEN Append(f[n - 1], e[n])
                         ELSE f[n - 1]
           Upto(f) == f = [n \in 0 .. Len(e) |-> Step(f, n)]
           count(n) == IF n = Len(e) /\ n # 0 /\ e[n].is # "body" THEN n - 1 ELSE n
           all == [n \in 0 .. Len(e) |-> SubSeq(e, 1, count(n))]
           upTo == CHOOSE f : Upto(f)
<1>1. Len(e) \in Nat /\ (e = <<>> <=> Len(e) = 0)
  OBVIOUS
<1>2. ASSUME NEW n \in 0 .. Len(e), n # 0, NEW f, f[n - 1] = all[n - 1]
      PROVE  Step(f, n) = all[n]
  <2>1. n - 1 \in 0 .. Len(e) /\ n \in 1 .. Len(e) /\ count(n - 1) = n - 1
    BY <1>1, <1>2
  <2>2. f[n - 1] = SubSeq(e, 1, n - 1)
    BY <1>2, <2>1
  <2>3. e[n].is = "body" => count(n) = n
    OBVIOUS
  <2>4. e[n].is # "body" => n = Len(e) /\ count(n) = n - 1
    BY <1>1, <1>2
  <2>5. all[n] = SubSeq(e, 1, count(n))
    OBVIOUS
  <2>6. SubSeq(e, 1, n) = Append(SubSeq(e, 1, n - 1), e[n])
    BY <2>1, Slices
  <2> HIDE DEF count, all
  <2>7. QED
    BY <1>2, <2>2, <2>3, <2>4, <2>5, <2>6
<1>3. all[0] = <<>>
  <2>1. count(0) = 0 /\ SubSeq(e, 1, 0) = <<>>
    BY <1>1
  <2>2. QED
    BY <1>1, <2>1
<1>4. Upto(all)
  <2>1. ASSUME NEW n \in 0 .. Len(e) PROVE all[n] = Step(all, n)
    <3> HIDE DEF all
    <3>1. CASE n = 0
      BY <1>3, <3>1
    <3>2. CASE n # 0
      <4> HIDE DEF Step
      <4>1. QED
        BY <1>2, <3>2
    <3>3. QED
      BY <3>1, <3>2
  <2> HIDE DEF Step, count
  <2>2. QED
    BY <2>1
<1>5. Upto(upTo)
  BY <1>4
<1>6. BodiesAmong(e) = upTo[Len(e)]
  BY DEF BodiesAmong
<1> HIDE DEF upTo, all
<1>7. \A n \in 0 .. Len(e) : upTo[n] = Step(upTo, n)
  <2> HIDE DEF Step
  <2>1. QED
    BY <1>5
<1> DEFINE bad == {n \in 0 .. Len(e) : upTo[n] # all[n]}
<1>8. bad = {}
  <2> SUFFICES ASSUME bad # {} PROVE FALSE
    OBVIOUS
  <2>1. bad \subseteq Nat
    BY <1>1
  <2>2. PICK n \in bad : \A m \in bad : n <= m
    <3> HIDE DEF bad
    <3>1. QED
      BY <2>1, LeastNumber
  <2>3. n \in 0 .. Len(e) /\ upTo[n] # all[n]
    OBVIOUS
  <2>4. n # 0
    BY <1>3, <1>7, <2>3
  <2>5. n - 1 \in 0 .. Len(e) /\ n - 1 \notin bad
    BY <1>1, <2>1, <2>2, <2>3, <2>4
  <2>6. upTo[n - 1] = all[n - 1]
    BY <2>5
  <2> HIDE DEF Step, bad
  <2>7. QED
    BY <1>2, <1>7, <2>3, <2>4, <2>6
<1>9. upTo[Len(e)] = all[Len(e)]
  BY <1>1, <1>8
<1>10. all[Len(e)] = SubSeq(e, 1, count(Len(e)))
  BY <1>1 DEF all
<1>11. QED
  BY <1>1, <1>6, <1>9, <1>10

-----------------------------------------------------------------------------
Entries == [is : {"body", "end"}, life : Nat, index : Nat, readable : BOOLEAN]

Readers ==
  [at : {"idle", "blocked", "checking", "ended", "gone"}, from : Nat, after : Nat,
   pending : Seq(Entries), wait : 0 .. Millis(BufferTtl)]

StreamTypes ==
  /\ buffer \in Seq(Entries) /\ got \in Seq(Entries) /\ life \in Nat
  /\ bufferTtl \in 0 .. Millis(BufferTtl) /\ (buffer = <<>> <=> bufferTtl = 0)
  /\ reader \in Readers /\ endSeen \in Entries \cup {NoEnd}

\* The entries of a buffer in one life, numbered, and an end after all others.
Shaped(entries, l) ==
  \A i \in 1 .. Len(entries) :
    /\ entries[i].life = l /\ entries[i].index = i - 1
    /\ entries[i].is = "end" => i = Len(entries)

\* Entries that were read from a place on: numbered from there, and those of the
\* present life are where they were.
Placed(s, base, entries, l) ==
  \A i \in 1 .. Len(s) :
    /\ s[i].index = base + i - 1 /\ s[i].life <= l
    /\ s[i].life = l /\ entries # <<>> =>
         base + i \in 1 .. Len(entries) /\ s[i] = entries[base + i]

\* A life is over when the next is read.
LivesFollow(g, p) ==
  /\ \A i, j \in 1 .. Len(g) : i < j => g[i].life <= g[j].life
  /\ \A i, j \in 1 .. Len(p) : i < j => p[i].life <= p[j].life
  /\ \A i \in 1 .. Len(g), j \in 1 .. Len(p) : g[i].life <= p[j].life

EndsRead == IF reader.at = "ended" THEN 1 ELSE 0

ReadSoFar ==
  /\ Placed(got, reader.from, buffer, life)
  /\ Placed(reader.pending, reader.after - Len(reader.pending), buffer, life)
  /\ LivesFollow(got, reader.pending)
  /\ \A i \in 1 .. Len(got) : got[i].is = "body"
  /\ \A i \in 1 .. Len(reader.pending) : reader.pending[i].is = "end" => i = Len(reader.pending)
  /\ reader.after = reader.from + Len(got) + Len(reader.pending) + EndsRead
  /\ reader.pending # <<>> => reader.at = "idle"

StreamInv ==
  /\ StreamTypes /\ Shaped(buffer, life) /\ ReadSoFar /\ EndsAfterLast /\ NothingMissed
  /\ Len(buffer) <= MaxBodies + 1 /\ (~ Ended(buffer) => Len(buffer) <= MaxBodies)

LEMMA StreamNumbers == Millis(BufferTtl) \in Nat \ {0} /\ MaxBodies \in Nat
BY StreamBufferAssumption DEF StreamBufferAssumption, Millis

LEMMA LessOfWait ==
  ASSUME NEW bound \in Nat, NEW ttl \in 0 .. bound
  PROVE  /\ Less(ttl) \in 0 .. bound
         /\ Expires(ttl) => Less(ttl) = 0
         /\ ~ Expires(ttl) => (ttl = 0 <=> Less(ttl) = 0)
BY DEF Less, Expires

LEMMA InSequence ==
  ASSUME NEW S, NEW s \in Seq(S)
  PROVE  /\ Len(s) \in Nat /\ (s = <<>> <=> Len(s) = 0)
         /\ \A i \in 1 .. Len(s) : s[i] \in S
OBVIOUS

LEMMA Appended ==
  ASSUME NEW S, NEW s \in Seq(S), NEW e \in S
  PROVE  /\ Append(s, e) \in Seq(S) /\ Append(s, e) # <<>>
         /\ Len(Append(s, e)) = Len(s) + 1 /\ Append(s, e)[Len(s) + 1] = e
         /\ \A i \in 1 .. Len(s) : Append(s, e)[i] = s[i]
OBVIOUS

LEMMA Tailed ==
  ASSUME NEW S, NEW s \in Seq(S), s # <<>>
  PROVE  /\ Tail(s) \in Seq(S) /\ Len(Tail(s)) = Len(s) - 1 /\ Len(s) \in Nat \ {0}
         /\ Head(s) = s[1] /\ Head(s) \in S
         /\ \A i \in 1 .. Len(s) - 1 : Tail(s)[i] = s[i + 1]
<1>1. Len(s) \in Nat \ {0} /\ Head(s) = s[1] /\ Tail(s) \in Seq(S) /\ Len(Tail(s)) = Len(s) - 1
  OBVIOUS
<1>2. s[1] \in S
  BY <1>1
<1>3. ASSUME NEW i \in 1 .. Len(s) - 1 PROVE Tail(s)[i] = s[i + 1]
  BY <1>1
<1>4. QED
  BY <1>1, <1>2, <1>3

\* The entries after a cursor.
LEMMA AfterIs ==
  ASSUME NEW S, NEW entries \in Seq(S), NEW n \in Nat
  PROVE  LET after == After(entries, n)
         IN /\ after \in Seq(S)
            /\ Len(after) = IF n < Len(entries) THEN Len(entries) - n ELSE 0
            /\ after # <<>> <=> n < Len(entries)
            /\ \A i \in 1 .. Len(after) : n + i \in 1 .. Len(entries) /\ after[i] = entries[n + i]
<1> DEFINE after == After(entries, n)
<1>1. Len(entries) \in Nat /\ \A i \in 1 .. Len(entries) : entries[i] \in S
  OBVIOUS
<1>2. \A i \in n + 1 .. Len(entries) : entries[i] \in S
  BY <1>1
<1>3. /\ SubSeq(entries, n + 1, Len(entries)) \in Seq(S)
      /\ Len(SubSeq(entries, n + 1, Len(entries))) = IF n + 1 <= Len(entries) THEN Len(entries) - (n + 1) + 1 ELSE 0
  BY <1>1, <1>2
<1>4. after \in Seq(S) /\ Len(after) = IF n < Len(entries) THEN Len(entries) - n ELSE 0
  BY <1>1, <1>3 DEF After
<1>5. ASSUME NEW i \in 1 .. Len(after) PROVE n + i \in 1 .. Len(entries) /\ after[i] = entries[n + i]
  <2>1. n < Len(entries) /\ i \in 1 .. Len(entries) - n
    BY <1>1, <1>4
  <2>2. i \in 1 .. Len(entries) - (n + 1) + 1
    BY <1>1, <2>1
  <2>3. SubSeq(entries, n + 1, Len(entries))[i] = entries[n + 1 + i - 1]
    BY <1>1, <1>2, <2>2
  <2>4. n + 1 + i - 1 = n + i /\ n + i \in 1 .. Len(entries)
    BY <1>1, <2>1
  <2>5. QED
    BY <2>3, <2>4 DEF After
<1> HIDE DEF after
<1>6. after # <<>> <=> Len(after) # 0
  BY <1>4
<1>7. QED
  BY <1>1, <1>4, <1>5, <1>6 DEF after

\* What was read stays in its place when an entry is added, in the same life or
\* in the next.
LEMMA PlacedExtended ==
  ASSUME NEW s \in Seq(Entries), NEW base \in Nat, NEW entries \in Seq(Entries), NEW l \in Nat,
         NEW e \in Entries, Placed(s, base, entries, l)
  PROVE  Placed(s, base, Append(entries, e), IF entries = <<>> THEN l + 1 ELSE l)
<1> DEFINE longer == Append(entries, e)
           m == IF entries = <<>> THEN l + 1 ELSE l
<1>1. /\ Len(entries) \in Nat /\ Len(longer) = Len(entries) + 1
      /\ \A i \in 1 .. Len(entries) : longer[i] = entries[i]
  BY Appended
<1> SUFFICES ASSUME NEW i \in 1 .. Len(s)
             PROVE  /\ s[i].index = base + i - 1 /\ s[i].life <= m
                    /\ s[i].life = m /\ longer # <<>> =>
                         base + i \in 1 .. Len(longer) /\ s[i] = longer[base + i]
  BY DEF Placed
<1>2. /\ s[i].index = base + i - 1 /\ s[i].life <= l
      /\ s[i].life = l /\ entries # <<>> => base + i \in 1 .. Len(entries) /\ s[i] = entries[base + i]
  BY DEF Placed
<1>3. s[i].life \in Nat
  <2>1. s[i] \in Entries
    BY InSequence
  <2>2. QED
    BY <2>1 DEF Entries
<1>4. CASE entries = <<>>
  BY <1>2, <1>3, <1>4
<1>5. CASE entries # <<>>
  <2>1. m = l
    BY <1>5
  <2> HIDE DEF longer, m
  <2>2. base + i \in 1 .. Len(entries) => base + i \in 1 .. Len(longer) /\ longer[base + i] = entries[base + i]
    BY <1>1
  <2>3. QED
    BY <1>2, <1>5, <2>1, <2>2
<1>6. QED
  BY <1>4, <1>5

LEMMA PlacedEmptied ==
  ASSUME NEW s, NEW base, NEW entries, NEW l, Placed(s, base, entries, l)
  PROVE  Placed(s, base, <<>>, l)
BY DEF Placed

\* What is read now is in its place.
LEMMA PlacedRead ==
  ASSUME NEW entries \in Seq(Entries), NEW l \in Nat, Shaped(entries, l),
         NEW n \in Nat, n < Len(entries)
  PROVE  LET after == After(entries, n)
         IN /\ Placed(after, n, entries, l) /\ Len(after) = Len(entries) - n
            /\ \A i \in 1 .. Len(after) : after[i].life = l /\ (after[i].is = "end" => i = Len(after))
<1> DEFINE after == After(entries, n)
<1>1. /\ Len(entries) \in Nat /\ Len(after) = Len(entries) - n
      /\ \A i \in 1 .. Len(after) : n + i \in 1 .. Len(entries) /\ after[i] = entries[n + i]
  BY AfterIs, InSequence
<1> HIDE DEF after
<1>2. ASSUME NEW i \in 1 .. Len(after)
      PROVE  /\ after[i].index = n + i - 1 /\ after[i].life = l
             /\ n + i \in 1 .. Len(entries) /\ after[i] = entries[n + i]
             /\ after[i].is = "end" => i = Len(after)
  <2>1. n + i \in 1 .. Len(entries) /\ after[i] = entries[n + i]
    BY <1>1
  <2>2. /\ entries[n + i].life = l /\ entries[n + i].index = n + i - 1
        /\ entries[n + i].is = "end" => n + i = Len(entries)
    BY <2>1 DEF Shaped
  <2>3. n + i = Len(entries) => i = Len(after)
    <3>1. Len(entries) \in Nat /\ i \in Nat /\ Len(after) = Len(entries) - n
      BY <1>1
    <3>2. QED
      BY <3>1
  <2>4. QED
    BY <2>1, <2>2, <2>3
<1>3. Placed(after, n, entries, l)
  BY <1>2 DEF Placed
<1>4. QED
  BY <1>1, <1>2, <1>3 DEF after

\* A buffer grows in its shape.
LEMMA ShapedExtended ==
  ASSUME NEW entries \in Seq(Entries), NEW l \in Nat, Shaped(entries, l), ~ Ended(entries),
         NEW m \in Nat, m = (IF entries = <<>> THEN l + 1 ELSE l),
         NEW e \in Entries, e.life = m, e.index = Len(entries)
  PROVE  Shaped(Append(entries, e), m)
<1> DEFINE longer == Append(entries, e)
<1>1. /\ Len(entries) \in Nat /\ Len(longer) = Len(entries) + 1 /\ longer[Len(entries) + 1] = e
      /\ \A i \in 1 .. Len(entries) : longer[i] = entries[i]
  BY Appended, InSequence
<1> HIDE DEF longer
<1>2. ASSUME NEW i \in 1 .. Len(longer)
      PROVE  /\ longer[i].life = m /\ longer[i].index = i - 1
             /\ longer[i].is = "end" => i = Len(longer)
  <2>1. CASE i = Len(entries) + 1
    BY <1>1, <2>1
  <2>2. CASE i # Len(entries) + 1
    <3>1. i \in 1 .. Len(entries) /\ longer[i] = entries[i] /\ entries # <<>>
      BY <1>1, <2>2
    <3>2. /\ entries[i].life = l /\ entries[i].index = i - 1
          /\ entries[i].is = "end" => i = Len(entries)
      BY <3>1 DEF Shaped
    <3>3. entries[i].is # "end"
      <4>1. entries[Len(entries)].is # "end"
        BY <3>1 DEF Ended, Last
      <4>2. QED
        BY <3>2, <4>1
    <3>4. QED
      BY <3>1, <3>2, <3>3
  <2>3. QED
    BY <2>1, <2>2
<1>3. QED
  BY <1>2 DEF Shaped, longer

\* Reading goes on where it stood.
LEMMA ReadsOn ==
  ASSUME NEW entries \in Seq(Entries), NEW l \in Nat, Shaped(entries, l),
         NEW g \in Seq(Entries), NEW from \in Nat, NEW after \in Nat,
         Placed(g, from, entries, l), LivesFollow(g, <<>>), after = from + Len(g),
         After(entries, after) # <<>>
  PROVE  LET p == After(entries, after)
         IN /\ p \in Seq(Entries) /\ Placed(p, Len(entries) - Len(p), entries, l)
            /\ LivesFollow(g, p)
            /\ \A i \in 1 .. Len(p) : p[i].is = "end" => i = Len(p)
            /\ Len(entries) = from + Len(g) + Len(p) /\ Len(entries) \in Nat
<1> DEFINE p == After(entries, after)
<1>1. /\ Len(entries) \in Nat /\ after < Len(entries) /\ p \in Seq(Entries) /\ Len(g) \in Nat
  BY AfterIs, InSequence
<1>2. /\ Placed(p, after, entries, l) /\ Len(p) = Len(entries) - after
      /\ \A i \in 1 .. Len(p) : p[i].life = l /\ (p[i].is = "end" => i = Len(p))
  BY <1>1, PlacedRead
<1> HIDE DEF p
<1>3. Len(entries) - Len(p) = after /\ Len(entries) = from + Len(g) + Len(p)
  BY <1>1, <1>2
<1>4. LivesFollow(g, p)
  <2>1. \A i \in 1 .. Len(g) : g[i].life <= l
    BY DEF Placed
  <2>2. \A i, j \in 1 .. Len(p) : p[i].life <= p[j].life
    BY <1>2
  <2>3. \A i, j \in 1 .. Len(g) : i < j => g[i].life <= g[j].life
    BY DEF LivesFollow
  <2>4. \A i \in 1 .. Len(g), j \in 1 .. Len(p) : g[i].life <= p[j].life
    BY <1>2, <2>1
  <2>5. QED
    BY <2>2, <2>3, <2>4 DEF LivesFollow
<1>5. QED
  BY <1>1, <1>2, <1>3, <1>4 DEF p

\* The parts of the subscription.
LEMMA ReaderParts ==
  ASSUME StreamInv
  PROVE  /\ reader.from \in Nat /\ reader.after \in Nat /\ reader.pending \in Seq(Entries)
         /\ reader.wait \in 0 .. Millis(BufferTtl)
         /\ Len(reader.pending) \in Nat /\ Len(got) \in Nat /\ Len(buffer) \in Nat
         /\ got \in Seq(Entries) /\ buffer \in Seq(Entries) /\ life \in Nat
         /\ reader \in Readers
         /\ reader.at # "idle" => reader.pending = <<>> /\ Len(reader.pending) = 0
         /\ reader.after - Len(reader.pending) \in Nat
<1>1. /\ reader.from \in Nat /\ reader.after \in Nat /\ reader.pending \in Seq(Entries)
      /\ reader.wait \in 0 .. Millis(BufferTtl) /\ reader \in Readers
      /\ got \in Seq(Entries) /\ buffer \in Seq(Entries) /\ life \in Nat
  BY DEF StreamInv, StreamTypes, Readers
<1>2. Len(reader.pending) \in Nat /\ Len(got) \in Nat /\ Len(buffer) \in Nat
  BY <1>1, InSequence
<1>3. reader.at # "idle" => reader.pending = <<>> /\ Len(reader.pending) = 0
  BY <1>1, InSequence DEF StreamInv, ReadSoFar
<1>4. reader.after = reader.from + Len(got) + Len(reader.pending) + EndsRead /\ EndsRead \in Nat
  BY DEF StreamInv, ReadSoFar, EndsRead
<1>5. QED
  BY <1>1, <1>2, <1>3, <1>4

LEMMA StreamInitInv == BufferInit => StreamInv
<1> SUFFICES ASSUME BufferInit PROVE StreamInv
  OBVIOUS
<1>1. Millis(BufferTtl) \in Nat /\ MaxBodies \in Nat /\ <<>> \in Seq(Entries) /\ Len(<<>>) = 0
  BY StreamNumbers
<1>2. PICK from \in 0 .. MaxBodies : reader = Subscription(from)
  BY DEF BufferInit
<1>3. /\ reader \in Readers /\ reader.at = "idle" /\ reader.pending = <<>>
      /\ reader.from = from /\ reader.after = from
  BY <1>1, <1>2 DEF Subscription, Readers
<1>4. StreamTypes
  BY <1>1, <1>3 DEF BufferInit, StreamTypes
<1>5. Shaped(buffer, life) /\ EndsAfterLast /\ NothingMissed
  BY <1>1, <1>3 DEF BufferInit, Shaped, EndsAfterLast, NothingMissed
<1>6. ReadSoFar
  BY <1>1, <1>3 DEF BufferInit, ReadSoFar, Placed, LivesFollow, EndsRead
<1>7. QED
  BY <1>1, <1>4, <1>5, <1>6 DEF BufferInit, StreamInv

\* An entry is added, and wakes who waits for it.
LEMMA ExtendKeeps ==
  ASSUME StreamInv, NEW e \in Entries, Extended(e), ~ Ended(buffer),
         life' = (IF buffer = <<>> THEN life + 1 ELSE life),
         e.life = life', e.index = Len(buffer),
         e.is = "body" => Len(buffer) < MaxBodies,
         UNCHANGED <<got, endSeen>>
  PROVE  StreamInv'
<1>1. /\ buffer' = Append(buffer, e) /\ bufferTtl' = Millis(BufferTtl) /\ Wake(buffer')
      /\ Millis(BufferTtl) \in Nat \ {0} /\ MaxBodies \in Nat
  BY StreamNumbers DEF Extended
<1>2. /\ reader.from \in Nat /\ reader.after \in Nat /\ reader.pending \in Seq(Entries)
      /\ Len(reader.pending) \in Nat /\ Len(got) \in Nat /\ Len(buffer) \in Nat
      /\ got \in Seq(Entries) /\ buffer \in Seq(Entries) /\ life \in Nat /\ life' \in Nat
      /\ reader \in Readers
      /\ reader.at # "idle" => reader.pending = <<>> /\ Len(reader.pending) = 0
      /\ reader.after - Len(reader.pending) \in Nat
  BY ReaderParts
<1>3. /\ buffer' \in Seq(Entries) /\ buffer' # <<>> /\ Len(buffer') = Len(buffer) + 1
      /\ buffer'[Len(buffer) + 1] = e
  BY <1>1, <1>2, Appended
<1>4. Shaped(buffer', life')
  BY <1>1, <1>2, ShapedExtended DEF StreamInv
<1>5. Placed(got', reader.from, buffer', life')
  <2>1. Placed(got, reader.from, buffer, life)
    BY DEF StreamInv, ReadSoFar
  <2>2. QED
    BY <1>1, <1>2, <2>1, PlacedExtended
<1>6. Placed(reader.pending, reader.after - Len(reader.pending), buffer', life')
  <2>1. Placed(reader.pending, reader.after - Len(reader.pending), buffer, life)
    BY DEF StreamInv, ReadSoFar
  <2>2. QED
    BY <1>1, <1>2, <2>1, PlacedExtended
<1>7. Len(buffer') <= MaxBodies + 1 /\ (~ Ended(buffer') => Len(buffer') <= MaxBodies)
  <2>1. Len(buffer) <= MaxBodies
    BY DEF StreamInv
  <2>2. ~ Ended(buffer') => e.is # "end"
    BY <1>3 DEF Ended, Last
  <2>3. e.is # "end" => e.is = "body"
    BY DEF Entries
  <2>4. QED
    BY <1>1, <1>2, <1>3, <2>1, <2>2, <2>3
<1>8. /\ \A i \in 1 .. Len(got') : got'[i].is = "body"
      /\ endSeen' \in Entries \cup {NoEnd}
      /\ LivesFollow(got', reader.pending)
      /\ \A i \in 1 .. Len(reader.pending) : reader.pending[i].is = "end" => i = Len(reader.pending)
  BY DEF StreamInv, StreamTypes, ReadSoFar
<1> DEFINE new == After(buffer', reader.after)
<1>9. CASE reader.at = "blocked" /\ new # <<>>
  <2>1. reader' = [reader EXCEPT !.at = "idle", !.after = Len(buffer'), !.pending = new]
    BY <1>1, <1>9 DEF Wake
  <2>2. reader.after = reader.from + Len(got) /\ LivesFollow(got, <<>>)
    BY <1>2, <1>8, <1>9 DEF StreamInv, ReadSoFar, EndsRead
  <2>3. /\ new \in Seq(Entries) /\ Placed(new, Len(buffer') - Len(new), buffer', life')
        /\ LivesFollow(got', new)
        /\ \A i \in 1 .. Len(new) : new[i].is = "end" => i = Len(new)
        /\ Len(buffer') = reader.from + Len(got) + Len(new) /\ Len(buffer') \in Nat
    <3>1. got' = got /\ Placed(got, reader.from, buffer', life') /\ After(buffer', reader.after) # <<>>
      BY <1>5, <1>9
    <3>2. /\ After(buffer', reader.after) \in Seq(Entries)
          /\ Placed(After(buffer', reader.after), Len(buffer') - Len(After(buffer', reader.after)),
                    buffer', life')
          /\ LivesFollow(got, After(buffer', reader.after))
          /\ \A i \in 1 .. Len(After(buffer', reader.after)) :
               After(buffer', reader.after)[i].is = "end" => i = Len(After(buffer', reader.after))
          /\ Len(buffer') = reader.from + Len(got) + Len(After(buffer', reader.after))
          /\ Len(buffer') \in Nat
      <4>1. /\ buffer' \in Seq(Entries) /\ life' \in Nat /\ got \in Seq(Entries)
            /\ reader.from \in Nat /\ reader.after \in Nat
        BY <1>2, <1>3
      <4>2. QED
        BY <1>4, <2>2, <3>1, <4>1, ReadsOn
    <3>3. QED
      BY <3>1, <3>2
  <2> HIDE DEF new
  <2>4. /\ reader'.at = "idle" /\ reader'.after = Len(buffer') /\ reader'.pending = new
        /\ reader'.from = reader.from /\ reader' \in Readers
    BY <1>2, <2>1, <2>3 DEF Readers
  <2>5. ReadSoFar'
    BY <1>2, <1>5, <1>8, <2>3, <2>4 DEF ReadSoFar, EndsRead
  <2>6. StreamTypes'
    BY <1>1, <1>2, <1>3, <1>8, <2>4 DEF StreamTypes
  <2>7. EndsAfterLast' /\ NothingMissed'
    BY <1>9, <2>4 DEF StreamInv, EndsAfterLast, NothingMissed
  <2>8. QED
    BY <1>4, <1>7, <2>5, <2>6, <2>7 DEF StreamInv
<1>10. CASE ~ (reader.at = "blocked" /\ new # <<>>)
  <2>1. reader' = reader
    BY <1>1, <1>10 DEF Wake
  <2>2. ReadSoFar'
    BY <1>5, <1>6, <1>8, <2>1 DEF StreamInv, ReadSoFar, EndsRead
  <2>3. StreamTypes'
    BY <1>1, <1>2, <1>3, <1>8, <2>1 DEF StreamTypes
  <2>4. EndsAfterLast' /\ NothingMissed'
    BY <1>10, <2>1 DEF StreamInv, EndsAfterLast, NothingMissed
  <2>5. QED
    BY <1>4, <1>7, <2>2, <2>3, <2>4 DEF StreamInv
<1>11. QED
  BY <1>9, <1>10

LEMMA AppendOrFinishKeeps ==
  ASSUME StreamInv, BufferAppend \/ BufferFinish PROVE StreamInv'
<1>1. Len(buffer) \in Nat /\ life \in Nat
  BY ReaderParts
<1>2. /\ ~ Ended(buffer) /\ life' = (IF buffer = <<>> THEN life + 1 ELSE life)
      /\ UNCHANGED <<got, endSeen>>
  BY DEF BufferAppend, BufferFinish, APPEND, FINISH, NextLife
<1>3. CASE BufferAppend
  <2>1. PICK readable \in BOOLEAN : Extended(BodyAt(Len(buffer), readable))
    BY <1>3 DEF BufferAppend, APPEND
  <2>2. /\ BodyAt(Len(buffer), readable) \in Entries /\ Len(buffer) < MaxBodies
        /\ BodyAt(Len(buffer), readable).life = life'
        /\ BodyAt(Len(buffer), readable).index = Len(buffer)
    BY <1>1, <1>2, <1>3 DEF BodyAt, Entries, BufferAppend
  <2>3. QED
    BY <1>2, <2>1, <2>2, ExtendKeeps
<1>4. CASE BufferFinish
  <2>1. Extended(EndAt(Len(buffer)))
    BY <1>4 DEF BufferFinish, FINISH
  <2>2. /\ EndAt(Len(buffer)) \in Entries /\ EndAt(Len(buffer)).is # "body"
        /\ EndAt(Len(buffer)).life = life' /\ EndAt(Len(buffer)).index = Len(buffer)
    BY <1>1, <1>2 DEF EndAt, Entries
  <2>3. QED
    BY <1>2, <2>1, <2>2, ExtendKeeps
<1>5. QED
  BY <1>3, <1>4

\* The buffer is gone, or as it was, and the subscription reads nothing.
LEMMA NothingRead ==
  ASSUME StreamInv, UNCHANGED <<life, got, endSeen>>,
         \/ buffer' = buffer /\ (bufferTtl' = 0 <=> bufferTtl = 0)
         \/ buffer' = <<>> /\ bufferTtl' = 0,
         bufferTtl' \in 0 .. Millis(BufferTtl), reader' \in Readers,
         UNCHANGED <<reader.from, reader.after, reader.pending>>,
         reader'.at = "ended" <=> reader.at = "ended",
         reader.pending # <<>> => reader'.at = "idle",
         reader'.at = "blocked" => reader.at = "blocked"
  PROVE  StreamInv'
<1>1. /\ Placed(got', reader'.from, buffer', life')
      /\ Placed(reader'.pending, reader'.after - Len(reader'.pending), buffer', life')
  BY PlacedEmptied DEF StreamInv, ReadSoFar
<1>2. ReadSoFar'
  BY <1>1 DEF StreamInv, ReadSoFar, EndsRead
<1>3. buffer' = <<>> => Len(buffer') = 0 /\ \A n \in Nat : After(buffer', n) = <<>>
  <2>1. <<>> \in Seq(Entries) /\ Len(<<>>) = 0
    OBVIOUS
  <2>2. ASSUME NEW n \in Nat PROVE After(<<>>, n) = <<>>
    <3>1. After(<<>>, n) # <<>> <=> n < 0
      BY <2>1, AfterIs
    <3>2. QED
      BY <3>1
  <2>3. QED
    BY <2>1, <2>2
<1>4. StreamTypes'
  <2>1. <<>> \in Seq(Entries)
    OBVIOUS
  <2>2. QED
    BY <2>1 DEF StreamInv, StreamTypes
<1>5. Shaped(buffer', life')
  BY <1>3 DEF StreamInv, Shaped
<1>6. EndsAfterLast' /\ NothingMissed'
  BY <1>3, ReaderParts DEF StreamInv, EndsAfterLast, NothingMissed
<1>7. Len(buffer') <= MaxBodies + 1 /\ (~ Ended(buffer') => Len(buffer') <= MaxBodies)
  BY <1>3, StreamNumbers DEF StreamInv
<1>8. QED
  BY <1>2, <1>4, <1>5, <1>6, <1>7 DEF StreamInv

LEMMA RecvPendingKeeps == ASSUME StreamInv, RecvPending PROVE StreamInv'
<1> DEFINE entry == Head(reader.pending)
<1>1. /\ reader.from \in Nat /\ reader.after \in Nat /\ reader.pending \in Seq(Entries)
      /\ Len(reader.pending) \in Nat \ {0} /\ Len(got) \in Nat /\ life \in Nat
      /\ got \in Seq(Entries) /\ buffer \in Seq(Entries) /\ reader \in Readers
      /\ reader.at = "idle" /\ reader.pending # <<>>
  BY ReaderParts, InSequence DEF RecvPending
<1>2. /\ Tail(reader.pending) \in Seq(Entries)
      /\ Len(Tail(reader.pending)) = Len(reader.pending) - 1
      /\ entry = reader.pending[1] /\ entry \in Entries
      /\ \A i \in 1 .. Len(reader.pending) - 1 : Tail(reader.pending)[i] = reader.pending[i + 1]
  BY <1>1, Tailed
<1>3. /\ reader' = [reader EXCEPT !.pending = Tail(@), !.at = IF entry.is = "end" THEN "ended" ELSE "idle"]
      /\ got' = (IF entry.is = "body" THEN Append(got, entry) ELSE got)
      /\ endSeen' = (IF entry.is = "end" THEN entry ELSE endSeen)
      /\ UNCHANGED <<buffer, bufferTtl, life>>
  BY DEF RecvPending
<1> HIDE DEF entry
<1>4. /\ reader' \in Readers /\ reader'.pending = Tail(reader.pending)
      /\ reader'.from = reader.from /\ reader'.after = reader.after
      /\ reader'.at = IF entry.is = "end" THEN "ended" ELSE "idle"
  BY <1>1, <1>2, <1>3 DEF Readers
<1>5. /\ Placed(got, reader.from, buffer, life)
      /\ Placed(reader.pending, reader.after - Len(reader.pending), buffer, life)
      /\ LivesFollow(got, reader.pending)
      /\ \A i \in 1 .. Len(got) : got[i].is = "body"
      /\ \A i \in 1 .. Len(reader.pending) : reader.pending[i].is = "end" => i = Len(reader.pending)
      /\ reader.after = reader.from + Len(got) + Len(reader.pending)
  BY <1>1 DEF StreamInv, ReadSoFar, EndsRead
<1> DEFINE base == reader.after - Len(reader.pending)
           rest == Tail(reader.pending)
<1>6. base = reader.from + Len(got) /\ base \in Nat /\ reader.after - Len(rest) = base + 1
  BY <1>1, <1>2, <1>5
<1>7. /\ 1 \in 1 .. Len(reader.pending)
      /\ reader.from \in Nat /\ Len(got) \in Nat /\ Len(reader.pending) \in Nat
  BY <1>1
<1>8. /\ entry.index = base /\ entry.life <= life
      /\ entry.life = life /\ buffer # <<>> => base + 1 \in 1 .. Len(buffer) /\ entry = buffer[base + 1]
  <2> HIDE DEF base
  <2>1. /\ entry.index = base + 1 - 1 /\ entry.life <= life
        /\ entry.life = life /\ buffer # <<>> => base + 1 \in 1 .. Len(buffer) /\ entry = buffer[base + 1]
    BY <1>2, <1>5, <1>7 DEF Placed, base
  <2>2. QED
    BY <1>6, <2>1
<1>9. ASSUME NEW i \in 1 .. Len(rest)
      PROVE  i + 1 \in 1 .. Len(reader.pending) /\ rest[i] = reader.pending[i + 1]
             /\ i \in 1 .. Len(reader.pending) - 1
  BY <1>1, <1>2
<1>10. Placed(rest, base + 1, buffer, life)
  <2> HIDE DEF base, rest
  <2> SUFFICES ASSUME NEW i \in 1 .. Len(rest)
               PROVE  /\ rest[i].index = base + 1 + i - 1 /\ rest[i].life <= life
                      /\ rest[i].life = life /\ buffer # <<>> =>
                           base + 1 + i \in 1 .. Len(buffer) /\ rest[i] = buffer[base + 1 + i]
    BY DEF Placed
  <2>1. i + 1 \in 1 .. Len(reader.pending) /\ rest[i] = reader.pending[i + 1] /\ i \in Nat
    BY <1>9
  <2>2. base + 1 + i = base + (i + 1) /\ base + 1 + i - 1 = base + (i + 1) - 1
    BY <1>6, <2>1
  <2>3. Placed(reader.pending, base, buffer, life)
    BY <1>5 DEF base
  <2>4. QED
    BY <2>1, <2>2, <2>3 DEF Placed
<1>11. \A i \in 1 .. Len(rest) : rest[i].is = "end" => i = Len(rest)
  <2> SUFFICES ASSUME NEW i \in 1 .. Len(rest), rest[i].is = "end" PROVE i = Len(rest)
    OBVIOUS
  <2>1. i + 1 = Len(reader.pending)
    BY <1>5, <1>9
  <2>2. QED
    BY <1>1, <1>2, <2>1
<1>12. CASE entry.is = "end"
  <2>1. Len(reader.pending) = 1
    BY <1>2, <1>5, <1>7, <1>12
  <2>2. rest = <<>> /\ Len(rest) = 0 /\ got' = got /\ endSeen' = entry /\ reader'.at = "ended"
    <3>1. Len(rest) = 0 /\ rest \in Seq(Entries)
      BY <1>2, <2>1
    <3>2. rest = <<>>
      BY <3>1, InSequence
    <3>3. entry.is # "body"
      BY <1>12
    <3>4. QED
      BY <1>3, <1>4, <1>12, <3>1, <3>2, <3>3
  <2>3. ReadSoFar'
    <3>1. Placed(got', reader'.from, buffer', life')
      BY <1>3, <1>4, <1>5, <2>2
    <3>2. Placed(reader'.pending, reader'.after - Len(reader'.pending), buffer', life')
      BY <1>4, <2>2 DEF Placed
    <3>3. LivesFollow(got', reader'.pending)
      BY <1>4, <1>5, <2>2 DEF LivesFollow
    <3>4. reader'.after = reader'.from + Len(got') + Len(reader'.pending) + EndsRead'
      <4>1. EndsRead' = 1 /\ Len(reader'.pending) = 0 /\ got' = got
        BY <1>4, <2>2 DEF EndsRead
      <4>2. QED
        <5>1. reader'.after = reader.after /\ reader'.from = reader.from
              /\ reader.after = reader.from + Len(got) + 1
          BY <1>4, <1>5, <2>1
        <5>2. QED
          BY <1>7, <4>1, <5>1
    <3>5. QED
      BY <1>4, <1>5, <2>2, <3>1, <3>2, <3>3, <3>4 DEF ReadSoFar
  <2>4. EndsAfterLast'
    <3>1. entry # NoEnd
      BY <1>2, <1>12 DEF NoEnd
    <3>2. entry.index = reader'.from + Len(got')
      BY <1>4, <1>6, <1>8, <2>2
    <3>3. QED
      BY <2>2, <3>1, <3>2 DEF EndsAfterLast
  <2>5. StreamTypes'
    BY <1>2, <1>3, <1>4, <2>2 DEF StreamInv, StreamTypes
  <2>6. QED
    BY <1>3, <2>2, <2>3, <2>4, <2>5 DEF StreamInv, NothingMissed
<1>13. CASE entry.is # "end"
  <2>1. entry.is = "body" /\ got' = Append(got, entry) /\ endSeen' = endSeen /\ reader'.at = "idle"
    BY <1>2, <1>3, <1>4, <1>13 DEF Entries
  <2>2. /\ got' \in Seq(Entries) /\ Len(got') = Len(got) + 1 /\ got'[Len(got) + 1] = entry
        /\ \A i \in 1 .. Len(got) : got'[i] = got[i]
    BY <1>1, <1>2, <2>1, Appended
  <2>3. ASSUME NEW i \in 1 .. Len(got') PROVE i = Len(got) + 1 \/ i \in 1 .. Len(got)
    BY <1>1, <2>2
  <2>4. Placed(got', reader'.from, buffer', life')
    <3> SUFFICES ASSUME NEW i \in 1 .. Len(got')
                 PROVE  /\ got'[i].index = reader.from + i - 1 /\ got'[i].life <= life
                        /\ got'[i].life = life /\ buffer # <<>> =>
                             reader.from + i \in 1 .. Len(buffer) /\ got'[i] = buffer[reader.from + i]
      BY <1>3, <1>4 DEF Placed
    <3>1. CASE i \in 1 .. Len(got)
      BY <1>5, <2>2, <3>1 DEF Placed
    <3>2. CASE i = Len(got) + 1
      <4>1. reader.from + i = base + 1 /\ reader.from + i - 1 = base /\ got'[i] = entry
        <5>1. got'[i] = entry /\ base = reader.from + Len(got)
          BY <1>6, <2>2, <3>2
        <5> HIDE DEF base
        <5>2. QED
          BY <1>7, <3>2, <5>1
      <4> HIDE DEF base
      <4>2. QED
        BY <1>8, <4>1
    <3>3. QED
      BY <2>3, <3>1, <3>2
  <2>5. LivesFollow(got', rest)
    <3>0. /\ \A i \in 1 .. Len(got), j \in 1 .. Len(reader.pending) : got[i].life <= reader.pending[j].life
          /\ \A i, j \in 1 .. Len(got) : i < j => got[i].life <= got[j].life
          /\ \A i, j \in 1 .. Len(reader.pending) : i < j => reader.pending[i].life <= reader.pending[j].life
      BY <1>5 DEF LivesFollow
    <3>1. ASSUME NEW i \in 1 .. Len(got'), NEW j \in 1 .. Len(got'), i < j
          PROVE  got'[i].life <= got'[j].life
      <4>1. i \in 1 .. Len(got)
        BY <1>1, <2>2, <3>1
      <4>2. CASE j \in 1 .. Len(got)
        BY <2>2, <3>0, <3>1, <4>1, <4>2
      <4>3. CASE j = Len(got) + 1
        <5>1. got[i].life <= reader.pending[1].life
          BY <1>7, <3>0, <4>1
        <5>2. QED
          BY <1>2, <2>2, <4>1, <4>3, <5>1
      <4>4. QED
        BY <2>3, <4>2, <4>3
    <3>2. ASSUME NEW i \in 1 .. Len(rest), NEW j \in 1 .. Len(rest), i < j
          PROVE  rest[i].life <= rest[j].life
      <4>1. i + 1 < j + 1
        BY <3>2
      <4> HIDE DEF rest
      <4>2. QED
        BY <1>9, <3>0, <4>1
    <3>3. ASSUME NEW i \in 1 .. Len(got'), NEW j \in 1 .. Len(rest)
          PROVE  got'[i].life <= rest[j].life
      <4>1. j + 1 \in 1 .. Len(reader.pending) /\ rest[j] = reader.pending[j + 1] /\ 1 < j + 1
        BY <1>9
      <4> HIDE DEF rest
      <4>2. CASE i \in 1 .. Len(got)
        BY <2>2, <3>0, <4>1, <4>2
      <4>3. CASE i = Len(got) + 1
        <5>1. reader.pending[1].life <= reader.pending[j + 1].life
          BY <1>7, <3>0, <4>1
        <5>2. QED
          BY <1>2, <2>2, <4>1, <4>3, <5>1
      <4>4. QED
        BY <2>3, <4>2, <4>3
    <3> HIDE DEF rest
    <3>4. QED
      BY <3>1, <3>2, <3>3 DEF LivesFollow
  <2>6. \A i \in 1 .. Len(got') : got'[i].is = "body"
    BY <1>5, <2>1, <2>2, <2>3
  <2>7. reader'.after = reader'.from + Len(got') + Len(reader'.pending) + EndsRead'
    <3>1. EndsRead' = 0 /\ Len(reader'.pending) = Len(reader.pending) - 1
      BY <1>2, <1>4, <2>1 DEF EndsRead
    <3>2. QED
      <4>1. reader'.after = reader.after /\ reader'.from = reader.from
            /\ reader.after = reader.from + Len(got) + Len(reader.pending)
        BY <1>4, <1>5
      <4>2. Len(got') = Len(got) + 1
        BY <2>2
      <4>3. QED
        BY <1>7, <3>1, <4>1, <4>2
  <2>8. Placed(reader'.pending, reader'.after - Len(reader'.pending), buffer', life')
    BY <1>3, <1>4, <1>6, <1>10
  <2>9. ReadSoFar'
    BY <1>4, <1>11, <2>1, <2>4, <2>5, <2>6, <2>7, <2>8 DEF ReadSoFar
  <2>10. EndsAfterLast' /\ NothingMissed'
    BY <1>1, <2>1 DEF StreamInv, EndsAfterLast, NothingMissed
  <2>11. StreamTypes'
    BY <1>3, <1>4, <2>1, <2>2 DEF StreamInv, StreamTypes
  <2>12. QED
    BY <1>3, <2>9, <2>10, <2>11 DEF StreamInv
<1>14. QED
  BY <1>12, <1>13

LEMMA RecvReadKeeps == ASSUME StreamInv, RecvRead PROVE StreamInv'
<1> DEFINE new == After(buffer, reader.after)
<1>1. /\ reader.from \in Nat /\ reader.after \in Nat /\ reader.pending = <<>>
      /\ Len(got) \in Nat /\ Len(buffer) \in Nat /\ life \in Nat
      /\ got \in Seq(Entries) /\ buffer \in Seq(Entries) /\ reader \in Readers
      /\ reader.at = "idle" /\ Len(reader.pending) = 0 /\ Millis(BufferTtl) \in Nat \ {0}
      /\ UNCHANGED <<buffer, bufferTtl, life, got, endSeen>>
  BY ReaderParts, InSequence, StreamNumbers DEF RecvRead
<1>2. ASSUME NEW n \in 1 .. Len(new),
             reader' = [reader EXCEPT !.pending = SubSeq(new, 1, n), !.after = @ + n]
      PROVE  StreamInv'
  <2>1. new # <<>> /\ n \in Nat \ {0}
    <3>1. new \in Seq(Entries)
      BY <1>1, AfterIs
    <3>2. QED
      BY <1>2, <3>1
  <2>2. /\ reader.after = reader.from + Len(got) /\ LivesFollow(got, <<>>)
        /\ Placed(got, reader.from, buffer, life) /\ Shaped(buffer, life)
        /\ \A i \in 1 .. Len(got) : got[i].is = "body"
    BY <1>1 DEF StreamInv, ReadSoFar, EndsRead
  <2>3. /\ new \in Seq(Entries) /\ Placed(new, Len(buffer) - Len(new), buffer, life)
        /\ LivesFollow(got, new)
        /\ \A i \in 1 .. Len(new) : new[i].is = "end" => i = Len(new)
        /\ Len(buffer) = reader.from + Len(got) + Len(new) /\ Len(buffer) \in Nat
    BY <1>1, <2>1, <2>2, ReadsOn
  <2> HIDE DEF new
  <2> DEFINE part == SubSeq(new, 1, n)
  <2>4. /\ part \in Seq(Entries) /\ Len(part) = n /\ part # <<>>
        /\ \A i \in 1 .. n : part[i] = new[i] /\ i \in 1 .. Len(new)
    BY <1>2, <2>1, <2>3
  <2> HIDE DEF part
  <2>5. reader' = [reader EXCEPT !.pending = part, !.after = reader.after + n]
    BY <1>1, <1>2 DEF part, Readers
  <2>6. Len(buffer) - Len(new) = reader.after
    BY <1>1, <2>2, <2>3, InSequence
  <2>7. Placed(part, reader.after, buffer, life)
    BY <2>3, <2>4, <2>6 DEF Placed
  <2>8. LivesFollow(got, part)
    BY <2>3, <2>4 DEF LivesFollow
  <2>9. \A i \in 1 .. Len(part) : part[i].is = "end" => i = Len(part)
    BY <1>2, <2>1, <2>3, <2>4, InSequence
  <2>10. /\ reader'.at = "idle" /\ reader'.after = reader.after + n /\ reader'.pending = part
         /\ reader'.from = reader.from /\ reader' \in Readers
         /\ reader'.after - Len(reader'.pending) = reader.after
    <3>1. /\ reader'.at = "idle" /\ reader'.after = reader.after + n /\ reader'.pending = part
          /\ reader'.from = reader.from /\ reader.after + n \in Nat
      BY <1>1, <2>5, <2>1 DEF Readers
    <3>2. reader' \in Readers
      BY <1>1, <2>5, <2>4, <3>1 DEF Readers
    <3>3. QED
      BY <1>1, <2>1, <2>4, <3>1, <3>2
  <2>11. ReadSoFar'
    <3>1. Placed(got, reader.from, buffer', life') /\ got' = got
      BY <1>1, <2>2
    <3>2. Placed(reader'.pending, reader'.after - Len(reader'.pending), buffer', life')
      BY <1>1, <2>7, <2>10
    <3>3. reader'.after = reader'.from + Len(got') + Len(reader'.pending) + EndsRead'
      BY <1>1, <2>1, <2>2, <2>4, <2>10 DEF EndsRead
    <3>4. LivesFollow(got', reader'.pending) /\ \A i \in 1 .. Len(got') : got'[i].is = "body"
      BY <2>2, <2>8, <2>10, <3>1
    <3>5. QED
      BY <2>9, <2>10, <3>1, <3>2, <3>3, <3>4 DEF ReadSoFar
  <2>12. EndsAfterLast' /\ NothingMissed'
    BY <1>1, <2>10 DEF StreamInv, EndsAfterLast, NothingMissed
  <2>13. QED
    BY <1>1, <2>10, <2>11, <2>12 DEF StreamInv, StreamTypes
<1>3. ASSUME new = <<>>, reader' = [reader EXCEPT !.at = "blocked", !.wait = Millis(BufferTtl)]
      PROVE  StreamInv'
  <2>1. reader' = [reader EXCEPT !.at = "blocked", !.wait = Millis(BufferTtl)]
    BY <1>3
  <2>2. /\ reader'.at = "blocked" /\ reader'.after = reader.after /\ reader'.pending = <<>>
        /\ reader'.from = reader.from /\ reader' \in Readers
    <3>1. Millis(BufferTtl) \in 0 .. Millis(BufferTtl)
      BY <1>1
    <3>2. QED
      BY <1>1, <2>1, <3>1 DEF Readers
  <2>3. ReadSoFar'
    BY <1>1, <2>2 DEF StreamInv, ReadSoFar, EndsRead
  <2>4. EndsAfterLast' /\ NothingMissed'
    BY <1>1, <1>3, <2>2 DEF StreamInv, EndsAfterLast, NothingMissed
  <2>5. QED
    BY <1>1, <2>2, <2>3, <2>4 DEF StreamInv, StreamTypes
<1>4. QED
  BY <1>2, <1>3 DEF RecvRead

LEMMA StreamStepInv == StreamInv /\ [BufferNext]_bufferVars => StreamInv'
<1> SUFFICES ASSUME StreamInv, [BufferNext]_bufferVars PROVE StreamInv'
  OBVIOUS
<1>1. /\ reader \in Readers /\ Millis(BufferTtl) \in Nat \ {0} /\ bufferTtl \in 0 .. Millis(BufferTtl)
      /\ reader.wait \in 0 .. Millis(BufferTtl)
      /\ reader.pending # <<>> => reader.at = "idle"
  BY ReaderParts, StreamNumbers DEF StreamInv, StreamTypes
<1>2. CASE RecvCheck \/ RecvFails
  <2>1. /\ UNCHANGED <<buffer, bufferTtl, life, got, endSeen>>
        /\ reader.at \in {"blocked", "checking"}
    BY <1>2 DEF RecvCheck, RecvFails
  <2>2. /\ reader' \in Readers /\ reader'.from = reader.from /\ reader'.after = reader.after
        /\ reader'.pending = reader.pending /\ reader'.at \in {"idle", "gone"}
    <3>1. PICK at \in {"idle", "gone"}, wait \in 0 .. Millis(BufferTtl) :
            reader' = [reader EXCEPT !.at = at, !.wait = wait]
      <4>1. CASE RecvCheck
        <5>1. reader' = [reader EXCEPT !.at = IF buffer = <<>> THEN "gone" ELSE "idle"]
          BY <4>1 DEF RecvCheck
        <5>2. reader' = [reader EXCEPT !.at = IF buffer = <<>> THEN "gone" ELSE "idle",
                                       !.wait = reader.wait]
          BY <1>1, <5>1 DEF Readers
        <5>3. QED
          BY <1>1, <5>2
      <4>2. CASE RecvFails
        <5>1. 0 \in 0 .. Millis(BufferTtl)
          BY <1>1
        <5>2. QED
          BY <4>2, <5>1 DEF RecvFails
      <4>3. QED
        BY <1>2, <4>1, <4>2
    <3>2. QED
      BY <1>1, <3>1 DEF Readers
  <2>3. QED
    BY <1>1, <2>1, <2>2, NothingRead
<1>3. CASE BufferRemove
  BY <1>1, <1>3, NothingRead DEF BufferRemove
<1>4. CASE BufferTick
  <2>1. /\ Less(bufferTtl) \in 0 .. Millis(BufferTtl) /\ Less(reader.wait) \in 0 .. Millis(BufferTtl)
        /\ Expires(bufferTtl) => Less(bufferTtl) = 0
        /\ ~ Expires(bufferTtl) => (bufferTtl = 0 <=> Less(bufferTtl) = 0)
    BY <1>1, LessOfWait
  <2>2. /\ bufferTtl' \in 0 .. Millis(BufferTtl) /\ UNCHANGED <<life, got, endSeen>>
        /\ \/ buffer' = buffer /\ (bufferTtl' = 0 <=> bufferTtl = 0)
           \/ buffer' = <<>> /\ bufferTtl' = 0
    BY <1>4, <2>1 DEF BufferTick
  <2>3. /\ reader' \in Readers /\ reader'.from = reader.from /\ reader'.after = reader.after
        /\ reader'.pending = reader.pending
        /\ reader'.at = IF reader.at = "blocked" /\ Expires(reader.wait) THEN "checking" ELSE reader.at
    BY <1>1, <1>4, <2>1 DEF BufferTick, Readers
  <2>4. QED
    BY <1>1, <2>2, <2>3, NothingRead
<1>5. CASE UNCHANGED bufferVars
  BY <1>1, <1>5, NothingRead DEF bufferVars
<1>6. QED
  BY <1>2, <1>3, <1>4, <1>5, AppendOrFinishKeeps, RecvPendingKeeps, RecvReadKeeps
     DEF BufferNext, RecvStep

\* What was got in the present life is what a plain read would return first, or
\* the read fails like recv did.
LEMMA GotIsRead ==
  ASSUME StreamInv, got # <<>>, buffer # <<>>, got[1].life = life
  PROVE  /\ IsPrefix(got, BodiesAmong(After(buffer, reader.from)))
         /\ Unparsed(got) => Contents(reader.from) = ReadFailed
<1> DEFINE e == After(buffer, reader.from)
           bodies == BodiesAmong(e)
<1>1. /\ got \in Seq(Entries) /\ Len(got) \in Nat \ {0} /\ reader.from \in Nat
      /\ buffer \in Seq(Entries) /\ Len(buffer) \in Nat /\ life \in Nat
  BY ReaderParts, InSequence
<1>2. /\ Placed(got, reader.from, buffer, life) /\ LivesFollow(got, reader.pending)
      /\ \A i \in 1 .. Len(got) : got[i].is = "body"
  BY DEF StreamInv, ReadSoFar
<1>3. ASSUME NEW i \in 1 .. Len(got)
      PROVE  reader.from + i \in 1 .. Len(buffer) /\ got[i] = buffer[reader.from + i]
  <2>1. got[i].life \in Nat /\ got[i].life <= life
    <3>1. got[i] \in Entries
      BY <1>1, InSequence
    <3>2. QED
      BY <1>2, <3>1 DEF Placed, Entries
  <2>2. 1 \in 1 .. Len(got) /\ (i = 1 \/ 1 < i)
    BY <1>1
  <2>3. i = 1 \/ got[1].life <= got[i].life
    BY <1>2, <2>2 DEF LivesFollow
  <2>4. got[i].life = life
    BY <1>1, <2>1, <2>3
  <2>5. QED
    BY <1>2, <2>4 DEF Placed
<1>4. reader.from + Len(got) <= Len(buffer)
  <2>1. Len(got) \in 1 .. Len(got)
    BY <1>1
  <2>2. QED
    BY <1>1, <1>3, <2>1
<1>5. /\ e \in Seq(Entries) /\ Len(e) = Len(buffer) - reader.from /\ e # <<>>
      /\ \A i \in 1 .. Len(e) : reader.from + i \in 1 .. Len(buffer) /\ e[i] = buffer[reader.from + i]
  <2>1. reader.from < Len(buffer)
    BY <1>1, <1>4
  <2>2. QED
    BY <1>1, <2>1, AfterIs
<1> HIDE DEF e
<1>6. Len(e) \in Nat /\ Len(got) <= Len(e) /\ Len(e) \in 1 .. Len(e)
  BY <1>1, <1>4, <1>5
<1>7. \A i \in 1 .. Len(got) : i \in 1 .. Len(e) /\ got[i] = e[i]
  BY <1>3, <1>5, <1>6
<1>8. \A i \in 1 .. Len(e) - 1 : e[i].is = "body"
  <2> SUFFICES ASSUME NEW i \in 1 .. Len(e) - 1 PROVE e[i].is = "body"
    OBVIOUS
  <2>1. i \in 1 .. Len(e) /\ i < Len(e)
    BY <1>6
  <2>2. reader.from + i \in 1 .. Len(buffer) /\ e[i] = buffer[reader.from + i] /\ e[i] \in Entries
    BY <1>5, <2>1, InSequence
  <2>3. buffer[reader.from + i].is = "end" => reader.from + i = Len(buffer)
    BY <2>2 DEF StreamInv, Shaped
  <2>4. e[i].is # "end"
    BY <1>1, <1>5, <2>1, <2>2, <2>3
  <2>5. QED
    BY <2>2, <2>4 DEF Entries
<1> DEFINE n == IF e[Len(e)].is # "body" THEN Len(e) - 1 ELSE Len(e)
<1>9. bodies = SubSeq(e, 1, n)
  BY <1>5, <1>8, BodiesAre
<1>10. n \in 0 .. Len(e) /\ Len(got) <= n
  <2>1. CASE e[Len(e)].is # "body"
    <3>1. Len(got) # Len(e)
      BY <1>2, <1>6, <1>7, <2>1
    <3>2. QED
      BY <1>1, <1>6, <2>1, <3>1
  <2>2. CASE e[Len(e)].is = "body"
    BY <1>6, <2>2
  <2>3. QED
    BY <2>1, <2>2
<1> HIDE DEF n, bodies
<1>11. bodies \in Seq(Entries) /\ Len(bodies) = n /\ \A i \in 1 .. n : bodies[i] = e[i]
  <2>1. ASSUME NEW k \in 0 .. Len(e)
        PROVE  /\ SubSeq(e, 1, k) \in Seq(Entries) /\ Len(SubSeq(e, 1, k)) = k
               /\ \A i \in 1 .. k : SubSeq(e, 1, k)[i] = e[i]
    BY <1>5
  <2>2. QED
    BY <1>9, <1>10, <2>1
<1>12. SubSeq(got, 1, Len(got)) = SubSeq(bodies, 1, Len(got))
  <2>1. ASSUME NEW x \in Seq(Entries), NEW k \in 0 .. Len(x)
        PROVE  /\ SubSeq(x, 1, k) \in Seq(Entries) /\ Len(SubSeq(x, 1, k)) = k
               /\ \A i \in 1 .. k : SubSeq(x, 1, k)[i] = x[i]
    OBVIOUS
  <2>2. ASSUME NEW x \in Seq(Entries), NEW y \in Seq(Entries), Len(x) = Len(y),
               \A i \in 1 .. Len(x) : x[i] = y[i]
        PROVE  x = y
    BY <2>2
  <2> DEFINE a == SubSeq(got, 1, Len(got))
             b == SubSeq(bodies, 1, Len(got))
  <2>3. a \in Seq(Entries) /\ Len(a) = Len(got) /\ \A i \in 1 .. Len(got) : a[i] = got[i]
    BY <1>1, <2>1
  <2>4. b \in Seq(Entries) /\ Len(b) = Len(got) /\ \A i \in 1 .. Len(got) : b[i] = bodies[i]
    <3>1. Len(got) \in 0 .. Len(bodies)
      BY <1>1, <1>10, <1>11
    <3>2. QED
      BY <1>11, <2>1, <3>1
  <2> HIDE DEF a, b
  <2>5. \A i \in 1 .. Len(got) : a[i] = b[i]
    <3> SUFFICES ASSUME NEW i \in 1 .. Len(got) PROVE a[i] = b[i]
      OBVIOUS
    <3>1. i \in 1 .. n
      BY <1>1, <1>10
    <3>2. QED
      BY <1>7, <1>11, <2>3, <2>4, <3>1
  <2>6. a = b
    BY <2>2, <2>3, <2>4, <2>5
  <2>7. QED
    BY <2>6 DEF a, b
<1>13. IsPrefix(got, bodies)
  BY <1>10, <1>11, <1>12 DEF IsPrefix
<1>14. Unparsed(got) => Unparsed(e)
  BY <1>7 DEF Unparsed
<1>15. Unparsed(e) => Contents(reader.from) = ReadFailed
  BY DEF Contents, e
<1>16. QED
  BY <1>13, <1>14, <1>15 DEF bodies, e

LEMMA StreamInvFaithful == StreamInv => BufferFaithful
<1> SUFFICES ASSUME StreamInv PROVE BufferFaithful
  OBVIOUS
<1>1. BufferTypeOK
  <2>1. reader.at \in {"idle", "blocked", "checking", "ended", "gone"}
    BY DEF StreamInv, StreamTypes, Readers
  <2>2. QED
    BY <2>1, ReaderParts DEF StreamInv, StreamTypes, BufferTypeOK
<1>2. SubscriberInOrder
  BY GotIsRead DEF StreamInv, ReadSoFar, Placed, LivesFollow, SubscriberInOrder
<1>3. QED
  BY <1>1, <1>2 DEF StreamInv, BufferFaithful

\* A subscriber comes to the bodies at one index after the other, in order and
\* once, and to the end after the last: through failed reads and bodies it cannot
\* parse, and on the next buffer of the name where the one it read is gone.
THEOREM BufferIsFaithful == BufferSpec => []BufferFaithful
<1>1. BufferSpec => []StreamInv
  BY StreamInitInv, StreamStepInv, PTL DEF BufferSpec
<1>2. QED
  BY <1>1, StreamInvFaithful, PTL

-----------------------------------------------------------------------------
(***************************************************************************)
(* The pipe, for any bounds: the receiver takes what was sent in the order *)
(* of sending, and the close comes after the messages before it.           *)
(***************************************************************************)

Receivers ==
  [at : {"idle", "blocked", "closed", "gone"}, wait : Nat, close : Nat]

PipeTypes ==
  /\ sent \in Nat /\ messages \in Seq(1 .. sent) /\ taken \in Seq(1 .. sent)
  /\ closed \in Seq(0 .. sent) /\ closes \in Seq(1 .. Len(closed))
  /\ messagesTtl \in 0 .. Millis(PipeTtl) /\ closesTtl \in 0 .. Millis(PipeTtl)
  /\ receiver \in Receivers /\ receiver.close <= Len(closed)
  /\ lost \subseteq 1 .. sent

\* What was taken was sent before what waits, and both are in order.
InSendingOrder ==
  /\ \A i, j \in 1 .. Len(taken) : i < j => taken[i] < taken[j]
  /\ \A i, j \in 1 .. Len(messages) : i < j => messages[i] < messages[j]
  /\ \A i \in 1 .. Len(taken), j \in 1 .. Len(messages) : taken[i] < messages[j]

CloseComesLast ==
  receiver.close > 0 => 1 .. closed[receiver.close] \subseteq ToSet(taken) \cup lost

PipeInv ==
  PipeTypes /\ InSendingOrder /\ CloseComesLast /\ NoMessageForgotten /\ WaitsForNothing

LEMMA MillisIs == Millis(PipeTtl) \in Nat \ {0}
BY PipeAssumption DEF PipeAssumption, Millis

LEMMA LessIs ==
  ASSUME NEW bound \in Nat, NEW ttl \in 0 .. bound
  PROVE  /\ Less(ttl) \in 0 .. bound /\ Less(ttl) >= 0
         /\ Expires(ttl) => Less(ttl) = 0
         /\ ~ Expires(ttl) => (ttl > 0 <=> Less(ttl) > 0)
BY DEF Less, Expires

\* The elements of a sequence that grows at its end, or loses its first.
LEMMA ElementsAppended ==
  ASSUME NEW S, NEW s \in Seq(S), NEW e \in S
  PROVE  /\ ToSet(Append(s, e)) = ToSet(s) \cup {e}
         /\ Append(s, e) \in Seq(S) /\ Append(s, e) # <<>>
         /\ Len(Append(s, e)) = Len(s) + 1 /\ Append(s, e)[Len(s) + 1] = e
         /\ \A i \in 1 .. Len(s) : Append(s, e)[i] = s[i]
<1>1. /\ Append(s, e) \in Seq(S) /\ Append(s, e) # <<>>
      /\ Len(Append(s, e)) = Len(s) + 1 /\ Append(s, e)[Len(s) + 1] = e
      /\ \A i \in 1 .. Len(s) : Append(s, e)[i] = s[i]
  OBVIOUS
<1>2. /\ DOMAIN s = 1 .. Len(s) /\ DOMAIN Append(s, e) = 1 .. Len(s) + 1 /\ Len(s) \in Nat
  BY <1>1
<1> DEFINE t == Append(s, e)
<1> HIDE DEF t
<1>3. {t[i] : i \in 1 .. Len(s) + 1} = {s[i] : i \in 1 .. Len(s)} \cup {e}
  BY <1>1, <1>2 DEF t
<1>4. QED
  BY <1>1, <1>2, <1>3 DEF ToSet, t

LEMMA ElementsTaken ==
  ASSUME NEW S, NEW s \in Seq(S), s # <<>>
  PROVE  /\ Head(s) \in S /\ Tail(s) \in Seq(S) /\ Head(s) = s[1]
         /\ Len(Tail(s)) = Len(s) - 1 /\ Len(s) \in Nat \ {0}
         /\ \A i \in 1 .. Len(s) - 1 : Tail(s)[i] = s[i + 1]
         /\ Tail(s) = <<>> <=> Len(s) = 1
         /\ ToSet(s) = {Head(s)} \cup ToSet(Tail(s))
<1>1. /\ Head(s) \in S /\ Tail(s) \in Seq(S) /\ Head(s) = s[1]
      /\ Len(Tail(s)) = Len(s) - 1 /\ Len(s) \in Nat \ {0}
      /\ \A i \in 1 .. Len(s) - 1 : Tail(s)[i] = s[i + 1]
      /\ Tail(s) = <<>> <=> Len(s) = 1
  <2>1. Len(s) \in Nat \ {0} /\ Head(s) = s[1] /\ Tail(s) \in Seq(S) /\ Len(Tail(s)) = Len(s) - 1
    OBVIOUS
  <2>2. s[1] \in S
    BY <2>1
  <2>3. Tail(s) = <<>> <=> Len(s) = 1
    <3>1. ASSUME NEW t \in Seq(S) PROVE t = <<>> <=> Len(t) = 0
      OBVIOUS
    <3>2. Tail(s) = <<>> <=> Len(Tail(s)) = 0
      BY <2>1, <3>1, Zenon
    <3>3. QED
      BY <2>1, <3>2
  <2>4. ASSUME NEW i \in 1 .. Len(s) - 1 PROVE Tail(s)[i] = s[i + 1]
    BY <2>1
  <2>5. QED
    BY <2>1, <2>2, <2>3, <2>4
<1> DEFINE t == Tail(s)
<1> HIDE DEF t
<1>2. DOMAIN s = 1 .. Len(s) /\ DOMAIN t = 1 .. Len(s) - 1
  BY <1>1 DEF t
<1>3. ASSUME NEW i \in 1 .. Len(s) PROVE s[i] = Head(s) \/ \E j \in 1 .. Len(s) - 1 : s[i] = t[j]
  <2>1. CASE i = 1
    BY <1>1, <2>1
  <2>2. CASE i # 1
    <3>1. i - 1 \in 1 .. Len(s) - 1 /\ t[i - 1] = s[i]
      BY <1>1, <2>2 DEF t
    <3>2. QED
      BY <3>1
  <2>3. QED
    BY <2>1, <2>2
<1>4. ASSUME NEW j \in 1 .. Len(s) - 1 PROVE \E i \in 1 .. Len(s) : s[i] = t[j]
  <2>1. j + 1 \in 1 .. Len(s) /\ s[j + 1] = t[j]
    BY <1>1 DEF t
  <2>2. QED
    BY <2>1
<1>5. 1 \in 1 .. Len(s)
  BY <1>1
<1>6. {s[i] : i \in 1 .. Len(s)} = {Head(s)} \cup {t[i] : i \in 1 .. Len(s) - 1}
  BY <1>1, <1>3, <1>4, <1>5
<1>7. QED
  BY <1>1, <1>2, <1>6 DEF ToSet, t

LEMMA ElementIn ==
  ASSUME NEW S, NEW s \in Seq(S), NEW i \in 1 .. Len(s)
  PROVE  s[i] \in S
OBVIOUS

LEMMA ElementsOf ==
  ASSUME NEW S, NEW s \in Seq(S)
  PROVE  ToSet(s) \subseteq S /\ (s = <<>> => ToSet(s) = {})
BY DEF ToSet

\* More was sent than before, or pushed to the list of closes.
LEMMA MoreOfThem ==
  ASSUME NEW a \in Nat, NEW b \in Nat, a <= b
  PROVE  /\ \A s \in Seq(1 .. a) : s \in Seq(1 .. b)
         /\ \A s \in Seq(0 .. a) : s \in Seq(0 .. b)
<1>1. 1 .. a \subseteq 1 .. b /\ 0 .. a \subseteq 0 .. b
  OBVIOUS
<1>2. QED
  BY <1>1

LEMMA PipeInitInv == PipeInit => PipeInv
<1> SUFFICES ASSUME PipeInit PROVE PipeInv
  OBVIOUS
<1>1. ToSet(<<>>) = {}
  BY DEF ToSet
<1>2. 1 .. 0 = {} /\ Millis(PipeTtl) \in Nat /\ Len(<<>>) = 0 /\ \A S : <<>> \in Seq(S)
  BY MillisIs
<1>3. PipeTypes
  BY <1>2 DEF PipeInit, PipeTypes, Receiver, Receivers
<1>4. QED
  BY <1>1, <1>2, <1>3 DEF PipeInit, PipeInv, InSendingOrder, CloseComesLast, NoMessageForgotten,
     WaitsForNothing, Receiver

\* A message that waits in front, or comes when nobody waits, is delivered.
LEMMA Delivered ==
  ASSUME NEW m \in 1 .. sent', Deliver(m), sent \in Nat, sent' \in Nat, sent <= sent',
         taken \in Seq(1 .. sent), lost \subseteq 1 .. sent, InSendingOrder,
         \A i \in 1 .. Len(taken) : taken[i] < m
  PROVE  /\ taken' \in Seq(1 .. sent') /\ lost' \subseteq 1 .. sent'
         /\ receiver' \in Receivers /\ receiver'.close = 0 /\ receiver'.at = "idle"
         /\ \A i, j \in 1 .. Len(taken') : i < j => taken'[i] < taken'[j]
         /\ \A i \in 1 .. Len(taken') : taken'[i] <= m
         /\ ToSet(taken') \cup lost' = ToSet(taken) \cup lost \cup {m}
<1>1. receiver' \in Receivers /\ receiver'.close = 0 /\ receiver'.at = "idle"
  BY DEF Deliver, Receiver, Receivers
<1>2. taken \in Seq(1 .. sent') /\ lost \subseteq 1 .. sent' /\ Len(taken) \in Nat /\ m \in Nat
      /\ \A i \in 1 .. Len(taken) : taken[i] \in Nat
  BY MoreOfThem
<1>3. CASE taken' = Append(taken, m) /\ lost' = lost
  <2>1. /\ taken' \in Seq(1 .. sent') /\ Len(taken') = Len(taken) + 1 /\ taken'[Len(taken) + 1] = m
        /\ \A i \in 1 .. Len(taken) : taken'[i] = taken[i]
        /\ ToSet(taken') = ToSet(taken) \cup {m}
    BY <1>2, <1>3, ElementsAppended
  <2>2. \A i, j \in 1 .. Len(taken') : i < j => taken'[i] < taken'[j]
    <3> SUFFICES ASSUME NEW i \in 1 .. Len(taken'), NEW j \in 1 .. Len(taken'), i < j
                 PROVE  taken'[i] < taken'[j]
      OBVIOUS
    <3>1. i \in 1 .. Len(taken) /\ taken'[i] = taken[i]
      BY <1>2, <2>1
    <3>2. CASE j = Len(taken) + 1
      BY <2>1, <3>1, <3>2
    <3>3. CASE j # Len(taken) + 1
      <4>1. j \in 1 .. Len(taken) /\ taken'[j] = taken[j]
        <5>1. Len(taken') = Len(taken) + 1 /\ Len(taken) \in Nat
          BY <1>2, <2>1
        <5>2. j \in 1 .. Len(taken) + 1
          BY <5>1
        <5>3. j \in 1 .. Len(taken)
          BY <3>3, <5>1, <5>2
        <5>4. QED
          BY <2>1, <5>3
      <4>2. taken[i] < taken[j]
        BY <3>1, <4>1 DEF InSendingOrder
      <4>3. QED
        BY <3>1, <4>1, <4>2
    <3>4. QED
      BY <3>2, <3>3
  <2>3. ASSUME NEW i \in 1 .. Len(taken') PROVE taken'[i] <= m
    <3>1. CASE i = Len(taken) + 1
      BY <1>2, <2>1, <3>1
    <3>2. CASE i # Len(taken) + 1
      <4>1. i \in 1 .. Len(taken)
        BY <1>2, <2>1, <3>2
      <4>2. taken'[i] = taken[i] /\ taken[i] < m /\ taken[i] \in Nat
        BY <1>2, <2>1, <4>1
      <4>3. QED
        BY <1>2, <4>2
    <3>3. QED
      BY <3>1, <3>2
  <2>4. QED
    BY <1>1, <1>2, <1>3, <2>1, <2>2, <2>3
<1>4. CASE taken' = taken /\ lost' = lost \cup {m}
  BY <1>1, <1>2, <1>4 DEF InSendingOrder
<1>5. QED
  BY <1>3, <1>4 DEF Deliver

LEMMA SendKeeps == ASSUME PipeInv, PipeSend PROVE PipeInv'
<1>1. /\ sent \in Nat /\ sent' = sent + 1 /\ sent' \in 1 .. sent' /\ sent' \in Nat /\ sent <= sent'
      /\ messages \in Seq(1 .. sent) /\ taken \in Seq(1 .. sent) /\ lost \subseteq 1 .. sent
      /\ closed' \in Seq(0 .. sent') /\ UNCHANGED <<closes, closesTtl, closed>>
      /\ closes' \in Seq(1 .. Len(closed')) /\ closesTtl' \in 0 .. Millis(PipeTtl)
      /\ messages \in Seq(1 .. sent') /\ taken \in Seq(1 .. sent')
      /\ Len(taken) \in Nat /\ Len(messages) \in Nat
      /\ \A i \in 1 .. Len(taken) : taken[i] \in Nat /\ taken[i] < sent'
      /\ \A i \in 1 .. Len(messages) : messages[i] \in Nat /\ messages[i] < sent'
  <2>1. sent \in Nat /\ sent' = sent + 1 /\ sent <= sent' /\ sent' \in Nat
    BY DEF PipeInv, PipeTypes, PipeSend
  <2>2. QED
    BY <2>1, MoreOfThem DEF PipeInv, PipeTypes, PipeSend
<1>2. /\ receiver \in Receivers /\ receiver.close <= Len(closed)
      /\ messagesTtl \in 0 .. Millis(PipeTtl) /\ Millis(PipeTtl) \in Nat \ {0}
      /\ Len(closed) \in Nat
      /\ InSendingOrder /\ CloseComesLast /\ NoMessageForgotten /\ WaitsForNothing
  BY MillisIs DEF PipeInv, PipeTypes
<1>3. 1 .. sent' = 1 .. sent \cup {sent'}
  BY <1>1
<1>4. CASE receiver.at = "blocked"
  <2>1. Deliver(sent') /\ UNCHANGED <<messages, messagesTtl>> /\ messages = <<>> /\ closes = <<>>
    BY <1>1, <1>2, <1>4 DEF PipeSend, WaitsForNothing
  <2>2. /\ taken' \in Seq(1 .. sent') /\ lost' \subseteq 1 .. sent'
        /\ receiver' \in Receivers /\ receiver'.close = 0 /\ receiver'.at = "idle"
        /\ \A i, j \in 1 .. Len(taken') : i < j => taken'[i] < taken'[j]
        /\ ToSet(taken') \cup lost' = ToSet(taken) \cup lost \cup {sent'}
    BY <1>1, <1>2, <2>1, Delivered
  <2>3. Len(messages') = 0 /\ ToSet(messages') = {} /\ ToSet(messages) = {}
    BY <2>1 DEF ToSet
  <2>4. PipeTypes'
    BY <1>1, <1>2, <2>1, <2>2 DEF PipeTypes
  <2>5. InSendingOrder' /\ CloseComesLast' /\ WaitsForNothing'
    BY <2>2, <2>3 DEF InSendingOrder, CloseComesLast, WaitsForNothing
  <2>6. NoMessageForgotten'
    BY <1>1, <1>2, <1>3, <2>1, <2>2, <2>3 DEF NoMessageForgotten
  <2>7. QED
    BY <2>4, <2>5, <2>6 DEF PipeInv
<1>5. CASE receiver.at # "blocked"
  <2>1. /\ messages' = Append(messages, sent') /\ messagesTtl' = Millis(PipeTtl)
        /\ UNCHANGED <<receiver, taken, lost>>
    BY <1>1, <1>5 DEF PipeSend
  <2>2. /\ messages' \in Seq(1 .. sent') /\ Len(messages') = Len(messages) + 1
        /\ messages'[Len(messages) + 1] = sent' /\ messages' # <<>>
        /\ \A i \in 1 .. Len(messages) : messages'[i] = messages[i]
        /\ ToSet(messages') = ToSet(messages) \cup {sent'}
    <3>1. messages \in Seq(1 .. sent') /\ sent' \in 1 .. sent'
      BY <1>1
    <3> DEFINE longer == Append(messages, sent')
    <3>2. /\ longer \in Seq(1 .. sent') /\ Len(longer) = Len(messages) + 1
          /\ longer[Len(messages) + 1] = sent' /\ longer # <<>>
          /\ \A i \in 1 .. Len(messages) : longer[i] = messages[i]
          /\ ToSet(longer) = ToSet(messages) \cup {sent'}
      BY <3>1, ElementsAppended
    <3>3. QED
      BY <2>1, <3>2
  <2>3. PipeTypes'
    BY <1>1, <1>2, <2>1, <2>2 DEF PipeTypes
  <2>4. InSendingOrder'
    <3>1. ASSUME NEW i \in 1 .. Len(messages'), NEW j \in 1 .. Len(messages'), i < j
          PROVE  messages'[i] < messages'[j]
      <4>1. i \in 1 .. Len(messages)
        BY <1>1, <2>2, <3>1
      <4>2. CASE j = Len(messages) + 1
        BY <1>1, <2>2, <4>1, <4>2
      <4>3. CASE j # Len(messages) + 1
        <5>1. j \in 1 .. Len(messages)
          BY <1>1, <2>2, <4>3
        <5>2. QED
          BY <1>2, <2>2, <3>1, <4>1, <5>1 DEF InSendingOrder
      <4>4. QED
        BY <4>2, <4>3
    <3>2. ASSUME NEW i \in 1 .. Len(taken), NEW j \in 1 .. Len(messages')
          PROVE  taken[i] < messages'[j]
      <4>1. CASE j = Len(messages) + 1
        BY <1>1, <2>2, <4>1
      <4>2. CASE j # Len(messages) + 1
        <5>1. j \in 1 .. Len(messages)
          BY <1>1, <2>2, <4>2
        <5>2. QED
          BY <1>2, <2>2, <5>1 DEF InSendingOrder
      <4>3. QED
        BY <4>1, <4>2
    <3>3. QED
      BY <1>2, <2>1, <3>1, <3>2 DEF InSendingOrder
  <2>5. NoMessageForgotten'
    <3>1. 1 .. sent' = ToSet(taken') \cup lost' \cup ToSet(messages')
      BY <1>2, <1>3, <2>1, <2>2 DEF NoMessageForgotten
    <3>2. messages' # <<>> /\ messagesTtl' > 0
      BY <1>2, <2>1, <2>2
    <3>3. closes' # <<>> <=> closesTtl' > 0
      BY <1>1, <1>2 DEF NoMessageForgotten
    <3>4. QED
      BY <3>1, <3>2, <3>3 DEF NoMessageForgotten
  <2>6. CloseComesLast' /\ WaitsForNothing'
    BY <1>1, <1>2, <1>5, <2>1 DEF CloseComesLast, WaitsForNothing
  <2>7. QED
    BY <2>3, <2>4, <2>5, <2>6 DEF PipeInv
<1>6. QED
  BY <1>4, <1>5

\* The lists of messages and what became of them are as before.
LEMMA MessagesAsBefore ==
  ASSUME PipeInv, UNCHANGED <<messages, messagesTtl, taken, sent, lost>>
  PROVE  /\ sent' \in Nat /\ messages' \in Seq(1 .. sent') /\ taken' \in Seq(1 .. sent')
         /\ messagesTtl' \in 0 .. Millis(PipeTtl) /\ lost' \subseteq 1 .. sent'
         /\ InSendingOrder'
         /\ 1 .. sent' = ToSet(taken') \cup lost' \cup ToSet(messages')
         /\ messages' # <<>> <=> messagesTtl' > 0
BY DEF PipeInv, PipeTypes, InSendingOrder, NoMessageForgotten

LEMMA CloseKeeps == ASSUME PipeInv, PipeClose PROVE PipeInv'
<1>1. /\ sent \in Nat /\ closed \in Seq(0 .. sent) /\ sent \in 0 .. sent
      /\ closed' = Append(closed, sent) /\ Len(closed) \in Nat
      /\ closes \in Seq(1 .. Len(closed)) /\ closesTtl \in 0 .. Millis(PipeTtl)
      /\ Millis(PipeTtl) \in Nat \ {0} /\ sent' = sent
      /\ receiver \in Receivers /\ receiver.close <= Len(closed)
  BY MillisIs DEF PipeInv, PipeTypes, PipeClose
<1>2. /\ closed' \in Seq(0 .. sent) /\ Len(closed') = Len(closed) + 1
      /\ closed'[Len(closed) + 1] = sent /\ \A i \in 1 .. Len(closed) : closed'[i] = closed[i]
      /\ closes \in Seq(1 .. Len(closed')) /\ Len(closed') \in 1 .. Len(closed')
  <2>1. /\ closed' \in Seq(0 .. sent) /\ Len(closed') = Len(closed) + 1
        /\ closed'[Len(closed) + 1] = sent /\ \A i \in 1 .. Len(closed) : closed'[i] = closed[i]
    BY <1>1, ElementsAppended
  <2>2. Len(closed) <= Len(closed') /\ Len(closed') \in Nat /\ Len(closed') \in 1 .. Len(closed')
    BY <1>1, <2>1
  <2>3. QED
    BY <1>1, <2>1, <2>2, MoreOfThem
<1>3. UNCHANGED <<messages, messagesTtl, taken, sent, lost>>
  BY DEF PipeClose
<1>4. /\ messages' \in Seq(1 .. sent') /\ taken' \in Seq(1 .. sent')
      /\ messagesTtl' \in 0 .. Millis(PipeTtl) /\ lost' \subseteq 1 .. sent'
      /\ InSendingOrder'
      /\ 1 .. sent' = ToSet(taken') \cup lost' \cup ToSet(messages')
      /\ messages' # <<>> <=> messagesTtl' > 0
  BY <1>3, MessagesAsBefore
<1>5. CASE receiver.at = "blocked"
  <2>1. /\ receiver' = [Receiver("closed") EXCEPT !.close = Len(closed')]
        /\ UNCHANGED <<closes, closesTtl>> /\ messages = <<>>
    BY <1>5 DEF PipeClose, PipeInv, WaitsForNothing
  <2>2. receiver' \in Receivers /\ receiver'.close = Len(closed) + 1 /\ receiver'.at = "closed"
    BY <1>1, <1>2, <2>1 DEF Receiver, Receivers
  <2>3. CloseComesLast'
    <3>1. ToSet(messages') = {}
      BY <1>3, <2>1 DEF ToSet
    <3>2. QED
      BY <1>1, <1>2, <1>4, <2>2, <3>1 DEF CloseComesLast
  <2>4. PipeTypes'
    BY <1>1, <1>2, <1>4, <2>1, <2>2 DEF PipeTypes
  <2>5. closes' # <<>> <=> closesTtl' > 0
    BY <2>1 DEF PipeInv, NoMessageForgotten
  <2>6. QED
    BY <1>4, <2>2, <2>3, <2>4, <2>5 DEF PipeInv, WaitsForNothing, NoMessageForgotten
<1>6. CASE receiver.at # "blocked"
  <2>1. /\ closes' = Append(closes, Len(closed')) /\ closesTtl' = Millis(PipeTtl)
        /\ receiver' = receiver
    BY <1>6 DEF PipeClose
  <2>2. closes' \in Seq(1 .. Len(closed')) /\ closes' # <<>>
    BY <1>2, <2>1, ElementsAppended
  <2>3. CloseComesLast'
    <3>1. receiver.close > 0 => closed'[receiver.close] = closed[receiver.close]
      BY <1>1, <1>2 DEF Receivers
    <3>2. receiver.close > 0 => 1 .. closed[receiver.close] \subseteq ToSet(taken) \cup lost
      BY DEF CloseComesLast, PipeInv
    <3>3. QED
      BY <1>3, <2>1, <3>1, <3>2 DEF CloseComesLast
  <2>4. PipeTypes'
    <3>1. closesTtl' \in 0 .. Millis(PipeTtl) /\ receiver' \in Receivers
          /\ receiver'.close <= Len(closed') /\ sent' \in Nat /\ closed' \in Seq(0 .. sent')
      BY <1>1, <1>2, <2>1 DEF Receivers
    <3>2. QED
      BY <1>4, <2>2, <3>1 DEF PipeTypes
  <2>5. closes' # <<>> /\ closesTtl' > 0
    BY <1>1, <2>1, <2>2
  <2>6. QED
    BY <1>4, <1>6, <2>1, <2>3, <2>4, <2>5 DEF PipeInv, WaitsForNothing, NoMessageForgotten
<1>7. QED
  BY <1>5, <1>6

LEMMA PopMessageKeeps == ASSUME PipeInv, PopMessage PROVE PipeInv'
<1> DEFINE m == Head(messages)
<1>1. /\ sent \in Nat /\ messages \in Seq(1 .. sent) /\ taken \in Seq(1 .. sent)
      /\ lost \subseteq 1 .. sent /\ messages # <<>> /\ Millis(PipeTtl) \in Nat
      /\ messagesTtl \in 0 .. Millis(PipeTtl) /\ InSendingOrder /\ NoMessageForgotten
      /\ UNCHANGED <<closes, closesTtl, sent, closed>> /\ Deliver(m)
      /\ messages' = Tail(messages)
      /\ messagesTtl' = (IF Tail(messages) = <<>> THEN 0 ELSE messagesTtl)
  BY MillisIs DEF PipeInv, PipeTypes, PopMessage
<1>2. /\ m \in 1 .. sent /\ messages' \in Seq(1 .. sent) /\ m = messages[1]
      /\ Len(messages') = Len(messages) - 1 /\ Len(messages) \in Nat \ {0}
      /\ \A i \in 1 .. Len(messages) - 1 : messages'[i] = messages[i + 1]
      /\ ToSet(messages) = {m} \cup ToSet(messages')
  BY <1>1, ElementsTaken
<1>3. \A i \in 1 .. Len(taken) : taken[i] < m
  BY <1>1, <1>2 DEF InSendingOrder
<1>4. /\ taken' \in Seq(1 .. sent') /\ lost' \subseteq 1 .. sent'
      /\ receiver' \in Receivers /\ receiver'.close = 0 /\ receiver'.at = "idle"
      /\ \A i, j \in 1 .. Len(taken') : i < j => taken'[i] < taken'[j]
      /\ \A i \in 1 .. Len(taken') : taken'[i] <= m
      /\ ToSet(taken') \cup lost' = ToSet(taken) \cup lost \cup {m}
  <2> HIDE DEF m
  <2>1. sent' = sent /\ m \in 1 .. sent' /\ sent <= sent'
    BY <1>1, <1>2
  <2>2. QED
    BY <1>1, <1>3, <2>1, Delivered
<1> HIDE DEF m
<1>5. InSendingOrder'
  <2>1. ASSUME NEW i \in 1 .. Len(messages')
        PROVE  /\ i + 1 \in 1 .. Len(messages) /\ messages'[i] = messages[i + 1] /\ m < messages'[i]
               /\ messages'[i] \in Nat
    <3>1. i + 1 \in 1 .. Len(messages) /\ 1 \in 1 .. Len(messages) /\ 1 < i + 1
          /\ messages'[i] = messages[i + 1] /\ messages'[i] \in 1 .. sent
      <4>1. i \in 1 .. Len(messages) - 1
        BY <1>2
      <4>2. messages'[i] = messages[i + 1] /\ messages'[i] \in 1 .. sent
        BY <1>2, <4>1, ElementIn
      <4>3. QED
        BY <1>2, <4>1, <4>2
    <3>2. messages[1] < messages[i + 1]
      BY <1>1, <3>1 DEF InSendingOrder
    <3>3. QED
      BY <1>2, <3>1, <3>2
  <2>2. ASSUME NEW i \in 1 .. Len(messages'), NEW j \in 1 .. Len(messages'), i < j
        PROVE  messages'[i] < messages'[j]
    <3>1. messages[i + 1] < messages[j + 1]
      BY <1>1, <2>1, <2>2 DEF InSendingOrder
    <3>2. QED
      BY <2>1, <3>1
  <2>3. ASSUME NEW i \in 1 .. Len(taken'), NEW j \in 1 .. Len(messages')
        PROVE  taken'[i] < messages'[j]
    <3>1. taken'[i] <= m /\ taken'[i] \in Nat
      <4>1. taken'[i] \in 1 .. sent'
        BY <1>4, ElementIn
      <4>2. QED
        BY <1>1, <1>4, <4>1
    <3>2. m \in Nat /\ m < messages'[j] /\ messages'[j] \in Nat
      BY <1>2, <2>1
    <3>3. QED
      BY <3>1, <3>2
  <2>4. QED
    BY <1>4, <2>2, <2>3 DEF InSendingOrder
<1>6. NoMessageForgotten'
  <2>1. 1 .. sent' = ToSet(taken') \cup lost' \cup ToSet(messages')
    BY <1>1, <1>2, <1>4 DEF NoMessageForgotten
  <2>2. messages' # <<>> <=> messagesTtl' > 0
    BY <1>1 DEF NoMessageForgotten
  <2>3. closes' # <<>> <=> closesTtl' > 0
    BY <1>1 DEF NoMessageForgotten
  <2>4. QED
    BY <2>1, <2>2, <2>3 DEF NoMessageForgotten
<1>7. PipeTypes'
  <2>1. /\ closed' \in Seq(0 .. sent') /\ closes' \in Seq(1 .. Len(closed'))
        /\ closesTtl' \in 0 .. Millis(PipeTtl) /\ Len(closed') \in Nat
    BY <1>1 DEF PipeInv, PipeTypes
  <2>2. messagesTtl' \in 0 .. Millis(PipeTtl) /\ sent' \in Nat /\ messages' \in Seq(1 .. sent')
    BY <1>1, <1>2
  <2>3. QED
    BY <1>4, <2>1, <2>2 DEF PipeTypes
<1>8. CloseComesLast' /\ WaitsForNothing'
  BY <1>4 DEF CloseComesLast, WaitsForNothing
<1>9. QED
  BY <1>5, <1>6, <1>7, <1>8 DEF PipeInv

LEMMA PopCloseKeeps == ASSUME PipeInv, PopClose PROVE PipeInv'
<1>1. /\ closed \in Seq(0 .. sent) /\ sent \in Nat /\ Len(closed) \in Nat
      /\ closes \in Seq(1 .. Len(closed)) /\ closesTtl \in 0 .. Millis(PipeTtl)
      /\ Millis(PipeTtl) \in Nat \ {0} /\ closes # <<>> /\ messages = <<>>
      /\ closes' = Tail(closes)
      /\ closesTtl' = (IF Tail(closes) = <<>> THEN 0 ELSE closesTtl)
      /\ receiver' = [Receiver("closed") EXCEPT !.close = Head(closes)]
      /\ UNCHANGED <<messages, messagesTtl, taken, sent, closed, lost>>
  BY MillisIs DEF PipeInv, PipeTypes, PopClose
<1>2. Head(closes) \in 1 .. Len(closed) /\ closes' \in Seq(1 .. Len(closed))
  BY <1>1, ElementsTaken
<1>3. /\ receiver' \in Receivers /\ receiver'.close = Head(closes) /\ receiver'.at = "closed"
  <2>1. ASSUME NEW c \in Nat
        PROVE  LET r == [Receiver("closed") EXCEPT !.close = c]
               IN r \in Receivers /\ r.close = c /\ r.at = "closed"
    BY DEF Receiver, Receivers
  <2>2. Head(closes) \in Nat
    BY <1>1, <1>2
  <2>3. QED
    BY <1>1, <2>1, <2>2
<1>4. /\ messages' \in Seq(1 .. sent') /\ taken' \in Seq(1 .. sent') /\ sent' \in Nat
      /\ messagesTtl' \in 0 .. Millis(PipeTtl) /\ lost' \subseteq 1 .. sent'
      /\ InSendingOrder'
      /\ 1 .. sent' = ToSet(taken') \cup lost' \cup ToSet(messages')
      /\ messages' # <<>> <=> messagesTtl' > 0
  BY <1>1, MessagesAsBefore
<1>5. CloseComesLast'
  <2>1. ToSet(messages') = {}
    BY <1>1 DEF ToSet
  <2>2. closed'[receiver'.close] \in 0 .. sent'
    <3>1. ASSUME NEW i \in 1 .. Len(closed) PROVE closed[i] \in 0 .. sent
      BY <1>1
    <3>2. QED
      BY <1>1, <1>2, <1>3, <3>1
  <2>3. 1 .. closed'[receiver'.close] \subseteq 1 .. sent'
    BY <1>4, <2>2
  <2>4. QED
    BY <1>4, <2>1, <2>3 DEF CloseComesLast
<1>6. closes' # <<>> <=> closesTtl' > 0
  BY <1>1 DEF PipeInv, NoMessageForgotten
<1>7. PipeTypes'
  <2>1. closesTtl' \in 0 .. Millis(PipeTtl) /\ receiver'.close <= Len(closed')
    BY <1>1, <1>2, <1>3
  <2>2. closes' \in Seq(1 .. Len(closed')) /\ closed' \in Seq(0 .. sent')
    BY <1>1, <1>2
  <2>3. QED
    BY <1>3, <1>4, <2>1, <2>2 DEF PipeTypes
<1>8. QED
  BY <1>3, <1>4, <1>5, <1>6, <1>7 DEF PipeInv, WaitsForNothing, NoMessageForgotten

\* Only the receiver moves.
LEMMA ReceiverMoves ==
  ASSUME PipeInv,
         UNCHANGED <<messages, messagesTtl, closes, closesTtl, taken, sent, closed, lost>>,
         receiver' \in Receivers, receiver'.close \in {0, receiver.close},
         receiver'.at = "blocked" => messages = <<>> /\ closes = <<>>
  PROVE  PipeInv'
<1>1. PipeTypes'
  BY DEF PipeInv, PipeTypes, Receivers
<1>2. QED
  BY <1>1 DEF PipeInv, InSendingOrder, CloseComesLast, NoMessageForgotten, WaitsForNothing

LEMMA TickKeepsPipe == ASSUME PipeInv, PipeTick PROVE PipeInv'
<1>1. /\ sent \in Nat /\ messages \in Seq(1 .. sent) /\ taken \in Seq(1 .. sent)
      /\ lost \subseteq 1 .. sent /\ Millis(PipeTtl) \in Nat
      /\ closed \in Seq(0 .. sent) /\ closes \in Seq(1 .. Len(closed))
      /\ messagesTtl \in 0 .. Millis(PipeTtl) /\ closesTtl \in 0 .. Millis(PipeTtl)
      /\ receiver \in Receivers /\ receiver.close <= Len(closed)
      /\ UNCHANGED <<taken, sent, closed>>
      /\ InSendingOrder /\ CloseComesLast /\ NoMessageForgotten /\ WaitsForNothing
  BY MillisIs DEF PipeInv, PipeTypes, PipeTick
<1>2. /\ messages' = (IF Expires(messagesTtl) THEN <<>> ELSE messages)
      /\ lost' = (IF Expires(messagesTtl) THEN lost \cup ToSet(messages) ELSE lost)
      /\ messagesTtl' = Less(messagesTtl)
      /\ closes' = (IF Expires(closesTtl) THEN <<>> ELSE closes)
      /\ closesTtl' = Less(closesTtl)
  BY DEF PipeTick
<1>3. /\ messagesTtl' \in 0 .. Millis(PipeTtl) /\ closesTtl' \in 0 .. Millis(PipeTtl)
      /\ Expires(messagesTtl) => messagesTtl' = 0
      /\ ~ Expires(messagesTtl) => (messagesTtl > 0 <=> messagesTtl' > 0)
      /\ Expires(closesTtl) => closesTtl' = 0
      /\ ~ Expires(closesTtl) => (closesTtl > 0 <=> closesTtl' > 0)
  BY <1>1, <1>2, LessIs
<1>4. /\ receiver' \in Receivers /\ receiver'.close = receiver.close
      /\ receiver'.at = "blocked" => receiver.at = "blocked"
  <2>1. Less(receiver.wait) \in Nat
    BY <1>1 DEF Less, Receivers
  <2>2. QED
    BY <1>1, <2>1 DEF PipeTick, Receivers
<1>5. ToSet(<<>>) = {} /\ ToSet(messages) \subseteq 1 .. sent /\ Len(<<>>) = 0
      /\ \A S : <<>> \in Seq(S)
  BY <1>1, ElementsOf DEF ToSet
<1>6. PipeTypes'
  BY <1>1, <1>2, <1>3, <1>4, <1>5 DEF PipeTypes
<1>7. InSendingOrder'
  <2>1. CASE Expires(messagesTtl)
    <3>1. Len(messages') = 0
      BY <1>2, <1>5, <2>1
    <3>2. QED
      BY <1>1, <3>1 DEF InSendingOrder
  <2>2. CASE ~ Expires(messagesTtl)
    BY <1>1, <1>2, <2>2 DEF InSendingOrder
  <2>3. QED
    BY <2>1, <2>2
<1>8. NoMessageForgotten'
  <2>1. 1 .. sent' = ToSet(taken') \cup lost' \cup ToSet(messages')
    BY <1>1, <1>2, <1>5 DEF NoMessageForgotten
  <2>2. messages' # <<>> <=> messagesTtl' > 0
    BY <1>1, <1>2, <1>3 DEF NoMessageForgotten
  <2>3. closes' # <<>> <=> closesTtl' > 0
    BY <1>1, <1>2, <1>3 DEF NoMessageForgotten
  <2>4. QED
    BY <2>1, <2>2, <2>3 DEF NoMessageForgotten
<1>9. CloseComesLast' /\ WaitsForNothing'
  BY <1>1, <1>2, <1>4 DEF CloseComesLast, WaitsForNothing
<1>10. QED
  BY <1>6, <1>7, <1>8, <1>9 DEF PipeInv

LEMMA PipeStepInv == PipeInv /\ [PipeNext]_pipeVars => PipeInv'
<1> SUFFICES ASSUME PipeInv, [PipeNext]_pipeVars PROVE PipeInv'
  OBVIOUS
<1>1. CASE Block
  <2>1. receiver' \in Receivers /\ receiver'.close = receiver.close
    BY <1>1, MillisIs DEF Block, PipeInv, PipeTypes, Receivers
  <2>2. QED
    BY <1>1, <2>1, ReceiverMoves DEF Block
<1>2. CASE PipeReceive
  <2>1. receiver' \in Receivers /\ receiver'.close = 0 /\ receiver'.at = "idle"
    BY <1>2 DEF PipeReceive, Receiver, Receivers
  <2>2. QED
    BY <1>2, <2>1, ReceiverMoves DEF PipeReceive
<1>3. CASE UNCHANGED pipeVars
  <2>1. receiver' \in Receivers /\ receiver' = receiver
    BY <1>3 DEF pipeVars, PipeInv, PipeTypes
  <2>2. QED
    BY <1>3, <2>1, ReceiverMoves DEF pipeVars, PipeInv, WaitsForNothing
<1>4. QED
  BY <1>1, <1>2, <1>3, SendKeeps, CloseKeeps, PopMessageKeeps, PopCloseKeeps, TickKeepsPipe
     DEF PipeNext

LEMMA PipeInvFaithful == PipeInv => PipeFaithful
<1> SUFFICES ASSUME PipeInv PROVE PipeFaithful
  OBVIOUS
<1>1. PipeTypeOK
  <2>1. /\ \A i \in 1 .. Len(messages) : messages[i] \in 1 .. sent
        /\ \A i \in 1 .. Len(closes) : closes[i] \in 1 .. Len(closed)
    BY ElementIn DEF PipeInv, PipeTypes
  <2>2. receiver.at \in {"idle", "blocked", "closed", "gone"}
    BY DEF PipeInv, PipeTypes, Receivers
  <2>3. QED
    BY <2>1, <2>2 DEF PipeInv, PipeTypes, PipeTypeOK
<1>2. PipeInOrder
  BY DEF PipeInv, InSendingOrder, CloseComesLast, PipeInOrder
<1>3. QED
  BY <1>1, <1>2 DEF PipeInv, PipeFaithful

\* recv returns messages in the order of send, loses none but by expiry, and blocks
\* only while both lists are empty.
THEOREM PipeIsFaithful == PipeSpec => []PipeFaithful
<1>1. PipeSpec => []PipeInv
  BY PipeInitInv, PipeStepInv, PTL DEF PipeSpec
<1>2. QED
  BY <1>1, PipeInvFaithful, PTL
==============================================================================
