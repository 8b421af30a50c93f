----------------------------- MODULE LiveView -----------------------------
(***************************************************************************)
(* wakuwaku-entity/src/redis/dynamic/live_view.rs: one view, the editors   *)
(* that commit to it, and a subscriber with its stream cursor.             *)
(*                                                                         *)
(* A body is the sequence of what made it: the creation, then the diffs.   *)
(* The body of version v thus has length v, and two bodies can be compared.*)
(* An editor's diff is the editor itself.                                  *)
(***************************************************************************)
EXTENDS Integers, Sequences, SequencesExt

CONSTANTS
  Editor,
  MaxDiffs,       \* LiveView::max_diffs
  ReadBatch,      \* READ_BATCH
  MaxVersion,     \* bound: commits
  MaxCreations,   \* bound: how often the view is created
  MaxResumes      \* bound: how often the subscriber resumes

\* An entry that is a base alone.
NoDiff == "no diff"

ASSUME LiveViewAssumption ==
  /\ NoDiff \notin Editor
  /\ MaxDiffs \in Nat /\ ReadBatch \in Nat \ {0}
  /\ MaxVersion \in Nat /\ MaxCreations \in Nat /\ MaxResumes \in Nat

VARIABLES
  head,       \* the head key: the latest version and its body
  history,    \* the stream key: entries in the order of their IDs
  seen,       \* what each editor last read or committed
  view,       \* the subscriber's body at a version
  follow,     \* the subscription: its version, and its cursor's state
  resumes,
  creations,
  edits,      \* ghost: the creation and the diffs reported as committed
  corrupt,    \* ghost: parse_event refused an entry
  crossed     \* ghost: something read from a removed view met its successor

viewVars == <<head, history, seen, view, follow, resumes, creations, edits, corrupt, crossed>>

Versioned(v, b) == [version |-> v, body |-> b]

\* No view, and no version at all.
NoView == Versioned(0, <<>>)

Entry(v, base, diff) == [id |-> v, base |-> base, diff |-> diff]

Apply(body, diff) == Append(body, diff)

-----------------------------------------------------------------------------
\* The scripts.

CREATE(body) ==
  /\ head = NoView
  /\ head' = Versioned(1, body)
  /\ history' = <<Entry(1, body, NoDiff)>>

Gone == [is |-> "absent"]
Conflict == [is |-> "conflict"]
Committed == [is |-> "committed"]

\* A full history is replaced by a base that keeps its diff.
NextHistory(diff, body) ==
  LET version == head.version + 1
  IN IF Len(history) > MaxDiffs
     THEN <<Entry(version, body, diff)>>
     ELSE Append(history, Entry(version, <<>>, diff))

\* Mutant: the parent is not compared.
COMMIT_BLINDLY(parent) == IF head = NoView THEN Gone ELSE Committed

COMMIT(parent) ==
  CASE head = NoView -> Gone
    [] head # NoView /\ head.version # parent -> Conflict
    [] OTHER -> Committed

-----------------------------------------------------------------------------
\* What the client makes of the entries.

\* Mutant: an entry's base is taken only if there is no diff.
ParsedDiffFirst(entry, current) ==
  IF entry.diff # NoDiff THEN "diff" ELSE "snapshot"

\* parse_event: an entry's diff if it follows the version, else its base.
Parsed(entry, current) ==
  IF entry.id = current + 1 /\ entry.diff # NoDiff THEN "diff"
  ELSE IF entry.base # <<>> THEN "snapshot"
  ELSE "corrupted"

\* Versioned::update.
Update(v, entry, event) ==
  IF event = "diff" THEN Versioned(entry.id, Apply(v.body, entry.diff))
  ELSE Versioned(entry.id, entry.base)

\* A body after these diffs, one by one.
Applied(body, diffs) ==
  LET upTo[n \in 0 .. Len(diffs)] ==
        IF n = 0 THEN body ELSE Apply(upTo[n - 1], diffs[n])
  IN upTo[Len(diffs)]

\* LiveViewHistory and History::into_latest; NoView stands for the error.
Replay ==
  LET diffs == [i \in 1 .. Len(history) - 1 |-> history[i + 1].diff]
      linear == \A i \in 2 .. Len(history) :
                  Parsed(history[i], history[1].id + i - 2) = "diff"
  IN IF history[1].base # <<>> /\ linear
     THEN Versioned(history[1].id + Len(diffs), Applied(history[1].base, diffs))
     ELSE NoView

-----------------------------------------------------------------------------
\* The queries.

ViewCreate ==
  /\ creations < MaxCreations
  /\ creations' = creations + 1
  /\ CREATE(<<creations + 1>>)
  /\ edits' = <<creations + 1>>
  /\ UNCHANGED <<seen, view, follow, resumes, corrupt, crossed>>

ViewGet(e) ==
  /\ seen' = [seen EXCEPT ![e] = head]
  /\ UNCHANGED <<head, history, view, follow, resumes, creations, edits, corrupt, crossed>>

\* An editor commits on top of what it read, as the module's example does.  It
\* goes on from there if it hears that it succeeded.
ViewCommit(e) ==
  /\ seen[e] # NoView /\ head.version < MaxVersion
  /\ LET next == Versioned(seen[e].version + 1, Apply(seen[e].body, e))
         reply == COMMIT(seen[e].version)
     IN IF reply = Committed
        THEN /\ head' = Versioned(head.version + 1, next.body)
             /\ history' = NextHistory(e, next.body)
             /\ edits' = Append(edits, e)
             /\ crossed' = (crossed \/ seen[e].body[1] # creations)
             /\ seen' \in {seen, [seen EXCEPT ![e] = next]}
        ELSE /\ seen' = [seen EXCEPT ![e] = NoView]
             /\ UNCHANGED <<head, history, edits, crossed>>
  /\ UNCHANGED <<view, follow, resumes, creations, corrupt>>

ViewRemove ==
  /\ head # NoView
  /\ head' = NoView
  /\ history' = <<>>
  /\ UNCHANGED <<seen, view, follow, resumes, creations, edits, corrupt, crossed>>

\* Mutant: the cursor starts one further.
FollowingLate(v) ==
  [on |-> TRUE, version |-> v, after |-> v + 1, pending |-> <<>>, of |-> creations]

\* A subscription and its cursor (StreamCursor::new): "after" is the ID it has
\* read up to, "pending" what it read and did not output.
Following(v) == [on |-> TRUE, version |-> v, after |-> v, pending |-> <<>>, of |-> creations]

NotFollowing == [on |-> FALSE, version |-> 0, after |-> 0, pending |-> <<>>, of |-> 0]

\* The head is read first, and the subscription starts after it.
ViewSubscribe ==
  /\ ~ follow.on /\ head # NoView
  /\ view' = head
  /\ follow' = Following(head.version)
  /\ UNCHANGED <<head, history, seen, resumes, creations, edits, corrupt, crossed>>

\* A subscription that failed is resumed from its version, or from the start.
ViewResume(v) ==
  /\ follow.on /\ resumes < MaxResumes
  /\ resumes' = resumes + 1
  /\ v \in {0, follow.version}
  /\ follow' = [Following(v) EXCEPT !.of = follow.of]
  /\ view' = IF v = 0 THEN NoView ELSE view
  /\ UNCHANGED <<head, history, seen, creations, edits, corrupt, crossed>>

\* StreamCursor::next with nothing pending: one XREAD.
ViewRead ==
  /\ follow.on /\ follow.pending = <<>>
  /\ \E first \in 1 .. Len(history) :
       LET last == IF first + ReadBatch - 1 < Len(history) THEN first + ReadBatch - 1
                   ELSE Len(history)
       IN /\ history[first].id > follow.after
          /\ \A i \in 1 .. first - 1 : history[i].id <= follow.after
          /\ follow' = [follow EXCEPT !.pending = SubSeq(history, first, last),
                                     !.after = history[last].id]
  /\ crossed' = (crossed \/ follow.of # creations)
  /\ UNCHANGED <<head, history, seen, view, resumes, creations, edits, corrupt>>

\* LiveViewSubscription::recv with an entry.
ViewRecv ==
  /\ follow.pending # <<>>
  /\ LET entry == Head(follow.pending)
         event == Parsed(entry, follow.version)
         rest == [follow EXCEPT !.pending = Tail(@)]
     IN IF event = "corrupted"
        THEN /\ corrupt' = TRUE
             /\ follow' = rest
             /\ UNCHANGED view
        ELSE /\ view' = Update(view, entry, event)
             /\ follow' = [rest EXCEPT !.version = entry.id]
             /\ UNCHANGED corrupt
  /\ UNCHANGED <<head, history, seen, resumes, creations, edits, crossed>>

ViewInit ==
  /\ head = NoView
  /\ history = <<>>
  /\ seen = [e \in Editor |-> NoView]
  /\ view = NoView
  /\ follow = NotFollowing
  /\ resumes = 0
  /\ creations = 0
  /\ edits = <<>>
  /\ corrupt = FALSE
  /\ crossed = FALSE

ViewNext ==
  \/ ViewCreate \/ ViewRemove
  \/ \E e \in Editor : ViewGet(e) \/ ViewCommit(e)
  \/ ViewSubscribe
  \/ \E v \in 0 .. MaxVersion : ViewResume(v)
  \/ ViewRead \/ ViewRecv

ViewSpec == ViewInit /\ [][ViewNext]_viewVars

-----------------------------------------------------------------------------
\* No commit that was reported is lost: of editors that read the same version
\* only one commits (lines 3-5), so the body is all reported diffs in order.
NoLostUpdate ==
  ~ crossed /\ head # NoView => head = Versioned(Len(edits), edits)

\* The history, squashed or not, always leads to the head, and it never grows
\* beyond its base and MaxDiffs diffs (lines 130-133 and 156-159).
HistoryLeadsToHead ==
  head # NoView =>
    /\ ~ crossed => Replay = head
    /\ Len(history) <= MaxDiffs + 1

\* No reported commit is lost, from the head or from the history.
CommitsKept == NoLostUpdate /\ HistoryLeadsToHead

\* A subscriber that applies what it receives has the body of its version: no
\* diff is skipped, repeated or applied to another body, through squashes of
\* what it has not read, batches, resumptions and a start between two commits.
SubscriberHasBody ==
  ~ crossed =>
    /\ ~ corrupt
    /\ view # NoView => view.version = follow.version
    /\ view.version = Len(view.body)
    /\ follow.of = creations => IsPrefix(view.body, edits)

\* What was committed reaches the subscriber (dynamic/mod.rs:36-37): once the
\* editing stops, which the bounds see to, it has the head for good, unless the
\* view it follows was removed.
SubscriberCatchesUp ==
  <>[](follow.on /\ follow.of = creations /\ head # NoView /\ ~ crossed => view = head)
=============================================================================
