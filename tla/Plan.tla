-------------------------------- MODULE Plan --------------------------------
(***************************************************************************)
(* The planner of wakuwaku-iggy (partition/plan.rs): it turns the records  *)
(* of one polled batch into the weaker order their headers require, and    *)
(* the encoding of unfinished work as retry records (consumer/encode.rs).  *)
(*                                                                         *)
(* A record is a header: its key, the tag of its type and its ordering.  A *)
(* plan is what assign_segments computes in one walk over the log; the     *)
(* index vectors that Plan::new derives from it by sorting are replaced by *)
(* the sort keys themselves: the segment of a record and its rank.         *)
(* Option<EventTypeTag> is a set of at most one tag.                       *)
(***************************************************************************)
EXTENDS Integers, Sequences, FiniteSets

CONSTANTS
  Key,  \* key hashes
  Tag   \* type tags

ASSUME PlanAssumption == Tag \subseteq Nat

Ordering  == {"Relaxed", "Acquire", "Release", "AcqRel"}
Acquiring == {"Acquire", "AcqRel"}
Record    == [key : Key, tag : Tag, ordering : Ordering]

\* The first and last type of a segment, and whether it holds a type besides
\* its head.
SegmentMeta == [head : SUBSET Tag, tail : SUBSET Tag, mixed : BOOLEAN]
NewSegment  == [head |-> {}, tail |-> {}, mixed |-> FALSE]

\* records: the walked records; segment: the segment of each of them; metas:
\* the segments; open: the segment of a key that still accepts records, or 0.
EmptyPlan ==
  [records |-> <<>>, segment |-> <<>>, metas |-> <<>>, open |-> [k \in Key |-> 0]]

\* Mutant: only an acquiring record ends the open segment.
CutsOnAcquire(meta, r) == r.ordering \in Acquiring

\* An acquiring record ends the open segment of its key, and so does a Release
\* that would make the head of a mixed segment its tail as well.
Cuts(meta, r) ==
  \/ r.ordering \in Acquiring
  \/ r.ordering = "Release" /\ meta.mixed /\ r.tag \in meta.head

\* What a segment becomes when it accepts a record.
Accept(meta, r) ==
  LET head == IF r.ordering \in Acquiring THEN {r.tag} ELSE meta.head
  IN  [head  |-> head,
       tail  |-> IF r.ordering = "Release" THEN {r.tag} ELSE meta.tail,
       mixed |-> meta.mixed \/ (head # {} /\ r.tag \notin head)]

\* Mutant: a Release leaves its segment open.
NeverCloses(r) == FALSE

\* A Release ends its segment, which accepts no later record.
Closes(r) == r.ordering = "Release"

\* Whether a record starts a segment.
Starts(p, r) == LET s == p.open[r.key] IN s = 0 \/ Cuts(p.metas[s], r)

\* The segment a record goes to.
Target(p, r) == IF Starts(p, r) THEN Len(p.metas) + 1 ELSE p.open[r.key]

\* One turn of the loop of assign_segments.
Assign(p, r) ==
  LET s == Target(p, r)
  IN  [records |-> Append(p.records, r),
       segment |-> Append(p.segment, s),
       metas   |-> IF Starts(p, r)
                   THEN Append(p.metas, Accept(NewSegment, r))
                   ELSE [p.metas EXCEPT ![s] = Accept(p.metas[s], r)],
       open    |-> [p.open EXCEPT ![r.key] = IF Closes(r) THEN 0 ELSE s]]

\* The plan of a whole batch.
PlanOf(records) ==
  LET walk[n \in 0 .. Len(records)] ==
        IF n = 0 THEN EmptyPlan ELSE Assign(walk[n - 1], records[n])
  IN  walk[Len(records)]

\* SegmentMeta::rank: head, body or tail.
Rank(p, i) ==
  LET meta == p.metas[p.segment[i]]
      tag  == p.records[i].tag
  IN  IF tag \in meta.head THEN 1 ELSE IF tag \in meta.tail THEN 3 ELSE 2

\* A stage is a segment and a rank.  The stages of a key run one after another.
StageBefore(p, i, j) ==
  \/ p.segment[i] < p.segment[j]
  \/ p.segment[i] = p.segment[j] /\ Rank(p, i) < Rank(p, j)

\* The runs of a stage are the records of one type; each is handled in log order.
SameStage(p, i, j) == p.segment[i] = p.segment[j] /\ Rank(p, i) = Rank(p, j)
SameRun(p, i, j)   == SameStage(p, i, j) /\ p.records[i].tag = p.records[j].tag

\* Every execution the plan allows handles record i before record j.
Precedes(p, i, j) == StageBefore(p, i, j) \/ (SameRun(p, i, j) /\ i < j)

\* The order of x before y in the log must be kept: same type, or a fence.
Required(x, y) ==
  /\ x.key = y.key
  /\ \/ x.tag = y.tag
     \/ x.ordering \in Acquiring
     \/ y.ordering \in {"Release", "AcqRel"}

\* Fences also hold in the other direction.
Fenced(x, y) ==
  x.key = y.key /\ (x.ordering = "Release" \/ y.ordering \in Acquiring)
-----------------------------------------------------------------------------
\* encode_key writes stage by stage, in a stage run by run in tag order, and
\* each run in log order.
WrittenBefore(p, i, j) ==
  \/ StageBefore(p, i, j)
  \/ /\ SameStage(p, i, j)
     /\ \/ p.records[i].tag < p.records[j].tag
        \/ p.records[i].tag = p.records[j].tag /\ i < j

\* Mutant: tails without Release.
NoRelease(p, S, i) ==
  IF Rank(p, i) = 1 /\ \A j \in S : SameRun(p, i, j) => i <= j THEN "Acquire"
  ELSE "Relaxed"

\* stage_orderings: what is left of a head run starts with Acquire, what is left
\* of a tail run ends with Release, everything else is Relaxed.
StageOrdering(p, S, i) ==
  CASE Rank(p, i) = 1 /\ \A j \in S : SameRun(p, i, j) => i <= j -> "Acquire"
    [] Rank(p, i) = 3 /\ \A j \in S : SameRun(p, i, j) => j <= i -> "Release"
    [] OTHER -> "Relaxed"

\* The unfinished records S of a key, in the order they are written.
WrittenOrder(p, S) ==
  LET position(i) == Cardinality({j \in S : WrittenBefore(p, j, i)}) + 1
  IN  [n \in 1 .. Cardinality(S) |-> CHOOSE i \in S : position(i) = n]

\* encode_key, on the records S of one key that are unfinished.
Encode(p, S) ==
  LET order == WrittenOrder(p, S)
  IN  [n \in 1 .. Len(order) |->
         [p.records[order[n]] EXCEPT !.ordering = StageOrdering(p, S, order[n])]]
=============================================================================
