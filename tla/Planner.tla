------------------------------ MODULE Planner ------------------------------
(***************************************************************************)
(* The planner walking a batch: every record the batch can contain next is *)
(* a step, so the reachable states are the plans of all batches of at most *)
(* MaxRecords records.                                                     *)
(***************************************************************************)
EXTENDS Plan

CONSTANT MaxRecords  \* bound: records of a batch

ASSUME PlannerAssumption == MaxRecords \in Nat

VARIABLE plan

TypeOK ==
  /\ plan.records \in Seq(Record)
  /\ Len(plan.segment) = Len(plan.records)
  /\ plan.segment \in Seq(1 .. Len(plan.metas))
  /\ plan.metas \in Seq(SegmentMeta)
  /\ plan.open \in [Key -> 0 .. Len(plan.metas)]

Init == plan = EmptyPlan

Walk(r) ==
  /\ Len(plan.records) < MaxRecords
  /\ plan' = Assign(plan, r)

Next == \E r \in Record : Walk(r)

Spec == Init /\ [][Next]_plan
-----------------------------------------------------------------------------
Index == 1 .. Len(plan.records)

\* The plan keeps what the headers demand (EventAtomicOrdering): same-type
\* events of a key in log order, nothing before an Acquire that came after it,
\* nothing after a Release that came before it.
RespectsOrder ==
  \A i, j \in Index :
    i < j /\ Required(plan.records[i], plan.records[j]) => Precedes(plan, i, j)

\* "Acquire and AcqRel also keep earlier events of the key before the fence, and
\* Release also keeps later events after it" (events/mod.rs).
FencesBothWays ==
  \A i, j \in Index :
    i < j /\ Fenced(plan.records[i], plan.records[j]) => Precedes(plan, i, j)

\* Whether an order between the unfinished records of every key is kept when
\* they are written to the retry partition and planned again.
KeptByReencoding(Before(_, _)) ==
  \A k \in Key :
    LET S         == {i \in Index : plan.records[i].key = k}
        order     == WrittenOrder(plan, S)
        replanned == PlanOf(Encode(plan, S))
    IN  \A m, n \in 1 .. Cardinality(S) :
          Before(order[m], order[n]) => Precedes(replanned, m, n)

\* Retry records keep what the headers of the original events demand, in either
\* direction of a fence.
ReencodingKeepsDemands ==
  KeptByReencoding(LAMBDA i, j :
    i < j /\ (Required(plan.records[i], plan.records[j])
              \/ Fenced(plan.records[i], plan.records[j])))

\* "The orderings of the written entries are chosen so that planning them again
\* keeps every ordering the original plan enforced" (encode.rs).
ReencodingKeepsPlan == KeptByReencoding(LAMBDA i, j : Precedes(plan, i, j))
=============================================================================
