--------------------------- MODULE KeyedDelivery ---------------------------
(***************************************************************************)
(* What a partition consumer promises the author of an event handler, in   *)
(* its at-least-once mode.  Events are published to a log.  Each of them   *)
(* is settled once: a handler accepted it, or the consumer gave it up.     *)
(* An event is settled only together with, or after, every earlier event   *)
(* of its lane (the events of one type and one key); every published event *)
(* is settled in the end, whatever crashes in between.  How the consumer   *)
(* does it (offsets, a retry topic, quarantined keys) is left to           *)
(* PartitionConsumer, which implements this module.                        *)
(***************************************************************************)
EXTENDS Naturals

CONSTANTS
  NumEvents,  \* how many events are ever published
  Bad,        \* events whose headers cannot be parsed: they belong to no lane
  LaneOf      \* the lane of each event

Event == 1 .. NumEvents

VARIABLES
  published,  \* events 1 .. published are in the log
  settled     \* events applied by a handler or given up

vars == <<published, settled>>

\* d must be settled no later than e.
Precedes(d, e) == d < e /\ {d, e} \cap Bad = {} /\ LaneOf[d] = LaneOf[e]

Init == published = 0 /\ settled = {}

Publish ==
  /\ published < NumEvents
  /\ published' = published + 1
  /\ UNCHANGED settled

\* A handler call, or a decision to give up, settles some events at once.
Settle(S) ==
  /\ S # {}
  /\ S \cap settled = {}
  /\ \A e \in S : \A d \in Event : Precedes(d, e) => d \in settled \cup S
  /\ settled' = settled \cup S
  /\ UNCHANGED published

Next == Publish \/ \E S \in SUBSET (1 .. published) : Settle(S)

Spec == Init /\ [][Next]_vars

\* Every published event is settled in the end.
EventuallySettled ==
  \A e \in Event : (e <= published) ~> (e \in settled)
=============================================================================
