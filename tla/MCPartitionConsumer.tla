------------------------ MODULE MCPartitionConsumer ------------------------
(* Small instances of PartitionConsumer for TLC.                           *)
EXTENDS PartitionConsumer

\* Two keys, the first with two types: events 1 and 3 are one lane, event 2 is
\* the other lane of the key, and event 4 (if any) belongs to a second key.
MCKeyOf == [e \in 1 .. NumEvents |-> IF e = 4 THEN "k2" ELSE "k1"]
MCTagOf == [e \in 1 .. NumEvents |-> IF e = 2 THEN 2 ELSE 1]

\* A single lane.
MCOneKey == [e \in 1 .. NumEvents |-> "k1"]
MCOneTag == [e \in 1 .. NumEvents |-> 1]
=============================================================================
