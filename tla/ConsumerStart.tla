--------------------------- MODULE ConsumerStart ---------------------------
(***************************************************************************)
(* Starting consumers: start of consumer/runtime.rs with the handler lists *)
(* of consumer/handler.rs.  Several processes start at once, each reads    *)
(* the topics and may create the retry topic, and partitions are added     *)
(* meanwhile.                                                              *)
(***************************************************************************)
EXTENDS Naturals, Sequences, FiniteSets, SequencesExt

CONSTANTS
  Starters,       \* processes
  Topics,         \* the main topics that handlers name
  Existing,       \* bound: those of them that exist or get created
  Tags,           \* event type tags
  MaxPartitions,  \* bound: partitions of a topic
  MaxHandlers,    \* bound: handlers of a list
  MaxFailures     \* bound: Iggy requests that fail for no reason seen here

ASSUME StartAssumption ==
  /\ Existing \subseteq Topics
  /\ MaxPartitions \in Nat /\ MaxHandlers \in Nat /\ MaxFailures \in Nat

VARIABLES
  main,     \* the partition count of each main topic, 0 if there is none
  retry,    \* the same of its retry topic
  starter,  \* the call of start of each process
  fails     \* how many requests failed

startVars == <<main, retry, starter, fails>>

\* A node of the list: its event's tag and the topic of its key.  The first
\* registered is the innermost.
Handler == [tag : Tags, topic : Topics]

\* HandlerList::topic: every topic is the first one.
OneTopic(list) == \A i \in DOMAIN list : list[i].topic = list[1].topic

\* collect_tags, and start's HashSet.
TagsOf(list) == [i \in DOMAIN list |-> list[i].tag]

NoDuplicate(list) == IsInjective(TagsOf(list))

\* handle_run, reduce_run and associativity walk from the last registered node
\* to the first and stop at the first of the tag.  0: nobody knows the tag.
Dispatch(list, tag) ==
  LET of == {i \in DOMAIN list : list[i].tag = tag}
  IN IF of = {} THEN 0 ELSE CHOOSE i \in of : \A j \in of : j <= i

NotStarted == [at |-> "idle"]
Refused(why) == [at |-> "refused", why |-> why]
At(s, step) == starter[s].at = step
Becomes(s, state) == starter' = [starter EXCEPT ![s] = state]

-----------------------------------------------------------------------------
\* Up to the first request: a list and a configuration that is usable or not,
\* the partitions in it once each.
StartCall(s) ==
  /\ starter[s].at \in {"idle", "refused"}
  /\ \E list \in BoundedSeq(Handler, MaxHandlers) \ {<<>>},
        partitions \in SUBSET (0 .. MaxPartitions - 1), usable \in BOOLEAN :
       Becomes(s,
         IF ~ usable \/ partitions = {} THEN Refused("InvalidConfig")
         ELSE IF ~ OneTopic(list) THEN Refused("MixedTopics")
         ELSE IF ~ NoDuplicate(list) THEN Refused("DuplicateEventType")
         ELSE [at |-> "main", list |-> list, partitions |-> partitions])
  /\ UNCHANGED <<main, retry, fails>>

TopicOf(s) == starter[s].list[1].topic

\* get_topic of the main topic.
GetMain(s) ==
  /\ At(s, "main")
  /\ Becomes(s, IF main[TopicOf(s)] = 0 THEN Refused("TopicNotFound")
                ELSE [at |-> "retry", list |-> starter[s].list,
                      partitions |-> starter[s].partitions, count |-> main[TopicOf(s)]])
  /\ UNCHANGED <<main, retry, fails>>

\* The partitions are looked for in what was read of the main topic.
Spawned(s) ==
  IF \A p \in starter[s].partitions : p < starter[s].count
  THEN [starter[s] EXCEPT !.at = "running"] ELSE Refused("PartitionNotFound")

\* Mutant: any retry topic will do.
GetRetryAny(s) ==
  /\ At(s, "retry")
  /\ Becomes(s, IF retry[TopicOf(s)] = 0 THEN [starter[s] EXCEPT !.at = "create"]
                ELSE Spawned(s))
  /\ UNCHANGED <<main, retry, fails>>

\* get_topic of the retry topic.
GetRetry(s) ==
  /\ At(s, "retry")
  /\ Becomes(s, IF retry[TopicOf(s)] = 0 THEN [starter[s] EXCEPT !.at = "create"]
                ELSE IF retry[TopicOf(s)] # starter[s].count
                  THEN Refused("PartitionCountMismatch") ELSE Spawned(s))
  /\ UNCHANGED <<main, retry, fails>>

\* create_topic: an error if another process was faster.
CreateRetry(s) ==
  /\ At(s, "create")
  /\ IF retry[TopicOf(s)] # 0
     THEN Becomes(s, Refused("Iggy")) /\ UNCHANGED retry
     ELSE /\ retry' = [retry EXCEPT ![TopicOf(s)] = starter[s].count]
          /\ Becomes(s, Spawned(s))
  /\ UNCHANGED <<main, fails>>

\* A request fails, the last one perhaps only after the topic was created.
RequestFails(s) ==
  /\ starter[s].at \in {"main", "retry", "create"}
  /\ fails < MaxFailures /\ fails' = fails + 1
  /\ Becomes(s, Refused("Iggy"))
  /\ retry' \in {retry} \cup
       IF At(s, "create") /\ retry[TopicOf(s)] = 0
       THEN {[retry EXCEPT ![TopicOf(s)] = starter[s].count]} ELSE {}
  /\ UNCHANGED main

\* Somebody creates a main topic, or adds partitions to one, or to its retry
\* topic.  Topics and partitions are not deleted under a consumer.
Grow ==
  /\ \E t \in Existing :
       \/ /\ main[t] < MaxPartitions
          /\ main' = [main EXCEPT ![t] = @ + 1] /\ UNCHANGED retry
       \/ /\ retry[t] \in 1 .. MaxPartitions - 1
          /\ retry' = [retry EXCEPT ![t] = @ + 1] /\ UNCHANGED main
  /\ UNCHANGED <<starter, fails>>

StartInit ==
  /\ main \in {m \in [Topics -> 0 .. 1] : \A t \in Topics \ Existing : m[t] = 0}
  /\ retry = [t \in Topics |-> 0]
  /\ starter = [s \in Starters |-> NotStarted]
  /\ fails = 0

StartStep(s) == GetMain(s) \/ GetRetry(s) \/ CreateRetry(s)

StartNext == \/ \E s \in Starters : StartCall(s) \/ StartStep(s) \/ RequestFails(s)
             \/ Grow

StartSpec == StartInit /\ [][StartNext]_startVars

Running(s) == At(s, "running")

-----------------------------------------------------------------------------
\* What start validates (lines 74-85 of handler.rs) holds of every consumer
\* that runs, although the topics were read at different times, partitions were
\* added between, and processes raced to create the retry topic: each partition
\* it consumes is in the main topic and in the retry topic.
\* And every handler is reached: no node of the list hides another one of its tag.
StartedCanRun == \A s \in Starters : Running(s) =>
  /\ \A p \in starter[s].partitions : p < main[TopicOf(s)] /\ p < retry[TopicOf(s)]
  /\ \A i \in DOMAIN starter[s].list : Dispatch(starter[s].list, starter[s].list[i].tag) = i

=============================================================================
