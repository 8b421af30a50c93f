----------------------------- MODULE Publisher -----------------------------
(***************************************************************************)
(* wakuwaku-iggy/src/events/publisher.rs: publishers that share a topic.   *)
(* A key stands for its hash, which picks the partition, so that a log per *)
(* key tells all that is said about order.                                 *)
(***************************************************************************)
EXTENDS Naturals, Sequences, SequencesExt

CONSTANTS
  Publishers,  \* callers, each awaiting one call before the next
  Keys,        \* key hashes
  MaxBatch,    \* bound: events of a call
  MaxCalls     \* bound: calls of all publishers together

ASSUME PublisherAssumption == MaxBatch \in Nat /\ MaxCalls \in Nat

VARIABLES
  log,     \* the main topic: the messages of each key
  calls,   \* every call of publish_batch and publish, in the order they began
  groups   \* for each publisher, the requests its call has yet to make

publisherVars == <<log, calls, groups>>

\* An event with the key it has; its body serializes or does not.
Events == [key : Keys, serializes : BOOLEAN]

\* to_message; an event is known by its call and its place in it.
ToMessage(call, index) == [call |-> call, index |-> index]

\* One turn of the loop that groups by key.
Place(found, key, message) ==
  IF \E i \in DOMAIN found : found[i].key = key
  THEN [i \in DOMAIN found |->
          IF found[i].key = key
          THEN [found[i] EXCEPT !.messages = Append(@, message)] ELSE found[i]]
  ELSE Append(found, [key |-> key, messages |-> <<message>>])

Grouped(call, events) ==
  LET walk[n \in 0 .. Len(events)] ==
        IF n = 0 THEN <<>>
        ELSE Place(walk[n - 1], events[n].key, ToMessage(call, n))
  IN  walk[Len(events)]

Pending(p) == \E c \in DOMAIN calls : calls[c].by = p /\ calls[c].result = "pending"

BeginCall(p, events, requests) ==
  /\ ~ Pending(p) /\ Len(calls) < MaxCalls
  /\ calls' = Append(calls, [by |-> p, events |-> events, result |->
       IF \E i \in DOMAIN events : ~ events[i].serializes THEN "serialize"
       ELSE IF requests = <<>> THEN "ok" ELSE "pending"])
  /\ groups' = [groups EXCEPT ![p] =
       IF \E i \in DOMAIN events : ~ events[i].serializes THEN <<>> ELSE requests]
  /\ UNCHANGED log

PublishBatch(p, events) == BeginCall(p, events, Grouped(Len(calls) + 1, events))

Publish(p, event) ==
  BeginCall(p, <<event>>, <<[key |-> event.key, messages |-> <<ToMessage(Len(calls) + 1, 1)>>]>>)

Appended(request) == [log EXCEPT ![request.key] = @ \o request.messages]

Finish(p, result) ==
  calls' = [c \in DOMAIN calls |->
    IF calls[c].by = p /\ calls[c].result = "pending"
    THEN [calls[c] EXCEPT !.result = result] ELSE calls[c]]

\* send_messages for the next group, answered.
SendGroup(p) ==
  /\ groups[p] # <<>>
  /\ log' = Appended(Head(groups[p]))
  /\ groups' = [groups EXCEPT ![p] = Tail(@)]
  /\ IF Len(groups[p]) = 1 THEN Finish(p, "ok") ELSE UNCHANGED calls

\* Mutant: the groups after the one that failed are still sent.
SendFailsOn(p) ==
  /\ groups[p] # <<>>
  /\ log' \in {log, Appended(Head(groups[p]))}
  /\ groups' = [groups EXCEPT ![p] = Tail(@)]
  /\ IF Len(groups[p]) = 1 THEN Finish(p, "send") ELSE UNCHANGED calls

\* send_messages fails, before or after the server wrote the messages, or the
\* caller drops the call while it waits for the answer.
SendFails(p) ==
  /\ groups[p] # <<>>
  /\ log' \in {log, Appended(Head(groups[p]))}
  /\ groups' = [groups EXCEPT ![p] = <<>>]
  /\ Finish(p, "send")

PublisherInit ==
  /\ log = [k \in Keys |-> <<>>]
  /\ calls = <<>>
  /\ groups = [p \in Publishers |-> <<>>]

\* A caller told of a send error may publish the events again: a call like any.
PublisherNext == \E p \in Publishers :
  \/ \E events \in BoundedSeq(Events, MaxBatch) : PublishBatch(p, events)
  \/ \E event \in Events : Publish(p, event)
  \/ SendGroup(p) \/ SendFails(p)

PublisherSpec == PublisherInit /\ [][PublisherNext]_publisherVars

-----------------------------------------------------------------------------
EventOf(message) == calls[message.call].events[message.index]

Reached(c, k) == \E i \in DOMAIN log[k] : log[k][i].call = c

\* The doc of publish_batch, with several publishers at work and errors: the log
\* of a key holds the events of a call for it all together, once, in the order
\* given and none of another key, or none of them; and the calls of a publisher
\* that awaits each stand in the order they were made.
SharesWhole == \A k \in Keys :
  /\ \A i \in DOMAIN log[k] : EventOf(log[k][i]).key = k
  /\ \A c \in DOMAIN calls : Reached(c, k) =>
       \A n \in DOMAIN calls[c].events : calls[c].events[n].key = k =>
         \E i \in DOMAIN log[k] : log[k][i] = ToMessage(c, n)
  /\ \A i, j \in DOMAIN log[k] : i < j =>
       /\ log[k][i].call = log[k][j].call =>
            /\ log[k][i].index < log[k][j].index
            /\ \A m \in i .. j : log[k][m].call = log[k][i].call
       /\ calls[log[k][i].call].by = calls[log[k][j].call].by =>
            log[k][i].call <= log[k][j].call

\* Lines 64-75: after a serialization error nothing was sent, after success
\* everything was; whatever happened, a key is reached only after those that
\* come before it in the call, so that a caller can tell how far it came.
ErrorsStop == \A c \in DOMAIN calls :
  LET events == calls[c].events
  IN /\ calls[c].result = "serialize" => \A k \in Keys : ~ Reached(c, k)
     /\ calls[c].result = "ok" => \A n \in DOMAIN events : Reached(c, events[n].key)
     /\ \A k \in Keys, n \in DOMAIN events :
          Reached(c, k) /\ (\A m \in 1 .. n : events[m].key # k) =>
            Reached(c, events[n].key)

\* Both: what publish_batch sent, and what its result tells the caller.
PublishedAsTold == SharesWhole /\ ErrorsStop
=============================================================================
