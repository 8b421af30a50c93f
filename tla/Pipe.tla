------------------------------- MODULE Pipe -------------------------------
(***************************************************************************)
(* wakuwaku-entity/src/redis/dynamic/pipe.rs: one pipe, its sender, and    *)
(* its receivers, one at a time.  Messages and closes are two lists, each  *)
(* with its own expiry.  The n-th message sent is n; a close is known by   *)
(* how many messages were sent before it.                                  *)
(***************************************************************************)
EXTENDS RedisServer, Sequences, SequencesExt

CONSTANTS
  PipeTtl,       \* Pipe::ttl
  MaxMessages,   \* bound: messages sent
  MaxCloses,     \* bound: closes
  MaxReceivers   \* bound: receivers, one after the other

ASSUME PipeAssumption ==
  PipeTtl \in Nat /\ MaxMessages \in Nat /\ MaxCloses \in Nat /\ MaxReceivers \in Nat

VARIABLES
  messages,    \* the list of messages
  messagesTtl,
  closes,      \* the list of closes
  closesTtl,
  receiver,    \* where the receiver's recv stands, and how long it still waits
  taken,       \* messages recv returned, to any receiver, in order
  sent,        \* ghost: how many messages were sent
  closed,      \* ghost: the closes pushed, in order
  lost,        \* ghost: messages that expired, or whose receiver failed
  receivers

pipeVars == <<messages, messagesTtl, closes, closesTtl, receiver, taken, sent, closed, lost, receivers>>

\* PipeReceiver: "idle" between two calls, "blocked" in BLPOP, "closed".
Receiver(at) == [at |-> at, wait |-> 0, close |-> 0]

\* A message reaches the caller of recv; or it was taken and is gone, as it
\* cannot be parsed or the receiver fails first.
Deliver(m) ==
  /\ receiver' = Receiver("idle")
  /\ \/ taken' = Append(taken, m) /\ lost' = lost
     \/ taken' = taken /\ lost' = lost \cup {m}

\* RPUSH and PEXPIRE in one transaction, after which a waiting BLPOP is served.
PipeSend ==
  /\ sent < MaxMessages
  /\ sent' = sent + 1
  /\ IF receiver.at = "blocked"
     THEN /\ Deliver(sent + 1)
          /\ UNCHANGED <<messages, messagesTtl>>
     ELSE /\ messages' = Append(messages, sent + 1)
          /\ messagesTtl' = Millis(PipeTtl)
          /\ UNCHANGED <<receiver, taken, lost>>
  /\ UNCHANGED <<closes, closesTtl, closed, receivers>>

PipeClose ==
  /\ Len(closed) < MaxCloses
  /\ closed' = Append(closed, sent)
  /\ IF receiver.at = "blocked"
     THEN /\ receiver' = [Receiver("closed") EXCEPT !.close = Len(closed')]
          /\ UNCHANGED <<closes, closesTtl>>
     ELSE /\ closes' = Append(closes, Len(closed'))
          /\ closesTtl' = Millis(PipeTtl)
          /\ UNCHANGED receiver
  /\ UNCHANGED <<messages, messagesTtl, taken, sent, lost, receivers>>

\* BLPOP looks at the messages first.
PopMessage ==
  /\ receiver.at = "idle" /\ messages # <<>>
  /\ Deliver(Head(messages))
  /\ messages' = Tail(messages)
  /\ messagesTtl' = IF Tail(messages) = <<>> THEN 0 ELSE messagesTtl
  /\ UNCHANGED <<closes, closesTtl, sent, closed, receivers>>

PopCloseFirst ==  \* Mutant
  /\ receiver.at = "idle" /\ closes # <<>>
  /\ receiver' = [Receiver("closed") EXCEPT !.close = Head(closes)]
  /\ closes' = Tail(closes)
  /\ closesTtl' = IF Tail(closes) = <<>> THEN 0 ELSE closesTtl
  /\ UNCHANGED <<messages, messagesTtl, taken, sent, closed, lost, receivers>>

PopClose ==
  /\ receiver.at = "idle" /\ messages = <<>> /\ closes # <<>>
  /\ receiver' = [Receiver("closed") EXCEPT !.close = Head(closes)]
  /\ closes' = Tail(closes)
  /\ closesTtl' = IF Tail(closes) = <<>> THEN 0 ELSE closesTtl
  /\ UNCHANGED <<messages, messagesTtl, taken, sent, closed, lost, receivers>>

\* Neither list has an element: BLPOP waits for one TTL.
Block ==
  /\ receiver.at = "idle" /\ messages = <<>> /\ closes = <<>>
  /\ receiver' = [receiver EXCEPT !.at = "blocked", !.wait = Millis(PipeTtl)]
  /\ UNCHANGED <<messages, messagesTtl, closes, closesTtl, taken, sent, closed, lost, receivers>>

\* Another receiver on the same name, after the last one ended, failed or
\* found the pipe abandoned.
PipeReceive ==
  /\ receivers < MaxReceivers
  /\ receivers' = receivers + 1
  /\ receiver' = Receiver("idle")
  /\ UNCHANGED <<messages, messagesTtl, closes, closesTtl, taken, sent, closed, lost>>

\* A millisecond passes.  A wait that times out fails with "gone".
PipeTick ==
  /\ messages' = IF Expires(messagesTtl) THEN <<>> ELSE messages
  /\ lost' = IF Expires(messagesTtl) THEN lost \cup ToSet(messages) ELSE lost
  /\ messagesTtl' = Less(messagesTtl)
  /\ closes' = IF Expires(closesTtl) THEN <<>> ELSE closes
  /\ closesTtl' = Less(closesTtl)
  /\ receiver' = [receiver EXCEPT !.wait = Less(@),
                    !.at = IF @ = "blocked" /\ Expires(receiver.wait) THEN "gone" ELSE @]
  /\ UNCHANGED <<taken, sent, closed, receivers>>

PipeInit ==
  /\ messages = <<>> /\ messagesTtl = 0
  /\ closes = <<>> /\ closesTtl = 0
  /\ receiver = Receiver("gone")
  /\ taken = <<>> /\ sent = 0 /\ closed = <<>> /\ lost = {}
  /\ receivers = 0

PipeNext ==
  \/ PipeSend \/ PipeClose
  \/ PipeReceive
  \/ PopMessage \/ PopClose \/ Block
  \/ PipeTick

PipeSpec == PipeInit /\ [][PipeNext]_pipeVars

-----------------------------------------------------------------------------
PipeTypeOK ==
  /\ \A i \in 1 .. Len(messages) : messages[i] \in 1 .. sent
  /\ \A i \in 1 .. Len(closes) : closes[i] \in 1 .. Len(closed)
  /\ messagesTtl \in 0 .. Millis(PipeTtl) /\ closesTtl \in 0 .. Millis(PipeTtl)
  /\ receiver.at \in {"idle", "blocked", "closed", "gone"}
  /\ lost \subseteq 1 .. sent

\* Each message is received once, in the order sent (line 3), by whichever
\* receiver, and the receiver sees a close only when every message sent before
\* it was received or is lost (line 69), although the two lists expire apart.
PipeInOrder ==
  /\ \A i, j \in 1 .. Len(taken) : i < j => taken[i] < taken[j]
  /\ receiver.close > 0 =>
       1 .. closed[receiver.close] \subseteq ToSet(taken) \cup lost

\* A message is taken, lost or waiting, and one that waits has a time to live:
\* none stays behind on the server for good.
NoMessageForgotten ==
  /\ 1 .. sent = ToSet(taken) \cup lost \cup ToSet(messages)
  /\ messages # <<>> <=> messagesTtl > 0
  /\ closes # <<>> <=> closesTtl > 0

\* A receiver that waits is not asleep beside a message or a close, and it ends
\* or fails when nothing comes for a whole TTL (lines 71-73).
WaitsForNothing == receiver.at = "blocked" => messages = <<>> /\ closes = <<>>

RecvReturns == []<>(receiver.at # "blocked")

\* What a pipe promises: order, no message kept or dropped in silence, and no
\* receiver asleep beside one.
PipeFaithful == PipeTypeOK /\ PipeInOrder /\ NoMessageForgotten /\ WaitsForNothing

\* pipe.rs:105-106: "Sending after close is allowed but the receiver never reads
\* it."  A pipe has one receiver.
NothingReadAfterClose ==
  closed # <<>> /\ receivers = 1 => ToSet(taken) \subseteq 1 .. closed[1]
=============================================================================
