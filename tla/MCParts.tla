------------------------------ MODULE MCParts ------------------------------
(* The parts that keep a state of their own: a behaviour is one of a       *)
(* single part.  Around the partition task: planner, headers, publisher, a *)
(* run in its handler, start.  Besides: cron jobs, transaction flows,      *)
(* search sync, value proofs.                                              *)
EXTENDS Planner, Headers, Publisher, RunHandling, ConsumerStart,
        CronJob, TxFlow, MeiliSync, ValueProofs

VARIABLE part

partsVars ==
  <<part, plan, headersVars, publisherVars, runVars, startVars, cronVars, txVars, syncVars,
    proofVars>>

\* The one that may be anything: the subjects are interchangeable.
OneSubject == CHOOSE s \in Subjects : TRUE

MCInit ==
  /\ part \in {"planner", "headers", "publisher", "run", "start", "cron", "flow", "sync", "proofs"}
  /\ Init
  /\ HeadersInit
  /\ part = "headers" \/
       written = [headers |-> [tag |-> 0, key |-> 0,
                               properties |-> [ordering |-> 1, associativity |-> 0]],
                  retry |-> NoRetry]
  /\ PublisherInit
  /\ RunInit /\ (part # "run" => law = "NonAssociative" /\ maxBatch = 1)
  /\ StartInit /\ (part # "start" => main = retry)
  /\ CronInit /\ (part # "cron" => kind = "AtLeast")
  /\ TxInit /\ (part # "flow" => backend = "pgsql")
  /\ SyncInit /\ (part # "sync" => ~ inclusive /\ \A k \in RowKey : source[k] = NoRow)
  /\ ProofInit
  /\ \A s \in Subjects \ {OneSubject}, a \in Atoms :
       world[s][a] = IF world[OneSubject][a] = "holds" THEN "denied" ELSE "holds"
  /\ part # "proofs" => \A a \in Atoms : world[OneSubject][a] = "holds"

\* A step of one part leaves the others as they are.
InPlanner(A) == part = "planner" /\ A /\
  UNCHANGED <<part, headersVars, publisherVars, runVars, startVars, cronVars, txVars, syncVars,
              proofVars>>
InHeaders(A) == part = "headers" /\ A /\
  UNCHANGED <<part, plan, publisherVars, runVars, startVars, cronVars, txVars, syncVars, proofVars>>
InPublisher(A) == part = "publisher" /\ A /\
  UNCHANGED <<part, plan, headersVars, runVars, startVars, cronVars, txVars, syncVars, proofVars>>
InRun(A) == part = "run" /\ A /\
  UNCHANGED <<part, plan, headersVars, publisherVars, startVars, cronVars, txVars, syncVars,
              proofVars>>
InStart(A) == part = "start" /\ A /\
  UNCHANGED <<part, plan, headersVars, publisherVars, runVars, cronVars, txVars, syncVars,
              proofVars>>
InCron(A) == part = "cron" /\ A /\
  UNCHANGED <<part, plan, headersVars, publisherVars, runVars, startVars, txVars, syncVars,
              proofVars>>
InFlow(A) == part = "flow" /\ A /\
  UNCHANGED <<part, plan, headersVars, publisherVars, runVars, startVars, cronVars, syncVars,
              proofVars>>
InSync(A) == part = "sync" /\ A /\
  UNCHANGED <<part, plan, headersVars, publisherVars, runVars, startVars, cronVars, txVars,
              proofVars>>
InProofs(A) == part = "proofs" /\ A /\
  UNCHANGED <<part, plan, headersVars, publisherVars, runVars, startVars, cronVars, txVars,
              syncVars>>

MCNext ==
  \/ InPlanner(Next) \/ InHeaders(Differ) \/ InPublisher(PublisherNext)
  \/ InRun(RunNext) \/ InStart(StartNext)
  \/ InCron(CronNext) \/ InFlow(TxNext) \/ InSync(SyncNext) \/ InProofs(ProofNext)

\* A delay passes, and a handler that answers time and again answers otherwise
\* than with a transient error in the end.  Runs of a cron job end and its tasks
\* are polled.  Meilisearch runs its tasks and a rebuild goes on.
MCSpec ==
  /\ MCInit /\ [][MCNext]_partsVars
  /\ WF_partsVars(InRun(SleepEnds)) /\ SF_partsVars(InRun(ChunkSettled))
  /\ WF_partsVars(InCron(CronProgress))
  /\ WF_partsVars(InSync(RunTask)) /\ WF_partsVars(InSync(RebuildStep))
=============================================================================
