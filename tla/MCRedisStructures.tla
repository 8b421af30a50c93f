------------------------- MODULE MCRedisStructures -------------------------
(* The structures of wakuwaku-entity in Redis, each on its own: they share *)
(* no key, so a behaviour is one of a single structure.                    *)
EXTENDS RedisLock, TokenBucket, RedisCache, LiveView, StreamBuffer, Pipe

VARIABLE part

allVars == <<part, lockVars, bucketVars, cacheVars, viewVars, bufferVars, pipeVars>>

Part == {"lock", "bucket", "cache", "view", "buffer", "pipe"}

MCInit ==
  /\ part \in Part
  /\ LockInit /\ BucketInit /\ CacheInit /\ ViewInit /\ BufferInit /\ PipeInit
  /\ part = "buffer" \/ reader = Subscription(0)

\* A step of one structure leaves the others as they are.
InLock(A) == part = "lock" /\ A /\
  UNCHANGED <<part, bucketVars, cacheVars, viewVars, bufferVars, pipeVars>>
InBucket(A) == part = "bucket" /\ A /\
  UNCHANGED <<part, lockVars, cacheVars, viewVars, bufferVars, pipeVars>>
InCache(A) == part = "cache" /\ A /\
  UNCHANGED <<part, lockVars, bucketVars, viewVars, bufferVars, pipeVars>>
InView(A) == part = "view" /\ A /\
  UNCHANGED <<part, lockVars, bucketVars, cacheVars, bufferVars, pipeVars>>
InBuffer(A) == part = "buffer" /\ A /\
  UNCHANGED <<part, lockVars, bucketVars, cacheVars, viewVars, pipeVars>>
InPipe(A) == part = "pipe" /\ A /\
  UNCHANGED <<part, lockVars, bucketVars, cacheVars, viewVars, bufferVars>>

MCNext ==
  \/ InLock(LockNext) \/ InBucket(BucketNext) \/ InCache(CacheNext)
  \/ InView(ViewNext) \/ InBuffer(BufferNext) \/ InPipe(PipeNext)

\* Time passes, a blocked or pending receive goes on.  Nobody has to write.
MCSpec ==
  /\ MCInit /\ [][MCNext]_allVars
  /\ WF_allVars(InLock(LockTick))
  /\ WF_allVars(InView(ViewRead)) /\ WF_allVars(InView(ViewRecv))
  /\ WF_allVars(InBuffer(RecvStep)) /\ WF_allVars(InBuffer(BufferTick))
  /\ WF_allVars(InPipe(PipeTick))

\* No subscription to a stream buffer waits forever on a producer that stopped,
\* finished or not (stream_buffer.rs:109-112): it ends or fails.
BufferSubscriberEnds == part = "buffer" => <>(reader.at \in {"ended", "gone"})

\* Nothing in Redis is waited for or held without end, whoever crashed: leases
\* of nobody run out, subscriptions end, and a pipe's receiver comes back.
NobodyWaitsForEver == LeaseRunsOut /\ BufferSubscriberEnds /\ RecvReturns
=============================================================================
