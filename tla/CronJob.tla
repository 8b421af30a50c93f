------------------------------ MODULE CronJob ------------------------------
(***************************************************************************)
(* wakuwaku/src/services/cron_job.rs: one registered job, its task, and    *)
(* the runtime handle that stops it.                                       *)
(***************************************************************************)
EXTENDS Naturals, Sequences

CONSTANTS
  Interval,  \* the duration of CronJob::INTERVAL
  MaxTime    \* bound: how far the clock runs

ASSUME CronAssumption == Interval \in Nat \ {0} /\ MaxTime \in Nat

VARIABLES
  kind,       \* the variant of CronJob::INTERVAL
  clock,      \* Instant::now
  loop,       \* where the job's task is
  scheduled,  \* when the next run starts
  runs,       \* the runs in progress, by number
  reapable,   \* overlapping runs that ended and were not reaped yet
  stopping,   \* what the watch channel holds
  handle,     \* the CronRuntime
  atStop,     \* ghost: how many runs had started when shutdown was called
  starts,     \* ghost: for each run, what it was scheduled for and its start
  ended       \* ghost: when the last run to end did

cronVars ==
  <<kind, clock, loop, scheduled, runs, reapable, stopping, handle, atStop, starts, ended>>

Kinds == {"AfterFinish", "AtLeast", "AfterStart"}

Overlapping == kind = "AfterStart"

\* Mutant: a period on, however late.
NextTickPlain(previous, time) == previous + Interval

\* The first grid point after "previous" that is not before "time": the
\* rounded-up number of periods between them, at least one.
NextTick(previous, time) ==
  LET behind == IF time > previous THEN time - previous ELSE 0
      periods == (behind + Interval - 1) \div Interval
  IN previous + Interval * (IF periods = 0 THEN 1 ELSE periods)

\* later(started, period) and later(finished, pause).
NextStart(started, finished) ==
  IF kind = "AtLeast" THEN started + Interval ELSE finished + Interval

StartOf(run) == starts[run].at

-----------------------------------------------------------------------------
\* Both loops wait in a biased select: the stop is polled first, then (in
\* run_overlapping) the runs that ended, and the time last.  In between, shutdown
\* may be called, of which the task learns in its next select only, a run may end,
\* and the time may come.
PollStopLast ==  \* Mutant: it loses to a time that has come.
  /\ loop = "select" /\ (Overlapping => reapable = {})
  /\ loop' = "polled"
  /\ UNCHANGED <<kind, clock, scheduled, runs, reapable, stopping, handle, atStop, starts, ended>>

Poll ==
  /\ loop = "select" /\ ~ stopping /\ (Overlapping => reapable = {})
  /\ loop' = "polled"
  /\ UNCHANGED <<kind, clock, scheduled, runs, reapable, stopping, handle, atStop, starts, ended>>

\* The time has not come.
NotDue ==
  /\ loop = "polled" /\ clock < scheduled
  /\ loop' = "select"
  /\ UNCHANGED <<kind, clock, scheduled, runs, reapable, stopping, handle, atStop, starts, ended>>

\* It has, and the run starts, without an await before.  One that is
\* spawned is in progress, and joined, from then on, whenever it is first polled.
StartRun ==
  /\ loop = "polled" /\ clock >= scheduled
  /\ starts' = Append(starts, [for |-> scheduled, at |-> clock])
  /\ runs' = runs \cup {Len(starts')}
  /\ loop' = IF Overlapping THEN "spawned" ELSE "running"
  /\ UNCHANGED <<kind, clock, scheduled, reapable, stopping, handle, atStop, ended>>

\* run_serially after a run: it succeeded, failed or panicked, which execute
\* logs alike.
FinishSerial ==
  /\ loop = "running"
  /\ \E run \in runs : scheduled' = NextStart(StartOf(run), clock)
  /\ runs' = {}
  /\ ended' = clock
  /\ loop' = "select"
  /\ UNCHANGED <<kind, clock, reapable, stopping, handle, atStop, starts>>

\* run_overlapping after it spawned a run; time may have passed.
Reschedule ==
  /\ loop = "spawned"
  /\ scheduled' = NextTick(scheduled, clock)
  /\ loop' = "select"
  /\ UNCHANGED <<kind, clock, runs, reapable, stopping, handle, atStop, starts, ended>>

\* A run that was spawned ends, or stops at its next await after an abort.
FinishSpawned(run) ==
  /\ Overlapping /\ run \in runs
  /\ runs' = runs \ {run}
  /\ reapable' = reapable \cup {run}
  /\ ended' = clock
  /\ UNCHANGED <<kind, clock, loop, scheduled, stopping, handle, atStop, starts>>

ReapSelecting(run) ==  \* Mutant: runs that end after the stop are not joined.
  /\ run \in reapable
  /\ loop = "select" /\ ~ stopping
  /\ reapable' = reapable \ {run}
  /\ UNCHANGED <<kind, clock, loop, scheduled, runs, stopping, handle, atStop, starts, ended>>

Reap(run) ==
  /\ run \in reapable
  /\ loop \in {"select", "joining"} /\ (loop = "select" => ~ stopping)
  /\ reapable' = reapable \ {run}
  /\ UNCHANGED <<kind, clock, loop, scheduled, runs, stopping, handle, atStop, starts, ended>>

SeeStopAtOnce ==  \* Mutant
  /\ loop = "select" /\ stopping
  /\ loop' = "stopped"
  /\ UNCHANGED <<kind, clock, scheduled, runs, reapable, stopping, handle, atStop, starts, ended>>

\* run_serially returns, run_overlapping joins its runs.
SeeStop ==
  /\ loop = "select" /\ stopping
  /\ loop' = IF Overlapping THEN "joining" ELSE "stopped"
  /\ UNCHANGED <<kind, clock, scheduled, runs, reapable, stopping, handle, atStop, starts, ended>>

Joined ==
  /\ loop = "joining" /\ runs = {} /\ reapable = {}
  /\ loop' = "stopped"
  /\ UNCHANGED <<kind, clock, scheduled, runs, reapable, stopping, handle, atStop, starts, ended>>

-----------------------------------------------------------------------------
\* The handle.

Shutdown ==
  /\ handle = "running"
  /\ stopping' = TRUE
  /\ handle' = "shutdown"
  /\ atStop' = Len(starts)
  /\ UNCHANGED <<kind, clock, loop, scheduled, runs, reapable, starts, ended>>

ShutdownReturns ==
  /\ handle = "shutdown" /\ loop = "stopped"
  /\ handle' = "stopped"
  /\ UNCHANGED <<kind, clock, loop, scheduled, runs, reapable, stopping, atStop, starts, ended>>

\* Also what dropping the handle does, in the middle of a shutdown for one.
Abort ==
  /\ handle \in {"running", "shutdown"}
  /\ handle' = "abort"
  /\ UNCHANGED <<kind, clock, loop, scheduled, runs, reapable, stopping, atStop, starts, ended>>

\* The task ends at an await, with a run of its own.  Runs it spawned are only
\* told to end: dropping their set does not wait for them.
CancelTask ==
  /\ handle = "abort" /\ loop \notin {"polled", "spawned", "stopped"}
  /\ loop' = "stopped"
  /\ runs' = IF Overlapping THEN runs ELSE {}
  /\ UNCHANGED <<kind, clock, scheduled, reapable, stopping, handle, atStop, starts, ended>>

AbortReturns ==
  /\ handle = "abort" /\ loop = "stopped"
  /\ handle' = "aborted"
  /\ UNCHANGED <<kind, clock, loop, scheduled, runs, reapable, stopping, atStop, starts, ended>>

\* Nothing wakes up on time for sure.
CronTick ==
  /\ clock < MaxTime
  /\ clock' = clock + 1
  /\ UNCHANGED <<kind, loop, scheduled, runs, reapable, stopping, handle, atStop, starts, ended>>

CronInit ==
  /\ kind \in Kinds
  /\ clock = 0
  /\ loop = "select"
  /\ scheduled = 0
  /\ runs = {}
  /\ reapable = {}
  /\ stopping = FALSE
  /\ handle = "running"
  /\ atStop = 0
  /\ starts = <<>>
  /\ ended = 0

\* Runs end, and the tasks are polled.
CronProgress ==
  \/ NotDue \/ StartRun \/ FinishSerial \/ Reschedule \/ SeeStop \/ Joined \/ CancelTask
  \/ \E run \in runs : FinishSpawned(run)
  \/ \E run \in reapable : Reap(run)
  \/ ShutdownReturns \/ AbortReturns

CronNext ==
  \/ Poll \/ CronProgress
  \/ Shutdown \/ Abort
  \/ CronTick

CronSpec == CronInit /\ [][CronNext]_cronVars

-----------------------------------------------------------------------------
CronTypeOK ==
  /\ kind \in Kinds /\ clock \in Nat /\ scheduled \in Nat /\ ended \in Nat
  /\ loop \in {"select", "polled", "running", "spawned", "joining", "stopped"}
  /\ runs \subseteq 1 .. Len(starts) /\ reapable \subseteq 1 .. Len(starts)
  /\ stopping \in BOOLEAN
  /\ handle \in {"running", "shutdown", "abort", "stopped", "aborted"}

\* The table of CronJobInterval (lines 95-99), whenever the task is woken and
\* however long a run takes: runs of AfterFinish and AtLeast never overlap and
\* keep their distance, runs of AfterStart start at or after distinct points of
\* the grid, and of the points missed meanwhile at most one, the one reached
\* exactly, is still run: no burst.
CronSpacing ==
  /\ ~ Overlapping =>
       /\ \A run \in runs : run = Len(starts)
       /\ \A i \in 1 .. Len(starts) - 1 :
            kind = "AtLeast" => StartOf(i + 1) >= StartOf(i) + Interval
       /\ runs # {} /\ Len(starts) > 1 /\ kind = "AfterFinish" =>
            StartOf(Len(starts)) >= ended + Interval
  /\ Overlapping =>
       \A i \in 1 .. Len(starts) :
         /\ starts[i].for % Interval = 0 /\ starts[i].for <= starts[i].at
         /\ i > 1 => /\ starts[i].for > starts[i - 1].for
                     /\ starts[i].for >= starts[i - 1].at

\* Once shutdown was called (line 366) the loop starts one more run at the most,
\* in the select in which it had polled the stop already.
StopIsObeyed == stopping => Len(starts) <= atStop + 1

\* Shutdown returns only when no run is in progress (line 366), nor is one
\* started after.
ShutdownWaits == handle = "stopped" => runs = {}

\* A shutdown comes to an end: no run that is over keeps it waiting.
ShutdownEnds == []<>(handle # "shutdown")
=============================================================================
