--------------------------- MODULE ServicesProofs ----------------------------
(***************************************************************************)
(* Theorems about the services of wakuwaku, the capabilities of            *)
(* wakuwaku-entity and the proofs of wakuwaku-proof, for any values of     *)
(* their constants: cron jobs start when their schedule says and never     *)
(* beside one another, a transaction flow is told what became of its       *)
(* transaction, the search index has the documents of the rows, and a      *)
(* value's proof has evidence of what it says.                             *)
(***************************************************************************)
EXTENDS CronJob, TxFlow, MeiliSync, ValueProofs, WellFoundedInduction, FiniteSetTheorems,
        TLAPS

(***************************************************************************)
(* Cron jobs, for every interval, kind of schedule and number of runs,     *)
(* however long the clock runs.                                            *)
(***************************************************************************)

StartRecord == [for : Nat, at : Nat]

\* Type correctness of what the schedule is made of; no start is in the future.
TimesOK ==
  /\ kind \in Kinds
  /\ clock \in Nat /\ scheduled \in Nat /\ ended \in Nat
  /\ starts \in Seq(StartRecord)
  /\ \A i \in 1 .. Len(starts) : starts[i].at <= clock

\* Each kind of schedule has its own loop, and a serial one has a run exactly
\* while it awaits it: its last one.
LoopOK ==
  /\ loop \in {"select", "polled", "running", "spawned", "joining", "stopped"}
  /\ loop = "running" => ~ Overlapping
  /\ loop \in {"spawned", "joining"} => Overlapping
  /\ loop \in {"running", "spawned"} => Len(starts) > 0
  /\ ~ Overlapping => runs = IF loop = "running" THEN {Len(starts)} ELSE {}

\* A loop that was not aborted stops without a run.
StopsIdle ==
  /\ loop = "stopped" /\ handle \in {"running", "shutdown", "stopped"} => runs = {}
  /\ handle = "stopped" => loop = "stopped"

\* A serial loop waits for the time that keeps the distance to its last run.
SerialSpaced ==
  ~ Overlapping =>
    /\ kind = "AtLeast" =>
         \A i \in 1 .. Len(starts) - 1 : starts[i + 1].at >= starts[i].at + Interval
    /\ loop \in {"select", "polled"} /\ Len(starts) > 0 =>
         /\ kind = "AtLeast" => scheduled >= starts[Len(starts)].at + Interval
         /\ kind = "AfterFinish" => scheduled >= ended + Interval
    /\ loop = "running" /\ Len(starts) > 1 /\ kind = "AfterFinish" =>
         starts[Len(starts)].at >= ended + Interval

\* An overlapping loop waits for a point of the grid after that of its last run.
OnGrid ==
  Overlapping =>
    /\ scheduled % Interval = 0
    /\ \A i \in 1 .. Len(starts) : starts[i].for % Interval = 0 /\ starts[i].for <= starts[i].at
    /\ \A i \in 1 .. Len(starts) - 1 :
         starts[i + 1].for > starts[i].for /\ starts[i + 1].for >= starts[i].at
    /\ loop = "spawned" => scheduled = starts[Len(starts)].for
    /\ loop \in {"select", "polled"} /\ Len(starts) > 0 =>
         scheduled > starts[Len(starts)].for /\ scheduled >= starts[Len(starts)].at

\* After the stop, only a select that polled it before can start a run.
StopsSoon ==
  /\ atStop \in Nat
  /\ stopping => Len(starts) <= atStop + 1
  /\ stopping /\ loop = "polled" => Len(starts) <= atStop

CronInv == TimesOK /\ LoopOK /\ StopsIdle /\ SerialSpaced /\ OnGrid /\ StopsSoon

-----------------------------------------------------------------------------
(* The grid.                                                               *)

\* Division with remainder.
LEMMA Division ==
  ASSUME NEW n \in Nat, NEW d \in Nat \ {0}
  PROVE  /\ n \div d \in Nat /\ n % d \in 0 .. d - 1
         /\ n = d * (n \div d) + (n % d)
BY Z3

\* Rounding up: the number of periods it takes to cover a time.
LEMMA RoundedUp ==
  ASSUME NEW n \in Nat, NEW d \in Nat \ {0}
  PROVE  /\ (n + d - 1) \div d \in Nat
         /\ d * ((n + d - 1) \div d) >= n
         /\ n > 0 => (n + d - 1) \div d > 0
<1> DEFINE q == (n + d - 1) \div d
           r == (n + d - 1) % d
<1>1. n + d - 1 \in Nat
  OBVIOUS
<1>2. q \in Nat /\ r \in 0 .. d - 1 /\ n + d - 1 = d * q + r
  BY <1>1, Division
<1>3. d * q \in Nat /\ d * q >= n
  BY <1>2, Z3
<1>4. n > 0 => q > 0
  BY <1>2, <1>3, Z3
<1>5. QED
  BY <1>2, <1>3, <1>4

\* A multiple stays one when multiples are added.
LEMMA MultipleStays ==
  ASSUME NEW a \in Nat, NEW b \in Nat, NEW d \in Nat \ {0}, a % d = 0
  PROVE  (a + d * b) % d = 0
<1>1. PICK m \in Nat : a = d * m
  <2>1. a \div d \in Nat
    BY Division
  <2>2. a = d * (a \div d) + (a % d)
    BY Division
  <2>3. d * (a \div d) \in Nat
    BY <2>1
  <2>4. a = d * (a \div d)
    BY <2>2, <2>3
  <2>5. QED
    BY <2>1, <2>4
<1>2. a + d * b = d * (m + b)
  BY <1>1, Z3
<1>3. (d * (m + b)) % d = 0
  BY <1>1, Z3
<1>4. QED
  BY <1>2, <1>3

\* The tick after one on the grid is on the grid, later, and not past.
LEMMA NextTickOnGrid ==
  ASSUME NEW previous \in Nat, NEW time \in Nat, previous % Interval = 0
  PROVE  /\ NextTick(previous, time) \in Nat
         /\ NextTick(previous, time) % Interval = 0
         /\ NextTick(previous, time) > previous
         /\ NextTick(previous, time) >= time
<1> DEFINE behind == IF time > previous THEN time - previous ELSE 0
           periods == (behind + Interval - 1) \div Interval
           count == IF periods = 0 THEN 1 ELSE periods
<1>1. Interval \in Nat \ {0} /\ behind \in Nat
  BY CronAssumption DEF CronAssumption
<1>2. periods \in Nat /\ Interval * periods >= behind
  BY <1>1, RoundedUp
<1> HIDE DEF periods
<1>3. count \in Nat \ {0}
  BY <1>2
<1>4. Interval * count \in Nat /\ Interval * count >= 1 /\ Interval * count >= behind
  BY <1>1, <1>2, <1>3, Z3
<1>5. NextTick(previous, time) = previous + Interval * count
  BY DEF NextTick, periods
<1>6. (previous + Interval * count) % Interval = 0
  BY <1>1, <1>3, MultipleStays
<1> HIDE DEF count
<1>7. previous + Interval * count > previous /\ previous + Interval * count >= time
  BY <1>1, <1>4
<1>8. QED
  BY <1>4, <1>5, <1>6, <1>7

-----------------------------------------------------------------------------
(* The steps.                                                              *)

\* The invariant holds initially.
LEMMA CronInitInv == CronInit => CronInv
<1> SUFFICES ASSUME CronInit PROVE CronInv
  OBVIOUS
<1>1. starts = <<>> /\ starts \in Seq(StartRecord) /\ Len(starts) = 0
  BY DEF CronInit
<1>2. 0 % Interval = 0
  BY CronAssumption, Division, Z3 DEF CronAssumption
<1>3. QED
  BY <1>1, <1>2
     DEF CronInit, CronInv, TimesOK, LoopOK, StopsIdle, SerialSpaced, OnGrid, StopsSoon,
         Overlapping

\* A run that starts is the last of the runs, and the others stay as they are.
LEMMA StartAppends ==
  ASSUME TimesOK, StartRun
  PROVE  /\ starts' \in Seq(StartRecord) /\ Len(starts') = Len(starts) + 1
         /\ Len(starts) \in Nat
         /\ starts'[Len(starts')] = [for |-> scheduled, at |-> clock]
         /\ \A i \in 1 .. Len(starts) : starts'[i] = starts[i]
<1>1. [for |-> scheduled, at |-> clock] \in StartRecord /\ starts \in Seq(StartRecord)
  BY DEF TimesOK, StartRecord
<1>2. starts' = Append(starts, [for |-> scheduled, at |-> clock])
  BY DEF StartRun
<1>3. QED
  BY <1>1, <1>2

\* All other steps leave the runs that were started.
LEMMA StartsElsewhere ==
  ASSUME [CronNext]_cronVars, ~ StartRun
  PROVE  starts' = starts
BY DEF CronNext, CronProgress, cronVars, Poll, NotDue, FinishSerial, Reschedule, FinishSpawned,
       SeeStop, Joined, CancelTask, Reap, Shutdown, ShutdownReturns, Abort, AbortReturns,
       CronTick

\* The end of a serial run sets the time of the next.
LEMMA SerialEnd ==
  ASSUME TimesOK, LoopOK, FinishSerial
  PROVE  /\ ~ Overlapping /\ Len(starts) \in Nat /\ Len(starts) > 0
         /\ starts[Len(starts)] \in StartRecord
         /\ scheduled' = NextStart(starts[Len(starts)].at, clock)
<1>1. ~ Overlapping /\ runs = {Len(starts)} /\ Len(starts) > 0
  BY DEF LoopOK, FinishSerial
<1>2. Len(starts) \in Nat /\ starts[Len(starts)] \in StartRecord
  BY <1>1 DEF TimesOK
<1>3. QED
  BY <1>1, <1>2 DEF FinishSerial, StartOf

\* Each part of the invariant is preserved: the times,
LEMMA NextTimes ==
  ASSUME TimesOK, LoopOK, OnGrid, [CronNext]_cronVars
  PROVE  TimesOK'
<1> USE CronAssumption DEF CronAssumption
<1>1. CASE StartRun
  BY <1>1, StartAppends DEF StartRun, TimesOK
<1>2. CASE FinishSerial
  <2>1. scheduled' \in Nat
    BY <1>2, SerialEnd DEF NextStart, StartRecord, TimesOK
  <2>2. QED
    BY <1>2, <2>1 DEF FinishSerial, TimesOK
<1>3. CASE Reschedule
  <2>1. scheduled' \in Nat
    BY <1>3, NextTickOnGrid DEF Reschedule, TimesOK, LoopOK, OnGrid
  <2>2. QED
    BY <1>3, <2>1 DEF Reschedule, TimesOK
<1>4. CASE CronTick
  <2>1. ASSUME NEW i \in 1 .. Len(starts) PROVE starts[i].at \in Nat
    <3>1. starts[i] \in StartRecord
      BY DEF TimesOK
    <3>2. QED
      BY <3>1 DEF StartRecord
  <2>2. QED
    BY <1>4, <2>1 DEF CronTick, TimesOK
<1>5. CASE UNCHANGED <<kind, clock, scheduled, starts>> /\ ended' \in {ended, clock}
  BY <1>5 DEF TimesOK
<1>6. QED
  BY <1>1, <1>2, <1>3, <1>4, <1>5
     DEF CronNext, CronProgress, cronVars, Poll, NotDue, FinishSpawned, SeeStop, Joined,
         CancelTask, Reap, Shutdown, ShutdownReturns, Abort, AbortReturns

\* the loop,
LEMMA NextLoop ==
  ASSUME TimesOK, LoopOK, [CronNext]_cronVars
  PROVE  LoopOK'
<1>1. CASE StartRun
  BY <1>1, StartAppends DEF StartRun, LoopOK, Overlapping
<1>2. CASE ~ StartRun
  <2>1. starts' = starts
    BY <1>2, StartsElsewhere
  <2>2. QED
    BY <1>2, <2>1
       DEF CronNext, CronProgress, cronVars, Poll, NotDue, FinishSerial, Reschedule,
           FinishSpawned, SeeStop, Joined, CancelTask, Reap, Shutdown, ShutdownReturns, Abort,
           AbortReturns, CronTick, LoopOK, Overlapping
<1>3. QED
  BY <1>1, <1>2

\* the stopped loop,
LEMMA NextIdle ==
  ASSUME LoopOK, StopsIdle, [CronNext]_cronVars
  PROVE  StopsIdle'
BY DEF CronNext, CronProgress, cronVars, Poll, NotDue, StartRun, FinishSerial, Reschedule,
       FinishSpawned, SeeStop, Joined, CancelTask, Reap, Shutdown, ShutdownReturns, Abort,
       AbortReturns, CronTick, LoopOK, StopsIdle, Overlapping

\* The times of the runs that were started.
LEMMA StartTimes ==
  ASSUME TimesOK
  PROVE  /\ Len(starts) \in Nat
         /\ \A i \in 1 .. Len(starts) : starts[i].for \in Nat /\ starts[i].at \in Nat
<1>1. ASSUME NEW i \in 1 .. Len(starts) PROVE starts[i] \in StartRecord
  BY DEF TimesOK
<1>2. QED
  BY <1>1 DEF StartRecord, TimesOK

\* the runs of a serial schedule,
LEMMA NextSerial ==
  ASSUME TimesOK, LoopOK, SerialSpaced, [CronNext]_cronVars
  PROVE  SerialSpaced'
<1> SUFFICES ASSUME ~ Overlapping PROVE SerialSpaced'
  <2>1. kind' = kind
    BY DEF CronNext, CronProgress, cronVars, Poll, NotDue, StartRun, FinishSerial, Reschedule,
           FinishSpawned, SeeStop, Joined, CancelTask, Reap, Shutdown, ShutdownReturns, Abort,
           AbortReturns, CronTick
  <2>2. QED
    BY <2>1 DEF SerialSpaced, Overlapping
<1> USE CronAssumption DEF CronAssumption
<1>1. CASE StartRun
  <2>1. kind' = kind /\ scheduled' = scheduled /\ ended' = ended /\ loop' = "running"
    BY <1>1 DEF StartRun
  <2>2. loop = "polled" /\ clock >= scheduled
    BY <1>1 DEF StartRun
  <2>3. starts'[Len(starts')].at >= scheduled
    BY <1>1, <2>2, StartAppends
  <2>4. ASSUME kind = "AtLeast", NEW i \in 1 .. Len(starts') - 1
        PROVE  starts'[i + 1].at >= starts'[i].at + Interval
    <3>1. CASE i = Len(starts)
      BY <1>1, <2>2, <2>4, <3>1, StartAppends, StartTimes DEF SerialSpaced, TimesOK
    <3>2. CASE i # Len(starts)
      <4>1. i \in 1 .. Len(starts) - 1 /\ i + 1 \in 1 .. Len(starts) /\ i \in 1 .. Len(starts)
        BY <1>1, <3>2, StartAppends
      <4>2. QED
        BY <1>1, <2>4, <4>1, StartAppends DEF SerialSpaced
    <3>3. QED
      BY <3>1, <3>2
  <2>5. ASSUME kind = "AfterFinish", Len(starts') > 1
        PROVE  starts'[Len(starts')].at >= ended + Interval
    BY <1>1, <2>2, <2>3, <2>5, StartAppends DEF SerialSpaced, TimesOK
  <2>6. QED
    BY <2>1, <2>4, <2>5 DEF SerialSpaced
<1>2. CASE FinishSerial
  <2>1. /\ starts' = starts /\ kind' = kind /\ ended' = clock /\ loop' = "select"
        /\ scheduled' = NextStart(starts[Len(starts)].at, clock)
    BY <1>2, SerialEnd DEF FinishSerial
  <2>2. kind = "AtLeast" => scheduled' = starts[Len(starts)].at + Interval
    BY <2>1 DEF NextStart
  <2>3. kind = "AfterFinish" => scheduled' = ended' + Interval
    BY <2>1 DEF NextStart
  <2>4. scheduled' >= scheduled'
    BY <1>2, SerialEnd DEF NextStart, StartRecord, TimesOK
  <2>5. QED
    BY <2>1, <2>2, <2>3, <2>4 DEF SerialSpaced
<1>3. CASE ~ StartRun /\ ~ FinishSerial
  <2>1. starts' = starts /\ kind' = kind
    BY <1>3, StartsElsewhere
       DEF CronNext, CronProgress, cronVars, Poll, NotDue, Reschedule, FinishSpawned, SeeStop,
           Joined, CancelTask, Reap, Shutdown, ShutdownReturns, Abort, AbortReturns, CronTick
  <2>2. /\ UNCHANGED <<scheduled, ended>>
        /\ \/ loop' \in {loop, "stopped", "joining"}
           \/ {loop, loop'} = {"select", "polled"}
    BY <1>3
       DEF CronNext, CronProgress, cronVars, Poll, NotDue, Reschedule, FinishSpawned, SeeStop,
           Joined, CancelTask, Reap, Shutdown, ShutdownReturns, Abort, AbortReturns, CronTick,
           LoopOK
  <2>3. QED
    BY <2>1, <2>2 DEF SerialSpaced
<1>4. QED
  BY <1>1, <1>2, <1>3

\* and those of a fixed one.
LEMMA NextGrid ==
  ASSUME TimesOK, LoopOK, OnGrid, [CronNext]_cronVars
  PROVE  OnGrid'
<1> SUFFICES ASSUME Overlapping PROVE OnGrid'
  <2>1. kind' = kind
    BY DEF CronNext, CronProgress, cronVars, Poll, NotDue, StartRun, FinishSerial, Reschedule,
           FinishSpawned, SeeStop, Joined, CancelTask, Reap, Shutdown, ShutdownReturns, Abort,
           AbortReturns, CronTick
  <2>2. QED
    BY <2>1 DEF OnGrid, Overlapping
<1>1. CASE StartRun
  <2>1. scheduled' = scheduled /\ loop' = "spawned"
    BY <1>1 DEF StartRun
  <2>2. loop = "polled" /\ clock >= scheduled
    BY <1>1 DEF StartRun
  <2>3. ASSUME NEW i \in 1 .. Len(starts')
        PROVE  starts'[i].for % Interval = 0 /\ starts'[i].for <= starts'[i].at
    <3>1. CASE i = Len(starts')
      BY <1>1, <2>2, <3>1, StartAppends DEF OnGrid, TimesOK
    <3>2. CASE i # Len(starts')
      BY <1>1, <2>3, <3>2, StartAppends DEF OnGrid
    <3>3. QED
      BY <3>1, <3>2
  <2>4. ASSUME NEW i \in 1 .. Len(starts') - 1
        PROVE  starts'[i + 1].for > starts'[i].for /\ starts'[i + 1].for >= starts'[i].at
    <3>1. CASE i = Len(starts)
      BY <1>1, <2>2, <2>4, <3>1, StartAppends DEF OnGrid
    <3>2. CASE i # Len(starts)
      <4>1. i \in 1 .. Len(starts) - 1 /\ i + 1 \in 1 .. Len(starts) /\ i \in 1 .. Len(starts)
        BY <1>1, <3>2, StartAppends
      <4>2. QED
        BY <1>1, <4>1, StartAppends DEF OnGrid
    <3>3. QED
      BY <3>1, <3>2
  <2>5. starts'[Len(starts')].for = scheduled
    BY <1>1, StartAppends
  <2>6. QED
    BY <2>1, <2>3, <2>4, <2>5 DEF OnGrid
<1>2. CASE Reschedule
  <2>1. /\ starts' = starts /\ loop' = "select"
        /\ scheduled' = NextTick(scheduled, clock)
    BY <1>2 DEF Reschedule
  <2>2. /\ scheduled = starts[Len(starts)].for /\ scheduled % Interval = 0
        /\ Len(starts) > 0 /\ starts[Len(starts)].at <= clock
    BY <1>2, StartTimes DEF Reschedule, OnGrid, LoopOK, TimesOK
  <2>3. scheduled' % Interval = 0 /\ scheduled' > scheduled /\ scheduled' >= clock
        /\ scheduled' \in Nat
    BY <2>1, <2>2, NextTickOnGrid DEF TimesOK
  <2>4. scheduled' >= starts[Len(starts)].at
    BY <2>2, <2>3, StartTimes DEF TimesOK
  <2>5. QED
    BY <2>1, <2>2, <2>3, <2>4 DEF OnGrid
<1>3. CASE ~ StartRun /\ ~ Reschedule
  <2>1. starts' = starts /\ kind' = kind
    BY <1>3, StartsElsewhere
       DEF CronNext, CronProgress, cronVars, Poll, NotDue, FinishSerial, FinishSpawned, SeeStop,
           Joined, CancelTask, Reap, Shutdown, ShutdownReturns, Abort, AbortReturns, CronTick
  <2>2. /\ UNCHANGED scheduled
        /\ \/ loop' \in {loop, "stopped", "joining"}
           \/ {loop, loop'} = {"select", "polled"}
    BY <1>3
       DEF CronNext, CronProgress, cronVars, Poll, NotDue, FinishSerial, FinishSpawned, SeeStop,
           Joined, CancelTask, Reap, Shutdown, ShutdownReturns, Abort, AbortReturns, CronTick,
           LoopOK
  <2>3. QED
    BY <2>1, <2>2 DEF OnGrid
<1>4. QED
  BY <1>1, <1>2, <1>3

\* and what the stop allows.
LEMMA NextStop ==
  ASSUME TimesOK, StopsSoon, [CronNext]_cronVars
  PROVE  StopsSoon'
<1>1. CASE StartRun
  BY <1>1, StartAppends DEF StartRun, StopsSoon
<1>2. CASE Shutdown
  <2>1. starts' = starts /\ atStop' = Len(starts) /\ Len(starts) \in Nat
    BY <1>2, StartTimes DEF Shutdown
  <2>2. QED
    BY <2>1 DEF StopsSoon
<1>3. CASE ~ StartRun /\ ~ Shutdown
  <2>1. starts' = starts
    BY <1>3, StartsElsewhere
  <2>2. /\ UNCHANGED <<atStop, stopping>>
        /\ stopping /\ loop' = "polled" => loop = "polled"
    BY <1>3 DEF CronNext, CronProgress, cronVars, Poll, NotDue, FinishSerial, Reschedule,
                FinishSpawned, SeeStop, Joined, CancelTask, Reap, ShutdownReturns, Abort,
                AbortReturns, CronTick
  <2>3. QED
    BY <2>1, <2>2 DEF StopsSoon
<1>4. QED
  BY <1>1, <1>2, <1>3

-----------------------------------------------------------------------------
(* The theorems.                                                           *)

\* Hence it is an invariant.
LEMMA CronInvariant == CronSpec => []CronInv
<1>1. CronInv /\ [CronNext]_cronVars => CronInv'
  BY NextTimes, NextLoop, NextIdle, NextSerial, NextGrid, NextStop DEF CronInv
<1>2. QED
  BY <1>1, CronInitInv, PTL DEF CronSpec

\* Runs keep the distance of their schedule, and miss ticks rather than burst,
\* however late the task is woken and however long runs take.
THEOREM CronKeepsSpacing == CronSpec => []CronSpacing
<1>1. CronInv => CronSpacing
  <2> SUFFICES ASSUME CronInv PROVE CronSpacing
    OBVIOUS
  <2>1. CASE ~ Overlapping
    <3>1. runs = {} \/ (runs = {Len(starts)} /\ loop = "running")
      BY <2>1 DEF CronInv, LoopOK
    <3>2. QED
      BY <2>1, <3>1 DEF CronInv, SerialSpaced, CronSpacing, StartOf
  <2>2. CASE Overlapping
    <3>1. ASSUME NEW i \in 1 .. Len(starts), i > 1
          PROVE  starts[i].for > starts[i - 1].for /\ starts[i].for >= starts[i - 1].at
      <4>1. i - 1 \in 1 .. Len(starts) - 1 /\ (i - 1) + 1 = i
        BY <3>1, StartTimes DEF CronInv
      <4>2. QED
        BY <2>2, <4>1 DEF CronInv, OnGrid
    <3>2. QED
      BY <2>2, <3>1 DEF CronInv, OnGrid, CronSpacing
  <2>3. QED
    BY <2>1, <2>2
<1>2. QED
  BY <1>1, CronInvariant, PTL

\* Shutdown returns only when no run is in progress.
THEOREM CronShutdownWaits == CronSpec => []ShutdownWaits
<1>1. CronInv => ShutdownWaits
  BY DEF CronInv, StopsIdle, ShutdownWaits
<1>2. QED
  BY <1>1, CronInvariant, PTL

\* Once shutdown was called one more run starts at the most, in the select in
\* which the loop had polled the stop already.
THEOREM CronObeysStop == CronSpec => []StopIsObeyed
<1>1. CronInv => StopIsObeyed
  BY DEF CronInv, StopsSoon, StopIsObeyed
<1>2. QED
  BY <1>1, CronInvariant, PTL

-----------------------------------------------------------------------------
(***************************************************************************)
(* Transaction flows, for every set of isolation levels, any number of     *)
(* queries in a flow, and any number of flows on the connection.           *)
(***************************************************************************)

-----------------------------------------------------------------------------
(* The inductive invariant.                                                *)

Conn == [tx : {"none", "open", "failed"}, level : Level \cup {Default},
         next : Level \cup {Default}]

\* Nothing is durable, and nothing was told, before the transaction ends.
Undecided ==
  at \in {"acquire", "isolation", "begin", "end", "step", "committing"} =>
    durable = {} /\ commit = None /\ output = None /\ report = None /\ told = None

\* COMMIT is sent only for a transaction that the flow holds usable.
CommitsUsable == at = "committing" => ~ aborted

\* MySQL was told the level that the next transaction needs.
LevelSet ==
  at = "begin" /\ backend = "mysql" /\ isolation # Default => conn.next = isolation

\* ReportTrue with "returned" extended back to the hook.
DecidedTrue ==
  /\ Told("Committed") \/ output = "Committed" => durable = applied
  /\ Told("RolledBack") \/ output \in {"Begin", "RolledBack", "CommitRejected", "Aborted"}
       => durable = {}
  /\ durable # {} /\ at \in {"hook", "returned"} =>
       output \in {"Committed", "CommitUnknown", "EndMismatch"}

TxInv ==
  /\ TxTypeOK
  /\ Undecided
  /\ UnabortedIsOpen
  /\ CommitsUsable
  /\ AllOrNothing
  /\ DecidedTrue
  /\ LevelSet
  /\ NamedLevelHolds

\* The first flow has not begun.
LEMMA TxInitInv == TxInit => TxInv
<1> SUFFICES ASSUME TxInit PROVE TxInv
  OBVIOUS
<1> USE DEF TxInit
<1>1. TxTypeOK
  <2>1. conn \in Conn
    BY DEF Connected, Conn
  <2>2. durable \subseteq applied /\ applied \subseteq 1 .. asked
    OBVIOUS
  <2>3. asked \in 0 .. MaxQueries /\ flows \in 0 .. MaxFlows
    BY TxAssumption DEF TxAssumption
  <2>4. {report, told} \subseteq {None, "Committed", "RolledBack", "CommitUnknown"}
    OBVIOUS
  <2>5. QED
    BY <2>1, <2>2, <2>3, <2>4 DEF TxTypeOK, Conn
<1>2. Undecided /\ UnabortedIsOpen /\ CommitsUsable /\ LevelSet /\ NamedLevelHolds
  BY DEF Undecided, UnabortedIsOpen, CommitsUsable, LevelSet, NamedLevelHolds, InTx
<1>3. AllOrNothing /\ DecidedTrue
  BY DEF AllOrNothing, DecidedTrue, Told, None
<1>4. QED
  BY <1>1, <1>2, <1>3 DEF TxInv

\* What the server does to the connection keeps its type.
LEMMA ConnTypes ==
  ASSUME conn \in Conn
  PROVE  /\ Connected \in Conn
         /\ \A tx \in {"none", "open", "failed"} : [conn EXCEPT !.tx = tx] \in Conn
         /\ \A level \in Level \cup {Default} :
              /\ [conn EXCEPT !.next = level] \in Conn
              /\ [tx |-> "open", level |-> level, next |-> Default] \in Conn
         /\ conn.next \in Level \cup {Default}
<1> USE DEF Conn
<1>1. Connected \in Conn
  BY DEF Connected
<1>2. ASSUME NEW tx \in {"none", "open", "failed"} PROVE [conn EXCEPT !.tx = tx] \in Conn
  OBVIOUS
<1>3. ASSUME NEW level \in Level \cup {Default}
      PROVE  /\ [conn EXCEPT !.next = level] \in Conn
             /\ [tx |-> "open", level |-> level, next |-> Default] \in Conn
  OBVIOUS
<1>4. conn.next \in Level \cup {Default}
  OBVIOUS
<1>5. QED
  BY <1>1, <1>2, <1>3, <1>4

\* The connection, in a type-correct state.
LEMMA ConnNext ==
  ASSUME TxTypeOK, TxNext
  PROVE  conn' \in Conn
<1> USE DEF connVars
<1>0. conn \in Conn /\ isolation \in Level \cup {Default}
  BY DEF TxTypeOK, Conn
<1>1. ASSUME BeginFails PROVE conn' \in Conn
  BY <1>0, <1>1, ConnTypes DEF BeginFails
<1>2. ASSUME SetIsolation PROVE conn' \in Conn
  BY <1>0, <1>2, ConnTypes DEF SetIsolation
<1>3. ASSUME Begin PROVE conn' \in Conn
  <2>1. LevelOfBegin \in Level \cup {Default}
    BY <1>0, ConnTypes DEF LevelOfBegin
  <2>2. QED
    BY <1>0, <1>3, <2>1, ConnTypes DEF Begin
<1>4. ASSUME NEW outcome \in Outcomes, Run(outcome) PROVE conn' \in Conn
  <2>1. \/ conn' = Connected
        \/ \E tx \in {"none", "failed"} : conn' = [conn EXCEPT !.tx = tx]
        \/ conn' = conn
    BY <1>4 DEF Run, ServerRuns
  <2>2. QED
    BY <1>0, <2>1, ConnTypes
<1>5. ASSUME NEW end \in Ends \cup {None}, EndRollback(end) PROVE conn' \in Conn
  BY <1>0, <1>5, ConnTypes DEF EndRollback
<1>6. ASSUME NEW end \in Ends \cup {None}, NEW result \in {"ok", "rejected", "lost"},
             Committed(result, end)
      PROVE  conn' \in Conn
  <2>1. conn' = Connected \/ conn' = [conn EXCEPT !.tx = "none"]
    BY <1>6 DEF Committed
  <2>2. QED
    BY <1>0, <2>1, ConnTypes
<1>7. ASSUME DropFuture PROVE conn' \in Conn
  BY <1>0, <1>7, ConnTypes DEF DropFuture
<1>8. ASSUME QueryAlone PROVE conn' \in Conn
  BY <1>0, <1>8, ConnTypes DEF QueryAlone
<1>9. ASSUME UNCHANGED conn PROVE conn' \in Conn
  BY <1>0, <1>9
<1>10. QED
  BY <1>1, <1>2, <1>3, <1>4, <1>5, <1>6, <1>7, <1>8, <1>9
     DEF TxNext, StartFlow, Acquire, RunAborted, With, EndOpen, EndCommit, RunHook

-----------------------------------------------------------------------------
(* Type correctness.                                                       *)

\* Each part of the invariant is preserved: types,
LEMMA TxNextType ==
  ASSUME TxTypeOK, Undecided, UnabortedIsOpen, TxNext
  PROVE  TxTypeOK'
<1> DEFINE Result == {None, "ok", "rejected", "lost"}
           Output == {None, "Begin", "Committed", "RolledBack", "CommitRejected",
                      "CommitUnknown", "Aborted", "EndMismatch"}
           Report == {None, "Committed", "RolledBack", "CommitUnknown"}
           Places == {"acquire", "isolation", "begin", "end", "step", "committing", "hook",
                      "returned", "dropped"}
           StatementsOK == durable \subseteq applied /\ applied \subseteq 1 .. asked
           CountersOK == asked \in 0 .. MaxQueries /\ flows \in 0 .. MaxFlows
           ControlOK == /\ backend \in Backends /\ isolation \in Level \cup {Default}
                        /\ at \in Places /\ state \in Ends \cup {"open", None}
                        /\ aborted \in BOOLEAN
           DoneOK == /\ commit \in Result /\ output \in Output
                     /\ report \in Report /\ told \in Report
<1>1. StatementsOK /\ CountersOK /\ ControlOK /\ DoneOK
  BY DEF TxTypeOK
<1>2. conn' \in Conn
  BY ConnNext
<1>3. StatementsOK'
  BY <1>1, TxAssumption
     DEF TxAssumption, TxNext, connVars, StartFlow, FreshFlow, Acquire, BeginFails, NotBegun,
         SetIsolation, Begin, Run, ServerRuns, RunAborted, With, EndOpen, EndCommit,
         EndRollback, Committed, ServerCommits, RunHook, DropFuture, QueryAlone,
         UnabortedIsOpen, InTx
<1>4. CountersOK'
  BY <1>1, TxAssumption
     DEF TxAssumption, TxNext, connVars, StartFlow, FreshFlow, Acquire, BeginFails, NotBegun,
         SetIsolation, Begin, Run, RunAborted, With, EndOpen, EndCommit,
         EndRollback, Committed, RunHook, DropFuture, QueryAlone
<1>5. ControlOK'
  BY <1>1
     DEF TxNext, connVars, StartFlow, FreshFlow, Acquire, BeginFails, NotBegun,
         SetIsolation, Begin, Run, RunAborted, With, EndOpen, EndCommit, EndRollback, Close,
         Committed, RunHook, DropFuture, QueryAlone, Aborts, PgAborts, MySqlAborts, Ends
<1>6. DoneOK'
  BY <1>1
     DEF TxNext, connVars, doneVars, StartFlow, FreshFlow, Acquire, BeginFails, NotBegun,
         SetIsolation, Begin, Run, RunAborted, With, EndOpen, EndCommit, EndRollback, Close,
         CloseOf, Committed, RunHook, DropFuture, QueryAlone, None, Ends
<1>7. QED
  BY <1>2, <1>3, <1>4, <1>5, <1>6 DEF TxTypeOK, Conn

-----------------------------------------------------------------------------
(* The steps, for what the database did and what is said of it.            *)

\* Nothing is decided before the transaction ends.
LEMMA NextUndecided ==
  ASSUME TxTypeOK, Undecided, UnabortedIsOpen, TxNext
  PROVE  Undecided'
BY DEF Undecided, TxNext, connVars, doneVars, StartFlow, FreshFlow, Acquire, BeginFails,
       NotBegun, SetIsolation, Begin, Run, ServerRuns, RunAborted, With, EndOpen, EndCommit,
       EndRollback, Close, Committed, RunHook, DropFuture, QueryAlone, UnabortedIsOpen, InTx

\* An error that ends the transaction on the server is known to end it.
LEMMA RunKeepsOpen ==
  ASSUME TxTypeOK, UnabortedIsOpen, NEW outcome \in Outcomes, Run(outcome)
  PROVE  UnabortedIsOpen'
<1>1. conn \in Conn /\ backend \in Backends
  BY DEF TxTypeOK, Conn
<1>2. conn.tx = "open" /\ at' = "step"
  BY DEF Run, UnabortedIsOpen, InTx
<1>3. CASE outcome \in SqlxErrors
  <2>1. CASE outcome = "transport"
    BY <1>3, <2>1
       DEF Run, Aborts, PgAborts, MySqlAborts, ServerErrors, ClientErrors, UnabortedIsOpen
  <2>2. CASE outcome \in ServerErrors /\ (backend = "pgsql" \/ outcome = "deadlock")
    BY <1>3, <2>2
       DEF Run, Aborts, PgAborts, MySqlAborts, ServerErrors, ClientErrors, UnabortedIsOpen
  <2>3. CASE outcome \in ClientErrors \/ (backend = "mysql" /\ outcome = "statement")
    BY <1>1, <1>2, <2>3 DEF Run, ServerRuns, ServerErrors, ClientErrors, UnabortedIsOpen
  <2>4. QED
    BY <1>1, <1>3, <2>1, <2>2, <2>3 DEF SqlxErrors, ServerErrors, ClientErrors, Backends
<1>4. CASE outcome \notin SqlxErrors
  <2>1. conn' = conn
    BY <1>4 DEF Run, ServerRuns, SqlxErrors, ServerErrors, ClientErrors
  <2>2. QED
    BY <1>2, <2>1 DEF UnabortedIsOpen
<1>5. QED
  BY <1>3, <1>4

\* what is durable before the end,
LEMMA NextOpen ==
  ASSUME TxTypeOK, UnabortedIsOpen, TxNext
  PROVE  UnabortedIsOpen'
<1>0. conn \in Conn
  BY DEF TxTypeOK, Conn
<1>1. ASSUME NEW outcome \in Outcomes, Run(outcome) PROVE UnabortedIsOpen'
  BY <1>1, RunKeepsOpen
<1>2. ASSUME Begin PROVE UnabortedIsOpen'
  BY <1>2 DEF Begin, UnabortedIsOpen
<1>3. ASSUME UNCHANGED conn, UNCHANGED aborted, InTx' => InTx PROVE UnabortedIsOpen'
  BY <1>3 DEF UnabortedIsOpen
<1>4. ASSUME ~ InTx' PROVE UnabortedIsOpen'
  BY <1>4 DEF UnabortedIsOpen
<1>5. QED
  BY <1>1, <1>2, <1>3, <1>4
     DEF TxNext, connVars, InTx, StartFlow, Acquire, BeginFails, NotBegun, SetIsolation,
         RunAborted, With, EndOpen, EndCommit, EndRollback, Close, Committed, RunHook,
         DropFuture, QueryAlone

\* the commit of a usable transaction,
LEMMA NextCommits ==
  ASSUME CommitsUsable, TxNext
  PROVE  CommitsUsable'
BY DEF CommitsUsable, TxNext, StartFlow, Acquire, BeginFails, NotBegun, SetIsolation, Begin,
       Run, RunAborted, With, EndOpen, EndCommit, EndRollback, Close, Committed, RunHook,
       DropFuture, QueryAlone

\* Only COMMIT, and a future dropped while it is under way, make statements
\* durable: all of them.
LEMMA NextDurable ==
  ASSUME TxTypeOK, Undecided, UnabortedIsOpen, CommitsUsable, TxNext
  PROVE  \/ durable' = durable /\ applied' = applied
         \/ durable' = {}
         \/ at = "committing" /\ durable' = applied /\ applied' = applied
BY DEF TxNext, connVars, StartFlow, FreshFlow, Acquire, BeginFails, NotBegun, SetIsolation,
       Begin, Run, ServerRuns, RunAborted, With, EndOpen, EndCommit, EndRollback, Committed,
       ServerCommits, RunHook, DropFuture, QueryAlone, Undecided, UnabortedIsOpen, InTx

\* and all or nothing.
LEMMA NextAllOrNothing ==
  ASSUME TxTypeOK, Undecided, UnabortedIsOpen, CommitsUsable, AllOrNothing, TxNext
  PROVE  AllOrNothing'
BY NextDurable DEF AllOrNothing

\* What was reported or told, before and after a step.
LEMMA ToldIs ==
  ASSUME NEW what
  PROVE  /\ Told(what) <=> report = what \/ told = what
         /\ Told(what)' <=> report' = what \/ told' = what
BY DEF Told

\* close says of each end what COMMIT or ROLLBACK did.
LEMMA CommittedTrue ==
  ASSUME Undecided, UnabortedIsOpen, CommitsUsable,
         NEW end \in Ends \cup {None}, NEW result \in {"ok", "rejected", "lost"},
         Committed(result, end)
  PROVE  DecidedTrue'
<1>1. conn.tx = "open" /\ durable = {} /\ told = None /\ ~ aborted
  BY DEF Committed, Undecided, UnabortedIsOpen, CommitsUsable, InTx
<1>2. told' = None /\ applied' = applied
  BY <1>1 DEF Committed
<1>3. output' = CloseOf(end, result).output /\ report' = CloseOf(end, result).report
  BY DEF Committed, Close
<1>4. CASE result = "ok"
  <2>1. durable' = applied
    BY <1>1, <1>4 DEF Committed, ServerCommits
  <2>2. output' \in {"Committed", "EndMismatch"} /\ report' \in {"Committed", None}
    BY <1>3, <1>4 DEF CloseOf, None
  <2>3. QED
    BY <1>2, <2>1, <2>2, ToldIs DEF DecidedTrue, None
<1>5. CASE result = "rejected"
  <2>1. durable' = {}
    BY <1>1, <1>5 DEF Committed
  <2>2. /\ output' \in {"CommitRejected", "EndMismatch"}
        /\ report' \in {"RolledBack", None}
    BY <1>3, <1>5 DEF CloseOf, None
  <2>3. QED
    BY <1>2, <2>1, <2>2, ToldIs DEF DecidedTrue, None
<1>6. CASE result = "lost"
  <2>1. output' \in {"CommitUnknown", "EndMismatch"} /\ report' \in {"CommitUnknown", None}
    BY <1>3, <1>6 DEF CloseOf, None
  <2>2. QED
    BY <1>2, <2>1, ToldIs DEF DecidedTrue, None
<1>7. QED
  BY <1>4, <1>5, <1>6

\* And of a rollback.
LEMMA RollbackTrue ==
  ASSUME Undecided, NEW end \in Ends \cup {None}, EndRollback(end)
  PROVE  DecidedTrue'
<1>1. durable' = {} /\ told' = None
  BY DEF EndRollback, Undecided
<1>2. output' = CloseOf(end, None).output /\ report' = CloseOf(end, None).report
  BY DEF EndRollback, Close
<1>3. output' \in {"Aborted", "RolledBack", "EndMismatch"} /\ report' \in {"RolledBack", None}
  BY <1>2 DEF CloseOf, None
<1>4. QED
  BY <1>1, <1>3, ToldIs DEF DecidedTrue, None

\* Preserved too: what was decided,
LEMMA NextDecided ==
  ASSUME TxTypeOK, Undecided, UnabortedIsOpen, CommitsUsable, DecidedTrue, TxNext
  PROVE  DecidedTrue'
<1>1. ASSUME NEW end \in Ends \cup {None}, NEW result \in {"ok", "rejected", "lost"},
             Committed(result, end)
      PROVE  DecidedTrue'
  BY <1>1, CommittedTrue
<1>2. ASSUME NEW end \in Ends \cup {None}, EndRollback(end) PROVE DecidedTrue'
  BY <1>2, RollbackTrue
<1>3. ASSUME RunHook PROVE DecidedTrue'
  BY <1>3, ToldIs DEF RunHook, connVars, DecidedTrue
<1>4. ASSUME BeginFails PROVE DecidedTrue'
  BY <1>4, ToldIs DEF BeginFails, NotBegun, Undecided, DecidedTrue, None
<1>5. ASSUME UNCHANGED <<durable, applied, doneVars>>, at' = at \/ at' \notin {"hook", "returned"}
      PROVE  DecidedTrue'
  BY <1>5, ToldIs DEF doneVars, DecidedTrue
<1>6. ASSUME output' = None, report' = None, told' = None, at' \notin {"hook", "returned"}
      PROVE  DecidedTrue'
  BY <1>6, ToldIs DEF DecidedTrue, None
<1>7. QED
  BY <1>1, <1>2, <1>3, <1>4, <1>5, <1>6
     DEF TxNext, connVars, doneVars, StartFlow, FreshFlow, Acquire, SetIsolation, Begin, Run,
         ServerRuns, RunAborted, With, EndOpen, EndCommit, DropFuture, QueryAlone, Undecided

-----------------------------------------------------------------------------
(* The steps, for the isolation level.                                     *)

\* the level that was set,
LEMMA NextLevel ==
  ASSUME TxTypeOK, LevelSet, TxNext
  PROVE  LevelSet'
<1>1. conn \in Conn
  BY DEF TxTypeOK, Conn
<1>2. QED
  BY <1>1
     DEF LevelSet, Conn, TxNext, connVars, StartFlow, Acquire, BeginFails, NotBegun,
         SetIsolation, Begin, Run, RunAborted, With, EndOpen, EndCommit, EndRollback, Close,
         Committed, RunHook, DropFuture, QueryAlone

\* A statement changes whether there is a transaction, never its level.
LEMMA RunKeepsLevel ==
  ASSUME TxTypeOK, NEW outcome, Run(outcome)
  PROVE  conn'.tx = "open" => conn'.level = conn.level
<1>1. conn \in Conn
  BY DEF TxTypeOK, Conn
<1>2. CASE outcome = "transport"
  BY <1>2 DEF Run, ServerRuns, Connected
<1>3. CASE outcome # "transport"
  BY <1>1, <1>3 DEF Run, ServerRuns, Conn, ServerErrors
<1>4. QED
  BY <1>2, <1>3

\* and the level that was named.
LEMMA NextNamedLevel ==
  ASSUME TxTypeOK, UnabortedIsOpen, LevelSet, NamedLevelHolds, TxNext
  PROVE  NamedLevelHolds'
<1>1. ASSUME NEW outcome \in Outcomes, Run(outcome) PROVE NamedLevelHolds'
  <2>1. isolation' = isolation /\ InTx /\ conn.tx = "open"
    BY <1>1 DEF Run, UnabortedIsOpen, InTx
  <2>2. QED
    BY <1>1, <2>1, RunKeepsLevel DEF NamedLevelHolds
<1>2. ASSUME Begin PROVE NamedLevelHolds'
  BY <1>2 DEF Begin, LevelOfBegin, LevelSet, NamedLevelHolds, TxTypeOK, Backends
<1>3. ASSUME UNCHANGED <<conn, isolation>>, InTx' => InTx PROVE NamedLevelHolds'
  BY <1>3 DEF NamedLevelHolds
<1>4. ASSUME ~ InTx' PROVE NamedLevelHolds'
  BY <1>4 DEF NamedLevelHolds
<1>5. QED
  BY <1>1, <1>2, <1>3, <1>4
     DEF TxNext, connVars, InTx, StartFlow, Acquire, BeginFails, NotBegun, SetIsolation,
         RunAborted, With, EndOpen, EndCommit, EndRollback, Close, Committed, RunHook,
         DropFuture, QueryAlone

-----------------------------------------------------------------------------
(* The theorems.                                                           *)

\* So all of the invariant is,
LEMMA TxInvStep == TxInv /\ [TxNext]_txVars => TxInv'
<1> SUFFICES ASSUME TxInv, [TxNext]_txVars PROVE TxInv'
  OBVIOUS
<1>1. CASE TxNext
  BY <1>1, TxNextType, NextUndecided, NextOpen, NextCommits, NextAllOrNothing, NextDecided,
     NextLevel, NextNamedLevel DEF TxInv
<1>2. CASE UNCHANGED txVars
  BY <1>2
     DEF txVars, connVars, doneVars, TxInv, TxTypeOK, Undecided, UnabortedIsOpen, CommitsUsable,
         AllOrNothing, DecidedTrue, Told, LevelSet, NamedLevelHolds, InTx
<1>3. QED
  BY <1>1, <1>2

\* and it is an invariant.
LEMMA TxInvariant == TxSpec => []TxInv
BY TxInitInv, TxInvStep, PTL DEF TxSpec

\* Type correctness of every flow on either database.
THEOREM TxTypeCorrect == TxSpec => []TxTypeOK
BY TxInvariant, PTL DEF TxInv

\* The statements of a flow are committed together or not at all, whatever fails
\* and wherever its future is dropped.
THEOREM TxAllOrNothing == TxSpec => []AllOrNothing
BY TxInvariant, PTL DEF TxInv

\* What the caller gets and the hook is told is what the database did.
THEOREM TxReportTrue == TxSpec => []ReportTrue
<1>1. TxInv => ReportTrue
  BY DEF TxInv, DecidedTrue, ReportTrue
<1>2. QED
  BY <1>1, TxInvariant, PTL

\* A transaction whose flow names an isolation level runs at it.
THEOREM TxLevelHolds == TxSpec => []NamedLevelHolds
BY TxInvariant, PTL DEF TxInv

-----------------------------------------------------------------------------
(***************************************************************************)
(* The search index, for any number of writers, keys, faults and rebuilds, *)
(* and pages of any size.  For each key: if no load of it is to come, the  *)
(* newest that is under way and not outdated holds its row, and if there   *)
(* is none the live index does, or the key is in doubt or crossed.  Unless *)
(* hooks of it overlapped or failed, what is under way is in the order of  *)
(* the loads.  For a rebuild: what its copy holds at each of its steps, of *)
(* the keys that did not change.                                           *)
(***************************************************************************)

Value == Document \cup {NoDocument}
Docs == UNION {[ks -> Value] : ks \in SUBSET RowKey}
TaskRecord ==
  [kind : {"create", "drop", "delete", "swap", "settings", "upsert"}, on : {"live", "copy"},
   docs : Docs, load : Nat, since : Nat]

WriterRecord == [at : {"idle", "load", "upsert", "delete"}, docs : Docs, load : Nat]
RebuildAt == Steps \cup NotRunning \cup {"pages", "previous", "last"}
RebuildRecord ==
  [at : RebuildAt, since : Nat, uid : Nat, pending : Nat, after : Nat, short : BOOLEAN]
Index == {NoIndex} \cup [RowKey -> Value]

SyncTypes ==
  /\ source \in [RowKey -> Row]
  /\ index \in [{"live", "copy"} -> Index]
  /\ queue \in Seq(TaskRecord) /\ ran \in Nat
  /\ writer \in [Writer -> WriterRecord] /\ rebuild \in RebuildRecord
  /\ inclusive \in BOOLEAN /\ loads \in Nat
  /\ newest \in [RowKey -> Nat] /\ touched \in [RowKey -> Nat]
  /\ doubt \subseteq RowKey /\ crossed \subseteq RowKey /\ exposed \subseteq RowKey
  /\ writes \in Nat /\ rebuilds \in Nat /\ \A f \in failures : f.uid \in Nat

\* A task of a writer.
ByWriter(task) == task.on = "live" /\ task.kind \in {"upsert", "delete"}

\* What a task may be.  Everything in it was counted.
SoundTask(task, l, w) ==
  /\ task.kind \notin {"upsert", "delete"} => DOMAIN task.docs = {}
  /\ task.kind = "delete" =>
       task.on = "live" /\ \A k \in DOMAIN task.docs : task.docs[k] = NoDocument
  /\ task.kind = "swap" => task.on = "copy"
  /\ task.on = "live" => task.kind \in {"upsert", "delete", "create"} /\ task.load <= l
  /\ task.since <= w

Counted ==
  /\ \A i \in 1 .. Len(queue) : SoundTask(queue[i], loads, writes)
  /\ \A w \in Writer : writer[w].load <= loads
  /\ \A k \in RowKey : newest[k] <= loads
  /\ \A f \in failures : f.uid <= ran
  /\ rebuild.since <= writes
  /\ rebuild.uid <= ran + Len(queue) /\ rebuild.pending <= ran + Len(queue)

\* What is under way to the live index for a key, from the queue and from the
\* writers that still have to send it.
TasksFor(q, k) == {i \in 1 .. Len(q) : q[i].on = "live" /\ k \in DOMAIN q[i].docs}
Holders(wr, k) ==
  {w \in Writer : /\ wr[w].at \in {"upsert", "delete"} /\ k \in DOMAIN wr[w].docs
                  /\ wr[w].at = "delete" => wr[w].docs[k] = NoDocument}
UnderWay(q, wr, k) ==
  {[load |-> q[i].load, doc |-> q[i].docs[k]] : i \in TasksFor(q, k)} \cup
  {[load |-> wr[w].load, doc |-> wr[w].docs[k]] : w \in Holders(wr, k)}
Loading(wr, k) == \E w \in Writer : wr[w].at = "load" /\ k \in DOMAIN wr[w].docs

\* Of what is under way and not outdated, the newest holds the row of the key.
NewestHolds(U, new, row) ==
  \A x \in U : x.load >= new /\ (\A y \in U : y.load <= x.load) => x.doc = Project(row)

\* Where there is nothing of that kind, the live index holds it.
LiveHolds(U, new, row, doc) == (\A x \in U : x.load < new) => doc = Project(row)

Excepted == doubt \cup crossed

RowsTrue ==
  \A k \in RowKey :
    ~ Loading(writer, k) =>
      /\ NewestHolds(UnderWay(queue, writer, k), newest[k], source[k])
      /\ k \notin Excepted =>
           LiveHolds(UnderWay(queue, writer, k), newest[k], source[k], DocumentsOf("live")[k])

\* What is under way for a key comes in the order of its loads, after what was
\* applied: tasks, and then what one writer holds.
InOrder(q, wr, new, k) ==
  /\ \A i, j \in TasksFor(q, k) : i <= j => q[i].load <= q[j].load
  /\ \A i \in TasksFor(q, k) : new <= q[i].load
  /\ \A w \in Holders(wr, k) : new <= wr[w].load /\ \A i \in TasksFor(q, k) : q[i].load <= wr[w].load
  /\ \A v, w \in Holders(wr, k) : v = w

\* That is so unless hooks of the key overlapped or failed.
Orderly ==
  /\ crossed \subseteq exposed
  /\ \A k \in RowKey \ exposed : InOrder(queue, writer, newest[k], k)

WritersTrue == RowsTrue /\ Orderly

\* While a rebuild is running, the only tasks beside those of the writers are
\* the ones it waits for, of the kind of its step.
KindOf == [create |-> "create", settings |-> "settings", pages |-> "upsert",
           previous |-> "upsert", last |-> "upsert", live |-> "create", swap |-> "swap",
           cleanup |-> "drop"]

OnlyAwaited ==
  \A i \in 1 .. Len(queue) : ~ ByWriter(queue[i]) =>
    /\ rebuild.at = "drop" /\ rebuild.uid # 0 => ran + i <= rebuild.uid
    /\ rebuild.at \in DOMAIN KindOf =>
         /\ ran + i \in {rebuild.uid, rebuild.pending}
         /\ queue[i].kind = KindOf[rebuild.at]
         /\ queue[i].on = IF rebuild.at = "live" THEN "live" ELSE "copy"

StepWaits ==
  /\ rebuild.at \in Steps => rebuild.pending <= ran
  /\ rebuild.at \in {"pages", "last"} => rebuild.uid = 0
  /\ rebuild.at \in {"drop", "create", "settings"} => rebuild.after = 0

\* The copy is new when it was created.
Created ==
  /\ rebuild.at = "create" /\ rebuild.uid > ran => ~ ByWriter(queue[rebuild.uid - ran])
  /\ rebuild.at = "create" /\ rebuild.uid \in 1 .. ran /\ Tolerable(rebuild.uid, {}) =>
       DocumentsOf("copy") = Empty
  /\ rebuild.at = "settings" => DocumentsOf("copy") = Empty

\* Keys whose row did not change since, and keys whose page was read.
Untouched(since) == {k \in RowKey : touched[k] <= since}
Passed(k) ==
  k <= rebuild.after \/ rebuild.at = "last" \/ (rebuild.at = "previous" /\ rebuild.short)

\* The copy has, or is going to have, the documents of the pages read.
PagesTrue ==
  rebuild.at \in {"pages", "previous", "last"} =>
    \A k \in Untouched(rebuild.since) :
      /\ \A i \in 1 .. Len(queue) : queue[i].on = "copy" /\ k \in DOMAIN queue[i].docs =>
           Passed(k) /\ queue[i].docs[k] = Project(source[k])
      /\ Passed(k) =>
           \/ DocumentsOf("copy")[k] = Project(source[k])
           \/ \E i \in 1 .. Len(queue) : queue[i].on = "copy" /\ k \in DOMAIN queue[i].docs
           \/ \E f \in failures : f.uid \in {rebuild.uid, rebuild.pending} \ {0}
      /\ ~ Passed(k) => DocumentsOf("copy")[k] = NoDocument

\* Once all pages were read, the copy is what the swap makes live.
Holds(copy, row, times, since) ==
  \A k \in RowKey : times[k] <= since => copy[k] = Project(row[k])
CopyHolds(since) == Holds(DocumentsOf("copy"), source, touched, since)

AboutToSwap ==
  rebuild.at = "live" \/ (rebuild.at = "swap" /\ rebuild.uid = 0) => CopyHolds(rebuild.since)

SwapsTrue ==
  \A i \in 1 .. Len(queue) : queue[i].kind = "swap" =>
    CopyHolds(queue[i].since) /\ \A j \in 1 .. i - 1 : ByWriter(queue[j])

SwapTrue == AboutToSwap /\ SwapsTrue

SyncInv ==
  /\ SyncTypes /\ Counted /\ WritersTrue
  /\ OnlyAwaited /\ StepWaits /\ Created /\ PagesTrue /\ SwapTrue

-----------------------------------------------------------------------------
\* Sequences.
LEMMA TaskAppended ==
  ASSUME NEW q \in Seq(TaskRecord), NEW t \in TaskRecord
  PROVE  LET r == Append(q, t)
         IN /\ r \in Seq(TaskRecord) /\ Len(q) \in Nat /\ Len(r) = Len(q) + 1
            /\ r[Len(r)] = t
            /\ \A i \in 1 .. Len(q) : r[i] = q[i] /\ q[i] \in TaskRecord
<1> HIDE DEF TaskRecord
<1>1. QED
  OBVIOUS

\* The head of a queue, and what is left of it.
LEMMA TaskTaken ==
  ASSUME NEW q \in Seq(TaskRecord), q # <<>>
  PROVE  /\ Head(q) \in TaskRecord /\ Head(q) = q[1] /\ 1 \in 1 .. Len(q)
         /\ Tail(q) \in Seq(TaskRecord) /\ Len(q) \in Nat /\ Len(Tail(q)) = Len(q) - 1
         /\ \A i \in 1 .. Len(Tail(q)) : i + 1 \in 1 .. Len(q) /\ Tail(q)[i] = q[i + 1]
<1> HIDE DEF TaskRecord
<1>1. QED
  OBVIOUS

\* An element of a sequence.
LEMMA TaskIn ==
  ASSUME NEW q \in Seq(TaskRecord), NEW i \in 1 .. Len(q) PROVE q[i] \in TaskRecord
<1> HIDE DEF TaskRecord
<1>1. QED
  OBVIOUS

\* A set of numbers has a least one: what the proofs about recursive functions
\* rest on, which look at the first argument with a wrong value.
LEMMA LeastNumber ==
  ASSUME NEW T, T \subseteq Nat, T # {}
  PROVE  \E n \in T : \A m \in T : n <= m
<1>1. \E x \in T : \A y \in T : ~ (<<y, x>> \in OpToRel(<, Nat))
  BY NatLessThanWellFounded, WFMin
<1>2. \A x, y \in Nat : <<x, y>> \in OpToRel(<, Nat) <=> x < y
  BY DEF OpToRel
<1>3. PICK x \in T : \A y \in T : ~ (<<y, x>> \in OpToRel(<, Nat))
  BY <1>1
<1>4. ASSUME NEW y \in T PROVE x <= y
  <2>1. x \in Nat /\ y \in Nat /\ ~ (y < x)
    BY <1>2, <1>3
  <2>2. QED
    BY <2>1
<1>5. QED
  BY <1>4

\* What a task carries.
LEMMA DocsAre ==
  ASSUME NEW docs \in Docs
  PROVE  /\ DOMAIN docs \subseteq RowKey /\ docs = [k \in DOMAIN docs |-> docs[k]]
         /\ \A k \in DOMAIN docs : docs[k] \in Value
BY DEF Docs

\* Documents for keys are what a task carries.
LEMMA DocsOver ==
  ASSUME NEW ks, ks \subseteq RowKey, NEW docs \in [ks -> Value] PROVE docs \in Docs
BY DEF Docs

\* No documents are documents, and no index is one.
LEMMA NoDocsAre == NoDocs \in Docs /\ DOMAIN NoDocs = {} /\ NoIndex \in Index
<1>1. NoDocs \in [{} -> Value]
  BY DEF NoDocs
<1>2. QED
  BY <1>1, DocsOver DEF NoDocs, Index

\* A function without arguments is NoDocs.
LEMMA NoDocsAlone ==
  ASSUME NEW docs \in Docs PROVE docs = NoDocs <=> DOMAIN docs = {}
<1>1. ASSUME DOMAIN docs = {} PROVE docs = NoDocs
  BY <1>1, DocsAre DEF NoDocs
<1>2. QED
  BY <1>1, NoDocsAre

\* A row projects to a document or to none, no row to none.
LEMMA ProjectIs ==
  ASSUME NEW row \in Row
  PROVE  Project(row) \in Value /\ (row = NoRow => Project(row) = NoDocument)
BY SyncAssumption DEF Project, Value, Row

\* Where a rebuild can be.
LEMMA StepNames ==
  /\ Steps = {"drop", "create", "settings", "live", "swap", "cleanup"}
  /\ DOMAIN KindOf = {"create", "settings", "pages", "previous", "last", "live", "swap", "cleanup"}
  /\ RebuildAt = Steps \cup {"none", "done", "failed"} \cup {"pages", "previous", "last"}
BY DEF Steps, NextStep, KindOf, RebuildAt, NotRunning

\* The documents of an index, one key at a time.
LEMMA DocumentsTyped ==
  ASSUME SyncTypes, NEW i \in {"live", "copy"} PROVE DocumentsOf(i) \in [RowKey -> Value]
<1>1. Empty \in [RowKey -> Value]
  BY DEF Empty, Value
<1>2. index[i] \in Index
  BY DEF SyncTypes
<1>3. QED
  BY <1>1, <1>2 DEF DocumentsOf, Index

\* The invariant holds initially.
LEMMA SyncInitInv == SyncInit => SyncInv
<1> SUFFICES ASSUME SyncInit PROVE SyncInv
  OBVIOUS
<1> USE DEF SyncInit
<1>1. SyncTypes
  <2>1. source \in [RowKey -> Row] /\ index \in [{"live", "copy"} -> Index]
    BY NoDocsAre DEF Row
  <2>2. queue \in Seq(TaskRecord)
    OBVIOUS
  <2>3. Idle \in WriterRecord /\ writer \in [Writer -> WriterRecord]
    BY NoDocsAre DEF Idle, WriterRecord
  <2>4. rebuild \in RebuildRecord
    BY StepNames DEF Restful, RebuildRecord
  <2>5. newest \in [RowKey -> Nat] /\ touched \in [RowKey -> Nat]
        /\ doubt \subseteq RowKey /\ crossed \subseteq RowKey /\ exposed \subseteq RowKey
    OBVIOUS
  <2>6. QED
    BY <2>1, <2>2, <2>3, <2>4, <2>5 DEF SyncTypes
<1>2. Counted
  BY DEF Counted, Idle, Restful
<1>3. ASSUME NEW k \in RowKey
      PROVE  UnderWay(queue, writer, k) = {} /\ TasksFor(queue, k) = {} /\ Holders(writer, k) = {}
  BY DEF UnderWay, TasksFor, Holders, Idle
<1>4. WritersTrue
  <2>1. RowsTrue
    BY <1>3 DEF RowsTrue, NewestHolds, Excepted
  <2>2. Orderly
    BY <1>3 DEF Orderly, InOrder
  <2>3. QED
    BY <2>1, <2>2 DEF WritersTrue
<1>5. OnlyAwaited /\ StepWaits /\ Created /\ PagesTrue /\ SwapTrue
  BY StepNames DEF OnlyAwaited, StepWaits, Created, PagesTrue, SwapTrue, AboutToSwap, SwapsTrue,
                   Restful
<1>6. QED
  BY <1>1, <1>2, <1>4, <1>5 DEF SyncInv

-----------------------------------------------------------------------------
\* The task that Meilisearch runs.

Succeeds(task) ==
  /\ Refusal(task) = "none" /\ index' = Effect(task) /\ failures' = failures /\ Account(task, FALSE)
Refused(task) ==
  /\ Refusal(task) # "none" /\ index' = index /\ Account(task, FALSE)
  /\ failures' = failures \cup {[uid |-> ran + 1, error |-> Refusal(task)]}
Fails(task) ==
  /\ index' = index /\ Account(task, TRUE)
  /\ failures' = failures \cup {[uid |-> ran + 1, error |-> "internal"]}

\* It is the head of the queue, and comes out in one of these ways.
LEMMA TaskRuns ==
  ASSUME SyncInv, RunTask
  PROVE  LET task == Head(queue)
         IN /\ queue # <<>> /\ task \in TaskRecord /\ SoundTask(task, loads, writes)
            /\ queue' = Tail(queue) /\ ran' = ran + 1
            /\ Succeeds(task) \/ Refused(task) \/ Fails(task)
            /\ UNCHANGED <<source, writer, rebuild, inclusive, loads, touched, writes, rebuilds>>
<1>1. queue # <<>> /\ Head(queue) \in TaskRecord /\ Head(queue) = queue[1] /\ 1 \in 1 .. Len(queue)
  BY TaskTaken DEF RunTask, SyncInv, SyncTypes
<1>2. SoundTask(Head(queue), loads, writes)
  BY <1>1 DEF SyncInv, Counted
<1>3. Succeeds(Head(queue)) \/ Refused(Head(queue)) \/ Fails(Head(queue))
  BY DEF RunTask, Succeeds, Refused, Fails
<1>4. QED
  BY <1>1, <1>2, <1>3 DEF RunTask

\* What becomes of the two indexes: a task in vain leaves them as they are, and
\* each kind does its own.
LEMMA EffectIs ==
  ASSUME SyncInv, NEW task \in TaskRecord, SoundTask(task, loads, writes), Succeeds(task)
  PROVE  /\ index' \in [{"live", "copy"} -> Index]
         /\ task.kind = "create" =>
              /\ DocumentsOf(task.on)' = Empty /\ DocumentsOf(task.on) = Empty
              /\ \A i \in {"live", "copy"} : DocumentsOf(i)' = DocumentsOf(i)
         /\ task.kind = "drop" => DocumentsOf("live")' = DocumentsOf("live") \/ task.on = "live"
         /\ task.kind = "swap" => DocumentsOf("live")' = DocumentsOf("copy")
         /\ task.kind \in {"upsert", "delete", "settings"} =>
              \A i \in {"live", "copy"} :
                DocumentsOf(i)' = IF i = task.on THEN Overlay(task.docs, DocumentsOf(i))
                                  ELSE DocumentsOf(i)
<1>1. index \in [{"live", "copy"} -> Index] /\ task.on \in {"live", "copy"} /\ task.docs \in Docs
      /\ task.kind \in {"create", "drop", "delete", "swap", "settings", "upsert"}
  BY DEF SyncInv, SyncTypes, TaskRecord
<1>2. Empty \in [RowKey -> Value] /\ Empty \in Index /\ NoIndex \in Index
  BY DEF Empty, Value, Index
<1>3. CASE task.kind = "create"
  <2>1. index[task.on] = NoIndex /\ index' = [index EXCEPT ![task.on] = Empty]
    BY <1>3 DEF Succeeds, Refusal, Effect
  <2>2. QED
    BY <1>1, <1>2, <1>3, <2>1 DEF DocumentsOf
<1>4. CASE task.kind = "drop"
  <2>1. index' = [index EXCEPT ![task.on] = NoIndex]
    BY <1>4 DEF Succeeds, Effect
  <2>2. QED
    BY <1>1, <1>2, <1>4, <2>1 DEF DocumentsOf
<1>5. CASE task.kind = "swap"
  <2>1. index' = [live |-> index.copy, copy |-> index.live]
    BY <1>5 DEF Succeeds, Effect
  <2>2. QED
    BY <1>1, <1>5, <2>1 DEF DocumentsOf
<1>6. CASE task.kind \in {"upsert", "delete", "settings"}
  <2> DEFINE new == Overlay(task.docs, DocumentsOf(task.on))
  <2>1. index' = [index EXCEPT ![task.on] = new]
    BY <1>6 DEF Succeeds, Effect
  <2>2. DocumentsOf(task.on) \in [RowKey -> Value]
    BY <1>1, DocumentsTyped DEF SyncInv
  <2>3. new \in [RowKey -> Value] /\ new \in Index
    BY <1>1, <2>2, DocsAre DEF Overlay, Index
  <2>4. ASSUME new = NoIndex PROVE new = Empty
    <3>1. RowKey = {}
      BY <2>3, <2>4 DEF NoIndex
    <3>2. QED
      BY <2>3, <3>1 DEF Empty
  <2> HIDE DEF new
  <2>5. index' \in [{"live", "copy"} -> Index]
    BY <1>1, <2>1, <2>3
  <2>6. \A i \in {"live", "copy"} : DocumentsOf(i)' = IF i = task.on THEN new ELSE DocumentsOf(i)
    BY <1>1, <2>1, <2>4 DEF DocumentsOf
  <2>7. QED
    BY <1>6, <2>5, <2>6 DEF new
<1>7. QED
  BY <1>1, <1>3, <1>4, <1>5, <1>6

\* The live index, key by key, after any task but a swap.
LEMMA LiveAfter ==
  ASSUME SyncInv, NEW task \in TaskRecord, SoundTask(task, loads, writes), task.kind # "swap", NEW k \in RowKey,
         Succeeds(task) \/ Refused(task)
  PROVE  DocumentsOf("live")'[k] = IF task.on = "live" /\ k \in DOMAIN task.docs THEN task.docs[k]
                                   ELSE DocumentsOf("live")[k]
<1>1. task.kind \in {"create", "drop", "delete", "swap", "settings", "upsert"}
      /\ task.on \in {"live", "copy"}
  BY DEF TaskRecord
<1>2. task.kind \notin {"upsert", "delete"} => DOMAIN task.docs = {}
  BY DEF SoundTask
<1>3. CASE Refused(task)
  <2>1. DocumentsOf("live")' = DocumentsOf("live")
    BY <1>3 DEF Refused, DocumentsOf
  <2>2. ASSUME task.on = "live", k \in DOMAIN task.docs PROVE DocumentsOf("live")[k] = task.docs[k]
    <3>1. task.kind = "delete" /\ index["live"] = NoIndex
      BY <1>2, <1>3, <2>2 DEF Refused, Refusal
    <3>2. task.docs[k] = NoDocument
      BY <2>2, <3>1 DEF SoundTask
    <3>3. QED
      BY <3>1, <3>2 DEF DocumentsOf, Empty
  <2>3. QED
    BY <2>1, <2>2
<1>4. CASE Succeeds(task)
  <2>1. CASE task.kind = "create"
    BY <1>2, <1>4, <2>1, EffectIs
  <2>2. CASE task.kind = "drop"
    <3>1. task.on # "live"
      BY <2>2 DEF SoundTask
    <3>2. QED
      BY <1>1, <1>4, <2>2, <3>1, EffectIs
  <2>3. CASE task.kind \in {"upsert", "delete", "settings"}
    <3>1. DocumentsOf("live")' = IF "live" = task.on THEN Overlay(task.docs, DocumentsOf("live"))
                                 ELSE DocumentsOf("live")
      BY <1>4, <2>3, EffectIs
    <3>2. Overlay(task.docs, DocumentsOf("live"))[k] =
            IF k \in DOMAIN task.docs THEN task.docs[k] ELSE DocumentsOf("live")[k]
      BY DEF Overlay
    <3>3. QED
      BY <3>1, <3>2
  <2>4. QED
    BY <1>1, <2>1, <2>2, <2>3
<1>5. QED
  BY <1>3, <1>4

-----------------------------------------------------------------------------
\* The writers, and what is under way to the live index.

\* What is under way was loaded.
LEMMA UnderWayTyped ==
  ASSUME SyncTypes, Counted, NEW k \in RowKey, NEW x \in UnderWay(queue, writer, k)
  PROVE  x.load \in Nat /\ x.load <= loads
<1>1. ASSUME NEW i \in TasksFor(queue, k) PROVE queue[i].load \in Nat /\ queue[i].load <= loads
  <2>1. i \in 1 .. Len(queue) /\ queue[i].on = "live"
    BY DEF TasksFor
  <2>2. queue[i] \in TaskRecord /\ SoundTask(queue[i], loads, writes)
    BY <2>1, TaskIn DEF SyncTypes, Counted
  <2>3. QED
    BY <2>1, <2>2 DEF TaskRecord, SoundTask
<1>2. ASSUME NEW w \in Holders(writer, k) PROVE writer[w].load \in Nat /\ writer[w].load <= loads
  BY DEF Holders, SyncTypes, WriterRecord, Counted
<1>3. QED
  BY <1>1, <1>2 DEF UnderWay

\* What a task of this queue adds to what is under way.
Part(task, k) ==
  IF task.on = "live" /\ k \in DOMAIN task.docs
  THEN {[load |-> task.load, doc |-> task.docs[k]]} ELSE {}

Extends(q, r, t) ==
  /\ Len(q) \in Nat /\ Len(r) = Len(q) + 1 /\ r[Len(r)] = t
  /\ \A i \in 1 .. Len(q) : r[i] = q[i]

\* A queue with one task more.
LEMMA TaskEnqueued ==
  ASSUME SyncTypes, NEW t \in TaskRecord, queue' = Append(queue, t)
  PROVE  Extends(queue, queue', t)
<1>1. queue \in Seq(TaskRecord)
  BY DEF SyncTypes
<1>2. QED
  BY <1>1, TaskAppended DEF Extends

\* What that task adds to what is under way.
LEMMA UnderWayAppended ==
  ASSUME NEW q, NEW r, NEW t, Extends(q, r, t), NEW wr, NEW k
  PROVE  UnderWay(r, wr, k) = UnderWay(q, wr, k) \cup Part(t, k)
<1> DEFINE Rec(s, i) == [load |-> s[i].load, doc |-> s[i].docs[k]]
           H == {[load |-> wr[w].load, doc |-> wr[w].docs[k]] : w \in Holders(wr, k)}
<1>1. /\ Len(q) \in Nat /\ Len(r) = Len(q) + 1 /\ r[Len(r)] = t
      /\ \A i \in 1 .. Len(q) : r[i] = q[i]
  BY DEF Extends
<1>2. 1 .. Len(r) = 1 .. Len(q) \cup {Len(r)}
  BY <1>1
<1>3. \A i \in TasksFor(q, k) : i \in TasksFor(r, k) /\ Rec(r, i) = Rec(q, i)
  BY <1>1, <1>2 DEF TasksFor
<1>4. \A i \in TasksFor(r, k) : i \in TasksFor(q, k) \/ (i = Len(r) /\ t.on = "live" /\ k \in DOMAIN t.docs)
  BY <1>1, <1>2 DEF TasksFor
<1>5. t.on = "live" /\ k \in DOMAIN t.docs => Len(r) \in TasksFor(r, k)
  BY <1>1, <1>2 DEF TasksFor
<1>6. Rec(r, Len(r)) = [load |-> t.load, doc |-> t.docs[k]]
  BY <1>1
<1>7. UnderWay(r, wr, k) = {Rec(r, i) : i \in TasksFor(r, k)} \cup H
      /\ UnderWay(q, wr, k) = {Rec(q, i) : i \in TasksFor(q, k)} \cup H
  BY DEF UnderWay
<1> HIDE DEF Rec, H
<1>8. {Rec(r, i) : i \in TasksFor(r, k)} = {Rec(q, i) : i \in TasksFor(q, k)} \cup Part(t, k)
  BY <1>3, <1>4, <1>5, <1>6 DEF Part
<1>9. QED
  BY <1>7, <1>8

\* The head of a queue takes its documents off.
LEMMA UnderWayTaken ==
  ASSUME NEW q \in Seq(TaskRecord), q # <<>>, NEW wr, NEW k
  PROVE  UnderWay(q, wr, k) = UnderWay(Tail(q), wr, k) \cup Part(Head(q), k)
<1> DEFINE r == Tail(q)
           t == Head(q)
           Rec(s, i) == [load |-> s[i].load, doc |-> s[i].docs[k]]
           H == {[load |-> wr[w].load, doc |-> wr[w].docs[k]] : w \in Holders(wr, k)}
<1>1. /\ t = q[1] /\ 1 \in 1 .. Len(q) /\ Len(q) \in Nat /\ Len(r) = Len(q) - 1
      /\ \A i \in 1 .. Len(r) : i + 1 \in 1 .. Len(q) /\ r[i] = q[i + 1]
  BY TaskTaken
<1> HIDE DEF r, t
<1>2. \A i \in 1 .. Len(q) : i = 1 \/ (i - 1 \in 1 .. Len(r) /\ (i - 1) + 1 = i)
  BY <1>1
<1>3. \A i \in TasksFor(r, k) : i + 1 \in TasksFor(q, k) /\ Rec(q, i + 1) = Rec(r, i)
  BY <1>1 DEF TasksFor
<1>4. \A i \in TasksFor(q, k) : \/ i - 1 \in TasksFor(r, k) /\ Rec(r, i - 1) = Rec(q, i)
                                \/ i = 1 /\ t.on = "live" /\ k \in DOMAIN t.docs
  BY <1>1, <1>2 DEF TasksFor
<1>5. t.on = "live" /\ k \in DOMAIN t.docs => 1 \in TasksFor(q, k)
  BY <1>1 DEF TasksFor
<1>6. Rec(q, 1) = [load |-> t.load, doc |-> t.docs[k]]
  BY <1>1
<1>7. UnderWay(r, wr, k) = {Rec(r, i) : i \in TasksFor(r, k)} \cup H
      /\ UnderWay(q, wr, k) = {Rec(q, i) : i \in TasksFor(q, k)} \cup H
  BY DEF UnderWay
<1> HIDE DEF Rec, H
<1>8. {Rec(q, i) : i \in TasksFor(q, k)} = {Rec(r, i) : i \in TasksFor(r, k)} \cup Part(t, k)
  BY <1>3, <1>4, <1>5, <1>6 DEF Part
<1>9. QED
  BY <1>7, <1>8 DEF r, t

\* The newest that is under way is applied, or one that is outdated.
LEMMA OneArrives ==
  ASSUME NEW U, NEW x, NEW new \in Nat, NEW row, \A y \in U \cup {x} : y.load \in Nat,
         NewestHolds(U \cup {x}, new, row)
  PROVE  /\ x.load >= new => NewestHolds(U, x.load, row) /\ LiveHolds(U, x.load, row, x.doc)
         /\ x.load < new => NewestHolds(U, new, row)
<1>1. ASSUME x.load >= new PROVE NewestHolds(U, x.load, row)
  BY <1>1 DEF NewestHolds
<1>2. ASSUME x.load >= new, \A y \in U : y.load < x.load PROVE x.doc = Project(row)
  BY <1>2 DEF NewestHolds
<1>3. ASSUME x.load < new PROVE NewestHolds(U, new, row)
  BY <1>3 DEF NewestHolds
<1>4. QED
  BY <1>1, <1>2, <1>3 DEF LiveHolds

\* A task that runs: the newest that is under way is applied, an outdated one
\* leaves the key excepted, and a swap makes a rebuilt index live.
LEMMA RunTaskRows == ASSUME SyncInv, RunTask PROVE RowsTrue'
<1> DEFINE task == Head(queue)
<1>1. /\ queue # <<>> /\ task \in TaskRecord /\ SoundTask(task, loads, writes)
      /\ queue' = Tail(queue) /\ ran' = ran + 1
      /\ Succeeds(task) \/ Refused(task) \/ Fails(task)
      /\ UNCHANGED <<source, writer, rebuild, inclusive, loads, touched, writes, rebuilds>>
  BY TaskRuns
<1>2. SyncTypes /\ Counted /\ RowsTrue /\ SwapTrue /\ queue \in Seq(TaskRecord)
  BY DEF SyncInv, SyncTypes, WritersTrue
<1>3. task.load \in Nat /\ DOMAIN task.docs \subseteq RowKey
  BY <1>1, DocsAre DEF TaskRecord
<1> SUFFICES ASSUME NEW k \in RowKey, ~ Loading(writer, k)
             PROVE  /\ NewestHolds(UnderWay(queue', writer, k), newest'[k], source[k])
                    /\ k \notin Excepted' =>
                         LiveHolds(UnderWay(queue', writer, k), newest'[k], source[k], DocumentsOf("live")'[k])
  BY <1>1 DEF RowsTrue, Excepted
<1> DEFINE U == UnderWay(queue', writer, k)
<1>4. /\ UnderWay(queue, writer, k) = U \cup Part(task, k)
      /\ \A y \in UnderWay(queue, writer, k) : y.load \in Nat
  BY <1>1, <1>2, UnderWayTaken, UnderWayTyped
<1>5. /\ NewestHolds(UnderWay(queue, writer, k), newest[k], source[k])
      /\ k \notin Excepted => LiveHolds(UnderWay(queue, writer, k), newest[k], source[k], DocumentsOf("live")[k])
  BY <1>2 DEF RowsTrue, Excepted
<1>6. newest[k] \in Nat
  BY <1>2 DEF SyncTypes
<1>7. DocumentsOf("live")' = DocumentsOf("live") \/ Succeeds(task)
  BY <1>1 DEF Refused, Fails, DocumentsOf
<1> HIDE DEF task, U
<1>8. CASE task.on = "live" /\ k \in DOMAIN task.docs
  <2> DEFINE x == [load |-> task.load, doc |-> task.docs[k]]
  <2>1. UnderWay(queue, writer, k) = U \cup {x} /\ x.load = task.load /\ x.doc = task.docs[k]
    BY <1>4, <1>8 DEF Part
  <2> HIDE DEF x
  <2>2. /\ x.load >= newest[k] => NewestHolds(U, x.load, source[k]) /\ LiveHolds(U, x.load, source[k], x.doc)
        /\ x.load < newest[k] => NewestHolds(U, newest[k], source[k])
    BY <1>4, <1>5, <1>6, <2>1, OneArrives
  <2>3. task.kind # "swap"
    BY <1>1, <1>8 DEF SoundTask
  <2>4. newest'[k] = (IF task.load >= newest[k] THEN task.load ELSE newest[k])
        /\ (Fails(task) => k \in Excepted')
        /\ (k \notin Excepted' => task.load >= newest[k])
    <3>1. CASE Fails(task)
      BY <1>8, <2>3, <3>1 DEF Fails, Account, Excepted
    <3>2. CASE ~ Fails(task)
      <4>1. Account(task, FALSE)
        BY <1>1, <3>2 DEF Succeeds, Refused
      <4>2. QED
        BY <1>8, <2>3, <3>2, <4>1 DEF Account, Excepted
    <3>3. QED
      BY <3>1, <3>2
  <2>5. ASSUME k \notin Excepted' PROVE DocumentsOf("live")'[k] = x.doc
    <3>1. Succeeds(task) \/ Refused(task)
      BY <1>1, <2>4, <2>5
    <3>2. QED
      BY <1>1, <1>8, <2>1, <2>3, <3>1, LiveAfter
  <2>6. CASE task.load >= newest[k]
    BY <2>1, <2>2, <2>4, <2>5, <2>6 DEF U
  <2>7. CASE ~ (task.load >= newest[k])
    <3>1. x.load < newest[k]
      BY <1>3, <1>6, <2>1, <2>7
    <3>2. QED
      BY <2>2, <2>4, <2>7, <3>1 DEF U
  <2>8. QED
    BY <2>6, <2>7
<1>9. CASE ~ (task.on = "live" /\ k \in DOMAIN task.docs)
  <2>1. UnderWay(queue, writer, k) = U
    BY <1>4, <1>9 DEF Part
  <2>2. newest'[k] = newest[k]
    BY <1>1, <1>9 DEF Succeeds, Refused, Fails, Account
  <2>3. CASE task.kind = "swap" /\ ~ Fails(task)
    <3>1. Succeeds(task)
      BY <1>1, <2>3 DEF Refused, Refusal
    <3>2. doubt' = {j \in RowKey : touched[j] > task.since}
      BY <2>3, <3>1 DEF Succeeds, Account
    <3>3. DocumentsOf("live")' = DocumentsOf("copy")
      BY <1>1, <2>3, <3>1, EffectIs
    <3>4. CopyHolds(task.since)
      <4>1. 1 \in 1 .. Len(queue) /\ task = queue[1]
        BY <1>1, <1>2, TaskTaken DEF task
      <4>2. QED
        BY <1>2, <2>3, <4>1 DEF SwapTrue, AboutToSwap, SwapsTrue
    <3>5. ASSUME k \notin Excepted' PROVE touched[k] <= task.since
      <4>1. touched[k] \in Nat /\ task.since \in Nat
        BY <1>1, <1>2 DEF SyncTypes, TaskRecord
      <4>2. QED
        BY <3>2, <3>5, <4>1 DEF Excepted
    <3>6. ASSUME k \notin Excepted' PROVE DocumentsOf("live")'[k] = Project(source[k])
      BY <3>3, <3>4, <3>5, <3>6 DEF CopyHolds, Holds
    <3>7. QED
      BY <1>5, <2>1, <2>2, <3>6 DEF U, LiveHolds
  <2>4. CASE ~ (task.kind = "swap" /\ ~ Fails(task))
    <3>1. k \in Excepted <=> k \in Excepted'
      <4>1. CASE Fails(task)
        BY <1>9, <2>4, <4>1 DEF Fails, Account, Excepted
      <4>2. CASE ~ Fails(task)
        BY <1>1, <1>9, <2>4, <4>2 DEF Succeeds, Refused, Account, Excepted
      <4>3. QED
        BY <4>1, <4>2
    <3>2. DocumentsOf("live")'[k] = DocumentsOf("live")[k]
      <4>1. CASE Fails(task)
        BY <4>1 DEF Fails, DocumentsOf
      <4>2. CASE ~ Fails(task)
        BY <1>1, <1>9, <2>4, <4>2, LiveAfter
      <4>3. QED
        BY <4>1, <4>2
    <3>3. QED
      BY <1>5, <2>1, <2>2, <3>1, <3>2 DEF U
  <2>5. QED
    BY <2>3, <2>4
<1>10. QED
  BY <1>8, <1>9 DEF U

\* What one writer adds to what is under way, and what there is beside it.
Hold(st, k) ==
  IF /\ st.at \in {"upsert", "delete"} /\ k \in DOMAIN st.docs
     /\ st.at = "delete" => st.docs[k] = NoDocument
  THEN {[load |-> st.load, doc |-> st.docs[k]]} ELSE {}
Rest(q, wr, w, k) ==
  {[load |-> q[i].load, doc |-> q[i].docs[k]] : i \in TasksFor(q, k)} \cup
  {[load |-> wr[v].load, doc |-> wr[v].docs[k]] : v \in Holders(wr, k) \ {w}}

\* The two together are what is under way.
LEMMA HoldAndRest ==
  ASSUME NEW q, NEW wr, NEW w \in Writer, NEW k
  PROVE  UnderWay(q, wr, k) = Rest(q, wr, w, k) \cup Hold(wr[w], k)
<1> DEFINE Rec(v) == [load |-> wr[v].load, doc |-> wr[v].docs[k]]
<1>1. Hold(wr[w], k) = {Rec(v) : v \in Holders(wr, k) \cap {w}}
  BY DEF Hold, Holders
<1>2. {Rec(v) : v \in Holders(wr, k)} =
        {Rec(v) : v \in Holders(wr, k) \ {w}} \cup {Rec(v) : v \in Holders(wr, k) \cap {w}}
  <2> HIDE DEF Rec
  <2>1. QED
    OBVIOUS
<1>3. QED
  BY <1>1, <1>2 DEF UnderWay, Rest

\* One writer moves, the others do not.
Moves(wr, new, w, x) == new[w] = x /\ \A v \in Writer \ {w} : new[v] = wr[v]

\* Such is a step of a writer.
LEMMA WriterMoves ==
  ASSUME SyncTypes, NEW w \in Writer, NEW x, writer' = [writer EXCEPT ![w] = x]
  PROVE  Moves(writer, writer', w, x)
BY DEF SyncTypes, Moves

\* What is under way after it.
LEMMA OneMoves ==
  ASSUME NEW wr, NEW w \in Writer, NEW x, NEW new, Moves(wr, new, w, x), NEW q, NEW k
  PROVE  UnderWay(q, new, k) = Rest(q, wr, w, k) \cup Hold(x, k)
<1>1. new[w] = x /\ \A v \in Writer \ {w} : new[v] = wr[v]
  BY DEF Moves
<1>2. Holders(new, k) \ {w} = Holders(wr, k) \ {w}
  BY <1>1 DEF Holders
<1>3. Rest(q, new, w, k) = Rest(q, wr, w, k)
  <2>1. \A v \in Holders(wr, k) \ {w} : new[v] = wr[v]
    BY <1>1 DEF Holders
  <2>2. QED
    BY <1>2, <2>1 DEF Rest
<1>4. UnderWay(q, new, k) = Rest(q, new, w, k) \cup Hold(new[w], k)
  BY HoldAndRest
<1>5. QED
  BY <1>1, <1>3, <1>4

\* Whose load is to come after it.
LEMMA OthersLoading ==
  ASSUME NEW wr, NEW w \in Writer, NEW x, NEW new, Moves(wr, new, w, x), NEW k
  PROVE  /\ ~ Loading(new, k) /\ ~ (wr[w].at = "load" /\ k \in DOMAIN wr[w].docs)
              => ~ Loading(wr, k)
         /\ x.at = "load" /\ k \in DOMAIN x.docs => Loading(new, k)
BY DEF Moves, Loading

\* What a rebuild enqueues is nothing to the writers.
LEMMA RowsStay ==
  ASSUME SyncInv, UNCHANGED <<source, writer, newest, doubt, crossed, index>>,
         \/ queue' = queue
         \/ \E t \in TaskRecord : queue' = Append(queue, t) /\ (t.on = "copy" \/ DOMAIN t.docs = {})
  PROVE  RowsTrue'
<1>1. RowsTrue /\ queue \in Seq(TaskRecord)
  BY DEF SyncInv, SyncTypes, WritersTrue
<1>2. ASSUME NEW k \in RowKey PROVE UnderWay(queue', writer, k) = UnderWay(queue, writer, k)
  <2>1. CASE queue' = queue
    BY <2>1
  <2>2. ASSUME NEW t \in TaskRecord, queue' = Append(queue, t), t.on = "copy" \/ DOMAIN t.docs = {}
        PROVE  UnderWay(queue', writer, k) = UnderWay(queue, writer, k)
    <3>1. Part(t, k) = {}
      BY <2>2 DEF Part
    <3>2. UnderWay(queue', writer, k) = UnderWay(queue, writer, k) \cup Part(t, k)
      <4>1. Extends(queue, queue', t)
        BY <2>2, TaskEnqueued DEF SyncInv
      <4>2. QED
        BY <4>1, UnderWayAppended
    <3>3. QED
      BY <3>1, <3>2
  <2>3. QED
    BY <2>1, <2>2
<1>3. DocumentsOf("live")' = DocumentsOf("live")
  BY DEF DocumentsOf
<1>4. QED
  BY <1>1, <1>2, <1>3 DEF RowsTrue, Excepted

\* A write is followed by a load of its keys.
LEMMA WriteRows ==
  ASSUME SyncInv, NEW w \in Writer, NEW keys \in SUBSET RowKey, NEW rows \in [keys -> Row], Write(w, rows)
  PROVE  RowsTrue'
<1> DEFINE x == [Idle EXCEPT !.at = "load", !.docs = [k \in DOMAIN rows |-> NoDocument]]
<1>1. RowsTrue /\ writer \in [Writer -> WriterRecord] /\ source \in [RowKey -> Row]
  BY DEF SyncInv, SyncTypes, WritersTrue
<1>2. writer' = [writer EXCEPT ![w] = x] /\ writer[w].at = "idle"
      /\ UNCHANGED <<index, queue, newest, doubt, crossed>>
      /\ source' = [k \in RowKey |-> IF k \in DOMAIN rows THEN rows[k] ELSE source[k]]
  BY DEF Write, serverVars, ghostVars
<1>0. Moves(writer, writer', w, x)
  BY <1>2, WriterMoves DEF SyncInv
<1>3. x.at = "load" /\ DOMAIN x.docs = keys
  BY DEF Idle
<1> HIDE DEF x
<1> SUFFICES ASSUME NEW k \in RowKey, ~ Loading(writer', k)
             PROVE  /\ NewestHolds(UnderWay(queue, writer', k), newest[k], source'[k])
                    /\ k \notin Excepted =>
                         LiveHolds(UnderWay(queue, writer', k), newest[k], source'[k], DocumentsOf("live")'[k])
  BY <1>2 DEF RowsTrue, Excepted
<1>4. k \notin keys /\ ~ Loading(writer, k)
  BY <1>0, <1>2, <1>3, OthersLoading
<1>5. source'[k] = source[k] /\ DocumentsOf("live")' = DocumentsOf("live")
  BY <1>2, <1>4 DEF DocumentsOf
<1>6. UnderWay(queue, writer', k) = UnderWay(queue, writer, k)
  <2>1. Hold(x, k) = {} /\ Hold(writer[w], k) = {}
    BY <1>2, <1>3 DEF Hold
  <2>2. UnderWay(queue, writer', k) = Rest(queue, writer, w, k) \cup Hold(x, k)
    BY <1>0, OneMoves
  <2>3. UnderWay(queue, writer, k) = Rest(queue, writer, w, k) \cup Hold(writer[w], k)
    BY HoldAndRest
  <2>4. QED
    BY <2>1, <2>2, <2>3
<1>7. QED
  BY <1>1, <1>4, <1>5, <1>6 DEF RowsTrue, Excepted

\* A load is newer than what is under way, and of the rows as they are.
LEMMA LoadRows == ASSUME SyncInv, NEW w \in Writer, Load(w) PROVE RowsTrue'
<1> DEFINE docs == Loaded(DOMAIN writer[w].docs)
           x == [at |-> IF Upserts(docs) = NoDocs THEN "delete" ELSE "upsert",
                 docs |-> docs, load |-> loads']
<1>1. /\ RowsTrue /\ SyncTypes /\ Counted /\ writer \in [Writer -> WriterRecord]
      /\ source \in [RowKey -> Row] /\ loads \in Nat /\ newest \in [RowKey -> Nat]
  BY DEF SyncInv, SyncTypes, WritersTrue
<1>2. /\ writer' = [writer EXCEPT ![w] = x] /\ writer[w].at = "load" /\ loads' = loads + 1
      /\ UNCHANGED <<source, index, queue, newest, doubt, crossed>>
  BY DEF Load, serverVars, ghostVars
<1>0. Moves(writer, writer', w, x)
  BY <1>1, <1>2, WriterMoves
<1>3. DOMAIN docs = DOMAIN writer[w].docs /\ \A k \in DOMAIN docs : docs[k] = Project(source[k])
  BY DEF Loaded
<1>4. DOMAIN docs \subseteq RowKey
  BY <1>1, <1>3, DocsAre DEF WriterRecord
<1>5. ASSUME NEW k \in DOMAIN docs
      PROVE  Hold(x, k) = {[load |-> loads', doc |-> Project(source[k])]}
  <2>1. Upserts(docs) = NoDocs => docs[k] = NoDocument
    <3>1. ASSUME docs[k] # NoDocument PROVE k \in DOMAIN Upserts(docs)
      BY <1>5, <3>1 DEF Upserts
    <3>2. QED
      BY <3>1, NoDocsAre
  <2>2. QED
    BY <1>3, <1>5, <2>1 DEF Hold
<1>6. x.at # "load" /\ x.docs = docs
  OBVIOUS
<1> HIDE DEF docs, x
<1> SUFFICES ASSUME NEW k \in RowKey, ~ Loading(writer', k)
             PROVE  /\ NewestHolds(UnderWay(queue, writer', k), newest[k], source[k])
                    /\ k \notin Excepted =>
                         LiveHolds(UnderWay(queue, writer', k), newest[k], source[k], DocumentsOf("live")'[k])
  BY <1>2 DEF RowsTrue, Excepted
<1>7. UnderWay(queue, writer', k) = Rest(queue, writer, w, k) \cup Hold(x, k)
  BY <1>0, OneMoves
<1>8. UnderWay(queue, writer, k) = Rest(queue, writer, w, k)
  <2>1. Hold(writer[w], k) = {}
    BY <1>2 DEF Hold
  <2>2. QED
    BY <2>1, HoldAndRest
<1>9. DocumentsOf("live")' = DocumentsOf("live")
  BY <1>2 DEF DocumentsOf
<1>10. CASE k \in DOMAIN docs
  <2> DEFINE r == [load |-> loads', doc |-> Project(source[k])]
  <2>1. UnderWay(queue, writer', k) = UnderWay(queue, writer, k) \cup {r}
    BY <1>5, <1>7, <1>8, <1>10
  <2>2. \A y \in UnderWay(queue, writer, k) : y.load \in Nat /\ y.load <= loads
    BY <1>1, UnderWayTyped
  <2>3. r.load = loads + 1 /\ r.doc = Project(source[k])
    BY <1>2
  <2>4. newest[k] \in Nat /\ newest[k] <= loads
    BY <1>1 DEF Counted
  <2> HIDE DEF r
  <2>5. NewestHolds(UnderWay(queue, writer', k), newest[k], source[k])
    BY <1>1, <2>1, <2>2, <2>3, <2>4 DEF NewestHolds
  <2>6. ~ (r.load < newest[k]) /\ r \in UnderWay(queue, writer', k)
    BY <1>1, <2>1, <2>3, <2>4
  <2>7. QED
    BY <2>5, <2>6 DEF LiveHolds
<1>11. CASE k \notin DOMAIN docs
  <2>1. Hold(x, k) = {} /\ ~ Loading(writer, k)
    BY <1>0, <1>2, <1>3, <1>6, <1>11, OthersLoading DEF Hold
  <2>2. QED
    BY <1>1, <1>7, <1>8, <1>9, <2>1 DEF RowsTrue, Excepted
<1>12. QED
  BY <1>10, <1>11

\* What a writer has to say is a task.
LEMMA RequestIsTask ==
  ASSUME SyncTypes, NEW w \in Writer, writer[w].at \in {"upsert", "delete"}
  PROVE  LET t == RequestOf(w)
             docs == writer[w].docs
         IN /\ t \in TaskRecord /\ t.on = "live" /\ t.kind = writer[w].at
            /\ t.load = writer[w].load /\ t.since = 0
            /\ DOMAIN t.docs = {k \in DOMAIN docs : docs[k] = NoDocument <=> t.kind = "delete"}
            /\ \A k \in DOMAIN t.docs : t.docs[k] = docs[k]
<1> DEFINE docs == writer[w].docs
<1>1. docs \in Docs /\ writer[w].load \in Nat
  BY DEF SyncTypes, WriterRecord
<1>2. DOMAIN docs \subseteq RowKey /\ \A k \in DOMAIN docs : docs[k] \in Value
  BY <1>1, DocsAre
<1> DEFINE ups == {k \in DOMAIN docs : docs[k] # NoDocument}
           dels == {k \in DOMAIN docs : docs[k] = NoDocument}
<1>3. /\ Upserts(docs) \in [ups -> Value] /\ ups \subseteq RowKey
      /\ Deletes(docs) \in [dels -> Value] /\ dels \subseteq RowKey
  BY <1>2 DEF Upserts, Deletes
<1>4. Upserts(docs) \in Docs /\ Deletes(docs) \in Docs
  BY <1>3, DocsOver
<1>5. /\ DOMAIN Upserts(docs) = ups /\ DOMAIN Deletes(docs) = dels
      /\ \A k \in ups : Upserts(docs)[k] = docs[k]
      /\ \A k \in dels : Deletes(docs)[k] = docs[k]
  BY DEF Upserts, Deletes
<1>6. RequestOf(w) = [kind |-> writer[w].at, on |-> "live",
                      docs |-> IF writer[w].at = "upsert" THEN Upserts(docs) ELSE Deletes(docs),
                      load |-> writer[w].load, since |-> 0]
  BY DEF RequestOf, Task
<1>7. RequestOf(w) \in TaskRecord
  BY <1>1, <1>4, <1>6 DEF TaskRecord
<1>8. QED
  BY <1>5, <1>6, <1>7

\* What a writer held is in the queue.
LEMMA RequestRows == ASSUME SyncInv, NEW w \in Writer, Request(w) PROVE RowsTrue'
<1> DEFINE old == writer[w]
           docs == writer[w].docs
           x == IF old.at = "upsert" /\ Deletes(docs) # NoDocs THEN [old EXCEPT !.at = "delete"] ELSE Idle
           t == RequestOf(w)
<1>1. /\ RowsTrue /\ SyncTypes /\ writer \in [Writer -> WriterRecord] /\ queue \in Seq(TaskRecord)
      /\ old \in WriterRecord
  BY DEF SyncInv, SyncTypes, WritersTrue
<1>2. /\ old.at \in {"upsert", "delete"} /\ writer' = [writer EXCEPT ![w] = x]
      /\ queue' = Append(queue, t) /\ UNCHANGED <<source, index, newest, doubt, crossed>>
  BY DEF Request, Enqueue, serverVars, ghostVars
<1>3. /\ t \in TaskRecord /\ t.on = "live" /\ t.kind = old.at /\ t.load = old.load
      /\ DOMAIN t.docs = {k \in DOMAIN docs : docs[k] = NoDocument <=> t.kind = "delete"}
      /\ \A k \in DOMAIN t.docs : t.docs[k] = docs[k]
  BY <1>1, <1>2, RequestIsTask
<1>0. Moves(writer, writer', w, x)
  BY <1>1, <1>2, WriterMoves
<1>4. x.at # "load"
  BY <1>1 DEF Idle, WriterRecord
<1>5. ASSUME NEW k \in RowKey PROVE Hold(x, k) \cup Part(t, k) = Hold(old, k)
  <2>1. CASE old.at = "upsert" /\ Deletes(docs) # NoDocs
    <3>1. x.at = "delete" /\ x.docs = docs /\ x.load = old.load
      BY <1>1, <2>1 DEF WriterRecord
    <3>2. QED
      BY <1>3, <2>1, <3>1 DEF Hold, Part
  <2>2. CASE ~ (old.at = "upsert" /\ Deletes(docs) # NoDocs)
    <3>1. Hold(x, k) = {}
      BY <2>2 DEF Hold, Idle
    <3>2. ASSUME old.at = "upsert", k \in DOMAIN docs PROVE docs[k] # NoDocument
      <4>1. Deletes(docs) = NoDocs
        BY <2>2, <3>2
      <4>2. docs[k] = NoDocument => k \in DOMAIN Deletes(docs)
        BY <3>2 DEF Deletes
      <4>3. QED
        BY <4>1, <4>2, NoDocsAre
    <3>3. QED
      BY <1>2, <1>3, <3>1, <3>2 DEF Hold, Part
  <2>3. QED
    BY <2>1, <2>2
<1> HIDE DEF x, t, old
<1>6. ASSUME NEW k \in RowKey PROVE UnderWay(queue', writer', k) = UnderWay(queue, writer, k)
  <2>1. UnderWay(queue', writer', k) = UnderWay(queue, writer', k) \cup Part(t, k)
    <3>1. Extends(queue, queue', t)
      BY <1>1, <1>2, <1>3, TaskEnqueued
    <3>2. QED
      BY <3>1, UnderWayAppended
  <2>2. UnderWay(queue, writer', k) = Rest(queue, writer, w, k) \cup Hold(x, k)
    BY <1>0, OneMoves
  <2>3. UnderWay(queue, writer, k) = Rest(queue, writer, w, k) \cup Hold(old, k)
    BY HoldAndRest DEF old
  <2>4. QED
    BY <1>5, <2>1, <2>2, <2>3
<1>7. ASSUME NEW k \in RowKey, ~ Loading(writer', k) PROVE ~ Loading(writer, k)
  BY <1>0, <1>2, <1>7, OthersLoading DEF old
<1>8. DocumentsOf("live")' = DocumentsOf("live")
  BY <1>2 DEF DocumentsOf
<1>9. QED
  BY <1>1, <1>2, <1>6, <1>7, <1>8 DEF RowsTrue, Excepted

\* A hook that fails leaves its keys in doubt.
LEMMA HookFailsRows == ASSUME SyncInv, NEW w \in Writer, HookFails(w) PROVE RowsTrue'
<1> DEFINE old == writer[w]
           t == RequestOf(w)
<1>1. /\ RowsTrue /\ SyncTypes /\ Counted /\ writer \in [Writer -> WriterRecord]
      /\ queue \in Seq(TaskRecord) /\ old \in WriterRecord /\ loads \in Nat
  BY DEF SyncInv, SyncTypes, WritersTrue
<1>2. /\ writer' = [writer EXCEPT ![w] = Idle] /\ old.at # "idle"
      /\ queue' = queue \/ (old.at # "load" /\ queue' = Append(queue, t))
      /\ loads' = loads + 1
      /\ newest' = [k \in RowKey |-> IF k \in DOMAIN old.docs THEN loads' ELSE newest[k]]
      /\ doubt' = doubt \cup DOMAIN old.docs
      /\ UNCHANGED <<source, index, crossed>>
  BY DEF HookFails, Enqueue, serverVars
<1>0. Moves(writer, writer', w, Idle)
  BY <1>1, <1>2, WriterMoves
<1>3. old.at # "load" => t \in TaskRecord
  BY <1>1, <1>2, RequestIsTask DEF WriterRecord
<1>4. ASSUME NEW k \in RowKey, old.at # "load" PROVE Part(t, k) \subseteq Hold(old, k)
  <2>1. /\ old.at \in {"upsert", "delete"} /\ t.on = "live" /\ t.kind = old.at /\ t.load = old.load
        /\ DOMAIN t.docs = {j \in DOMAIN old.docs : old.docs[j] = NoDocument <=> t.kind = "delete"}
        /\ \A j \in DOMAIN t.docs : t.docs[j] = old.docs[j]
    BY <1>1, <1>2, <1>4, RequestIsTask DEF WriterRecord
  <2> HIDE DEF t, old
  <2>2. QED
    BY <2>1 DEF Part, Hold
<1>5. \A k : Hold(Idle, k) = {}
  BY DEF Hold, Idle
<1> HIDE DEF t, old
<1>6. ASSUME NEW k \in RowKey
      PROVE  /\ UnderWay(queue', writer', k) \subseteq UnderWay(queue, writer, k)
             /\ k \notin DOMAIN old.docs => UnderWay(queue', writer', k) = UnderWay(queue, writer, k)
  <2>1. UnderWay(queue, writer', k) = Rest(queue, writer, w, k)
    <3>2. UnderWay(queue, writer', k) = Rest(queue, writer, w, k) \cup Hold(Idle, k)
      BY <1>0, OneMoves
    <3>3. QED
      BY <1>5, <3>2
  <2>2. UnderWay(queue, writer, k) = Rest(queue, writer, w, k) \cup Hold(old, k)
    BY HoldAndRest DEF old
  <2>3. k \notin DOMAIN old.docs => Hold(old, k) = {}
    BY DEF Hold
  <2>4. CASE queue' = queue
    BY <2>1, <2>2, <2>3, <2>4
  <2>5. CASE old.at # "load" /\ queue' = Append(queue, t)
    <3>1. UnderWay(queue', writer', k) = UnderWay(queue, writer', k) \cup Part(t, k)
      <4>1. Extends(queue, queue', t)
        BY <1>1, <1>3, <2>5, TaskEnqueued
      <4>2. QED
        BY <4>1, UnderWayAppended
    <3>2. QED
      BY <1>4, <2>1, <2>2, <2>3, <2>5, <3>1
  <2>6. QED
    BY <1>2, <2>4, <2>5
<1> SUFFICES ASSUME NEW k \in RowKey, ~ Loading(writer', k)
             PROVE  /\ NewestHolds(UnderWay(queue', writer', k), newest'[k], source[k])
                    /\ k \notin Excepted' =>
                         LiveHolds(UnderWay(queue', writer', k), newest'[k], source[k], DocumentsOf("live")'[k])
  BY <1>2 DEF RowsTrue, Excepted
<1>7. CASE k \in DOMAIN old.docs
  <2>1. newest'[k] = loads + 1 /\ k \in Excepted'
    BY <1>2, <1>7 DEF Excepted
  <2>2. \A y \in UnderWay(queue', writer', k) : y.load \in Nat /\ y.load <= loads
    BY <1>1, <1>6, UnderWayTyped
  <2>3. \A y \in UnderWay(queue', writer', k) : ~ (y.load >= newest'[k])
    BY <1>1, <2>1, <2>2
  <2>4. QED
    BY <2>1, <2>3 DEF NewestHolds
<1>8. CASE k \notin DOMAIN old.docs
  <2>1. ~ Loading(writer, k)
    BY <1>0, <1>2, <1>8, OthersLoading DEF old
  <2>2. newest'[k] = newest[k] /\ (k \in Excepted <=> k \in Excepted')
    BY <1>2, <1>8 DEF Excepted
  <2>3. DocumentsOf("live")' = DocumentsOf("live")
    BY <1>2 DEF DocumentsOf
  <2>4. QED
    BY <1>1, <1>6, <1>8, <2>1, <2>2, <2>3 DEF RowsTrue, Excepted
<1>9. QED
  BY <1>7, <1>8

-----------------------------------------------------------------------------
\* The order of what is under way for one key.

\* Fewer writers hold something.
LEMMA InOrderReleased ==
  ASSUME NEW q, NEW wr, NEW next, NEW new, NEW k, InOrder(q, wr, new, k),
         \A v \in Holders(next, k) : v \in Holders(wr, k) /\ next[v].load = wr[v].load
  PROVE  InOrder(q, next, new, k)
BY DEF InOrder

\* What a writer holds comes last.
LEMMA InOrderAppended ==
  ASSUME NEW q, NEW r, NEW t, Extends(q, r, t), NEW wr, NEW new, NEW k,
         \A i \in 1 .. Len(q) : q[i].load \in Nat, t.load \in Nat, InOrder(q, wr, new, k),
         t.on = "live" /\ k \in DOMAIN t.docs => \E w \in Holders(wr, k) : t.load = wr[w].load
  PROVE  InOrder(r, wr, new, k)
<1>1. /\ Len(q) \in Nat /\ Len(r) = Len(q) + 1 /\ r[Len(r)] = t
      /\ \A i \in 1 .. Len(q) : r[i] = q[i]
  BY DEF Extends
<1>2. \A i \in TasksFor(r, k) : \/ i \in TasksFor(q, k) /\ r[i] = q[i] /\ i < Len(r) /\ i \in 1 .. Len(q)
                                \/ i = Len(r) /\ t.on = "live" /\ k \in DOMAIN t.docs
  BY <1>1 DEF TasksFor
<1>3. CASE t.on = "live" /\ k \in DOMAIN t.docs
  <2>1. PICK w \in Holders(wr, k) : t.load = wr[w].load
    BY <1>3
  <2>2. /\ new <= t.load /\ \A i \in TasksFor(q, k) : q[i].load <= t.load
    BY <2>1 DEF InOrder
  <2>3. ASSUME NEW i \in TasksFor(r, k), NEW j \in TasksFor(r, k), i <= j
        PROVE  r[i].load <= r[j].load
    <3>1. CASE j = Len(r)
      <4>1. r[j].load = t.load /\ t.load <= t.load
        BY <1>1, <3>1
      <4>2. QED
        BY <1>1, <1>2, <2>2, <4>1
    <3>2. CASE j # Len(r)
      <4>1. j \in TasksFor(q, k) /\ r[j] = q[j] /\ j < Len(r) /\ j \in 1 .. Len(q)
        BY <1>2, <3>2
      <4>2. i # Len(r)
        BY <1>1, <2>3, <4>1
      <4>3. i \in TasksFor(q, k) /\ r[i] = q[i]
        BY <1>2, <4>2
      <4>4. QED
        BY <2>3, <4>1, <4>3 DEF InOrder
    <3>3. QED
      BY <3>1, <3>2
  <2>4. \A i \in TasksFor(r, k) : new <= r[i].load
    BY <1>1, <1>2, <2>2 DEF InOrder
  <2>5. \A v \in Holders(wr, k) : v = w /\ new <= wr[v].load
    BY DEF InOrder
  <2>6. \A i \in TasksFor(r, k) : r[i].load <= wr[w].load
    <3>1. t.load <= t.load
      OBVIOUS
    <3>2. QED
      BY <1>1, <1>2, <2>1, <2>2, <3>1
  <2>7. QED
    BY <2>3, <2>4, <2>5, <2>6 DEF InOrder
<1>4. CASE ~ (t.on = "live" /\ k \in DOMAIN t.docs)
  <2>1. \A i \in TasksFor(r, k) : i \in TasksFor(q, k) /\ r[i] = q[i]
    BY <1>2, <1>4
  <2>2. QED
    BY <2>1 DEF InOrder
<1>5. QED
  BY <1>3, <1>4

\* The head of the queue is the oldest.
LEMMA InOrderTaken ==
  ASSUME NEW q \in Seq(TaskRecord), q # <<>>, NEW wr, NEW new, NEW next, NEW k,
         InOrder(q, wr, new, k),
         next = IF Head(q).on = "live" /\ k \in DOMAIN Head(q).docs THEN Head(q).load ELSE new
  PROVE  InOrder(Tail(q), wr, next, k)
<1> DEFINE r == Tail(q)
           t == Head(q)
<1>1. /\ t = q[1] /\ 1 \in 1 .. Len(q) /\ Len(q) \in Nat /\ Len(r) = Len(q) - 1
      /\ \A i \in 1 .. Len(r) : i + 1 \in 1 .. Len(q) /\ r[i] = q[i + 1]
  BY TaskTaken
<1>2. next = IF t.on = "live" /\ k \in DOMAIN t.docs THEN t.load ELSE new
  OBVIOUS
<1> HIDE DEF r, t
<1>3. \A i \in TasksFor(r, k) : i \in 1 .. Len(r) /\ i + 1 \in TasksFor(q, k) /\ r[i] = q[i + 1]
  BY <1>1 DEF TasksFor
<1>4. ASSUME NEW i \in TasksFor(r, k), NEW j \in TasksFor(r, k), i <= j PROVE r[i].load <= r[j].load
  <2>1. i + 1 <= j + 1
    BY <1>1, <1>3, <1>4
  <2>2. QED
    BY <1>3, <2>1 DEF InOrder
<1>5. CASE t.on = "live" /\ k \in DOMAIN t.docs
  <2>1. 1 \in TasksFor(q, k) /\ next = q[1].load
    BY <1>1, <1>2, <1>5 DEF TasksFor
  <2>2. \A i \in TasksFor(r, k) : next <= r[i].load
    <3> SUFFICES ASSUME NEW i \in TasksFor(r, k) PROVE next <= r[i].load
      OBVIOUS
    <3>1. 1 <= i + 1
      BY <1>1, <1>3
    <3>2. QED
      BY <1>3, <2>1, <3>1 DEF InOrder
  <2>3. \A w \in Holders(wr, k) : next <= wr[w].load
    BY <2>1 DEF InOrder
  <2>4. QED
    BY <1>3, <1>4, <2>2, <2>3 DEF InOrder, r
<1>6. CASE ~ (t.on = "live" /\ k \in DOMAIN t.docs)
  BY <1>2, <1>3, <1>4, <1>6 DEF InOrder, r
<1>7. QED
  BY <1>5, <1>6

\* A task that runs is current, unless hooks of the key overlapped or failed.
LEMMA RunTaskOrderly == ASSUME SyncInv, RunTask PROVE Orderly'
<1> DEFINE task == Head(queue)
<1>1. /\ queue # <<>> /\ task \in TaskRecord /\ SoundTask(task, loads, writes)
      /\ queue' = Tail(queue)
      /\ Succeeds(task) \/ Refused(task) \/ Fails(task)
      /\ writer' = writer
  BY TaskRuns
<1>2. /\ SyncTypes /\ Orderly /\ queue \in Seq(TaskRecord) /\ newest \in [RowKey -> Nat]
      /\ 1 \in 1 .. Len(queue) /\ task = queue[1]
  BY <1>1, TaskTaken DEF SyncInv, SyncTypes, WritersTrue
<1>3. task.load \in Nat /\ DOMAIN task.docs \subseteq RowKey
  BY <1>1, DocsAre DEF TaskRecord
<1>4. PICK failed \in BOOLEAN : Account(task, failed)
  BY <1>1 DEF Succeeds, Refused, Fails
<1> DEFINE mine(k) == task.on = "live" /\ k \in DOMAIN task.docs
<1>5. exposed' = exposed /\ \A k \in RowKey :
        newest'[k] = IF mine(k) /\ task.load >= newest[k] THEN task.load ELSE newest[k]
  BY <1>4 DEF Account
<1>6. ASSUME NEW k \in RowKey \ exposed, mine(k) PROVE task.load >= newest[k]
  <2>1. 1 \in TasksFor(queue, k) /\ queue[1].load = task.load
    BY <1>2, <1>6 DEF TasksFor
  <2>2. newest[k] <= task.load
    BY <1>2, <2>1 DEF Orderly, InOrder
  <2>3. QED
    BY <1>2, <1>3, <2>2
<1>7. ASSUME NEW k \in RowKey \ exposed PROVE InOrder(queue', writer', newest'[k], k)
  <2>1. newest'[k] = IF mine(k) THEN task.load ELSE newest[k]
    BY <1>5, <1>6
  <2>2. InOrder(queue, writer, newest[k], k)
    BY <1>2 DEF Orderly
  <2>3. InOrder(Tail(queue), writer, newest'[k], k)
    BY <1>1, <1>2, <2>1, <2>2, InOrderTaken
  <2>4. QED
    BY <1>1, <2>3
<1>8. crossed' \subseteq exposed
  <2> SUFFICES ASSUME NEW k \in crossed', k \notin exposed PROVE FALSE
    OBVIOUS
  <2>1. k \notin crossed
    BY <1>2 DEF Orderly
  <2>2. mine(k) /\ ~ (task.load >= newest[k])
    BY <1>4, <2>1 DEF Account
  <2>3. k \in RowKey
    BY <1>3, <2>2
  <2> HIDE DEF mine
  <2>4. QED
    BY <1>6, <2>2, <2>3
<1>9. QED
  BY <1>5, <1>7, <1>8 DEF Orderly

\* What a rebuild enqueues is nothing to the writers.
LEMMA OrderlyStays ==
  ASSUME SyncInv, UNCHANGED <<writer, newest, crossed, exposed>>,
         \/ queue' = queue
         \/ \E t \in TaskRecord : queue' = Append(queue, t) /\ (t.on = "copy" \/ DOMAIN t.docs = {})
  PROVE  Orderly'
<1>1. Orderly /\ SyncTypes /\ queue \in Seq(TaskRecord)
  BY DEF SyncInv, SyncTypes, WritersTrue
<1>2. CASE queue' = queue
  BY <1>1, <1>2 DEF Orderly
<1>3. ASSUME NEW t \in TaskRecord, queue' = Append(queue, t), t.on = "copy" \/ DOMAIN t.docs = {}
      PROVE  Orderly'
  <2>1. ASSUME NEW k \in RowKey \ exposed PROVE InOrder(queue', writer, newest[k], k)
    <3>1. InOrder(queue, writer, newest[k], k)
      BY <1>1 DEF Orderly
    <3>2. t.load \in Nat /\ \A i \in 1 .. Len(queue) : queue[i].load \in Nat
      BY <1>1, TaskIn DEF TaskRecord
    <3>3. Extends(queue, queue', t)
      BY <1>1, <1>3, TaskEnqueued
    <3>4. QED
      BY <1>3, <3>1, <3>2, <3>3, InOrderAppended
  <2>2. QED
    BY <1>1, <2>1 DEF Orderly
<1>4. QED
  BY <1>2, <1>3

\* Who writes has not loaded yet.
LEMMA WriteOrderly ==
  ASSUME SyncInv, NEW w \in Writer, NEW keys \in SUBSET RowKey, NEW rows \in [keys -> Row], Write(w, rows)
  PROVE  Orderly'
<1> DEFINE x == [Idle EXCEPT !.at = "load", !.docs = [k \in DOMAIN rows |-> NoDocument]]
<1>1. Orderly /\ SyncTypes
  BY DEF SyncInv, WritersTrue
<1>2. writer' = [writer EXCEPT ![w] = x] /\ UNCHANGED <<queue, newest, crossed, exposed>>
  BY DEF Write, serverVars, ghostVars
<1>3. x.at = "load"
  BY DEF Idle
<1>4. Moves(writer, writer', w, x)
  BY <1>1, <1>2, WriterMoves
<1> HIDE DEF x
<1>5. ASSUME NEW k \in RowKey \ exposed PROVE InOrder(queue, writer', newest[k], k)
  <2>1. InOrder(queue, writer, newest[k], k)
    BY <1>1 DEF Orderly
  <2>2. \A v \in Holders(writer', k) : v \in Holders(writer, k) /\ writer'[v].load = writer[v].load
    BY <1>3, <1>4 DEF Moves, Holders
  <2>3. QED
    BY <2>1, <2>2, InOrderReleased
<1>6. QED
  BY <1>1, <1>2, <1>5 DEF Orderly

\* A load is newer than what is under way, and nobody else holds its key.
LEMMA LoadOrderly == ASSUME SyncInv, NEW w \in Writer, Load(w) PROVE Orderly'
<1> DEFINE docs == Loaded(DOMAIN writer[w].docs)
           x == [at |-> IF Upserts(docs) = NoDocs THEN "delete" ELSE "upsert",
                 docs |-> docs, load |-> loads']
<1>1. /\ Orderly /\ SyncTypes /\ Counted /\ queue \in Seq(TaskRecord) /\ loads \in Nat
      /\ newest \in [RowKey -> Nat]
  BY DEF SyncInv, SyncTypes, WritersTrue
<1>2. /\ writer' = [writer EXCEPT ![w] = x] /\ writer[w].at = "load" /\ loads' = loads + 1
      /\ exposed' = exposed \cup {k \in DOMAIN docs : \E v \in Writer \ {w} : HasLoaded(v, k)}
      /\ UNCHANGED <<queue, newest, crossed>>
  BY DEF Load
<1>3. Moves(writer, writer', w, x)
  BY <1>1, <1>2, WriterMoves
<1>4. x.docs = docs /\ x.load = loads + 1
  BY <1>2
<1> HIDE DEF docs, x
<1>5. ASSUME NEW k \in RowKey \ exposed' PROVE InOrder(queue, writer', newest[k], k)
  <2>1. k \in RowKey \ exposed /\ InOrder(queue, writer, newest[k], k)
    BY <1>1, <1>2 DEF Orderly
  <2>2. CASE w \notin Holders(writer', k)
    <3>1. \A v \in Holders(writer', k) : v \in Holders(writer, k) /\ writer'[v].load = writer[v].load
      BY <1>3, <2>2 DEF Moves, Holders
    <3>2. QED
      BY <2>1, <3>1, InOrderReleased
  <2>3. CASE w \in Holders(writer', k)
    <3>1. k \in DOMAIN docs /\ writer'[w].load = loads + 1
      BY <1>3, <1>4, <2>3 DEF Moves, Holders
    <3>2. ASSUME NEW v \in Holders(writer', k) PROVE v = w
      <4>1. SUFFICES ASSUME v # w PROVE FALSE
        OBVIOUS
      <4>2. v \in Writer \ {w} /\ HasLoaded(v, k)
        BY <1>3, <4>1 DEF Moves, Holders, HasLoaded
      <4>3. QED
        BY <1>2, <3>1, <4>2
    <3>3. ASSUME NEW i \in TasksFor(queue, k) PROVE queue[i].load <= loads + 1
      <4>1. i \in 1 .. Len(queue) /\ queue[i].on = "live"
        BY DEF TasksFor
      <4>2. queue[i].load \in Nat /\ queue[i].load <= loads
        BY <1>1, <4>1, TaskIn DEF Counted, SoundTask, TaskRecord
      <4>3. QED
        BY <1>1, <4>2
    <3>4. newest[k] <= loads + 1
      <4>1. newest[k] \in Nat /\ newest[k] <= loads
        BY <1>1 DEF Counted
      <4>2. QED
        BY <1>1, <4>1
    <3>5. QED
      BY <2>1, <3>1, <3>2, <3>3, <3>4 DEF InOrder
  <2>4. QED
    BY <2>2, <2>3
<1>6. QED
  BY <1>1, <1>2, <1>5 DEF Orderly

\* What a writer enqueues it does not hold any more.
LEMMA SentInOrder ==
  ASSUME SyncInv, NEW w \in Writer, writer[w].at \in {"upsert", "delete"}, NEW x,
         writer' = [writer EXCEPT ![w] = x],
         x = Idle \/ (writer[w].at = "upsert" /\ x = [writer[w] EXCEPT !.at = "delete"]),
         queue' = Append(queue, RequestOf(w)), NEW k \in RowKey \ exposed
  PROVE  InOrder(queue', writer', newest[k], k)
<1> DEFINE t == RequestOf(w)
           old == writer[w]
<1>1. /\ Orderly /\ SyncTypes /\ queue \in Seq(TaskRecord) /\ old \in WriterRecord
  BY DEF SyncInv, SyncTypes, WritersTrue
<1>2. /\ t \in TaskRecord /\ t.on = "live" /\ t.kind = old.at /\ t.load = old.load
      /\ DOMAIN t.docs = {j \in DOMAIN old.docs : old.docs[j] = NoDocument <=> t.kind = "delete"}
  BY <1>1, RequestIsTask
<1>3. Moves(writer, writer', w, x)
  BY <1>1, WriterMoves
<1>4. x.at # "idle" => x.at = "delete" /\ x.docs = old.docs /\ x.load = old.load /\ old.at = "upsert"
  BY <1>1 DEF Idle, WriterRecord
<1>5. Extends(queue, queue', t)
  BY <1>1, <1>2, TaskEnqueued
<1> HIDE DEF t
<1>6. InOrder(queue, writer, newest[k], k)
  BY <1>1 DEF Orderly
<1>7. InOrder(queue', writer, newest[k], k)
  <2>1. t.load \in Nat /\ \A i \in 1 .. Len(queue) : queue[i].load \in Nat
    BY <1>1, <1>2, TaskIn DEF TaskRecord
  <2>2. ASSUME k \in DOMAIN t.docs PROVE w \in Holders(writer, k)
    BY <1>2, <2>2 DEF Holders
  <2>3. QED
    BY <1>2, <1>5, <1>6, <2>1, <2>2, InOrderAppended
<1>8. \A v \in Holders(writer', k) : v \in Holders(writer, k) /\ writer'[v].load = writer[v].load
  <2> SUFFICES ASSUME NEW v \in Holders(writer', k)
               PROVE  v \in Holders(writer, k) /\ writer'[v].load = writer[v].load
    OBVIOUS
  <2>1. CASE v # w
    BY <1>3, <2>1 DEF Moves, Holders
  <2>2. CASE v = w
    <3>1. writer'[v] = x /\ x.at # "idle" /\ k \in DOMAIN x.docs
      BY <1>3, <2>2 DEF Moves, Holders
    <3>2. QED
      BY <1>4, <2>2, <3>1 DEF Holders
  <2>3. QED
    BY <2>1, <2>2
<1>9. QED
  BY <1>7, <1>8, InOrderReleased

LEMMA RequestOrderly == ASSUME SyncInv, NEW w \in Writer, Request(w) PROVE Orderly'
<1> DEFINE x == IF writer[w].at = "upsert" /\ Deletes(writer[w].docs) # NoDocs
                THEN [writer[w] EXCEPT !.at = "delete"] ELSE Idle
<1>1. /\ writer[w].at \in {"upsert", "delete"} /\ writer' = [writer EXCEPT ![w] = x]
      /\ queue' = Append(queue, RequestOf(w)) /\ UNCHANGED <<newest, crossed, exposed>>
  BY DEF Request, Enqueue, ghostVars
<1>2. x = Idle \/ (writer[w].at = "upsert" /\ x = [writer[w] EXCEPT !.at = "delete"])
  OBVIOUS
<1> HIDE DEF x
<1>3. \A k \in RowKey \ exposed : InOrder(queue', writer', newest[k], k)
  BY <1>1, <1>2, SentInOrder
<1>4. QED
  BY <1>1, <1>3 DEF Orderly, SyncInv, WritersTrue

\* The keys of a hook that fails are exposed, and nothing happens to the others.
LEMMA HookFailsOrderly == ASSUME SyncInv, NEW w \in Writer, HookFails(w) PROVE Orderly'
<1> DEFINE old == writer[w]
<1>1. /\ Orderly /\ SyncTypes /\ old \in WriterRecord /\ queue \in Seq(TaskRecord)
      /\ newest \in [RowKey -> Nat]
  BY DEF SyncInv, SyncTypes, WritersTrue
<1>2. /\ writer' = [writer EXCEPT ![w] = Idle] /\ old.at # "idle"
      /\ queue' = queue \/ (old.at # "load" /\ queue' = Append(queue, RequestOf(w)))
      /\ newest' = [k \in RowKey |-> IF k \in DOMAIN old.docs THEN loads' ELSE newest[k]]
      /\ exposed' = exposed \cup DOMAIN old.docs
      /\ crossed' = crossed
  BY DEF HookFails, Enqueue
<1>3. Moves(writer, writer', w, Idle)
  BY <1>1, <1>2, WriterMoves
<1>4. ASSUME NEW k \in RowKey \ exposed' PROVE InOrder(queue', writer', newest'[k], k)
  <2>1. k \in RowKey \ exposed /\ newest'[k] = newest[k] /\ k \notin DOMAIN old.docs
    BY <1>1, <1>2
  <2>2. CASE queue' = queue
    <3>1. \A v \in Holders(writer', k) : v \in Holders(writer, k) /\ writer'[v].load = writer[v].load
      BY <1>3 DEF Moves, Holders, Idle
    <3>2. InOrder(queue, writer, newest[k], k)
      BY <1>1, <2>1 DEF Orderly
    <3>3. QED
      BY <2>1, <2>2, <3>1, <3>2, InOrderReleased
  <2>3. CASE old.at # "load" /\ queue' = Append(queue, RequestOf(w))
    <3>1. old.at \in {"upsert", "delete"}
      BY <1>1, <1>2, <2>3 DEF WriterRecord
    <3>2. InOrder(queue', writer', newest[k], k)
      BY <1>2, <2>1, <2>3, <3>1, SentInOrder
    <3>3. QED
      BY <2>1, <3>2
  <2>4. QED
    BY <1>2, <2>2, <2>3
<1>5. QED
  BY <1>1, <1>2, <1>4 DEF Orderly

\* Rows and their order, together.
LEMMA RunTaskWriters == ASSUME SyncInv, RunTask PROVE WritersTrue'
BY RunTaskRows, RunTaskOrderly DEF WritersTrue

LEMMA WriteWriters ==
  ASSUME SyncInv, NEW w \in Writer, NEW keys \in SUBSET RowKey, NEW rows \in [keys -> Row], Write(w, rows)
  PROVE  WritersTrue'
BY WriteRows, WriteOrderly DEF WritersTrue

LEMMA LoadWriters == ASSUME SyncInv, NEW w \in Writer, Load(w) PROVE WritersTrue'
BY LoadRows, LoadOrderly DEF WritersTrue

LEMMA RequestWriters == ASSUME SyncInv, NEW w \in Writer, Request(w) PROVE WritersTrue'
BY RequestRows, RequestOrderly DEF WritersTrue

LEMMA HookFailsWriters == ASSUME SyncInv, NEW w \in Writer, HookFails(w) PROVE WritersTrue'
BY HookFailsRows, HookFailsOrderly DEF WritersTrue

LEMMA WritersStay ==
  ASSUME SyncInv, UNCHANGED <<source, writer, newest, doubt, crossed, exposed, index>>,
         \/ queue' = queue
         \/ \E t \in TaskRecord : queue' = Append(queue, t) /\ (t.on = "copy" \/ DOMAIN t.docs = {})
  PROVE  WritersTrue'
BY RowsStay, OrderlyStays DEF WritersTrue

-----------------------------------------------------------------------------
\* Types and counters.

\* A task that is enqueued is one of the queue, the last.
LEMMA EnqueuedTypes ==
  ASSUME SyncTypes, NEW t \in TaskRecord, queue' = Append(queue, t)
  PROVE  /\ queue' \in Seq(TaskRecord) /\ Len(queue) \in Nat /\ Len(queue') = Len(queue) + 1
         /\ queue'[Len(queue) + 1] = t /\ \A i \in 1 .. Len(queue) : queue'[i] = queue[i]
         /\ \A i \in 1 .. Len(queue') : i \in 1 .. Len(queue) \/ i = Len(queue) + 1
<1>1. queue \in Seq(TaskRecord)
  BY DEF SyncTypes
<1>2. /\ queue' \in Seq(TaskRecord) /\ Len(queue) \in Nat /\ Len(queue') = Len(queue) + 1
      /\ queue'[Len(queue')] = t /\ \A i \in 1 .. Len(queue) : queue'[i] = queue[i]
  BY <1>1, TaskAppended
<1>3. \A i \in 1 .. Len(queue') : i \in 1 .. Len(queue) \/ i = Len(queue) + 1
  BY <1>2
<1>4. QED
  BY <1>2, <1>3

\* A sound task leaves the queue sound.
LEMMA EnqueuedCounted ==
  ASSUME SyncTypes, Counted, NEW t \in TaskRecord, queue' = Append(queue, t), loads' \in Nat,
         loads <= loads', SoundTask(t, loads', writes), UNCHANGED writes
  PROVE  \A i \in 1 .. Len(queue') : SoundTask(queue'[i], loads', writes')
<1> SUFFICES ASSUME NEW i \in 1 .. Len(queue') PROVE SoundTask(queue'[i], loads', writes')
  OBVIOUS
<1>1. CASE i = Len(queue) + 1
  BY <1>1, EnqueuedTypes
<1>2. CASE i \in 1 .. Len(queue)
  <2>1. queue'[i] = queue[i] /\ queue[i] \in TaskRecord /\ SoundTask(queue[i], loads, writes)
    BY <1>2, EnqueuedTypes, TaskIn DEF SyncTypes, Counted
  <2>2. queue[i].load \in Nat /\ loads \in Nat
    BY <2>1 DEF TaskRecord, SyncTypes
  <2>3. QED
    BY <2>1, <2>2 DEF SoundTask
<1>3. QED
  BY <1>1, <1>2, EnqueuedTypes

\* What a rebuild enqueues.
LEMMA StepTask ==
  ASSUME SyncInv, rebuild.at \in Steps
  PROVE  LET t == TaskOf(rebuild.at)
         IN /\ t \in TaskRecord /\ SoundTask(t, loads, writes) /\ DOMAIN t.docs = {} /\ ~ ByWriter(t)
            /\ rebuild.at = "drop" => t.kind = "drop" /\ t.on = "copy"
            /\ rebuild.at # "drop" => t.kind = KindOf[rebuild.at]
                                      /\ t.on = IF rebuild.at = "live" THEN "live" ELSE "copy"
            /\ t.kind = "swap" <=> rebuild.at = "swap"
            /\ t.kind = "swap" => t.since = rebuild.since
<1>1. /\ rebuild.since \in Nat /\ rebuilds \in Nat /\ rebuild.since <= writes /\ writes \in Nat
      /\ loads \in Nat
  BY DEF SyncInv, SyncTypes, Counted, RebuildRecord
<1>2. rebuild.at \in {"drop", "create", "settings", "live", "swap", "cleanup"}
  BY StepNames
<1>3. TaskOf(rebuild.at) \in TaskRecord
  BY <1>1, <1>2, NoDocsAre DEF TaskOf, Task, TaskRecord
<1>4. QED
  BY <1>1, <1>2, <1>3, NoDocsAre DEF TaskOf, Task, SoundTask, ByWriter, KindOf

\* A write.
LEMMA WriteTypes ==
  ASSUME SyncInv, NEW w \in Writer, NEW keys \in SUBSET RowKey, NEW rows \in [keys -> Row], Write(w, rows)
  PROVE  SyncTypes' /\ Counted'
<1> DEFINE x == [Idle EXCEPT !.at = "load", !.docs = [k \in DOMAIN rows |-> NoDocument]]
<1> USE DEF Write, serverVars, ghostVars
<1>1. SyncTypes /\ Counted /\ writes \in Nat
  BY DEF SyncInv, SyncTypes
<1>2. [k \in DOMAIN rows |-> NoDocument] \in [keys -> Value]
  BY DEF Value
<1>3. x \in WriterRecord /\ x.load = 0
  BY <1>2, DocsOver DEF Idle, WriterRecord
<1> HIDE DEF x
<1>4. source' \in [RowKey -> Row] /\ touched' \in [RowKey -> Nat] /\ writes' \in Nat /\ writes <= writes'
  BY <1>1 DEF SyncTypes
<1>5. writer' \in [Writer -> WriterRecord] /\ \A v \in Writer : writer'[v].load <= loads
  <2>1. writer' = [writer EXCEPT ![w] = x] /\ loads \in Nat /\ writer \in [Writer -> WriterRecord]
    BY <1>1 DEF x, SyncTypes
  <2>2. \A v \in Writer : writer'[v] = IF v = w THEN x ELSE writer[v]
    BY <2>1
  <2>3. \A v \in Writer : writer'[v].load <= loads
    <3>1. \A v \in Writer : writer[v].load <= loads
      BY <1>1 DEF Counted
    <3>2. 0 <= loads
      BY <2>1
    <3>3. QED
      BY <1>3, <2>2, <3>1, <3>2
  <2>4. QED
    BY <1>3, <2>1, <2>3
<1>6. SyncTypes'
  BY <1>1, <1>4, <1>5 DEF SyncTypes
<1>7. \A i \in 1 .. Len(queue') : SoundTask(queue'[i], loads', writes')
  <2>1. ASSUME NEW i \in 1 .. Len(queue) PROVE queue[i].since <= writes'
    <3>1. queue[i] \in TaskRecord /\ SoundTask(queue[i], loads, writes)
      BY <1>1, TaskIn DEF SyncTypes, Counted
    <3>3. queue[i].since \in Nat /\ queue[i].since <= writes
      BY <3>1 DEF SoundTask, TaskRecord
    <3>2. QED
      BY <1>1, <1>4, <3>3
  <2>2. QED
    BY <1>1, <2>1 DEF SoundTask, Counted
<1>8. rebuild.since \in Nat
  BY <1>1 DEF SyncTypes, RebuildRecord
<1>9. QED
  BY <1>1, <1>4, <1>5, <1>6, <1>7, <1>8 DEF Counted

\* A load.
LEMMA LoadTypes == ASSUME SyncInv, NEW w \in Writer, Load(w) PROVE SyncTypes' /\ Counted'
<1> DEFINE docs == Loaded(DOMAIN writer[w].docs)
           x == [at |-> IF Upserts(docs) = NoDocs THEN "delete" ELSE "upsert",
                 docs |-> docs, load |-> loads']
<1> USE DEF Load, serverVars, ghostVars
<1>1. SyncTypes /\ Counted /\ loads \in Nat /\ loads' = loads + 1
  BY DEF SyncInv, SyncTypes
<1>2. docs \in Docs
  <2>1. DOMAIN writer[w].docs \subseteq RowKey
    BY <1>1, DocsAre DEF SyncTypes, WriterRecord
  <2>2. docs \in [DOMAIN writer[w].docs -> Value]
    BY <1>1, <2>1, ProjectIs DEF Loaded, SyncTypes
  <2>3. QED
    BY <2>1, <2>2, DocsOver
<1> HIDE DEF docs
<1>3. x \in WriterRecord /\ x.load = loads'
  BY <1>1, <1>2 DEF WriterRecord
<1>4. writer' = [writer EXCEPT ![w] = x]
  BY DEF docs
<1> HIDE DEF x
<1>5. writer' \in [Writer -> WriterRecord]
  BY <1>1, <1>3, <1>4 DEF SyncTypes
<1>6. \A v \in Writer : writer'[v].load <= loads'
  <2>1. \A v \in Writer : writer[v].load \in Nat /\ writer[v].load <= loads
    BY <1>1 DEF SyncTypes, WriterRecord, Counted
  <2>2. \A v \in Writer : writer'[v] = IF v = w THEN x ELSE writer[v]
    BY <1>1, <1>4 DEF SyncTypes
  <2>3. QED
    BY <1>1, <1>3, <2>1, <2>2
<1>0. exposed' \subseteq RowKey
  <2>1. DOMAIN docs \subseteq RowKey
    BY <1>2, DocsAre
  <2>2. exposed' \subseteq exposed \cup DOMAIN docs
    BY DEF docs
  <2>3. QED
    BY <1>1, <2>1, <2>2 DEF SyncTypes
<1>7. SyncTypes'
  BY <1>0, <1>1, <1>5 DEF SyncTypes
<1>8. \A i \in 1 .. Len(queue') : SoundTask(queue'[i], loads', writes')
  <2>1. ASSUME NEW i \in 1 .. Len(queue), queue[i].on = "live" PROVE queue[i].load <= loads'
    <3>1. queue[i] \in TaskRecord /\ SoundTask(queue[i], loads, writes)
      BY <1>1, TaskIn DEF SyncTypes, Counted
    <3>2. queue[i].load \in Nat /\ queue[i].load <= loads
      BY <2>1, <3>1 DEF SoundTask, TaskRecord
    <3>3. QED
      BY <1>1, <3>2
  <2>2. QED
    BY <1>1, <2>1 DEF SoundTask, Counted
<1>9. \A k \in RowKey : newest[k] <= loads'
  BY <1>1 DEF SyncTypes, Counted
<1>10. QED
  BY <1>1, <1>6, <1>7, <1>8, <1>9 DEF Counted

\* A request, or a hook that fails.
LEMMA RequestTypes ==
  ASSUME SyncInv, NEW w \in Writer, Request(w) \/ HookFails(w)
  PROVE  SyncTypes' /\ Counted'
<1> DEFINE t == RequestOf(w)
<1>1. SyncTypes /\ Counted /\ loads \in Nat
  BY DEF SyncInv, SyncTypes
<1>2. /\ queue' = queue \/ (writer[w].at \in {"upsert", "delete"} /\ queue' = Append(queue, t))
      /\ loads' \in {loads, loads + 1}
      /\ UNCHANGED <<source, index, ran, failures, rebuild, inclusive, touched, writes, rebuilds>>
  BY <1>1 DEF Request, HookFails, Enqueue, serverVars, ghostVars, SyncTypes, WriterRecord
<1>3. loads' \in Nat /\ loads <= loads'
  BY <1>1, <1>2
<1>4. newest' \in [RowKey -> Nat] /\ \A k \in RowKey : newest'[k] <= loads'
  <2>1. newest \in [RowKey -> Nat] /\ \A k \in RowKey : newest[k] <= loads
    BY <1>1 DEF SyncTypes, Counted
  <2>2. newest' = newest \/ newest' = [k \in RowKey |-> IF k \in DOMAIN writer[w].docs THEN loads' ELSE newest[k]]
    BY DEF Request, HookFails, ghostVars
  <2>3. QED
    BY <1>1, <1>3, <2>1, <2>2
<1>5. doubt' \subseteq RowKey /\ crossed' \subseteq RowKey /\ exposed' \subseteq RowKey
  <2>1. DOMAIN writer[w].docs \subseteq RowKey
    BY <1>1, DocsAre DEF SyncTypes, WriterRecord
  <2>2. QED
    BY <1>1, <2>1 DEF Request, HookFails, ghostVars, SyncTypes
<1>6. writer' \in [Writer -> WriterRecord] /\ \A v \in Writer : writer'[v].load <= loads'
  <2> DEFINE next == writer'[w]
  <2>1. /\ writer \in [Writer -> WriterRecord]
        /\ \A v \in Writer : writer[v].load \in Nat /\ writer[v].load <= loads
    BY <1>1 DEF SyncTypes, WriterRecord, Counted
  <2>2. Idle \in WriterRecord /\ Idle.load = 0
    BY NoDocsAre DEF Idle, WriterRecord
  <2>3. \/ writer' = [writer EXCEPT ![w] = Idle]
        \/ writer' = [writer EXCEPT ![w] = [@ EXCEPT !.at = "delete"]]
    BY DEF Request, HookFails
  <2>4. CASE writer' = [writer EXCEPT ![w] = Idle]
    <3>1. writer' \in [Writer -> WriterRecord]
      BY <2>1, <2>2, <2>4
    <3>2. \A v \in Writer : writer'[v] = Idle \/ writer'[v] = writer[v]
      BY <2>1, <2>4
    <3>3. QED
      BY <1>1, <1>3, <2>1, <2>2, <3>1, <3>2
  <2>5. CASE writer' = [writer EXCEPT ![w] = [@ EXCEPT !.at = "delete"]]
    <3>1. [writer[w] EXCEPT !.at = "delete"] \in WriterRecord
          /\ [writer[w] EXCEPT !.at = "delete"].load = writer[w].load
      BY <2>1 DEF WriterRecord
    <3>2. writer' \in [Writer -> WriterRecord]
      BY <2>1, <2>5, <3>1
    <3>3. \A v \in Writer : writer'[v].load = writer[v].load
      BY <2>1, <2>5, <3>1
    <3>4. QED
      BY <1>1, <1>3, <2>1, <3>2, <3>3
  <2>6. QED
    BY <2>3, <2>4, <2>5
<1>7. /\ queue' \in Seq(TaskRecord) /\ Len(queue) <= Len(queue') /\ Len(queue') \in Nat
      /\ \A i \in 1 .. Len(queue') : SoundTask(queue'[i], loads', writes')
  <2>1. CASE queue' = queue
    <3>1. ASSUME NEW i \in 1 .. Len(queue) PROVE SoundTask(queue[i], loads', writes')
      <4>1. queue[i] \in TaskRecord /\ SoundTask(queue[i], loads, writes)
        BY <1>1, TaskIn DEF SyncTypes, Counted
      <4>2. queue[i].load \in Nat
        BY <4>1 DEF TaskRecord
      <4>3. QED
        BY <1>1, <1>2, <1>3, <4>1, <4>2 DEF SoundTask
    <3>2. queue \in Seq(TaskRecord) /\ Len(queue) \in Nat
      BY <1>1 DEF SyncTypes
    <3>3. QED
      BY <2>1, <3>1, <3>2
  <2>2. CASE writer[w].at \in {"upsert", "delete"} /\ queue' = Append(queue, t)
    <3>1. /\ t \in TaskRecord /\ t.on = "live" /\ t.kind = writer[w].at
          /\ t.load = writer[w].load /\ t.since = 0
          /\ DOMAIN t.docs = {k \in DOMAIN writer[w].docs : writer[w].docs[k] = NoDocument <=> t.kind = "delete"}
          /\ \A k \in DOMAIN t.docs : t.docs[k] = writer[w].docs[k]
      BY <1>1, <2>2, RequestIsTask
    <3> HIDE DEF t
    <3>2. t.load \in Nat /\ t.load <= loads /\ writes \in Nat
      BY <1>1, <3>1 DEF SyncTypes, WriterRecord, Counted
    <3>3. SoundTask(t, loads', writes)
      BY <1>1, <1>3, <2>2, <3>1, <3>2 DEF SoundTask
    <3>4. \A i \in 1 .. Len(queue') : SoundTask(queue'[i], loads', writes')
      BY <1>1, <1>2, <1>3, <2>2, <3>1, <3>3, EnqueuedCounted
    <3>5. QED
      BY <1>1, <2>2, <3>1, <3>4, EnqueuedTypes
  <2>3. QED
    BY <1>2, <2>1, <2>2
<1>8. SyncTypes'
  BY <1>1, <1>2, <1>3, <1>4, <1>5, <1>6, <1>7 DEF SyncTypes
<1>9. /\ rebuild.uid \in Nat /\ rebuild.pending \in Nat /\ ran \in Nat /\ Len(queue) \in Nat
      /\ rebuild.uid <= ran + Len(queue) /\ rebuild.pending <= ran + Len(queue)
  BY <1>1 DEF SyncTypes, RebuildRecord, Counted
<1>10. rebuild'.uid <= ran' + Len(queue') /\ rebuild'.pending <= ran' + Len(queue')
  BY <1>2, <1>7, <1>9
<1>11. QED
  BY <1>1, <1>2, <1>4, <1>6, <1>7, <1>8, <1>10 DEF Counted

\* Only the task that ran can have failed now.
LEMMA FailuresAfter ==
  ASSUME NEW task, Succeeds(task) \/ Refused(task) \/ Fails(task)
  PROVE  failures \subseteq failures' /\ \A f \in failures' : f \in failures \/ f.uid = ran + 1
<1>1. PICK e : failures' = failures \/ failures' = failures \cup {[uid |-> ran + 1, error |-> e]}
  BY DEF Succeeds, Refused, Fails
<1>2. QED
  BY <1>1

\* A task that runs.
LEMMA RunTaskTypes == ASSUME SyncInv, RunTask PROVE SyncTypes' /\ Counted'
<1> DEFINE task == Head(queue)
<1>1. /\ queue # <<>> /\ task \in TaskRecord /\ SoundTask(task, loads, writes)
      /\ queue' = Tail(queue) /\ ran' = ran + 1
      /\ Succeeds(task) \/ Refused(task) \/ Fails(task)
      /\ UNCHANGED <<source, writer, rebuild, inclusive, loads, touched, writes, rebuilds>>
  BY TaskRuns
<1>2. SyncTypes /\ Counted /\ queue \in Seq(TaskRecord)
  BY DEF SyncInv, SyncTypes
<1>3. /\ queue' \in Seq(TaskRecord) /\ Len(queue) \in Nat /\ Len(queue') = Len(queue) - 1
      /\ \A i \in 1 .. Len(queue') : i + 1 \in 1 .. Len(queue) /\ queue'[i] = queue[i + 1]
  BY <1>1, <1>2, TaskTaken
<1> HIDE DEF task
<1>4. index' \in [{"live", "copy"} -> Index]
  BY <1>1, <1>2, EffectIs DEF Refused, Fails, SyncTypes
<1>5. task.load \in Nat /\ DOMAIN task.docs \subseteq RowKey /\ (task.on = "live" => task.load <= loads)
  BY <1>1, DocsAre DEF TaskRecord, SoundTask
<1>6. /\ newest' \in [RowKey -> Nat] /\ \A k \in RowKey : newest'[k] <= loads
      /\ doubt' \subseteq RowKey /\ crossed' \subseteq RowKey /\ exposed' \subseteq RowKey
  <2>1. /\ newest \in [RowKey -> Nat] /\ \A k \in RowKey : newest[k] <= loads
        /\ doubt \subseteq RowKey /\ crossed \subseteq RowKey /\ exposed \subseteq RowKey
    BY <1>2 DEF SyncTypes, Counted
  <2>2. PICK failed \in BOOLEAN : Account(task, failed)
    BY <1>1 DEF Succeeds, Refused, Fails
  <2> DEFINE ks == IF task.on = "live" THEN DOMAIN task.docs ELSE {}
             current == {k \in ks : task.load >= newest[k]}
  <2>3. newest' = [k \in RowKey |-> IF k \in current THEN task.load ELSE newest[k]]
    BY <2>2 DEF Account
  <2>4. doubt' \subseteq RowKey /\ crossed' \subseteq RowKey /\ exposed' \subseteq RowKey
    BY <1>5, <2>1, <2>2 DEF Account
  <2>5. current # {} => task.on = "live"
    OBVIOUS
  <2> HIDE DEF current
  <2>6. QED
    BY <1>5, <2>1, <2>3, <2>4, <2>5
<1>7. SyncTypes'
  <2>1. ran' \in Nat
    BY <1>1, <1>2 DEF SyncTypes
  <2>2. \A f \in failures' : f.uid \in Nat
    BY <1>1, <1>2, FailuresAfter DEF SyncTypes
  <2>3. QED
    BY <1>1, <1>2, <1>3, <1>4, <1>6, <2>1, <2>2 DEF SyncTypes
<1>8. \A i \in 1 .. Len(queue') : SoundTask(queue'[i], loads, writes)
  BY <1>2, <1>3 DEF Counted
<1>9. \A f \in failures' : f.uid <= ran'
  <2>1. ran \in Nat /\ \A f \in failures : f.uid \in Nat /\ f.uid <= ran
    BY <1>2 DEF SyncTypes, Counted
  <2>2. \A f \in failures' : f \in failures \/ f.uid = ran + 1
    BY <1>1, FailuresAfter
  <2>3. \A f \in failures : f.uid <= ran + 1
    BY <2>1
  <2>4. QED
    BY <1>1, <2>1, <2>2, <2>3
<1>10. ran' + Len(queue') = ran + Len(queue)
  BY <1>1, <1>2, <1>3 DEF SyncTypes
<1>11. QED
  BY <1>1, <1>2, <1>6, <1>7, <1>8, <1>9, <1>10 DEF Counted

\* The pages of a Scan.  A set of keys has a last one.
LEMMA LastIs ==
  ASSUME NEW keys \in SUBSET RowKey, keys # {}
  PROVE  LastOf(keys) \in keys /\ \A k \in keys : k <= LastOf(keys)
<1> DEFINE bounds == {n \in Nat : \A k \in keys : k <= n}
<1>1. NumKeys \in Nat /\ NumKeys \in bounds /\ keys \subseteq 1 .. NumKeys
  BY SyncAssumption DEF RowKey
<1>2. PICK n \in bounds : \A m \in bounds : n <= m
  BY <1>1, LeastNumber
<1>3. n \in keys
  <2> SUFFICES ASSUME n \notin keys PROVE FALSE
    OBVIOUS
  <2>1. n \in Nat /\ \A k \in keys : k \in Nat /\ 1 <= k /\ k <= n /\ k # n
    BY <1>1, <1>2
  <2>2. n # 0
    BY <2>1
  <2>3. n - 1 \in Nat /\ \A k \in keys : k <= n - 1
    BY <2>1, <2>2
  <2>4. n - 1 \in bounds
    BY <2>3
  <2>5. n <= n - 1
    <3> HIDE DEF bounds
    <3>1. QED
      BY <1>2, <2>4
  <2>6. QED
    BY <2>1, <2>5
<1>4. \E k \in keys : \A j \in keys : j <= k
  BY <1>2, <1>3
<1>5. QED
  BY <1>4 DEF LastOf

\* A page leaves out no row between its ends, and the last page none at all.
LEMMA PageIs ==
  ASSUME SyncTypes
  PROVE  /\ PageKeys \subseteq RowKey
         /\ \A k \in PageKeys : source[k] # NoRow /\ After(k)
         /\ \A k \in RowKey :
              source[k] # NoRow /\ After(k) /\ ((PageKeys # {} /\ k <= LastOf(PageKeys)) \/ IsLastPage(PageKeys))
              => k \in PageKeys
<1> DEFINE rows == {k \in RowKey : source[k] # NoRow /\ After(k)}
           below(k) == {j \in rows : j < k}
<1>1. NumKeys \in Nat /\ BatchSize \in Nat /\ RowKey = 1 .. NumKeys /\ RowKey \subseteq Nat
  BY SyncAssumption DEF RowKey
<1>2. IsFiniteSet(rows) /\ rows \subseteq Nat
  <2>1. IsFiniteSet(RowKey)
    BY <1>1, FS_Interval
  <2>2. QED
    BY <1>1, <2>1, FS_Subset
<1>3. PageKeys = {k \in rows : Cardinality(below(k)) < BatchSize}
  BY DEF PageKeys
<1>4. ASSUME NEW S, S \subseteq rows PROVE IsFiniteSet(S) /\ Cardinality(S) \in Nat
  BY <1>2, <1>4, FS_Subset, FS_CardinalityType
<1>5. ASSUME NEW S, NEW T, S \subseteq T, T \subseteq rows PROVE Cardinality(S) <= Cardinality(T)
  BY <1>4, <1>5, FS_Subset
<1>6. ASSUME NEW k \in rows, PageKeys # {}, k <= LastOf(PageKeys) PROVE k \in PageKeys
  <2>1. LastOf(PageKeys) \in rows /\ Cardinality(below(LastOf(PageKeys))) < BatchSize
    <3>1. PageKeys \in SUBSET RowKey
      BY <1>3
    <3>2. LastOf(PageKeys) \in PageKeys
      BY <1>6, <3>1, LastIs
    <3> HIDE DEF below, rows
    <3>3. QED
      BY <1>3, <3>2
  <2>2. below(k) \subseteq below(LastOf(PageKeys)) /\ below(LastOf(PageKeys)) \subseteq rows
    BY <1>2, <1>6, <2>1
  <2>3. Cardinality(below(k)) <= Cardinality(below(LastOf(PageKeys)))
    BY <1>5, <2>2
  <2>4. Cardinality(below(k)) \in Nat /\ Cardinality(below(LastOf(PageKeys))) \in Nat
    BY <1>4
  <2> HIDE DEF below, rows
  <2>5. Cardinality(below(k)) < BatchSize
    BY <1>1, <2>1, <2>3, <2>4
  <2>6. QED
    BY <1>3, <1>6, <2>5
<1>7. ASSUME IsLastPage(PageKeys) PROVE rows \subseteq PageKeys
  <2> DEFINE missed == rows \ PageKeys
  <2> SUFFICES ASSUME missed # {} PROVE FALSE
    OBVIOUS
  <2>1. missed \subseteq Nat
    BY <1>2
  <2>2. PICK k \in missed : \A j \in missed : k <= j
    BY <2>1, LeastNumber
  <2>3. below(k) \subseteq PageKeys /\ PageKeys \subseteq rows
    BY <1>2, <1>3, <2>2
  <2>4. Cardinality(below(k)) <= Cardinality(PageKeys)
    BY <1>5, <2>3
  <2>5. Cardinality(below(k)) \in Nat /\ Cardinality(PageKeys) \in Nat
    BY <1>4, <2>3
  <2>6. k \in rows /\ ~ (Cardinality(below(k)) < BatchSize)
    BY <1>3, <2>2
  <2>7. Cardinality(PageKeys) < BatchSize
    BY <1>7 DEF IsLastPage
  <2> HIDE DEF below, rows, missed
  <2>8. QED
    BY <1>1, <2>4, <2>5, <2>6, <2>7
<1>8. QED
  BY <1>3, <1>6, <1>7

-----------------------------------------------------------------------------
\* The copy, under the steps of the writers.

CopyInv == OnlyAwaited /\ StepWaits /\ Created /\ PagesTrue /\ SwapTrue

\* A row that is written is no longer one of those that did not change.
LEMMA WriteCopy ==
  ASSUME SyncInv, NEW w \in Writer, NEW keys \in SUBSET RowKey, NEW rows \in [keys -> Row], Write(w, rows)
  PROVE  CopyInv'
<1>1. SyncTypes /\ Counted /\ OnlyAwaited /\ StepWaits /\ Created /\ PagesTrue /\ SwapTrue
  BY DEF SyncInv
<1>2. /\ UNCHANGED <<index, ran, failures, queue, rebuild>> /\ writes' = writes + 1
      /\ source' = [k \in RowKey |-> IF k \in DOMAIN rows THEN rows[k] ELSE source[k]]
      /\ touched' = [k \in RowKey |-> IF k \in DOMAIN rows THEN writes' ELSE touched[k]]
  BY DEF Write, serverVars
<1>3. OnlyAwaited' /\ StepWaits' /\ Created'
  BY <1>1, <1>2 DEF OnlyAwaited, StepWaits, Created, Tolerable, DocumentsOf
<1>4. ASSUME NEW since \in Nat, since <= writes, NEW k \in RowKey, touched'[k] <= since
      PROVE  k \in Untouched(since) /\ source'[k] = source[k]
  <2>1. writes \in Nat
    BY <1>1 DEF SyncTypes
  <2>2. k \notin DOMAIN rows
    BY <1>2, <1>4, <2>1
  <2>3. QED
    BY <1>2, <1>4, <2>2 DEF Untouched
<1>5. DocumentsOf("copy")' = DocumentsOf("copy")
  BY <1>2 DEF DocumentsOf
<1>6. rebuild.since \in Nat /\ rebuild.since <= writes
  BY <1>1 DEF SyncTypes, Counted, RebuildRecord
<1>7. PagesTrue'
  <2> SUFFICES ASSUME rebuild.at \in {"pages", "previous", "last"}, NEW k \in RowKey,
                      touched'[k] <= rebuild.since
               PROVE  /\ \A i \in 1 .. Len(queue) : queue[i].on = "copy" /\ k \in DOMAIN queue[i].docs =>
                           Passed(k) /\ queue[i].docs[k] = Project(source'[k])
                      /\ Passed(k) =>
                           \/ DocumentsOf("copy")[k] = Project(source'[k])
                           \/ \E i \in 1 .. Len(queue) : queue[i].on = "copy" /\ k \in DOMAIN queue[i].docs
                           \/ \E f \in failures : f.uid \in {rebuild.uid, rebuild.pending} \ {0}
                      /\ ~ Passed(k) => DocumentsOf("copy")[k] = NoDocument
    BY <1>2, <1>5 DEF PagesTrue, Passed, Untouched
  <2>1. k \in Untouched(rebuild.since) /\ source'[k] = source[k]
    BY <1>4, <1>6
  <2>2. QED
    BY <1>1, <2>1 DEF PagesTrue
<1>8. ASSUME NEW since \in Nat, since <= writes, CopyHolds(since)
      PROVE  Holds(DocumentsOf("copy"), source', touched', since)
  BY <1>4, <1>8 DEF CopyHolds, Holds, Untouched
<1>9. SwapTrue'
  <2>1. ASSUME rebuild.at = "live" \/ (rebuild.at = "swap" /\ rebuild.uid = 0)
        PROVE  Holds(DocumentsOf("copy"), source', touched', rebuild.since)
    BY <1>1, <1>6, <1>8, <2>1 DEF SwapTrue, AboutToSwap, SwapsTrue
  <2>2. ASSUME NEW i \in 1 .. Len(queue), queue[i].kind = "swap"
        PROVE  /\ Holds(DocumentsOf("copy"), source', touched', queue[i].since)
               /\ \A j \in 1 .. i - 1 : ByWriter(queue[j])
    <3>1. queue[i] \in TaskRecord /\ SoundTask(queue[i], loads, writes)
      BY <1>1, TaskIn DEF SyncTypes, Counted
    <3>2. queue[i].since \in Nat /\ queue[i].since <= writes
      BY <3>1 DEF SoundTask, TaskRecord
    <3>3. CopyHolds(queue[i].since) /\ \A j \in 1 .. i - 1 : ByWriter(queue[j])
      BY <1>1, <2>2 DEF SwapTrue, AboutToSwap, SwapsTrue
    <3>4. QED
      BY <1>8, <3>2, <3>3
  <2>3. QED
    BY <1>2, <1>5, <2>1, <2>2 DEF SwapTrue, AboutToSwap, SwapsTrue, CopyHolds
<1>10. QED
  BY <1>3, <1>7, <1>9 DEF CopyInv

\* The swaps of the queue stay true, and one that is added is.
LEMMA SwapsStay ==
  ASSUME SyncInv, UNCHANGED <<source, touched>>, DocumentsOf("copy")' = DocumentsOf("copy"),
         \/ queue' = queue
         \/ \E t \in TaskRecord :
              /\ queue' = Append(queue, t)
              /\ t.kind = "swap" => CopyHolds(t.since) /\ \A j \in 1 .. Len(queue) : ByWriter(queue[j])
  PROVE  SwapsTrue'
<1>1. SyncTypes /\ SwapsTrue
  BY DEF SyncInv, SwapTrue
<1>2. CASE queue' = queue
  BY <1>1, <1>2 DEF SwapsTrue, CopyHolds
<1>3. ASSUME NEW t \in TaskRecord, queue' = Append(queue, t),
             t.kind = "swap" => CopyHolds(t.since) /\ \A j \in 1 .. Len(queue) : ByWriter(queue[j])
      PROVE  SwapsTrue'
  <2>1. /\ Len(queue) \in Nat /\ Len(queue') = Len(queue) + 1
        /\ queue'[Len(queue) + 1] = t /\ \A i \in 1 .. Len(queue) : queue'[i] = queue[i]
        /\ \A i \in 1 .. Len(queue') : i \in 1 .. Len(queue) \/ i = Len(queue) + 1
    BY <1>1, <1>3, EnqueuedTypes
  <2>2. ASSUME NEW i \in 1 .. Len(queue'), queue'[i].kind = "swap"
        PROVE  /\ Holds(DocumentsOf("copy"), source, touched, queue'[i].since)
               /\ \A j \in 1 .. i - 1 : ByWriter(queue'[j])
    <3>1. CASE i = Len(queue) + 1
      BY <1>3, <2>1, <2>2, <3>1 DEF CopyHolds
    <3>2. CASE i \in 1 .. Len(queue)
      <4>1. \A j \in 1 .. i - 1 : j \in 1 .. Len(queue)
        BY <2>1, <3>2
      <4>2. CopyHolds(queue[i].since) /\ \A j \in 1 .. i - 1 : ByWriter(queue[j])
        BY <1>1, <2>1, <2>2, <3>2 DEF SwapsTrue
      <4>3. QED
        BY <2>1, <3>2, <4>1, <4>2 DEF CopyHolds
    <3>3. QED
      BY <2>1, <3>1, <3>2
  <2>3. QED
    BY <2>2 DEF SwapsTrue, CopyHolds
<1>4. QED
  BY <1>2, <1>3

\* What writers enqueue is nothing to the copy.
LEMMA CopyStays ==
  ASSUME SyncInv, UNCHANGED <<source, touched, index, ran, failures, rebuild>>,
         queue' = queue \/ \E t \in TaskRecord : queue' = Append(queue, t) /\ ByWriter(t)
  PROVE  CopyInv'
<1>1. SyncTypes /\ Counted /\ OnlyAwaited /\ StepWaits /\ Created /\ PagesTrue /\ AboutToSwap
  BY DEF SyncInv, SwapTrue
<1>2. DocumentsOf("copy")' = DocumentsOf("copy")
  BY DEF DocumentsOf
<1>3. \A t : ByWriter(t) => t.kind # "swap" /\ t.on # "copy"
  BY DEF ByWriter
<1>4. SwapTrue'
  <2>1. SwapsTrue'
    BY <1>2, <1>3, SwapsStay
  <2>2. QED
    BY <1>1, <1>2, <2>1 DEF SwapTrue, AboutToSwap, CopyHolds
<1>5. StepWaits'
  BY <1>1 DEF StepWaits
<1>6. /\ Len(queue) \in Nat /\ Len(queue) <= Len(queue')
      /\ \A i \in 1 .. Len(queue) : i \in 1 .. Len(queue') /\ queue'[i] = queue[i]
      /\ \A i \in 1 .. Len(queue') : i \in 1 .. Len(queue) \/ ByWriter(queue'[i])
  <2>1. CASE queue' = queue
    BY <1>1, <2>1 DEF SyncTypes
  <2>2. ASSUME NEW t \in TaskRecord, queue' = Append(queue, t), ByWriter(t)
        PROVE  <1>6!1 /\ <1>6!2 /\ <1>6!3
    BY <1>1, <2>2, EnqueuedTypes
  <2>3. QED
    BY <2>1, <2>2
<1>7. OnlyAwaited'
  BY <1>1, <1>6 DEF OnlyAwaited
<1>8. Created'
  <2>1. ASSUME rebuild.at = "create", rebuild.uid > ran PROVE rebuild.uid - ran \in 1 .. Len(queue)
    <3>1. rebuild.uid \in Nat /\ ran \in Nat /\ rebuild.uid <= ran + Len(queue)
      BY <1>1 DEF SyncTypes, RebuildRecord, Counted
    <3>2. QED
      BY <1>6, <2>1, <3>1
  <2>2. QED
    BY <1>1, <1>2, <1>6, <2>1 DEF Created, Tolerable
<1>9. PagesTrue'
  <2>1. \A i \in 1 .. Len(queue') : queue'[i].on = "copy" => i \in 1 .. Len(queue)
    BY <1>3, <1>6
  <2>2. QED
    BY <1>1, <1>2, <1>6, <2>1 DEF PagesTrue, Passed, Untouched
<1>10. QED
  BY <1>4, <1>5, <1>7, <1>8, <1>9 DEF CopyInv

\* So are the steps of a hook.
LEMMA HookCopy ==
  ASSUME SyncInv, NEW w \in Writer, Load(w) \/ Request(w) \/ HookFails(w)
  PROVE  CopyInv'
<1> DEFINE t == RequestOf(w)
<1>1. /\ UNCHANGED <<source, touched, index, ran, failures, rebuild>>
      /\ queue' = queue \/ (writer[w].at \in {"upsert", "delete"} /\ queue' = Append(queue, t))
  BY DEF Load, Request, HookFails, Enqueue, serverVars, ghostVars, SyncInv, SyncTypes,
         WriterRecord
<1>2. writer[w].at \in {"upsert", "delete"} => t \in TaskRecord /\ ByWriter(t)
  BY RequestIsTask DEF SyncInv, ByWriter
<1> HIDE DEF t
<1>3. QED
  BY <1>1, <1>2, CopyStays

-----------------------------------------------------------------------------
\* The copy, under the tasks that run.

\* RowKey by key, after a task that neither drops an index nor swaps the two.
LEMMA CopyAfter ==
  ASSUME SyncInv, NEW task \in TaskRecord, SoundTask(task, loads, writes),
         task.kind \notin {"drop", "swap"}, Succeeds(task) \/ Refused(task) \/ Fails(task), NEW k \in RowKey
  PROVE  DocumentsOf("copy")'[k] =
           IF Succeeds(task) /\ task.on = "copy" /\ k \in DOMAIN task.docs THEN task.docs[k]
           ELSE DocumentsOf("copy")[k]
<1>1. CASE ~ Succeeds(task)
  BY <1>1 DEF Refused, Fails, DocumentsOf
<1>2. CASE Succeeds(task) /\ task.kind = "create"
  <2>1. DOMAIN task.docs = {}
    BY <1>2 DEF SoundTask
  <2>2. DocumentsOf("copy")' = DocumentsOf("copy")
    BY <1>2, EffectIs
  <2>3. QED
    BY <2>1, <2>2
<1>3. CASE Succeeds(task) /\ task.kind \in {"upsert", "delete", "settings"}
  <2>1. DocumentsOf("copy")' = IF "copy" = task.on THEN Overlay(task.docs, DocumentsOf("copy"))
                               ELSE DocumentsOf("copy")
    BY <1>3, EffectIs
  <2>2. Overlay(task.docs, DocumentsOf("copy"))[k] =
          IF k \in DOMAIN task.docs THEN task.docs[k] ELSE DocumentsOf("copy")[k]
    BY DEF Overlay
  <2>3. QED
    BY <1>3, <2>1, <2>2
<1>4. task.kind \in {"create", "drop", "delete", "swap", "settings", "upsert"}
  BY DEF TaskRecord
<1>5. QED
  BY <1>1, <1>2, <1>3, <1>4

\* One that has nothing for the copy leaves it as it is.
LEMMA CopyKept ==
  ASSUME SyncInv, SyncTypes', NEW task \in TaskRecord, SoundTask(task, loads, writes),
         task.kind \notin {"drop", "swap"}, Succeeds(task) \/ Refused(task) \/ Fails(task),
         task.on = "live" \/ DOMAIN task.docs = {}
  PROVE  DocumentsOf("copy")' = DocumentsOf("copy")
<1>1. \A k \in RowKey : DocumentsOf("copy")'[k] = DocumentsOf("copy")[k]
  BY CopyAfter
<1>2. DocumentsOf("copy") \in [RowKey -> Value] /\ DocumentsOf("copy")' \in [RowKey -> Value]
  <2>1. index["copy"] \in Index /\ index'["copy"] \in Index /\ Empty \in [RowKey -> Value]
    BY DEF SyncInv, SyncTypes, Empty, Value
  <2>2. QED
    BY <2>1 DEF DocumentsOf, Index
<1>3. QED
  BY <1>1, <1>2

\* A task of a rebuild that runs does for the copy what its step is for.
LEMMA RunTaskCopy == ASSUME SyncInv, RunTask PROVE CopyInv'
<1> DEFINE task == Head(queue)
<1>1. /\ queue # <<>> /\ task \in TaskRecord /\ SoundTask(task, loads, writes)
      /\ queue' = Tail(queue) /\ ran' = ran + 1
      /\ Succeeds(task) \/ Refused(task) \/ Fails(task)
      /\ UNCHANGED <<source, writer, rebuild, inclusive, loads, touched, writes, rebuilds>>
  BY TaskRuns
<1>2. /\ SyncTypes /\ Counted /\ OnlyAwaited /\ StepWaits /\ Created /\ PagesTrue /\ AboutToSwap
      /\ SwapsTrue /\ queue \in Seq(TaskRecord) /\ SyncTypes'
  BY RunTaskTypes DEF SyncInv, SyncTypes, SwapTrue
<1>3. /\ Len(queue) \in Nat /\ Len(queue') = Len(queue) - 1 /\ task = queue[1] /\ 1 \in 1 .. Len(queue)
      /\ \A i \in 1 .. Len(queue') : i + 1 \in 1 .. Len(queue) /\ queue'[i] = queue[i + 1]
  BY <1>1, <1>2, TaskTaken
<1>4. /\ ran \in Nat /\ rebuild.uid \in Nat /\ rebuild.pending \in Nat
      /\ rebuild.uid <= ran + Len(queue) /\ rebuild.pending <= ran + Len(queue)
      /\ \A f \in failures : f.uid \in Nat /\ f.uid <= ran
  BY <1>2 DEF SyncTypes, RebuildRecord, Counted
<1>5. /\ failures \subseteq failures'
      /\ ~ Succeeds(task) => \E f \in failures' : f.uid = ran + 1
  <2>1. failures \subseteq failures'
    BY <1>1, FailuresAfter
  <2>2. ASSUME ~ Succeeds(task) PROVE \E f \in failures' : f.uid = ran + 1
    <3>1. PICK e : failures' = failures \cup {[uid |-> ran + 1, error |-> e]}
      BY <1>1, <2>2 DEF Refused, Fails
    <3>2. [uid |-> ran + 1, error |-> e] \in failures'
      BY <3>1
    <3>3. QED
      BY <3>2
  <2>3. QED
    BY <2>1, <2>2
<1> HIDE DEF task
\* What is not of a writer is what the rebuild waits for.
<1>6.
      ASSUME ~ ByWriter(task), rebuild.at \in DOMAIN KindOf
      PROVE  /\ ran + 1 \in {rebuild.uid, rebuild.pending}
             /\ task.kind = KindOf[rebuild.at]
             /\ task.on = IF rebuild.at = "live" THEN "live" ELSE "copy"
  BY <1>2, <1>3, <1>6 DEF OnlyAwaited
<1>7. ByWriter(task) => DocumentsOf("copy")' = DocumentsOf("copy")
  BY <1>1, <1>2, CopyKept DEF ByWriter
<1>8. OnlyAwaited'
  <2> SUFFICES ASSUME NEW i \in 1 .. Len(queue'), ~ ByWriter(queue'[i])
               PROVE  /\ rebuild.at = "drop" /\ rebuild.uid # 0 => ran' + i <= rebuild.uid
                      /\ rebuild.at \in DOMAIN KindOf =>
                           /\ ran' + i \in {rebuild.uid, rebuild.pending}
                           /\ queue'[i].kind = KindOf[rebuild.at]
                           /\ queue'[i].on = IF rebuild.at = "live" THEN "live" ELSE "copy"
    BY <1>1 DEF OnlyAwaited
  <2>1. i + 1 \in 1 .. Len(queue) /\ queue'[i] = queue[i + 1] /\ ran' + i = ran + (i + 1)
    BY <1>1, <1>3, <1>4
  <2>2. QED
    BY <1>2, <2>1 DEF OnlyAwaited
<1>9. StepWaits'
  BY <1>1, <1>2, <1>4 DEF StepWaits
<1>10. Created'
  <2>1. ASSUME rebuild.at = "create", rebuild.uid > ran + 1
        PROVE  ~ ByWriter(queue'[rebuild.uid - (ran + 1)])
    <3>1. rebuild.uid - (ran + 1) \in 1 .. Len(queue') /\ (rebuild.uid - (ran + 1)) + 1 = rebuild.uid - ran
          /\ rebuild.uid > ran
      BY <1>3, <1>4, <2>1
    <3>2. QED
      BY <1>2, <1>3, <2>1, <3>1 DEF Created
  <2>2. ASSUME rebuild.at = "create", rebuild.uid \in 1 .. ran + 1,
               \A f \in failures' : f.uid = rebuild.uid => f.error \in {}
        PROVE  DocumentsOf("copy")' = Empty
    <3>1. rebuild.pending <= ran
      BY <1>2, <2>2, StepNames DEF StepWaits
    <3>2. CASE rebuild.uid <= ran
      <4>1. ByWriter(task)
        BY <1>4, <1>6, <2>2, <3>1, <3>2, StepNames
      <4>2. rebuild.uid \in 1 .. ran
        BY <1>4, <2>2, <3>2
      <4>3. Tolerable(rebuild.uid, {})
        BY <1>5, <2>2 DEF Tolerable
      <4>4. QED
        BY <1>2, <1>7, <2>2, <4>1, <4>2, <4>3 DEF Created
    <3>3. CASE rebuild.uid = ran + 1
      <4>1. rebuild.uid > ran /\ rebuild.uid - ran = 1
        BY <1>4, <3>3
      <4>2. ~ ByWriter(task)
        BY <1>2, <1>3, <2>2, <4>1 DEF Created
      <4>3. task.kind = "create" /\ task.on = "copy"
        BY <1>6, <2>2, <4>2, StepNames DEF KindOf
      <4>4. Succeeds(task)
        BY <1>5, <2>2, <3>3
      <4>5. QED
        BY <1>1, <4>3, <4>4, EffectIs
    <3>4. QED
      BY <1>4, <2>2, <3>2, <3>3
  <2>3. ASSUME rebuild.at = "settings" PROVE DocumentsOf("copy")' = Empty
    <3>1. CASE ByWriter(task)
      BY <1>2, <1>7, <2>3, <3>1 DEF Created
    <3>2. CASE ~ ByWriter(task)
      <4>1. task.kind = "settings"
        BY <1>6, <2>3, <3>2, StepNames DEF KindOf
      <4>2. DOMAIN task.docs = {}
        BY <1>1, <4>1 DEF SoundTask
      <4>3. DocumentsOf("copy")' = DocumentsOf("copy")
        BY <1>1, <1>2, <4>1, <4>2, CopyKept
      <4>4. QED
        BY <1>2, <2>3, <4>3 DEF Created
    <3>3. QED
      BY <3>1, <3>2
  <2>4. QED
    BY <1>1, <2>1, <2>2, <2>3 DEF Created, Tolerable
<1>11. PagesTrue'
  <2> SUFFICES ASSUME rebuild.at \in {"pages", "previous", "last"}, NEW k \in Untouched(rebuild.since)
               PROVE  /\ \A i \in 1 .. Len(queue') : queue'[i].on = "copy" /\ k \in DOMAIN queue'[i].docs =>
                           Passed(k) /\ queue'[i].docs[k] = Project(source[k])
                      /\ Passed(k) =>
                           \/ DocumentsOf("copy")'[k] = Project(source[k])
                           \/ \E i \in 1 .. Len(queue') : queue'[i].on = "copy" /\ k \in DOMAIN queue'[i].docs
                           \/ \E f \in failures' : f.uid \in {rebuild.uid, rebuild.pending} \ {0}
                      /\ ~ Passed(k) => DocumentsOf("copy")'[k] = NoDocument
    BY <1>1 DEF PagesTrue, Passed, Untouched
  <2>1. /\ \A i \in 1 .. Len(queue) : queue[i].on = "copy" /\ k \in DOMAIN queue[i].docs =>
              Passed(k) /\ queue[i].docs[k] = Project(source[k])
        /\ Passed(k) =>
             \/ DocumentsOf("copy")[k] = Project(source[k])
             \/ \E i \in 1 .. Len(queue) : queue[i].on = "copy" /\ k \in DOMAIN queue[i].docs
             \/ \E f \in failures : f.uid \in {rebuild.uid, rebuild.pending} \ {0}
        /\ ~ Passed(k) => DocumentsOf("copy")[k] = NoDocument
    BY <1>2 DEF PagesTrue
  <2>2. k \in RowKey
    BY DEF Untouched
  <2>3. task.kind \notin {"drop", "swap"}
    BY <1>6, StepNames DEF ByWriter, KindOf
  <2>4. DocumentsOf("copy")'[k] =
          IF Succeeds(task) /\ task.on = "copy" /\ k \in DOMAIN task.docs THEN task.docs[k]
          ELSE DocumentsOf("copy")[k]
    BY <1>1, <2>2, <2>3, CopyAfter
  <2>5. task.on = "copy" /\ k \in DOMAIN task.docs => Passed(k) /\ task.docs[k] = Project(source[k])
    BY <1>3, <2>1
  <2>6. ASSUME Passed(k)
        PROVE  \/ DocumentsOf("copy")'[k] = Project(source[k])
               \/ \E i \in 1 .. Len(queue') : queue'[i].on = "copy" /\ k \in DOMAIN queue'[i].docs
               \/ \E f \in failures' : f.uid \in {rebuild.uid, rebuild.pending} \ {0}
    <3>1. CASE DocumentsOf("copy")[k] = Project(source[k])
      BY <2>4, <2>5, <3>1
    <3>2. CASE \E f \in failures : f.uid \in {rebuild.uid, rebuild.pending} \ {0}
      BY <1>5, <3>2
    <3>3. ASSUME NEW i \in 1 .. Len(queue), queue[i].on = "copy", k \in DOMAIN queue[i].docs
          PROVE  <2>6!2
      <4>1. CASE i = 1
        <5>1. task.on = "copy" /\ k \in DOMAIN task.docs
          BY <1>3, <3>3, <4>1
        <5>2. CASE Succeeds(task)
          BY <2>4, <2>5, <5>1, <5>2
        <5>3. CASE ~ Succeeds(task)
          <6>1. ran + 1 \in {rebuild.uid, rebuild.pending} \ {0}
            BY <1>4, <1>6, <5>1, StepNames DEF ByWriter
          <6>2. QED
            BY <1>5, <5>3, <6>1
        <5>4. QED
          BY <5>2, <5>3
      <4>2. CASE i # 1
        <5>1. i - 1 \in 1 .. Len(queue') /\ (i - 1) + 1 = i
          BY <1>3, <4>2
        <5>2. queue'[i - 1] = queue[i]
          BY <1>3, <5>1
        <5>3. QED
          BY <3>3, <5>1, <5>2
      <4>3. QED
        BY <4>1, <4>2
    <3>4. QED
      BY <2>1, <2>6, <3>1, <3>2, <3>3
  <2>7. QED
    BY <1>3, <2>1, <2>4, <2>5, <2>6
<1>12. AboutToSwap'
  <2> SUFFICES ASSUME rebuild.at = "live" \/ (rebuild.at = "swap" /\ rebuild.uid = 0)
               PROVE  DocumentsOf("copy")' = DocumentsOf("copy")
    BY <1>1, <1>2 DEF AboutToSwap, CopyHolds
  <2>1. CASE ByWriter(task)
    BY <1>7, <2>1
  <2>2. CASE ~ ByWriter(task)
    <3>1. rebuild.pending <= ran
      BY <1>2, StepNames DEF StepWaits
    <3>2. rebuild.at = "live"
      BY <1>4, <1>6, <2>2, <3>1, StepNames
    <3>3. task.kind = "create" /\ task.on = "live"
      BY <1>6, <2>2, <3>2, StepNames DEF KindOf
    <3>4. QED
      BY <1>1, <1>2, <3>3, CopyKept
  <2>3. QED
    BY <2>1, <2>2
<1>13. SwapsTrue'
  <2> SUFFICES ASSUME NEW i \in 1 .. Len(queue'), queue'[i].kind = "swap"
               PROVE  /\ Holds(DocumentsOf("copy")', source, touched, queue'[i].since)
                      /\ \A j \in 1 .. i - 1 : ByWriter(queue'[j])
    BY <1>1 DEF SwapsTrue, CopyHolds
  <2>1. i + 1 \in 1 .. Len(queue) /\ queue'[i] = queue[i + 1]
    BY <1>3
  <2>2. CopyHolds(queue'[i].since) /\ \A j \in 1 .. i : ByWriter(queue[j])
    <3>1. CopyHolds(queue[i + 1].since) /\ \A j \in 1 .. (i + 1) - 1 : ByWriter(queue[j])
      BY <1>2, <2>1 DEF SwapsTrue
    <3>2. (i + 1) - 1 = i
      OBVIOUS
    <3>3. QED
      BY <2>1, <3>1, <3>2
  <2>3. ByWriter(task)
    BY <1>3, <2>2
  <2>4. \A j \in 1 .. i - 1 : j + 1 \in 1 .. i /\ j \in 1 .. Len(queue')
    BY <1>3
  <2>5. QED
    BY <1>3, <1>7, <2>2, <2>3, <2>4 DEF CopyHolds
<1>14. QED
  BY <1>8, <1>9, <1>10, <1>11, <1>12, <1>13 DEF CopyInv, SwapTrue

-----------------------------------------------------------------------------
\* The steps of a rebuild.

\* Types, counters and writers, of any of them.
LEMMA StepTypes ==
  ASSUME SyncInv,
         UNCHANGED <<source, index, ran, failures, writer, inclusive, loads, newest, doubt, crossed,
                     exposed, touched, writes>>,
         rebuilds' \in Nat, rebuild' \in RebuildRecord, rebuild'.since <= writes,
         rebuild'.uid <= ran + Len(queue'), rebuild'.pending <= ran + Len(queue'),
         \/ queue' = queue
         \/ \E t \in TaskRecord : /\ queue' = Append(queue, t) /\ SoundTask(t, loads, writes)
                                  /\ t.on = "copy" \/ DOMAIN t.docs = {}
  PROVE  SyncTypes' /\ Counted' /\ WritersTrue'
<1>1. SyncTypes /\ Counted
  BY DEF SyncInv
<1>2. queue' \in Seq(TaskRecord) /\ \A i \in 1 .. Len(queue') : SoundTask(queue'[i], loads, writes)
  <2>1. CASE queue' = queue
    BY <1>1, <2>1 DEF SyncTypes, Counted
  <2>2. ASSUME NEW t \in TaskRecord, queue' = Append(queue, t), SoundTask(t, loads, writes)
        PROVE  <1>2!1 /\ <1>2!2
    <3>1. loads \in Nat /\ loads <= loads'
      BY <1>1 DEF SyncTypes
    <3>2. SoundTask(t, loads', writes) /\ loads' \in Nat
      BY <2>2, <3>1
    <3>3. \A i \in 1 .. Len(queue') : SoundTask(queue'[i], loads', writes')
      BY <1>1, <2>2, <3>1, <3>2, EnqueuedCounted
    <3>4. QED
      BY <1>1, <2>2, <3>3, EnqueuedTypes
  <2>3. QED
    BY <2>1, <2>2
<1>3. SyncTypes'
  BY <1>1, <1>2 DEF SyncTypes
<1>4. Counted'
  BY <1>1, <1>2 DEF Counted
<1>5. WritersTrue'
  BY WritersStay
<1>6. QED
  BY <1>3, <1>4, <1>5

\* Once the task of a step ran, the queue holds tasks of writers only.
LEMMA NoneAwaited ==
  ASSUME SyncInv, rebuild.at \in Steps, rebuild.uid <= ran, rebuild.at = "drop" => rebuild.uid # 0
  PROVE  \A i \in 1 .. Len(queue) : ByWriter(queue[i])
<1> SUFFICES ASSUME NEW i \in 1 .. Len(queue), ~ ByWriter(queue[i]) PROVE FALSE
  OBVIOUS
<1>1. /\ ran \in Nat /\ rebuild.uid \in Nat /\ rebuild.pending \in Nat /\ i \in Nat /\ i >= 1
  BY DEF SyncInv, SyncTypes, RebuildRecord
<1>2. rebuild.pending <= ran
  BY DEF SyncInv, StepWaits
<1>3. CASE rebuild.at = "drop"
  <2>1. ran + i <= rebuild.uid
    BY <1>3 DEF SyncInv, OnlyAwaited
  <2>2. QED
    BY <1>1, <2>1
<1>4. CASE rebuild.at # "drop"
  <2>1. ran + i \in {rebuild.uid, rebuild.pending}
    BY <1>4, StepNames DEF SyncInv, OnlyAwaited
  <2>2. QED
    BY <1>1, <1>2, <2>1
<1>5. QED
  BY <1>3, <1>4

\* Outside its steps a rebuild promises nothing but the swaps it enqueued.
LEMMA OverCopy ==
  ASSUME SwapsTrue', rebuild'.at \in NotRunning \/ (rebuild'.at = "drop" /\ rebuild'.uid = 0 /\
                                                    rebuild'.pending <= ran' /\ rebuild'.after = 0)
  PROVE  CopyInv'
BY StepNames DEF NotRunning, CopyInv, OnlyAwaited, StepWaits, Created, PagesTrue, SwapTrue,
                 AboutToSwap

\* A rebuild starts over.
LEMMA StartRebuildInv == ASSUME SyncInv, StartRebuild PROVE SyncInv'
<1>1. SyncTypes /\ Counted /\ writes \in Nat /\ rebuilds \in Nat /\ ran \in Nat /\ Len(queue) \in Nat
  BY DEF SyncInv, SyncTypes
<1>2. /\ UNCHANGED <<source, index, ran, failures, queue, writer, inclusive, loads, newest, doubt, crossed, exposed,
                     touched, writes>>
      /\ rebuilds' = rebuilds + 1
      /\ rebuild' \in RebuildRecord /\ rebuild'.at = "drop" /\ rebuild'.since = writes
      /\ rebuild'.uid = 0 /\ rebuild'.pending = 0 /\ rebuild'.after = 0
  BY <1>1, StepNames DEF StartRebuild, Restful, RebuildRecord, serverVars, ghostVars
<1>3. SyncTypes' /\ Counted' /\ WritersTrue'
  <2>1. 0 <= ran + Len(queue) /\ rebuilds + 1 \in Nat /\ writes <= writes
    BY <1>1
  <2>2. rebuilds' \in Nat /\ rebuild'.since <= writes
    BY <1>2, <2>1
  <2>3. rebuild'.uid <= ran + Len(queue') /\ rebuild'.pending <= ran + Len(queue')
    BY <1>2, <2>1
  <2>4. QED
    BY <1>2, <2>2, <2>3, StepTypes
<1>4. SwapsTrue'
  BY <1>2, SwapsStay DEF DocumentsOf
<1>5. CopyInv'
  BY <1>1, <1>2, <1>4, OverCopy
<1>6. QED
  BY <1>3, <1>5 DEF SyncInv, CopyInv

\* A swap that is enqueued makes the documents of the rebuild live.
LEMMA StepSwap ==
  ASSUME SyncInv, rebuild.at \in Steps, rebuild.uid = 0, queue' = Append(queue, TaskOf(rebuild.at)),
         UNCHANGED <<source, touched, index>>
  PROVE  SwapsTrue'
<1> DEFINE t == TaskOf(rebuild.at)
<1>1. /\ t \in TaskRecord /\ (t.kind = "swap" <=> rebuild.at = "swap")
      /\ t.kind = "swap" => t.since = rebuild.since
  BY StepTask
<1> HIDE DEF t
<1>2. ASSUME t.kind = "swap" PROVE CopyHolds(t.since) /\ \A j \in 1 .. Len(queue) : ByWriter(queue[j])
  <2>1. CopyHolds(rebuild.since)
    BY <1>1, <1>2 DEF SyncInv, SwapTrue, AboutToSwap
  <2>2. rebuild.uid <= ran
    BY DEF SyncInv, SyncTypes
  <2>3. \A j \in 1 .. Len(queue) : ByWriter(queue[j])
    BY <1>1, <1>2, <2>2, NoneAwaited
  <2>4. QED
    BY <1>1, <1>2, <2>1, <2>3
<1>3. DocumentsOf("copy")' = DocumentsOf("copy")
  BY DEF DocumentsOf
<1>4. QED
  BY <1>1, <1>2, <1>3, SwapsStay DEF t

\* A step enqueues its task.
LEMMA RequestStepInv == ASSUME SyncInv, RequestStep PROVE SyncInv'
<1> DEFINE t == TaskOf(rebuild.at)
<1>1. /\ SyncTypes /\ Counted /\ rebuilds \in Nat /\ ran \in Nat /\ Len(queue) \in Nat
      /\ rebuild \in RebuildRecord /\ OnlyAwaited /\ StepWaits /\ Created /\ AboutToSwap
  BY DEF SyncInv, SyncTypes, SwapTrue
<1>2. rebuild.at \in Steps /\ rebuild.uid = 0
  BY DEF RequestStep
<1>3. /\ UNCHANGED <<source, index, ran, failures, writer, inclusive, loads, newest, doubt, crossed, exposed,
                     touched, writes, rebuilds>>
      /\ queue' = Append(queue, t)
  BY DEF RequestStep, Enqueue, serverVars, ghostVars
<1>4. /\ rebuild' \in RebuildRecord /\ rebuild'.uid = ran + Len(queue) + 1
      /\ rebuild'.at = rebuild.at /\ rebuild'.since = rebuild.since
      /\ rebuild'.pending = rebuild.pending /\ rebuild'.after = rebuild.after
      /\ rebuild.since \in Nat /\ rebuild.pending \in Nat /\ rebuild.at \in RebuildAt
  BY <1>1 DEF RequestStep, NextUid, RebuildRecord
<1>5. /\ t \in TaskRecord /\ SoundTask(t, loads, writes) /\ DOMAIN t.docs = {} /\ ~ ByWriter(t)
      /\ rebuild.at # "drop" => t.kind = KindOf[rebuild.at]
                                /\ t.on = IF rebuild.at = "live" THEN "live" ELSE "copy"
  BY <1>2, StepTask
<1>6. SwapsTrue'
  BY <1>2, <1>3, StepSwap
<1> HIDE DEF t
<1>7. /\ Len(queue') = Len(queue) + 1
      /\ queue'[Len(queue) + 1] = t /\ \A i \in 1 .. Len(queue) : queue'[i] = queue[i]
      /\ \A i \in 1 .. Len(queue') : i \in 1 .. Len(queue) \/ i = Len(queue) + 1
  BY <1>1, <1>3, <1>5, EnqueuedTypes
<1>8. SyncTypes' /\ Counted' /\ WritersTrue'
  <2>1. rebuild.since <= writes /\ rebuild.pending <= ran + Len(queue)
    BY <1>1 DEF Counted
  <2>2. /\ ran + Len(queue) + 1 <= ran + (Len(queue) + 1)
        /\ rebuild.pending <= ran + (Len(queue) + 1)
    BY <1>1, <1>4, <2>1
  <2>3. rebuild'.since <= writes /\ rebuilds' \in Nat
    BY <1>1, <1>3, <1>4, <2>1
  <2>4. rebuild'.uid <= ran + Len(queue') /\ rebuild'.pending <= ran + Len(queue')
    BY <1>4, <1>7, <2>2
  <2>5. QED
    BY <1>3, <1>4, <1>5, <2>3, <2>4, StepTypes
<1>9. ASSUME rebuild.at # "drop" PROVE \A i \in 1 .. Len(queue) : ByWriter(queue[i])
  <2>1. rebuild.uid <= ran
    BY <1>1, <1>2
  <2>2. QED
    BY <1>2, <1>9, <2>1, NoneAwaited
<1>10. OnlyAwaited'
  <2> SUFFICES ASSUME NEW i \in 1 .. Len(queue'), ~ ByWriter(queue'[i])
               PROVE  /\ rebuild.at = "drop" => ran + i <= rebuild'.uid
                      /\ rebuild.at \in DOMAIN KindOf =>
                           /\ ran + i \in {rebuild'.uid, rebuild'.pending}
                           /\ queue'[i].kind = KindOf[rebuild.at]
                           /\ queue'[i].on = IF rebuild.at = "live" THEN "live" ELSE "copy"
    BY <1>3, <1>4 DEF OnlyAwaited
  <2>1. i \in Nat /\ i <= Len(queue) + 1
    BY <1>1, <1>7
  <2>2. ran + i <= ran + Len(queue) + 1
    BY <1>1, <2>1
  <2>3. ASSUME rebuild.at \in DOMAIN KindOf PROVE i = Len(queue) + 1 /\ rebuild.at # "drop"
    BY <1>7, <1>9, <2>3, StepNames
  <2>4. ran + (Len(queue) + 1) = ran + Len(queue) + 1
    BY <1>1
  <2>5. QED
    BY <1>4, <1>5, <1>7, <2>2, <2>3, <2>4
<1>11. StepWaits'
  <2>1. rebuild.at \notin {"pages", "last"}
    BY <1>2, StepNames
  <2>2. QED
    BY <1>1, <1>3, <1>4, <2>1 DEF StepWaits
<1>12. Created'
  <2>1. rebuild'.uid - ran = Len(queue) + 1 /\ rebuild'.uid \notin 1 .. ran
    BY <1>1, <1>4
  <2>2. DocumentsOf("copy")' = DocumentsOf("copy")
    BY <1>3 DEF DocumentsOf
  <2>3. QED
    BY <1>1, <1>3, <1>4, <1>5, <1>7, <2>1, <2>2 DEF Created
<1>13. PagesTrue'
  BY <1>2, <1>4, StepNames DEF PagesTrue
<1>14. AboutToSwap'
  <2>1. rebuild'.uid # 0
    BY <1>1, <1>4
  <2>2. DocumentsOf("copy")' = DocumentsOf("copy")
    BY <1>3 DEF DocumentsOf
  <2>3. QED
    BY <1>1, <1>3, <1>4, <2>1, <2>2 DEF AboutToSwap, CopyHolds
<1>15. QED
  BY <1>6, <1>8, <1>10, <1>11, <1>12, <1>13, <1>14 DEF SyncInv, SwapTrue

\* The task of a step has run: nothing but tasks of writers is left in the queue.
LEMMA SettleStepInv == ASSUME SyncInv, SettleStep PROVE SyncInv'
<1>1. /\ SyncTypes /\ Counted /\ rebuilds \in Nat /\ ran \in Nat /\ Len(queue) \in Nat
      /\ rebuild \in RebuildRecord /\ StepWaits /\ Created /\ AboutToSwap
  BY DEF SyncInv, SyncTypes, SwapTrue
<1>2. /\ rebuild.at \in Steps /\ rebuild.uid # 0 /\ rebuild.uid <= ran
      /\ Tolerable(rebuild.uid, Tolerated(rebuild.at))
  BY DEF SettleStep, Settled, HasRun
<1>3. UNCHANGED <<source, index, ran, failures, queue, writer, inclusive, loads, newest, doubt, crossed, exposed,
                  touched, writes, rebuilds>>
  BY DEF SettleStep, serverVars, ghostVars
<1>4. NextStep[rebuild.at] \in RebuildAt
  BY <1>2, StepNames DEF NextStep
<1>5. /\ rebuild' \in RebuildRecord /\ rebuild'.uid = 0
      /\ rebuild'.at = NextStep[rebuild.at] /\ rebuild'.since = rebuild.since
      /\ rebuild'.pending = rebuild.pending /\ rebuild'.after = rebuild.after
      /\ rebuild.uid \in Nat
  BY <1>1, <1>4 DEF SettleStep, RebuildRecord
<1>6. SyncTypes' /\ Counted' /\ WritersTrue'
  <2>1. rebuild.since <= writes /\ rebuild.pending <= ran + Len(queue) /\ 0 <= ran + Len(queue)
    BY <1>1 DEF Counted
  <2>2. rebuild'.since <= writes /\ rebuilds' \in Nat
        /\ rebuild'.uid <= ran + Len(queue') /\ rebuild'.pending <= ran + Len(queue')
    BY <1>1, <1>3, <1>5, <2>1
  <2>3. QED
    BY <1>3, <1>5, <2>2, StepTypes
<1>7. \A i \in 1 .. Len(queue) : ByWriter(queue[i])
  BY <1>2, NoneAwaited
<1>8. DocumentsOf("copy")' = DocumentsOf("copy")
  BY <1>3 DEF DocumentsOf
<1>9. SwapsTrue'
  BY <1>3, <1>8, SwapsStay
<1>10. OnlyAwaited'
  BY <1>3, <1>7 DEF OnlyAwaited
\* What comes next.
<1>11. /\ rebuild'.at = "create" => rebuild.at = "drop"
       /\ rebuild'.at = "settings" => rebuild.at = "create"
       /\ rebuild'.at = "pages" => rebuild.at = "settings"
       /\ rebuild'.at = "swap" => rebuild.at = "live"
       /\ rebuild'.at \notin {"drop", "live", "previous", "last"}
  BY <1>2, <1>5, StepNames DEF NextStep
<1>12. StepWaits'
  <2>1. rebuild.pending <= ran
    BY <1>1, <1>2 DEF StepWaits
  <2>2. rebuild'.at \in {"create", "settings"} => rebuild.after = 0
    BY <1>1, <1>11 DEF StepWaits
  <2>3. QED
    BY <1>3, <1>5, <1>11, <2>1, <2>2 DEF StepWaits
<1>13. Created'
  <2>1. ASSUME rebuild.at = "create" PROVE DocumentsOf("copy") = Empty
    <3>1. Tolerable(rebuild.uid, {}) /\ rebuild.uid \in 1 .. ran
      BY <1>1, <1>2, <1>5, <2>1 DEF Tolerated
    <3>2. QED
      BY <1>1, <2>1, <3>1 DEF Created
  <2>2. ~ (0 > ran) /\ 0 \notin 1 .. ran
    BY <1>1
  <2>3. rebuild'.at = "settings" => DocumentsOf("copy")' = Empty
    BY <1>8, <1>11, <2>1
  <2>4. QED
    BY <1>3, <1>5, <2>2, <2>3 DEF Created
<1>14. PagesTrue'
  <2> SUFFICES ASSUME rebuild'.at = "pages", NEW k \in RowKey
               PROVE  ~ (k <= rebuild'.after) /\ DocumentsOf("copy")[k] = NoDocument
    BY <1>3, <1>7, <1>8, <1>11 DEF PagesTrue, Passed, Untouched, ByWriter
  <2>1. rebuild.after = 0 /\ DocumentsOf("copy") = Empty
    BY <1>1, <1>11 DEF StepWaits, Created
  <2>2. k \in Nat /\ 1 <= k
    BY SyncAssumption DEF RowKey
  <2>3. QED
    BY <1>5, <2>1, <2>2 DEF Empty
<1>15. AboutToSwap'
  BY <1>1, <1>3, <1>5, <1>8, <1>11 DEF AboutToSwap, CopyHolds
<1>16. QED
  BY <1>6, <1>9, <1>10, <1>12, <1>13, <1>14, <1>15 DEF SyncInv, SwapTrue

\* The page before the last one was applied.
LEMMA SettlePreviousInv == ASSUME SyncInv, SettlePrevious PROVE SyncInv'
<1>1. /\ SyncTypes /\ Counted /\ rebuilds \in Nat /\ ran \in Nat /\ Len(queue) \in Nat
      /\ rebuild \in RebuildRecord /\ OnlyAwaited /\ PagesTrue
  BY DEF SyncInv, SyncTypes
<1>2. rebuild.at = "previous" /\ rebuild.uid <= ran /\ Tolerable(rebuild.uid, {})
  BY DEF SettlePrevious, Settled, HasRun
<1>3. UNCHANGED <<source, index, ran, failures, queue, writer, inclusive, loads, newest, doubt, crossed, exposed,
                  touched, writes, rebuilds>>
  BY DEF SettlePrevious, serverVars, ghostVars
<1>4. /\ rebuild' \in RebuildRecord /\ rebuild'.uid = 0
      /\ rebuild'.at = IF rebuild.short THEN "last" ELSE "pages"
      /\ rebuild'.since = rebuild.since
      /\ rebuild'.pending = rebuild.pending /\ rebuild'.after = rebuild.after
      /\ rebuild.uid \in Nat
  BY <1>1, StepNames DEF SettlePrevious, RebuildRecord
<1>5. SyncTypes' /\ Counted' /\ WritersTrue'
  <2>1. rebuild.since <= writes /\ rebuild.pending <= ran + Len(queue) /\ 0 <= ran + Len(queue)
    BY <1>1 DEF Counted
  <2>2. rebuild'.since <= writes /\ rebuilds' \in Nat
        /\ rebuild'.uid <= ran + Len(queue') /\ rebuild'.pending <= ran + Len(queue')
    BY <1>1, <1>3, <1>4, <2>1
  <2>3. QED
    BY <1>3, <1>4, <2>2, StepTypes
<1>6. DocumentsOf("copy")' = DocumentsOf("copy")
  BY <1>3 DEF DocumentsOf
<1>7. SwapsTrue'
  BY <1>3, <1>6, SwapsStay
<1>8. rebuild'.at \in {"pages", "last"} /\ rebuild'.at \notin Steps
  BY <1>4, StepNames
<1>9. OnlyAwaited'
  <2> SUFFICES ASSUME NEW i \in 1 .. Len(queue), ~ ByWriter(queue[i])
               PROVE  /\ ran + i \in {rebuild'.uid, rebuild'.pending}
                      /\ queue[i].kind = KindOf[rebuild'.at] /\ queue[i].on = "copy"
    BY <1>3, <1>8 DEF OnlyAwaited
  <2>1. /\ ran + i \in {rebuild.uid, rebuild.pending}
        /\ queue[i].kind = KindOf["previous"] /\ queue[i].on = "copy"
    BY <1>1, <1>2, StepNames DEF OnlyAwaited
  <2>2. ran + i # rebuild.uid
    BY <1>1, <1>2, <1>4
  <2>3. QED
    BY <1>4, <1>8, <2>1, <2>2 DEF KindOf
<1>10. StepWaits' /\ Created' /\ AboutToSwap'
  BY <1>4, <1>8, StepNames DEF StepWaits, Created, AboutToSwap
<1>11. PagesTrue'
  <2>1. \A k \in RowKey : Passed(k)' <=> Passed(k)
    BY <1>2, <1>4, <1>8 DEF Passed
  <2>2. ASSUME NEW f \in failures, f.uid \in {rebuild.uid, rebuild.pending} \ {0}
        PROVE  f.uid \in {rebuild'.uid, rebuild'.pending} \ {0}
    BY <1>2, <1>4, <2>2 DEF Tolerable
  <2> SUFFICES ASSUME NEW k \in Untouched(rebuild.since)
               PROVE  /\ \A i \in 1 .. Len(queue) : queue[i].on = "copy" /\ k \in DOMAIN queue[i].docs =>
                           Passed(k) /\ queue[i].docs[k] = Project(source[k])
                      /\ Passed(k) =>
                           \/ DocumentsOf("copy")[k] = Project(source[k])
                           \/ \E i \in 1 .. Len(queue) : queue[i].on = "copy" /\ k \in DOMAIN queue[i].docs
                           \/ \E f \in failures : f.uid \in {rebuild'.uid, rebuild'.pending} \ {0}
                      /\ ~ Passed(k) => DocumentsOf("copy")[k] = NoDocument
    BY <1>3, <1>4, <1>6, <2>1 DEF PagesTrue, Untouched
  <2>3. QED
    BY <1>1, <1>2, <2>2 DEF PagesTrue
<1>12. QED
  BY <1>5, <1>7, <1>9, <1>10, <1>11 DEF SyncInv, SwapTrue

\* All pages were read and all their documents were applied.
LEMMA SettleLastInv == ASSUME SyncInv, SettleLast PROVE SyncInv'
<1>1. /\ SyncTypes /\ Counted /\ rebuilds \in Nat /\ ran \in Nat /\ Len(queue) \in Nat
      /\ rebuild \in RebuildRecord /\ OnlyAwaited /\ PagesTrue /\ rebuild.pending \in Nat
  BY DEF SyncInv, SyncTypes, RebuildRecord
<1>2. /\ rebuild.at = "last" /\ rebuild.uid = 0
      /\ rebuild.pending # 0 => rebuild.pending <= ran /\ Tolerable(rebuild.pending, {})
  BY DEF SettleLast, Settled, HasRun, SyncInv, StepWaits
<1>3. UNCHANGED <<source, index, ran, failures, queue, writer, inclusive, loads, newest, doubt, crossed, exposed,
                  touched, writes, rebuilds>>
  BY DEF SettleLast, serverVars, ghostVars
<1>4. /\ rebuild' \in RebuildRecord /\ rebuild'.at = "live" /\ rebuild'.since = rebuild.since
      /\ rebuild'.uid = rebuild.uid /\ rebuild'.pending = rebuild.pending
  BY <1>1, StepNames DEF SettleLast, RebuildRecord
<1>5. SyncTypes' /\ Counted' /\ WritersTrue'
  <2>1. rebuild.since <= writes /\ rebuild.pending <= ran + Len(queue) /\ rebuild.uid <= ran + Len(queue)
    BY <1>1 DEF Counted
  <2>2. rebuild'.since <= writes /\ rebuilds' \in Nat
        /\ rebuild'.uid <= ran + Len(queue') /\ rebuild'.pending <= ran + Len(queue')
    BY <1>1, <1>3, <1>4, <2>1
  <2>3. QED
    BY <1>3, <1>4, <2>2, StepTypes
<1>6. DocumentsOf("copy")' = DocumentsOf("copy")
  BY <1>3 DEF DocumentsOf
<1>7. SwapsTrue'
  BY <1>3, <1>6, SwapsStay
<1>8. rebuild.pending <= ran
  BY <1>1, <1>2
<1>9. ASSUME NEW i \in 1 .. Len(queue) PROVE ByWriter(queue[i])
  <2>1. ran + i \notin {rebuild.uid, rebuild.pending}
    BY <1>1, <1>2, <1>8
  <2>2. QED
    BY <1>1, <1>2, <2>1, StepNames DEF OnlyAwaited
<1>10. OnlyAwaited' /\ StepWaits' /\ Created' /\ PagesTrue'
  BY <1>3, <1>4, <1>8, <1>9 DEF OnlyAwaited, StepWaits, Created, PagesTrue
<1>11. AboutToSwap'
  <2> SUFFICES ASSUME NEW k \in RowKey, touched[k] <= rebuild.since
               PROVE  DocumentsOf("copy")[k] = Project(source[k])
    BY <1>3, <1>4, <1>6 DEF AboutToSwap, CopyHolds, Holds
  <2>1. k \in Untouched(rebuild.since) /\ Passed(k)
    BY <1>2 DEF Untouched, Passed
  <2>2. \/ DocumentsOf("copy")[k] = Project(source[k])
        \/ \E i \in 1 .. Len(queue) : queue[i].on = "copy" /\ k \in DOMAIN queue[i].docs
        \/ \E f \in failures : f.uid \in {rebuild.uid, rebuild.pending} \ {0}
    BY <1>1, <1>2, <2>1 DEF PagesTrue
  <2>3. ~ \E i \in 1 .. Len(queue) : queue[i].on = "copy"
    BY <1>9 DEF ByWriter
  <2>4. ~ \E f \in failures : f.uid \in {rebuild.uid, rebuild.pending} \ {0}
    BY <1>2 DEF Tolerable
  <2>5. QED
    BY <2>2, <2>3, <2>4
<1>12. QED
  BY <1>5, <1>7, <1>10, <1>11 DEF SyncInv, SwapTrue

\* A rebuild fails, with its request enqueued or not.
LEMMA RebuildFailsInv == ASSUME SyncInv, TaskFailed \/ RebuildFails PROVE SyncInv'
<1> DEFINE t == TaskOf(rebuild.at)
<1>1. /\ SyncTypes /\ Counted /\ rebuilds \in Nat /\ ran \in Nat /\ Len(queue) \in Nat
      /\ rebuild \in RebuildRecord
  BY DEF SyncInv, SyncTypes
<1>2. /\ UNCHANGED <<source, index, ran, failures, writer, inclusive, loads, newest, doubt, crossed, exposed,
                     touched, writes, rebuilds>>
      /\ queue' = queue \/ (rebuild.at \in Steps /\ rebuild.uid = 0 /\ queue' = Append(queue, t))
  BY DEF TaskFailed, RebuildFails, Enqueue, serverVars, ghostVars
<1>3. /\ rebuild' \in RebuildRecord /\ rebuild'.at = "failed" /\ rebuild'.since = rebuild.since
      /\ rebuild'.uid = rebuild.uid /\ rebuild'.pending = rebuild.pending
      /\ rebuild.uid \in Nat /\ rebuild.pending \in Nat
  BY <1>1, StepNames DEF TaskFailed, RebuildFails, RebuildRecord
<1>4. rebuild.at \in Steps => t \in TaskRecord /\ SoundTask(t, loads, writes) /\ DOMAIN t.docs = {}
  BY StepTask
<1>5. SwapsTrue'
  <2>1. CASE queue' = queue
    BY <1>2, <2>1, SwapsStay DEF DocumentsOf
  <2>2. CASE rebuild.at \in Steps /\ rebuild.uid = 0 /\ queue' = Append(queue, t)
    BY <1>2, <2>2, StepSwap
  <2>3. QED
    BY <1>2, <2>1, <2>2
<1> HIDE DEF t
<1>6. Len(queue') \in Nat /\ Len(queue) <= Len(queue')
  <2>1. CASE queue' = queue
    BY <1>1, <2>1
  <2>2. CASE rebuild.at \in Steps /\ queue' = Append(queue, t)
    <3>1. Len(queue') = Len(queue) + 1
      BY <1>1, <1>4, <2>2, EnqueuedTypes
    <3>2. QED
      BY <1>1, <3>1
  <2>3. QED
    BY <1>2, <2>1, <2>2
<1>7. SyncTypes' /\ Counted' /\ WritersTrue'
  <2>1. rebuild.since <= writes /\ rebuild.pending <= ran + Len(queue) /\ rebuild.uid <= ran + Len(queue)
    BY <1>1 DEF Counted
  <2>2. rebuild.uid <= ran + Len(queue') /\ rebuild.pending <= ran + Len(queue')
    BY <1>1, <1>3, <1>6, <2>1
  <2>3. rebuild'.since <= writes /\ rebuilds' \in Nat
        /\ rebuild'.uid <= ran + Len(queue') /\ rebuild'.pending <= ran + Len(queue')
    BY <1>1, <1>2, <1>3, <2>1, <2>2
  <2>4. \/ queue' = queue
        \/ \E u \in TaskRecord : /\ queue' = Append(queue, u) /\ SoundTask(u, loads, writes)
                                 /\ u.on = "copy" \/ DOMAIN u.docs = {}
    BY <1>2, <1>4
  <2>5. QED
    BY <1>2, <1>3, <2>3, <2>4, StepTypes
<1>8. CopyInv'
  <2>1. rebuild'.at \in NotRunning
    BY <1>3 DEF NotRunning
  <2>2. QED
    BY <1>5, <2>1, OverCopy
<1>9. QED
  BY <1>7, <1>8 DEF SyncInv, CopyInv

\* How the copy relates to the pages read, when one more page is.
LEMMA PagesStay ==
  ASSUME SyncInv, rebuild.at = "pages", rebuild'.at \in {"pages", "previous", "last"},
         UNCHANGED <<source, touched, index, failures>>, rebuild'.since = rebuild.since,
         {rebuild.uid, rebuild.pending} \ {0} \subseteq {rebuild'.uid, rebuild'.pending},
         NEW batch,
         \/ queue' = queue /\ DOMAIN batch = {}
         \/ /\ Len(queue) \in Nat /\ Len(queue') = Len(queue) + 1
            /\ \A i \in 1 .. Len(queue) : queue'[i] = queue[i]
            /\ queue'[Len(queue) + 1].on = "copy" /\ queue'[Len(queue) + 1].docs = batch,
         \A k \in DOMAIN batch : Passed(k)' /\ batch[k] = Project(source[k]),
         \A k \in RowKey : /\ Passed(k) => Passed(k)'
                           /\ Passed(k)' /\ ~ Passed(k) =>
                                k \in DOMAIN batch \/ Project(source[k]) = NoDocument
  PROVE  PagesTrue'
<1>1. \A k \in Untouched(rebuild.since) :
        /\ \A i \in 1 .. Len(queue) : queue[i].on = "copy" /\ k \in DOMAIN queue[i].docs =>
             Passed(k) /\ queue[i].docs[k] = Project(source[k])
        /\ Passed(k) =>
             \/ DocumentsOf("copy")[k] = Project(source[k])
             \/ \E i \in 1 .. Len(queue) : queue[i].on = "copy" /\ k \in DOMAIN queue[i].docs
             \/ \E f \in failures : f.uid \in {rebuild.uid, rebuild.pending} \ {0}
        /\ ~ Passed(k) => DocumentsOf("copy")[k] = NoDocument
  BY DEF SyncInv, PagesTrue
<1>2. DocumentsOf("copy")' = DocumentsOf("copy")
  BY DEF DocumentsOf
\* The documents for a key are those of before, and of the page.
<1>3. /\ \A i \in 1 .. Len(queue') : \/ i \in 1 .. Len(queue) /\ queue'[i] = queue[i]
                                     \/ queue'[i].on = "copy" /\ queue'[i].docs = batch
      /\ \A i \in 1 .. Len(queue) : i \in 1 .. Len(queue') /\ queue'[i] = queue[i]
      /\ DOMAIN batch # {} => \E i \in 1 .. Len(queue') : queue'[i].on = "copy" /\ queue'[i].docs = batch
  <2>1. CASE queue' = queue /\ DOMAIN batch = {}
    BY <2>1
  <2>2. CASE /\ Len(queue) \in Nat /\ Len(queue') = Len(queue) + 1
             /\ \A i \in 1 .. Len(queue) : queue'[i] = queue[i]
             /\ queue'[Len(queue) + 1].on = "copy" /\ queue'[Len(queue) + 1].docs = batch
    <3>1. /\ \A i \in 1 .. Len(queue') : i \in 1 .. Len(queue) \/ i = Len(queue) + 1
          /\ Len(queue) + 1 \in 1 .. Len(queue')
          /\ \A i \in 1 .. Len(queue) : i \in 1 .. Len(queue')
      BY <2>2
    <3>2. QED
      BY <2>2, <3>1
  <2>3. QED
    BY <2>1, <2>2
<1> SUFFICES ASSUME NEW k \in Untouched(rebuild.since)
             PROVE  /\ \A i \in 1 .. Len(queue') : queue'[i].on = "copy" /\ k \in DOMAIN queue'[i].docs =>
                         Passed(k)' /\ queue'[i].docs[k] = Project(source[k])
                    /\ Passed(k)' =>
                         \/ DocumentsOf("copy")[k] = Project(source[k])
                         \/ \E i \in 1 .. Len(queue') : queue'[i].on = "copy" /\ k \in DOMAIN queue'[i].docs
                         \/ \E f \in failures : f.uid \in {rebuild'.uid, rebuild'.pending} \ {0}
                    /\ ~ Passed(k)' => DocumentsOf("copy")[k] = NoDocument
  BY <1>2 DEF PagesTrue, Untouched
<1>4. k \in RowKey
  BY DEF Untouched
<1>5. ASSUME NEW i \in 1 .. Len(queue'), queue'[i].on = "copy", k \in DOMAIN queue'[i].docs
      PROVE  Passed(k)' /\ queue'[i].docs[k] = Project(source[k])
  <2>1. CASE i \in 1 .. Len(queue) /\ queue'[i] = queue[i]
    BY <1>1, <1>4, <1>5, <2>1
  <2>2. CASE queue'[i].docs = batch
    BY <1>5, <2>2
  <2>3. QED
    BY <1>3, <2>1, <2>2
<1>6. ASSUME Passed(k)'
      PROVE  \/ DocumentsOf("copy")[k] = Project(source[k])
             \/ \E i \in 1 .. Len(queue') : queue'[i].on = "copy" /\ k \in DOMAIN queue'[i].docs
             \/ \E f \in failures : f.uid \in {rebuild'.uid, rebuild'.pending} \ {0}
  <2>1. CASE Passed(k)
    <3>1. CASE \E f \in failures : f.uid \in {rebuild.uid, rebuild.pending} \ {0}
      BY <3>1
    <3>2. ASSUME NEW i \in 1 .. Len(queue), queue[i].on = "copy", k \in DOMAIN queue[i].docs
          PROVE  \E j \in 1 .. Len(queue') : queue'[j].on = "copy" /\ k \in DOMAIN queue'[j].docs
      BY <1>3, <3>2
    <3>3. QED
      BY <1>1, <2>1, <3>1, <3>2
  <2>2. CASE ~ Passed(k)
    <3>1. CASE k \in DOMAIN batch
      BY <1>3, <3>1
    <3>2. CASE Project(source[k]) = NoDocument
      BY <1>1, <2>2, <3>2
    <3>3. QED
      BY <1>4, <1>6, <2>2, <3>1, <3>2
  <2>3. QED
    BY <2>1, <2>2
<1>7. ~ Passed(k)' => DocumentsOf("copy")[k] = NoDocument
  BY <1>1, <1>4
<1>8. QED
  BY <1>5, <1>6, <1>7

\* A page is read, the last or not, with documents or without.
LEMMA ReadPageInv == ASSUME SyncInv, ReadPage PROVE SyncInv'
<1> DEFINE keys == PageKeys
           batch == [k \in {k \in keys : Project(source[k]) # NoDocument} |-> Project(source[k])]
           short == IsLastPage(keys)
           t == Task("upsert", "copy", batch, 0)
<1>1. /\ SyncTypes /\ Counted /\ rebuilds \in Nat /\ ran \in Nat /\ Len(queue) \in Nat
      /\ rebuild \in RebuildRecord /\ OnlyAwaited /\ PagesTrue /\ source \in [RowKey -> Row]
      /\ rebuild.pending \in Nat /\ rebuild.since \in Nat /\ rebuild.after \in Nat /\ writes \in Nat
  BY DEF SyncInv, SyncTypes, RebuildRecord
<1>2. rebuild.at = "pages" /\ rebuild.uid = 0
  BY DEF ReadPage, SyncInv, StepWaits
<1>3. UNCHANGED <<source, index, ran, failures, writer, inclusive, loads, newest, doubt, crossed, exposed,
                  touched, writes, rebuilds>>
  BY DEF ReadPage, serverVars, ghostVars
<1>4. DocumentsOf("copy")' = DocumentsOf("copy")
  BY <1>3 DEF DocumentsOf
<1>5. /\ keys \in SUBSET RowKey /\ short \in BOOLEAN
      /\ \A k \in keys : source[k] # NoRow /\ After(k)
      /\ \A k \in RowKey : source[k] # NoRow /\ After(k) /\ ((keys # {} /\ k <= LastOf(keys)) \/ short)
           => k \in keys
  BY <1>1, PageIs DEF IsLastPage
<1>6. keys # {} => /\ LastOf(keys) \in RowKey /\ LastOf(keys) \in Nat /\ rebuild.after <= LastOf(keys)
                   /\ \A k \in keys : k <= LastOf(keys)
  <2> SUFFICES ASSUME keys # {} PROVE <1>6!2
    OBVIOUS
  <2>1. LastOf(keys) \in keys /\ \A k \in keys : k <= LastOf(keys)
    BY <1>5, LastIs
  <2>2. LastOf(keys) \in RowKey /\ LastOf(keys) \in Nat
    <3>1. RowKey \subseteq Nat
      BY SyncAssumption DEF RowKey
    <3>2. LastOf(keys) \in RowKey
      BY <1>5, <2>1
    <3>3. QED
      BY <3>1, <3>2
  <2>3. rebuild.after <= LastOf(keys)
    <3>1. After(LastOf(keys))
      BY <1>5, <2>1
    <3> HIDE DEF keys
    <3>2. LastOf(keys) > rebuild.after \/ LastOf(keys) = rebuild.after
      BY <3>1 DEF After
    <3>3. QED
      BY <1>1, <2>2, <3>2
  <2>4. QED
    BY <2>1, <2>2, <2>3
<1>7. /\ DOMAIN batch \subseteq keys /\ \A k \in DOMAIN batch : batch[k] = Project(source[k])
      /\ \A k \in keys : k \in DOMAIN batch \/ Project(source[k]) = NoDocument
  OBVIOUS
<1>8. t \in TaskRecord /\ SoundTask(t, loads, writes) /\ t.kind = "upsert" /\ t.on = "copy" /\ t.docs = batch
  <2>1. \A k \in DOMAIN batch : Project(source[k]) \in Value
    BY <1>1, <1>5, <1>7, ProjectIs
  <2>2. batch \in [DOMAIN batch -> Value] /\ DOMAIN batch \subseteq RowKey
    BY <1>5, <1>7, <2>1
  <2>3. batch \in Docs
    BY <2>2, DocsOver
  <2> HIDE DEF batch
  <2>4. QED
    BY <1>1, <2>3 DEF Task, TaskRecord, SoundTask
\* The ways in which a page is read.
<1>9. \/ /\ keys = {} /\ queue' = queue
         /\ rebuild' = [rebuild EXCEPT !.at = "last"]
      \/ /\ queue' = queue /\ rebuild' = [rebuild EXCEPT !.at = "failed"]
      \/ /\ keys # {} /\ DOMAIN batch = {} /\ queue' = queue
         /\ rebuild' = [rebuild EXCEPT !.at = IF short THEN "last" ELSE "pages", !.after = LastOf(keys)]
      \/ /\ keys # {} /\ DOMAIN batch # {} /\ queue' = Append(queue, t)
         /\ rebuild' = [rebuild EXCEPT
                          !.at = IF rebuild.pending = 0 THEN IF short THEN "last" ELSE "pages" ELSE "previous",
                          !.uid = rebuild.pending, !.pending = NextUid,
                          !.after = LastOf(keys), !.short = short]
  BY DEF ReadPage, Enqueue
<1>10. keys = {} => short
  BY SyncAssumption, FS_EmptySet DEF IsLastPage
<1> HIDE DEF keys, batch, short, t
\* Rows that the pages pass over.
<1>11. ASSUME NEW k \in RowKey, k > rebuild.after, (keys # {} /\ k <= LastOf(keys)) \/ short
       PROVE  k \in DOMAIN batch \/ Project(source[k]) = NoDocument
  <2>1. After(k)
    BY <1>11 DEF After
  <2>2. source[k] = NoRow => Project(source[k]) = NoDocument
    BY <1>1, ProjectIs
  <2>3. source[k] # NoRow => k \in keys
    BY <1>5, <1>11, <2>1
  <2>4. QED
    BY <1>7, <2>2, <2>3
<1>12. RowKey \subseteq Nat
  BY SyncAssumption DEF RowKey
<1>13. rebuild.since <= writes /\ rebuild.pending <= ran + Len(queue) /\ 0 <= ran + Len(queue)
  BY <1>1 DEF Counted
<1>14. rebuild.at \notin Steps /\ {"pages", "previous", "last"} \cap Steps = {}
       /\ {"pages", "previous", "last", "failed"} \subseteq RebuildAt
  BY <1>2, StepNames
<1>15. CASE queue' = queue /\ rebuild' = [rebuild EXCEPT !.at = "failed"]
  <2>1. /\ rebuild' \in RebuildRecord /\ rebuild'.at = "failed" /\ rebuild'.since = rebuild.since
        /\ rebuild'.uid = rebuild.uid /\ rebuild'.pending = rebuild.pending
    BY <1>1, <1>14, <1>15 DEF RebuildRecord
  <2>2. SyncTypes' /\ Counted' /\ WritersTrue'
    <3>1. rebuild'.since <= writes /\ rebuilds' \in Nat
          /\ rebuild'.uid <= ran + Len(queue') /\ rebuild'.pending <= ran + Len(queue')
      BY <1>1, <1>2, <1>3, <1>13, <1>15, <2>1
    <3>2. QED
      BY <1>3, <1>15, <2>1, <3>1, StepTypes
  <2>3. SwapsTrue'
    BY <1>3, <1>4, <1>15, SwapsStay
  <2>4. CopyInv'
    BY <2>1, <2>3, OverCopy DEF NotRunning
  <2>5. QED
    BY <2>2, <2>4 DEF SyncInv, CopyInv
<1>16. CASE queue' = queue /\ rebuild' # [rebuild EXCEPT !.at = "failed"]
  <2>1. /\ rebuild' \in RebuildRecord /\ rebuild'.at \in {"pages", "last"} /\ rebuild'.since = rebuild.since
        /\ rebuild'.uid = 0 /\ rebuild'.pending = rebuild.pending
    <3>1. CASE rebuild' = [rebuild EXCEPT !.at = "last"]
      BY <1>1, <1>2, <1>14, <3>1 DEF RebuildRecord
    <3>2. CASE keys # {} /\ rebuild' = [rebuild EXCEPT !.at = IF short THEN "last" ELSE "pages", !.after = LastOf(keys)]
      BY <1>1, <1>2, <1>6, <1>14, <3>2 DEF RebuildRecord
    <3>3. CASE DOMAIN batch # {} /\ queue' = Append(queue, t)
      <4>1. Len(queue') = Len(queue) + 1
        BY <1>1, <1>8, <3>3, EnqueuedTypes
      <4>2. QED
        BY <1>1, <1>16, <4>1
    <3>4. QED
      BY <1>9, <1>16, <3>1, <3>2, <3>3
  <2>2. \/ keys = {} /\ rebuild'.after = rebuild.after /\ rebuild'.at = "last"
        \/ /\ keys # {} /\ DOMAIN batch = {} /\ rebuild'.after = LastOf(keys)
           /\ rebuild'.at = IF short THEN "last" ELSE "pages"
    <3>1. CASE keys = {} /\ rebuild' = [rebuild EXCEPT !.at = "last"]
      BY <1>1, <3>1 DEF RebuildRecord
    <3>2. CASE keys # {} /\ DOMAIN batch = {}
               /\ rebuild' = [rebuild EXCEPT !.at = IF short THEN "last" ELSE "pages", !.after = LastOf(keys)]
      BY <1>1, <3>2 DEF RebuildRecord
    <3>3. CASE DOMAIN batch # {} /\ queue' = Append(queue, t)
      <4>1. Len(queue') = Len(queue) + 1
        BY <1>1, <1>8, <3>3, EnqueuedTypes
      <4>2. QED
        BY <1>1, <1>16, <4>1
    <3>4. QED
      BY <1>9, <1>16, <3>1, <3>2, <3>3
  <2>3. SyncTypes' /\ Counted' /\ WritersTrue'
    <3>1. rebuild'.since <= writes /\ rebuilds' \in Nat
          /\ rebuild'.uid <= ran + Len(queue') /\ rebuild'.pending <= ran + Len(queue')
      BY <1>1, <1>3, <1>13, <1>16, <2>1
    <3>2. QED
      BY <1>3, <1>16, <2>1, <3>1, StepTypes
  <2>4. SwapsTrue'
    BY <1>3, <1>4, <1>16, SwapsStay
  <2>5. OnlyAwaited'
    <3>1. \A i \in 1 .. Len(queue) : ~ ByWriter(queue[i]) =>
            /\ ran + i \in {rebuild.uid, rebuild.pending}
            /\ queue[i].kind = "upsert" /\ queue[i].on = "copy"
      BY <1>1, <1>2, StepNames DEF OnlyAwaited, KindOf
    <3>2. QED
      BY <1>2, <1>3, <1>16, <2>1, <3>1 DEF OnlyAwaited, KindOf
  <2>6. StepWaits' /\ Created' /\ AboutToSwap'
    BY <1>14, <2>1, StepNames DEF StepWaits, Created, AboutToSwap
  <2>7. PagesTrue'
    <3>1. DOMAIN batch = {}
      BY <1>7, <2>2
    <3>2. ASSUME NEW k \in RowKey
          PROVE  /\ Passed(k) => Passed(k)'
                 /\ Passed(k)' /\ ~ Passed(k) => Project(source[k]) = NoDocument
      <4>1. k \in Nat /\ (Passed(k) <=> k <= rebuild.after)
        BY <1>2, <1>12 DEF Passed
      <4>2. Passed(k)' <=> k <= rebuild'.after \/ rebuild'.at = "last"
        BY <2>1 DEF Passed
      <4>3. Passed(k) => Passed(k)'
        BY <1>1, <1>6, <2>2, <4>1, <4>2
      <4>4. ASSUME Passed(k)', ~ Passed(k) PROVE Project(source[k]) = NoDocument
        <5>1. k > rebuild.after
          BY <1>1, <4>1, <4>4
        <5>2. (keys # {} /\ k <= LastOf(keys)) \/ short
          BY <1>10, <2>2, <4>2, <4>4
        <5>3. QED
          BY <1>11, <3>1, <5>1, <5>2
      <4>5. QED
        BY <4>3, <4>4
    <3>3. /\ rebuild'.at \in {"pages", "previous", "last"}
          /\ {rebuild.uid, rebuild.pending} \ {0} \subseteq {rebuild'.uid, rebuild'.pending}
      BY <1>2, <2>1
    <3>4. QED
      BY <1>2, <1>3, <1>16, <2>1, <3>1, <3>2, <3>3, PagesStay
  <2>8. QED
    BY <2>3, <2>4, <2>5, <2>6, <2>7 DEF SyncInv, SwapTrue
<1>17. CASE keys # {} /\ queue' = Append(queue, t)
            /\ rebuild' = [rebuild EXCEPT
                             !.at = IF rebuild.pending = 0 THEN IF short THEN "last" ELSE "pages" ELSE "previous",
                             !.uid = rebuild.pending, !.pending = NextUid,
                             !.after = LastOf(keys), !.short = short]
  <2>1. /\ rebuild' \in RebuildRecord /\ rebuild'.since = rebuild.since
        /\ rebuild'.uid = rebuild.pending /\ rebuild'.pending = ran + Len(queue) + 1
        /\ rebuild'.after = LastOf(keys) /\ rebuild'.short = short
        /\ rebuild'.at = IF rebuild.pending = 0 THEN IF short THEN "last" ELSE "pages" ELSE "previous"
    <3> DEFINE go == IF rebuild.pending = 0 THEN IF short THEN "last" ELSE "pages" ELSE "previous"
    <3>1. NextUid = ran + Len(queue) + 1 /\ NextUid \in Nat
      BY <1>1 DEF NextUid
    <3>2. go \in RebuildAt
      BY <1>14
    <3>3. rebuild' = [rebuild EXCEPT !.at = go, !.uid = rebuild.pending, !.pending = NextUid,
                                     !.after = LastOf(keys), !.short = short]
      BY <1>17
    <3>4. LastOf(keys) \in Nat
      BY <1>6, <1>17
    <3> HIDE DEF go
    <3>5. rebuild' \in RebuildRecord
      BY <1>1, <1>5, <3>1, <3>2, <3>3, <3>4 DEF RebuildRecord
    <3>6. /\ rebuild'.since = rebuild.since /\ rebuild'.uid = rebuild.pending
          /\ rebuild'.pending = NextUid /\ rebuild'.after = LastOf(keys)
          /\ rebuild'.short = short /\ rebuild'.at = go
      BY <1>1, <3>3 DEF RebuildRecord
    <3>7. QED
      BY <3>1, <3>5, <3>6 DEF go
  <2>2. rebuild'.at \in {"pages", "previous", "last"} /\ (rebuild'.at # "previous" => rebuild.pending = 0)
    BY <2>1
  <2>3. /\ Len(queue') = Len(queue) + 1
        /\ queue'[Len(queue) + 1] = t /\ \A i \in 1 .. Len(queue) : queue'[i] = queue[i]
        /\ \A i \in 1 .. Len(queue') : i \in 1 .. Len(queue) \/ i = Len(queue) + 1
    BY <1>1, <1>8, <1>17, EnqueuedTypes
  <2>4. SyncTypes' /\ Counted' /\ WritersTrue'
    <3>1. /\ ran + Len(queue) + 1 <= ran + (Len(queue) + 1)
          /\ rebuild.pending <= ran + (Len(queue) + 1)
      BY <1>1, <1>13
    <3>2. rebuild'.since <= writes /\ rebuilds' \in Nat
          /\ rebuild'.uid <= ran + Len(queue') /\ rebuild'.pending <= ran + Len(queue')
      BY <1>1, <1>3, <1>13, <2>1, <2>3, <3>1
    <3>3. QED
      BY <1>3, <1>8, <1>17, <2>1, <3>2, StepTypes
  <2>5. SwapsTrue'
    BY <1>3, <1>4, <1>8, <1>17, SwapsStay
  <2>6. OnlyAwaited'
    <3> SUFFICES ASSUME NEW i \in 1 .. Len(queue'), ~ ByWriter(queue'[i])
                 PROVE  /\ ran + i \in {rebuild'.uid, rebuild'.pending}
                        /\ queue'[i].kind = "upsert" /\ queue'[i].on = "copy"
      BY <1>3, <2>2 DEF OnlyAwaited, KindOf
    <3>1. CASE i = Len(queue) + 1
      <4>1. ran + (Len(queue) + 1) = ran + Len(queue) + 1
        BY <1>1
      <4>2. QED
        BY <1>8, <2>1, <2>3, <3>1, <4>1
    <3>2. CASE i \in 1 .. Len(queue)
      <4>1. /\ ran + i \in {rebuild.uid, rebuild.pending}
            /\ queue[i].kind = "upsert" /\ queue[i].on = "copy"
        BY <1>1, <1>2, <2>3, <3>2, StepNames DEF OnlyAwaited, KindOf
      <4>2. ran + i # 0
        BY <1>1, <3>2
      <4>3. QED
        BY <1>2, <2>1, <2>3, <3>2, <4>1, <4>2
    <3>3. QED
      BY <2>3, <3>1, <3>2
  <2>7. StepWaits' /\ Created' /\ AboutToSwap'
    BY <1>14, <2>1, <2>2, StepNames DEF StepWaits, Created, AboutToSwap
  <2>8. PagesTrue'
    <3>1. ASSUME NEW k \in RowKey
          PROVE  /\ Passed(k) => Passed(k)'
                 /\ Passed(k)' /\ ~ Passed(k) => k \in DOMAIN batch \/ Project(source[k]) = NoDocument
                 /\ k \in keys => Passed(k)'
      <4>1. k \in Nat /\ (Passed(k) <=> k <= rebuild.after)
        BY <1>2, <1>12 DEF Passed
      <4>2. Passed(k)' <=> k <= LastOf(keys) \/ short
        BY <1>5, <2>1 DEF Passed
      <4>3. Passed(k) => Passed(k)'
        BY <1>1, <1>6, <1>17, <4>1, <4>2
      <4>4. ASSUME Passed(k)', ~ Passed(k) PROVE k \in DOMAIN batch \/ Project(source[k]) = NoDocument
        <5>1. k > rebuild.after
          BY <1>1, <4>1, <4>4
        <5>2. QED
          BY <1>11, <1>17, <4>2, <4>4, <5>1
      <4>5. k \in keys => Passed(k)'
        BY <1>6, <4>2
      <4>6. QED
        BY <4>3, <4>4, <4>5
    <3>2. \A k \in DOMAIN batch : Passed(k)' /\ batch[k] = Project(source[k])
      BY <1>5, <1>7, <3>1
    <3>3. {rebuild.uid, rebuild.pending} \ {0} \subseteq {rebuild'.uid, rebuild'.pending}
      BY <1>2, <2>1
    <3>4. /\ Len(queue) \in Nat /\ Len(queue') = Len(queue) + 1
          /\ \A i \in 1 .. Len(queue) : queue'[i] = queue[i]
          /\ queue'[Len(queue) + 1].on = "copy" /\ queue'[Len(queue) + 1].docs = batch
      BY <1>1, <1>8, <2>3
    <3>5. rebuild'.since = rebuild.since
      BY <2>1
    <3>6. QED
      BY <1>2, <1>3, <2>2, <3>1, <3>2, <3>3, <3>4, <3>5, PagesStay
  <2>9. QED
    BY <2>4, <2>5, <2>6, <2>7, <2>8 DEF SyncInv, SwapTrue
<1>18. QED
  BY <1>9, <1>15, <1>16, <1>17

-----------------------------------------------------------------------------
\* Every step preserves the invariant.
LEMMA SyncStep == ASSUME SyncInv, [SyncNext]_syncVars PROVE SyncInv'
<1>1. CASE RunTask
  BY <1>1, RunTaskTypes, RunTaskWriters, RunTaskCopy DEF SyncInv, CopyInv
<1>2. ASSUME NEW w \in Writer, NEW keys \in SUBSET RowKey \ {{}}, NEW rows \in [keys -> Row], Write(w, rows)
      PROVE  SyncInv'
  BY <1>2, WriteTypes, WriteWriters, WriteCopy DEF SyncInv, CopyInv
<1>3. ASSUME NEW w \in Writer, Load(w) PROVE SyncInv'
  BY <1>3, LoadTypes, LoadWriters, HookCopy DEF SyncInv, CopyInv
<1>4. ASSUME NEW w \in Writer, Request(w) PROVE SyncInv'
  BY <1>4, RequestTypes, RequestWriters, HookCopy DEF SyncInv, CopyInv
<1>5. ASSUME NEW w \in Writer, HookFails(w) PROVE SyncInv'
  BY <1>5, RequestTypes, HookFailsWriters, HookCopy DEF SyncInv, CopyInv
<1>6. CASE StartRebuild
  BY <1>6, StartRebuildInv
<1>7. CASE RebuildStep \/ RebuildFails
  BY <1>7, RequestStepInv, SettleStepInv, ReadPageInv, SettlePreviousInv, SettleLastInv,
     RebuildFailsInv DEF RebuildStep
<1>8. CASE UNCHANGED syncVars
  <2>1. UNCHANGED <<source, index, ran, failures, queue, writer, rebuild, inclusive, loads, newest,
                    doubt, crossed, exposed, swapped, touched, writes, faults, rebuilds>>
    BY <1>8 DEF syncVars, serverVars, ghostVars
  <2>2. SyncTypes' /\ Counted'
    BY <2>1 DEF SyncInv, SyncTypes, Counted
  <2>3. WritersTrue'
    BY <2>1, WritersStay
  <2>4. CopyInv'
    BY <2>1, CopyStays
  <2>5. QED
    BY <2>2, <2>3, <2>4 DEF SyncInv, CopyInv
<1>9. QED
  BY <1>1, <1>2, <1>3, <1>4, <1>5, <1>6, <1>7, <1>8 DEF SyncNext

\* Nothing is under way in a quiet state: what is not excepted is live.
LEMMA SyncInvTrue == ASSUME SyncInv PROVE IndexTrue
<1> SUFFICES ASSUME Quiet, NEW k \in RowKey \ (doubt \cup crossed)
             PROVE  DocumentsOf("live")[k] = Project(source[k])
  BY DEF IndexTrue, SyncInv, WritersTrue, Orderly
<1>1. queue = <<>> /\ \A w \in Writer : writer[w].at = "idle"
  BY DEF Quiet
<1>2. ~ Loading(writer, k) /\ UnderWay(queue, writer, k) = {}
  BY <1>1 DEF Loading, UnderWay, TasksFor, Holders
<1>3. LiveHolds(UnderWay(queue, writer, k), newest[k], source[k], DocumentsOf("live")[k])
  BY <1>2 DEF SyncInv, WritersTrue, RowsTrue, Excepted
<1>4. QED
  BY <1>2, <1>3 DEF LiveHolds

\* In no behaviour, whatever the number of writers, keys, faults and rebuilds and
\* the size of the pages, does the live index miss a document, hold an outdated
\* one or one too many when nothing is under way, but for keys in doubt and those
\* whose reindexings crossed; and none cross unless hooks of the key overlapped
\* between their load and their requests, or one failed.
THEOREM IndexIsTrue == SyncSpec => []IndexTrue
<1>1. SyncInit => SyncInv
  BY SyncInitInv
<1>2. SyncInv /\ [SyncNext]_syncVars => SyncInv'
  BY SyncStep
<1>3. SyncInv => IndexTrue
  BY SyncInvTrue
<1>4. QED
  BY <1>1, <1>2, <1>3, PTL DEF SyncSpec

(***************************************************************************)
(* Value proofs, for any atoms and subjects, propositions of any nesting   *)
(* and any number of laws.                                                 *)
(***************************************************************************)

\* What holds of 0, and of n whenever of n - 1, holds up to N.
LEMMA HoldsUpTo ==
  ASSUME NEW N \in Nat, NEW T, 0 \in T, \A n \in 1 .. N : n - 1 \in T => n \in T
  PROVE  \A n \in 0 .. N : n \in T
<1> DEFINE bad == {n \in 0 .. N : n \notin T}
<1>1. SUFFICES ASSUME bad # {} PROVE FALSE
  OBVIOUS
<1>2. PICK n \in bad : \A m \in bad : n <= m
  <2>1. bad \subseteq Nat
    OBVIOUS
  <2> HIDE DEF bad
  <2>2. QED
    BY <1>1, <2>1, LeastNumber
<1>3. n \in 0 .. N /\ n \notin T
  OBVIOUS
<1>4. n \in 1 .. N /\ n - 1 \in 0 .. N /\ ~ (n <= n - 1)
  BY <1>3
<1>5. n - 1 \notin bad
  <2> HIDE DEF bad
  <2>1. QED
    BY <1>2, <1>4
<1>6. QED
  BY <1>3, <1>4, <1>5

\* The propositions made of less nested ones.
Made(Ps) == {Atomic(a) : a \in Atoms} \cup {And(P, Q) : P, Q \in Ps} \cup {Or(P, Q) : P, Q \in Ps}

LEMMA PropositionsAre ==
  /\ Propositions[0] = {}
  /\ \A n \in 1 .. MaxDepth : Propositions[n] = Made(Propositions[n - 1])
<1> DEFINE N == MaxDepth
           Layer(f, n) == IF n = 0 THEN {} ELSE Made(f[n - 1])
           Layers(f) == f = [n \in 0 .. N |-> Layer(f, n)]
           layers == CHOOSE f : Layers(f)
<1>1. N \in Nat
  BY ProofAssumption DEF ProofAssumption
<1>2. \E f : Layers(f)
  <2> DEFINE Upto(n) == \E f : \A i \in 0 .. n : f[i] = Layer(f, i)
             T == {n \in 0 .. N : Upto(n)}
  <2>1. 0 \in T
    <3> DEFINE f == [i \in {0} |-> {}]
    <3>1. \A i \in 0 .. 0 : f[i] = Layer(f, i)
      OBVIOUS
    <3>2. Upto(0)
      BY <3>1
    <3>3. QED
      BY <1>1, <3>2
  <2>2. ASSUME NEW n \in 1 .. N, n - 1 \in T PROVE n \in T
    <3>1. PICK f : \A i \in 0 .. n - 1 : f[i] = Layer(f, i)
      BY <2>2
    <3> DEFINE g == [i \in 0 .. n |-> IF i = n THEN Layer(f, n) ELSE f[i]]
    <3>2. \A i \in 0 .. n - 1 : g[i] = f[i]
      OBVIOUS
    <3>3. g[n] = Layer(f, n) /\ n - 1 \in 0 .. n - 1 /\ n \in 0 .. N
      OBVIOUS
    <3> HIDE DEF g
    <3>4. ASSUME NEW i \in 0 .. n PROVE g[i] = Layer(g, i)
      <4>1. CASE i = 0
        BY <3>1, <3>2, <4>1
      <4>2. CASE i \in 1 .. n - 1
        <5>1. i - 1 \in 0 .. n - 1 /\ i \in 0 .. n - 1
          BY <4>2
        <5>2. g[i - 1] = f[i - 1] /\ g[i] = f[i] /\ f[i] = Layer(f, i)
          BY <3>1, <3>2, <5>1
        <5>3. QED
          BY <5>2
      <4>3. CASE i = n
        <5>1. g[n - 1] = f[n - 1]
          BY <3>2, <3>3
        <5>2. QED
          BY <3>3, <4>3, <5>1
      <4>4. QED
        BY <4>1, <4>2, <4>3
    <3>5. Upto(n)
      BY <3>4
    <3>6. QED
      BY <3>3, <3>5
  <2>3. N \in T
    <3>1. \A n \in 0 .. N : n \in T
      <4> HIDE DEF T, N
      <4>1. QED
        BY <1>1, <2>1, <2>2, HoldsUpTo
    <3>2. QED
      BY <1>1, <3>1
  <2>4. PICK f : \A i \in 0 .. N : f[i] = Layer(f, i)
    BY <2>3
  <2> DEFINE g == [i \in 0 .. N |-> f[i]]
  <2>5. \A i \in 0 .. N : g[i] = f[i]
    OBVIOUS
  <2>6. g = [i \in 0 .. N |-> g[i]]
    OBVIOUS
  <2> HIDE DEF g
  <2>7. \A i \in 0 .. N : g[i] = Layer(g, i)
    BY <1>1, <2>4, <2>5
  <2>8. Layers(g)
    <3>1. g = [i \in 0 .. N |-> Layer(g, i)]
      <4> HIDE DEF Layer
      <4>1. QED
        BY <2>6, <2>7
    <3>2. QED
      BY <3>1
  <2>9. QED
    BY <2>8
<1>3. layers = [n \in 0 .. N |-> Layer(layers, n)]
  <2> HIDE DEF Layer
  <2>1. QED
    BY <1>2
<1>4. Propositions = layers
  BY DEF Propositions, Made
<1> HIDE DEF layers
<1>5. \A n \in 0 .. N : layers[n] = Layer(layers, n)
  BY <1>3
<1>6. QED
  BY <1>1, <1>4, <1>5

\* Operands are propositions, and a proposition is an atom or made of operands.
LEMMA PropositionForms ==
  /\ \A n \in 1 .. MaxDepth : Propositions[n - 1] \subseteq Propositions[n]
  /\ Operand \subseteq Proposition /\ Proposition = Made(Operand)
<1>1. MaxDepth \in Nat \ {0} /\ MaxDepth \in 1 .. MaxDepth
  BY ProofAssumption DEF ProofAssumption
<1>2. Proposition = Made(Operand)
  BY <1>1, PropositionsAre DEF Proposition, Operand
<1> DEFINE T == {n \in 0 .. MaxDepth : n = 0 \/ Propositions[n - 1] \subseteq Propositions[n]}
<1>3. 0 \in T
  BY <1>1
<1>4. ASSUME NEW n \in 1 .. MaxDepth, n - 1 \in T PROVE n \in T
  <2>1. CASE n = 1
    BY <2>1, PropositionsAre
  <2>2. CASE n # 1
    <3>1. n - 1 \in 1 .. MaxDepth /\ n \in 0 .. MaxDepth
      BY <1>1, <2>2
    <3>2. Propositions[(n - 1) - 1] \subseteq Propositions[n - 1]
      BY <1>4, <3>1
    <3>3. /\ Propositions[n - 1] = Made(Propositions[(n - 1) - 1])
          /\ Propositions[n] = Made(Propositions[n - 1])
      BY <3>1, PropositionsAre
    <3>4. \A Ps, Qs : Ps \subseteq Qs => Made(Ps) \subseteq Made(Qs)
      BY DEF Made
    <3>5. QED
      BY <3>1, <3>2, <3>3, <3>4
  <2>3. QED
    BY <2>1, <2>2
<1>5. \A n \in 0 .. MaxDepth : n \in T
  <2> HIDE DEF T
  <2>1. QED
    BY <1>1, <1>3, <1>4, HoldsUpTo
<1>6. \A n \in 1 .. MaxDepth : Propositions[n - 1] \subseteq Propositions[n]
  BY <1>1, <1>5
<1>7. QED
  BY <1>1, <1>2, <1>6 DEF Proposition, Operand

LEMMA MadeParts ==
  ASSUME NEW Ps, NEW P \in Made(Ps)
  PROVE  \/ P[1] = "atom" /\ P[2] \in Atoms /\ P = Atomic(P[2])
         \/ P[1] = "and" /\ P[2] \in Ps /\ P[3] \in Ps /\ P = And(P[2], P[3])
         \/ P[1] = "or" /\ P[2] \in Ps /\ P[3] \in Ps /\ P = Or(P[2], P[3])
<1>1. CASE \E a \in Atoms : P = Atomic(a)
  BY <1>1 DEF Atomic
<1>2. CASE \E Q \in Ps, R \in Ps : P = And(Q, R)
  BY <1>2 DEF And
<1>3. CASE \E Q \in Ps, R \in Ps : P = Or(Q, R)
  BY <1>3 DEF Or
<1>4. QED
  BY <1>1, <1>2, <1>3 DEF Made

\* What shows P, from what shows its operands.
ShowTurn(P, g, says, s) ==
  IF P[1] = "atom" THEN ShowAtom(P[2], says, s)
  ELSE IF P[1] = "and" THEN Pairs(g[P[2]], g[P[3]])
  ELSE ShowOr(g[P[2]], g[P[3]])

LEMMA EvidenceTurns ==
  ASSUME NEW says, NEW s
  PROVE  \A P \in Proposition :
           Evidence(says, s)[P] = ShowTurn(P, Evidence(says, s), says, s)
<1> DEFINE Sound(n, g) == \A P \in Propositions[n] : g[P] = ShowTurn(P, g, says, s)
           T == {n \in 0 .. MaxDepth : \E g : Sound(n, g)}
<1>1. MaxDepth \in Nat /\ MaxDepth \in 0 .. MaxDepth
  BY ProofAssumption DEF ProofAssumption
<1>2. 0 \in T
  BY <1>1, PropositionsAre
<1>3. ASSUME NEW n \in 1 .. MaxDepth, n - 1 \in T PROVE n \in T
  <2>1. n \in 0 .. MaxDepth /\ Propositions[n] = Made(Propositions[n - 1])
        /\ Propositions[n - 1] \subseteq Propositions[n]
    BY <1>1, PropositionsAre, PropositionForms
  <2>2. PICK g : Sound(n - 1, g)
    BY <1>3
  <2> DEFINE h == [P \in Propositions[n] |-> ShowTurn(P, g, says, s)]
  <2>3. \A P \in Propositions[n] : h[P] = ShowTurn(P, g, says, s)
    OBVIOUS
  <2>4. \A P \in Propositions[n - 1] : h[P] = g[P]
    BY <2>1, <2>2, <2>3
  <2> HIDE DEF h
  <2>5. ASSUME NEW P \in Propositions[n] PROVE ShowTurn(P, g, says, s) = ShowTurn(P, h, says, s)
    <3>1. P[1] = "atom" \/ (P[2] \in Propositions[n - 1] /\ P[3] \in Propositions[n - 1])
      BY <2>1, MadeParts
    <3>2. P[1] = "atom" \/ (h[P[2]] = g[P[2]] /\ h[P[3]] = g[P[3]])
      BY <2>4, <3>1
    <3>3. QED
      BY <3>2 DEF ShowTurn
  <2>6. Sound(n, h)
    BY <2>3, <2>5
  <2>7. QED
    BY <2>1, <2>6
<1>4. PICK g : Sound(MaxDepth, g)
  <2>1. \A n \in 0 .. MaxDepth : n \in T
    <3> HIDE DEF T
    <3>1. QED
      BY <1>1, <1>2, <1>3, HoldsUpTo
  <2>2. QED
    BY <1>1, <2>1
<1> DEFINE Walks(f) == f = [P \in Proposition |-> ShowTurn(P, f, says, s)]
           value == CHOOSE f : Walks(f)
<1>5. \E f : Walks(f)
  <2> DEFINE h == [P \in Proposition |-> ShowTurn(P, g, says, s)]
  <2>1. \A P \in Proposition : h[P] = g[P]
    BY <1>4 DEF Proposition
  <2>2. h = [P \in Proposition |-> ShowTurn(P, g, says, s)]
    OBVIOUS
  <2> HIDE DEF h
  <2>3. ASSUME NEW P \in Proposition PROVE ShowTurn(P, g, says, s) = ShowTurn(P, h, says, s)
    <3>1. P[1] = "atom" \/ (P[2] \in Proposition /\ P[3] \in Proposition)
      BY PropositionForms, MadeParts
    <3>2. P[1] = "atom" \/ (h[P[2]] = g[P[2]] /\ h[P[3]] = g[P[3]])
      BY <2>1, <3>1
    <3>3. QED
      BY <3>2 DEF ShowTurn
  <2>4. h = [P \in Proposition |-> ShowTurn(P, h, says, s)]
    BY <2>2, <2>3
  <2>5. QED
    BY <2>4
<1>6. value = [P \in Proposition |-> ShowTurn(P, value, says, s)]
  BY <1>5
<1>7. Evidence(says, s) = value
  BY DEF Evidence, ShowTurn
<1> HIDE DEF value
<1>8. \A P \in Proposition : value[P] = ShowTurn(P, value, says, s)
  BY <1>6
<1>9. QED
  BY <1>7, <1>8

\* The check of P, from those of its operands.
CheckTurn(P, g, says, s) ==
  IF P[1] = "atom" THEN CheckAtom(P[2], says, s)
  ELSE IF P[1] = "and" THEN CheckAnd(g[P[2]], g[P[3]])
  ELSE CheckOr(g[P[2]], g[P[3]])

LEMMA ResultsTurn ==
  ASSUME NEW says, NEW s
  PROVE  \A P \in Proposition :
           Results(says, s)[P] = CheckTurn(P, Results(says, s), says, s)
<1> DEFINE Sound(n, g) == \A P \in Propositions[n] : g[P] = CheckTurn(P, g, says, s)
           T == {n \in 0 .. MaxDepth : \E g : Sound(n, g)}
<1>1. MaxDepth \in Nat /\ MaxDepth \in 0 .. MaxDepth
  BY ProofAssumption DEF ProofAssumption
<1>2. 0 \in T
  BY <1>1, PropositionsAre
<1>3. ASSUME NEW n \in 1 .. MaxDepth, n - 1 \in T PROVE n \in T
  <2>1. n \in 0 .. MaxDepth /\ Propositions[n] = Made(Propositions[n - 1])
        /\ Propositions[n - 1] \subseteq Propositions[n]
    BY <1>1, PropositionsAre, PropositionForms
  <2>2. PICK g : Sound(n - 1, g)
    BY <1>3
  <2> DEFINE h == [P \in Propositions[n] |-> CheckTurn(P, g, says, s)]
  <2>3. \A P \in Propositions[n] : h[P] = CheckTurn(P, g, says, s)
    OBVIOUS
  <2>4. \A P \in Propositions[n - 1] : h[P] = g[P]
    BY <2>1, <2>2, <2>3
  <2> HIDE DEF h
  <2>5. ASSUME NEW P \in Propositions[n] PROVE CheckTurn(P, g, says, s) = CheckTurn(P, h, says, s)
    <3>1. P[1] = "atom" \/ (P[2] \in Propositions[n - 1] /\ P[3] \in Propositions[n - 1])
      BY <2>1, MadeParts
    <3>2. P[1] = "atom" \/ (h[P[2]] = g[P[2]] /\ h[P[3]] = g[P[3]])
      BY <2>4, <3>1
    <3>3. QED
      BY <3>2 DEF CheckTurn
  <2>6. Sound(n, h)
    BY <2>3, <2>5
  <2>7. QED
    BY <2>1, <2>6
<1>4. PICK g : Sound(MaxDepth, g)
  <2>1. \A n \in 0 .. MaxDepth : n \in T
    <3> HIDE DEF T
    <3>1. QED
      BY <1>1, <1>2, <1>3, HoldsUpTo
  <2>2. QED
    BY <1>1, <2>1
<1> DEFINE Walks(f) == f = [P \in Proposition |-> CheckTurn(P, f, says, s)]
           value == CHOOSE f : Walks(f)
<1>5. \E f : Walks(f)
  <2> DEFINE h == [P \in Proposition |-> CheckTurn(P, g, says, s)]
  <2>1. \A P \in Proposition : h[P] = g[P]
    BY <1>4 DEF Proposition
  <2>2. h = [P \in Proposition |-> CheckTurn(P, g, says, s)]
    OBVIOUS
  <2> HIDE DEF h
  <2>3. ASSUME NEW P \in Proposition PROVE CheckTurn(P, g, says, s) = CheckTurn(P, h, says, s)
    <3>1. P[1] = "atom" \/ (P[2] \in Proposition /\ P[3] \in Proposition)
      BY PropositionForms, MadeParts
    <3>2. P[1] = "atom" \/ (h[P[2]] = g[P[2]] /\ h[P[3]] = g[P[3]])
      BY <2>1, <3>1
    <3>3. QED
      BY <3>2 DEF CheckTurn
  <2>4. h = [P \in Proposition |-> CheckTurn(P, h, says, s)]
    BY <2>2, <2>3
  <2>5. QED
    BY <2>4
<1>6. value = [P \in Proposition |-> CheckTurn(P, value, says, s)]
  BY <1>5
<1>7. Results(says, s) = value
  BY DEF Results, CheckTurn
<1> HIDE DEF value
<1>8. \A P \in Proposition : value[P] = CheckTurn(P, value, says, s)
  BY <1>6
<1>9. QED
  BY <1>7, <1>8

\* The truth of P, from that of its operands.
TruthTurn(P, g, says) ==
  IF P[1] = "atom" THEN says[P[2]] = "holds"
  ELSE IF P[1] = "and" THEN g[P[2]] /\ g[P[3]]
  ELSE g[P[2]] \/ g[P[3]]

LEMMA TruthsTurn ==
  ASSUME NEW says
  PROVE  \A P \in Proposition :
           Truths(says)[P] = TruthTurn(P, Truths(says), says)
<1> DEFINE Sound(n, g) == \A P \in Propositions[n] : g[P] = TruthTurn(P, g, says)
           T == {n \in 0 .. MaxDepth : \E g : Sound(n, g)}
<1>1. MaxDepth \in Nat /\ MaxDepth \in 0 .. MaxDepth
  BY ProofAssumption DEF ProofAssumption
<1>2. 0 \in T
  BY <1>1, PropositionsAre
<1>3. ASSUME NEW n \in 1 .. MaxDepth, n - 1 \in T PROVE n \in T
  <2>1. n \in 0 .. MaxDepth /\ Propositions[n] = Made(Propositions[n - 1])
        /\ Propositions[n - 1] \subseteq Propositions[n]
    BY <1>1, PropositionsAre, PropositionForms
  <2>2. PICK g : Sound(n - 1, g)
    BY <1>3
  <2> DEFINE h == [P \in Propositions[n] |-> TruthTurn(P, g, says)]
  <2>3. \A P \in Propositions[n] : h[P] = TruthTurn(P, g, says)
    OBVIOUS
  <2>4. \A P \in Propositions[n - 1] : h[P] = g[P]
    BY <2>1, <2>2, <2>3
  <2> HIDE DEF h
  <2>5. ASSUME NEW P \in Propositions[n] PROVE TruthTurn(P, g, says) = TruthTurn(P, h, says)
    <3>1. P[1] = "atom" \/ (P[2] \in Propositions[n - 1] /\ P[3] \in Propositions[n - 1])
      BY <2>1, MadeParts
    <3>2. P[1] = "atom" \/ (h[P[2]] = g[P[2]] /\ h[P[3]] = g[P[3]])
      BY <2>4, <3>1
    <3>3. QED
      BY <3>2 DEF TruthTurn
  <2>6. Sound(n, h)
    BY <2>3, <2>5
  <2>7. QED
    BY <2>1, <2>6
<1>4. PICK g : Sound(MaxDepth, g)
  <2>1. \A n \in 0 .. MaxDepth : n \in T
    <3> HIDE DEF T
    <3>1. QED
      BY <1>1, <1>2, <1>3, HoldsUpTo
  <2>2. QED
    BY <1>1, <2>1
<1> DEFINE Walks(f) == f = [P \in Proposition |-> TruthTurn(P, f, says)]
           value == CHOOSE f : Walks(f)
<1>5. \E f : Walks(f)
  <2> DEFINE h == [P \in Proposition |-> TruthTurn(P, g, says)]
  <2>1. \A P \in Proposition : h[P] = g[P]
    BY <1>4 DEF Proposition
  <2>2. h = [P \in Proposition |-> TruthTurn(P, g, says)]
    OBVIOUS
  <2> HIDE DEF h
  <2>3. ASSUME NEW P \in Proposition PROVE TruthTurn(P, g, says) = TruthTurn(P, h, says)
    <3>1. P[1] = "atom" \/ (P[2] \in Proposition /\ P[3] \in Proposition)
      BY PropositionForms, MadeParts
    <3>2. P[1] = "atom" \/ (h[P[2]] = g[P[2]] /\ h[P[3]] = g[P[3]])
      BY <2>1, <3>1
    <3>3. QED
      BY <3>2 DEF TruthTurn
  <2>4. h = [P \in Proposition |-> TruthTurn(P, h, says)]
    BY <2>2, <2>3
  <2>5. QED
    BY <2>4
<1>6. value = [P \in Proposition |-> TruthTurn(P, value, says)]
  BY <1>5
<1>7. Truths(says) = value
  BY DEF Truths, TruthTurn
<1> HIDE DEF value
<1>8. \A P \in Proposition : value[P] = TruthTurn(P, value, says)
  BY <1>6
<1>9. QED
  BY <1>7, <1>8

-----------------------------------------------------------------------------
\* What a law needs of evidence: what shows P by E, and what is known of P.
Explains(E) ==
  /\ \A P, Q : And(P, Q) \in Proposition => E[And(P, Q)] = Pairs(E[P], E[Q])
  /\ \A P, Q : Or(P, Q) \in Proposition => E[Or(P, Q)] = ShowOr(E[P], E[Q])
Shows(E, P, e) == P \in Proposition /\ e \in E[P]
Knows(E, P, es) == P \in Proposition /\ es \in AtMostOne(E[P])

LEMMA Parts ==
  ASSUME NEW P \in Proposition
  PROVE  /\ P[1] = "and" => P = And(P[2], P[3]) /\ P[2] \in Proposition /\ P[3] \in Proposition
         /\ P[1] = "or" => P = Or(P[2], P[3]) /\ P[2] \in Proposition /\ P[3] \in Proposition
         /\ P[1] = "atom" => P = Atomic(P[2]) /\ P[2] \in Atoms
         /\ P[1] \in {"atom", "and", "or"}
BY PropositionForms, MadeParts

LEMMA Selects ==
  ASSUME NEW P, NEW Q
  PROVE  /\ And(P, Q)[1] = "and" /\ And(P, Q)[2] = P /\ And(P, Q)[3] = Q
         /\ Or(P, Q)[1] = "or" /\ Or(P, Q)[2] = P /\ Or(P, Q)[3] = Q
         /\ BothOf(P, Q)[2] = P /\ BothOf(P, Q)[3] = Q
         /\ Sides(P, Q)[2] = P /\ Sides(P, Q)[3] = Q
BY DEF And, Or, BothOf, Sides

LEMMA OperandsAre ==
  ASSUME NEW P, NEW Q, And(P, Q) \in Proposition \/ Or(P, Q) \in Proposition
  PROVE  P \in Proposition /\ Q \in Proposition
BY Parts, Selects

LEMMA EvidenceExplains ==
  ASSUME NEW says, NEW s
  PROVE  Explains(Evidence(says, s))
<1>1. ASSUME NEW P, NEW Q, And(P, Q) \in Proposition
      PROVE  Evidence(says, s)[And(P, Q)]
               = Pairs(Evidence(says, s)[P], Evidence(says, s)[Q])
  <2>1. Evidence(says, s)[And(P, Q)] = ShowTurn(And(P, Q), Evidence(says, s), says, s)
    BY <1>1, EvidenceTurns
  <2>2. QED
    BY <2>1, Selects DEF ShowTurn
<1>2. ASSUME NEW P, NEW Q, Or(P, Q) \in Proposition
      PROVE  Evidence(says, s)[Or(P, Q)]
               = ShowOr(Evidence(says, s)[P], Evidence(says, s)[Q])
  <2>1. Evidence(says, s)[Or(P, Q)] = ShowTurn(Or(P, Q), Evidence(says, s), says, s)
    BY <1>2, EvidenceTurns
  <2>2. QED
    BY <2>1, Selects DEF ShowTurn
<1>3. QED
  BY <1>1, <1>2 DEF Explains

LEMMA KnownIs ==
  ASSUME NEW E, NEW P \in Proposition
  PROVE  /\ Knows(E, P, {})
         /\ \A e : Shows(E, P, e) => Knows(E, P, {e})
         /\ \A es : Knows(E, P, es) /\ es # {} => es = {The(es)} /\ Shows(E, P, The(es))
         /\ \A es, fs : Knows(E, P, es) /\ Knows(E, P, fs) =>
              Knows(E, P, FirstOf(es, fs)) /\ (FirstOf(es, fs) = {} <=> es = {} /\ fs = {})
<1>1. ASSUME NEW es, Knows(E, P, es), es # {}
      PROVE  es = {The(es)} /\ Shows(E, P, The(es))
  <2>1. PICK e \in E[P] : es = {e}
    BY <1>1 DEF Knows, AtMostOne
  <2>2. The(es) = e
    BY <2>1 DEF The
  <2>3. QED
    BY <2>1, <2>2 DEF Shows
<1>2. QED
  BY <1>1 DEF Knows, Shows, AtMostOne, FirstOf

LEMMA AndShown ==
  ASSUME NEW E, Explains(E), NEW P, NEW Q, And(P, Q) \in Proposition
  PROVE  /\ \A e, f : Shows(E, P, e) /\ Shows(E, Q, f) => Shows(E, And(P, Q), BothOf(e, f))
         /\ \A g : Shows(E, And(P, Q), g) =>
              g = BothOf(g[2], g[3]) /\ Shows(E, P, g[2]) /\ Shows(E, Q, g[3])
<1>1. P \in Proposition /\ Q \in Proposition /\ E[And(P, Q)] = Pairs(E[P], E[Q])
  BY OperandsAre DEF Explains
<1>2. ASSUME NEW g \in Pairs(E[P], E[Q])
      PROVE  g = BothOf(g[2], g[3]) /\ g[2] \in E[P] /\ g[3] \in E[Q]
  BY Selects DEF Pairs
<1>3. ASSUME NEW e \in E[P], NEW f \in E[Q] PROVE BothOf(e, f) \in Pairs(E[P], E[Q])
  BY DEF Pairs
<1>4. QED
  BY <1>1, <1>2, <1>3 DEF Shows

LEMMA OrShown ==
  ASSUME NEW E, Explains(E), NEW P, NEW Q, Or(P, Q) \in Proposition
  PROVE  /\ \A ls, rs : Knows(E, P, ls) /\ Knows(E, Q, rs) /\ (ls # {} \/ rs # {})
                        => Shows(E, Or(P, Q), Sides(ls, rs))
         /\ \A g : Shows(E, Or(P, Q), g) =>
              /\ g = Sides(g[2], g[3]) /\ Knows(E, P, g[2]) /\ Knows(E, Q, g[3])
              /\ g[2] # {} \/ g[3] # {}
<1>1. P \in Proposition /\ Q \in Proposition /\ E[Or(P, Q)] = ShowOr(E[P], E[Q])
  BY OperandsAre DEF Explains
<1>2. ASSUME NEW g \in ShowOr(E[P], E[Q])
      PROVE  /\ g = Sides(g[2], g[3]) /\ g[2] \in AtMostOne(E[P]) /\ g[3] \in AtMostOne(E[Q])
             /\ g[2] # {} \/ g[3] # {}
  <2>1. PICK ls \in AtMostOne(E[P]), rs \in AtMostOne(E[Q]) : g = Sides(ls, rs)
    BY DEF ShowOr
  <2>2. g # Sides({}, {})
    BY DEF ShowOr
  <2>3. g[2] = ls /\ g[3] = rs
    BY <2>1, Selects
  <2>4. ls # {} \/ rs # {}
    BY <2>1, <2>2
  <2>5. QED
    BY <2>1, <2>3, <2>4
<1>3. ASSUME NEW ls \in AtMostOne(E[P]), NEW rs \in AtMostOne(E[Q]), ls # {} \/ rs # {}
      PROVE  Sides(ls, rs) \in ShowOr(E[P], E[Q])
  <2>1. Sides(ls, rs) # Sides({}, {})
    BY <1>3, Selects
  <2>2. QED
    BY <2>1 DEF ShowOr
<1>4. QED
  BY <1>1, <1>2, <1>3 DEF Shows, Knows

\* What is known of a conjunction is known of both its operands, and conversely.
LEMMA AndKnown ==
  ASSUME NEW E, Explains(E), NEW P, NEW Q, And(P, Q) \in Proposition
  PROVE  /\ \A es : Knows(E, And(P, Q), es) =>
              /\ Knows(E, P, Firsts(es)) /\ Knows(E, Q, Seconds(es))
              /\ (Firsts(es) = {} <=> es = {}) /\ (Seconds(es) = {} <=> es = {})
         /\ \A es, fs : Knows(E, P, es) /\ Knows(E, Q, fs) =>
              /\ Knows(E, And(P, Q), Pairs(es, fs))
              /\ Pairs(es, fs) = {} <=> es = {} \/ fs = {}
<1>1. P \in Proposition /\ Q \in Proposition
  BY OperandsAre
<1>2. ASSUME NEW es, Knows(E, And(P, Q), es)
      PROVE  /\ Knows(E, P, Firsts(es)) /\ Knows(E, Q, Seconds(es))
             /\ (Firsts(es) = {} <=> es = {}) /\ (Seconds(es) = {} <=> es = {})
  <2>1. CASE es = {}
    <3>1. Firsts(es) = {} /\ Seconds(es) = {}
      BY <2>1 DEF Firsts, Seconds
    <3>2. QED
      BY <1>1, <2>1, <3>1, KnownIs
  <2>2. CASE es # {}
    <3>1. PICK g : es = {g} /\ Shows(E, And(P, Q), g)
      BY <1>2, <2>2, KnownIs
    <3>2. Shows(E, P, g[2]) /\ Shows(E, Q, g[3])
      BY <3>1, AndShown
    <3>3. Firsts(es) = {g[2]} /\ Seconds(es) = {g[3]}
      BY <3>1 DEF Firsts, Seconds
    <3>4. Knows(E, P, {g[2]}) /\ Knows(E, Q, {g[3]})
      BY <1>1, <3>2, KnownIs
    <3>5. Firsts(es) # {} /\ Seconds(es) # {}
      BY <3>3
    <3>6. QED
      BY <2>2, <3>3, <3>4, <3>5
  <2>3. QED
    BY <2>1, <2>2
<1>3. ASSUME NEW es, NEW fs, Knows(E, P, es), Knows(E, Q, fs)
      PROVE  /\ Knows(E, And(P, Q), Pairs(es, fs))
             /\ Pairs(es, fs) = {} <=> es = {} \/ fs = {}
  <2>1. CASE es = {} \/ fs = {}
    <3>1. Pairs(es, fs) = {}
      BY <2>1 DEF Pairs
    <3>2. QED
      BY <2>1, <3>1, KnownIs
  <2>2. CASE es # {} /\ fs # {}
    <3>0. PICK e : es = {e} /\ Shows(E, P, e)
      BY <1>1, <1>3, <2>2, KnownIs
    <3>1. PICK f : fs = {f} /\ Shows(E, Q, f)
      BY <1>1, <1>3, <2>2, KnownIs
    <3>2. Pairs(es, fs) = {BothOf(e, f)}
      BY <3>0, <3>1 DEF Pairs
    <3>3. Shows(E, And(P, Q), BothOf(e, f))
      BY <3>0, <3>1, AndShown
    <3>4. Knows(E, And(P, Q), {BothOf(e, f)})
      BY <3>3, KnownIs
    <3>5. Pairs(es, fs) # {}
      BY <3>2
    <3>6. QED
      BY <2>2, <3>2, <3>4, <3>5
  <2>3. QED
    BY <2>1, <2>2
<1>4. QED
  BY <1>2, <1>3

\* The same for a disjunction.
LEMMA OrKnown ==
  ASSUME NEW E, Explains(E), NEW P, NEW Q, Or(P, Q) \in Proposition
  PROVE  /\ \A es : Knows(E, Or(P, Q), es) =>
              /\ Knows(E, P, InnerLeft(es)) /\ Knows(E, Q, InnerRight(es))
              /\ InnerLeft(es) = {} /\ InnerRight(es) = {} <=> es = {}
         /\ \A ls, rs : Knows(E, P, ls) /\ Knows(E, Q, rs) =>
              /\ Knows(E, Or(P, Q), SomeSide(ls, rs))
              /\ SomeSide(ls, rs) = {} <=> ls = {} /\ rs = {}
<1>1. P \in Proposition /\ Q \in Proposition
  BY OperandsAre
<1>2. ASSUME NEW es, Knows(E, Or(P, Q), es)
      PROVE  /\ Knows(E, P, InnerLeft(es)) /\ Knows(E, Q, InnerRight(es))
             /\ InnerLeft(es) = {} /\ InnerRight(es) = {} <=> es = {}
  <2>1. CASE es = {}
    <3>1. InnerLeft(es) = {} /\ InnerRight(es) = {}
      BY <2>1 DEF InnerLeft, InnerRight, Firsts, Seconds
    <3>2. QED
      BY <1>1, <2>1, <3>1, KnownIs
  <2>2. CASE es # {}
    <3>1. PICK g : es = {g} /\ Shows(E, Or(P, Q), g)
      BY <1>2, <2>2, KnownIs
    <3>2. Knows(E, P, g[2]) /\ Knows(E, Q, g[3]) /\ (g[2] # {} \/ g[3] # {})
      BY <3>1, OrShown
    <3>3. InnerLeft(es) = g[2] /\ InnerRight(es) = g[3]
      BY <3>1 DEF InnerLeft, InnerRight, Firsts, Seconds
    <3>4. QED
      BY <2>2, <3>2, <3>3
  <2>3. QED
    BY <2>1, <2>2
<1>3. ASSUME NEW ls, NEW rs, Knows(E, P, ls), Knows(E, Q, rs)
      PROVE  /\ Knows(E, Or(P, Q), SomeSide(ls, rs))
             /\ SomeSide(ls, rs) = {} <=> ls = {} /\ rs = {}
  <2>1. CASE ls = {} /\ rs = {}
    <3>1. SomeSide(ls, rs) = {}
      BY <2>1 DEF SomeSide
    <3>2. QED
      BY <2>1, <3>1, KnownIs
  <2>2. CASE ls # {} \/ rs # {}
    <3>1. SomeSide(ls, rs) = {Sides(ls, rs)}
      BY <2>2 DEF SomeSide
    <3>2. Shows(E, Or(P, Q), Sides(ls, rs))
      BY <1>3, <2>2, OrShown
    <3>3. QED
      BY <2>2, <3>1, <3>2, KnownIs
  <2>3. QED
    BY <2>1, <2>2
<1>4. QED
  BY <1>2, <1>3

-----------------------------------------------------------------------------
\* Each law, read as a rule of inference for evidence, is sound.

LEMMA CommuteIsSound ==
  ASSUME NEW E, Explains(E), NEW P, NEW e, Shows(E, P, e),
         NEW d \in Commute(P, e), d[1] \in Proposition
  PROVE  Shows(E, d[1], d[2])
<1>1. P \in Proposition
  BY DEF Shows
<1>2. CASE P[1] = "and"
  <2>1. P = And(P[2], P[3])
    BY <1>1, <1>2, Parts
  <2>2. d[1] = And(P[3], P[2]) /\ d[2] = BothOf(e[3], e[2])
    BY <1>2 DEF Commute
  <2>3. Shows(E, P[2], e[2]) /\ Shows(E, P[3], e[3])
    BY <1>1, <2>1, AndShown
  <2>4. Shows(E, And(P[3], P[2]), BothOf(e[3], e[2]))
    BY <2>2, <2>3, AndShown
  <2>5. QED
    BY <2>2, <2>4
<1>3. CASE P[1] = "or"
  <2>1. P = Or(P[2], P[3])
    BY <1>1, <1>3, Parts
  <2>2. d[1] = Or(P[3], P[2]) /\ d[2] = Sides(e[3], e[2])
    BY <1>3 DEF Commute
  <2>3. Knows(E, P[2], e[2]) /\ Knows(E, P[3], e[3]) /\ (e[2] # {} \/ e[3] # {})
    BY <1>1, <2>1, OrShown
  <2>4. Shows(E, Or(P[3], P[2]), Sides(e[3], e[2]))
    BY <2>2, <2>3, OrShown
  <2>5. QED
    BY <2>2, <2>4
<1>4. QED
  BY <1>2, <1>3 DEF Commute

LEMMA AssociateAndIsSound ==
  ASSUME NEW E, Explains(E), NEW P, NEW e, Shows(E, P, e),
         NEW d \in AssociateAnd(P, e), d[1] \in Proposition
  PROVE  Shows(E, d[1], d[2])
<1>1. P \in Proposition /\ P[1] = "and" /\ P = And(P[2], P[3])
  BY Parts DEF Shows, AssociateAnd
<1>2. Shows(E, P[2], e[2]) /\ Shows(E, P[3], e[3])
  BY <1>1, AndShown
<1>3. \/ /\ P[2][1] = "and"
         /\ d[1] = And(P[2][2], And(P[2][3], P[3]))
         /\ d[2] = BothOf(e[2][2], BothOf(e[2][3], e[3]))
      \/ /\ P[3][1] = "and"
         /\ d[1] = And(And(P[2], P[3][2]), P[3][3])
         /\ d[2] = BothOf(BothOf(e[2], e[3][2]), e[3][3])
  BY <1>1 DEF AssociateAnd
<1>4. CASE /\ P[2][1] = "and"
           /\ d[1] = And(P[2][2], And(P[2][3], P[3]))
           /\ d[2] = BothOf(e[2][2], BothOf(e[2][3], e[3]))
  <2>1. P[2] \in Proposition /\ P[2] = And(P[2][2], P[2][3])
    BY <1>2, <1>4, Parts DEF Shows
  <2>2. Shows(E, P[2][2], e[2][2]) /\ Shows(E, P[2][3], e[2][3])
    BY <1>2, <2>1, AndShown
  <2>3. And(P[2][3], P[3]) \in Proposition
    BY <1>4, OperandsAre
  <2>4. Shows(E, And(P[2][3], P[3]), BothOf(e[2][3], e[3]))
    BY <1>2, <2>2, <2>3, AndShown
  <2>5. QED
    BY <1>4, <2>2, <2>4, AndShown
<1>5. CASE /\ P[3][1] = "and"
           /\ d[1] = And(And(P[2], P[3][2]), P[3][3])
           /\ d[2] = BothOf(BothOf(e[2], e[3][2]), e[3][3])
  <2>1. P[3] \in Proposition /\ P[3] = And(P[3][2], P[3][3])
    BY <1>2, <1>5, Parts DEF Shows
  <2>2. Shows(E, P[3][2], e[3][2]) /\ Shows(E, P[3][3], e[3][3])
    BY <1>2, <2>1, AndShown
  <2>3. And(P[2], P[3][2]) \in Proposition
    BY <1>5, OperandsAre
  <2>4. Shows(E, And(P[2], P[3][2]), BothOf(e[2], e[3][2]))
    BY <1>2, <2>2, <2>3, AndShown
  <2>5. QED
    BY <1>5, <2>2, <2>4, AndShown
<1>6. QED
  BY <1>3, <1>4, <1>5

LEMMA AssociateOrIsSound ==
  ASSUME NEW E, Explains(E), NEW P, NEW e, Shows(E, P, e),
         NEW d \in AssociateOr(P, e), d[1] \in Proposition
  PROVE  Shows(E, d[1], d[2])
<1>1. P \in Proposition /\ P[1] = "or" /\ P = Or(P[2], P[3])
  BY Parts DEF Shows, AssociateOr
<1>2. Knows(E, P[2], e[2]) /\ Knows(E, P[3], e[3]) /\ (e[2] # {} \/ e[3] # {})
  BY <1>1, OrShown
<1>3. \/ /\ P[2][1] = "or"
         /\ d[1] = Or(P[2][2], Or(P[2][3], P[3]))
         /\ d[2] = Sides(InnerLeft(e[2]), SomeSide(InnerRight(e[2]), e[3]))
      \/ /\ P[3][1] = "or"
         /\ d[1] = Or(Or(P[2], P[3][2]), P[3][3])
         /\ d[2] = Sides(SomeSide(e[2], InnerLeft(e[3])), InnerRight(e[3]))
  BY <1>1 DEF AssociateOr
<1>4. CASE /\ P[2][1] = "or"
           /\ d[1] = Or(P[2][2], Or(P[2][3], P[3]))
           /\ d[2] = Sides(InnerLeft(e[2]), SomeSide(InnerRight(e[2]), e[3]))
  <2>1. P[2] \in Proposition /\ P[2] = Or(P[2][2], P[2][3])
    BY <1>2, <1>4, Parts DEF Knows
  <2>2. /\ Knows(E, P[2][2], InnerLeft(e[2])) /\ Knows(E, P[2][3], InnerRight(e[2]))
        /\ InnerLeft(e[2]) = {} /\ InnerRight(e[2]) = {} <=> e[2] = {}
    BY <1>2, <2>1, OrKnown
  <2>3. Or(P[2][3], P[3]) \in Proposition
    BY <1>4, OperandsAre
  <2>4. /\ Knows(E, Or(P[2][3], P[3]), SomeSide(InnerRight(e[2]), e[3]))
        /\ SomeSide(InnerRight(e[2]), e[3]) = {} <=> InnerRight(e[2]) = {} /\ e[3] = {}
    BY <1>2, <2>2, <2>3, OrKnown
  <2>5. QED
    BY <1>2, <1>4, <2>2, <2>4, OrShown
<1>5. CASE /\ P[3][1] = "or"
           /\ d[1] = Or(Or(P[2], P[3][2]), P[3][3])
           /\ d[2] = Sides(SomeSide(e[2], InnerLeft(e[3])), InnerRight(e[3]))
  <2>1. P[3] \in Proposition /\ P[3] = Or(P[3][2], P[3][3])
    BY <1>2, <1>5, Parts DEF Knows
  <2>2. /\ Knows(E, P[3][2], InnerLeft(e[3])) /\ Knows(E, P[3][3], InnerRight(e[3]))
        /\ InnerLeft(e[3]) = {} /\ InnerRight(e[3]) = {} <=> e[3] = {}
    BY <1>2, <2>1, OrKnown
  <2>3. Or(P[2], P[3][2]) \in Proposition
    BY <1>5, OperandsAre
  <2>4. /\ Knows(E, Or(P[2], P[3][2]), SomeSide(e[2], InnerLeft(e[3])))
        /\ SomeSide(e[2], InnerLeft(e[3])) = {} <=> e[2] = {} /\ InnerLeft(e[3]) = {}
    BY <1>2, <2>2, <2>3, OrKnown
  <2>5. QED
    BY <1>2, <1>5, <2>2, <2>4, OrShown
<1>6. QED
  BY <1>3, <1>4, <1>5

LEMMA IdempotenceIsSound ==
  ASSUME NEW E, Explains(E), NEW P, NEW e, Shows(E, P, e),
         NEW d \in Idempotence(P, e), d[1] \in Proposition
  PROVE  Shows(E, d[1], d[2])
<1>1. P \in Proposition
  BY DEF Shows
<1>2. \/ d[1] = And(P, P) /\ d[2] = BothOf(e, e)
      \/ d[1] = Or(P, P) /\ d[2] = Sides({e}, {})
      \/ P[1] = "and" /\ P[2] = P[3] /\ d[1] = P[2] /\ d[2] = e[2]
      \/ P[1] = "or" /\ P[2] = P[3] /\ d[1] = P[2] /\ d[2] = The(FirstOf(e[2], e[3]))
  BY DEF Idempotence, Left
<1>3. CASE d[1] = And(P, P) /\ d[2] = BothOf(e, e)
  BY <1>3, AndShown
<1>4. CASE d[1] = Or(P, P) /\ d[2] = Sides({e}, {})
  <2>1. Knows(E, P, {e}) /\ Knows(E, P, {}) /\ {e} # {}
    BY <1>1, KnownIs
  <2>2. QED
    BY <1>4, <2>1, OrShown
<1>5. CASE P[1] = "and" /\ P[2] = P[3] /\ d[1] = P[2] /\ d[2] = e[2]
  BY <1>1, <1>5, Parts, AndShown
<1>6. CASE P[1] = "or" /\ P[2] = P[3] /\ d[1] = P[2] /\ d[2] = The(FirstOf(e[2], e[3]))
  <2>1. P = Or(P[2], P[3]) /\ P[2] \in Proposition
    BY <1>1, <1>6, Parts
  <2>2. Knows(E, P[2], e[2]) /\ Knows(E, P[2], e[3]) /\ (e[2] # {} \/ e[3] # {})
    BY <1>1, <1>6, <2>1, OrShown
  <2>3. Knows(E, P[2], FirstOf(e[2], e[3])) /\ FirstOf(e[2], e[3]) # {}
    BY <2>1, <2>2, KnownIs
  <2>4. QED
    BY <1>6, <2>1, <2>3, KnownIs
<1>7. QED
  BY <1>2, <1>3, <1>4, <1>5, <1>6

LEMMA AbsorbIsSound ==
  ASSUME NEW E, Explains(E), NEW P, NEW e, Shows(E, P, e), NEW B,
         NEW d \in Absorb(P, e, B), d[1] \in Proposition
  PROVE  Shows(E, d[1], d[2])
<1>1. P \in Proposition
  BY DEF Shows
<1>2. \/ d[1] = And(P, Or(P, B)) /\ d[2] = BothOf(e, Sides({e}, {}))
      \/ d[1] = Or(P, And(P, B)) /\ d[2] = Sides({e}, {})
      \/ P[1] = "and" /\ d[1] = P[2] /\ d[2] = e[2]
      \/ /\ P[1] = "or" /\ P[3][1] = "and" /\ P[3][2] = P[2]
         /\ d[1] = P[2] /\ d[2] = The(FirstOf(e[2], Firsts(e[3])))
  BY DEF Absorb, Left
<1>3. Knows(E, P, {e}) /\ {e} # {}
  BY <1>1, KnownIs
<1>4. CASE d[1] = And(P, Or(P, B)) /\ d[2] = BothOf(e, Sides({e}, {}))
  <2>1. Or(P, B) \in Proposition /\ B \in Proposition
    BY <1>4, OperandsAre
  <2>2. Knows(E, B, {})
    BY <2>1, KnownIs
  <2>3. Shows(E, Or(P, B), Sides({e}, {}))
    BY <1>3, <2>1, <2>2, OrShown
  <2>4. QED
    BY <1>4, <2>3, AndShown
<1>5. CASE d[1] = Or(P, And(P, B)) /\ d[2] = Sides({e}, {})
  <2>1. Knows(E, And(P, B), {})
    BY <1>5, OperandsAre, KnownIs
  <2>2. QED
    BY <1>3, <1>5, <2>1, OrShown
<1>6. CASE P[1] = "and" /\ d[1] = P[2] /\ d[2] = e[2]
  BY <1>1, <1>6, Parts, AndShown
<1>7. CASE /\ P[1] = "or" /\ P[3][1] = "and" /\ P[3][2] = P[2]
           /\ d[1] = P[2] /\ d[2] = The(FirstOf(e[2], Firsts(e[3])))
  <2>1. P = Or(P[2], P[3]) /\ P[2] \in Proposition /\ P[3] = And(P[2], P[3][3])
        /\ P[3] \in Proposition
    BY <1>1, <1>7, Parts
  <2>2. Knows(E, P[2], e[2]) /\ Knows(E, P[3], e[3]) /\ (e[2] # {} \/ e[3] # {})
    BY <1>1, <2>1, OrShown
  <2>3. Knows(E, P[2], Firsts(e[3])) /\ (Firsts(e[3]) = {} <=> e[3] = {})
    BY <2>1, <2>2, AndKnown
  <2>4. PICK A, es, fs : A = P[2] /\ es = e[2] /\ fs = Firsts(e[3])
    OBVIOUS
  <2>5. A \in Proposition /\ Knows(E, A, es) /\ Knows(E, A, fs) /\ (es # {} \/ fs # {})
    BY <2>1, <2>2, <2>3, <2>4
  <2>6. Knows(E, A, FirstOf(es, fs)) /\ FirstOf(es, fs) # {}
    BY <2>5, KnownIs
  <2>7. Shows(E, A, The(FirstOf(es, fs)))
    BY <2>5, <2>6, KnownIs
  <2>8. QED
    BY <1>7, <2>4, <2>7
<1>8. QED
  BY <1>2, <1>4, <1>5, <1>6, <1>7

LEMMA DistributeAndIsSound ==
  ASSUME NEW E, Explains(E), NEW P, NEW e, Shows(E, P, e),
         NEW d \in DistributeAnd(P, e), d[1] \in Proposition
  PROVE  Shows(E, d[1], d[2])
<1>1. P \in Proposition /\ P[1] = "and" /\ P[3][1] = "or" /\ P = And(P[2], P[3])
      /\ P[3] \in Proposition
  BY Parts DEF Shows, DistributeAnd
<1>2. PICK A, B, C : A = P[2] /\ B = P[3][2] /\ C = P[3][3]
  OBVIOUS
<1>3. P[3] = Or(B, C)
  BY <1>1, <1>2, Parts
<1>4. PICK a, bs, cs : a = e[2] /\ bs = e[3][2] /\ cs = e[3][3]
  OBVIOUS
<1>5. Shows(E, A, a) /\ Shows(E, Or(B, C), e[3])
  BY <1>1, <1>2, <1>3, <1>4, AndShown
<1>6. Knows(E, B, bs) /\ Knows(E, C, cs) /\ (bs # {} \/ cs # {})
  BY <1>1, <1>3, <1>4, <1>5, OrShown
<1>7. /\ d[1] = Or(And(A, B), And(A, C))
      /\ d[2] = IF bs # {} THEN Sides(Pairs({a}, bs), {}) ELSE Sides({}, Pairs({a}, cs))
  BY <1>1, <1>2, <1>4 DEF DistributeAnd
<1>8. /\ And(A, B) \in Proposition /\ And(A, C) \in Proposition
      /\ Knows(E, And(A, B), {}) /\ Knows(E, And(A, C), {})
  BY <1>7, OperandsAre, KnownIs
<1>9. Knows(E, A, {a}) /\ {a} # {}
  BY <1>5, KnownIs DEF Shows
<1>10. CASE bs # {}
  <2>1. Knows(E, And(A, B), Pairs({a}, bs)) /\ Pairs({a}, bs) # {}
    BY <1>6, <1>8, <1>9, <1>10, AndKnown
  <2>2. d[2] = Sides(Pairs({a}, bs), {}) /\ Or(And(A, B), And(A, C)) \in Proposition
    BY <1>7, <1>10
  <2>3. Shows(E, Or(And(A, B), And(A, C)), Sides(Pairs({a}, bs), {}))
    BY <1>8, <2>1, <2>2, OrShown
  <2>4. QED
    BY <1>7, <2>2, <2>3
<1>11. CASE bs = {}
  <2>1. Knows(E, And(A, C), Pairs({a}, cs)) /\ Pairs({a}, cs) # {}
    BY <1>6, <1>8, <1>9, <1>11, AndKnown
  <2>2. d[2] = Sides({}, Pairs({a}, cs)) /\ Or(And(A, B), And(A, C)) \in Proposition
    BY <1>7, <1>11
  <2>3. Shows(E, Or(And(A, B), And(A, C)), Sides({}, Pairs({a}, cs)))
    BY <1>8, <2>1, <2>2, OrShown
  <2>4. QED
    BY <1>7, <2>2, <2>3
<1>12. QED
  BY <1>10, <1>11

LEMMA CollectAndIsSound ==
  ASSUME NEW E, Explains(E), NEW P, NEW e, Shows(E, P, e),
         NEW d \in CollectAnd(P, e), d[1] \in Proposition
  PROVE  Shows(E, d[1], d[2])
<1>1. P \in Proposition /\ P[1] = "or" /\ P[2][1] = "and" /\ P[3][1] = "and"
      /\ P[2][2] = P[3][2]
  BY DEF Shows, CollectAnd
<1>2. PICK A, B, C : A = P[2][2] /\ B = P[2][3] /\ C = P[3][3]
  OBVIOUS
<1>3. P = Or(P[2], P[3]) /\ P[2] \in Proposition /\ P[3] \in Proposition
  BY <1>1, Parts
<1>4. P[2] = And(A, B) /\ P[3] = And(A, C)
  BY <1>1, <1>2, <1>3, Parts
<1>5. PICK es, fs : es = e[2] /\ fs = e[3]
  OBVIOUS
<1>6. Knows(E, And(A, B), es) /\ Knows(E, And(A, C), fs) /\ (es # {} \/ fs # {})
  <2>1. Knows(E, P[2], es) /\ Knows(E, P[3], fs) /\ (es # {} \/ fs # {})
    BY <1>1, <1>3, <1>5, OrShown
  <2>2. QED
    BY <1>4, <2>1
<1>7. /\ d[1] = And(A, Or(B, C))
      /\ d[2] = BothOf(The(FirstOf(Firsts(es), Firsts(fs))), Sides(Seconds(es), Seconds(fs)))
  BY <1>1, <1>2, <1>5 DEF CollectAnd
<1>8. A \in Proposition /\ Or(B, C) \in Proposition
  BY <1>7, OperandsAre
<1>9. PICK ls, ms : ls = Firsts(es) /\ ms = Firsts(fs)
  OBVIOUS
<1>10. /\ Knows(E, A, ls) /\ Knows(E, B, Seconds(es))
       /\ (ls = {} <=> es = {}) /\ (Seconds(es) = {} <=> es = {})
  BY <1>3, <1>4, <1>6, <1>9, AndKnown
<1>11. /\ Knows(E, A, ms) /\ Knows(E, C, Seconds(fs))
       /\ (ms = {} <=> fs = {}) /\ (Seconds(fs) = {} <=> fs = {})
  BY <1>3, <1>4, <1>6, <1>9, AndKnown
<1>12. Shows(E, A, The(FirstOf(ls, ms)))
  <2>1. Knows(E, A, FirstOf(ls, ms)) /\ FirstOf(ls, ms) # {}
    BY <1>6, <1>8, <1>10, <1>11, KnownIs
  <2>2. QED
    BY <1>8, <2>1, KnownIs
<1>13. Shows(E, Or(B, C), Sides(Seconds(es), Seconds(fs)))
  BY <1>6, <1>8, <1>10, <1>11, OrShown
<1>14. QED
  BY <1>7, <1>9, <1>12, <1>13, AndShown

LEMMA DistributeOrIsSound ==
  ASSUME NEW E, Explains(E), NEW P, NEW e, Shows(E, P, e),
         NEW d \in DistributeOr(P, e), d[1] \in Proposition
  PROVE  Shows(E, d[1], d[2])
<1>1. P \in Proposition /\ P[1] = "or" /\ P[3][1] = "and" /\ P = Or(P[2], P[3])
      /\ P[3] \in Proposition
  BY Parts DEF Shows, DistributeOr
<1>2. PICK A, B, C : A = P[2] /\ B = P[3][2] /\ C = P[3][3]
  OBVIOUS
<1>3. P[3] = And(B, C)
  BY <1>1, <1>2, Parts
<1>4. PICK as, es : as = e[2] /\ es = e[3]
  OBVIOUS
<1>5. Knows(E, A, as) /\ Knows(E, And(B, C), es) /\ (as # {} \/ es # {})
  BY <1>1, <1>2, <1>3, <1>4, OrShown
<1>6. /\ d[1] = And(Or(A, B), Or(A, C))
      /\ d[2] = BothOf(Sides(as, Firsts(es)), Sides(as, Seconds(es)))
  BY <1>1, <1>2, <1>4 DEF DistributeOr
<1>7. Or(A, B) \in Proposition /\ Or(A, C) \in Proposition
  BY <1>6, OperandsAre
<1>8. /\ Knows(E, B, Firsts(es)) /\ Knows(E, C, Seconds(es))
      /\ (Firsts(es) = {} <=> es = {}) /\ (Seconds(es) = {} <=> es = {})
  BY <1>1, <1>3, <1>5, AndKnown
<1>9. Shows(E, Or(A, B), Sides(as, Firsts(es))) /\ Shows(E, Or(A, C), Sides(as, Seconds(es)))
  BY <1>5, <1>7, <1>8, OrShown
<1>10. QED
  <2>1. And(Or(A, B), Or(A, C)) \in Proposition
    BY <1>6
  <2>2. Shows(E, And(Or(A, B), Or(A, C)), BothOf(Sides(as, Firsts(es)), Sides(as, Seconds(es))))
    BY <1>9, <2>1, AndShown
  <2>3. QED
    BY <1>6, <2>2

LEMMA CollectOrIsSound ==
  ASSUME NEW E, Explains(E), NEW P, NEW e, Shows(E, P, e),
         NEW d \in CollectOr(P, e), d[1] \in Proposition
  PROVE  Shows(E, d[1], d[2])
<1>1. P \in Proposition /\ P[1] = "and" /\ P[2][1] = "or" /\ P[3][1] = "or"
      /\ P[2][2] = P[3][2]
  BY DEF Shows, CollectOr
<1>2. PICK A, B, C : A = P[2][2] /\ B = P[2][3] /\ C = P[3][3]
  OBVIOUS
<1>3. P = And(P[2], P[3]) /\ P[2] \in Proposition /\ P[3] \in Proposition
  BY <1>1, Parts
<1>4. P[2] = Or(A, B) /\ P[3] = Or(A, C)
  BY <1>1, <1>2, <1>3, Parts
<1>5. Shows(E, Or(A, B), e[2]) /\ Shows(E, Or(A, C), e[3])
  <2>1. Shows(E, P[2], e[2]) /\ Shows(E, P[3], e[3])
    BY <1>1, <1>3, AndShown
  <2>2. QED
    BY <1>4, <2>1
<1>6. PICK ls, bs, ms, cs : ls = e[2][2] /\ bs = e[2][3] /\ ms = e[3][2] /\ cs = e[3][3]
  OBVIOUS
<1>7. /\ Knows(E, A, ls) /\ Knows(E, B, bs) /\ (ls # {} \/ bs # {})
      /\ Knows(E, A, ms) /\ Knows(E, C, cs) /\ (ms # {} \/ cs # {})
  BY <1>3, <1>4, <1>5, <1>6, OrShown
<1>8. d[1] = Or(A, And(B, C)) /\ d[2] = Sides(FirstOf(ls, ms), Pairs(bs, cs))
  BY <1>1, <1>2, <1>6 DEF CollectOr
<1>9. A \in Proposition /\ And(B, C) \in Proposition
  BY <1>8, OperandsAre
<1>10. Knows(E, A, FirstOf(ls, ms)) /\ (FirstOf(ls, ms) = {} <=> ls = {} /\ ms = {})
  BY <1>7, <1>9, KnownIs
<1>11. Knows(E, And(B, C), Pairs(bs, cs)) /\ (Pairs(bs, cs) = {} <=> bs = {} \/ cs = {})
  BY <1>7, <1>9, AndKnown
<1>12. QED
  BY <1>7, <1>8, <1>10, <1>11, OrShown

LEMMA WeakenIsSound ==
  ASSUME NEW E, Explains(E), NEW P, NEW e, Shows(E, P, e), NEW B,
         NEW d \in Weaken(P, e, B), d[1] \in Proposition
  PROVE  Shows(E, d[1], d[2])
<1>1. P \in Proposition /\ Knows(E, P, {e}) /\ {e} # {}
  BY KnownIs DEF Shows
<1>2. \/ d[1] = Or(P, B) /\ d[2] = Sides({e}, {})
      \/ d[1] = Or(B, P) /\ d[2] = Sides({}, {e})
      \/ P[1] = "and" /\ d[1] = P[2] /\ d[2] = e[2]
      \/ P[1] = "and" /\ d[1] = P[3] /\ d[2] = e[3]
  BY DEF Weaken
<1>3. CASE d[1] = Or(P, B) /\ d[2] = Sides({e}, {})
  <2>1. Knows(E, B, {})
    BY <1>3, OperandsAre, KnownIs
  <2>2. QED
    BY <1>1, <1>3, <2>1, OrShown
<1>4. CASE d[1] = Or(B, P) /\ d[2] = Sides({}, {e})
  <2>1. Knows(E, B, {})
    BY <1>4, OperandsAre, KnownIs
  <2>2. QED
    BY <1>1, <1>4, <2>1, OrShown
<1>5. CASE P[1] = "and" /\ d[1] \in {P[2], P[3]}
  <2>1. P = And(P[2], P[3])
    BY <1>1, <1>5, Parts
  <2>2. Shows(E, P[2], e[2]) /\ Shows(E, P[3], e[3])
    BY <1>1, <2>1, AndShown
  <2>3. CASE d[1] = P[2] /\ d[2] = e[2]
    BY <2>2, <2>3
  <2>4. CASE d[1] = P[3] /\ d[2] = e[3]
    BY <2>2, <2>4
  <2>5. CASE d[1] = Or(P, B) /\ d[2] = Sides({e}, {})
    BY <1>3, <2>5
  <2>6. CASE d[1] = Or(B, P) /\ d[2] = Sides({}, {e})
    BY <1>4, <2>6
  <2>7. QED
    BY <1>2, <2>3, <2>4, <2>5, <2>6
<1>6. QED
  BY <1>2, <1>3, <1>4, <1>5

\* A law never makes evidence of what its premise does not show.
LEMMA LawsAreSound ==
  ASSUME NEW E, Explains(E), NEW P, NEW e, Shows(E, P, e),
         NEW d \in Derivable(P, e), d[1] \in Proposition
  PROVE  Shows(E, d[1], d[2])
<1>1. CASE d \in Commute(P, e) \cup AssociateAnd(P, e) \cup AssociateOr(P, e) \cup Idempotence(P, e)
  BY <1>1, CommuteIsSound, AssociateAndIsSound, AssociateOrIsSound, IdempotenceIsSound
<1>2. CASE d \in DistributeAnd(P, e) \cup CollectAnd(P, e) \cup DistributeOr(P, e) \cup CollectOr(P, e)
  BY <1>2, DistributeAndIsSound, CollectAndIsSound, DistributeOrIsSound, CollectOrIsSound
<1>3. CASE \E B \in Operand : d \in Absorb(P, e, B) \cup Weaken(P, e, B)
  BY <1>3, AbsorbIsSound, WeakenIsSound
<1>4. QED
  BY <1>1, <1>2, <1>3 DEF Derivable

-----------------------------------------------------------------------------
\* What holds of atoms, and of what is made of operands of which it holds, holds
\* of all propositions.
LEMMA HoldsOfPropositions ==
  ASSUME NEW T, \A a \in Atoms : Atomic(a) \in T,
         \A P \in Proposition, Q \in Proposition : P \in T /\ Q \in T =>
           /\ And(P, Q) \in Proposition => And(P, Q) \in T
           /\ Or(P, Q) \in Proposition => Or(P, Q) \in T
  PROVE  Proposition \subseteq T
<1> DEFINE U == {n \in 0 .. MaxDepth :
                   Propositions[n] \subseteq T /\ Propositions[n] \subseteq Proposition}
<1>1. MaxDepth \in Nat
  BY ProofAssumption DEF ProofAssumption
<1>2. 0 \in U
  BY <1>1, PropositionsAre
<1>3. ASSUME NEW n \in 1 .. MaxDepth, n - 1 \in U, Propositions[n] \subseteq Proposition
      PROVE  n \in U
  <2>1. Propositions[n] = Made(Propositions[n - 1])
    BY PropositionsAre
  <2>2. Propositions[n - 1] \subseteq T /\ Propositions[n - 1] \subseteq Proposition
    BY <1>3
  <2>3. ASSUME NEW P \in Propositions[n] PROVE P \in T
    BY <1>3, <2>1, <2>2, MadeParts
  <2>4. QED
    BY <1>1, <1>3, <2>3
<1>4. \A n \in 0 .. MaxDepth : Propositions[n] \subseteq Proposition
  <2> DEFINE V == {m \in 0 .. MaxDepth : Propositions[MaxDepth - m] \subseteq Proposition}
  <2>1. 0 \in V
    BY <1>1 DEF Proposition
  <2>2. ASSUME NEW m \in 1 .. MaxDepth, m - 1 \in V PROVE m \in V
    <3>1. MaxDepth - (m - 1) \in 1 .. MaxDepth /\ (MaxDepth - (m - 1)) - 1 = MaxDepth - m
      BY <1>1
    <3>2. Propositions[MaxDepth - m] \subseteq Propositions[MaxDepth - (m - 1)]
      BY <3>1, PropositionForms
    <3>3. QED
      BY <1>1, <2>2, <3>2
  <2>3. \A m \in 0 .. MaxDepth : m \in V
    <3> HIDE DEF V
    <3>1. QED
      BY <1>1, <2>1, <2>2, HoldsUpTo
  <2>4. ASSUME NEW n \in 0 .. MaxDepth PROVE Propositions[n] \subseteq Proposition
    <3>1. MaxDepth - n \in V /\ MaxDepth - (MaxDepth - n) = n
      BY <1>1, <2>3
    <3>2. QED
      BY <3>1
  <2>5. QED
    BY <2>4
<1>5. \A n \in 0 .. MaxDepth : n \in U
  <2>1. \A n \in 1 .. MaxDepth : n - 1 \in U => n \in U
    BY <1>1, <1>3, <1>4
  <2> HIDE DEF U
  <2>2. QED
    BY <1>1, <1>2, <2>1, HoldsUpTo
<1>6. QED
  BY <1>1, <1>5 DEF Proposition

\* A check r finds evidence, of es, or fails for what is not true.
Agrees(r, es, true) ==
  \/ r.error = "no" /\ r.evidence # {} /\ r.evidence \in AtMostOne(es)
  \/ r.error # "no" /\ r.evidence = {} /\ ~ true

LEMMA FoundAgrees ==
  ASSUME NEW es, NEW e \in es, NEW true
  PROVE  Agrees(Found(e), es, true)
BY DEF Agrees, Found, AtMostOne

LEMMA AtomAgrees ==
  ASSUME NEW a, NEW says, NEW s
  PROVE  Agrees(CheckAtom(a, says, s), ShowAtom(a, says, s), says[a] = "holds")
<1>1. CASE says[a] = "holds"
  <2>1. Holding(a, s) \in ShowAtom(a, says, s)
    BY <1>1 DEF ShowAtom
  <2>2. CheckAtom(a, says, s) = Found(Holding(a, s))
    BY <1>1 DEF CheckAtom
  <2>3. QED
    BY <2>1, <2>2, FoundAgrees
<1>2. CASE says[a] # "holds"
  <2>1. PICK error \in {"Deny", "IoError"} : CheckAtom(a, says, s) = Failed(error)
    BY <1>2 DEF CheckAtom
  <2>2. Failed(error).error # "no" /\ Failed(error).evidence = {}
    BY DEF Failed
  <2>3. QED
    BY <1>2, <2>1, <2>2 DEF Agrees
<1>3. QED
  BY <1>1, <1>2

LEMMA AndAgrees ==
  ASSUME NEW a, NEW b, NEW es, NEW fs, NEW t, NEW u, NEW v, v = (t /\ u),
         Agrees(a, es, t), Agrees(b, fs, u)
  PROVE  Agrees(CheckAnd(a, b), Pairs(es, fs), v)
<1>1. CASE a.error # "no"
  BY <1>1 DEF Agrees, CheckAnd
<1>2. CASE a.error = "no" /\ b.error # "no"
  BY <1>2 DEF Agrees, CheckAnd
<1>3. CASE a.error = "no" /\ b.error = "no"
  <2>1. PICK e \in es, f \in fs : a.evidence = {e} /\ b.evidence = {f}
    BY <1>3 DEF Agrees, AtMostOne
  <2>2. The(a.evidence) = e /\ The(b.evidence) = f
    BY <2>1 DEF The
  <2>3. CheckAnd(a, b) = Found(BothOf(e, f)) /\ BothOf(e, f) \in Pairs(es, fs)
    BY <1>3, <2>1, <2>2 DEF CheckAnd, Pairs
  <2>4. QED
    BY <2>3, FoundAgrees
<1>4. QED
  BY <1>1, <1>2, <1>3

LEMMA OrAgrees ==
  ASSUME NEW a, NEW b, NEW es, NEW fs, NEW t, NEW u, NEW v, v = (t \/ u),
         Agrees(a, es, t), Agrees(b, fs, u)
  PROVE  Agrees(CheckOr(a, b), ShowOr(es, fs), v)
<1>1. CASE a.error # "no" /\ b.error # "no"
  BY <1>1 DEF Agrees, CheckOr
<1>2. CASE a.error = "no" \/ b.error = "no"
  <2>1. a.evidence \in AtMostOne(es) /\ b.evidence \in AtMostOne(fs)
    BY DEF Agrees, AtMostOne
  <2>2. a.evidence # {} \/ b.evidence # {}
    BY <1>2 DEF Agrees
  <2>3. Sides(a.evidence, b.evidence) # Sides({}, {})
    BY <2>2, Selects
  <2>4. Sides(a.evidence, b.evidence) \in ShowOr(es, fs)
    BY <2>1, <2>3 DEF ShowOr
  <2>5. CheckOr(a, b) = Found(Sides(a.evidence, b.evidence))
    BY <1>2 DEF CheckOr
  <2>6. QED
    BY <2>4, <2>5, FoundAgrees
<1>3. QED
  BY <1>1, <1>2

LEMMA CheckAgrees ==
  ASSUME NEW says, NEW s, NEW P \in Proposition
  PROVE  Agrees(Results(says, s)[P], Evidence(says, s)[P], Truths(says)[P])
<1> DEFINE r == Results(says, s)
           E == Evidence(says, s)
           t == Truths(says)
           T == {Q \in Proposition : Agrees(r[Q], E[Q], t[Q])}
<1>1. \A Q \in Proposition : /\ r[Q] = CheckTurn(Q, r, says, s)
                             /\ E[Q] = ShowTurn(Q, E, says, s)
                             /\ t[Q] = TruthTurn(Q, t, says)
  BY ResultsTurn, EvidenceTurns, TruthsTurn
<1> HIDE DEF r, E, t
<1>2. ASSUME NEW a \in Atoms PROVE Atomic(a) \in T
  <2>1. Atomic(a) \in Proposition /\ Atomic(a)[1] = "atom" /\ Atomic(a)[2] = a
    BY PropositionForms DEF Made, Atomic
  <2>2. /\ r[Atomic(a)] = CheckAtom(a, says, s) /\ E[Atomic(a)] = ShowAtom(a, says, s)
        /\ t[Atomic(a)] = (says[a] = "holds")
    BY <1>1, <2>1 DEF CheckTurn, ShowTurn, TruthTurn
  <2>3. Agrees(CheckAtom(a, says, s), ShowAtom(a, says, s), says[a] = "holds")
    BY AtomAgrees
  <2>4. QED
    BY <2>1, <2>2, <2>3
<1>3. ASSUME NEW Q \in T, NEW R \in T, And(Q, R) \in Proposition PROVE And(Q, R) \in T
  <2>1. /\ r[And(Q, R)] = CheckAnd(r[Q], r[R]) /\ E[And(Q, R)] = Pairs(E[Q], E[R])
        /\ t[And(Q, R)] = (t[Q] /\ t[R])
    BY <1>1, <1>3, Selects DEF CheckTurn, ShowTurn, TruthTurn
  <2>2. Agrees(CheckAnd(r[Q], r[R]), Pairs(E[Q], E[R]), t[And(Q, R)])
    BY <2>1, AndAgrees
  <2>3. QED
    BY <1>3, <2>1, <2>2
<1>4. ASSUME NEW Q \in T, NEW R \in T, Or(Q, R) \in Proposition PROVE Or(Q, R) \in T
  <2>1. /\ r[Or(Q, R)] = CheckOr(r[Q], r[R]) /\ E[Or(Q, R)] = ShowOr(E[Q], E[R])
        /\ t[Or(Q, R)] = (t[Q] \/ t[R])
    BY <1>1, <1>4, Selects DEF CheckTurn, ShowTurn, TruthTurn
  <2>2. Agrees(CheckOr(r[Q], r[R]), ShowOr(E[Q], E[R]), t[Or(Q, R)])
    BY <2>1, OrAgrees
  <2>3. QED
    BY <1>4, <2>1, <2>2
<1>5. Proposition \subseteq T
  <2> HIDE DEF T
  <2>1. QED
    BY <1>2, <1>3, <1>4, HoldsOfPropositions
<1>6. QED
  BY <1>5 DEF r, E, t

-----------------------------------------------------------------------------
\* A proof pr has evidence of its proposition, found of its subject.
IsRight(w, pr) == Shows(Evidence(w[pr.subject], pr.subject), pr.of, pr.evidence)

ProofParts(w, pr, ot, an) ==
  /\ pr = NoProof \/ IsRight(w, pr)
  /\ ot = NoProof \/ IsRight(w, ot)
  /\ an = NoProof \/ ~ Truths(w[an[2]])[an[1]]
ProofInv == ProofParts(world, proof, other, answer)

LEMMA ProvenIs ==
  ASSUME NEW P, NEW s, NEW e
  PROVE  Proven(P, s, e).of = P /\ Proven(P, s, e).subject = s /\ Proven(P, s, e).evidence = e
BY DEF Proven

LEMMA ProveKeeps ==
  ASSUME ProofInv, NEW P \in Proposition, NEW s, Prove(P, s)
  PROVE  ProofInv'
<1>1. PICK r : r = Check(P, s) /\ Agrees(r, Evidence(world[s], s)[P], Truths(world[s])[P])
  BY CheckAgrees DEF Check
<1>2. /\ world' = world /\ other' = other
      /\ answer' = IF r.error = "no" THEN NoProof ELSE <<P, s, r.error>>
      /\ proof' = IF r.error = "no" THEN Proven(P, s, The(r.evidence)) ELSE NoProof
  BY <1>1 DEF Prove
<1>3. other = NoProof \/ IsRight(world, other)
  BY DEF ProofInv, ProofParts
<1>4. CASE r.error = "no"
  <2>1. Knows(Evidence(world[s], s), P, r.evidence) /\ r.evidence # {}
    BY <1>1, <1>4 DEF Agrees, Knows
  <2>2. Shows(Evidence(world[s], s), P, The(r.evidence))
    BY <2>1, KnownIs
  <2>3. IsRight(world, Proven(P, s, The(r.evidence)))
    BY <2>2, ProvenIs DEF IsRight
  <2>4. ProofParts(world, Proven(P, s, The(r.evidence)), other, NoProof)
    BY <1>3, <2>3 DEF ProofParts
  <2>5. QED
    BY <1>2, <1>4, <2>4 DEF ProofInv
<1>5. CASE r.error # "no"
  <2>1. ~ Truths(world[s])[P]
    BY <1>1, <1>5 DEF Agrees
  <2>2. <<P, s, r.error>>[1] = P /\ <<P, s, r.error>>[2] = s
    OBVIOUS
  <2>3. ProofParts(world, NoProof, other, <<P, s, r.error>>)
    BY <1>3, <2>1, <2>2 DEF ProofParts
  <2>4. QED
    BY <1>2, <1>5, <2>3 DEF ProofInv
<1>6. QED
  BY <1>4, <1>5

LEMMA ProveOtherKeeps ==
  ASSUME ProofInv, NEW a \in Atoms, NEW s, ProveOther(a, s)
  PROVE  ProofInv'
<1>1. Atomic(a) \in Proposition /\ Atomic(a)[1] = "atom" /\ Atomic(a)[2] = a
  BY PropositionForms DEF Made, Atomic
<1>2. Evidence(world[s], s)[Atomic(a)] = ShowAtom(a, world[s], s)
  BY <1>1, EvidenceTurns DEF ShowTurn
<1>3. Holding(a, s) \in ShowAtom(a, world[s], s)
  BY DEF ProveOther, ShowAtom
<1>4. PICK ot : ot = Proven(Atomic(a), s, Holding(a, s)) /\ IsRight(world, ot)
  BY <1>1, <1>2, <1>3, ProvenIs DEF IsRight, Shows
<1>5. ProofParts(world, proof, ot, answer)
  BY <1>4 DEF ProofInv, ProofParts
<1>6. world' = world /\ proof' = proof /\ other' = ot /\ answer' = answer
  BY <1>4 DEF ProveOther
<1>7. QED
  BY <1>5, <1>6 DEF ProofInv

LEMMA DeriveKeeps ==
  ASSUME ProofInv, Derive
  PROVE  ProofInv'
<1>1. PICK d \in Derivable(proof.of, proof.evidence) :
        d[1] \in Proposition /\ proof' = Proven(d[1], proof.subject, d[2])
  BY DEF Derive
<1>2. world' = world /\ other' = other /\ answer' = answer
  BY DEF Derive
<1>3. PICK E : E = Evidence(world[proof.subject], proof.subject) /\ Explains(E)
  BY EvidenceExplains
<1>4. Shows(E, proof.of, proof.evidence)
  BY <1>3 DEF Derive, ProofInv, ProofParts, IsRight
<1>5. Shows(E, d[1], d[2])
  BY <1>1, <1>3, <1>4, LawsAreSound
<1>6. PICK pr : pr = Proven(d[1], proof.subject, d[2]) /\ IsRight(world, pr)
  BY <1>3, <1>5, ProvenIs DEF IsRight
<1>7. ProofParts(world, pr, other, answer)
  BY <1>6 DEF ProofInv, ProofParts
<1>8. QED
  BY <1>1, <1>2, <1>6, <1>7 DEF ProofInv

LEMMA FromBothKeeps ==
  ASSUME ProofInv, FromBoth
  PROVE  ProofInv'
<1>1. PICK s : s = proof.subject /\ s = other.subject
  BY DEF FromBoth
<1>2. PICK E : E = Evidence(world[s], s) /\ Explains(E)
  BY EvidenceExplains
<1>3. Shows(E, proof.of, proof.evidence) /\ Shows(E, other.of, other.evidence)
  BY <1>1, <1>2 DEF FromBoth, ProofInv, ProofParts, IsRight
<1>4. And(proof.of, other.of) \in Proposition
  BY DEF FromBoth
<1>5. Shows(E, And(proof.of, other.of), BothOf(proof.evidence, other.evidence))
  BY <1>2, <1>3, <1>4, AndShown
<1>6. PICK pr : /\ pr = Proven(And(proof.of, other.of), s, BothOf(proof.evidence, other.evidence))
                /\ IsRight(world, pr)
  BY <1>2, <1>5, ProvenIs DEF IsRight
<1>7. ProofParts(world, pr, NoProof, answer)
  BY <1>6 DEF ProofInv, ProofParts
<1>8. world' = world /\ proof' = pr /\ other' = NoProof /\ answer' = answer
  BY <1>1, <1>6 DEF FromBoth
<1>9. QED
  BY <1>7, <1>8 DEF ProofInv

\* A proof that was checked, combined or derived by any laws, in any order, carries
\* evidence of all of its proposition, found of its own subject, and a check fails
\* only for what is not true of its subject (prove, from_both and TermDerive of
\* lib.rs, and the laws of boolean_algebra.rs), however deep propositions are.
THEOREM ProofsAreSound == ProofSpec => []EvidenceSupports
<1>1. ProofInit => ProofInv
  BY DEF ProofInit, ProofInv, ProofParts
<1>2. ProofInv /\ [ProofNext]_proofVars => ProofInv'
  <2> SUFFICES ASSUME ProofInv, [ProofNext]_proofVars PROVE ProofInv'
    OBVIOUS
  <2>1. CASE \E P \in Proposition, s \in Subjects : Prove(P, s)
    BY <2>1, ProveKeeps
  <2>2. CASE \E a \in Atoms, s \in Subjects : ProveOther(a, s)
    BY <2>2, ProveOtherKeeps
  <2>3. CASE Derive
    BY <2>3, DeriveKeeps
  <2>4. CASE FromBoth
    BY <2>4, FromBothKeeps
  <2>5. CASE UNCHANGED proofVars
    BY <2>5 DEF proofVars, ProofInv
  <2>6. QED
    BY <2>1, <2>2, <2>3, <2>4, <2>5 DEF ProofNext
<1>3. ProofInv => EvidenceSupports
  BY DEF ProofInv, ProofParts, IsRight, Shows, EvidenceSupports, Supports, IsTrue
<1>4. QED
  BY <1>1, <1>2, <1>3, PTL DEF ProofSpec
==============================================================================
