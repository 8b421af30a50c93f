----------------------------- MODULE MeiliSync -----------------------------
(***************************************************************************)
(* wakuwaku-entity/src/meilisearch/sync: writers whose AfterWrite hook is  *)
(* an Indexer, and rebuilds of the same index.  All share one source and,  *)
(* through Meilisearch's task queue, one index and its copy.  Meilisearch  *)
(* is external: requests enqueue tasks, which run in the order of the      *)
(* queue and may fail (write.rs:3-6).                                      *)
(***************************************************************************)
EXTENDS Naturals, Sequences, FiniteSets

CONSTANTS
  Writer,       \* clients that write rows
  NumKeys,      \* the keys are 1 .. NumKeys, in their order
  Document,     \* documents; every other row projects to none
  BatchSize,    \* RebuildOptions::batch_size
  MaxWork,      \* bound: writes to the source and rebuilds, together
  MaxFaults     \* bound: failed tasks, requests and loads, timeouts, crashes

NoRow == "no row"
NoDocument == "no document"

ASSUME SyncAssumption ==
  /\ NumKeys \in Nat /\ BatchSize \in Nat \ {0} /\ MaxWork \in Nat /\ MaxFaults \in Nat
  /\ {NoRow, NoDocument} \cap Document = {}

VARIABLES
  source,    \* the row of each key
  index,     \* the contents of "live" and "copy"
  queue,     \* Meilisearch's tasks that did not run yet
  ran,       \* how many ran
  failures,  \* those that failed, and why
  writer,    \* what each writer is doing
  rebuild,   \* the rebuild: where it is, and its local variables
  inclusive, \* whether the Scan's page wrongly begins with "after" itself
  loads,     \* ghost: loads of rows, counted
  newest,    \* ghost: for each key the newest load that a task was for
  doubt,     \* ghost: keys that have to be reindexed, as something failed or was missed
  crossed,   \* ghost: keys of which an older load was applied after a newer one
  exposed,   \* ghost: keys whose hooks overlapped, or failed
  touched,   \* ghost: for each key the number of its last write
  swapped,   \* ghost: the rebuilds whose swap ran
  writes, faults, rebuilds

serverVars == <<index, ran, failures>>
ghostVars == <<newest, doubt, crossed, exposed, swapped>>
syncVars == <<source, serverVars, queue, writer, rebuild, inclusive, loads, ghostVars, touched,
              writes, faults, rebuilds>>

RowKey == 1 .. NumKeys
Hidden == "draft"
NoIndex == [k \in {} |-> NoDocument]
Row == Document \cup {Hidden, NoRow}

\* Projection::project, and the absence of a row.
Project(row) == IF row \in Document THEN row ELSE NoDocument

Empty == [k \in RowKey |-> NoDocument]
DocumentsOf(i) == IF index[i] = NoIndex THEN Empty ELSE index[i]

-----------------------------------------------------------------------------
\* Tasks.  A task for documents maps keys to documents, or to none to delete.

Task(kind, on, docs, load) ==
  [kind |-> kind, on |-> on, docs |-> docs, load |-> load, since |-> 0]
NoDocs == [k \in {} |-> NoDocument]

NextUid == ran + Len(queue) + 1
Enqueue(task) == queue' = Append(queue, task)

\* upsert and delete_documents.
Overlay(docs, contents) == [k \in RowKey |-> IF k \in DOMAIN docs THEN docs[k] ELSE contents[k]]

\* The error of a task that cannot be run.
Refusal(task) ==
  CASE task.kind = "create" /\ index[task.on] # NoIndex -> "IndexAlreadyExists"
    [] task.kind \in {"drop", "delete"} /\ index[task.on] = NoIndex -> "IndexNotFound"
    [] OTHER -> "none"

Effect(task) ==
  CASE task.kind = "create" -> [index EXCEPT ![task.on] = Empty]
    [] task.kind = "drop" -> [index EXCEPT ![task.on] = NoIndex]
    [] task.kind = "swap" -> [live |-> index.copy, copy |-> index.live]
    [] OTHER -> [index EXCEPT ![task.on] = Overlay(task.docs, DocumentsOf(task.on))]

\* What the ghosts make of a task.  In doubt are the keys of a failed task, and
\* after a swap those that changed since its rebuild started.
Account(task, failed) ==
  LET ks == IF task.on = "live" THEN DOMAIN task.docs ELSE {}
      current == {k \in ks : task.load >= newest[k]}
      swaps == task.kind = "swap" /\ ~ failed
  IN /\ newest' = [k \in RowKey |-> IF k \in current THEN task.load ELSE newest[k]]
     /\ doubt' = IF swaps THEN {k \in RowKey : touched[k] > task.since}
                 ELSE IF failed THEN doubt \cup ks
                 ELSE doubt \ current
     /\ crossed' = IF swaps THEN {}
                   ELSE IF failed THEN crossed
                   ELSE (crossed \ current) \cup (ks \ (current \cup doubt))
     /\ swapped' = IF swaps THEN swapped \cup {task.load} ELSE swapped
     /\ UNCHANGED exposed

\* Meilisearch runs the next task.
RunTask ==
  /\ queue # <<>>
  /\ LET task == Head(queue) IN
     \/ /\ Refusal(task) = "none"
        /\ index' = Effect(task)
        /\ UNCHANGED <<failures, faults>>
        /\ Account(task, FALSE)
     \/ /\ Refusal(task) # "none"
        /\ failures' = failures \cup {[uid |-> ran + 1, error |-> Refusal(task)]}
        /\ UNCHANGED <<index, faults>>
        /\ Account(task, FALSE)
     \/ /\ faults < MaxFaults
        /\ faults' = faults + 1
        /\ failures' = failures \cup {[uid |-> ran + 1, error |-> "internal"]}
        /\ UNCHANGED index
        /\ Account(task, TRUE)
  /\ ran' = ran + 1
  /\ queue' = Tail(queue)
  /\ UNCHANGED <<source, writer, rebuild, inclusive, loads, touched, writes, rebuilds>>

\* Mutant: a task that failed is waited for like one that is enqueued.
HasSucceeded(uid) == uid <= ran /\ \A f \in failures : f.uid # uid

\* wait, of a task whose failure with one of these errors counts as success.
HasRun(uid) == uid <= ran
Tolerable(uid, errors) == \A f \in failures : f.uid = uid => f.error \in errors
Settled(uid, errors) == HasRun(uid) /\ Tolerable(uid, errors)

Fault == faults < MaxFaults /\ faults' = faults + 1

-----------------------------------------------------------------------------
\* AfterWrite with an Indexer as its hook.

Idle == [at |-> "idle", docs |-> NoDocs, load |-> 0]

\* The write query succeeds, and the change names its keys.  (One that fails
\* changes nothing and calls no hook.)
Write(w, rows) ==
  /\ writer[w].at = "idle" /\ writes + rebuilds < MaxWork
  /\ writes' = writes + 1
  /\ source' = [k \in RowKey |-> IF k \in DOMAIN rows THEN rows[k] ELSE source[k]]
  /\ touched' = [k \in RowKey |-> IF k \in DOMAIN rows THEN writes' ELSE touched[k]]
  /\ writer' = [writer EXCEPT ![w] =
                  [Idle EXCEPT !.at = "load", !.docs = [k \in DOMAIN rows |-> NoDocument]]]
  /\ UNCHANGED <<serverVars, queue, rebuild, inclusive, loads, ghostVars, faults, rebuilds>>

\* The rows of the keys, projected; a key without a row has no document.
LoadedRows(keys) == [k \in {k \in keys : source[k] # NoRow} |-> Project(source[k])]  \* Mutant
Loaded(keys) == [k \in keys |-> Project(source[k])]

\* The documents to upsert, and the keys to delete.
Upserts(docs) == [k \in {k \in DOMAIN docs : docs[k] # NoDocument} |-> docs[k]]
Deletes(docs) == [k \in {k \in DOMAIN docs : docs[k] = NoDocument} |-> docs[k]]

\* What the writer loaded of a row is still to be enqueued.
HasLoaded(w, k) ==
  /\ writer[w].at \in {"upsert", "delete"} /\ k \in DOMAIN writer[w].docs
  /\ writer[w].at = "delete" => writer[w].docs[k] = NoDocument

Load(w) ==
  LET docs == Loaded(DOMAIN writer[w].docs) IN
  /\ writer[w].at = "load"
  /\ loads' = loads + 1
  /\ writer' = [writer EXCEPT ![w] =
                  [at |-> IF Upserts(docs) = NoDocs THEN "delete" ELSE "upsert",
                   docs |-> docs, load |-> loads']]
  /\ exposed' = exposed \cup {k \in DOMAIN docs : \E v \in Writer \ {w} : HasLoaded(v, k)}
  /\ UNCHANGED <<source, serverVars, queue, rebuild, inclusive, newest, doubt, crossed, swapped,
                 touched, writes, faults, rebuilds>>

RequestOf(w) ==
  LET at == writer[w].at
      docs == writer[w].docs
  IN Task(at, "live", IF at = "upsert" THEN Upserts(docs) ELSE Deletes(docs), writer[w].load)

\* Upsert, then Delete, each if there is something for it.  Waiting for the
\* tasks only tells the caller what became of them: a writer that has enqueued
\* them may go on.
Request(w) ==
  /\ writer[w].at \in {"upsert", "delete"}
  /\ Enqueue(RequestOf(w))
  /\ writer' = [writer EXCEPT ![w] =
                  IF writer[w].at = "upsert" /\ Deletes(writer[w].docs) # NoDocs
                  THEN [@ EXCEPT !.at = "delete"] ELSE Idle]
  /\ UNCHANGED <<source, serverVars, rebuild, inclusive, loads, ghostVars, touched, writes,
                 faults, rebuilds>>

\* The load or a request fails, or the client crashes: the hook is over, which
\* its caller does not learn, and what was enqueued stays enqueued, the request
\* itself too if only its answer was lost.
HookFails(w) ==
  /\ writer[w].at # "idle"
  /\ Fault
  /\ \/ UNCHANGED queue
     \/ writer[w].at # "load" /\ Enqueue(RequestOf(w))
  /\ loads' = loads + 1
  /\ newest' = [k \in RowKey |-> IF k \in DOMAIN writer[w].docs THEN loads' ELSE newest[k]]
  /\ doubt' = doubt \cup DOMAIN writer[w].docs
  /\ exposed' = exposed \cup DOMAIN writer[w].docs
  /\ writer' = [writer EXCEPT ![w] = Idle]
  /\ UNCHANGED <<source, serverVars, rebuild, inclusive, touched, crossed, swapped, writes,
                 rebuilds>>

-----------------------------------------------------------------------------
\* rebuild.

\* Each of these steps enqueues a task and waits for it; those for "pages" and
\* "last" belong to the loop.
NextStep == [drop |-> "create", create |-> "settings", settings |-> "pages",
             live |-> "swap", swap |-> "cleanup", cleanup |-> "done"]
Steps == DOMAIN NextStep

\* The errors that tolerate passes over.
Tolerated(step) ==
  CASE step = "drop" -> {"IndexNotFound"}
    [] step = "live" -> {"IndexAlreadyExists"}
    [] OTHER -> {}

TaskOf(step) ==
  CASE step \in {"drop", "cleanup"} -> Task("drop", "copy", NoDocs, 0)
    [] step = "create" -> Task("create", "copy", NoDocs, 0)
    [] step = "settings" -> Task("settings", "copy", NoDocs, 0)
    [] step = "live" -> Task("create", "live", NoDocs, 0)
    [] step = "swap" -> [Task("swap", "copy", NoDocs, rebuilds) EXCEPT !.since = rebuild.since]

NotRunning == {"none", "done", "failed"}
Restful == [at |-> "none", since |-> 0, uid |-> 0, pending |-> 0, after |-> 0, short |-> FALSE]

\* One rebuild at a time (rebuild.rs:22-23).
StartRebuild ==
  /\ rebuild.at \in NotRunning /\ writes + rebuilds < MaxWork
  /\ rebuilds' = rebuilds + 1
  /\ rebuild' = [Restful EXCEPT !.at = "drop", !.since = writes]
  /\ UNCHANGED <<source, serverVars, queue, writer, inclusive, loads, ghostVars, touched, writes,
                 faults>>

RequestStep ==
  /\ rebuild.at \in Steps /\ rebuild.uid = 0
  /\ Enqueue(TaskOf(rebuild.at))
  /\ rebuild' = [rebuild EXCEPT !.uid = NextUid]
  /\ UNCHANGED <<source, serverVars, writer, inclusive, loads, ghostVars, touched, writes, faults,
                 rebuilds>>

SettleStep ==
  /\ rebuild.at \in Steps /\ rebuild.uid # 0
  /\ Settled(rebuild.uid, Tolerated(rebuild.at))
  /\ rebuild' = [rebuild EXCEPT !.at = NextStep[@], !.uid = 0]
  /\ UNCHANGED <<source, serverVars, queue, writer, inclusive, loads, ghostVars, touched, writes,
                 faults, rebuilds>>

\* Scan::page: at most BatchSize rows after a key, in the order of the keys.
After(k) == k > rebuild.after \/ (inclusive /\ k = rebuild.after)
PageKeys ==
  LET rows == {k \in RowKey : source[k] # NoRow /\ After(k)}
  IN {k \in rows : Cardinality({j \in rows : j < k}) < BatchSize}
LastOf(keys) == CHOOSE k \in keys : \A j \in keys : j <= k

IsLastPage(keys) == Cardinality(keys) < BatchSize

IsStuck(keys) == keys # {} /\ rebuild.after = LastOf(keys)

\* Reads a page and, if it holds documents, enqueues them; then the previous
\* write is waited for, so that one is in flight while the next page is read.
ReadPage ==
  LET keys == PageKeys
      batch == [k \in {k \in keys : Project(source[k]) # NoDocument} |-> Project(source[k])]
      short == IsLastPage(keys)
      go == IF short THEN "last" ELSE "pages"
  IN
  /\ rebuild.at = "pages"
  /\ \/ /\ keys = {}
        /\ rebuild' = [rebuild EXCEPT !.at = "last"]
        /\ UNCHANGED queue
     \/ /\ IsStuck(keys)
        /\ rebuild' = [rebuild EXCEPT !.at = "failed"]
        /\ UNCHANGED queue
     \/ /\ keys # {} /\ ~ IsStuck(keys) /\ DOMAIN batch = {}
        /\ rebuild' = [rebuild EXCEPT !.at = go, !.after = LastOf(keys)]
        /\ UNCHANGED queue
     \/ /\ keys # {} /\ ~ IsStuck(keys) /\ DOMAIN batch # {}
        /\ Enqueue(Task("upsert", "copy", batch, 0))
        /\ rebuild' = [rebuild EXCEPT !.at = IF rebuild.pending = 0 THEN go ELSE "previous",
                          !.uid = rebuild.pending, !.pending = NextUid,
                          !.after = LastOf(keys), !.short = short]
  /\ UNCHANGED <<source, serverVars, writer, inclusive, loads, ghostVars, touched, writes, faults,
                 rebuilds>>

SettlePrevious ==
  /\ rebuild.at = "previous"
  /\ Settled(rebuild.uid, {})
  /\ rebuild' = [rebuild EXCEPT !.at = IF rebuild.short THEN "last" ELSE "pages", !.uid = 0]
  /\ UNCHANGED <<source, serverVars, queue, writer, inclusive, loads, ghostVars, touched, writes,
                 faults, rebuilds>>

SettleLast ==
  /\ rebuild.at = "last"
  /\ rebuild.pending # 0 => Settled(rebuild.pending, {})
  /\ rebuild' = [rebuild EXCEPT !.at = "live"]
  /\ UNCHANGED <<source, serverVars, queue, writer, inclusive, loads, ghostVars, touched, writes,
                 faults, rebuilds>>

\* The task that the rebuild waits for; 0 if it waits for none.
Awaited == IF rebuild.at = "last" THEN rebuild.pending ELSE rebuild.uid

\* The task failed.
TaskFailed ==
  /\ rebuild.at \notin NotRunning /\ Awaited # 0 /\ HasRun(Awaited)
  /\ ~ Tolerable(Awaited, IF rebuild.at \in Steps THEN Tolerated(rebuild.at) ELSE {})
  /\ rebuild' = [rebuild EXCEPT !.at = "failed"]
  /\ UNCHANGED <<source, serverVars, queue, writer, inclusive, loads, ghostVars, touched, writes,
                 faults, rebuilds>>

\* A read or a request fails (enqueued all the same if its answer was lost), a
\* wait times out, although the task will run (write.rs:175-176), or the
\* process crashes.
RebuildFails ==
  /\ rebuild.at \notin NotRunning
  /\ Fault
  /\ \/ UNCHANGED queue
     \/ rebuild.at \in Steps /\ rebuild.uid = 0 /\ Enqueue(TaskOf(rebuild.at))
  /\ rebuild' = [rebuild EXCEPT !.at = "failed"]
  /\ UNCHANGED <<source, serverVars, writer, inclusive, loads, ghostVars, touched, writes,
                 rebuilds>>

SyncInit ==
  /\ source \in [RowKey -> Document \cup {NoRow}]
  /\ index = [i \in {"live", "copy"} |-> NoIndex]
  /\ queue = <<>>
  /\ ran = 0
  /\ failures = {}
  /\ writer = [w \in Writer |-> Idle]
  /\ rebuild = Restful
  /\ inclusive \in BOOLEAN
  /\ loads = 0
  /\ newest = [k \in RowKey |-> 0]
  /\ doubt = RowKey /\ crossed = {} /\ exposed = {}
  /\ touched = [k \in RowKey |-> 0]
  /\ swapped = {}
  /\ writes = 0 /\ faults = 0 /\ rebuilds = 0

RebuildStep ==
  \/ RequestStep \/ SettleStep \/ ReadPage \/ SettlePrevious \/ SettleLast \/ TaskFailed

SyncNext ==
  \/ RunTask
  \/ \E w \in Writer :
       \/ \E keys \in SUBSET RowKey \ {{}} : \E rows \in [keys -> Row] : Write(w, rows)
       \/ Load(w) \/ Request(w) \/ HookFails(w)
  \/ StartRebuild \/ RebuildStep \/ RebuildFails

SyncSpec == SyncInit /\ [][SyncNext]_syncVars

\* Meilisearch runs its tasks, and a rebuild goes on.
SyncFair == WF_syncVars(RunTask) /\ WF_syncVars(RebuildStep)

-----------------------------------------------------------------------------
SyncTypeOK ==
  /\ source \in [RowKey -> Row]
  /\ \A i \in {"live", "copy"} :
       index[i] = NoIndex \/ index[i] \in [RowKey -> Document \cup {NoDocument}]
  /\ ran \in Nat /\ \A f \in failures : f.uid \in 1 .. ran
  /\ \A w \in Writer : writer[w].at \in {"idle", "load", "upsert", "delete"}
  /\ rebuild.at \in Steps \cup NotRunning \cup {"pages", "previous", "last"}
  /\ rebuild.uid < NextUid /\ rebuild.pending < NextUid
  /\ doubt \cup crossed \cup exposed \subseteq RowKey /\ swapped \subseteq 1 .. rebuilds

Quiet == queue = <<>> /\ \A w \in Writer : writer[w].at = "idle"

\* When no reindexing is under way, the live index holds the document of every
\* row and of no other.  Excepted are keys in doubt, by a failure or by a rebuild
\* during which they changed, until one more reindexing or rebuild (rebuild.rs:69-71),
\* and keys whose reindexings crossed.  They only cross where two hooks of one key
\* overlap, the one loading before the other has enqueued what it loaded, or one
\* failed.
IndexTrue ==
  /\ Quiet => \A k \in RowKey \ (doubt \cup crossed) :
       DocumentsOf("live")[k] = Project(source[k])
  /\ crossed \subseteq exposed

\* What hook.rs:91-92 says: documents come from a fresh load, "so a change
\* delivered twice or late does no harm", here where no task failed.
LateChangesHarmless ==
  Quiet /\ failures = {} =>
    \A k \in RowKey \ doubt : DocumentsOf("live")[k] = Project(source[k])

\* What rebuild.rs:66 says: "On failure the live index is left as it was".
FailureLeavesLive == rebuild.at = "failed" => rebuilds \notin swapped

\* A rebuild ends, also if the pages of its Scan do not move on (rebuild.rs:78-83).
RebuildEnds == []<>(rebuild.at \in NotRunning)
=============================================================================
