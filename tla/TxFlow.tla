------------------------------- MODULE TxFlow -------------------------------
(***************************************************************************)
(* wakuwaku-entity/src/sqlx: flows that run as transactions, one after the *)
(* other, on a pool of one connection.  The step of a flow is the          *)
(* application's: it runs any queries, with any outcome, and returns any   *)
(* state.  Statements are numbered; what the database does with them and   *)
(* with COMMIT is external (backend/pgsql.rs:3-6, backend/mysql.rs:3-11).  *)
(***************************************************************************)
EXTENDS Naturals

CONSTANTS
  Level,       \* isolation levels
  MaxQueries,  \* bound: the queries of a flow
  MaxFlows     \* bound: the flows

ASSUME TxAssumption == MaxQueries \in Nat /\ MaxFlows \in Nat

VARIABLES
  backend,    \* the SqlxBackend
  conn,       \* the connection, as the server sees it
  applied,    \* ghost: the flow's statements that the server ran
  durable,    \* ghost: those of them that are committed
  isolation,  \* TxFlow::ISOLATION
  at,         \* where drive is
  state,      \* the flow's state: not terminal, or which TxEnd
  asked,      \* how many queries the flow ran
  aborted,    \* Tx::aborted
  commit,     \* TxState::commit
  output,     \* Done::output
  report,     \* Done::report
  told,       \* what the hook was called with
  flows       \* how many flows were started

connVars == <<conn, applied, durable>>
doneVars == <<commit, output, report, told>>
txVars == <<backend, connVars, isolation, at, state, asked, aborted, doneVars, flows>>

Backends == {"pgsql", "mysql"}
Default == "default level"
None == "none"
Ends == {"commit", "rollback"}

\* tx: whether the connection is in a transaction, and a usable one; next: the
\* level that SET TRANSACTION left for the next one.
Connected == [tx |-> "none", level |-> Default, next |-> Default]

InTx == at \in {"end", "step", "committing"}

-----------------------------------------------------------------------------
\* The outcome of a query: success, an error of its own, or the sqlx error
\* that it wraps.
ServerErrors == {"statement", "deadlock"}
ClientErrors == {"client"}
SqlxErrors == ServerErrors \cup ClientErrors \cup {"transport"}
Outcomes == SqlxErrors \cup {"ok", "own"}

\* SqlxBackend::aborts_transaction.
PgAborts(error) == error \notin ClientErrors
MySqlAborts(error) ==
  IF error \in ServerErrors THEN error = "deadlock" ELSE error \notin ClientErrors

Aborts(outcome) ==
  /\ outcome \in SqlxErrors
  /\ IF backend = "pgsql" THEN PgAborts(outcome) ELSE MySqlAborts(outcome)

\* The server runs a statement.  In a failed transaction of PostgreSQL it runs
\* none; outside of one, each commits at once.
ServerRuns(statement, outcome) ==
  /\ conn.tx = "failed" => outcome \in {"statement", "transport"}
  /\ conn' = CASE outcome = "transport" -> Connected
               [] outcome \in ServerErrors /\ backend = "pgsql" -> [conn EXCEPT !.tx = "failed"]
               [] outcome = "deadlock" /\ backend = "mysql" -> [conn EXCEPT !.tx = "none"]
               [] OTHER -> conn
  /\ IF outcome \in {"ok", "client"}
     THEN /\ applied' = applied \cup {statement}
          /\ durable' = IF conn.tx = "none" THEN durable \cup {statement} ELSE durable
     ELSE UNCHANGED <<applied, durable>>

-----------------------------------------------------------------------------
\* drive up to its loop.

NotBegun ==
  /\ output' = "Begin"
  /\ at' = "returned"
  /\ UNCHANGED <<backend, applied, durable, isolation, state, asked, aborted, commit, report,
                 told, flows>>

AcquirePlain ==  \* Mutant
  /\ at = "acquire"
  /\ at' = "begin"
  /\ UNCHANGED <<backend, connVars, isolation, state, asked, aborted, doneVars, flows>>

\* A connection from the pool.  Only MySQL has to be told the level first.
Acquire ==
  /\ at = "acquire"
  /\ at' = IF backend = "mysql" /\ isolation # Default THEN "isolation" ELSE "begin"
  /\ UNCHANGED <<backend, connVars, isolation, state, asked, aborted, doneVars, flows>>

\* No connection, one that is lost, or a statement that the server refuses.
BeginFails ==
  /\ at \in {"acquire", "isolation", "begin"}
  /\ conn' \in {conn, Connected}
  /\ NotBegun

SetIsolation ==
  /\ at = "isolation"
  /\ conn' = [conn EXCEPT !.next = isolation]
  /\ at' = "begin"
  /\ UNCHANGED <<backend, applied, durable, isolation, state, asked, aborted, doneVars, flows>>

\* BEGIN of PostgreSQL names the level, START TRANSACTION cannot.
LevelOfBegin == IF backend = "pgsql" THEN isolation ELSE conn.next

Begin ==
  /\ at = "begin"
  /\ conn' = [tx |-> "open", level |-> LevelOfBegin, next |-> Default]
  /\ at' = "end"
  /\ UNCHANGED <<backend, applied, durable, isolation, state, asked, aborted, doneVars, flows>>

-----------------------------------------------------------------------------
\* Tx::run.

RunUnguarded(outcome) ==  \* Mutant
  /\ at = "step" /\ asked < MaxQueries
  /\ asked' = asked + 1
  /\ ServerRuns(asked', outcome)
  /\ aborted' = (aborted \/ Aborts(outcome))
  /\ UNCHANGED <<backend, isolation, at, state, doneVars, flows>>

Run(outcome) ==
  /\ at = "step" /\ asked < MaxQueries
  /\ asked' = asked + 1
  /\ ~ aborted
  /\ ServerRuns(asked', outcome)
  /\ aborted' = Aborts(outcome)
  /\ UNCHANGED <<backend, isolation, at, state, doneVars, flows>>

RunAborted ==
  /\ at = "step" /\ asked < MaxQueries
  /\ asked' = asked + 1
  /\ aborted
  /\ UNCHANGED <<backend, connVars, isolation, at, state, aborted, doneVars, flows>>

\* The step returns Tx::with(next).
With(next) ==
  /\ at = "step"
  /\ state' = next
  /\ at' = "end"
  /\ UNCHANGED <<backend, connVars, isolation, asked, aborted, doneVars, flows>>

-----------------------------------------------------------------------------
\* close, of the state the transaction was closed with: finished gives an end,
\* as a rule that of "state", or none.
CloseOf(end, result) ==
  CASE end = None -> [output |-> "EndMismatch", report |-> None]
    [] end = "commit" /\ result = "ok" -> [output |-> "Committed", report |-> "Committed"]
    [] end = "commit" /\ result = "rejected" ->
         [output |-> "CommitRejected", report |-> "RolledBack"]
    [] end = "commit" /\ result = "lost" ->
         [output |-> "CommitUnknown", report |-> "CommitUnknown"]
    [] end = "commit" /\ result = None /\ aborted ->
         [output |-> "Aborted", report |-> "RolledBack"]
    [] end = "rollback" /\ result = None -> [output |-> "RolledBack", report |-> "RolledBack"]
    [] OTHER -> [output |-> "EndMismatch",
                 report |-> CASE result = "ok" -> "Committed"
                              [] result = "lost" -> "CommitUnknown"
                              [] OTHER -> "RolledBack"]

\* Mutant: any error of COMMIT taken for a rejection.
CloseOfLost(end, result) ==
  IF result = "lost" THEN [output |-> "CommitRejected", report |-> "RolledBack"]
  ELSE CloseOf(end, result)

CloseTrusting(end, result) ==  \* Mutant
  /\ output' = CloseOfLost(end, result).output
  /\ report' = CloseOfLost(end, result).report
  /\ at' = IF report' = None THEN "returned" ELSE "hook"

Close(end, result) ==
  /\ output' = CloseOf(end, result).output
  /\ report' = CloseOf(end, result).report
  /\ at' = IF report' = None THEN "returned" ELSE "hook"

\* Tx::end, called by drive or by the step on its last state.
EndOpen ==
  /\ at = "end" /\ state \notin Ends
  /\ at' = "step"
  /\ UNCHANGED <<backend, connVars, isolation, state, asked, aborted, doneVars, flows>>

EndCommit ==
  /\ at = "end" /\ state = "commit" /\ ~ aborted
  /\ at' = "committing"
  /\ UNCHANGED <<backend, connVars, isolation, state, asked, aborted, doneVars, flows>>

\* Whatever comes of ROLLBACK, what was not committed is gone.
EndRollback(end) ==
  /\ at = "end" /\ state \in Ends /\ (state = "rollback" \/ aborted)
  /\ conn' = [conn EXCEPT !.tx = "none"]
  /\ Close(end, None)
  /\ UNCHANGED <<backend, applied, durable, isolation, state, asked, aborted, commit, told, flows>>

\* The server commits: all, or nothing of a failed transaction, in silence.
ServerCommits == durable' = IF conn.tx = "open" THEN applied ELSE durable

\* The answer to COMMIT, or its loss.
Committed(result, end) ==
  /\ at = "committing"
  /\ conn' = IF result = "lost" THEN Connected ELSE [conn EXCEPT !.tx = "none"]
  /\ \/ result \in {"ok", "lost"} /\ ServerCommits
     \/ result \in {"rejected", "lost"} /\ UNCHANGED durable
  /\ commit' = result
  /\ Close(end, result)
  /\ UNCHANGED <<backend, applied, isolation, state, asked, aborted, told, flows>>

\* AfterTransaction: run_hook, whose failure goes to the error handler.
RunHook ==
  /\ at = "hook"
  /\ told' = report
  /\ at' = "returned"
  /\ UNCHANGED <<backend, connVars, isolation, state, asked, aborted, commit, output, report,
                 flows>>

-----------------------------------------------------------------------------
\* The caller.

FreshFlow ==
  /\ asked' = 0 /\ aborted' = FALSE
  /\ applied' = {} /\ durable' = {}
  /\ commit' = None /\ output' = None /\ report' = None /\ told' = None

\* Transaction(flow) is processed; its first state may be terminal.
StartFlow(level, first) ==
  /\ at \in {"returned", "dropped"} /\ flows < MaxFlows
  /\ flows' = flows + 1
  /\ isolation' = level
  /\ state' = first
  /\ at' = "acquire"
  /\ FreshFlow
  /\ UNCHANGED <<backend, conn>>

\* The future is dropped at an await, the transaction with it: the connection
\* goes back to the pool and is rolled back.  A COMMIT in flight is finished.
DropFuture ==
  /\ at \notin {"returned", "dropped"}
  /\ at' = "dropped"
  /\ conn' = [conn EXCEPT !.tx = "none"]
  /\ \/ at = "committing" /\ ServerCommits
     \/ UNCHANGED durable
  /\ UNCHANGED <<backend, applied, isolation, state, asked, aborted, doneVars, flows>>

\* A query on its own is a transaction in autocommit mode.
QueryAlone ==
  /\ at \in {"returned", "dropped"} /\ conn.next # Default
  /\ conn' = [conn EXCEPT !.next = Default]
  /\ UNCHANGED <<backend, applied, durable, isolation, at, state, asked, aborted, doneVars, flows>>

TxInit ==
  /\ backend \in Backends
  /\ conn = Connected
  /\ applied = {} /\ durable = {}
  /\ isolation = Default
  /\ at = "returned"
  /\ state = None
  /\ asked = 0
  /\ aborted = FALSE
  /\ commit = None /\ output = None /\ report = None /\ told = None
  /\ flows = 0

TxNext ==
  \/ \E level \in Level \cup {Default}, first \in Ends \cup {"open"} : StartFlow(level, first)
  \/ Acquire \/ BeginFails \/ SetIsolation \/ Begin
  \/ \E outcome \in Outcomes : Run(outcome)
  \/ RunAborted
  \/ \E next \in Ends \cup {"open"} : With(next)
  \/ EndOpen \/ EndCommit
  \/ \E end \in Ends \cup {None} :
       EndRollback(end) \/ \E result \in {"ok", "rejected", "lost"} : Committed(result, end)
  \/ RunHook
  \/ DropFuture \/ QueryAlone

TxSpec == TxInit /\ [][TxNext]_txVars

-----------------------------------------------------------------------------
TxTypeOK ==
  /\ backend \in Backends
  /\ conn \in [tx : {"none", "open", "failed"}, level : Level \cup {Default},
               next : Level \cup {Default}]
  /\ durable \subseteq applied /\ applied \subseteq 1 .. asked
  /\ isolation \in Level \cup {Default}
  /\ at \in {"acquire", "isolation", "begin", "end", "step", "committing", "hook", "returned",
             "dropped"}
  /\ state \in Ends \cup {"open", None}
  /\ asked \in 0 .. MaxQueries /\ flows \in 0 .. MaxFlows
  /\ aborted \in BOOLEAN
  /\ commit \in {None, "ok", "rejected", "lost"}
  /\ output \in {None, "Begin", "Committed", "RolledBack", "CommitRejected", "CommitUnknown",
                 "Aborted", "EndMismatch"}
  /\ {report, told} \subseteq {None, "Committed", "RolledBack", "CommitUnknown"}

\* A flow's statements are committed together or not at all, although MySQL
\* runs a statement that follows a deadlock outside of the transaction
\* (mysql.rs:4-7), and the future may be dropped anywhere.
AllOrNothing == durable \in {{}, applied}

\* Unless the flow knows that the transaction is aborted, the server still has
\* it open: a later statement runs in it, and COMMIT commits what it did.
UnabortedIsOpen == InTx /\ ~ aborted => conn.tx = "open"

\* What the caller gets and the hook is told is what the database did
\* (flow.rs:197-208 and 213-236), for a flow that finished does not give back
\* as well; for no other end than a lost answer it is left open.
Told(kind) == {report, told} \cap {kind} # {}

ReportTrue ==
  /\ Told("Committed") \/ output = "Committed" => durable = applied
  /\ Told("RolledBack") \/ output \in {"Begin", "RolledBack", "CommitRejected", "Aborted"}
       => durable = {}
  /\ durable # {} /\ at = "returned" =>
       output \in {"Committed", "CommitUnknown", "EndMismatch"}

\* A transaction whose flow names a level runs at it, on a connection on which
\* an earlier SET TRANSACTION may have been left without its transaction.
NamedLevelHolds == InTx /\ isolation # Default /\ conn.tx = "open" => conn.level = isolation
=============================================================================
