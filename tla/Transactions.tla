----------------------------- MODULE Transactions -----------------------------
(***************************************************************************)
(* The transactions of module Repository that consist of several           *)
(* statements, statement by statement and row lock by row lock, as         *)
(* PostgreSQL runs them under READ COMMITTED.  What a transaction writes   *)
(* is seen by itself alone until it commits.  A statement looks for its    *)
(* rows among what is committed when it begins; it then locks them one by  *)
(* one, waits for those that others have locked, and looks at each again   *)
(* once it has the lock.                                                   *)
(*                                                                         *)
(* The variables of Repository are the committed state.  The transactions  *)
(* that take their worker rows in one statement and wait for nothing       *)
(* (ReserveWorkersForTest skips locked rows), and the creation of rows,    *)
(* are left out: the rows of the tests exist.                              *)
(***************************************************************************)
EXTENDS Repository, Sequences

CONSTANTS
  Silent,             \* the workers whose last heartbeat is older than 120 s
  StopSession,        \* the connection of a StopTest request
  ReconcilerSession   \* the connection of the worker reconciler

ASSUME SessionsAssumption ==
  StopSession # ReconcilerSession /\ {StopSession, ReconcilerSession} \cap Workers = {}

VARIABLES
  tx,      \* tx[s]: the transaction open in session s, or NoTx
  locks,   \* locks[s]: the rows it has locked
  writes   \* writes[s]: its uncommitted writes, a function on some of them

sessionVars == <<tx, locks, writes>>

txVars == <<testStatus, workerStatus, heartbeatFresh, assignment, tx, locks, writes>>

\* The calls of a worker come one at a time, so each has a session.
Sessions == Workers \cup {StopSession, ReconcilerSession}

Test(t) == <<"tests", t>>
Worker(w) == <<"workers", w>>
Assignment(t, w) == <<"test_workers", t, w>>

Rows ==
  {Test(t) : t \in Tests} \cup {Worker(w) : w \in Workers} \cup
  {Assignment(t, w) : t \in Tests, w \in Workers}

Calls ==
  [op : {"running", "completed", "failed"}, test : Tests, worker : Workers] \cup
  [op : {"release"}, test : Tests] \cup
  [op : {"markOffline", "sweep"}]

\* The operations that look at a test before they lock it.
LookFirst == {"failed", "sweep"}

NoTx == [stage |-> 0]

\* No row is waited for.
Unblocked == <<>>

\* Defect variant: the completions of a test lock their siblings.
CompletionLockingSiblings == <<"lockAssignments", "completeAssignment", "freeWorker", "completeTest">>

\* Defect variant: the completions of a test are not serialised.
CompletionUnlocked == <<"completeAssignment", "freeWorker", "completeTest">>

CompletionStatements == <<"lockTest", "completeAssignment", "freeWorker", "completeTest">>

\* The statements of each transaction.
Statements(op) ==
  CASE op = "running"     -> <<"startAssignment", "occupyWorker">>
    [] op = "completed"   -> CompletionStatements
    [] op = "failed"      -> <<"failAssignment", "failTest">>
    [] op = "release"     -> <<"lockAssignments", "releaseWorkers", "completeAssignments">>
    [] op = "markOffline" -> <<"markOffline">>
    [] op = "sweep"       -> <<"failLost", "failTests">>

\* A transaction at statement `stage`: about to begin it, or blocked, waiting
\* for a row; todo are then the rows it has yet to lock, and hit says whether
\* it has written any.  History: early are the tests that were made RUNNING
\* while an operation in LookFirst was open.
Transactions ==
  [call : Calls, stage : 1..5, todo : SUBSET Rows, hit : BOOLEAN,
   blocked : Rows \cup {Unblocked}, early : SUBSET Tests]

AtStatement(call, stage, early) ==
  [call |-> call, stage |-> stage, todo |-> {}, hit |-> FALSE,
   blocked |-> Unblocked, early |-> early]

TransactionsTypeOK ==
  /\ DBTypeOK
  /\ tx \in [Sessions -> Transactions \cup {NoTx}]
  /\ locks \in [Sessions -> SUBSET Rows]
  /\ \A s \in Sessions : DOMAIN writes[s] \subseteq locks[s]
  /\ \A s, r \in Sessions : s # r => locks[s] \cap locks[r] = {}

\* Workers are reserved for the tests, and StartTest has still to write RUNNING.
TransactionsInit ==
  /\ testStatus = [t \in Tests |-> "STARTING"]
  /\ assignment \in [Tests -> [Workers -> {"RESERVED", NoRow}]]
  /\ workerStatus = [w \in Workers |-> "RESERVED"]
  /\ heartbeatFresh = [w \in Workers |-> w \notin Silent]
  /\ tx = [s \in Sessions |-> NoTx]
  /\ locks = [s \in Sessions |-> {}]
  /\ writes = [s \in Sessions |-> <<>>]

Open(s) == tx[s] # NoTx

LockedByOther(s, row) == \E r \in Sessions \ {s} : row \in locks[r]

-----------------------------------------------------------------------------
(* What a session sees, and what its statements are about                  *)

Committed(row) ==
  CASE row[1] = "tests"        -> testStatus[row[2]]
    [] row[1] = "workers"      -> workerStatus[row[2]]
    [] row[1] = "test_workers" -> assignment[row[2]][row[3]]

Seen(s, row) == IF row \in DOMAIN writes[s] THEN writes[s][row] ELSE Committed(row)

Statement(x) == Statements(x.call.op)[x.stage]

\* The rows in the WHERE clause of transaction x's statement, leaving aside
\* their status.
Scope(x) ==
  LET st == Statement(x)
      c == x.call
  IN  CASE st \in {"startAssignment", "completeAssignment", "failAssignment"} ->
               {Assignment(c.test, c.worker)}
        [] st \in {"occupyWorker", "freeWorker"} -> {Worker(c.worker)}
        [] st \in {"lockTest", "completeTest", "failTest"} -> {Test(c.test)}
        [] st \in {"lockAssignments", "completeAssignments"} ->
               {Assignment(c.test, w) : w \in AssignedWorkers(c.test)}
        [] st = "releaseWorkers" -> {Worker(w) : w \in AssignedWorkers(c.test)}
        [] st = "markOffline" -> {Worker(w) : w \in {v \in Workers : Overdue(v)}}
        [] st = "failLost" ->
             {Assignment(t, w) : t \in Tests, w \in {v \in Workers : workerStatus[v] = "OFFLINE"}}
        [] st = "failTests" -> {Test(t) : t \in Tests}

\* The statuses it asks for, and the one it writes (the same, if it only locks).
Wanted(st) ==
  CASE st \in {"startAssignment", "occupyWorker", "releaseWorkers"} -> {"RESERVED"}
    [] st \in {"completeAssignment", "freeWorker", "completeTest", "failTest", "failTests"} -> {"RUNNING"}
    [] st \in {"failAssignment", "failLost", "completeAssignments"} -> Active
    [] st = "markOffline" -> WorkerStatuses
    [] OTHER -> TestStatuses \cup AssignmentStatuses

\* Defect variant: the worker's row is given the status of the assignment.
WrittenToBoth(st, old) ==
  CASE st \in {"startAssignment", "occupyWorker"} -> "RUNNING"
    [] st \in {"completeAssignment", "completeTest", "completeAssignments", "freeWorker"} -> "COMPLETED"
    [] st = "releaseWorkers" -> "IDLE"
    [] st \in {"failAssignment", "failTest", "failLost", "failTests"} -> "FAILED"
    [] st = "markOffline" -> "OFFLINE"
    [] OTHER -> old

Written(st, old) ==
  CASE st \in {"startAssignment", "occupyWorker"} -> "RUNNING"
    [] st \in {"completeAssignment", "completeTest", "completeAssignments"} -> "COMPLETED"
    [] st \in {"freeWorker", "releaseWorkers"} -> "IDLE"
    [] st \in {"failAssignment", "failTest", "failLost", "failTests"} -> "FAILED"
    [] st = "markOffline" -> "OFFLINE"
    [] OTHER -> old

\* What it reads of other rows: completeTest only follows when no assignment
\* of the test is left, and failTests looks for a failed one.
Reads(s, st, row) ==
  LET seen == {Seen(s, Assignment(row[2], w)) : w \in AssignedWorkers(row[2])}
  IN  CASE st = "completeTest" -> seen \subseteq {"COMPLETED"}
        [] st = "failTests" -> "FAILED" \in seen
        [] OTHER -> TRUE

Matches(s, st, row) == Seen(s, row) \in Wanted(st)

\* An UPDATE that must find its row: otherwise ErrAssignmentNotFound.
MustFind(st) == st \in {"startAssignment", "completeAssignment", "failAssignment"}

-----------------------------------------------------------------------------
(* The steps of a transaction                                              *)

Closed(s) ==
  /\ tx' = [tx EXCEPT ![s] = NoTx]
  /\ locks' = [locks EXCEPT ![s] = {}]
  /\ writes' = [writes EXCEPT ![s] = <<>>]

\* A release follows the flip to STOPPING, applied or not, and does not look
\* at the status.
CallsOf(s) ==
  CASE s = StopSession       -> [op : {"release"}, test : Tests]
    [] s = ReconcilerSession -> [op : {"markOffline", "sweep"}]
    [] OTHER -> [op : {"running", "completed", "failed"}, test : Tests, worker : {s}]

\* The rows transaction x's statement has to lock: those that match when it
\* begins or, if it was blocked, those it had left.
Todo(s, x) ==
  IF x.blocked # Unblocked THEN x.todo
  ELSE {row \in Scope(x) : Matches(s, Statement(x), row) /\ Reads(s, Statement(x), row)}

\* It locks the rows `taken`, in some order, and writes those that match as
\* they are by then.
Takes(s, x, taken) ==
  LET st == Statement(x)
      written == {row \in taken : Matches(s, st, row)}
  IN  /\ \A row \in taken : ~LockedByOther(s, row)
      /\ x.blocked # Unblocked => x.blocked \in taken
      /\ locks' = [locks EXCEPT ![s] = @ \cup taken]
      /\ writes' = [writes EXCEPT ![s] = [row \in DOMAIN @ \cup written |->
                      IF row \in written THEN Written(st, Seen(s, row)) ELSE @[row]]]

Hit(s, x, taken) == x.hit \/ \E row \in taken : Matches(s, Statement(x), row)

\* The next row it comes to is locked by another session.
Blocks(s, x) ==
  \E taken \in SUBSET Todo(s, x) : \E row \in Todo(s, x) \ taken :
    /\ LockedByOther(s, row)
    /\ Takes(s, x, taken)
    /\ tx' = [tx EXCEPT ![s] = [x EXCEPT !.todo = Todo(s, x) \ taken,
                                         !.hit = Hit(s, x, taken), !.blocked = row]]
    /\ UNCHANGED dbVars

\* It locks all that is left and ends, and found what it must.
Finishes(s, x) ==
  /\ Takes(s, x, Todo(s, x))
  /\ MustFind(Statement(x)) => Hit(s, x, Todo(s, x))
  /\ tx' = [tx EXCEPT ![s] = AtStatement(x.call, x.stage + 1, x.early)]
  /\ UNCHANGED dbVars

\* ErrAssignmentNotFound: the deferred Rollback.
NotFound(s, x) ==
  /\ MustFind(Statement(x)) /\ ~Hit(s, x, Todo(s, x))
  /\ \A row \in Todo(s, x) : ~LockedByOther(s, row)
  /\ Closed(s)
  /\ UNCHANGED dbVars

Executes(s, x) == Blocks(s, x) \/ Finishes(s, x) \/ NotFound(s, x)

\* A transaction begins with its first statement: it sees and locks nothing
\* before it.
Begin(s) ==
  /\ ~Open(s)
  /\ \E call \in CallsOf(s) : Executes(s, AtStatement(call, 1, {}))

AllStatementsDone(s) == tx[s].stage > Len(Statements(tx[s].call.op))

Continue(s) ==
  /\ Open(s) /\ ~AllStatementsDone(s)
  /\ Executes(s, tx[s])

Commit(s) ==
  /\ Open(s) /\ AllStatementsDone(s)
  /\ testStatus' = [t \in Tests |-> Seen(s, Test(t))]
  /\ workerStatus' = [w \in Workers |-> Seen(s, Worker(w))]
  /\ assignment' = [t \in Tests |-> [w \in Workers |-> Seen(s, Assignment(t, w))]]
  /\ UNCHANGED heartbeatFresh
  /\ Closed(s)

\* A statement or the commit fails, the request is cancelled or the
\* connection breaks: Rollback.
Abort(s) ==
  /\ Open(s)
  /\ Closed(s)
  /\ UNCHANGED dbVars

\* A cycle of sessions each of which waits for a row of the next.
WaitsFor(s, r) == Open(s) /\ tx[s].blocked # Unblocked /\ tx[s].blocked \in locks[r]

Deadlock(cycle) ==
  /\ cycle # {}
  /\ \A s \in cycle : \E r \in cycle : WaitsFor(s, r)
  /\ \A s \in cycle : \E r \in cycle : WaitsFor(r, s)

\* PostgreSQL aborts one of the transactions of a deadlock.
DeadlockResolved ==
  \E cycle \in SUBSET {s \in Sessions : \E r \in Sessions : WaitsFor(s, r)} :
    /\ Deadlock(cycle)
    /\ \E s \in cycle : Closed(s)
    /\ UNCHANGED dbVars

\* The writes of StartTest and StopTest before a release, outside of
\* transactions, wait for the row's lock.  RUNNING is written without a
\* condition; the test is STARTING then, STOPPING or STOPPED.  The write of
\* STOPPED is left out: no transaction tells it from STOPPING.
RunningWritten(t) ==
  /\ \A s \in Sessions : Test(t) \notin locks[s]
  /\ testStatus[t] \in {"STARTING", "STOPPING"}
  /\ UpdateStatus(t, "RUNNING")
  /\ tx' = [s \in Sessions |->
              IF Open(s) /\ tx[s].call.op \in LookFirst
              THEN [tx[s] EXCEPT !.early = @ \cup {t}] ELSE tx[s]]
  /\ UNCHANGED <<locks, writes>>

StopWritten(t) ==
  /\ \A s \in Sessions : Test(t) \notin locks[s]
  /\ testStatus[t] \in {"STARTING", "RUNNING"}
  /\ UpdateStatus(t, "STOPPING")
  /\ UNCHANGED sessionVars

TransactionsNext ==
  \/ \E s \in Sessions : Begin(s) \/ Continue(s) \/ Commit(s) \/ Abort(s)
  \/ DeadlockResolved
  \/ \E t \in Tests : RunningWritten(t) \/ StopWritten(t)

TransactionsSpec == TransactionsInit /\ [][TransactionsNext]_txVars

-----------------------------------------------------------------------------
(* Safety                                                                  *)

\* The sessions of worker reports do not deadlock among themselves; a sweep
\* or the release of a stop has a part in every deadlock.
ReportsDoNotDeadlock == \A cycle \in SUBSET Workers : ~Deadlock(cycle)

\* The committed state before StartTest wrote RUNNING to the tests in early.
Before(early) ==
  INSTANCE Repository
    WITH testStatus <- [t \in Tests |-> IF t \in early THEN "STARTING" ELSE testStatus[t]]

\* The operator of Repository that a call is there.
Effect(call, early) ==
  CASE call.op = "running"     -> Before(early)!MarkAssignmentRunning(call.test, call.worker)
    [] call.op = "completed"   -> Before(early)!MarkAssignmentCompleted(call.test, call.worker)
    [] call.op = "failed"      -> Before(early)!MarkAssignmentFailed(call.test, call.worker)
    [] call.op = "release"     -> Before(early)!ReleaseWorkersForTest(call.test)
    [] call.op = "markOffline" -> Before(early)!MarkOfflineWorkers
    [] call.op = "sweep"       ->
         \E overlooked \in SUBSET Tests :
           Before(early)!MarkAssignmentsFailedForOfflineWorkers(overlooked)

\* What a transaction commits is what the operator of Repository does in one
\* step at that moment, whatever was committed since the transaction began;
\* a failure and a sweep may also do it just before StartTest wrote RUNNING,
\* if it did meanwhile.
CommitsAreAtomic ==
  [][\A s \in Sessions : Commit(s) =>
       \E early \in SUBSET tx[s].early :
         Effect(tx[s].call, early) /\ \A t \in early : testStatus'[t] = testStatus[t]]_txVars

=============================================================================
