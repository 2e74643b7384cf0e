--------------------------- MODULE TransactionsProofs ---------------------------
(***************************************************************************)
(* Theorems about module Transactions, for any tests and workers.  The     *)
(* inductive invariant says, transaction by transaction and statement by   *)
(* statement, which rows a session has locked, what it has written to      *)
(* them, and what of that the commits of others cannot have changed.       *)
(***************************************************************************)
EXTENDS Transactions, TLAPS

Has(s, row) == row \in DOMAIN writes[s]

Reports == {"running", "completed", "failed"}

\* The calls a session makes.
SessionCall(s, c) ==
  \/ s \in Workers /\ c \in [op : Reports, test : Tests, worker : {s}]
  \/ s = StopSession /\ c \in [op : {"release"}, test : Tests]
  \/ s = ReconcilerSession /\ c \in [op : {"markOffline", "sweep"}]

StatementCount(op) == Len(Statements(op))

\* The rows a report may lock.
ReportRows(c) == {Assignment(c.test, c.worker), Worker(c.worker), Test(c.test)}

\* The one row a statement of a report is about.
RowOf(x) ==
  CASE Statement(x) \in {"startAssignment", "completeAssignment", "failAssignment"} ->
            Assignment(x.call.test, x.call.worker)
    [] Statement(x) \in {"occupyWorker", "freeWorker"} -> Worker(x.call.worker)
    [] Statement(x) \in {"lockTest", "completeTest", "failTest"} -> Test(x.call.test)

\* A report locks no rows but its own.  A statement of a report is about one
\* row, so it is blocked before it has locked any.
ReportProgress(s, x) ==
  /\ x.hit = FALSE
  /\ locks[s] \subseteq ReportRows(x.call)
  /\ x.blocked # Unblocked =>
       /\ x.stage <= StatementCount(x.call.op)
       /\ x.blocked = RowOf(x) /\ x.todo = {RowOf(x)}
       /\ x.blocked \notin locks[s]

\* MarkAssignmentRunning: what it has not written it need not write.
RunningProgress(s, x) ==
  LET t == x.call.test
      a == Assignment(t, s)
      w == Worker(s)
  IN  /\ ~Has(s, Test(t))
      /\ Has(s, a) <=> x.stage \in {2, 3}
      /\ Has(s, a) => assignment[t][s] = "RESERVED" /\ writes[s][a] = "RUNNING"
      /\ Has(s, w) => x.stage = 3 /\ workerStatus[s] = "RESERVED" /\ writes[s][w] = "RUNNING"
      /\ x.stage = 3 => Has(s, w) \/ workerStatus[s] # "RESERVED"

\* MarkAssignmentCompleted: the lock on the test keeps its status and lets
\* no sibling complete.
CompletedProgress(s, x) ==
  LET t == x.call.test
      a == Assignment(t, s)
      w == Worker(s)
  IN  /\ Has(s, Test(t)) <=> x.stage \in 2..5
      /\ x.stage \in 2..4 => writes[s][Test(t)] = testStatus[t]
      /\ Has(s, a) <=> x.stage \in 3..5
      /\ Has(s, a) => assignment[t][s] = "RUNNING" /\ writes[s][a] = "COMPLETED"
      /\ Has(s, w) => x.stage \in 4..5 /\ workerStatus[s] = "RUNNING" /\ writes[s][w] = "IDLE"
      /\ x.stage \in 4..5 => Has(s, w) \/ workerStatus[s] # "RUNNING"
      /\ x.stage = 5 =>
           writes[s][Test(t)] = IF LastToComplete(t, s) /\ testStatus[t] = "RUNNING"
                                THEN "COMPLETED" ELSE testStatus[t]

\* MarkAssignmentFailed: a RUNNING test it did not fail became RUNNING after
\* it had looked.
FailedProgress(s, x) ==
  LET t == x.call.test
      a == Assignment(t, s)
  IN  /\ ~Has(s, Worker(s))
      /\ Has(s, a) <=> x.stage \in {2, 3}
      /\ Has(s, a) => assignment[t][s] \in Active /\ writes[s][a] = "FAILED"
      /\ Has(s, Test(t)) => x.stage = 3 /\ testStatus[t] = "RUNNING" /\ writes[s][Test(t)] = "FAILED"
      /\ x.stage = 3 => Has(s, Test(t)) \/ testStatus[t] # "RUNNING" \/ t \in x.early

\* ReleaseWorkersForTest: all assignments of the test are locked before the
\* first worker is.
ReleaseProgress(s, x) ==
  LET t == x.call.test
  IN  /\ \A row \in DOMAIN writes[s] : \E w \in AssignedWorkers(t) :
           row \in {Assignment(t, w), Worker(w)}
      /\ \A row \in x.todo : \E w \in AssignedWorkers(t) :
           row = IF x.stage = 1 THEN Assignment(t, w) ELSE Worker(w)
      /\ \A w \in AssignedWorkers(t) :
           /\ Has(s, Assignment(t, w)) =>
                writes[s][Assignment(t, w)] =
                  IF x.stage = 4 /\ assignment[t][w] \in Active THEN "COMPLETED" ELSE assignment[t][w]
           /\ \/ Has(s, Assignment(t, w))
              \/ x.stage = 1 /\ (x.blocked # Unblocked => Assignment(t, w) \in x.todo)
           /\ Has(s, Worker(w)) =>
                x.stage >= 2 /\ workerStatus[w] = "RESERVED" /\ writes[s][Worker(w)] = "IDLE"
           /\ \/ Has(s, Worker(w)) \/ workerStatus[w] # "RESERVED" \/ x.stage = 1
              \/ x.stage = 2 /\ (x.blocked # Unblocked => Worker(w) \in x.todo)
      /\ x.blocked # Unblocked => x.stage \in {1, 2}

\* MarkOfflineWorkers.
MarkOfflineProgress(s, x) ==
  /\ \A row \in DOMAIN writes[s] \cup x.todo : \E w \in Workers : Overdue(w) /\ row = Worker(w)
  /\ \A w \in Workers :
       /\ Has(s, Worker(w)) => writes[s][Worker(w)] = "OFFLINE"
       /\ Overdue(w) => \/ Has(s, Worker(w))
                        \/ x.stage = 1 /\ (x.blocked # Unblocked => Worker(w) \in x.todo)
  /\ x.blocked # Unblocked => x.stage = 1

\* A FAILED assignment of test t, as session s sees it.
HasCause(s, t) == \E w \in Workers : Has(s, Assignment(t, w)) \/ assignment[t][w] = "FAILED"

\* MarkAssignmentsFailedForOfflineWorkers: no assignment gets lost while it
\* runs, and of the tests it fails an assignment of none is overlooked.
SweepProgress(s, x) ==
  /\ \A row \in DOMAIN writes[s] \cup x.todo :
       \/ \E t \in Tests : row = Test(t) /\ HasCause(s, t) /\ x.stage >= 2
       \/ \E t \in Tests, w \in Workers :
            row = Assignment(t, w) /\ workerStatus[w] = "OFFLINE" /\ (row \in x.todo => x.stage = 1)
  /\ \A t \in Tests, w \in Workers :
       /\ Has(s, Assignment(t, w)) =>
            assignment[t][w] \in Active /\ writes[s][Assignment(t, w)] = "FAILED"
       /\ LostAssignment(t, w) =>
            \/ Has(s, Assignment(t, w))
            \/ x.stage = 1 /\ (x.blocked # Unblocked => Assignment(t, w) \in x.todo)
  /\ \A t \in Tests :
       /\ Has(s, Test(t)) => testStatus[t] = "RUNNING" /\ writes[s][Test(t)] = "FAILED"
       /\ (\E w \in Workers : Has(s, Assignment(t, w))) =>
            \/ Has(s, Test(t)) \/ testStatus[t] # "RUNNING" \/ t \in x.early \/ x.stage = 1
            \/ x.stage = 2 /\ (x.blocked # Unblocked => Test(t) \in x.todo)
  /\ x.blocked # Unblocked => x.stage \in {1, 2}

Progress(s, x) ==
  /\ SessionCall(s, x.call)
  /\ x.stage <= StatementCount(x.call.op) + 1
  /\ x.call.op \in Reports => ReportProgress(s, x)
  /\ x.call.op = "running" => RunningProgress(s, x)
  /\ x.call.op = "completed" => CompletedProgress(s, x)
  /\ x.call.op = "failed" => FailedProgress(s, x)
  /\ x.call.op = "release" => ReleaseProgress(s, x)
  /\ x.call.op = "markOffline" => MarkOfflineProgress(s, x)
  /\ x.call.op = "sweep" => SweepProgress(s, x)

RowsExist ==
  /\ testStatus \in [Tests -> TestStatuses]
  /\ workerStatus \in [Workers -> WorkerStatuses]
  /\ heartbeatFresh \in [Workers -> BOOLEAN]
  /\ assignment \in [Tests -> [Workers -> AssignmentStatuses \cup {NoRow}]]

LocksHeld ==
  /\ tx \in [Sessions -> Transactions \cup {NoTx}]
  /\ locks \in [Sessions -> SUBSET Rows]
  /\ DOMAIN writes = Sessions
  /\ \A s \in Sessions : DOMAIN writes[s] \subseteq locks[s]
  /\ \A s, r \in Sessions : s # r => locks[s] \cap locks[r] = {}
  /\ \A s \in Sessions : ~Open(s) => locks[s] = {}

TransactionsInv ==
  /\ RowsExist
  /\ LocksHeld
  /\ \A s \in Sessions : Open(s) => Progress(s, tx[s])

-----------------------------------------------------------------------------
(* Rows, calls and statements                                              *)

\* Rows of different tables, or with different keys, are different rows.
LEMMA RowsDiffer ==
  /\ \A t, u : Test(t) = Test(u) => t = u
  /\ \A w, v : Worker(w) = Worker(v) => w = v
  /\ \A t, u, w, v : Assignment(t, w) = Assignment(u, v) => t = u /\ w = v
  /\ \A t, u, w : Test(t) # Worker(w) /\ Test(t) # Assignment(u, w)
  /\ \A t, w, v : Worker(w) # Assignment(t, v)
  BY DEF Test, Worker, Assignment

LEMMA RowsOfTables ==
  /\ \A t \in Tests : Test(t) \in Rows
  /\ \A w \in Workers : Worker(w) \in Rows
  /\ \A t \in Tests, w \in Workers : Assignment(t, w) \in Rows
  /\ \A row \in Rows : \/ \E t \in Tests : row = Test(t)
                       \/ \E w \in Workers : row = Worker(w)
                       \/ \E t \in Tests, w \in Workers : row = Assignment(t, w)
  BY DEF Rows

LEMMA CommittedRows ==
  /\ \A t : Committed(Test(t)) = testStatus[t]
  /\ \A w : Committed(Worker(w)) = workerStatus[w]
  /\ \A t, w : Committed(Assignment(t, w)) = assignment[t][w]
  BY DEF Committed, Test, Worker, Assignment

LEMMA SeenRows ==
  ASSUME NEW s
  PROVE  /\ \A row \in DOMAIN writes[s] : Seen(s, row) = writes[s][row]
         /\ \A t : ~Has(s, Test(t)) => Seen(s, Test(t)) = testStatus[t]
         /\ \A w : ~Has(s, Worker(w)) => Seen(s, Worker(w)) = workerStatus[w]
         /\ \A t, w : ~Has(s, Assignment(t, w)) => Seen(s, Assignment(t, w)) = assignment[t][w]
  BY CommittedRows DEF Seen, Has

LEMMA SeenTest ==
  ASSUME NEW s, NEW t, ~Has(s, Test(t))
  PROVE  Seen(s, Test(t)) = testStatus[t]
  BY CommittedRows DEF Seen, Has

LEMMA CallShapes ==
  ASSUME NEW s \in Sessions, NEW c, SessionCall(s, c)
  PROVE  /\ c \in Calls
         /\ c.op \in Reports => s \in Workers /\ c.test \in Tests /\ c.worker = s
         /\ c.op = "release" => s = StopSession /\ c.test \in Tests
         /\ c.op \in {"markOffline", "sweep"} => s = ReconcilerSession
         /\ c.op \in Reports \cup {"release", "markOffline", "sweep"}
         /\ s \in Workers => c.op \in Reports
         /\ s = StopSession => c.op = "release"
         /\ s = ReconcilerSession => c.op \in {"markOffline", "sweep"}
  BY SessionsAssumption DEF SessionCall, Calls, Reports

LEMMA StatementCounts ==
  /\ StatementCount("running") = 2
  /\ StatementCount("completed") = 4
  /\ StatementCount("failed") = 2
  /\ StatementCount("release") = 3
  /\ StatementCount("markOffline") = 1
  /\ StatementCount("sweep") = 2
  BY DEF StatementCount, Statements, CompletionStatements

\* A report's statements, and the row each is about.
LEMMA RunningStatements ==
  ASSUME NEW x, x.call.op = "running"
  PROVE  /\ x.stage = 1 => /\ Statement(x) = "startAssignment"
                           /\ RowOf(x) = Assignment(x.call.test, x.call.worker)
         /\ x.stage = 2 => Statement(x) = "occupyWorker" /\ RowOf(x) = Worker(x.call.worker)
         /\ x.stage \in 1..2 => Scope(x) = {RowOf(x)}
  <1>1. Statements(x.call.op) = <<"startAssignment", "occupyWorker">>
    BY DEF Statements
  <1>. QED
    BY <1>1 DEF Statement, Scope, RowOf

LEMMA CompletedStatements ==
  ASSUME NEW x, x.call.op = "completed"
  PROVE  /\ x.stage = 1 => Statement(x) = "lockTest" /\ RowOf(x) = Test(x.call.test)
         /\ x.stage = 2 => /\ Statement(x) = "completeAssignment"
                           /\ RowOf(x) = Assignment(x.call.test, x.call.worker)
         /\ x.stage = 3 => Statement(x) = "freeWorker" /\ RowOf(x) = Worker(x.call.worker)
         /\ x.stage = 4 => Statement(x) = "completeTest" /\ RowOf(x) = Test(x.call.test)
         /\ x.stage \in 1..4 => Scope(x) = {RowOf(x)}
  <1>1. Statements(x.call.op) = <<"lockTest", "completeAssignment", "freeWorker", "completeTest">>
    BY DEF Statements, CompletionStatements
  <1>. QED
    BY <1>1 DEF Statement, Scope, RowOf

LEMMA FailedStatements ==
  ASSUME NEW x, x.call.op = "failed"
  PROVE  /\ x.stage = 1 => /\ Statement(x) = "failAssignment"
                           /\ RowOf(x) = Assignment(x.call.test, x.call.worker)
         /\ x.stage = 2 => Statement(x) = "failTest" /\ RowOf(x) = Test(x.call.test)
         /\ x.stage \in 1..2 => Scope(x) = {RowOf(x)}
  <1>1. Statements(x.call.op) = <<"failAssignment", "failTest">>
    BY DEF Statements
  <1>. QED
    BY <1>1 DEF Statement, Scope, RowOf

LEMMA ReleaseStatements ==
  ASSUME NEW x, x.call.op = "release"
  PROVE  LET held == {Assignment(x.call.test, w) : w \in AssignedWorkers(x.call.test)}
         IN  /\ x.stage = 1 => Statement(x) = "lockAssignments" /\ Scope(x) = held
             /\ x.stage = 2 => /\ Statement(x) = "releaseWorkers"
                               /\ Scope(x) = {Worker(w) : w \in AssignedWorkers(x.call.test)}
             /\ x.stage = 3 => Statement(x) = "completeAssignments" /\ Scope(x) = held
  <1>1. Statements(x.call.op) = <<"lockAssignments", "releaseWorkers", "completeAssignments">>
    BY DEF Statements
  <1>. QED
    BY <1>1 DEF Statement, Scope

LEMMA MarkOfflineStatements ==
  ASSUME NEW x, x.call.op = "markOffline", x.stage = 1
  PROVE  /\ Statement(x) = "markOffline"
         /\ Scope(x) = {Worker(w) : w \in {v \in Workers : Overdue(v)}}
  <1>1. Statements(x.call.op) = <<"markOffline">>
    BY DEF Statements
  <1>. QED
    BY <1>1 DEF Statement, Scope

LEMMA SweepStatements ==
  ASSUME NEW x, x.call.op = "sweep"
  PROVE  /\ x.stage = 1 =>
              /\ Statement(x) = "failLost"
              /\ Scope(x) = {Assignment(t, w) : t \in Tests,
                                                w \in {v \in Workers : workerStatus[v] = "OFFLINE"}}
         /\ x.stage = 2 => Statement(x) = "failTests" /\ Scope(x) = {Test(t) : t \in Tests}
  <1>1. Statements(x.call.op) = <<"failLost", "failTests">>
    BY DEF Statements
  <1>. QED
    BY <1>1 DEF Statement, Scope

-----------------------------------------------------------------------------
(* What a statement does                                                   *)

\* Session s keeps what it has written, and writes the rows in `written`.
WroteTo(s, st, written) ==
  /\ DOMAIN writes' = Sessions
  /\ \A r \in Sessions \ {s} : writes'[r] = writes[r]
  /\ DOMAIN writes'[s] = DOMAIN writes[s] \cup written
  /\ \A row \in DOMAIN writes[s] \ written : writes'[s][row] = writes[s][row]
  /\ \A row \in written : writes'[s][row] = Written(st, Seen(s, row))

\* The part of transaction x's statement that it has come to: the rows
\* `taken`, and the transaction after that.
Executed(s, x, taken, y) ==
  /\ taken \subseteq Todo(s, x)
  /\ x.blocked # Unblocked => x.blocked \in taken
  /\ \A row \in taken : ~LockedByOther(s, row)
  /\ locks' = [locks EXCEPT ![s] = @ \cup taken]
  /\ WroteTo(s, Statement(x), {row \in taken : Matches(s, Statement(x), row)})
  /\ tx' = [tx EXCEPT ![s] = y]
  /\ \/ /\ taken = Todo(s, x)
        /\ MustFind(Statement(x)) => Hit(s, x, taken)
        /\ y = AtStatement(x.call, x.stage + 1, x.early)
     \/ \E row \in Todo(s, x) \ taken :
          /\ LockedByOther(s, row)
          /\ y = [x EXCEPT !.todo = Todo(s, x) \ taken, !.hit = Hit(s, x, taken), !.blocked = row]

LEMMA TakesWrites ==
  ASSUME LocksHeld, NEW s \in Sessions, NEW x, NEW taken, Takes(s, x, taken)
  PROVE  WroteTo(s, Statement(x), {row \in taken : Matches(s, Statement(x), row)})
  <1> DEFINE st == Statement(x)
             written == {row \in taken : Matches(s, st, row)}
  <1>1. writes' = [writes EXCEPT ![s] = [row \in DOMAIN @ \cup written |->
                     IF row \in written THEN Written(st, Seen(s, row)) ELSE @[row]]]
    BY DEF Takes
  <1>2. DOMAIN writes = Sessions
    BY DEF LocksHeld
  <1> HIDE DEF st, written
  <1>3. /\ DOMAIN writes' = Sessions
        /\ \A r \in Sessions \ {s} : writes'[r] = writes[r]
        /\ writes'[s] = [row \in DOMAIN writes[s] \cup written |->
                           IF row \in written THEN Written(st, Seen(s, row)) ELSE writes[s][row]]
    BY <1>1, <1>2
  <1>4. WroteTo(s, st, written)
    BY <1>3 DEF WroteTo
  <1>. QED
    BY <1>4 DEF st, written

LEMMA StatementExecuted ==
  ASSUME LocksHeld, NEW s \in Sessions, NEW x, Executes(s, x)
  PROVE  /\ UNCHANGED dbVars
         /\ \/ Closed(s)
            \/ \E taken, y : Executed(s, x, taken, y)
  <1>1. CASE Finishes(s, x)
    <2>1. Executed(s, x, Todo(s, x), AtStatement(x.call, x.stage + 1, x.early))
      BY <1>1, TakesWrites DEF Finishes, Takes, Executed
    <2>. QED
      BY <1>1, <2>1 DEF Finishes
  <1>2. CASE Blocks(s, x)
    <2>1. PICK taken \in SUBSET Todo(s, x) : \E row \in Todo(s, x) \ taken :
            /\ LockedByOther(s, row)
            /\ Takes(s, x, taken)
            /\ tx' = [tx EXCEPT ![s] = [x EXCEPT !.todo = Todo(s, x) \ taken,
                                                 !.hit = Hit(s, x, taken), !.blocked = row]]
            /\ UNCHANGED dbVars
      BY <1>2 DEF Blocks
    <2>2. PICK row \in Todo(s, x) \ taken :
            /\ LockedByOther(s, row)
            /\ Takes(s, x, taken)
            /\ tx' = [tx EXCEPT ![s] = [x EXCEPT !.todo = Todo(s, x) \ taken,
                                                 !.hit = Hit(s, x, taken), !.blocked = row]]
            /\ UNCHANGED dbVars
      BY <2>1
    <2>3. Executed(s, x, taken, [x EXCEPT !.todo = Todo(s, x) \ taken,
                                          !.hit = Hit(s, x, taken), !.blocked = row])
      BY <2>2, TakesWrites DEF Takes, Executed
    <2>. QED
      BY <2>2, <2>3
  <1>3. CASE NotFound(s, x)
    BY <1>3 DEF NotFound
  <1>. QED
    BY <1>1, <1>2, <1>3 DEF Executes

-----------------------------------------------------------------------------
(* Locks                                                                   *)

LEMMA OpenTransactions ==
  /\ NoTx \notin Transactions
  /\ \A x \in Transactions : x.stage \in 1..5 /\ x.call \in Calls /\ x.todo \subseteq Rows
                             /\ x.early \subseteq Tests /\ x.hit \in BOOLEAN
  BY DEF NoTx, Transactions

LEMMA ScopeRows ==
  ASSUME NEW s \in Sessions, NEW x \in Transactions, SessionCall(s, x.call),
         x.stage <= StatementCount(x.call.op)
  PROVE  Scope(x) \subseteq Rows /\ x.stage <= 4
  <1> DEFINE t == x.call.test
             w == x.call.worker
  <1>1. x.stage \in 1..5
    BY OpenTransactions
  <1>2. /\ x.call.op \in Reports => t \in Tests /\ w \in Workers
        /\ x.call.op = "release" => t \in Tests
        /\ x.call.op \in Reports \cup {"release", "markOffline", "sweep"}
    BY CallShapes
  <1>3. ASSUME x.call.op \in Reports
        PROVE  Test(t) \in Rows /\ Worker(w) \in Rows /\ Assignment(t, w) \in Rows
    BY <1>2, <1>3, RowsOfTables
  <1>4. CASE x.call.op = "running"
    <2>1. x.stage \in 1..2
      BY <1>1, <1>4, StatementCounts
    <2>2. Scope(x) = {RowOf(x)} /\ RowOf(x) \in {Assignment(t, w), Worker(w)}
      BY <1>4, <2>1, RunningStatements
    <2>. QED
      BY <1>3, <1>4, <2>1, <2>2 DEF Reports
  <1>5. CASE x.call.op = "completed"
    <2>1. x.stage \in 1..4
      BY <1>1, <1>5, StatementCounts
    <2>2. Scope(x) = {RowOf(x)} /\ RowOf(x) \in {Assignment(t, w), Worker(w), Test(t)}
      BY <1>5, <2>1, CompletedStatements
    <2>. QED
      BY <1>3, <1>5, <2>1, <2>2 DEF Reports
  <1>6. CASE x.call.op = "failed"
    <2>1. x.stage \in 1..2
      BY <1>1, <1>6, StatementCounts
    <2>2. Scope(x) = {RowOf(x)} /\ RowOf(x) \in {Assignment(t, w), Test(t)}
      BY <1>6, <2>1, FailedStatements
    <2>. QED
      BY <1>3, <1>6, <2>1, <2>2 DEF Reports
  <1>7. CASE x.call.op = "release"
    <2>1. x.stage \in 1..3
      BY <1>1, <1>7, StatementCounts
    <2>2. Scope(x) \in {{Assignment(t, v) : v \in AssignedWorkers(t)}, {Worker(v) : v \in AssignedWorkers(t)}}
      BY <1>7, <2>1, ReleaseStatements
    <2>. QED
      BY <1>2, <1>7, <2>1, <2>2, RowsOfTables DEF AssignedWorkers
  <1>8. CASE x.call.op = "markOffline"
    <2>1. x.stage = 1
      BY <1>1, <1>8, StatementCounts
    <2>. QED
      BY <1>8, <2>1, MarkOfflineStatements, RowsOfTables
  <1>9. CASE x.call.op = "sweep"
    <2>1. x.stage \in 1..2
      BY <1>1, <1>9, StatementCounts
    <2>. QED
      BY <1>9, <2>1, SweepStatements, RowsOfTables
  <1>. QED
    BY <1>2, <1>4, <1>5, <1>6, <1>7, <1>8, <1>9 DEF Reports

LEMMA ClosedLocks ==
  ASSUME LocksHeld, NEW s \in Sessions, Closed(s)
  PROVE  LocksHeld' /\ ~Open(s)' /\ \A r \in Sessions \ {s} : tx'[r] = tx[r]
  BY DEF LocksHeld, Closed, Open

LEMMA ExecutedLocks ==
  ASSUME LocksHeld, NEW s \in Sessions, NEW x \in Transactions, NEW taken, NEW y,
         SessionCall(s, x.call), x.stage <= StatementCount(x.call.op),
         Executed(s, x, taken, y)
  PROVE  LocksHeld' /\ Open(s)' /\ \A r \in Sessions \ {s} : tx'[r] = tx[r]
  <1>1. Todo(s, x) \subseteq Rows
    BY ScopeRows, OpenTransactions DEF Todo
  <1>2. y \in Transactions
    <2>1. CASE y = AtStatement(x.call, x.stage + 1, x.early)
      BY <2>1, ScopeRows, OpenTransactions DEF AtStatement, Transactions
    <2>2. CASE \E row \in Todo(s, x) \ taken :
                 y = [x EXCEPT !.todo = Todo(s, x) \ taken, !.hit = Hit(s, x, taken), !.blocked = row]
      <3>1. PICK row \in Todo(s, x) \ taken :
                 y = [x EXCEPT !.todo = Todo(s, x) \ taken, !.hit = Hit(s, x, taken), !.blocked = row]
        BY <2>2
      <3>2. Hit(s, x, taken) \in BOOLEAN
        BY OpenTransactions DEF Hit
      <3>. QED
        BY <1>1, <3>1, <3>2 DEF Transactions
    <2>. QED
      BY <2>1, <2>2 DEF Executed
  <1>3. tx' \in [Sessions -> Transactions \cup {NoTx}] /\ tx'[s] = y
    BY <1>2 DEF LocksHeld, Executed
  <1>4. Open(s)'
    BY <1>2, <1>3, OpenTransactions DEF Open
  <1>5. \A r \in Sessions \ {s} : tx'[r] = tx[r] /\ locks'[r] = locks[r] /\ writes'[r] = writes[r]
    BY DEF LocksHeld, Executed, WroteTo
  <1>6. /\ locks' \in [Sessions -> SUBSET Rows]
        /\ locks'[s] = locks[s] \cup taken
        /\ DOMAIN writes' = Sessions
        /\ DOMAIN writes'[s] \subseteq locks'[s]
    BY <1>1 DEF LocksHeld, Executed, WroteTo
  <1>7. \A r, q \in Sessions : r # q => locks'[r] \cap locks'[q] = {}
    BY <1>5, <1>6 DEF LocksHeld, Executed, LockedByOther
  <1>. QED
    BY <1>3, <1>4, <1>5, <1>6, <1>7 DEF LocksHeld, Open

-----------------------------------------------------------------------------
(* The statements of reports                                               *)

LEMMA ReportScope ==
  ASSUME NEW x, x.call.op \in Reports, x.stage \in 1..5, x.stage <= StatementCount(x.call.op)
  PROVE  Scope(x) = {RowOf(x)} /\ RowOf(x) \in ReportRows(x.call)
  <1>1. CASE x.call.op = "running"
    <2>1. x.stage \in 1..2
      BY <1>1, StatementCounts
    <2>. QED
      BY <1>1, <2>1, RunningStatements DEF ReportRows
  <1>2. CASE x.call.op = "completed"
    <2>1. x.stage \in 1..4
      BY <1>2, StatementCounts
    <2>. QED
      BY <1>2, <2>1, CompletedStatements DEF ReportRows
  <1>3. CASE x.call.op = "failed"
    <2>1. x.stage \in 1..2
      BY <1>3, StatementCounts
    <2>. QED
      BY <1>3, <2>1, FailedStatements DEF ReportRows
  <1>. QED
    BY <1>1, <1>2, <1>3 DEF Reports

\* A report is blocked before it locks anything, or its statement ends: then
\* it has written its row, or that did not match.
ReportBlocked(s, x, y) ==
  /\ y = [x EXCEPT !.todo = {RowOf(x)}, !.hit = FALSE, !.blocked = RowOf(x)]
  /\ locks'[s] = locks[s] /\ RowOf(x) \notin locks[s]
  /\ WroteTo(s, Statement(x), {})

ReportEnded(s, x, y) ==
  /\ y = AtStatement(x.call, x.stage + 1, x.early)
  /\ locks'[s] \subseteq locks[s] \cup {RowOf(x)}
  /\ \/ /\ Matches(s, Statement(x), RowOf(x)) /\ WroteTo(s, Statement(x), {RowOf(x)})
        /\ x.blocked = Unblocked => Reads(s, Statement(x), RowOf(x))
     \/ /\ ~Matches(s, Statement(x), RowOf(x)) \/ ~Reads(s, Statement(x), RowOf(x))
        /\ ~MustFind(Statement(x)) /\ WroteTo(s, Statement(x), {})

LEMMA ReportExecuted ==
  ASSUME LocksHeld, NEW s \in Sessions, NEW x \in Transactions, NEW taken, NEW y,
         x.call.op \in Reports, x.stage <= StatementCount(x.call.op),
         ReportProgress(s, x), Executed(s, x, taken, y)
  PROVE  ReportBlocked(s, x, y) \/ ReportEnded(s, x, y)
  <1> DEFINE row == RowOf(x)
             st  == Statement(x)
  <1>1. Scope(x) = {row}
    BY ReportScope, OpenTransactions
  <1>2. /\ Todo(s, x) \subseteq {row}
        /\ x.blocked # Unblocked => Todo(s, x) = {row} /\ x.blocked = row
        /\ x.blocked = Unblocked =>
             (Todo(s, x) = {row} <=> Matches(s, st, row) /\ Reads(s, st, row))
    BY <1>1 DEF Todo, ReportProgress
  <1> HIDE DEF row, st
  <1>3. /\ taken \subseteq {row} /\ x.hit = FALSE
        /\ locks'[s] = locks[s] \cup taken
        /\ WroteTo(s, st, {r \in taken : Matches(s, st, r)})
    BY <1>2 DEF Executed, LocksHeld, ReportProgress, st
  <1>4. Hit(s, x, taken) <=> (taken = {row} /\ Matches(s, st, row))
    BY <1>3 DEF Hit, st
  <1>5. \/ taken = {} /\ {r \in taken : Matches(s, st, r)} = {}
        \/ taken = {row} /\ Matches(s, st, row) /\ {r \in taken : Matches(s, st, r)} = {row}
        \/ taken = {row} /\ ~Matches(s, st, row) /\ {r \in taken : Matches(s, st, r)} = {}
    BY <1>3
  <1>6. CASE \E r \in Todo(s, x) \ taken :
               /\ LockedByOther(s, r)
               /\ y = [x EXCEPT !.todo = Todo(s, x) \ taken, !.hit = Hit(s, x, taken), !.blocked = r]
    <2>1. /\ taken = {} /\ Todo(s, x) = {row} /\ LockedByOther(s, row) /\ Todo(s, x) \ taken = {row}
          /\ y = [x EXCEPT !.todo = Todo(s, x) \ taken, !.hit = Hit(s, x, taken), !.blocked = row]
      BY <1>2, <1>3, <1>6
    <2>2. row \notin locks[s]
      BY <2>1 DEF LocksHeld, LockedByOther
    <2>3. Hit(s, x, taken) = FALSE
      BY <1>3, <2>1 DEF Hit
    <2>. QED
      BY <1>3, <1>5, <2>1, <2>2, <2>3 DEF ReportBlocked, row, st
  <1>7. CASE /\ taken = Todo(s, x)
             /\ MustFind(st) => Hit(s, x, taken)
             /\ y = AtStatement(x.call, x.stage + 1, x.early)
    <2>1. /\ taken = {} => ~Matches(s, st, row) \/ ~Reads(s, st, row)
          /\ taken = {row} /\ x.blocked = Unblocked => Reads(s, st, row)
      BY <1>2, <1>7
    <2>2. MustFind(st) => taken = {row} /\ Matches(s, st, row)
      BY <1>4, <1>7
    <2>. QED
      BY <1>3, <1>5, <1>7, <2>1, <2>2 DEF ReportEnded, row, st
  <1>. QED
    BY <1>6, <1>7 DEF Executed, st

LEMMA ReportKept ==
  ASSUME LocksHeld, NEW s \in Sessions, NEW x \in Transactions, NEW taken, NEW y,
         x.call.op \in Reports, x.stage <= StatementCount(x.call.op),
         ReportProgress(s, x), Executed(s, x, taken, y)
  PROVE  ReportProgress(s, y)'
  <1>1. RowOf(x) \in ReportRows(x.call)
    BY ReportScope, OpenTransactions
  <1>2. ReportBlocked(s, x, y) \/ ReportEnded(s, x, y)
    BY ReportExecuted
  <1>3. CASE ReportBlocked(s, x, y)
    <2>1. /\ y.call = x.call /\ y.stage = x.stage /\ y.hit = FALSE
          /\ y.todo = {RowOf(x)} /\ y.blocked = RowOf(x)
      BY <1>3 DEF ReportBlocked, Transactions
    <2>2. RowOf(y) = RowOf(x)
      BY <2>1 DEF RowOf, Statement
    <2>. QED
      BY <1>3, <2>1, <2>2 DEF ReportBlocked, ReportProgress
  <1>4. CASE ReportEnded(s, x, y)
    BY <1>1, <1>4 DEF ReportEnded, ReportProgress, AtStatement
  <1>. QED
    BY <1>2, <1>3, <1>4

\* What the statements of a report write, row by row.
LEMMA StatementsWant ==
  /\ \A st \in {"startAssignment", "occupyWorker", "releaseWorkers"} : Wanted(st) = {"RESERVED"}
  /\ \A st \in {"completeAssignment", "freeWorker", "completeTest", "failTest", "failTests"} :
       Wanted(st) = {"RUNNING"}
  /\ \A st \in {"failAssignment", "failLost", "completeAssignments"} : Wanted(st) = Active
  /\ Wanted("markOffline") = WorkerStatuses
  /\ \A st \in {"lockTest", "lockAssignments"} : Wanted(st) = TestStatuses \cup AssignmentStatuses
  BY DEF Wanted

LEMMA StatementsWrite ==
  ASSUME NEW old
  PROVE  /\ \A st \in {"startAssignment", "occupyWorker"} : Written(st, old) = "RUNNING"
         /\ \A st \in {"completeAssignment", "completeTest", "completeAssignments"} :
              Written(st, old) = "COMPLETED"
         /\ \A st \in {"freeWorker", "releaseWorkers"} : Written(st, old) = "IDLE"
         /\ \A st \in {"failAssignment", "failTest", "failLost", "failTests"} : Written(st, old) = "FAILED"
         /\ Written("markOffline", old) = "OFFLINE"
         /\ \A st \in {"lockTest", "lockAssignments"} : Written(st, old) = old
  BY DEF Written

LEMMA ReadsOnlyTests ==
  ASSUME NEW s, NEW st, NEW row, st \notin {"completeTest", "failTests"}
  PROVE  Reads(s, st, row)
  BY DEF Reads

LEMMA RunningStep ==
  ASSUME RowsExist, LocksHeld, NEW s \in Workers, NEW x \in Transactions, NEW y,
         x.call.op = "running", SessionCall(s, x.call),
         x.stage <= StatementCount(x.call.op), RunningProgress(s, x),
         ReportBlocked(s, x, y) \/ ReportEnded(s, x, y), UNCHANGED dbVars
  PROVE  RunningProgress(s, y)'
  <1> DEFINE t == x.call.test
             row == RowOf(x)
             st == Statement(x)
  <1>1. s \in Sessions /\ x.call.worker = s /\ t \in Tests
    BY CallShapes DEF Sessions, Reports
  <1>2. x.stage \in 1..2
    BY StatementCounts, OpenTransactions
  <1>3. CASE ReportBlocked(s, x, y)
    <2>1. y.call = x.call /\ y.stage = x.stage
      BY <1>3 DEF ReportBlocked, Transactions
    <2>2. DOMAIN writes'[s] = DOMAIN writes[s] /\ \A r \in DOMAIN writes[s] : writes'[s][r] = writes[s][r]
      BY <1>3 DEF ReportBlocked, WroteTo
    <2>. QED
      BY <2>1, <2>2 DEF RunningProgress, Has, dbVars
  <1>4. CASE ReportEnded(s, x, y)
    <2>1. y.call = x.call /\ y.stage = x.stage + 1
      BY <1>4 DEF ReportEnded, AtStatement
    <2>2. CASE x.stage = 1
      <3>1. st = "startAssignment" /\ row = Assignment(t, s)
        BY <1>1, <2>2, RunningStatements
      <3>2. DOMAIN writes[s] \cap {Assignment(t, s), Worker(s), Test(t)} = {}
        BY <2>2 DEF RunningProgress, Has
      <3>3. WroteTo(s, st, {row}) /\ Matches(s, st, row)
        BY <1>4, <3>1, ReadsOnlyTests DEF ReportEnded, MustFind
      <3>4. assignment[t][s] = "RESERVED" /\ writes'[s][row] = "RUNNING"
        BY <3>1, <3>2, <3>3, SeenRows, StatementsWant, StatementsWrite DEF Matches, WroteTo, Has
      <3>5. DOMAIN writes'[s] = DOMAIN writes[s] \cup {row}
        BY <3>3 DEF WroteTo
      <3>. QED
        BY <2>1, <2>2, <3>1, <3>2, <3>4, <3>5, RowsDiffer DEF RunningProgress, Has, dbVars
    <2>3. CASE x.stage = 2
      <3>1. st = "occupyWorker" /\ row = Worker(s)
        BY <1>1, <2>3, RunningStatements
      <3>2. ~Has(s, Worker(s)) /\ ~Has(s, Test(t)) /\ Has(s, Assignment(t, s))
        BY <2>3 DEF RunningProgress
      <3>3. Seen(s, row) = workerStatus[s] /\ Wanted(st) = {"RESERVED"}
        BY <3>1, <3>2, SeenRows, StatementsWant
      <3>4. Reads(s, st, row) /\ (Matches(s, st, row) <=> workerStatus[s] = "RESERVED")
        BY <3>1, <3>3, ReadsOnlyTests DEF Matches
      <3>5. CASE Matches(s, st, row) /\ WroteTo(s, st, {row})
        <4>1. /\ DOMAIN writes'[s] = DOMAIN writes[s] \cup {Worker(s)}
              /\ writes'[s][Worker(s)] = "RUNNING"
              /\ writes'[s][Assignment(t, s)] = writes[s][Assignment(t, s)]
          BY <3>1, <3>2, <3>5, RowsDiffer, StatementsWrite DEF WroteTo, Has
        <4>. QED
          BY <2>1, <2>3, <3>2, <3>4, <3>5, <4>1, RowsDiffer DEF RunningProgress, Has, dbVars
      <3>6. CASE ~Matches(s, st, row) /\ WroteTo(s, st, {})
        <4>1. /\ DOMAIN writes'[s] = DOMAIN writes[s]
              /\ writes'[s][Assignment(t, s)] = writes[s][Assignment(t, s)]
          BY <3>2, <3>6 DEF WroteTo, Has
        <4>. QED
          BY <2>1, <2>3, <3>2, <3>4, <3>6, <4>1 DEF RunningProgress, Has, dbVars
      <3>. QED
        BY <1>4, <3>4, <3>5, <3>6 DEF ReportEnded
    <2>. QED
      BY <1>2, <2>2, <2>3
  <1>. QED
    BY <1>3, <1>4

\* With the row of its own assignment written, a completion sees that it is
\* the last exactly when LastToComplete says so.
LEMMA SeesLast ==
  ASSUME LocksHeld, NEW s \in Sessions, NEW t, assignment[t][s] # NoRow, s \in Workers,
         locks[s] \subseteq {Assignment(t, s), Worker(s), Test(t)},
         Has(s, Assignment(t, s)), writes[s][Assignment(t, s)] = "COMPLETED"
  PROVE  Reads(s, "completeTest", Test(t)) <=> LastToComplete(t, s)
  <1>1. Test(t)[2] = t
    BY DEF Test
  <1>2. \A v \in AssignedWorkers(t) \ {s} : Seen(s, Assignment(t, v)) = assignment[t][v]
    <2>1. \A v \in AssignedWorkers(t) \ {s} : ~Has(s, Assignment(t, v))
      BY RowsDiffer DEF LocksHeld, Has
    <2>. QED
      BY <2>1, SeenRows
  <1>3. Seen(s, Assignment(t, s)) = "COMPLETED" /\ s \in AssignedWorkers(t)
    BY SeenRows DEF Has, AssignedWorkers
  <1>4. Reads(s, "completeTest", Test(t)) <=>
          \A v \in AssignedWorkers(t) : Seen(s, Assignment(t, v)) = "COMPLETED"
    BY <1>1 DEF Reads
  <1>. QED
    BY <1>2, <1>3, <1>4 DEF LastToComplete

LEMMA CompletedStep ==
  ASSUME RowsExist, LocksHeld, NEW s \in Workers, NEW x \in Transactions, NEW y,
         x.call.op = "completed", SessionCall(s, x.call), ReportProgress(s, x),
         x.stage <= StatementCount(x.call.op), CompletedProgress(s, x),
         ReportBlocked(s, x, y) \/ ReportEnded(s, x, y), UNCHANGED dbVars
  PROVE  CompletedProgress(s, y)'
  <1> DEFINE t == x.call.test
             row == RowOf(x)
             st == Statement(x)
  <1>1. s \in Sessions /\ x.call.worker = s /\ t \in Tests
    BY CallShapes DEF Sessions, Reports
  <1>2. x.stage \in 1..4
    BY StatementCounts, OpenTransactions
  <1>l. LastToComplete(t, s)' = LastToComplete(t, s)
    BY DEF LastToComplete, AssignedWorkers, dbVars
  <1>3. CASE ReportBlocked(s, x, y)
    <2>1. y.call = x.call /\ y.stage = x.stage
      BY <1>3 DEF ReportBlocked, Transactions
    <2>2. DOMAIN writes'[s] = DOMAIN writes[s] /\ \A r \in DOMAIN writes[s] : writes'[s][r] = writes[s][r]
      BY <1>3 DEF ReportBlocked, WroteTo
    <2>. QED
      BY <1>2, <2>1, <2>2 DEF CompletedProgress, Has, dbVars
  <1>4. CASE ReportEnded(s, x, y)
    <2>1. y.call = x.call /\ y.stage = x.stage + 1
      BY <1>4 DEF ReportEnded, AtStatement
    <2>2. CASE x.stage = 1
      <3>1. st = "lockTest" /\ row = Test(t)
        BY <1>1, <2>2, CompletedStatements
      <3>2. DOMAIN writes[s] \cap {Assignment(t, s), Worker(s), Test(t)} = {}
        BY <2>2 DEF CompletedProgress, Has
      <3>3. Seen(s, row) = testStatus[t] /\ testStatus[t] \in Wanted(st)
        <4>1. Wanted(st) = TestStatuses \cup AssignmentStatuses
          BY <3>1, StatementsWant
        <4>2. ~Has(s, Test(t)) /\ testStatus[t] \in TestStatuses
          BY <1>1, <3>2 DEF RowsExist, Has
        <4>3. Seen(s, Test(t)) = testStatus[t]
          BY <4>2, SeenTest
        <4>. QED
          BY <3>1, <4>1, <4>2, <4>3
      <3>4. WroteTo(s, st, {row})
        BY <1>4, <3>1, <3>3, ReadsOnlyTests DEF ReportEnded, Matches
      <3>5. DOMAIN writes'[s] = DOMAIN writes[s] \cup {row} /\ writes'[s][row] = testStatus[t]
        BY <3>1, <3>3, <3>4, StatementsWrite DEF WroteTo
      <3>. QED
        BY <2>1, <2>2, <3>1, <3>2, <3>5, RowsDiffer DEF CompletedProgress, Has, dbVars
    <2>3. CASE x.stage = 2
      <3>1. st = "completeAssignment" /\ row = Assignment(t, s)
        BY <1>1, <2>3, CompletedStatements
      <3>2. ~Has(s, Worker(s)) /\ Has(s, Test(t)) /\ ~Has(s, Assignment(t, s))
        BY <2>3 DEF CompletedProgress
      <3>3. WroteTo(s, st, {row}) /\ Matches(s, st, row)
        BY <1>4, <3>1 DEF ReportEnded, MustFind
      <3>4. assignment[t][s] = "RUNNING" /\ writes'[s][row] = "COMPLETED"
        BY <3>1, <3>2, <3>3, SeenRows, StatementsWant, StatementsWrite DEF Matches, WroteTo
      <3>5. DOMAIN writes'[s] = DOMAIN writes[s] \cup {row} /\ writes'[s][Test(t)] = writes[s][Test(t)]
        BY <3>1, <3>2, <3>3, RowsDiffer DEF WroteTo, Has
      <3>. QED
        BY <2>1, <2>3, <3>1, <3>2, <3>4, <3>5, RowsDiffer DEF CompletedProgress, Has, dbVars
    <2>4. CASE x.stage = 3
      <3>1. st = "freeWorker" /\ row = Worker(s)
        BY <1>1, <2>4, CompletedStatements
      <3>2. ~Has(s, Worker(s)) /\ Has(s, Test(t)) /\ Has(s, Assignment(t, s))
        BY <2>4 DEF CompletedProgress
      <3>3. Seen(s, row) = workerStatus[s] /\ Wanted(st) = {"RUNNING"}
        BY <3>1, <3>2, SeenRows, StatementsWant
      <3>4. Reads(s, st, row) /\ (Matches(s, st, row) <=> workerStatus[s] = "RUNNING")
        BY <3>1, <3>3, ReadsOnlyTests DEF Matches
      <3>5. CASE Matches(s, st, row) /\ WroteTo(s, st, {row})
        <4>1. /\ DOMAIN writes'[s] = DOMAIN writes[s] \cup {Worker(s)}
              /\ writes'[s][Worker(s)] = "IDLE"
              /\ writes'[s][Assignment(t, s)] = writes[s][Assignment(t, s)]
              /\ writes'[s][Test(t)] = writes[s][Test(t)]
          BY <3>1, <3>2, <3>5, RowsDiffer, StatementsWrite DEF WroteTo, Has
        <4>. QED
          BY <2>1, <2>4, <3>2, <3>4, <3>5, <4>1, RowsDiffer DEF CompletedProgress, Has, dbVars
      <3>6. CASE ~Matches(s, st, row) /\ WroteTo(s, st, {})
        <4>1. /\ DOMAIN writes'[s] = DOMAIN writes[s]
              /\ writes'[s][Assignment(t, s)] = writes[s][Assignment(t, s)]
              /\ writes'[s][Test(t)] = writes[s][Test(t)]
          BY <3>2, <3>6 DEF WroteTo, Has
        <4>. QED
          BY <2>1, <2>4, <3>2, <3>4, <3>6, <4>1 DEF CompletedProgress, Has, dbVars
      <3>. QED
        BY <1>4, <3>4, <3>5, <3>6 DEF ReportEnded
    <2>5. CASE x.stage = 4
      <3>1. st = "completeTest" /\ row = Test(t)
        BY <1>1, <2>5, CompletedStatements
      <3>2. /\ Has(s, Test(t)) /\ writes[s][Test(t)] = testStatus[t]
            /\ Has(s, Assignment(t, s)) /\ writes[s][Assignment(t, s)] = "COMPLETED"
            /\ assignment[t][s] = "RUNNING"
        BY <2>5 DEF CompletedProgress
      \* The test is locked already: this statement is never blocked.
      <3>3. x.blocked = Unblocked
        BY <1>1, <3>1, <3>2 DEF ReportProgress, LocksHeld, Has
      <3>4. Matches(s, st, row) <=> testStatus[t] = "RUNNING"
        BY <3>1, <3>2, SeenRows, StatementsWant DEF Matches, Has
      <3>5. Reads(s, st, row) <=> LastToComplete(t, s)
        BY <1>1, <3>1, <3>2, SeesLast DEF ReportProgress, ReportRows, NoRow
      <3>6. CASE Matches(s, st, row) /\ Reads(s, st, row) /\ WroteTo(s, st, {row})
        <4>1. /\ DOMAIN writes'[s] = DOMAIN writes[s]
              /\ writes'[s][Test(t)] = "COMPLETED"
              /\ writes'[s][Assignment(t, s)] = writes[s][Assignment(t, s)]
              /\ Has(s, Worker(s)) => writes'[s][Worker(s)] = writes[s][Worker(s)]
          BY <3>1, <3>2, <3>6, RowsDiffer, StatementsWrite DEF WroteTo, Has
        <4>. QED
          BY <1>l, <2>1, <2>5, <3>2, <3>4, <3>5, <3>6, <4>1 DEF CompletedProgress, Has, dbVars
      <3>7. CASE /\ ~Matches(s, st, row) \/ ~Reads(s, st, row)
                 /\ WroteTo(s, st, {})
        <4>1. /\ DOMAIN writes'[s] = DOMAIN writes[s]
              /\ \A r \in DOMAIN writes[s] : writes'[s][r] = writes[s][r]
          BY <3>7 DEF WroteTo
        <4>. QED
          BY <1>l, <2>1, <2>5, <3>2, <3>4, <3>5, <3>7, <4>1 DEF CompletedProgress, Has, dbVars
      <3>. QED
        BY <1>4, <3>3, <3>6, <3>7 DEF ReportEnded
    <2>. QED
      BY <1>2, <2>2, <2>3, <2>4, <2>5
  <1>. QED
    BY <1>3, <1>4

LEMMA FailedStep ==
  ASSUME RowsExist, LocksHeld, NEW s \in Workers, NEW x \in Transactions, NEW y,
         x.call.op = "failed", SessionCall(s, x.call),
         x.stage <= StatementCount(x.call.op), FailedProgress(s, x),
         ReportBlocked(s, x, y) \/ ReportEnded(s, x, y), UNCHANGED dbVars
  PROVE  FailedProgress(s, y)'
  <1> DEFINE t == x.call.test
             row == RowOf(x)
             st == Statement(x)
  <1>1. s \in Sessions /\ x.call.worker = s /\ t \in Tests
    BY CallShapes DEF Sessions, Reports
  <1>2. x.stage \in 1..2
    BY StatementCounts, OpenTransactions
  <1>3. CASE ReportBlocked(s, x, y)
    <2>1. y.call = x.call /\ y.stage = x.stage
      BY <1>3 DEF ReportBlocked, Transactions
    <2>2. DOMAIN writes'[s] = DOMAIN writes[s] /\ \A r \in DOMAIN writes[s] : writes'[s][r] = writes[s][r]
      BY <1>3 DEF ReportBlocked, WroteTo
    <2>. QED
      BY <1>2, <2>1, <2>2 DEF FailedProgress, Has, dbVars
  <1>4. CASE ReportEnded(s, x, y)
    <2>1. y.call = x.call /\ y.stage = x.stage + 1
      BY <1>4 DEF ReportEnded, AtStatement
    <2>2. CASE x.stage = 1
      <3>1. st = "failAssignment" /\ row = Assignment(t, s)
        BY <1>1, <2>2, FailedStatements
      <3>2. DOMAIN writes[s] \cap {Assignment(t, s), Worker(s), Test(t)} = {}
        BY <2>2 DEF FailedProgress, Has
      <3>3. WroteTo(s, st, {row}) /\ Matches(s, st, row)
        BY <1>4, <3>1 DEF ReportEnded, MustFind
      <3>4. assignment[t][s] \in Active /\ writes'[s][row] = "FAILED"
        BY <3>1, <3>2, <3>3, SeenRows, StatementsWant, StatementsWrite DEF Matches, WroteTo, Has
      <3>5. DOMAIN writes'[s] = DOMAIN writes[s] \cup {row}
        BY <3>3 DEF WroteTo
      <3>. QED
        BY <2>1, <2>2, <3>1, <3>2, <3>4, <3>5, RowsDiffer DEF FailedProgress, Has, dbVars
    <2>3. CASE x.stage = 2
      <3>1. st = "failTest" /\ row = Test(t)
        BY <1>1, <2>3, FailedStatements
      <3>2. ~Has(s, Worker(s)) /\ ~Has(s, Test(t)) /\ Has(s, Assignment(t, s))
        BY <2>3 DEF FailedProgress
      <3>3. Seen(s, row) = testStatus[t] /\ Wanted(st) = {"RUNNING"}
        BY <3>1, <3>2, SeenRows, StatementsWant
      <3>4. Reads(s, st, row) /\ (Matches(s, st, row) <=> testStatus[t] = "RUNNING")
        BY <3>1, <3>3, ReadsOnlyTests DEF Matches
      <3>5. CASE Matches(s, st, row) /\ WroteTo(s, st, {row})
        <4>1. /\ DOMAIN writes'[s] = DOMAIN writes[s] \cup {Test(t)}
              /\ writes'[s][Test(t)] = "FAILED"
              /\ writes'[s][Assignment(t, s)] = writes[s][Assignment(t, s)]
          BY <3>1, <3>2, <3>5, RowsDiffer, StatementsWrite DEF WroteTo, Has
        <4>. QED
          BY <2>1, <2>3, <3>2, <3>4, <3>5, <4>1, RowsDiffer DEF FailedProgress, Has, dbVars
      <3>6. CASE ~Matches(s, st, row) /\ WroteTo(s, st, {})
        <4>1. /\ DOMAIN writes'[s] = DOMAIN writes[s]
              /\ writes'[s][Assignment(t, s)] = writes[s][Assignment(t, s)]
          BY <3>2, <3>6 DEF WroteTo, Has
        <4>. QED
          BY <2>1, <2>3, <3>2, <3>4, <3>6, <4>1 DEF FailedProgress, Has, dbVars
      <3>. QED
        BY <1>4, <3>4, <3>5, <3>6 DEF ReportEnded
    <2>. QED
      BY <1>2, <2>2, <2>3
  <1>. QED
    BY <1>3, <1>4

-----------------------------------------------------------------------------
(* The statements on several rows                                          *)

\* It has come to the end of its statement, or has some rows left and is
\* blocked at one of these.
Advanced(s, x, taken, y) ==
  \/ y.stage = x.stage + 1 /\ y.todo = {} /\ y.blocked = Unblocked /\ taken = Todo(s, x)
  \/ /\ y.stage = x.stage /\ y.todo = Todo(s, x) \ taken
     /\ y.blocked \in y.todo /\ y.blocked \notin locks[s]

LEMMA StatementAdvances ==
  ASSUME LocksHeld, NEW s \in Sessions, NEW x \in Transactions, NEW taken, NEW y,
         Executed(s, x, taken, y)
  PROVE  /\ y.call = x.call /\ y.early = x.early
         /\ taken \subseteq Todo(s, x)
         /\ Advanced(s, x, taken, y)
  <1>1. CASE y = AtStatement(x.call, x.stage + 1, x.early) /\ taken = Todo(s, x)
    BY <1>1 DEF AtStatement, Advanced
  <1>2. CASE \E row \in Todo(s, x) \ taken :
               /\ LockedByOther(s, row)
               /\ y = [x EXCEPT !.todo = Todo(s, x) \ taken, !.hit = Hit(s, x, taken), !.blocked = row]
    <2>1. PICK row \in Todo(s, x) \ taken :
               /\ LockedByOther(s, row)
               /\ y = [x EXCEPT !.todo = Todo(s, x) \ taken, !.hit = Hit(s, x, taken), !.blocked = row]
      BY <1>2
    <2>2. /\ y.call = x.call /\ y.early = x.early /\ y.stage = x.stage
          /\ y.todo = Todo(s, x) \ taken /\ y.blocked = row
      BY <2>1 DEF Transactions
    <2>3. row \notin locks[s]
      BY <2>1 DEF LocksHeld, LockedByOther
    <2>. QED
      BY <2>1, <2>2, <2>3 DEF Executed, Advanced
  <1>. QED
    BY <1>1, <1>2 DEF Executed

\* Row by row, what the statement leaves of what was written before.
LEMMA StatementWrites ==
  ASSUME NEW s, NEW x, NEW taken, NEW y, Executed(s, x, taken, y)
  PROVE  /\ \A row : Has(s, row)' <=> Has(s, row) \/ (row \in taken /\ Matches(s, Statement(x), row))
         /\ \A row : row \in taken /\ Matches(s, Statement(x), row) =>
              writes'[s][row] = Written(Statement(x), Seen(s, row))
         /\ \A row : Has(s, row) /\ ~(row \in taken /\ Matches(s, Statement(x), row)) =>
              writes'[s][row] = writes[s][row]
  BY DEF Executed, WroteTo, Has

LEMMA MarkOfflineStep ==
  ASSUME RowsExist, LocksHeld, NEW s \in Sessions, NEW x \in Transactions, NEW taken, NEW y,
         x.call.op = "markOffline", x.stage <= StatementCount(x.call.op),
         MarkOfflineProgress(s, x), Executed(s, x, taken, y), UNCHANGED dbVars
  PROVE  MarkOfflineProgress(s, y)'
  <1> DEFINE st == Statement(x)
  <1>1. x.stage = 1
    BY StatementCounts, OpenTransactions
  <1>2. st = "markOffline" /\ Scope(x) = {Worker(w) : w \in {v \in Workers : Overdue(v)}}
    BY <1>1, MarkOfflineStatements
  <1> HIDE DEF st
  <1>3. \A w \in Workers : Overdue(w)' <=> Overdue(w)
    BY DEF Overdue, dbVars
  <1>4. \A row \in Todo(s, x) : \E w \in Workers : Overdue(w) /\ row = Worker(w)
    BY <1>2 DEF Todo, MarkOfflineProgress
  <1>5. \A w \in Workers : Matches(s, st, Worker(w))
    <2>1. Wanted(st) = WorkerStatuses
      BY <1>2, StatementsWant
    <2>2. \A w \in Workers : Seen(s, Worker(w)) \in WorkerStatuses
      BY SeenRows DEF MarkOfflineProgress, RowsExist, WorkerStatuses, Has
    <2>. QED
      BY <2>1, <2>2 DEF Matches
  <1>6. \A row : Written(st, row) = "OFFLINE"
    BY <1>2, StatementsWrite
  <1>7. \A w \in Workers : Overdue(w) => Has(s, Worker(w)) \/ Worker(w) \in Todo(s, x)
    <2>1. CASE x.blocked = Unblocked
      BY <1>2, <1>5, <2>1, ReadsOnlyTests DEF Todo, st
    <2>2. CASE x.blocked # Unblocked
      BY <2>2, <1>1 DEF Todo, MarkOfflineProgress
    <2>. QED
      BY <2>1, <2>2
  <1>8. /\ taken \subseteq Todo(s, x) /\ Advanced(s, x, taken, y)
        /\ \A row : Has(s, row)' <=> Has(s, row) \/ (row \in taken /\ Matches(s, st, row))
        /\ \A row : row \in taken /\ Matches(s, st, row) => writes'[s][row] = "OFFLINE"
        /\ \A row : Has(s, row) /\ ~(row \in taken /\ Matches(s, st, row)) =>
             writes'[s][row] = writes[s][row]
    BY <1>6, StatementAdvances, StatementWrites DEF st
  <1>9. \A w \in Workers : Has(s, Worker(w))' => writes'[s][Worker(w)] = "OFFLINE"
    BY <1>8 DEF MarkOfflineProgress
  <1>10. \A row \in DOMAIN writes'[s] \cup y.todo : \E w \in Workers : Overdue(w) /\ row = Worker(w)
    <2>1. y.todo \subseteq Todo(s, x)
      BY <1>8 DEF Advanced
    <2>2. \A row \in DOMAIN writes'[s] : row \in DOMAIN writes[s] \cup Todo(s, x)
      BY <1>8 DEF Has
    <2>. QED
      BY <1>4, <2>1, <2>2 DEF MarkOfflineProgress
  <1>11. \A w \in Workers : Overdue(w) =>
           \/ Has(s, Worker(w))'
           \/ y.stage = 1 /\ (y.blocked # Unblocked => Worker(w) \in y.todo)
    BY <1>1, <1>5, <1>7, <1>8 DEF Advanced
  <1>12. y.blocked # Unblocked => y.stage = 1
    BY <1>1, <1>8 DEF Advanced
  <1>. QED
    BY <1>3, <1>9, <1>10, <1>11, <1>12 DEF MarkOfflineProgress

LEMMA ReleaseStep ==
  ASSUME RowsExist, LocksHeld, NEW s \in Sessions, NEW x \in Transactions, NEW taken, NEW y,
         x.call.op = "release", x.call.test \in Tests, x.stage <= StatementCount(x.call.op),
         ReleaseProgress(s, x), Executed(s, x, taken, y), UNCHANGED dbVars
  PROVE  ReleaseProgress(s, y)'
  <1> DEFINE t == x.call.test
             st == Statement(x)
             held == AssignedWorkers(t)
  <1>1. x.stage \in 1..3
    BY StatementCounts, OpenTransactions
  <1>2. /\ held' = held
        /\ \A w \in held : w \in Workers /\ assignment[t][w] \in AssignmentStatuses
    BY DEF AssignedWorkers, RowsExist, dbVars
  <1>3. /\ x.stage = 1 => st = "lockAssignments" /\ Scope(x) = {Assignment(t, w) : w \in held}
        /\ x.stage = 2 => st = "releaseWorkers" /\ Scope(x) = {Worker(w) : w \in held}
        /\ x.stage = 3 => st = "completeAssignments" /\ Scope(x) = {Assignment(t, w) : w \in held}
    BY ReleaseStatements
  <1> HIDE DEF st, held
  <1>4. /\ y.call = x.call /\ taken \subseteq Todo(s, x) /\ Advanced(s, x, taken, y)
        /\ \A row : Has(s, row)' <=> Has(s, row) \/ (row \in taken /\ Matches(s, st, row))
        /\ \A row : row \in taken /\ Matches(s, st, row) =>
             writes'[s][row] = Written(st, Seen(s, row))
        /\ \A row : Has(s, row) /\ ~(row \in taken /\ Matches(s, st, row)) =>
             writes'[s][row] = writes[s][row]
    BY StatementAdvances, StatementWrites DEF st
  <1>5. \A row : Reads(s, st, row)
    BY <1>1, <1>3, ReadsOnlyTests
  <1>6. CASE x.stage = 1
    <2>1. st = "lockAssignments" /\ Scope(x) = {Assignment(t, w) : w \in held}
      BY <1>3, <1>6
    <2>2. \A w \in held : Seen(s, Assignment(t, w)) = assignment[t][w] /\ ~Has(s, Worker(w))
      BY <1>6, SeenRows DEF ReleaseProgress, Has, held
    <2>3. \A w \in held : Matches(s, st, Assignment(t, w))
      <3>1. Wanted(st) = TestStatuses \cup AssignmentStatuses
        BY <2>1, StatementsWant
      <3>. QED
        BY <1>2, <2>2, <3>1 DEF Matches
    <2>4. \A row : Written(st, Seen(s, row)) = Seen(s, row)
      BY <2>1, StatementsWrite
    <2>5. /\ \A row \in Todo(s, x) : \E w \in held : row = Assignment(t, w)
          /\ \A w \in held : Has(s, Assignment(t, w)) \/ Assignment(t, w) \in Todo(s, x)
      <3>1. CASE x.blocked = Unblocked
        BY <1>5, <2>1, <2>3, <3>1 DEF Todo, st
      <3>2. CASE x.blocked # Unblocked
        BY <1>6, <3>2 DEF Todo, ReleaseProgress, held
      <3>. QED
        BY <3>1, <3>2
    <2>6. \A w \in held :
            /\ ~Has(s, Worker(w))'
            /\ Has(s, Assignment(t, w))' => writes'[s][Assignment(t, w)] = assignment[t][w]
      <3>1. \A w \in held : Worker(w) \notin taken
        BY <1>4, <2>5, RowsDiffer
      <3>2. \A w \in held : Has(s, Assignment(t, w)) => writes[s][Assignment(t, w)] = assignment[t][w]
        BY <1>6 DEF ReleaseProgress, held
      <3>. QED
        BY <1>4, <2>2, <2>4, <3>1, <3>2
    <2>7. \A row \in DOMAIN writes'[s] : \E w \in held : row \in {Assignment(t, w), Worker(w)}
      BY <1>4, <2>5 DEF ReleaseProgress, Has, held
    <2>8. CASE y.stage = 2 /\ y.todo = {} /\ y.blocked = Unblocked /\ taken = Todo(s, x)
      <3>1. \A w \in held : Has(s, Assignment(t, w))'
        BY <1>4, <2>3, <2>5, <2>8
      <3>. QED
        BY <1>2, <1>4, <2>6, <2>7, <2>8, <3>1 DEF ReleaseProgress, held, dbVars
    <2>9. CASE /\ y.stage = 1 /\ y.todo = Todo(s, x) \ taken
      <3>1. \A w \in held : Has(s, Assignment(t, w))' \/ Assignment(t, w) \in y.todo
        BY <1>4, <2>3, <2>5, <2>9
      <3>2. \A row \in y.todo : \E w \in held : row = Assignment(t, w)
        BY <2>5, <2>9
      <3>. QED
        BY <1>2, <1>4, <2>6, <2>7, <2>9, <3>1, <3>2 DEF ReleaseProgress, held, dbVars
    <2>. QED
      BY <1>4, <1>6, <2>8, <2>9 DEF Advanced
  <1>7. CASE x.stage = 2
    <2>1. st = "releaseWorkers" /\ Scope(x) = {Worker(w) : w \in held}
      BY <1>3, <1>7
    <2>2. /\ Wanted(st) = {"RESERVED"}
          /\ \A row : Written(st, Seen(s, row)) = "IDLE"
      BY <2>1, StatementsWant, StatementsWrite
    <2>3. \A w \in held :
            /\ Matches(s, st, Worker(w)) => workerStatus[w] = "RESERVED"
            /\ workerStatus[w] = "RESERVED" => Has(s, Worker(w)) \/ Matches(s, st, Worker(w))
      BY <1>7, <2>2, SeenRows DEF Matches, ReleaseProgress, held, Has
    <2>4. /\ \A row \in Todo(s, x) : \E w \in held : row = Worker(w)
          /\ \A w \in held : \/ Has(s, Worker(w)) \/ workerStatus[w] # "RESERVED"
                             \/ Worker(w) \in Todo(s, x)
      <3>1. CASE x.blocked = Unblocked
        BY <1>5, <2>1, <2>3, <3>1 DEF Todo, st
      <3>2. CASE x.blocked # Unblocked
        BY <1>7, <3>2 DEF Todo, ReleaseProgress, held
      <3>. QED
        BY <3>1, <3>2
    <2>5. \A w \in held :
            /\ Has(s, Assignment(t, w))'
            /\ writes'[s][Assignment(t, w)] = assignment[t][w]
            /\ Has(s, Worker(w))' => workerStatus[w] = "RESERVED" /\ writes'[s][Worker(w)] = "IDLE"
      <3>1. \A w \in held : Assignment(t, w) \notin taken
        BY <1>4, <2>4, RowsDiffer
      <3>2. \A w \in held :
              /\ Has(s, Assignment(t, w)) /\ writes[s][Assignment(t, w)] = assignment[t][w]
              /\ Has(s, Worker(w)) => workerStatus[w] = "RESERVED" /\ writes[s][Worker(w)] = "IDLE"
        BY <1>7 DEF ReleaseProgress, held
      <3>. QED
        BY <1>4, <2>2, <2>3, <3>1, <3>2
    <2>6. \A row \in DOMAIN writes'[s] : \E w \in held : row \in {Assignment(t, w), Worker(w)}
      BY <1>4, <2>4 DEF ReleaseProgress, Has, held
    <2>7. \A w \in held : \/ Has(s, Worker(w))' \/ workerStatus[w] # "RESERVED"
                          \/ Worker(w) \in Todo(s, x) \ taken
      BY <1>4, <2>3, <2>4
    <2>8. CASE y.stage = 3 /\ y.todo = {} /\ y.blocked = Unblocked /\ taken = Todo(s, x)
      <3>1. \A w \in held : Has(s, Worker(w))' \/ workerStatus[w] # "RESERVED"
        BY <2>7, <2>8
      <3>. QED
        BY <1>2, <1>4, <2>5, <2>6, <2>8, <3>1 DEF ReleaseProgress, held, dbVars
    <2>9. CASE y.stage = 2 /\ y.todo = Todo(s, x) \ taken
      <3>1. \A row \in y.todo : \E w \in held : row = Worker(w)
        BY <2>4, <2>9
      <3>. QED
        BY <1>2, <1>4, <2>5, <2>6, <2>7, <2>9, <3>1 DEF ReleaseProgress, held, dbVars
    <2>. QED
      BY <1>4, <1>7, <2>8, <2>9 DEF Advanced
  <1>8. CASE x.stage = 3
    <2>1. st = "completeAssignments" /\ Scope(x) = {Assignment(t, w) : w \in held}
      BY <1>3, <1>8
    <2>2. x.blocked = Unblocked
      BY <1>8 DEF ReleaseProgress
    <2>3. \A w \in held : Has(s, Assignment(t, w)) /\ Seen(s, Assignment(t, w)) = assignment[t][w]
      BY <1>8, SeenRows DEF ReleaseProgress, held, Has
    <2>4. \A w \in held : Matches(s, st, Assignment(t, w)) <=> assignment[t][w] \in Active
      <3>1. Wanted(st) = Active
        BY <2>1, StatementsWant
      <3>. QED
        BY <2>3, <3>1 DEF Matches
    <2>5. /\ \A row \in Todo(s, x) : \E w \in held : row = Assignment(t, w)
          /\ \A w \in held : Assignment(t, w) \in Todo(s, x) <=> assignment[t][w] \in Active
      BY <1>5, <2>1, <2>2, <2>4, RowsDiffer DEF Todo, st
    \* It has locked these rows before and is not blocked.
    <2>6. y.stage = 4 /\ y.todo = {} /\ y.blocked = Unblocked /\ taken = Todo(s, x)
      <3>1. Todo(s, x) \subseteq locks[s]
        BY <2>3, <2>5 DEF LocksHeld, Has
      <3>. QED
        BY <1>4, <1>8, <3>1 DEF Advanced
    <2>7. \A w \in held :
            /\ Has(s, Assignment(t, w))'
            /\ writes'[s][Assignment(t, w)] =
                 IF assignment[t][w] \in Active THEN "COMPLETED" ELSE assignment[t][w]
      <3>1. \A row : Written(st, Seen(s, row)) = "COMPLETED"
        BY <2>1, StatementsWrite
      <3>2. \A w \in held : writes[s][Assignment(t, w)] = assignment[t][w]
        BY <1>8, <2>3 DEF ReleaseProgress, held
      <3>. QED
        BY <1>4, <2>3, <2>4, <2>5, <2>6, <3>1, <3>2
    <2>8. \A w \in held :
            /\ Has(s, Worker(w))' <=> Has(s, Worker(w))
            /\ Has(s, Worker(w)) => writes'[s][Worker(w)] = writes[s][Worker(w)]
      <3>1. \A w \in held : Worker(w) \notin taken
        BY <2>5, <2>6, RowsDiffer
      <3>. QED
        BY <1>4, <3>1
    <2>9. \A row \in DOMAIN writes'[s] : \E w \in held : row \in {Assignment(t, w), Worker(w)}
      BY <1>4, <2>5 DEF ReleaseProgress, Has, held
    <2>10. \A w \in held :
             /\ Has(s, Worker(w)) => workerStatus[w] = "RESERVED" /\ writes[s][Worker(w)] = "IDLE"
             /\ Has(s, Worker(w)) \/ workerStatus[w] # "RESERVED"
      BY <1>8 DEF ReleaseProgress, held
    <2>. QED
      BY <1>2, <1>4, <2>6, <2>7, <2>8, <2>9, <2>10 DEF ReleaseProgress, held, dbVars
  <1>. QED
    BY <1>1, <1>6, <1>7, <1>8

LEMMA SweepStep ==
  ASSUME RowsExist, LocksHeld, NEW s \in Sessions, NEW x \in Transactions, NEW taken, NEW y,
         x.call.op = "sweep", x.stage <= StatementCount(x.call.op),
         SweepProgress(s, x), Executed(s, x, taken, y), UNCHANGED dbVars
  PROVE  SweepProgress(s, y)'
  <1> DEFINE st == Statement(x)
  <1>1. x.stage \in 1..2
    BY StatementCounts, OpenTransactions
  <1>2. /\ x.stage = 1 =>
             /\ st = "failLost"
             /\ Scope(x) = {Assignment(t, w) : t \in Tests,
                                               w \in {v \in Workers : workerStatus[v] = "OFFLINE"}}
        /\ x.stage = 2 => st = "failTests" /\ Scope(x) = {Test(t) : t \in Tests}
    BY SweepStatements
  <1> HIDE DEF st
  <1>3. /\ y.early = x.early /\ taken \subseteq Todo(s, x) /\ Advanced(s, x, taken, y)
        /\ \A row : Has(s, row)' <=> Has(s, row) \/ (row \in taken /\ Matches(s, st, row))
        /\ \A row : row \in taken /\ Matches(s, st, row) =>
             writes'[s][row] = Written(st, Seen(s, row))
        /\ \A row : Has(s, row) /\ ~(row \in taken /\ Matches(s, st, row)) =>
             writes'[s][row] = writes[s][row]
    BY StatementAdvances, StatementWrites DEF st
  <1>4. \A row : Written(st, Seen(s, row)) = "FAILED"
    BY <1>1, <1>2, StatementsWrite
  <1>5. /\ \A t \in Tests, w \in Workers : LostAssignment(t, w)' <=> LostAssignment(t, w)
        /\ \A t \in Tests : HasCause(s, t) => HasCause(s, t)'
    BY <1>3 DEF LostAssignment, HasCause, dbVars
  <1>6. CASE x.stage = 1
    <2>1. /\ st = "failLost"
          /\ Scope(x) = {Assignment(t, w) : t \in Tests,
                                            w \in {v \in Workers : workerStatus[v] = "OFFLINE"}}
          /\ Wanted(st) = Active
      BY <1>2, <1>6, StatementsWant
    <2>2. \A t \in Tests, w \in Workers :
            Has(s, Assignment(t, w)) => writes[s][Assignment(t, w)] = "FAILED"
      BY DEF SweepProgress
    <2>3. \A t \in Tests, w \in Workers :
            /\ Matches(s, st, Assignment(t, w)) =>
                 ~Has(s, Assignment(t, w)) /\ assignment[t][w] \in Active
            /\ assignment[t][w] \in Active =>
                 Has(s, Assignment(t, w)) \/ Matches(s, st, Assignment(t, w))
      BY <2>1, <2>2, SeenRows DEF Matches, Has, Active
    <2>4. /\ \A row \in Todo(s, x) : \E t \in Tests, w \in Workers :
               row = Assignment(t, w) /\ workerStatus[w] = "OFFLINE"
          /\ \A t \in Tests, w \in Workers : LostAssignment(t, w) =>
               Has(s, Assignment(t, w)) \/ Assignment(t, w) \in Todo(s, x)
      <3>1. CASE x.blocked = Unblocked
        <4>1. \A row : Reads(s, st, row)
          BY <2>1, ReadsOnlyTests
        <4>. QED
          BY <2>1, <2>3, <3>1, <4>1 DEF Todo, st, LostAssignment
      <3>2. CASE x.blocked # Unblocked
        BY <1>6, <3>2 DEF Todo, SweepProgress
      <3>. QED
        BY <3>1, <3>2
    <2>5. \A t \in Tests : ~Has(s, Test(t))'
      <3>1. \A t \in Tests : ~Has(s, Test(t))
        BY <1>6, RowsDiffer DEF SweepProgress, Has
      <3>2. \A t \in Tests : Test(t) \notin taken
        BY <1>3, <2>4, RowsDiffer
      <3>. QED
        BY <1>3, <3>1, <3>2
    <2>6. \A row \in DOMAIN writes'[s] : \E t \in Tests, w \in Workers :
            row = Assignment(t, w) /\ workerStatus[w] = "OFFLINE"
      <3>1. \A row \in DOMAIN writes'[s] : row \in DOMAIN writes[s] \/ row \in Todo(s, x)
        BY <1>3 DEF Has
      <3>. QED
        BY <1>6, <2>4, <3>1 DEF SweepProgress
    <2>7. \A t \in Tests, w \in Workers : Has(s, Assignment(t, w))' =>
            assignment[t][w] \in Active /\ writes'[s][Assignment(t, w)] = "FAILED"
      BY <1>3, <1>4, <2>3 DEF SweepProgress
    <2>8. \A t \in Tests, w \in Workers : LostAssignment(t, w) =>
            Has(s, Assignment(t, w))' \/ Assignment(t, w) \in Todo(s, x) \ taken
      BY <1>3, <2>3, <2>4 DEF LostAssignment
    <2>9. CASE y.stage = 2 /\ y.todo = {} /\ y.blocked = Unblocked /\ taken = Todo(s, x)
      <3>1. \A t \in Tests, w \in Workers : LostAssignment(t, w) => Has(s, Assignment(t, w))'
        BY <2>8, <2>9
      <3>. QED
        BY <1>5, <2>5, <2>6, <2>7, <2>9, <3>1 DEF SweepProgress, dbVars
    <2>10. CASE y.stage = 1 /\ y.todo = Todo(s, x) \ taken
      <3>1. \A row \in y.todo : \E t \in Tests, w \in Workers :
              row = Assignment(t, w) /\ workerStatus[w] = "OFFLINE"
        BY <2>4, <2>10
      <3>. QED
        BY <1>5, <2>5, <2>6, <2>7, <2>8, <2>10, <3>1 DEF SweepProgress, dbVars
    <2>. QED
      BY <1>3, <1>6, <2>9, <2>10 DEF Advanced
  <1>7. CASE x.stage = 2
    <2>1. st = "failTests" /\ Scope(x) = {Test(t) : t \in Tests} /\ Wanted(st) = {"RUNNING"}
      BY <1>2, <1>7, StatementsWant
    <2>2. \A t \in Tests, w \in Workers :
            /\ Has(s, Assignment(t, w)) => Seen(s, Assignment(t, w)) = "FAILED"
            /\ ~Has(s, Assignment(t, w)) => Seen(s, Assignment(t, w)) = assignment[t][w]
      BY SeenRows DEF SweepProgress, Has
    <2>3. \A t \in Tests :
            Reads(s, st, Test(t)) <=> \E w \in AssignedWorkers(t) : Seen(s, Assignment(t, w)) = "FAILED"
      <3>1. \A t : Test(t)[2] = t
        BY DEF Test
      <3>. QED
        BY <2>1, <3>1 DEF Reads
    <2>4. \A t \in Tests :
            /\ Reads(s, st, Test(t)) => HasCause(s, t)
            /\ (\E w \in Workers : Has(s, Assignment(t, w))) => Reads(s, st, Test(t))
      <3>1. \A t \in Tests, w \in Workers : Has(s, Assignment(t, w)) => w \in AssignedWorkers(t)
        BY DEF SweepProgress, AssignedWorkers, Active, NoRow
      <3>. QED
        BY <2>2, <2>3, <3>1 DEF HasCause, AssignedWorkers
    <2>5. \A t \in Tests :
            /\ Matches(s, st, Test(t)) => ~Has(s, Test(t)) /\ testStatus[t] = "RUNNING"
            /\ testStatus[t] = "RUNNING" => Has(s, Test(t)) \/ Matches(s, st, Test(t))
      BY <2>1, SeenRows DEF Matches, Has, SweepProgress
    <2>6. /\ \A row \in Todo(s, x) : \E t \in Tests : row = Test(t) /\ HasCause(s, t)
          /\ \A t \in Tests : (\E w \in Workers : Has(s, Assignment(t, w))) =>
               \/ Has(s, Test(t)) \/ testStatus[t] # "RUNNING" \/ t \in x.early
               \/ Test(t) \in Todo(s, x)
      <3>1. CASE x.blocked = Unblocked
        BY <2>1, <2>4, <2>5, <3>1 DEF Todo, st
      <3>2. CASE x.blocked # Unblocked
        BY <1>7, <3>2 DEF Todo, SweepProgress
      <3>. QED
        BY <3>1, <3>2
    <2>7. \A t \in Tests, w \in Workers :
            /\ Has(s, Assignment(t, w))' <=> Has(s, Assignment(t, w))
            /\ Has(s, Assignment(t, w)) => writes'[s][Assignment(t, w)] = writes[s][Assignment(t, w)]
      <3>1. \A t \in Tests, w \in Workers : Assignment(t, w) \notin taken
        BY <1>3, <2>6, RowsDiffer
      <3>. QED
        BY <1>3, <3>1
    <2>8. \A row \in DOMAIN writes'[s] :
            \/ \E t \in Tests : row = Test(t) /\ HasCause(s, t)
            \/ \E t \in Tests, w \in Workers : row = Assignment(t, w) /\ workerStatus[w] = "OFFLINE"
      <3>1. \A row \in DOMAIN writes'[s] : row \in DOMAIN writes[s] \/ row \in Todo(s, x)
        BY <1>3 DEF Has
      <3>. QED
        BY <2>6, <3>1 DEF SweepProgress
    <2>9. \A t \in Tests : Has(s, Test(t))' =>
            testStatus[t] = "RUNNING" /\ writes'[s][Test(t)] = "FAILED"
      BY <1>3, <1>4, <2>5 DEF SweepProgress
    <2>10. \A t \in Tests : (\E w \in Workers : Has(s, Assignment(t, w))) =>
             \/ Has(s, Test(t))' \/ testStatus[t] # "RUNNING" \/ t \in x.early
             \/ Test(t) \in Todo(s, x) \ taken
      BY <1>3, <2>5, <2>6
    <2>11. \A t \in Tests, w \in Workers :
             /\ Has(s, Assignment(t, w)) =>
                  assignment[t][w] \in Active /\ writes[s][Assignment(t, w)] = "FAILED"
             /\ LostAssignment(t, w) => Has(s, Assignment(t, w))
      BY <1>7 DEF SweepProgress
    <2>12. CASE y.stage = 3 /\ y.todo = {} /\ y.blocked = Unblocked /\ taken = Todo(s, x)
      <3>1. \A t \in Tests : (\E w \in Workers : Has(s, Assignment(t, w))) =>
              Has(s, Test(t))' \/ testStatus[t] # "RUNNING" \/ t \in x.early
        BY <2>10, <2>12
      <3>. QED
        BY <1>3, <1>5, <2>7, <2>8, <2>9, <2>11, <2>12, <3>1 DEF SweepProgress, dbVars
    <2>13. CASE y.stage = 2 /\ y.todo = Todo(s, x) \ taken
      <3>1. \A row \in y.todo : \E t \in Tests : row = Test(t) /\ HasCause(s, t)
        BY <2>6, <2>13
      <3>. QED
        BY <1>3, <1>5, <2>7, <2>8, <2>9, <2>10, <2>11, <2>13, <3>1 DEF SweepProgress, dbVars
    <2>. QED
      BY <1>3, <1>7, <2>12, <2>13 DEF Advanced
  <1>. QED
    BY <1>1, <1>6, <1>7

-----------------------------------------------------------------------------
(* A step of the session itself                                            *)

LEMMA ExecutesStep ==
  ASSUME RowsExist, LocksHeld, NEW s \in Sessions, NEW x \in Transactions,
         Progress(s, x), x.stage <= StatementCount(x.call.op), Executes(s, x)
  PROVE  /\ LocksHeld' /\ UNCHANGED dbVars
         /\ Open(s)' => Progress(s, tx[s])'
         /\ \A r \in Sessions \ {s} : tx'[r] = tx[r] /\ locks'[r] = locks[r] /\ writes'[r] = writes[r]
  <1>1. UNCHANGED dbVars
    BY StatementExecuted
  <1>2. CASE Closed(s)
    BY <1>1, <1>2, ClosedLocks DEF Closed, LocksHeld
  <1>3. CASE \E taken, y : Executed(s, x, taken, y)
    <2>1. PICK taken, y : Executed(s, x, taken, y)
      BY <1>3
    <2>2. SessionCall(s, x.call)
      BY DEF Progress
    <2>3. LocksHeld' /\ \A r \in Sessions \ {s} : tx'[r] = tx[r]
      BY <2>1, <2>2, ExecutedLocks
    <2>4. \A r \in Sessions \ {s} : locks'[r] = locks[r] /\ writes'[r] = writes[r]
      BY <2>1 DEF Executed, WroteTo, LocksHeld
    <2>5. tx'[s] = y
      BY <2>1 DEF Executed, LocksHeld
    <2>6. y.call = x.call /\ y.stage \in {x.stage, x.stage + 1}
      BY <2>1, StatementAdvances DEF Advanced
    <2>7. y.stage <= StatementCount(x.call.op) + 1
      <3>1. StatementCount(x.call.op) \in 1..4
        BY <2>2, CallShapes, StatementCounts DEF Reports
      <3>. QED
        BY <2>6, <3>1, OpenTransactions
    <2>8. x.call.op \in Reports =>
            s \in Workers /\ ReportProgress(s, x) /\ (ReportBlocked(s, x, y) \/ ReportEnded(s, x, y))
      <3>1. SUFFICES ASSUME x.call.op \in Reports
                     PROVE  s \in Workers /\ ReportProgress(s, x)
                            /\ (ReportBlocked(s, x, y) \/ ReportEnded(s, x, y))
        OBVIOUS
      <3>2. s \in Workers /\ ReportProgress(s, x)
        BY <2>2, <3>1, CallShapes DEF Progress
      <3>. QED
        BY <2>1, <3>1, <3>2, ReportExecuted
    <2>9. x.call.op \in Reports => ReportProgress(s, y)'
      BY <2>1, <2>8, ReportKept
    <2>10. x.call.op = "running" => RunningProgress(s, y)'
      BY <1>1, <2>2, <2>8, RunningStep DEF Progress, Reports
    <2>11. x.call.op = "completed" => CompletedProgress(s, y)'
      BY <1>1, <2>2, <2>8, CompletedStep DEF Progress, Reports
    <2>12. x.call.op = "failed" => FailedProgress(s, y)'
      BY <1>1, <2>2, <2>8, FailedStep DEF Progress, Reports
    <2>13. x.call.op = "release" => ReleaseProgress(s, y)'
      BY <1>1, <2>1, <2>2, CallShapes, ReleaseStep DEF Progress
    <2>14. x.call.op = "markOffline" => MarkOfflineProgress(s, y)'
      BY <1>1, <2>1, MarkOfflineStep DEF Progress
    <2>15. x.call.op = "sweep" => SweepProgress(s, y)'
      BY <1>1, <2>1, SweepStep DEF Progress
    <2>16. Progress(s, y)'
      BY <2>2, <2>6, <2>7, <2>9, <2>10, <2>11, <2>12, <2>13, <2>14, <2>15 DEF Progress
    <2>17. Progress(s, tx[s])'
      BY <2>5, <2>16
    <2>. QED
      BY <1>1, <2>3, <2>4, <2>17
  <1>. QED
    BY <1>2, <1>3, StatementExecuted

\* A transaction about to begin has written nothing.
LEMMA BeginsWithNothing ==
  ASSUME RowsExist, LocksHeld, NEW s \in Sessions, ~Open(s), NEW call, SessionCall(s, call)
  PROVE  LET x == AtStatement(call, 1, {})
         IN  x \in Transactions /\ Progress(s, x) /\ x.stage <= StatementCount(x.call.op)
  <1> DEFINE x == AtStatement(call, 1, {})
  <1>1. /\ x.call = call /\ x.stage = 1 /\ x.todo = {} /\ x.hit = FALSE
        /\ x.blocked = Unblocked /\ x.early = {} /\ x \in Transactions
    BY CallShapes DEF AtStatement, Transactions
  <1>2. 1 <= StatementCount(call.op) /\ 1 <= StatementCount(call.op) + 1
    BY CallShapes, StatementCounts DEF Reports
  <1>3. \A row : ~Has(s, row) /\ row \notin locks[s]
    BY DEF LocksHeld, Has
  <1> HIDE DEF x
  <1>4. ReportProgress(s, x)
    BY <1>1, <1>3 DEF ReportProgress
  <1>5. RunningProgress(s, x) /\ CompletedProgress(s, x) /\ FailedProgress(s, x)
    BY <1>1, <1>3 DEF RunningProgress, CompletedProgress, FailedProgress
  <1>6. ReleaseProgress(s, x)
    BY <1>1, <1>3 DEF ReleaseProgress, Has
  <1>7. MarkOfflineProgress(s, x)
    BY <1>1, <1>3 DEF MarkOfflineProgress, Has
  <1>8. SweepProgress(s, x)
    BY <1>1, <1>3 DEF SweepProgress, Has
  <1>. QED
    BY <1>1, <1>2, <1>4, <1>5, <1>6, <1>7, <1>8 DEF Progress, x

LEMMA CallsAreTheirs ==
  ASSUME NEW s \in Sessions, NEW call \in CallsOf(s)
  PROVE  SessionCall(s, call)
  <1>1. CASE s = StopSession
    BY <1>1 DEF CallsOf, SessionCall
  <1>2. CASE s = ReconcilerSession
    BY <1>2, SessionsAssumption DEF CallsOf, SessionCall
  <1>3. CASE s \notin {StopSession, ReconcilerSession}
    BY <1>3 DEF CallsOf, SessionCall, Sessions, Reports
  <1>. QED
    BY <1>1, <1>2, <1>3

-----------------------------------------------------------------------------
(* What a commit may change                                                *)

\* What the writes of a transaction that has done all its statements make of
\* the rows: no row appears, no finished assignment changes, and an assignment
\* is completed under the lock of its test or of all assignments of the test.
MayCommit(s) ==
  /\ \A t \in Tests : Has(s, Test(t)) =>
       /\ writes[s][Test(t)] \in TestStatuses
       /\ writes[s][Test(t)] = "RUNNING" => testStatus[t] = "RUNNING"
  /\ \A w \in Workers : Has(s, Worker(w)) =>
       /\ writes[s][Worker(w)] \in WorkerStatuses \ {"RESERVED"}
       /\ writes[s][Worker(w)] = "RUNNING" => w = s
       /\ \/ s = ReconcilerSession
          \/ writes[s][Worker(w)] # "OFFLINE" /\ workerStatus[w] # "OFFLINE"
  /\ \A t \in Tests, w \in Workers : Has(s, Assignment(t, w)) =>
       /\ assignment[t][w] # NoRow
       /\ writes[s][Assignment(t, w)] \in AssignmentStatuses
       /\ writes[s][Assignment(t, w)] \in Active => assignment[t][w] \in Active
       /\ assignment[t][w] \in {"COMPLETED", "FAILED"} =>
            writes[s][Assignment(t, w)] = assignment[t][w]
       /\ \/ writes[s][Assignment(t, w)] # "COMPLETED" \/ assignment[t][w] = "COMPLETED"
          \/ Has(s, Test(t)) \/ \A u \in AssignedWorkers(t) : Has(s, Assignment(t, u))

LEMMA ReportMayCommit ==
  ASSUME RowsExist, LocksHeld, NEW s \in Workers, NEW x \in Transactions,
         SessionCall(s, x.call), x.call.op \in Reports, ReportProgress(s, x),
         x.stage = StatementCount(x.call.op) + 1,
         x.call.op = "running" => RunningProgress(s, x),
         x.call.op = "completed" => CompletedProgress(s, x),
         x.call.op = "failed" => FailedProgress(s, x)
  PROVE  MayCommit(s)
  <1> DEFINE t == x.call.test
  <1>1. s \in Sessions /\ x.call.worker = s /\ t \in Tests
    BY CallShapes DEF Sessions
  <1>2. \A row : Has(s, row) => row \in {Assignment(t, s), Worker(s), Test(t)}
    BY <1>1 DEF LocksHeld, Has, ReportProgress, ReportRows
  <1>3. /\ \A u \in Tests : Has(s, Test(u)) => u = t
        /\ \A w \in Workers : Has(s, Worker(w)) => w = s
        /\ \A u \in Tests, w \in Workers : Has(s, Assignment(u, w)) => u = t /\ w = s
    BY <1>2, RowsDiffer
  <1>4. testStatus[t] \in TestStatuses
    BY <1>1 DEF RowsExist
  <1>5. CASE x.call.op = "running"
    <2>1. /\ ~Has(s, Test(t))
          /\ Has(s, Assignment(t, s)) =>
               assignment[t][s] = "RESERVED" /\ writes[s][Assignment(t, s)] = "RUNNING"
          /\ Has(s, Worker(s)) => workerStatus[s] = "RESERVED" /\ writes[s][Worker(s)] = "RUNNING"
      BY <1>5 DEF RunningProgress
    <2>. QED
      BY <1>3, <2>1 DEF MayCommit, WorkerStatuses, AssignmentStatuses, Active, NoRow
  <1>6. CASE x.call.op = "completed"
    <2>1. x.stage = 5
      BY <1>6, StatementCounts
    <2>2. /\ Has(s, Test(t)) /\ writes[s][Test(t)] \in {"COMPLETED", testStatus[t]}
          /\ Has(s, Assignment(t, s)) =>
               assignment[t][s] = "RUNNING" /\ writes[s][Assignment(t, s)] = "COMPLETED"
          /\ Has(s, Worker(s)) => workerStatus[s] = "RUNNING" /\ writes[s][Worker(s)] = "IDLE"
      BY <1>6, <2>1 DEF CompletedProgress
    <2>. QED
      BY <1>3, <1>4, <2>2
         DEF MayCommit, TestStatuses, WorkerStatuses, AssignmentStatuses, Active, NoRow
  <1>7. CASE x.call.op = "failed"
    <2>1. /\ ~Has(s, Worker(s))
          /\ Has(s, Assignment(t, s)) =>
               assignment[t][s] \in Active /\ writes[s][Assignment(t, s)] = "FAILED"
          /\ Has(s, Test(t)) => writes[s][Test(t)] = "FAILED"
      BY <1>7 DEF FailedProgress
    <2>. QED
      BY <1>3, <2>1
         DEF MayCommit, TestStatuses, WorkerStatuses, AssignmentStatuses, Active, NoRow
  <1>. QED
    BY <1>5, <1>6, <1>7 DEF Reports

LEMMA ReleaseMayCommit ==
  ASSUME RowsExist, NEW s, NEW x, x.call.test \in Tests, x.stage = 4, ReleaseProgress(s, x)
  PROVE  MayCommit(s)
  <1> DEFINE t == x.call.test
             held == AssignedWorkers(t)
  <1>1. \A w \in held : w \in Workers /\ assignment[t][w] \in AssignmentStatuses
    BY DEF AssignedWorkers, RowsExist
  <1>2. \A row : Has(s, row) => \E w \in held : row \in {Assignment(t, w), Worker(w)}
    BY DEF ReleaseProgress, Has
  <1>3. \A w \in held :
          /\ Has(s, Assignment(t, w))
          /\ writes[s][Assignment(t, w)] =
               IF assignment[t][w] \in Active THEN "COMPLETED" ELSE assignment[t][w]
          /\ Has(s, Worker(w)) => workerStatus[w] = "RESERVED" /\ writes[s][Worker(w)] = "IDLE"
    BY DEF ReleaseProgress
  <1> HIDE DEF held
  <1>4. \A u \in Tests : ~Has(s, Test(u))
    BY <1>2, RowsDiffer
  <1>5. \A w \in Workers : Has(s, Worker(w)) => w \in held
    BY <1>2, RowsDiffer
  <1>6. \A u \in Tests, w \in Workers : Has(s, Assignment(u, w)) => u = t /\ w \in held
    BY <1>2, RowsDiffer
  <1>7. AssignedWorkers(t) = held
    BY DEF held
  <1> HIDE DEF t
  <1>8. \A w \in Workers : Has(s, Worker(w)) =>
          /\ writes[s][Worker(w)] \in WorkerStatuses \ {"RESERVED"}
          /\ writes[s][Worker(w)] # "RUNNING"
          /\ writes[s][Worker(w)] # "OFFLINE" /\ workerStatus[w] # "OFFLINE"
    BY <1>3, <1>5 DEF WorkerStatuses
  <1>9. \A w \in held :
          /\ assignment[t][w] # NoRow
          /\ writes[s][Assignment(t, w)] \in AssignmentStatuses
          /\ writes[s][Assignment(t, w)] \notin Active
          /\ assignment[t][w] \in {"COMPLETED", "FAILED"} =>
               writes[s][Assignment(t, w)] = assignment[t][w]
    BY <1>1, <1>3 DEF AssignmentStatuses, Active, NoRow
  <1>. QED
    BY <1>3, <1>4, <1>6, <1>7, <1>8, <1>9 DEF MayCommit

LEMMA MarkOfflineMayCommit ==
  ASSUME RowsExist, NEW x, MarkOfflineProgress(ReconcilerSession, x)
  PROVE  MayCommit(ReconcilerSession)
  <1> DEFINE s == ReconcilerSession
  <1>1. \A row : Has(s, row) => \E w \in Workers : row = Worker(w)
    BY DEF MarkOfflineProgress, Has
  <1>2. /\ \A t \in Tests : ~Has(s, Test(t))
        /\ \A t \in Tests, w \in Workers : ~Has(s, Assignment(t, w))
    BY <1>1, RowsDiffer
  <1>3. \A w \in Workers : Has(s, Worker(w)) => writes[s][Worker(w)] = "OFFLINE"
    BY DEF MarkOfflineProgress
  <1>. QED
    BY <1>2, <1>3 DEF MayCommit, WorkerStatuses

LEMMA SweepMayCommit ==
  ASSUME RowsExist, NEW x, SweepProgress(ReconcilerSession, x)
  PROVE  MayCommit(ReconcilerSession)
  <1> DEFINE s == ReconcilerSession
  <1>1. \A w \in Workers : ~Has(s, Worker(w))
    <2>1. \A row : Has(s, row) =>
            (\E t \in Tests : row = Test(t)) \/ \E t \in Tests, w \in Workers : row = Assignment(t, w)
      BY DEF SweepProgress, Has
    <2>. QED
      BY <2>1, RowsDiffer
  <1>2. \A t \in Tests : Has(s, Test(t)) => writes[s][Test(t)] = "FAILED"
    BY DEF SweepProgress
  <1>3. \A t \in Tests, w \in Workers : Has(s, Assignment(t, w)) =>
          assignment[t][w] \in Active /\ writes[s][Assignment(t, w)] = "FAILED"
    BY DEF SweepProgress
  <1>. QED
    BY <1>1, <1>2, <1>3 DEF MayCommit, TestStatuses, AssignmentStatuses, Active, NoRow

LEMMA ProgressMayCommit ==
  ASSUME RowsExist, LocksHeld, NEW s \in Sessions, NEW x \in Transactions, Progress(s, x),
         x.stage > StatementCount(x.call.op)
  PROVE  MayCommit(s)
  <1>1. SessionCall(s, x.call)
    BY DEF Progress
  <1>2. x.stage = StatementCount(x.call.op) + 1
    <2>1. StatementCount(x.call.op) \in 1..4
      BY <1>1, CallShapes, StatementCounts DEF Reports
    <2>. QED
      BY <2>1, OpenTransactions DEF Progress
  <1>3. CASE x.call.op \in Reports
    BY <1>1, <1>2, <1>3, CallShapes, ReportMayCommit DEF Progress
  <1>4. CASE x.call.op = "release"
    BY <1>1, <1>2, <1>4, CallShapes, StatementCounts, ReleaseMayCommit DEF Progress
  <1>5. CASE x.call.op = "markOffline"
    BY <1>1, <1>5, CallShapes, MarkOfflineMayCommit DEF Progress
  <1>6. CASE x.call.op = "sweep"
    BY <1>1, <1>6, CallShapes, SweepMayCommit DEF Progress
  <1>. QED
    BY <1>1, <1>3, <1>4, <1>5, <1>6, CallShapes

-----------------------------------------------------------------------------
(* What the steps of others leave to a transaction                         *)

\* Transaction x of session r, which becomes y, while another session or a
\* request takes a step: the rows r has locked stay as they are, and the
\* others change only as MayCommit and StartTest allow.
Beside(r, x, y) ==
  /\ locks'[r] = locks[r] /\ writes'[r] = writes[r] /\ heartbeatFresh' = heartbeatFresh
  /\ y.call = x.call /\ y.stage = x.stage /\ y.todo = x.todo /\ y.hit = x.hit
  /\ y.blocked = x.blocked /\ x.early \subseteq y.early
  /\ \A t \in Tests :
       /\ Test(t) \in locks[r] => testStatus'[t] = testStatus[t]
       /\ x.call.op \in LookFirst /\ testStatus'[t] = "RUNNING" =>
            testStatus[t] = "RUNNING" \/ t \in y.early
  /\ \A w \in Workers :
       /\ Worker(w) \in locks[r] => workerStatus'[w] = workerStatus[w]
       /\ workerStatus'[w] = "RESERVED" => workerStatus[w] = "RESERVED"
       /\ workerStatus'[w] = "RUNNING" => workerStatus[w] = "RUNNING" \/ w # r
       /\ r = ReconcilerSession => (workerStatus'[w] = "OFFLINE" <=> workerStatus[w] = "OFFLINE")
  /\ \A t \in Tests, w \in Workers :
       /\ Assignment(t, w) \in locks[r] => assignment'[t][w] = assignment[t][w]
       /\ assignment'[t][w] = NoRow <=> assignment[t][w] = NoRow
       /\ assignment'[t][w] \in Active => assignment[t][w] \in Active
       /\ assignment[t][w] = "FAILED" => assignment'[t][w] = "FAILED"
  /\ x.call.op = "completed" /\ x.stage = 5 =>
       (LastToComplete(x.call.test, r)' <=> LastToComplete(x.call.test, r))

LEMMA BesideReport ==
  ASSUME NEW r, NEW x, NEW y, ReportProgress(r, x), Beside(r, x, y)
  PROVE  ReportProgress(r, y)'
  <1>1. RowOf(y) = RowOf(x)
    BY DEF Beside, RowOf, Statement
  <1>. QED
    BY <1>1 DEF Beside, ReportProgress

LEMMA BesideRunning ==
  ASSUME LocksHeld, NEW r \in Workers, NEW x, NEW y, SessionCall(r, x.call), x.call.op = "running",
         RunningProgress(r, x), Beside(r, x, y)
  PROVE  RunningProgress(r, y)'
  <1> DEFINE t == x.call.test
  <1>1. r \in Sessions /\ t \in Tests
    BY CallShapes DEF Sessions, Reports
  <1>2. \A row : (Has(r, row)' <=> Has(r, row)) /\ writes'[r][row] = writes[r][row]
    BY DEF Beside, Has
  <1>3. /\ Has(r, Assignment(t, r)) => assignment'[t][r] = assignment[t][r]
        /\ Has(r, Worker(r)) => workerStatus'[r] = workerStatus[r]
        /\ workerStatus'[r] = "RESERVED" => workerStatus[r] = "RESERVED"
    BY <1>1 DEF Beside, LocksHeld, Has
  <1>4. y.call = x.call /\ y.stage = x.stage
    BY DEF Beside
  <1>. QED
    BY <1>2, <1>3, <1>4 DEF RunningProgress

LEMMA BesideCompleted ==
  ASSUME LocksHeld, NEW r \in Workers, NEW x, NEW y, SessionCall(r, x.call), x.call.op = "completed",
         CompletedProgress(r, x), Beside(r, x, y)
  PROVE  CompletedProgress(r, y)'
  <1> DEFINE t == x.call.test
  <1>1. r \in Sessions /\ t \in Tests
    BY CallShapes DEF Sessions, Reports
  <1>2. \A row : (Has(r, row)' <=> Has(r, row)) /\ writes'[r][row] = writes[r][row]
    BY DEF Beside, Has
  <1>3. /\ Has(r, Assignment(t, r)) => assignment'[t][r] = assignment[t][r]
        /\ Has(r, Worker(r)) => workerStatus'[r] = workerStatus[r]
        /\ Has(r, Test(t)) => testStatus'[t] = testStatus[t]
        /\ workerStatus'[r] = "RUNNING" => workerStatus[r] = "RUNNING"
    BY <1>1 DEF Beside, LocksHeld, Has
  <1>4. /\ y.call = x.call /\ y.stage = x.stage
        /\ x.stage = 5 => (LastToComplete(t, r)' <=> LastToComplete(t, r))
    BY DEF Beside
  <1>. QED
    BY <1>2, <1>3, <1>4 DEF CompletedProgress

LEMMA BesideFailed ==
  ASSUME LocksHeld, NEW r \in Workers, NEW x, NEW y, SessionCall(r, x.call), x.call.op = "failed",
         FailedProgress(r, x), Beside(r, x, y)
  PROVE  FailedProgress(r, y)'
  <1> DEFINE t == x.call.test
  <1>1. r \in Sessions /\ t \in Tests
    BY CallShapes DEF Sessions, Reports
  <1>2. \A row : (Has(r, row)' <=> Has(r, row)) /\ writes'[r][row] = writes[r][row]
    BY DEF Beside, Has
  <1>3. /\ Has(r, Assignment(t, r)) => assignment'[t][r] = assignment[t][r]
        /\ Has(r, Test(t)) => testStatus'[t] = testStatus[t]
        /\ testStatus'[t] = "RUNNING" => testStatus[t] = "RUNNING" \/ t \in y.early
    BY <1>1 DEF Beside, LocksHeld, Has, LookFirst
  <1>4. y.call = x.call /\ y.stage = x.stage /\ x.early \subseteq y.early
    BY DEF Beside
  <1>. QED
    BY <1>2, <1>3, <1>4 DEF FailedProgress

LEMMA BesideRelease ==
  ASSUME LocksHeld, NEW r \in Sessions, NEW x, NEW y, x.call.test \in Tests,
         ReleaseProgress(r, x), Beside(r, x, y)
  PROVE  ReleaseProgress(r, y)'
  <1> DEFINE t == x.call.test
             held == AssignedWorkers(t)
  <1>1. held' = held /\ held \subseteq Workers
    BY DEF Beside, AssignedWorkers
  <1>2. \A row : (Has(r, row)' <=> Has(r, row)) /\ writes'[r][row] = writes[r][row]
    BY DEF Beside, Has
  <1>3. \A w \in held :
          /\ Has(r, Assignment(t, w)) => assignment'[t][w] = assignment[t][w]
          /\ Has(r, Worker(w)) => workerStatus'[w] = workerStatus[w]
          /\ workerStatus'[w] = "RESERVED" => workerStatus[w] = "RESERVED"
    BY <1>1 DEF Beside, LocksHeld, Has
  <1>4. y.call = x.call /\ y.stage = x.stage /\ y.todo = x.todo /\ y.blocked = x.blocked
    BY DEF Beside
  <1>5. DOMAIN writes'[r] = DOMAIN writes[r]
    BY DEF Beside
  <1>6. \A row \in DOMAIN writes[r] : \E w \in held : row \in {Assignment(t, w), Worker(w)}
    BY DEF ReleaseProgress
  <1>7. \A row \in x.todo : \E w \in held :
           row = IF x.stage = 1 THEN Assignment(t, w) ELSE Worker(w)
    BY DEF ReleaseProgress
  <1>8. x.blocked # Unblocked => x.stage \in {1, 2}
    BY DEF ReleaseProgress
  <1>9. \A w \in held :
          /\ Has(r, Assignment(t, w)) =>
               writes[r][Assignment(t, w)] =
                 IF x.stage = 4 /\ assignment[t][w] \in Active THEN "COMPLETED" ELSE assignment[t][w]
          /\ \/ Has(r, Assignment(t, w))
             \/ x.stage = 1 /\ (x.blocked # Unblocked => Assignment(t, w) \in x.todo)
          /\ Has(r, Worker(w)) =>
               x.stage >= 2 /\ workerStatus[w] = "RESERVED" /\ writes[r][Worker(w)] = "IDLE"
          /\ \/ Has(r, Worker(w)) \/ workerStatus[w] # "RESERVED" \/ x.stage = 1
             \/ x.stage = 2 /\ (x.blocked # Unblocked => Worker(w) \in x.todo)
    BY DEF ReleaseProgress
  <1> HIDE DEF held
  <1>10. \A w \in held :
          /\ Has(r, Assignment(t, w))' =>
               writes'[r][Assignment(t, w)] =
                 IF x.stage = 4 /\ assignment'[t][w] \in Active THEN "COMPLETED" ELSE assignment'[t][w]
          /\ \/ Has(r, Assignment(t, w))'
             \/ x.stage = 1 /\ (x.blocked # Unblocked => Assignment(t, w) \in x.todo)
          /\ Has(r, Worker(w))' =>
               x.stage >= 2 /\ workerStatus'[w] = "RESERVED" /\ writes'[r][Worker(w)] = "IDLE"
          /\ \/ Has(r, Worker(w))' \/ workerStatus'[w] # "RESERVED" \/ x.stage = 1
             \/ x.stage = 2 /\ (x.blocked # Unblocked => Worker(w) \in x.todo)
    BY <1>2, <1>3, <1>9
  <1>. QED
    BY <1>1, <1>4, <1>5, <1>6, <1>7, <1>8, <1>10 DEF ReleaseProgress, held

LEMMA BesideMarkOffline ==
  ASSUME RowsExist, RowsExist', NEW r, NEW x, NEW y, MarkOfflineProgress(r, x), Beside(r, x, y)
  PROVE  MarkOfflineProgress(r, y)'
  <1>1. \A w \in Workers : Overdue(w)' <=> Overdue(w)
    <2>1. \A w \in Workers : workerStatus[w] # NoRow /\ workerStatus'[w] # NoRow
      BY DEF RowsExist, WorkerStatuses, NoRow
    <2>. QED
      BY <2>1 DEF Overdue, Beside
  <1>2. /\ y.stage = x.stage /\ y.todo = x.todo /\ y.blocked = x.blocked
        /\ writes'[r] = writes[r]
    BY DEF Beside
  <1>. QED
    BY <1>1, <1>2 DEF MarkOfflineProgress, Has

LEMMA BesideSweep ==
  ASSUME LocksHeld, NEW x, NEW y, x.call.op = "sweep", SweepProgress(ReconcilerSession, x),
         Beside(ReconcilerSession, x, y)
  PROVE  SweepProgress(ReconcilerSession, y)'
  <1> DEFINE r == ReconcilerSession
  <1>0. r \in Sessions
    BY DEF Sessions
  <1>1. \A row : (Has(r, row)' <=> Has(r, row)) /\ writes'[r][row] = writes[r][row]
    BY DEF Beside, Has
  <1>2. /\ y.stage = x.stage /\ y.todo = x.todo /\ y.blocked = x.blocked /\ x.early \subseteq y.early
        /\ writes'[r] = writes[r]
    BY DEF Beside
  <1>3. \A w \in Workers : workerStatus'[w] = "OFFLINE" <=> workerStatus[w] = "OFFLINE"
    BY DEF Beside
  <1>4. \A t \in Tests, w \in Workers :
          /\ Has(r, Assignment(t, w)) => assignment'[t][w] = assignment[t][w]
          /\ assignment'[t][w] \in Active => assignment[t][w] \in Active
          /\ assignment[t][w] = "FAILED" => assignment'[t][w] = "FAILED"
    BY <1>0 DEF Beside, LocksHeld, Has
  <1>5. \A t \in Tests :
          /\ Has(r, Test(t)) => testStatus'[t] = testStatus[t]
          /\ testStatus'[t] = "RUNNING" => testStatus[t] = "RUNNING" \/ t \in y.early
    BY <1>0 DEF Beside, LocksHeld, Has, LookFirst
  <1>6. /\ \A t \in Tests : HasCause(r, t) => HasCause(r, t)'
        /\ \A t \in Tests, w \in Workers : LostAssignment(t, w)' => LostAssignment(t, w)
    BY <1>1, <1>3, <1>4 DEF HasCause, LostAssignment
  <1>7. \A row \in DOMAIN writes'[r] \cup y.todo :
          \/ \E t \in Tests : row = Test(t) /\ HasCause(r, t)' /\ y.stage >= 2
          \/ \E t \in Tests, w \in Workers :
               row = Assignment(t, w) /\ workerStatus'[w] = "OFFLINE" /\ (row \in y.todo => y.stage = 1)
    BY <1>2, <1>3, <1>6 DEF SweepProgress
  <1>8. \A t \in Tests, w \in Workers :
          /\ Has(r, Assignment(t, w))' =>
               assignment'[t][w] \in Active /\ writes'[r][Assignment(t, w)] = "FAILED"
          /\ LostAssignment(t, w)' =>
               \/ Has(r, Assignment(t, w))'
               \/ y.stage = 1 /\ (y.blocked # Unblocked => Assignment(t, w) \in y.todo)
    BY <1>1, <1>2, <1>4, <1>6 DEF SweepProgress
  <1>9. \A t \in Tests :
          /\ Has(r, Test(t))' => testStatus'[t] = "RUNNING" /\ writes'[r][Test(t)] = "FAILED"
          /\ (\E w \in Workers : Has(r, Assignment(t, w))') =>
               \/ Has(r, Test(t))' \/ testStatus'[t] # "RUNNING" \/ t \in y.early \/ y.stage = 1
               \/ y.stage = 2 /\ (y.blocked # Unblocked => Test(t) \in y.todo)
    <2>1. \A t \in Tests :
          /\ Has(r, Test(t)) => testStatus[t] = "RUNNING" /\ writes[r][Test(t)] = "FAILED"
          /\ (\E w \in Workers : Has(r, Assignment(t, w))) =>
               \/ Has(r, Test(t)) \/ testStatus[t] # "RUNNING" \/ t \in x.early \/ x.stage = 1
               \/ x.stage = 2 /\ (x.blocked # Unblocked => Test(t) \in x.todo)
      BY DEF SweepProgress
    <2>. QED
      BY <1>1, <1>2, <1>5, <2>1
  <1>10. x.blocked # Unblocked => x.stage \in {1, 2}
    BY DEF SweepProgress
  <1>. QED
    BY <1>2, <1>7, <1>8, <1>9, <1>10 DEF SweepProgress

LEMMA BesideProgress ==
  ASSUME RowsExist, RowsExist', LocksHeld, NEW r \in Sessions, NEW x \in Transactions, NEW y,
         Progress(r, x), Beside(r, x, y)
  PROVE  Progress(r, y)'
  <1>1. SessionCall(r, x.call)
    BY DEF Progress
  <1>2. y.call = x.call /\ y.stage = x.stage
    BY DEF Beside
  <1>3. x.call.op \in Reports => ReportProgress(r, y)'
    BY BesideReport DEF Progress
  <1>4. x.call.op = "running" => RunningProgress(r, y)'
    BY <1>1, CallShapes, BesideRunning DEF Progress, Reports
  <1>5. x.call.op = "completed" => CompletedProgress(r, y)'
    BY <1>1, CallShapes, BesideCompleted DEF Progress, Reports
  <1>6. x.call.op = "failed" => FailedProgress(r, y)'
    BY <1>1, CallShapes, BesideFailed DEF Progress, Reports
  <1>7. x.call.op = "release" => ReleaseProgress(r, y)'
    BY <1>1, CallShapes, BesideRelease DEF Progress
  <1>8. x.call.op = "markOffline" => MarkOfflineProgress(r, y)'
    BY BesideMarkOffline DEF Progress
  <1>9. x.call.op = "sweep" => SweepProgress(r, y)'
    BY <1>1, CallShapes, BesideSweep DEF Progress
  <1>. QED
    BY <1>1, <1>2, <1>3, <1>4, <1>5, <1>6, <1>7, <1>8, <1>9 DEF Progress

-----------------------------------------------------------------------------
(* The inductive invariant                                                 *)

LEMMA OpenProgress ==
  ASSUME TransactionsInv, NEW s \in Sessions, Open(s)
  PROVE  tx[s] \in Transactions /\ Progress(s, tx[s])
  BY DEF TransactionsInv, LocksHeld, Open

\* Row by row, what a commit makes of the committed state.
LEMMA CommitWrites ==
  ASSUME NEW s \in Sessions, Commit(s)
  PROVE  /\ DOMAIN testStatus' = Tests /\ DOMAIN workerStatus' = Workers
         /\ \A t \in Tests :
              testStatus'[t] = IF Has(s, Test(t)) THEN writes[s][Test(t)] ELSE testStatus[t]
         /\ \A w \in Workers :
              workerStatus'[w] = IF Has(s, Worker(w)) THEN writes[s][Worker(w)] ELSE workerStatus[w]
         /\ \A t \in Tests, w \in Workers :
              assignment'[t][w] = IF Has(s, Assignment(t, w)) THEN writes[s][Assignment(t, w)]
                                  ELSE assignment[t][w]
  <1>1. /\ testStatus' = [t \in Tests |-> Seen(s, Test(t))]
        /\ workerStatus' = [w \in Workers |-> Seen(s, Worker(w))]
        /\ assignment' = [t \in Tests |-> [w \in Workers |-> Seen(s, Assignment(t, w))]]
    BY DEF Commit
  <1>. QED
    BY <1>1, CommittedRows DEF Seen, Has

LEMMA CommitKeepsRows ==
  ASSUME RowsExist, NEW s \in Sessions, MayCommit(s), Commit(s)
  PROVE  RowsExist'
  <1>1. \A t \in Tests : testStatus'[t] \in TestStatuses
    BY CommitWrites DEF MayCommit, RowsExist
  <1>2. \A w \in Workers : workerStatus'[w] \in WorkerStatuses
    BY CommitWrites DEF MayCommit, RowsExist
  <1>3. \A t \in Tests, w \in Workers : assignment'[t][w] \in AssignmentStatuses \cup {NoRow}
    BY CommitWrites DEF MayCommit, RowsExist
  <1>4. /\ testStatus' = [t \in Tests |-> Seen(s, Test(t))]
        /\ workerStatus' = [w \in Workers |-> Seen(s, Worker(w))]
        /\ assignment' = [t \in Tests |-> [w \in Workers |-> Seen(s, Assignment(t, w))]]
        /\ heartbeatFresh' = heartbeatFresh
    BY DEF Commit
  <1>5. testStatus' \in [Tests -> TestStatuses] /\ workerStatus' \in [Workers -> WorkerStatuses]
    BY <1>1, <1>2, <1>4
  <1>6. assignment' \in [Tests -> [Workers -> AssignmentStatuses \cup {NoRow}]]
    BY <1>3, <1>4
  <1>. QED
    BY <1>4, <1>5, <1>6 DEF RowsExist

\* Whether a completion is the last of its test cannot change while it holds
\* the locks of the test and of its own assignment.
LEMMA CommitKeepsLast ==
  ASSUME LocksHeld, NEW s \in Sessions, NEW r \in Workers \ {s}, NEW t \in Tests,
         MayCommit(s), Commit(s), Has(r, Test(t)), Has(r, Assignment(t, r)),
         assignment[t][r] # NoRow
  PROVE  LastToComplete(t, r)' <=> LastToComplete(t, r)
  <1>1. r \in Sessions
    BY DEF Sessions
  <1>2. ~Has(s, Test(t)) /\ ~Has(s, Assignment(t, r))
    BY <1>1 DEF LocksHeld, Has
  <1>3. r \in AssignedWorkers(t)
    BY DEF AssignedWorkers
  <1>4. \A w \in Workers :
          /\ assignment'[t][w] = NoRow <=> assignment[t][w] = NoRow
          /\ assignment'[t][w] = "COMPLETED" <=> assignment[t][w] = "COMPLETED"
    BY <1>2, <1>3, CommitWrites DEF MayCommit, AssignmentStatuses, NoRow
  <1>. QED
    BY <1>4 DEF LastToComplete, AssignedWorkers

LEMMA CommitBeside ==
  ASSUME TransactionsInv, NEW s \in Sessions, MayCommit(s), Commit(s),
         NEW r \in Sessions \ {s}, Open(r), NEW x, x = tx[r]
  PROVE  Beside(r, x, x)
  <1>1. RowsExist /\ LocksHeld /\ x \in Transactions /\ Progress(r, x)
    BY OpenProgress DEF TransactionsInv
  <1>2. locks'[r] = locks[r] /\ writes'[r] = writes[r] /\ heartbeatFresh' = heartbeatFresh
    BY <1>1 DEF LocksHeld, Commit, Closed
  <1>3. \A row : row \in locks[r] => ~Has(s, row)
    BY <1>1 DEF LocksHeld, Has
  <1>4. \A t \in Tests :
          /\ Test(t) \in locks[r] => testStatus'[t] = testStatus[t]
          /\ testStatus'[t] = "RUNNING" => testStatus[t] = "RUNNING"
    BY <1>3, CommitWrites DEF MayCommit
  <1>5. \A w \in Workers :
          /\ Worker(w) \in locks[r] => workerStatus'[w] = workerStatus[w]
          /\ workerStatus'[w] = "RESERVED" => workerStatus[w] = "RESERVED"
          /\ workerStatus'[w] = "RUNNING" => workerStatus[w] = "RUNNING" \/ w # r
          /\ r = ReconcilerSession => (workerStatus'[w] = "OFFLINE" <=> workerStatus[w] = "OFFLINE")
    BY <1>3, CommitWrites DEF MayCommit
  <1>6. \A t \in Tests, w \in Workers :
          /\ Assignment(t, w) \in locks[r] => assignment'[t][w] = assignment[t][w]
          /\ assignment'[t][w] = NoRow <=> assignment[t][w] = NoRow
          /\ assignment'[t][w] \in Active => assignment[t][w] \in Active
          /\ assignment[t][w] = "FAILED" => assignment'[t][w] = "FAILED"
    BY <1>3, CommitWrites DEF MayCommit, AssignmentStatuses, NoRow
  <1>7. ASSUME x.call.op = "completed", x.stage = 5
        PROVE  LastToComplete(x.call.test, r)' <=> LastToComplete(x.call.test, r)
    <2> DEFINE t == x.call.test
    <2>1. r \in Workers /\ t \in Tests
      BY <1>1, <1>7, CallShapes DEF Progress, Reports
    <2>2. Has(r, Test(t)) /\ Has(r, Assignment(t, r)) /\ assignment[t][r] = "RUNNING"
      BY <1>1, <1>7 DEF Progress, CompletedProgress
    <2>3. r \in Workers \ {s} /\ assignment[t][r] # NoRow
      BY <2>1, <2>2 DEF NoRow
    <2>. QED
      BY <1>1, <2>1, <2>2, <2>3, CommitKeepsLast
  <1>. QED
    BY <1>2, <1>4, <1>5, <1>6, <1>7 DEF Beside

\* A transaction of session r stays in progress beside a step of another.
LEMMA OthersProgress ==
  ASSUME TransactionsInv, RowsExist', NEW r \in Sessions, Open(r), NEW x, x = tx[r],
         NEW y, Beside(r, x, y), tx'[r] = y
  PROVE  Progress(r, tx[r])'
  <1>1. RowsExist /\ LocksHeld /\ x \in Transactions /\ Progress(r, x)
    BY OpenProgress DEF TransactionsInv
  <1>2. Progress(r, y)'
    BY <1>1, BesideProgress
  <1>. QED
    BY <1>2

\* A step that leaves what is committed leaves the others as they are.
LEMMA UncommittedInv ==
  ASSUME TransactionsInv, NEW s \in Sessions, UNCHANGED dbVars, LocksHeld',
         Open(s)' => Progress(s, tx[s])',
         \A r \in Sessions \ {s} : tx'[r] = tx[r] /\ locks'[r] = locks[r] /\ writes'[r] = writes[r]
  PROVE  TransactionsInv'
  <1>1. RowsExist'
    BY DEF TransactionsInv, RowsExist, dbVars
  <1>2. ASSUME NEW r \in Sessions \ {s}, Open(r)'
        PROVE  Progress(r, tx[r])'
    <2>1. PICK x : x = tx[r]
      OBVIOUS
    <2>2. Open(r) /\ tx'[r] = x
      BY <1>2, <2>1 DEF Open
    <2>3. LastToComplete(x.call.test, r)' <=> LastToComplete(x.call.test, r)
      BY DEF LastToComplete, AssignedWorkers, dbVars
    <2>4. Beside(r, x, x)
      BY <2>3 DEF Beside, dbVars
    <2>. QED
      BY <1>1, <2>1, <2>2, <2>4, OthersProgress
  <1>. QED
    BY <1>1, <1>2 DEF TransactionsInv

LEMMA ClosedInv ==
  ASSUME TransactionsInv, NEW s \in Sessions, Closed(s), UNCHANGED dbVars
  PROVE  TransactionsInv'
  <1>1. LocksHeld' /\ ~Open(s)' /\ \A r \in Sessions \ {s} : tx'[r] = tx[r]
    BY ClosedLocks DEF TransactionsInv
  <1>2. \A r \in Sessions \ {s} : locks'[r] = locks[r] /\ writes'[r] = writes[r]
    BY DEF Closed, TransactionsInv, LocksHeld
  <1>. QED
    BY <1>1, <1>2, UncommittedInv

LEMMA BeginInv ==
  ASSUME TransactionsInv, NEW s \in Sessions, Begin(s)
  PROVE  TransactionsInv'
  <1>1. PICK call \in CallsOf(s) : Executes(s, AtStatement(call, 1, {}))
    BY DEF Begin
  <1>2. PICK x : x = AtStatement(call, 1, {})
    OBVIOUS
  <1>3. RowsExist /\ LocksHeld /\ ~Open(s)
    BY DEF TransactionsInv, Begin
  <1>4. SessionCall(s, call)
    BY CallsAreTheirs
  <1>5. x \in Transactions /\ Progress(s, x) /\ x.stage <= StatementCount(x.call.op)
    BY <1>2, <1>3, <1>4, BeginsWithNothing
  <1>6. Executes(s, x)
    BY <1>1, <1>2
  <1>7. /\ LocksHeld' /\ UNCHANGED dbVars
        /\ Open(s)' => Progress(s, tx[s])'
        /\ \A r \in Sessions \ {s} : tx'[r] = tx[r] /\ locks'[r] = locks[r] /\ writes'[r] = writes[r]
    BY <1>3, <1>5, <1>6, ExecutesStep
  <1>. QED
    BY <1>7, UncommittedInv

LEMMA ContinueInv ==
  ASSUME TransactionsInv, NEW s \in Sessions, Continue(s)
  PROVE  TransactionsInv'
  <1>1. PICK x : x = tx[s]
    OBVIOUS
  <1>2. RowsExist /\ LocksHeld /\ x \in Transactions /\ Progress(s, x)
    BY <1>1, OpenProgress DEF TransactionsInv, Continue
  <1>3. x.stage <= StatementCount(x.call.op)
    <2>1. ~(x.stage > StatementCount(x.call.op))
      BY <1>1 DEF Continue, AllStatementsDone, StatementCount
    <2>2. StatementCount(x.call.op) \in 1..4
      BY <1>2, CallShapes, StatementCounts DEF Progress, Reports
    <2>. QED
      BY <1>2, <2>1, <2>2, OpenTransactions
  <1>4. Executes(s, x)
    BY <1>1 DEF Continue
  <1>5. /\ LocksHeld' /\ UNCHANGED dbVars
        /\ Open(s)' => Progress(s, tx[s])'
        /\ \A r \in Sessions \ {s} : tx'[r] = tx[r] /\ locks'[r] = locks[r] /\ writes'[r] = writes[r]
    BY <1>2, <1>3, <1>4, ExecutesStep
  <1>. QED
    BY <1>5, UncommittedInv

LEMMA CommitsMay ==
  ASSUME TransactionsInv, NEW s \in Sessions, Commit(s)
  PROVE  MayCommit(s)
  <1>1. PICK x : x = tx[s]
    OBVIOUS
  <1>2. RowsExist /\ LocksHeld /\ x \in Transactions /\ Progress(s, x)
    BY <1>1, OpenProgress DEF TransactionsInv, Commit
  <1>3. x.stage > StatementCount(x.call.op)
    BY <1>1 DEF Commit, AllStatementsDone, StatementCount
  <1>. QED
    BY <1>2, <1>3, ProgressMayCommit

LEMMA CommitInv ==
  ASSUME TransactionsInv, NEW s \in Sessions, Commit(s)
  PROVE  TransactionsInv'
  <1>1. MayCommit(s)
    BY CommitsMay
  <1>2. RowsExist'
    BY <1>1, CommitKeepsRows DEF TransactionsInv
  <1>3. LocksHeld' /\ ~Open(s)' /\ \A r \in Sessions \ {s} : tx'[r] = tx[r]
    BY ClosedLocks DEF TransactionsInv, Commit
  <1>4. ASSUME NEW r \in Sessions \ {s}, Open(r)'
        PROVE  Progress(r, tx[r])'
    <2>1. PICK x : x = tx[r]
      OBVIOUS
    <2>2. Open(r) /\ tx'[r] = x
      BY <1>3, <1>4, <2>1 DEF Open
    <2>3. Beside(r, x, x)
      BY <1>1, <2>1, <2>2, CommitBeside
    <2>. QED
      BY <1>2, <2>1, <2>2, <2>3, OthersProgress
  <1>. QED
    BY <1>2, <1>3, <1>4 DEF TransactionsInv

LEMMA RunningWrittenInv ==
  ASSUME TransactionsInv, NEW t \in Tests, RunningWritten(t)
  PROVE  TransactionsInv'
  <1> DEFINE noted(x) == IF x.call.op \in LookFirst THEN [x EXCEPT !.early = @ \cup {t}] ELSE x
  <1>1. /\ testStatus' = [testStatus EXCEPT ![t] = "RUNNING"]
        /\ tx' = [s \in Sessions |-> IF Open(s) THEN noted(tx[s]) ELSE tx[s]]
        /\ UNCHANGED <<workerStatus, heartbeatFresh, assignment, locks, writes>>
        /\ \A s \in Sessions : Test(t) \notin locks[s]
    BY DEF RunningWritten, UpdateStatus
  <1>2. RowsExist'
    BY <1>1 DEF TransactionsInv, RowsExist, TestStatuses
  <1>3. \A s \in Sessions : Open(s) =>
          /\ tx[s] \in Transactions
          /\ tx'[s] = noted(tx[s])
          /\ tx'[s] \in Transactions
    <2>1. ASSUME NEW x \in Transactions
          PROVE  noted(x) \in Transactions
      BY DEF Transactions
    <2>2. \A s \in Sessions : Open(s) => tx[s] \in Transactions
      BY DEF TransactionsInv, LocksHeld, Open
    <2>3. \A s \in Sessions : Open(s) => tx'[s] = noted(tx[s])
      BY <1>1
    <2>. QED
      BY <2>1, <2>2, <2>3
  <1>4. \A s \in Sessions : Open(s)' <=> Open(s)
    BY <1>1, <1>3, OpenTransactions DEF Open
  <1>5. LocksHeld'
    <2>1. tx' \in [Sessions -> Transactions \cup {NoTx}]
      BY <1>1, <1>3 DEF Open
    <2>. QED
      BY <1>1, <1>4, <2>1 DEF TransactionsInv, LocksHeld
  <1>6. ASSUME NEW r \in Sessions, Open(r)'
        PROVE  Progress(r, tx[r])'
    <2>1. PICK x : x = tx[r]
      OBVIOUS
    <2>2. PICK y : y = noted(x)
      OBVIOUS
    <2>3. Open(r) /\ tx'[r] = y /\ x \in Transactions
      BY <1>3, <1>4, <1>6, <2>1, <2>2
    <2>4. /\ y.call = x.call /\ y.stage = x.stage /\ y.todo = x.todo /\ y.hit = x.hit
          /\ y.blocked = x.blocked /\ x.early \subseteq y.early
          /\ x.call.op \in LookFirst => t \in y.early
      BY <2>2, <2>3 DEF Transactions
    <2>5. LastToComplete(x.call.test, r)' <=> LastToComplete(x.call.test, r)
      BY <1>1 DEF LastToComplete, AssignedWorkers
    <2>6. \A u \in Tests :
            /\ Test(u) \in locks[r] => testStatus'[u] = testStatus[u]
            /\ x.call.op \in LookFirst /\ testStatus'[u] = "RUNNING" =>
                 testStatus[u] = "RUNNING" \/ u \in y.early
      BY <1>1, <2>4 DEF TransactionsInv, RowsExist
    <2>7. Beside(r, x, y)
      BY <1>1, <2>4, <2>5, <2>6 DEF Beside
    <2>. QED
      BY <1>2, <2>1, <2>3, <2>7, OthersProgress
  <1>. QED
    BY <1>2, <1>5, <1>6 DEF TransactionsInv

LEMMA StopWrittenInv ==
  ASSUME TransactionsInv, NEW t \in Tests, StopWritten(t)
  PROVE  TransactionsInv'
  <1>1. /\ testStatus' = [testStatus EXCEPT ![t] = "STOPPING"]
        /\ UNCHANGED <<workerStatus, heartbeatFresh, assignment, tx, locks, writes>>
        /\ \A s \in Sessions : Test(t) \notin locks[s]
    BY DEF StopWritten, UpdateStatus, sessionVars
  <1>2. RowsExist' /\ LocksHeld'
    BY <1>1 DEF TransactionsInv, RowsExist, LocksHeld, Open, TestStatuses
  <1>3. ASSUME NEW r \in Sessions, Open(r)'
        PROVE  Progress(r, tx[r])'
    <2>1. PICK x : x = tx[r]
      OBVIOUS
    <2>2. Open(r) /\ tx'[r] = x
      BY <1>1, <1>3, <2>1 DEF Open
    <2>3. LastToComplete(x.call.test, r)' <=> LastToComplete(x.call.test, r)
      BY <1>1 DEF LastToComplete, AssignedWorkers
    <2>4. \A u \in Tests :
            /\ Test(u) \in locks[r] => testStatus'[u] = testStatus[u]
            /\ testStatus'[u] = "RUNNING" => testStatus[u] = "RUNNING"
      BY <1>1 DEF TransactionsInv, RowsExist
    <2>5. Beside(r, x, x)
      BY <1>1, <2>3, <2>4 DEF Beside
    <2>. QED
      BY <1>2, <2>1, <2>2, <2>5, OthersProgress
  <1>. QED
    BY <1>2, <1>3 DEF TransactionsInv

LEMMA TransactionsInvStep == TransactionsInv /\ [TransactionsNext]_txVars => TransactionsInv'
  <1> SUFFICES ASSUME TransactionsInv, [TransactionsNext]_txVars
               PROVE  TransactionsInv'
    OBVIOUS
  <1>1. ASSUME NEW s \in Sessions, Begin(s) PROVE TransactionsInv'
    BY <1>1, BeginInv
  <1>2. ASSUME NEW s \in Sessions, Continue(s) PROVE TransactionsInv'
    BY <1>2, ContinueInv
  <1>3. ASSUME NEW s \in Sessions, Commit(s) PROVE TransactionsInv'
    BY <1>3, CommitInv
  <1>4. ASSUME NEW s \in Sessions, Abort(s) PROVE TransactionsInv'
    BY <1>4, ClosedInv DEF Abort
  <1>5. CASE DeadlockResolved
    <2>1. PICK s \in Sessions : Closed(s)
      BY <1>5 DEF DeadlockResolved
    <2>2. UNCHANGED dbVars
      BY <1>5 DEF DeadlockResolved
    <2>. QED
      BY <2>1, <2>2, ClosedInv
  <1>6. ASSUME NEW t \in Tests, RunningWritten(t) PROVE TransactionsInv'
    BY <1>6, RunningWrittenInv
  <1>7. ASSUME NEW t \in Tests, StopWritten(t) PROVE TransactionsInv'
    BY <1>7, StopWrittenInv
  <1>8. CASE UNCHANGED txVars
    <2>1. PICK s : s \in Sessions
      BY DEF Sessions
    <2>2. UNCHANGED dbVars /\ UNCHANGED <<tx, locks, writes>>
      BY <1>8 DEF txVars, dbVars
    <2>3. LocksHeld'
      BY <2>2 DEF TransactionsInv, LocksHeld, Open
    <2>4. Open(s)' => Progress(s, tx[s])'
      BY <1>8, <2>1 DEF TransactionsInv, Open, txVars, Progress, SessionCall, ReportProgress,
            RunningProgress, CompletedProgress, FailedProgress, ReleaseProgress,
            MarkOfflineProgress, SweepProgress, HasCause, Has, LastToComplete, AssignedWorkers,
            LostAssignment, Overdue
    <2>. QED
      BY <2>1, <2>2, <2>3, <2>4, UncommittedInv
  <1>. QED
    BY <1>1, <1>2, <1>3, <1>4, <1>5, <1>6, <1>7, <1>8 DEF TransactionsNext

LEMMA TransactionsInvInit == TransactionsInit => TransactionsInv
  <1> SUFFICES ASSUME TransactionsInit PROVE TransactionsInv
    OBVIOUS
  <1>1. RowsExist
    BY DEF TransactionsInit, RowsExist, TestStatuses, WorkerStatuses, AssignmentStatuses
  <1>2. /\ tx = [s \in Sessions |-> NoTx] /\ locks = [s \in Sessions |-> {}]
        /\ writes = [s \in Sessions |-> <<>>]
    BY DEF TransactionsInit
  <1>3. LocksHeld
    <2>1. \A s \in Sessions : DOMAIN writes[s] = {}
      BY <1>2
    <2>. QED
      BY <1>2, <2>1 DEF LocksHeld, Open
  <1>. QED
    BY <1>1, <1>2, <1>3 DEF TransactionsInv, Open

LEMMA TransactionsInvHolds == TransactionsSpec => []TransactionsInv
  BY TransactionsInvInit, TransactionsInvStep, PTL DEF TransactionsSpec

\* Every row of a test and of a worker exists and has one of its statuses; no
\* two sessions hold the lock of one row; what is written is locked (the row
\* locks of the transactions of assignment.go and worker_repository.go).
THEOREM TransactionsTypeCorrect == TransactionsSpec => []TransactionsTypeOK
  <1>1. TransactionsInv => TransactionsTypeOK
    BY DEF TransactionsInv, RowsExist, LocksHeld, TransactionsTypeOK, DBTypeOK
  <1>. QED
    BY <1>1, TransactionsInvHolds, PTL

-----------------------------------------------------------------------------
(* Deadlocks                                                               *)

\* A report that waits for another one waits for the row of the test they
\* share, and the other has that row.
LEMMA ReportWaits ==
  ASSUME TransactionsInv, NEW s \in Workers, NEW r \in Workers, WaitsFor(s, r)
  PROVE  /\ tx[s].blocked = Test(tx[s].call.test) /\ tx[s].blocked \notin locks[s]
         /\ Open(r) /\ Test(tx[r].call.test) \in locks[r]
  <1> DEFINE c == tx[s].call
             d == tx[r].call
  <1>1. s \in Sessions /\ r \in Sessions
    BY DEF Sessions
  <1>2. Open(s) /\ tx[s].blocked # Unblocked /\ tx[s].blocked \in locks[r]
    BY DEF WaitsFor
  <1>3. Open(r)
    BY <1>1, <1>2 DEF TransactionsInv, LocksHeld
  <1>4. /\ SessionCall(s, c) /\ SessionCall(r, d)
        /\ tx[s] \in Transactions /\ tx[r] \in Transactions
    BY <1>1, <1>2, <1>3, OpenProgress DEF Progress
  <1>5. /\ c.op \in Reports /\ c.worker = s /\ d.op \in Reports /\ d.worker = r
    BY <1>1, <1>4, CallShapes
  <1>6. ReportProgress(s, tx[s]) /\ ReportProgress(r, tx[r])
    BY <1>1, <1>2, <1>3, <1>5, OpenProgress DEF Progress
  <1>7. /\ tx[s].blocked = RowOf(tx[s]) /\ tx[s].stage <= StatementCount(c.op)
        /\ tx[s].blocked \notin locks[s] /\ tx[s].blocked \in ReportRows(d)
    BY <1>2, <1>6 DEF ReportProgress
  <1>8. PICK x : x = tx[s]
    OBVIOUS
  <1>9. RowOf(x) \in ReportRows(x.call)
    BY <1>4, <1>5, <1>7, <1>8, ReportScope, OpenTransactions
  <1>10. tx[s].blocked \in ReportRows(c) \cap ReportRows(d)
    BY <1>7, <1>8, <1>9
  <1>11. s # r
    BY <1>2, <1>7
  <1>. QED
    BY <1>2, <1>3, <1>5, <1>7, <1>10, <1>11, RowsDiffer DEF ReportRows

\* The reports of workers (MarkAssignmentRunning, -Completed and -Failed) do
\* not deadlock among themselves: what one of them waits for of another is the
\* row of their test, and who has that waits for none.
THEOREM NoDeadlockAmongReports == TransactionsSpec => []ReportsDoNotDeadlock
  <1>1. ASSUME TransactionsInv, NEW cycle \in SUBSET Workers, Deadlock(cycle)
        PROVE  FALSE
    <2>1. PICK s \in cycle, r \in cycle : WaitsFor(s, r)
      BY <1>1 DEF Deadlock
    <2>2. PICK q \in cycle : WaitsFor(r, q)
      BY <1>1 DEF Deadlock
    <2>3. Test(tx[r].call.test) \in locks[r]
      BY <1>1, <2>1, ReportWaits
    <2>4. Test(tx[r].call.test) \notin locks[r]
      BY <1>1, <2>2, ReportWaits
    <2>. QED
      BY <2>3, <2>4
  <1>2. TransactionsInv => ReportsDoNotDeadlock
    BY <1>1 DEF ReportsDoNotDeadlock
  <1>. QED
    BY <1>2, TransactionsInvHolds, PTL

-----------------------------------------------------------------------------
(* What a commit amounts to                                                *)

LEMMA OneAssignment ==
  ASSUME RowsExist, RowsExist', NEW t \in Tests, NEW w \in Workers, NEW new,
         \A u \in Tests, v \in Workers :
           assignment'[u][v] = IF u = t /\ v = w THEN new ELSE assignment[u][v]
  PROVE  assignment' = [assignment EXCEPT ![t][w] = new]
  <1>1. /\ assignment \in [Tests -> [Workers -> AssignmentStatuses \cup {NoRow}]]
        /\ assignment' \in [Tests -> [Workers -> AssignmentStatuses \cup {NoRow}]]
    BY DEF RowsExist
  <1>2. assignment'[t] = [assignment[t] EXCEPT ![w] = new]
    BY <1>1
  <1>3. \A u \in Tests \ {t} : assignment'[u] = assignment[u]
    BY <1>1
  <1>. QED
    BY <1>1, <1>2, <1>3

LEMMA RunningEffect ==
  ASSUME RowsExist, RowsExist', LocksHeld, NEW s \in Workers, NEW x \in Transactions, Commit(s),
         SessionCall(s, x.call), x.call.op = "running", ReportProgress(s, x),
         x.stage = StatementCount(x.call.op) + 1, RunningProgress(s, x)
  PROVE  Effect(x.call, {})
  <1> DEFINE t == x.call.test
  <1>1. s \in Sessions /\ x.call.worker = s /\ t \in Tests /\ x.stage = 3
    BY CallShapes, StatementCounts DEF Sessions, Reports
  <1>2. \A row : Has(s, row) => row \in {Assignment(t, s), Worker(s), Test(t)}
    BY <1>1 DEF LocksHeld, Has, ReportProgress, ReportRows
  <1>3. /\ \A u \in Tests : Has(s, Test(u)) => u = t
        /\ \A w \in Workers : Has(s, Worker(w)) => w = s
        /\ \A u \in Tests, w \in Workers : Has(s, Assignment(u, w)) => u = t /\ w = s
    BY <1>2, RowsDiffer
  <1>4. /\ ~Has(s, Test(t)) /\ Has(s, Assignment(t, s))
        /\ assignment[t][s] = "RESERVED" /\ writes[s][Assignment(t, s)] = "RUNNING"
        /\ Has(s, Worker(s)) => workerStatus[s] = "RESERVED" /\ writes[s][Worker(s)] = "RUNNING"
        /\ Has(s, Worker(s)) \/ workerStatus[s] # "RESERVED"
    BY <1>1 DEF RunningProgress
  <1>5. /\ \A u \in Tests : testStatus'[u] = testStatus[u]
        /\ \A w \in Workers : workerStatus'[w] =
             IF w = s /\ workerStatus[s] = "RESERVED" THEN "RUNNING" ELSE workerStatus[w]
        /\ \A u \in Tests, w \in Workers :
             assignment'[u][w] = IF u = t /\ w = s THEN "RUNNING" ELSE assignment[u][w]
    BY <1>1, <1>3, <1>4, CommitWrites
  <1>6. assignment' = [assignment EXCEPT ![t][s] = "RUNNING"]
    BY <1>1, <1>5, OneAssignment
  <1>7. workerStatus' = [workerStatus EXCEPT ![s] = IF @ = "RESERVED" THEN "RUNNING" ELSE @]
    BY <1>5 DEF RowsExist
  <1>8. heartbeatFresh' = heartbeatFresh
    BY DEF Commit
  <1>. QED
    BY <1>1, <1>4, <1>5, <1>6, <1>7, <1>8 DEF Effect, Before!MarkAssignmentRunning

LEMMA CompletedEffect ==
  ASSUME RowsExist, RowsExist', LocksHeld, NEW s \in Workers, NEW x \in Transactions, Commit(s),
         SessionCall(s, x.call), x.call.op = "completed", ReportProgress(s, x),
         x.stage = StatementCount(x.call.op) + 1, CompletedProgress(s, x)
  PROVE  Effect(x.call, {})
  <1> DEFINE t == x.call.test
             last == LastToComplete(t, s)
  <1>1. s \in Sessions /\ x.call.worker = s /\ t \in Tests /\ x.stage = 5
    BY CallShapes, StatementCounts DEF Sessions, Reports
  <1>2. \A row : Has(s, row) => row \in {Assignment(t, s), Worker(s), Test(t)}
    BY <1>1 DEF LocksHeld, Has, ReportProgress, ReportRows
  <1>3. /\ \A u \in Tests : Has(s, Test(u)) => u = t
        /\ \A w \in Workers : Has(s, Worker(w)) => w = s
        /\ \A u \in Tests, w \in Workers : Has(s, Assignment(u, w)) => u = t /\ w = s
    BY <1>2, RowsDiffer
  <1>4. /\ Has(s, Test(t)) /\ Has(s, Assignment(t, s))
        /\ writes[s][Test(t)] =
             IF last /\ testStatus[t] = "RUNNING" THEN "COMPLETED" ELSE testStatus[t]
        /\ assignment[t][s] = "RUNNING" /\ writes[s][Assignment(t, s)] = "COMPLETED"
        /\ Has(s, Worker(s)) => workerStatus[s] = "RUNNING" /\ writes[s][Worker(s)] = "IDLE"
        /\ Has(s, Worker(s)) \/ workerStatus[s] # "RUNNING"
    BY <1>1 DEF CompletedProgress
  <1> HIDE DEF last
  <1>5. /\ \A u \in Tests : testStatus'[u] =
             IF u = t /\ last /\ testStatus[t] = "RUNNING" THEN "COMPLETED" ELSE testStatus[u]
        /\ \A w \in Workers : workerStatus'[w] =
             IF w = s /\ workerStatus[s] = "RUNNING" THEN "IDLE" ELSE workerStatus[w]
        /\ \A u \in Tests, w \in Workers :
             assignment'[u][w] = IF u = t /\ w = s THEN "COMPLETED" ELSE assignment[u][w]
    BY <1>1, <1>3, <1>4, CommitWrites
  <1>6. assignment' = [assignment EXCEPT ![t][s] = "COMPLETED"]
    BY <1>1, <1>5, OneAssignment
  <1>7. workerStatus' = [workerStatus EXCEPT ![s] = IF @ = "RUNNING" THEN "IDLE" ELSE @]
    BY <1>5 DEF RowsExist
  <1>8. heartbeatFresh' = heartbeatFresh
    BY DEF Commit
  <1>9. Before({})!LastToComplete(t, s) <=> last
    BY DEF last, LastToComplete, AssignedWorkers, Before!LastToComplete, Before!AssignedWorkers,
           Before!NoRow, NoRow
  <1> DEFINE pre == [u \in Tests |-> IF u \in {} THEN "STARTING" ELSE testStatus[u]]
  <1>10. [u \in Tests |-> IF u \in {} THEN "STARTING" ELSE testStatus'[u]] =
           [pre EXCEPT ![t] = IF last /\ @ = "RUNNING" THEN "COMPLETED" ELSE @]
    BY <1>1, <1>5
  <1>. QED
    BY <1>1, <1>4, <1>6, <1>7, <1>8, <1>9, <1>10 DEF Effect, Before!MarkAssignmentCompleted

LEMMA FailedEffect ==
  ASSUME RowsExist, RowsExist', LocksHeld, NEW s \in Workers, NEW x \in Transactions, Commit(s),
         SessionCall(s, x.call), x.call.op = "failed", ReportProgress(s, x),
         x.stage = StatementCount(x.call.op) + 1, FailedProgress(s, x)
  PROVE  \E early \in SUBSET x.early :
           Effect(x.call, early) /\ \A u \in early : testStatus'[u] = testStatus[u]
  <1> DEFINE t == x.call.test
             a == Assignment(t, s)
  <1>1. s \in Sessions /\ x.call.worker = s /\ t \in Tests /\ x.stage = 3
    BY CallShapes, StatementCounts DEF Sessions, Reports
  <1>2. \A row : Has(s, row) => row \in {Assignment(t, s), Worker(s), Test(t)}
    BY <1>1 DEF LocksHeld, Has, ReportProgress, ReportRows
  <1>3. /\ \A u \in Tests : Has(s, Test(u)) => u = t
        /\ \A w \in Workers : Has(s, Worker(w)) => w = s
        /\ \A u \in Tests, w \in Workers : Has(s, Assignment(u, w)) => u = t /\ w = s
    BY <1>2, RowsDiffer
  <1>4. /\ ~Has(s, Worker(s)) /\ Has(s, a)
        /\ assignment[t][s] \in Active /\ writes[s][a] = "FAILED"
        /\ Has(s, Test(t)) => testStatus[t] = "RUNNING" /\ writes[s][Test(t)] = "FAILED"
        /\ Has(s, Test(t)) \/ testStatus[t] # "RUNNING" \/ t \in x.early
    BY <1>1 DEF FailedProgress
  <1>5. /\ \A u \in Tests : testStatus'[u] =
             IF u = t /\ Has(s, Test(t)) THEN "FAILED" ELSE testStatus[u]
        /\ \A w \in Workers : workerStatus'[w] = workerStatus[w]
        /\ \A u \in Tests, w \in Workers :
             assignment'[u][w] = IF u = t /\ w = s THEN "FAILED" ELSE assignment[u][w]
    BY <1>1, <1>3, <1>4, CommitWrites
  <1>6. assignment' = [assignment EXCEPT ![t][s] = "FAILED"]
    BY <1>1, <1>5, OneAssignment
  <1>7. workerStatus' = workerStatus
    BY <1>5 DEF RowsExist
  <1>8. heartbeatFresh' = heartbeatFresh
    BY DEF Commit
  <1> DEFINE before(early) == [u \in Tests |-> IF u \in early THEN "STARTING" ELSE testStatus[u]]
             after(early)  == [u \in Tests |-> IF u \in early THEN "STARTING" ELSE testStatus'[u]]
  <1>9. ASSUME NEW early,
               after(early) = [before(early) EXCEPT ![t] = IF @ = "RUNNING" THEN "FAILED" ELSE @]
        PROVE  Effect(x.call, early)
    BY <1>1, <1>4, <1>6, <1>7, <1>8, <1>9
       DEF Effect, Before!MarkAssignmentFailed, Before!Active, Active
  <1>10. CASE Has(s, Test(t)) \/ testStatus[t] # "RUNNING"
    <2>1. after({}) = [before({}) EXCEPT ![t] = IF @ = "RUNNING" THEN "FAILED" ELSE @]
      BY <1>1, <1>4, <1>5, <1>10
    <2>2. Effect(x.call, {})
      BY <1>9, <2>1
    <2>. QED
      BY <2>2
  <1>11. CASE ~Has(s, Test(t)) /\ t \in x.early
    <2>1. after({t}) = [before({t}) EXCEPT ![t] = IF @ = "RUNNING" THEN "FAILED" ELSE @]
      BY <1>1, <1>5, <1>11
    <2>2. Effect(x.call, {t})
      BY <1>9, <2>1
    <2>3. {t} \in SUBSET x.early /\ \A u \in {t} : testStatus'[u] = testStatus[u]
      BY <1>1, <1>5, <1>11
    <2>. QED
      BY <2>2, <2>3
  <1>. QED
    BY <1>4, <1>10, <1>11

LEMMA ReleaseEffect ==
  ASSUME RowsExist, RowsExist', NEW s \in Sessions, NEW x \in Transactions, Commit(s),
         x.call.op = "release", x.call.test \in Tests, x.stage = 4, ReleaseProgress(s, x)
  PROVE  Effect(x.call, {})
  <1> DEFINE t == x.call.test
             held == AssignedWorkers(t)
  <1>1. \A row : Has(s, row) => \E w \in held : row \in {Assignment(t, w), Worker(w)}
    BY DEF ReleaseProgress, Has
  <1>2. \A w \in held :
          /\ Has(s, Assignment(t, w))
          /\ writes[s][Assignment(t, w)] =
               IF assignment[t][w] \in Active THEN "COMPLETED" ELSE assignment[t][w]
          /\ Has(s, Worker(w)) => workerStatus[w] = "RESERVED" /\ writes[s][Worker(w)] = "IDLE"
          /\ Has(s, Worker(w)) \/ workerStatus[w] # "RESERVED"
    BY DEF ReleaseProgress
  <1>3. \A w \in Workers : w \notin held => assignment[t][w] \notin Active
    BY DEF AssignedWorkers, Active, NoRow
  <1> HIDE DEF held
  <1>4. /\ \A u \in Tests : ~Has(s, Test(u))
        /\ \A w \in Workers : Has(s, Worker(w)) => w \in held
        /\ \A u \in Tests, w \in Workers : Has(s, Assignment(u, w)) => u = t /\ w \in held
    BY <1>1, RowsDiffer
  <1>5. \A w \in Workers : workerStatus'[w] =
          IF w \in held /\ workerStatus[w] = "RESERVED" THEN "IDLE" ELSE workerStatus[w]
    BY <1>2, <1>4, CommitWrites
  <1>6. \A w \in Workers : assignment'[t][w] =
          IF assignment[t][w] \in Active THEN "COMPLETED" ELSE assignment[t][w]
    BY <1>2, <1>3, <1>4, CommitWrites
  <1>7. \A u \in Tests \ {t}, w \in Workers : assignment'[u][w] = assignment[u][w]
    BY <1>4, CommitWrites
  <1>8. /\ assignment \in [Tests -> [Workers -> AssignmentStatuses \cup {NoRow}]]
        /\ assignment' \in [Tests -> [Workers -> AssignmentStatuses \cup {NoRow}]]
    BY DEF RowsExist
  <1>9. assignment' = [assignment EXCEPT
                         ![t] = [w \in Workers |-> IF @[w] \in Active THEN "COMPLETED" ELSE @[w]]]
    <2>1. assignment'[t] = [w \in Workers |->
                              IF assignment[t][w] \in Active THEN "COMPLETED" ELSE assignment[t][w]]
      BY <1>6, <1>8
    <2>2. \A u \in Tests \ {t} : assignment'[u] = assignment[u]
      BY <1>7, <1>8
    <2>. QED
      BY <1>8, <2>1, <2>2
  <1>10. workerStatus' = [w \in Workers |->
                            IF w \in held /\ workerStatus[w] = "RESERVED" THEN "IDLE" ELSE workerStatus[w]]
    BY <1>5 DEF RowsExist
  <1>11. /\ \A u \in Tests : testStatus'[u] = testStatus[u]
         /\ heartbeatFresh' = heartbeatFresh
    BY <1>4, CommitWrites DEF Commit
  <1>12. Before({})!AssignedWorkers(t) = held
    BY DEF held, AssignedWorkers, Before!AssignedWorkers, Before!NoRow, NoRow
  <1>. QED
    BY <1>9, <1>10, <1>11, <1>12 DEF Effect, Before!ReleaseWorkersForTest, Before!Active, Active

LEMMA MarkOfflineEffect ==
  ASSUME RowsExist, RowsExist', NEW s \in Sessions, NEW x \in Transactions, Commit(s),
         x.call.op = "markOffline", x.stage = 2, MarkOfflineProgress(s, x)
  PROVE  Effect(x.call, {})
  <1>1. \A row : Has(s, row) => \E w \in Workers : Overdue(w) /\ row = Worker(w)
    BY DEF MarkOfflineProgress, Has
  <1>2. /\ \A t \in Tests : ~Has(s, Test(t))
        /\ \A w \in Workers : Has(s, Worker(w)) => Overdue(w)
        /\ \A t \in Tests, w \in Workers : ~Has(s, Assignment(t, w))
    BY <1>1, RowsDiffer
  <1>3. \A w \in Workers :
          /\ Has(s, Worker(w)) => writes[s][Worker(w)] = "OFFLINE"
          /\ Overdue(w) => Has(s, Worker(w))
    BY DEF MarkOfflineProgress
  <1>4. /\ \A t \in Tests : testStatus'[t] = testStatus[t]
        /\ \A w \in Workers : workerStatus'[w] = IF Overdue(w) THEN "OFFLINE" ELSE workerStatus[w]
        /\ \A t \in Tests, w \in Workers : assignment'[t][w] = assignment[t][w]
    BY <1>2, <1>3, CommitWrites
  <1>5. workerStatus' = [w \in Workers |-> IF Overdue(w) THEN "OFFLINE" ELSE workerStatus[w]]
    BY <1>4 DEF RowsExist
  <1>6. assignment' = assignment
    <2>1. \A t \in Tests : assignment'[t] = assignment[t]
      BY <1>4 DEF RowsExist
    <2>. QED
      BY <2>1 DEF RowsExist
  <1>7. heartbeatFresh' = heartbeatFresh
    BY DEF Commit
  <1>8. \A w \in Workers : Before({})!Overdue(w) <=> Overdue(w)
    BY DEF Overdue, Before!Overdue, Before!NoRow, NoRow
  <1>. QED
    BY <1>4, <1>5, <1>6, <1>7, <1>8 DEF Effect, Before!MarkOfflineWorkers

\* The tests a sweep did not fail: of those it fails an assignment of, only
\* those that became RUNNING since; the others it may have overlooked.
LEMMA SweepEffect ==
  ASSUME RowsExist, RowsExist', NEW s \in Sessions, NEW x \in Transactions, Commit(s),
         x.call.op = "sweep", x.stage = 3, SweepProgress(s, x)
  PROVE  \E early \in SUBSET x.early :
           Effect(x.call, early) /\ \A t \in early : testStatus'[t] = testStatus[t]
  <1> DEFINE left(t) == testStatus[t] = "RUNNING" /\ ~Has(s, Test(t))
             lost(t, w) == LostAssignment(t, w)
  <1>a. PICK early : early = {t \in x.early : left(t)}
    OBVIOUS
  <1>b. PICK overlooked : overlooked = {t \in Tests \ x.early : left(t)}
    OBVIOUS
  <1> DEFINE pre == [t \in Tests |-> IF t \in early THEN "STARTING" ELSE testStatus[t]]
             post == [t \in Tests |-> IF t \in early THEN "STARTING" ELSE testStatus'[t]]
  <1>1. x.early \subseteq Tests
    BY OpenTransactions
  <1>2. \A row : Has(s, row) =>
          \/ \E t \in Tests : row = Test(t) /\ HasCause(s, t)
          \/ \E t \in Tests, w \in Workers : row = Assignment(t, w) /\ workerStatus[w] = "OFFLINE"
    BY DEF SweepProgress, Has
  <1>3. /\ \A w \in Workers : ~Has(s, Worker(w))
        /\ \A t \in Tests : Has(s, Test(t)) => HasCause(s, t)
        /\ \A t \in Tests, w \in Workers : Has(s, Assignment(t, w)) => workerStatus[w] = "OFFLINE"
    BY <1>2, RowsDiffer
  <1>4. \A t \in Tests, w \in Workers :
          /\ Has(s, Assignment(t, w)) =>
               assignment[t][w] \in Active /\ writes[s][Assignment(t, w)] = "FAILED"
          /\ lost(t, w) => Has(s, Assignment(t, w))
    BY DEF SweepProgress
  <1>5. \A t \in Tests, w \in Workers : Has(s, Assignment(t, w)) <=> lost(t, w)
    BY <1>3, <1>4 DEF LostAssignment
  <1>6. \A t \in Tests :
          /\ Has(s, Test(t)) => testStatus[t] = "RUNNING" /\ writes[s][Test(t)] = "FAILED"
          /\ (\E w \in Workers : Has(s, Assignment(t, w))) =>
               Has(s, Test(t)) \/ testStatus[t] # "RUNNING" \/ t \in x.early
    BY DEF SweepProgress
  <1>7. \A t \in Tests : Has(s, Test(t)) =>
          \E w \in Workers : lost(t, w) \/ assignment[t][w] = "FAILED"
    BY <1>3, <1>5 DEF HasCause
  <1> HIDE DEF lost
  <1>8. /\ \A t \in Tests : testStatus'[t] = IF Has(s, Test(t)) THEN "FAILED" ELSE testStatus[t]
        /\ \A w \in Workers : workerStatus'[w] = workerStatus[w]
        /\ \A t \in Tests, w \in Workers :
             assignment'[t][w] = IF lost(t, w) THEN "FAILED" ELSE assignment[t][w]
    BY <1>3, <1>4, <1>5, <1>6, CommitWrites
  <1>9. assignment' = [t \in Tests |-> [w \in Workers |->
                         IF lost(t, w) THEN "FAILED" ELSE assignment[t][w]]]
    <2>1. \A t \in Tests : assignment'[t] =
            [w \in Workers |-> IF lost(t, w) THEN "FAILED" ELSE assignment[t][w]]
      BY <1>8 DEF RowsExist
    <2>. QED
      BY <2>1 DEF RowsExist
  <1>10. workerStatus' = workerStatus /\ heartbeatFresh' = heartbeatFresh
    BY <1>8 DEF RowsExist, Commit
  <1>11. \A t \in overlooked, w \in Workers : ~lost(t, w)
    BY <1>b, <1>5, <1>6
  <1>12. \A t \in Tests : post[t] =
           IF /\ pre[t] = "RUNNING" /\ t \notin overlooked
              /\ \E w \in Workers : lost(t, w) \/ assignment[t][w] = "FAILED"
           THEN "FAILED" ELSE pre[t]
    BY <1>a, <1>b, <1>6, <1>7, <1>8
  <1>13. post = [t \in Tests |->
                   IF /\ pre[t] = "RUNNING" /\ t \notin overlooked
                      /\ \E w \in Workers : lost(t, w) \/ assignment[t][w] = "FAILED"
                   THEN "FAILED" ELSE pre[t]]
    BY <1>12
  <1>14. /\ early \in SUBSET x.early /\ overlooked \in SUBSET Tests
         /\ \A t \in early : testStatus'[t] = testStatus[t]
    BY <1>a, <1>b, <1>1, <1>8
  <1>15. \A t \in Tests, w \in Workers : Before(early)!LostAssignment(t, w) <=> lost(t, w)
    BY DEF lost, LostAssignment, Before!LostAssignment, Before!Active, Active
  <1>16. Before(early)!SweepFailsAssignments
    BY <1>9, <1>15 DEF Before!SweepFailsAssignments
  <1>17. \A t \in overlooked : Before(early)!MayBeOverlooked(t)
    BY <1>11, <1>14, <1>15 DEF Before!MayBeOverlooked
  <1>18. Before(early)!MarkAssignmentsFailedForOfflineWorkers(overlooked)
    BY <1>10, <1>13, <1>15, <1>16, <1>17 DEF Before!MarkAssignmentsFailedForOfflineWorkers
  <1>19. Effect(x.call, early)
    BY <1>14, <1>18 DEF Effect
  <1>. QED
    BY <1>14, <1>19

LEMMA CommitEffect ==
  ASSUME TransactionsInv, NEW s \in Sessions, Commit(s), NEW x, x = tx[s]
  PROVE  \E early \in SUBSET x.early :
           Effect(x.call, early) /\ \A t \in early : testStatus'[t] = testStatus[t]
  <1>1. RowsExist /\ LocksHeld /\ x \in Transactions /\ Progress(s, x)
    BY OpenProgress DEF TransactionsInv, Commit
  <1>2. RowsExist'
    BY CommitInv DEF TransactionsInv
  <1>3. SessionCall(s, x.call)
    BY <1>1 DEF Progress
  <1>4. x.stage = StatementCount(x.call.op) + 1
    <2>1. StatementCount(x.call.op) \in 1..4
      BY <1>3, CallShapes, StatementCounts DEF Reports
    <2>2. x.stage > StatementCount(x.call.op)
      BY DEF Commit, AllStatementsDone, StatementCount
    <2>. QED
      BY <1>1, <2>1, <2>2, OpenTransactions DEF Progress
  <1>5. {} \in SUBSET x.early
    OBVIOUS
  <1>6. CASE x.call.op = "running"
    <2>1. s \in Workers /\ ReportProgress(s, x) /\ RunningProgress(s, x)
      BY <1>1, <1>3, <1>6, CallShapes DEF Progress, Reports
    <2>2. Effect(x.call, {})
      BY <1>1, <1>2, <1>3, <1>4, <1>6, <2>1, RunningEffect
    <2>. QED
      BY <1>5, <2>2
  <1>7. CASE x.call.op = "completed"
    <2>1. s \in Workers /\ ReportProgress(s, x) /\ CompletedProgress(s, x)
      BY <1>1, <1>3, <1>7, CallShapes DEF Progress, Reports
    <2>2. Effect(x.call, {})
      BY <1>1, <1>2, <1>3, <1>4, <1>7, <2>1, CompletedEffect
    <2>. QED
      BY <1>5, <2>2
  <1>8. CASE x.call.op = "failed"
    <2>1. s \in Workers /\ ReportProgress(s, x) /\ FailedProgress(s, x)
      BY <1>1, <1>3, <1>8, CallShapes DEF Progress, Reports
    <2>. QED
      BY <1>1, <1>2, <1>3, <1>4, <1>8, <2>1, FailedEffect
  <1>9. CASE x.call.op = "release"
    <2>1. x.call.test \in Tests /\ x.stage = 4 /\ ReleaseProgress(s, x)
      BY <1>1, <1>3, <1>4, <1>9, CallShapes, StatementCounts DEF Progress
    <2>2. Effect(x.call, {})
      BY <1>1, <1>2, <1>9, <2>1, ReleaseEffect
    <2>. QED
      BY <1>5, <2>2
  <1>10. CASE x.call.op = "markOffline"
    <2>1. x.stage = 2 /\ MarkOfflineProgress(s, x)
      BY <1>1, <1>4, <1>10, StatementCounts DEF Progress
    <2>2. Effect(x.call, {})
      BY <1>1, <1>2, <1>10, <2>1, MarkOfflineEffect
    <2>. QED
      BY <1>5, <2>2
  <1>11. CASE x.call.op = "sweep"
    <2>1. x.stage = 3 /\ SweepProgress(s, x)
      BY <1>1, <1>4, <1>11, StatementCounts DEF Progress
    <2>. QED
      BY <1>1, <1>2, <1>11, <2>1, SweepEffect
  <1>. QED
    BY <1>3, <1>6, <1>7, <1>8, <1>9, <1>10, <1>11, CallShapes DEF Reports

\* What a transaction of several statements commits is what the operator of
\* Repository that stands for it everywhere else does in one step, whatever
\* others committed between its statements (assignment.go and
\* worker_repository.go under READ COMMITTED); a test that StartTest made
\* RUNNING meanwhile may count as still STARTING.
THEOREM CommitsLookAtomic == TransactionsSpec => CommitsAreAtomic
  <1> DEFINE Atomic == \A s \in Sessions : Commit(s) =>
               \E early \in SUBSET tx[s].early :
                 Effect(tx[s].call, early) /\ \A t \in early : testStatus'[t] = testStatus[t]
  <1>1. TransactionsInv => Atomic
    <2>1. SUFFICES ASSUME TransactionsInv, NEW s \in Sessions, Commit(s)
                   PROVE  \E early \in SUBSET tx[s].early :
                            Effect(tx[s].call, early) /\ \A t \in early : testStatus'[t] = testStatus[t]
      OBVIOUS
    <2>2. PICK x : x = tx[s]
      OBVIOUS
    <2>3. \E early \in SUBSET x.early :
            Effect(x.call, early) /\ \A t \in early : testStatus'[t] = testStatus[t]
      BY <2>1, <2>2, CommitEffect
    <2>4. ASSUME NEW early
          PROVE  Effect(x.call, early) <=> Effect(tx[s].call, early)
      BY <2>2 DEF Effect, Before!MarkAssignmentRunning, Before!MarkAssignmentCompleted,
            Before!MarkAssignmentFailed, Before!ReleaseWorkersForTest
    <2>. QED
      BY <2>2, <2>3, <2>4
  <1> HIDE DEF Atomic
  <1>2. TransactionsInv /\ [TransactionsNext]_txVars => [Atomic]_txVars
    BY <1>1
  <1>3. TransactionsSpec => [][Atomic]_txVars
    BY <1>2, TransactionsInvHolds, PTL DEF TransactionsSpec
  <1>. QED
    BY <1>3 DEF Atomic, CommitsAreAtomic

=============================================================================
