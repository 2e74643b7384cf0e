----------------------------- MODULE Repository -----------------------------
(***************************************************************************)
(* The control plane's durable state and the transactions on it            *)
(* (internal/repository).  All shared state of Vulcan is three PostgreSQL  *)
(* tables: tests, workers and test_workers (the assignments).  Every       *)
(* operator below is one committed transaction or one autocommitted        *)
(* statement: the row locks it takes make it atomic with respect to the    *)
(* others, so it is a single step.  A transaction that errors rolls back   *)
(* and changes nothing; the caller then sees the error, which is modelled  *)
(* where the caller is (module ControlPlane).                              *)
(*                                                                         *)
(* A column is kept when some guard reads it: the status of each row and,  *)
(* for workers, whether last_heartbeat is newer than the reconciler's      *)
(* cutoff.  Timestamps and descriptive columns are dropped.                *)
(***************************************************************************)
EXTENDS Naturals, FiniteSets

CONSTANTS
  Tests,    \* identifiers CreateTest may give out
  Workers   \* identifiers RegisterWorker may give out (one per registration)

VARIABLES
  testStatus,      \* tests.status, or NoRow
  workerStatus,    \* workers.status, or NoRow
  heartbeatFresh,  \* workers.last_heartbeat is not older than 120 s
  assignment       \* assignment[t][w]: test_workers.status of row (t, w), or NoRow

dbVars == <<testStatus, workerStatus, heartbeatFresh, assignment>>

NoRow == "NONE"

TestStatuses ==
  {"CREATED", "STARTING", "RUNNING", "STOPPING", "STOPPED", "COMPLETED", "FAILED"}

WorkerStatuses == {"IDLE", "RESERVED", "RUNNING", "DRAINING", "OFFLINE"}

AssignmentStatuses == {"RESERVED", "RUNNING", "COMPLETED", "FAILED"}

DBTypeOK ==
  /\ testStatus \in [Tests -> TestStatuses \cup {NoRow}]
  /\ workerStatus \in [Workers -> WorkerStatuses \cup {NoRow}]
  /\ heartbeatFresh \in [Workers -> BOOLEAN]
  /\ assignment \in [Tests -> [Workers -> AssignmentStatuses \cup {NoRow}]]

DBInit ==
  /\ testStatus = [t \in Tests |-> NoRow]
  /\ workerStatus = [w \in Workers |-> NoRow]
  /\ heartbeatFresh = [w \in Workers |-> FALSE]
  /\ assignment = [t \in Tests |-> [w \in Workers |-> NoRow]]

\* The workers that have an assignment row of test t, whatever its status.
AssignedWorkers(t) == {w \in Workers : assignment[t][w] # NoRow}

\* The statuses from which an assignment may still move.
Active == {"RESERVED", "RUNNING"}

IdleWorkers == {w \in Workers : workerStatus[w] = "IDLE"}

-----------------------------------------------------------------------------
(* tests: test_repository.go                                               *)

\* INSERT of a new test.
InsertTest(t) ==
  /\ testStatus[t] = NoRow
  /\ testStatus' = [testStatus EXCEPT ![t] = "CREATED"]
  /\ UNCHANGED <<workerStatus, heartbeatFresh, assignment>>

\* Unconditional write of the status column.
UpdateStatus(t, status) ==
  /\ testStatus[t] # NoRow
  /\ testStatus' = [testStatus EXCEPT ![t] = status]
  /\ UNCHANGED <<workerStatus, heartbeatFresh, assignment>>

\* Conditional write: one UPDATE ... WHERE status = from.  It reports (its
\* boolean result) whether the row was there to be moved.
TransitionApplies(t, from) == testStatus[t] = from

TryTransitionStatus(t, from, to) ==
  /\ testStatus' = [testStatus EXCEPT
                      ![t] = IF TransitionApplies(t, from) THEN to ELSE @]
  /\ UNCHANGED <<workerStatus, heartbeatFresh, assignment>>

-----------------------------------------------------------------------------
(* workers: worker_repository.go                                           *)

\* INSERT of a newly registered worker: IDLE, with a current heartbeat.
CreateWorker(w) ==
  /\ workerStatus[w] = NoRow
  /\ workerStatus' = [workerStatus EXCEPT ![w] = "IDLE"]
  /\ heartbeatFresh' = [heartbeatFresh EXCEPT ![w] = TRUE]
  /\ UNCHANGED <<testStatus, assignment>>

\* Defect variant: a heartbeat may overwrite DRAINING and OFFLINE.
ServerOwnedIfReserved == {"RESERVED"}

\* The statuses a heartbeat may not overwrite.
ServerOwned == {"RESERVED", "DRAINING", "OFFLINE"}

\* A heartbeat always refreshes last_heartbeat, and writes the reported
\* status unless the control plane owns the present one.
UpdateHeartbeat(w, reported) ==
  /\ workerStatus[w] # NoRow
  /\ workerStatus' = [workerStatus EXCEPT
                        ![w] = IF @ \in ServerOwned THEN @ ELSE reported]
  /\ heartbeatFresh' = [heartbeatFresh EXCEPT ![w] = TRUE]
  /\ UNCHANGED <<testStatus, assignment>>

\* Not an operation: 120 s pass since w's last heartbeat.
HeartbeatExpires(w) ==
  /\ heartbeatFresh[w]
  /\ heartbeatFresh' = [heartbeatFresh EXCEPT ![w] = FALSE]
  /\ UNCHANGED <<testStatus, workerStatus, assignment>>

\* Every worker whose last heartbeat is older than the cutoff goes OFFLINE,
\* RESERVED, RUNNING and DRAINING ones included.
Overdue(w) == workerStatus[w] # NoRow /\ ~heartbeatFresh[w]

MarkOfflineWorkers ==
  /\ workerStatus' = [w \in Workers |-> IF Overdue(w) THEN "OFFLINE" ELSE workerStatus[w]]
  /\ UNCHANGED <<testStatus, heartbeatFresh, assignment>>

\* Lock `count` IDLE workers, skipping rows others have locked, mark them
\* RESERVED and insert their assignment rows; all or nothing.  Which IDLE
\* workers are taken (freshest heartbeat first, minus the locked ones) is
\* left open.  A row (t, w) that exists already is a primary-key violation.
ReserveWorkersForTest(t, count) ==
  \E S \in SUBSET IdleWorkers :
    /\ Cardinality(S) = count
    /\ S \cap AssignedWorkers(t) = {}
    /\ workerStatus' = [w \in Workers |-> IF w \in S THEN "RESERVED" ELSE workerStatus[w]]
    /\ assignment' = [assignment EXCEPT
                        ![t] = [w \in Workers |-> IF w \in S THEN "RESERVED" ELSE @[w]]]
    /\ UNCHANGED <<testStatus, heartbeatFresh>>

\* Defect variant: no condition on the status of the rows it completes.
ReleaseCompletesAll(t) ==
  /\ workerStatus' = [w \in Workers |->
                        IF w \in AssignedWorkers(t) /\ workerStatus[w] = "RESERVED"
                        THEN "IDLE" ELSE workerStatus[w]]
  /\ assignment' = [assignment EXCEPT
                      ![t] = [w \in Workers |-> IF @[w] # NoRow THEN "COMPLETED" ELSE @[w]]]
  /\ UNCHANGED <<testStatus, heartbeatFresh>>

\* Every worker with an assignment row of t (finished ones included) that is
\* RESERVED goes back to IDLE; the rows still active become COMPLETED.
ReleaseWorkersForTest(t) ==
  /\ workerStatus' = [w \in Workers |->
                        IF w \in AssignedWorkers(t) /\ workerStatus[w] = "RESERVED"
                        THEN "IDLE" ELSE workerStatus[w]]
  /\ assignment' = [assignment EXCEPT
                      ![t] = [w \in Workers |-> IF @[w] \in Active THEN "COMPLETED" ELSE @[w]]]
  /\ UNCHANGED <<testStatus, heartbeatFresh>>

\* Of the given workers, those still IDLE become DRAINING.
TerminateIdleWorkers(ids) ==
  /\ workerStatus' = [w \in Workers |->
                        IF w \in ids /\ workerStatus[w] = "IDLE"
                        THEN "DRAINING" ELSE workerStatus[w]]
  /\ UNCHANGED <<testStatus, heartbeatFresh, assignment>>

-----------------------------------------------------------------------------
(* test_workers: assignment.go and the bulk transition of                  *)
(* worker_repository.go                                                    *)

\* What the assignment poll of worker w may return: LIMIT 1 with no order,
\* and no look at the test's or the worker's own status.
ReservedAssignments(w) == {t \in Tests : assignment[t][w] = "RESERVED"}

\* Defect variant: the worker's own row is forgotten.
MarkAssignmentRunningOnly(t, w) ==
  /\ assignment[t][w] = "RESERVED"
  /\ assignment' = [assignment EXCEPT ![t][w] = "RUNNING"]
  /\ UNCHANGED <<testStatus, workerStatus, heartbeatFresh>>

\* A worker that is no longer RESERVED keeps its status.
MarkAssignmentRunning(t, w) ==
  /\ assignment[t][w] = "RESERVED"
  /\ assignment' = [assignment EXCEPT ![t][w] = "RUNNING"]
  /\ workerStatus' = [workerStatus EXCEPT ![w] = IF @ = "RESERVED" THEN "RUNNING" ELSE @]
  /\ UNCHANGED <<testStatus, heartbeatFresh>>

\* Defect variant: a FAILED sibling does not count.
LastActive(t, w) == \A v \in Workers \ {w} : assignment[t][v] \notin Active

\* No row of the test is left in a status other than COMPLETED once (t, w) is.
LastToComplete(t, w) ==
  \A v \in AssignedWorkers(t) \ {w} : assignment[t][v] = "COMPLETED"

\* The parent row is locked first, so two completions of one test never
\* overlap and the check of the siblings is current when it is used.
MarkAssignmentCompleted(t, w) ==
  /\ assignment[t][w] = "RUNNING"
  /\ assignment' = [assignment EXCEPT ![t][w] = "COMPLETED"]
  /\ workerStatus' = [workerStatus EXCEPT ![w] = IF @ = "RUNNING" THEN "IDLE" ELSE @]
  /\ testStatus' = [testStatus EXCEPT
                      ![t] = IF LastToComplete(t, w) /\ @ = "RUNNING" THEN "COMPLETED" ELSE @]
  /\ UNCHANGED heartbeatFresh

\* The worker's own row is left as it is.
MarkAssignmentFailed(t, w) ==
  /\ assignment[t][w] \in Active
  /\ assignment' = [assignment EXCEPT ![t][w] = "FAILED"]
  /\ testStatus' = [testStatus EXCEPT ![t] = IF @ = "RUNNING" THEN "FAILED" ELSE @]
  /\ UNCHANGED <<workerStatus, heartbeatFresh>>

\* The assignments the offline sweep fails.
LostAssignment(t, w) == workerStatus[w] = "OFFLINE" /\ assignment[t][w] \in Active

\* The sweep's second statement may overlook a test of which the first fails
\* nothing: it looked before another transaction, which failed an assignment
\* of the test, committed.
MayBeOverlooked(t) == \A w \in Workers : ~LostAssignment(t, w)

\* The first statement.
SweepFailsAssignments ==
  assignment' = [t \in Tests |-> [w \in Workers |->
                  IF LostAssignment(t, w) THEN "FAILED" ELSE assignment[t][w]]]

\* Defect variant: an assignment its worker had not started is left out.
SweepStartedOnly(overlooked) ==
  LET lost(t, w) == workerStatus[w] = "OFFLINE" /\ assignment[t][w] = "RUNNING"
  IN  /\ \A t \in overlooked : MayBeOverlooked(t)
      /\ assignment' = [t \in Tests |-> [w \in Workers |->
                          IF lost(t, w) THEN "FAILED" ELSE assignment[t][w]]]
      /\ testStatus' = [t \in Tests |->
                          IF /\ testStatus[t] = "RUNNING" /\ t \notin overlooked
                             /\ \E w \in Workers : lost(t, w) \/ assignment[t][w] = "FAILED"
                          THEN "FAILED" ELSE testStatus[t]]
      /\ UNCHANGED <<workerStatus, heartbeatFresh>>

\* Defect variant: only tests that lose an assignment in this sweep fail.
SweepFreshlyLost(overlooked) ==
  /\ overlooked = {}
  /\ SweepFailsAssignments
  /\ testStatus' = [t \in Tests |->
                      IF testStatus[t] = "RUNNING" /\ \E w \in Workers : LostAssignment(t, w)
                      THEN "FAILED" ELSE testStatus[t]]
  /\ UNCHANGED <<workerStatus, heartbeatFresh>>

\* Defect variant: a test fails with any worker of its own that is OFFLINE,
\* one that had completed its part included.
SweepByWorker(overlooked) ==
  /\ overlooked = {}
  /\ SweepFailsAssignments
  /\ testStatus' = [t \in Tests |->
                      IF /\ testStatus[t] = "RUNNING"
                         /\ \E w \in AssignedWorkers(t) : workerStatus[w] = "OFFLINE"
                      THEN "FAILED" ELSE testStatus[t]]
  /\ UNCHANGED <<workerStatus, heartbeatFresh>>

\* Fail the active assignments of OFFLINE workers, then every RUNNING test
\* that has any FAILED assignment, from this sweep or from before it.
MarkAssignmentsFailedForOfflineWorkers(overlooked) ==
  /\ \A t \in overlooked : MayBeOverlooked(t)
  /\ SweepFailsAssignments
  /\ testStatus' = [t \in Tests |->
                      IF /\ testStatus[t] = "RUNNING" /\ t \notin overlooked
                         /\ \E w \in Workers : LostAssignment(t, w) \/ assignment[t][w] = "FAILED"
                      THEN "FAILED" ELSE testStatus[t]]
  /\ UNCHANGED <<workerStatus, heartbeatFresh>>

=============================================================================
