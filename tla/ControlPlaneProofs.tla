------------------------- MODULE ControlPlaneProofs -------------------------
(***************************************************************************)
(* Proofs about ControlPlane, for every set of tests, workers and request  *)
(* slots, every request rate and worker capacity, and with or without      *)
(* requests that die between two statements.                               *)
(***************************************************************************)
EXTENDS ControlPlane, FiniteSetTheorems, TLAPS

-----------------------------------------------------------------------------
(* Type correctness                                                        *)

LEMMA TypeInit == Init => TypeOK
  BY DEF Init, TypeOK, DBInit, DBTypeOK, NoRow, StartRequests, StopRequests, NoRequest

\* The steps of a StartTest request keep every variable in its type.
LEMMA TypeStartStep ==
  ASSUME TypeOK, NEW r \in Starters, StartStep(r)
  PROVE  TypeOK'
  <1> USE DEF TypeOK, DBTypeOK, TestStatuses, WorkerStatuses, AssignmentStatuses, NoRow,
              StartRequests, NoRequest, dbVars, StartAt, StartGoes, StartEnds
  <1>1. ASSUME NEW t \in Tests, StartClaim(r, t) PROVE TypeOK'
    BY <1>1 DEF StartClaim, TryTransitionStatus, TransitionApplies
  <1>2. CASE StartEnsure(r)
    BY <1>2 DEF StartEnsure
  <1>3. CASE StartReserve(r)
    <2>1. PICK S \in SUBSET IdleWorkers :
            /\ workerStatus' = [w \in Workers |->
                                  IF w \in S THEN "RESERVED" ELSE workerStatus[w]]
            /\ assignment' = [assignment EXCEPT
                 ![start[r].test] = [w \in Workers |-> IF w \in S THEN "RESERVED" ELSE @[w]]]
      BY <1>3 DEF StartReserve, ReserveWorkersForTest
    <2>2. workerStatus' \in [Workers -> WorkerStatuses \cup {NoRow}]
      BY <2>1
    <2>3. assignment' \in [Tests -> [Workers -> AssignmentStatuses \cup {NoRow}]]
      BY <2>1
    <2>4. start' \in [Starters -> StartRequests]
      BY <1>3 DEF StartReserve
    <2>. QED
      BY <1>3, <2>2, <2>3, <2>4 DEF StartReserve, ReserveWorkersForTest
  <1>4. CASE StartRollback(r)
    BY <1>4 DEF StartRollback, TryTransitionStatus, TransitionApplies
  <1>5. CASE StartSetRunning(r)
    BY <1>5 DEF StartSetRunning, UpdateStatus
  <1>6. CASE StartDies(r)
    BY <1>6 DEF StartDies
  <1>. QED
    BY <1>1, <1>2, <1>3, <1>4, <1>5, <1>6 DEF StartStep

\* The steps of a StopTest request keep every variable in its type.
LEMMA TypeStopStep ==
  ASSUME TypeOK, NEW s \in Stoppers, StopStep(s)
  PROVE  TypeOK'
  <1> USE DEF TypeOK, DBTypeOK, TestStatuses, WorkerStatuses, AssignmentStatuses, NoRow,
              StopRequests, NoRequest, dbVars, StopAt, StopGoes, StopEnds
  <1>1. ASSUME NEW t \in Tests, StopRead(s, t) PROVE TypeOK'
    BY <1>1 DEF StopRead
  <1>2. CASE StopFlip(s)
    BY <1>2 DEF StopFlip, TryTransitionStatus, TransitionApplies
  <1>3. CASE StopRelease(s)
    BY <1>3 DEF StopRelease, ReleaseWorkersForTest, Active
  <1>4. CASE StopFinish(s)
    BY <1>4 DEF StopFinish, UpdateStatus
  <1>5. CASE StopDies(s)
    BY <1>5 DEF StopDies
  <1>. QED
    BY <1>1, <1>2, <1>3, <1>4, <1>5 DEF StopStep

\* So do the requests that are one transaction, and the reconciler.
LEMMA TypeOtherStep ==
  ASSUME TypeOK,
         \/ \E t \in Tests : Create(t)
         \/ \E w \in Workers : WorkerRequest(w)
         \/ \E ids \in SUBSET Workers : DrainIdle(ids)
         \/ ReconcilerStep
  PROVE  TypeOK'
  <1> USE DEF TypeOK, DBTypeOK, TestStatuses, WorkerStatuses, AssignmentStatuses, NoRow,
              requestVars, dbVars
  <1>1. ASSUME NEW t \in Tests, Create(t) PROVE TypeOK'
    BY <1>1 DEF Create, InsertTest
  <1>2. ASSUME NEW w \in Workers, Register(w) PROVE TypeOK'
    BY <1>2 DEF Register, CreateWorker
  <1>3. ASSUME NEW w \in Workers, NEW status \in ReportableStatuses, Heartbeat(w, status)
        PROVE  TypeOK'
    BY <1>3 DEF Heartbeat, UpdateHeartbeat, ReportableStatuses
  <1>4. ASSUME NEW w \in Workers, HeartbeatsMissed(w) PROVE TypeOK'
    BY <1>4 DEF HeartbeatsMissed, HeartbeatExpires
  <1>5. ASSUME NEW t \in Tests, NEW w \in Workers, StartAssignment(t, w) PROVE TypeOK'
    BY <1>5 DEF StartAssignment, MarkAssignmentRunning
  <1>6. ASSUME NEW t \in Tests, NEW w \in Workers, CompleteAssignment(t, w) PROVE TypeOK'
    BY <1>6 DEF CompleteAssignment, MarkAssignmentCompleted
  <1>7. ASSUME NEW t \in Tests, NEW w \in Workers, FailAssignment(t, w) PROVE TypeOK'
    BY <1>7 DEF FailAssignment, MarkAssignmentFailed
  <1>8. ASSUME NEW ids \in SUBSET Workers, DrainIdle(ids) PROVE TypeOK'
    BY <1>8 DEF DrainIdle, TerminateIdleWorkers
  <1>9. CASE ReconcileOffline
    BY <1>9 DEF ReconcileOffline, MarkOfflineWorkers
  <1>10. CASE ReconcileAssignments
    BY <1>10 DEF ReconcileAssignments, SweepOverlooking,
                 MarkAssignmentsFailedForOfflineWorkers, SweepFailsAssignments
  <1>11. CASE ReconcileSkipped
    BY <1>11 DEF ReconcileSkipped
  <1>. QED
    BY <1>1, <1>2, <1>3, <1>4, <1>5, <1>6, <1>7, <1>8, <1>9, <1>10, <1>11
       DEF WorkerRequest, ReconcilerStep

LEMMA TypeStep == TypeOK /\ [Next]_vars => TypeOK'
  <1>1. ASSUME TypeOK, UNCHANGED vars PROVE TypeOK'
    BY <1>1 DEF TypeOK, DBTypeOK, vars
  <1>. QED
    BY <1>1, TypeStartStep, TypeStopStep, TypeOtherStep DEF Next

\* Every variable keeps its type: no handler, however it is interleaved or
\* cut off, writes a status outside the schema or loses track of its request.
THEOREM TypeCorrect == Spec => []TypeOK
  BY TypeInit, TypeStep, PTL DEF Spec

-----------------------------------------------------------------------------
(* Allocation                                                              *)

\* The test has not been claimed.
Unclaimed(t) == testStatus[t] \in {NoRow, "CREATED"}

\* What a request on its way knows: before the reservation the test stays
\* claimed, after it the test has its workers.
ClaimHeld ==
  \A r \in Starters :
    /\ start[r].pc \in {"ensure", "reserve"} => ~Unclaimed(start[r].test)
    /\ start[r].pc = "setRunning" => AssignedWorkers(start[r].test) # {}

AllocationInv ==
  TypeOK /\ ClaimHeld /\ UnallocatedUntilReserved /\ AllocatedOnceInFull

\* A test needs at least one worker.
LEMMA RequiredPositive ==
  ASSUME NEW t \in Tests
  PROVE  Required(t) \in Nat /\ Required(t) >= 1
  <1> DEFINE rps == Rps[t]  cap == WorkerCapacityRPS
  <1>1. rps \in Nat \ {0} /\ cap \in Nat \ {0}
    BY RpsAssumption, CapacityAssumption
  <1> HIDE DEF rps, cap
  <1>2. rps + cap - 1 >= cap /\ rps + cap - 1 \in Nat
    BY <1>1
  <1>3. (rps + cap - 1) \div cap \in Nat /\ (rps + cap - 1) \div cap >= 1
    BY <1>1, <1>2
  <1>. QED
    BY <1>3 DEF Required, RequiredWorkers, rps, cap

\* Outside StartTest and CreateTest no step allocates workers to a test,
\* touches a StartTest request or makes a test startable again.
RowsKept == \A t \in Tests : AssignedWorkers(t)' = AssignedWorkers(t)
NoneUnclaimed == \A t \in Tests : Unclaimed(t)' => Unclaimed(t)

LEMMA QuietStep ==
  ASSUME TypeOK,
         \/ \E s \in Stoppers : StopStep(s)
         \/ \E w \in Workers : WorkerRequest(w)
         \/ \E ids \in SUBSET Workers : DrainIdle(ids)
         \/ ReconcilerStep
         \/ UNCHANGED vars
  PROVE  start' = start /\ RowsKept /\ NoneUnclaimed
  <1> USE DEF TypeOK, DBTypeOK, NoRow, requestVars, dbVars,
              RowsKept, NoneUnclaimed, Unclaimed, AssignedWorkers, Active
  <1> DEFINE Quiet == start' = start /\ RowsKept /\ NoneUnclaimed
  <1>1. ASSUME NEW s \in Stoppers, NEW t \in Tests, StopRead(s, t) PROVE Quiet
    BY <1>1 DEF StopRead
  <1>2. ASSUME NEW s \in Stoppers, StopFlip(s) PROVE Quiet
    BY <1>2 DEF StopFlip, TryTransitionStatus, TransitionApplies
  <1>3. ASSUME NEW s \in Stoppers, StopRelease(s) PROVE Quiet
    <2>1. stop[s].test \in Tests
      BY <1>3 DEF StopRelease, StopAt, StopRequests, NoRequest
    <2>. QED
      BY <1>3, <2>1 DEF StopRelease, ReleaseWorkersForTest
  <1>4. ASSUME NEW s \in Stoppers, StopFinish(s) PROVE Quiet
    BY <1>4 DEF StopFinish, UpdateStatus
  <1>5. ASSUME NEW s \in Stoppers, StopDies(s) PROVE Quiet
    BY <1>5 DEF StopDies
  <1>6. ASSUME NEW w \in Workers, Register(w) PROVE Quiet
    BY <1>6 DEF Register, CreateWorker
  <1>7. ASSUME NEW w \in Workers, NEW status \in ReportableStatuses, Heartbeat(w, status)
        PROVE  Quiet
    BY <1>7 DEF Heartbeat, UpdateHeartbeat
  <1>8. ASSUME NEW w \in Workers, HeartbeatsMissed(w) PROVE Quiet
    BY <1>8 DEF HeartbeatsMissed, HeartbeatExpires
  <1>9. ASSUME NEW t \in Tests, NEW w \in Workers, StartAssignment(t, w) PROVE Quiet
    BY <1>9 DEF StartAssignment, MarkAssignmentRunning
  <1>10. ASSUME NEW t \in Tests, NEW w \in Workers, CompleteAssignment(t, w) PROVE Quiet
    BY <1>10 DEF CompleteAssignment, MarkAssignmentCompleted
  <1>11. ASSUME NEW t \in Tests, NEW w \in Workers, FailAssignment(t, w) PROVE Quiet
    BY <1>11 DEF FailAssignment, MarkAssignmentFailed
  <1>12. ASSUME NEW ids \in SUBSET Workers, DrainIdle(ids) PROVE Quiet
    BY <1>12 DEF DrainIdle, TerminateIdleWorkers
  <1>13. CASE ReconcileOffline
    BY <1>13 DEF ReconcileOffline, MarkOfflineWorkers
  <1>14. CASE ReconcileAssignments
    BY <1>14 DEF ReconcileAssignments, SweepOverlooking,
                 MarkAssignmentsFailedForOfflineWorkers, SweepFailsAssignments, LostAssignment
  <1>15. CASE ReconcileSkipped
    BY <1>15 DEF ReconcileSkipped
  <1>16. CASE UNCHANGED vars
    BY <1>16 DEF vars
  <1>. QED
    BY <1>1, <1>2, <1>3, <1>4, <1>5, <1>6, <1>7, <1>8, <1>9, <1>10, <1>11, <1>12, <1>13,
       <1>14, <1>15, <1>16
       DEF StopStep, WorkerRequest, ReconcilerStep

LEMMA AllocationInit == Init => AllocationInv
  <1> SUFFICES ASSUME Init PROVE AllocationInv
    OBVIOUS
  <1>1. TypeOK
    BY TypeInit
  <1>2. \A t \in Tests : AssignedWorkers(t) = {}
    BY DEF Init, DBInit, AssignedWorkers, NoRow
  <1>3. \A r \in Starters : start[r].pc = "free"
    BY DEF Init, NoRequest
  <1>4. AllocatedOnceInFull
    BY <1>2, FS_EmptySet DEF AllocatedOnceInFull
  <1>. QED
    BY <1>1, <1>2, <1>3, <1>4 DEF AllocationInv, ClaimHeld, UnallocatedUntilReserved

\* A quiet step keeps the whole invariant.
LEMMA AllocationQuiet ==
  ASSUME AllocationInv, TypeOK', start' = start, RowsKept, NoneUnclaimed
  PROVE  AllocationInv'
  <1> USE DEF AllocationInv, RowsKept, NoneUnclaimed
  <1>0. \A r \in Starters : start[r].pc # "free" => start[r].test \in Tests
    BY DEF TypeOK, StartRequests, NoRequest
  <1>1. ClaimHeld'
    BY <1>0 DEF ClaimHeld
  <1>2. UnallocatedUntilReserved'
    BY <1>0 DEF UnallocatedUntilReserved, Unclaimed
  <1>3. AllocatedOnceInFull'
    BY DEF AllocatedOnceInFull, Required
  <1>. QED
    BY <1>1, <1>2, <1>3

LEMMA AllocationStartStep ==
  ASSUME AllocationInv, NEW r \in Starters, StartStep(r)
  PROVE  AllocationInv'
  <1> USE DEF AllocationInv
  <1>0. TypeOK'
    BY TypeStartStep
  <1>t. /\ start \in [Starters -> StartRequests]
        /\ \A q \in Starters : start[q].pc # "free" => start[q].test \in Tests
    BY DEF TypeOK, StartRequests, NoRequest
  <1> USE <1>0, <1>t DEF StartAt, StartGoes, StartEnds, NoRequest, Unclaimed
  \* The claim: only a CREATED test is claimed, which has no rows and hence
  \* no other request on its way.
  <1>1. ASSUME NEW t \in Tests, StartClaim(r, t) PROVE AllocationInv'
    <2>1. /\ testStatus[t] = "CREATED"
          /\ testStatus' = [testStatus EXCEPT ![t] = "STARTING"]
          /\ assignment' = assignment
          /\ start' = [start EXCEPT ![r] = [pc |-> "ensure", test |-> t]]
      BY <1>1 DEF StartClaim, TransitionApplies, TryTransitionStatus
    <2>2. \A u \in Tests : AssignedWorkers(u)' = AssignedWorkers(u)
      BY <2>1 DEF AssignedWorkers
    <2>3. AssignedWorkers(t) = {}
      BY <2>1 DEF UnallocatedUntilReserved
    <2>4. \A q \in Starters : start[q].pc # "free" => start[q].test # t
      BY <2>1, <2>3 DEF ClaimHeld, TypeOK, StartRequests
    <2>5. \A u \in Tests : Unclaimed(u)' => Unclaimed(u) /\ u # t
      BY <2>1 DEF TypeOK, DBTypeOK, NoRow
    <2>6. ClaimHeld'
      BY <2>1, <2>2, <2>4, <2>5 DEF ClaimHeld
    <2>7. UnallocatedUntilReserved'
      BY <2>1, <2>2, <2>3, <2>4, <2>5 DEF UnallocatedUntilReserved
    <2>8. AllocatedOnceInFull'
      BY <2>2 DEF AllocatedOnceInFull, Required
    <2>. QED
      BY <2>6, <2>7, <2>8
  <1>2. CASE StartEnsure(r)
    <2>1. /\ start[r].pc = "ensure"
          /\ start' = [start EXCEPT ![r].pc = "reserve"]
          /\ testStatus' = testStatus /\ assignment' = assignment
      BY <1>2 DEF StartEnsure, dbVars
    <2>2. \A u \in Tests : AssignedWorkers(u)' = AssignedWorkers(u)
      BY <2>1 DEF AssignedWorkers
    <2>3. \A q \in Starters : /\ start'[q].pc = IF q = r THEN "reserve" ELSE start[q].pc
                              /\ start[q].pc # "free" => start'[q].test = start[q].test
      BY <2>1 DEF StartRequests
    <2>4. ClaimHeld'
      BY <2>1, <2>2, <2>3 DEF ClaimHeld
    <2>5. UnallocatedUntilReserved'
      BY <2>1, <2>2, <2>3 DEF UnallocatedUntilReserved
    <2>6. AllocatedOnceInFull'
      BY <2>2 DEF AllocatedOnceInFull, Required
    <2>. QED
      BY <2>4, <2>5, <2>6
  \* The reservation: the test has no rows, and no other request is on its
  \* way to it, so it gets exactly the rows of this one.
  <1>3. CASE StartReserve(r)
    <2> DEFINE t == start[r].test
    <2>1. /\ start[r].pc = "reserve" /\ t \in Tests
          /\ start' = [start EXCEPT ![r].pc = "setRunning"]
          /\ testStatus' = testStatus
      BY <1>3 DEF StartReserve, ReserveWorkersForTest
    <2>2. PICK S \in SUBSET IdleWorkers :
            /\ Cardinality(S) = Required(t)
            /\ assignment' = [assignment EXCEPT
                 ![t] = [w \in Workers |-> IF w \in S THEN "RESERVED" ELSE @[w]]]
      BY <1>3 DEF StartReserve, ReserveWorkersForTest
    <2>3. AssignedWorkers(t) = {}
      BY <2>1 DEF UnallocatedUntilReserved
    <2>4. AssignedWorkers(t)' = S
      BY <2>1, <2>2, <2>3 DEF AssignedWorkers, IdleWorkers, NoRow, TypeOK, DBTypeOK
    <2>5. \A u \in Tests \ {t} : AssignedWorkers(u)' = AssignedWorkers(u)
      BY <2>2 DEF AssignedWorkers, TypeOK, DBTypeOK
    <2>6. S # {}
      <3>1. Required(t) >= 1 /\ Required(t) \in Nat
        BY <2>1, RequiredPositive
      <3>2. Cardinality({}) = 0
        BY FS_EmptySet
      <3> HIDE DEF t
      <3>. QED
        BY <2>2, <3>1, <3>2
    <2>7. \A q \in Starters : /\ start'[q].pc = IF q = r THEN "setRunning" ELSE start[q].pc
                              /\ start[q].pc # "free" => start'[q].test = start[q].test
      BY <2>1 DEF StartRequests
    <2>8. \A q \in Starters \ {r} : start[q].pc # "free" => start[q].test # t
      BY <2>1 DEF UnallocatedUntilReserved
    <2>9. ClaimHeld'
      BY <2>1, <2>4, <2>5, <2>6, <2>7, <2>8 DEF ClaimHeld
    <2>10. UnallocatedUntilReserved'
      BY <2>1, <2>5, <2>7, <2>8 DEF UnallocatedUntilReserved, ClaimHeld
    <2>11. AllocatedOnceInFull'
      BY <2>1, <2>2, <2>4, <2>5 DEF AllocatedOnceInFull, Required
    <2>. QED
      BY <2>9, <2>10, <2>11
  \* The rollback: no rows, and nobody else on the way to this test.
  <1>4. CASE StartRollback(r)
    <2> DEFINE t == start[r].test
    <2>1. /\ start[r].pc \in {"ensure", "reserve"} /\ t \in Tests
          /\ start' = [start EXCEPT ![r] = NoRequest]
          /\ testStatus' = [testStatus EXCEPT ![t] = IF @ = "STARTING" THEN "CREATED" ELSE @]
          /\ assignment' = assignment
      BY <1>4 DEF StartRollback, TryTransitionStatus, TransitionApplies
    <2>2. \A u \in Tests : AssignedWorkers(u)' = AssignedWorkers(u)
      BY <2>1 DEF AssignedWorkers
    <2>3. \A q \in Starters \ {r} : start[q].pc # "free" => start[q].test # t
      BY <2>1 DEF UnallocatedUntilReserved
    <2>4. \A u \in Tests : Unclaimed(u)' => Unclaimed(u) \/ u = t
      BY <2>1 DEF TypeOK, DBTypeOK
    <2>5. AssignedWorkers(t) = {}
      BY <2>1 DEF UnallocatedUntilReserved
    <2>6. ClaimHeld'
      BY <2>1, <2>2, <2>3, <2>4 DEF ClaimHeld
    <2>7. UnallocatedUntilReserved'
      BY <2>1, <2>2, <2>4, <2>5 DEF UnallocatedUntilReserved
    <2>8. AllocatedOnceInFull'
      BY <2>2 DEF AllocatedOnceInFull, Required
    <2>. QED
      BY <2>6, <2>7, <2>8
  \* The last write and the end of a request only let go of a test.
  <1>5. CASE StartSetRunning(r) \/ StartDies(r)
    <2>1. /\ start' = [start EXCEPT ![r] = NoRequest]
          /\ assignment' = assignment
          /\ \A u \in Tests : Unclaimed(u)' => Unclaimed(u)
      BY <1>5 DEF StartSetRunning, StartDies, UpdateStatus, dbVars, TypeOK, DBTypeOK, NoRow
    <2>2. \A u \in Tests : AssignedWorkers(u)' = AssignedWorkers(u)
      BY <2>1 DEF AssignedWorkers
    <2>3. ClaimHeld'
      BY <2>1, <2>2 DEF ClaimHeld
    <2>4. UnallocatedUntilReserved'
      BY <2>1, <2>2 DEF UnallocatedUntilReserved
    <2>5. AllocatedOnceInFull'
      BY <2>2 DEF AllocatedOnceInFull, Required
    <2>. QED
      BY <2>3, <2>4, <2>5
  <1>. QED
    BY <1>1, <1>2, <1>3, <1>4, <1>5 DEF StartStep

LEMMA AllocationCreate ==
  ASSUME AllocationInv, NEW t \in Tests, Create(t)
  PROVE  AllocationInv'
  <1> USE DEF AllocationInv
  <1>0. TypeOK'
    BY TypeOtherStep
  <1>1. /\ start' = start
        /\ assignment' = assignment
        /\ testStatus[t] = NoRow /\ testStatus' = [testStatus EXCEPT ![t] = "CREATED"]
    BY DEF Create, InsertTest, requestVars
  <1>2. RowsKept
    BY <1>1 DEF RowsKept, AssignedWorkers
  <1>3. NoneUnclaimed
    BY <1>1 DEF NoneUnclaimed, Unclaimed, TypeOK, DBTypeOK
  <1>. QED
    BY <1>0, <1>1, <1>2, <1>3, AllocationQuiet

LEMMA AllocationStep == AllocationInv /\ [Next]_vars => AllocationInv'
  <1> SUFFICES ASSUME AllocationInv, [Next]_vars PROVE AllocationInv'
    OBVIOUS
  <1>1. ASSUME NEW r \in Starters, StartStep(r) PROVE AllocationInv'
    BY <1>1, AllocationStartStep
  <1>2. ASSUME NEW t \in Tests, Create(t) PROVE AllocationInv'
    BY <1>2, AllocationCreate
  <1>3. CASE \/ \E s \in Stoppers : StopStep(s)
             \/ \E w \in Workers : WorkerRequest(w)
             \/ \E ids \in SUBSET Workers : DrainIdle(ids)
             \/ ReconcilerStep
             \/ UNCHANGED vars
    <2>1. TypeOK
      BY DEF AllocationInv
    <2>2. TypeOK'
      BY <2>1, TypeStep
    <2>. QED
      BY <1>3, <2>1, <2>2, QuietStep, AllocationQuiet
  <1>. QED
    BY <1>1, <1>2, <1>3 DEF Next

LEMMA AllocationAlways == Spec => []AllocationInv
  BY AllocationInit, AllocationStep, PTL DEF Spec

\* A test is allocated at most once and then exactly the workers its rate
\* requires, whatever starts, rollbacks, retries, stops and failures do.
THEOREM AllocatedOnce == Spec => []AllocatedOnceInFull
  <1>1. AllocationInv => AllocatedOnceInFull
    BY DEF AllocationInv
  <1>. QED
    BY <1>1, AllocationAlways, PTL

\* Rolling a claim back never forgets reserved workers, and no two requests
\* are ever on their way to the same reservation.
THEOREM ClaimIsExclusive == Spec => []UnallocatedUntilReserved
  <1>1. AllocationInv => UnallocatedUntilReserved
    BY DEF AllocationInv
  <1>. QED
    BY <1>1, AllocationAlways, PTL

-----------------------------------------------------------------------------
(* Completion                                                              *)

\* Either every COMPLETED assignment of the test was reported by its worker,
\* or a stop marked some of them: then nothing of the test is active any
\* more, so no later completion can find the test's last assignment.
CompletionAccounted ==
  \A t \in Tests :
    \/ \A w \in Workers : assignment[t][w] = "COMPLETED" => <<t, w>> \in reported
    \/ /\ testStatus[t] # "COMPLETED"
       /\ \A w \in Workers : assignment[t][w] \notin Active

CompletionInv == AllocationInv /\ CompletedByWorkers /\ CompletionAccounted

LEMMA CompletionInit == Init => CompletionInv
  BY AllocationInit
     DEF CompletionInv, Init, DBInit, NoRow, CompletedByWorkers, CompletionAccounted

\* A step that leaves the assignments and the reports alone and completes no
\* test keeps the invariant.
LEMMA CompletionQuiet ==
  ASSUME CompletionInv, assignment' = assignment, reported' = reported,
         \A t \in Tests : testStatus'[t] = "COMPLETED" => testStatus[t] = "COMPLETED"
  PROVE  CompletedByWorkers' /\ CompletionAccounted'
  BY DEF CompletionInv, CompletedByWorkers, CompletionAccounted, AssignedWorkers

LEMMA CompletionStartStep ==
  ASSUME CompletionInv, NEW r \in Starters, StartStep(r)
  PROVE  CompletedByWorkers' /\ CompletionAccounted'
  <1> DEFINE Goal == CompletedByWorkers' /\ CompletionAccounted'
  <1>0. TypeOK /\ UnallocatedUntilReserved
    BY DEF CompletionInv, AllocationInv
  <1> USE <1>0 DEF TypeOK, DBTypeOK
  <1>1. ASSUME NEW t \in Tests, StartClaim(r, t) PROVE Goal
    BY <1>1, CompletionQuiet DEF StartClaim, TryTransitionStatus, TransitionApplies
  <1>2. CASE StartEnsure(r)
    BY <1>2, CompletionQuiet DEF StartEnsure, dbVars
  \* Reservation: the test had no rows, so it is not COMPLETED and its rows
  \* are now all RESERVED.
  <1>3. CASE StartReserve(r)
    <2> DEFINE t == start[r].test
    <2>1. /\ start[r].pc = "reserve" /\ t \in Tests
          /\ testStatus' = testStatus /\ reported' = reported
      BY <1>3 DEF StartReserve, ReserveWorkersForTest, StartAt, StartRequests, NoRequest
    <2>2. PICK S \in SUBSET IdleWorkers :
            assignment' = [assignment EXCEPT
              ![t] = [w \in Workers |-> IF w \in S THEN "RESERVED" ELSE @[w]]]
      BY <1>3 DEF StartReserve, ReserveWorkersForTest
    <2>3. AssignedWorkers(t) = {}
      BY <2>1 DEF UnallocatedUntilReserved
    <2>4. testStatus[t] # "COMPLETED"
      BY <2>1, <2>3 DEF CompletionInv, CompletedByWorkers
    <2>5. \A w \in Workers : assignment'[t][w] # "COMPLETED"
      BY <2>1, <2>2, <2>3 DEF AssignedWorkers, NoRow
    <2>6. \A u \in Tests \ {t} : assignment'[u] = assignment[u]
      BY <2>2
    <2> HIDE DEF t
    <2>7. CompletedByWorkers'
      BY <2>1, <2>4, <2>6 DEF CompletionInv, CompletedByWorkers, AssignedWorkers
    <2>8. CompletionAccounted'
      BY <2>1, <2>5, <2>6 DEF CompletionInv, CompletionAccounted
    <2>. QED
      BY <2>7, <2>8
  <1>4. CASE StartRollback(r)
    BY <1>4, CompletionQuiet DEF StartRollback, TryTransitionStatus, TransitionApplies
  <1>5. CASE StartSetRunning(r)
    BY <1>5, CompletionQuiet DEF StartSetRunning, UpdateStatus
  <1>6. CASE StartDies(r)
    BY <1>6, CompletionQuiet DEF StartDies, dbVars
  <1>. QED
    BY <1>1, <1>2, <1>3, <1>4, <1>5, <1>6 DEF StartStep

LEMMA CompletionStopStep ==
  ASSUME CompletionInv, NEW s \in Stoppers, StopStep(s)
  PROVE  CompletedByWorkers' /\ CompletionAccounted'
  <1> DEFINE Goal == CompletedByWorkers' /\ CompletionAccounted'
  <1>0. TypeOK
    BY DEF CompletionInv, AllocationInv
  <1> USE <1>0 DEF TypeOK, DBTypeOK
  <1>1. ASSUME NEW t \in Tests, StopRead(s, t) PROVE Goal
    BY <1>1, CompletionQuiet DEF StopRead, dbVars
  <1>2. CASE StopFlip(s)
    BY <1>2, CompletionQuiet DEF StopFlip, TryTransitionStatus, TransitionApplies
  \* Release: the test has no active row left; if it is COMPLETED none of
  \* its rows was active before either.
  <1>3. CASE StopRelease(s)
    <2> DEFINE t == stop[s].test
    <2>1. t \in Tests /\ testStatus' = testStatus /\ reported' = reported
      BY <1>3 DEF StopRelease, ReleaseWorkersForTest, StopAt, StopRequests, NoRequest
    <2>2. assignment' = [assignment EXCEPT ![t] =
            [w \in Workers |-> IF @[w] \in Active THEN "COMPLETED" ELSE @[w]]]
      BY <1>3 DEF StopRelease, ReleaseWorkersForTest
    <2> HIDE DEF t
    <2>3. \A w \in Workers : assignment'[t][w] \notin Active
      BY <2>1, <2>2 DEF Active
    <2>4. \A u \in Tests \ {t} : assignment'[u] = assignment[u]
      BY <2>2
    <2>5. testStatus[t] = "COMPLETED" => \A w \in Workers : assignment'[t][w] = assignment[t][w]
      BY <2>1, <2>2 DEF CompletionInv, CompletedByWorkers, AssignedWorkers, Active, NoRow
    <2>6. CompletedByWorkers'
      BY <2>1, <2>4, <2>5 DEF CompletionInv, CompletedByWorkers, AssignedWorkers
    <2>7. CompletionAccounted'
      BY <2>1, <2>3, <2>4, <2>5 DEF CompletionInv, CompletionAccounted
    <2>. QED
      BY <2>6, <2>7
  <1>4. CASE StopFinish(s)
    BY <1>4, CompletionQuiet DEF StopFinish, UpdateStatus
  <1>5. CASE StopDies(s)
    BY <1>5, CompletionQuiet DEF StopDies, dbVars
  <1>. QED
    BY <1>1, <1>2, <1>3, <1>4, <1>5 DEF StopStep

LEMMA CompletionWorkerRequest ==
  ASSUME CompletionInv, NEW w \in Workers, WorkerRequest(w)
  PROVE  CompletedByWorkers' /\ CompletionAccounted'
  <1> DEFINE Goal == CompletedByWorkers' /\ CompletionAccounted'
  <1>0. TypeOK
    BY DEF CompletionInv, AllocationInv
  <1> USE <1>0 DEF TypeOK, DBTypeOK
  <1>1. CASE Register(w)
    BY <1>1, CompletionQuiet DEF Register, CreateWorker
  <1>2. ASSUME NEW status \in ReportableStatuses, Heartbeat(w, status) PROVE Goal
    BY <1>2, CompletionQuiet DEF Heartbeat, UpdateHeartbeat
  <1>3. CASE HeartbeatsMissed(w)
    BY <1>3, CompletionQuiet DEF HeartbeatsMissed, HeartbeatExpires
  \* Start: the row was RESERVED, so the test is not COMPLETED and the second
  \* disjunct of CompletionAccounted did not hold.
  <1>4. ASSUME NEW t \in Tests, StartAssignment(t, w) PROVE Goal
    <2>1. /\ assignment[t][w] = "RESERVED"
          /\ assignment' = [assignment EXCEPT ![t][w] = "RUNNING"]
          /\ testStatus' = testStatus /\ reported' = reported
      BY <1>4 DEF StartAssignment, MarkAssignmentRunning
    <2>2. CompletedByWorkers'
      BY <2>1 DEF CompletionInv, CompletedByWorkers, AssignedWorkers, NoRow
    <2>3. CompletionAccounted'
      BY <2>1 DEF CompletionInv, CompletionAccounted, Active
    <2>. QED
      BY <2>2, <2>3
  \* Completion: the row was RUNNING, so all COMPLETED rows so far were
  \* reported, and this one is from now on.
  <1>5. ASSUME NEW t \in Tests, CompleteAssignment(t, w) PROVE Goal
    <2>1. /\ assignment[t][w] = "RUNNING"
          /\ assignment' = [assignment EXCEPT ![t][w] = "COMPLETED"]
          /\ reported' = reported \cup {<<t, w>>}
          /\ testStatus' = [testStatus EXCEPT
               ![t] = IF LastToComplete(t, w) /\ @ = "RUNNING" THEN "COMPLETED" ELSE @]
      BY <1>5 DEF CompleteAssignment, MarkAssignmentCompleted
    <2>2. testStatus[t] # "COMPLETED"
      BY <2>1 DEF CompletionInv, CompletedByWorkers, AssignedWorkers, NoRow
    <2>3. \A v \in Workers : assignment'[t][v] = "COMPLETED" => <<t, v>> \in reported'
      BY <2>1 DEF CompletionInv, CompletionAccounted, Active
    <2>4. testStatus'[t] = "COMPLETED" =>
            /\ AssignedWorkers(t)' # {}
            /\ \A v \in AssignedWorkers(t)' : assignment'[t][v] = "COMPLETED"
      BY <2>1, <2>2 DEF LastToComplete, AssignedWorkers, NoRow
    <2>5. \A u \in Tests \ {t} : /\ assignment'[u] = assignment[u]
                                 /\ testStatus'[u] = testStatus[u]
      BY <2>1
    <2>6. CompletedByWorkers'
      BY <2>1, <2>3, <2>4, <2>5 DEF CompletionInv, CompletedByWorkers, AssignedWorkers
    <2>7. CompletionAccounted'
      BY <2>1, <2>3, <2>5 DEF CompletionInv, CompletionAccounted
    <2>. QED
      BY <2>6, <2>7
  <1>6. ASSUME NEW t \in Tests, FailAssignment(t, w) PROVE Goal
    <2>1. /\ assignment[t][w] \in Active
          /\ assignment' = [assignment EXCEPT ![t][w] = "FAILED"]
          /\ reported' = reported
          /\ testStatus' = [testStatus EXCEPT ![t] = IF @ = "RUNNING" THEN "FAILED" ELSE @]
      BY <1>6 DEF FailAssignment, MarkAssignmentFailed
    <2>2. testStatus[t] # "COMPLETED"
      BY <2>1 DEF CompletionInv, CompletedByWorkers, AssignedWorkers, NoRow, Active
    <2>3. CompletedByWorkers'
      BY <2>1, <2>2 DEF CompletionInv, CompletedByWorkers, AssignedWorkers
    <2>4. CompletionAccounted'
      BY <2>1, <2>2 DEF CompletionInv, CompletionAccounted, Active
    <2>. QED
      BY <2>3, <2>4
  <1>. QED
    BY <1>1, <1>2, <1>3, <1>4, <1>5, <1>6 DEF WorkerRequest

\* The offline sweep fails active rows only, and completes nothing.
LEMMA CompletionSweep ==
  ASSUME CompletionInv, ReconcileAssignments
  PROVE  CompletedByWorkers' /\ CompletionAccounted'
  <1>1. TypeOK
    BY DEF CompletionInv, AllocationInv
  <1>2. /\ reported' = reported
        /\ \A t \in Tests : testStatus'[t] = "COMPLETED" => testStatus[t] = "COMPLETED"
        /\ \A t \in Tests, w \in Workers :
             assignment'[t][w] = IF LostAssignment(t, w) THEN "FAILED" ELSE assignment[t][w]
    BY <1>1 DEF ReconcileAssignments, SweepOverlooking,
                MarkAssignmentsFailedForOfflineWorkers, SweepFailsAssignments
  <1>3. \A t \in Tests, w \in Workers : LostAssignment(t, w) => assignment[t][w] \in Active
    BY DEF LostAssignment
  <1>4. CompletedByWorkers'
    BY <1>2, <1>3 DEF CompletionInv, CompletedByWorkers, AssignedWorkers, Active, NoRow
  <1>5. CompletionAccounted'
    BY <1>2, <1>3 DEF CompletionInv, CompletionAccounted, Active
  <1>. QED
    BY <1>4, <1>5

LEMMA CompletionStep == CompletionInv /\ [Next]_vars => CompletionInv'
  <1> SUFFICES ASSUME CompletionInv, [Next]_vars PROVE CompletionInv'
    OBVIOUS
  <1> DEFINE Goal == CompletedByWorkers' /\ CompletionAccounted'
  <1>0. AllocationInv' /\ TypeOK
    BY AllocationStep DEF CompletionInv, AllocationInv
  <1>1. ASSUME NEW t \in Tests, Create(t) PROVE Goal
    BY <1>0, <1>1, CompletionQuiet DEF Create, InsertTest, TypeOK, DBTypeOK
  <1>2. ASSUME NEW r \in Starters, StartStep(r) PROVE Goal
    BY <1>2, CompletionStartStep
  <1>3. ASSUME NEW s \in Stoppers, StopStep(s) PROVE Goal
    BY <1>3, CompletionStopStep
  <1>4. ASSUME NEW w \in Workers, WorkerRequest(w) PROVE Goal
    BY <1>4, CompletionWorkerRequest
  <1>5. ASSUME NEW ids \in SUBSET Workers, DrainIdle(ids) PROVE Goal
    BY <1>5, CompletionQuiet DEF DrainIdle, TerminateIdleWorkers
  <1>6. ASSUME ReconcileOffline \/ ReconcileSkipped PROVE Goal
    BY <1>6, CompletionQuiet
       DEF ReconcileOffline, ReconcileSkipped, MarkOfflineWorkers, dbVars
  <1>7. ASSUME ReconcileAssignments PROVE Goal
    BY <1>7, CompletionSweep
  <1>8. ASSUME UNCHANGED vars PROVE Goal
    BY <1>8, CompletionQuiet DEF vars
  <1>. QED
    BY <1>0, <1>1, <1>2, <1>3, <1>4, <1>5, <1>6, <1>7, <1>8
       DEF CompletionInv, Next, ReconcilerStep

\* A test counts as COMPLETED only when every one of its workers reported its
\* own assignment complete; a stop never produces such a test.
THEOREM CompletionIsEarned == Spec => []CompletedByWorkers
  <1>1. CompletionInv => CompletedByWorkers
    BY DEF CompletionInv
  <1>. QED
    BY CompletionInit, CompletionStep, <1>1, PTL DEF Spec

-----------------------------------------------------------------------------
(* Failure, outcomes and workers that are gone                             *)

FailureInv == TypeOK /\ FailedHasCause

LEMMA FailureStep == FailureInv /\ [Next]_vars => FailureInv'
  <1> SUFFICES ASSUME FailureInv, [Next]_vars PROVE FailureInv'
    OBVIOUS
  <1> USE DEF FailureInv, FailedHasCause, TypeOK, DBTypeOK
  <1>0. TypeOK'
    BY TypeStep
  \* Steps that keep the assignments and fail no test.
  <1> DEFINE Keeps == /\ assignment' = assignment
                      /\ \A t \in Tests : testStatus'[t] = "FAILED" => testStatus[t] = "FAILED"
  <1>1. Keeps => FailedHasCause'
    OBVIOUS
  <1>2. ASSUME NEW t \in Tests, Create(t) PROVE Keeps
    BY <1>2 DEF Create, InsertTest
  <1>3. ASSUME NEW r \in Starters, StartStep(r) PROVE FailedHasCause'
    <2>1. CASE StartReserve(r)
      <3>1. PICK S \in SUBSET IdleWorkers :
              /\ S \cap AssignedWorkers(start[r].test) = {}
              /\ testStatus' = testStatus
              /\ assignment' = [assignment EXCEPT
                   ![start[r].test] = [w \in Workers |-> IF w \in S THEN "RESERVED" ELSE @[w]]]
        BY <2>1 DEF StartReserve, ReserveWorkersForTest
      <3>2. \A t \in Tests, w \in Workers :
              assignment[t][w] = "FAILED" => assignment'[t][w] = "FAILED"
        BY <3>1 DEF AssignedWorkers, NoRow
      <3>. QED
        BY <3>1, <3>2
    <2>2. ASSUME NEW t \in Tests, StartClaim(r, t) PROVE Keeps
      BY <2>2 DEF StartClaim, TryTransitionStatus, TransitionApplies
    <2>3. ASSUME StartRollback(r) PROVE Keeps
      BY <2>3 DEF StartRollback, TryTransitionStatus, TransitionApplies
    <2>4. ASSUME StartSetRunning(r) PROVE Keeps
      BY <2>4 DEF StartSetRunning, UpdateStatus
    <2>5. ASSUME StartEnsure(r) \/ StartDies(r) PROVE Keeps
      BY <2>5 DEF StartEnsure, StartDies, dbVars
    <2>. QED
      BY <1>1, <1>3, <2>1, <2>2, <2>3, <2>4, <2>5 DEF StartStep
  <1>4. ASSUME NEW s \in Stoppers, StopStep(s) PROVE FailedHasCause'
    <2>1. CASE StopRelease(s)
      <3>1. testStatus' = testStatus
        BY <2>1 DEF StopRelease, ReleaseWorkersForTest
      <3>2. \A t \in Tests, w \in Workers :
              assignment[t][w] = "FAILED" => assignment'[t][w] = "FAILED"
        BY <2>1 DEF StopRelease, ReleaseWorkersForTest, Active
      <3>. QED
        BY <3>1, <3>2
    <2>2. ASSUME StopFlip(s) PROVE Keeps
      BY <2>2 DEF StopFlip, TryTransitionStatus, TransitionApplies
    <2>3. ASSUME StopFinish(s) PROVE Keeps
      BY <2>3 DEF StopFinish, UpdateStatus
    <2>4. ASSUME StopDies(s) \/ \E t \in Tests : StopRead(s, t) PROVE Keeps
      BY <2>4 DEF StopDies, StopRead, dbVars
    <2>. QED
      BY <1>1, <1>4, <2>1, <2>2, <2>3, <2>4 DEF StopStep
  <1>5. ASSUME NEW w \in Workers, WorkerRequest(w) PROVE FailedHasCause'
    <2>1. ASSUME NEW t \in Tests, FailAssignment(t, w) PROVE FailedHasCause'
      BY <2>1 DEF FailAssignment, MarkAssignmentFailed
    <2>2. ASSUME NEW t \in Tests, StartAssignment(t, w) PROVE FailedHasCause'
      BY <2>2 DEF StartAssignment, MarkAssignmentRunning
    <2>3. ASSUME NEW t \in Tests, CompleteAssignment(t, w) PROVE FailedHasCause'
      BY <2>3 DEF CompleteAssignment, MarkAssignmentCompleted
    <2>4. ASSUME \/ Register(w) \/ HeartbeatsMissed(w)
                 \/ \E status \in ReportableStatuses : Heartbeat(w, status)
          PROVE  Keeps
      BY <2>4 DEF Register, HeartbeatsMissed, Heartbeat, CreateWorker, HeartbeatExpires,
                  UpdateHeartbeat
    <2>. QED
      BY <1>1, <1>5, <2>1, <2>2, <2>3, <2>4 DEF WorkerRequest
  <1>6. ASSUME NEW ids \in SUBSET Workers, DrainIdle(ids) PROVE Keeps
    BY <1>6 DEF DrainIdle, TerminateIdleWorkers
  <1>7. ASSUME ReconcileOffline \/ ReconcileSkipped PROVE Keeps
    BY <1>7 DEF ReconcileOffline, ReconcileSkipped, MarkOfflineWorkers, dbVars
  <1>8. ASSUME ReconcileAssignments PROVE FailedHasCause'
    BY <1>8 DEF ReconcileAssignments, SweepOverlooking,
                MarkAssignmentsFailedForOfflineWorkers, SweepFailsAssignments
  <1>9. ASSUME UNCHANGED vars PROVE Keeps
    BY <1>9 DEF vars
  <1>. QED
    BY <1>0, <1>1, <1>2, <1>3, <1>4, <1>5, <1>6, <1>7, <1>8, <1>9 DEF Next, ReconcilerStep

\* A FAILED test can always name an assignment that FAILED.
THEOREM FailureHasCause == Spec => []FailedHasCause
  <1>1. Init => FailureInv
    BY TypeInit DEF Init, DBInit, NoRow, FailureInv, FailedHasCause
  <1>2. FailureInv => FailedHasCause
    BY DEF FailureInv
  <1>. QED
    BY <1>1, <1>2, FailureStep, PTL DEF Spec

\* One step moves every assignment forward or leaves it alone.
LEMMA OutcomesStep ==
  ASSUME TypeOK, Next
  PROVE  \A t \in Tests, w \in Workers : AssignmentMovesForward(t, w)
  <1> DEFINE Goal == \A t \in Tests, w \in Workers : AssignmentMovesForward(t, w)
  <1> USE DEF TypeOK, DBTypeOK, AssignmentMovesForward
  <1>1. ASSUME assignment' = assignment PROVE Goal
    BY <1>1
  <1>2. ASSUME NEW r \in Starters, StartStep(r) PROVE Goal
    <2>1. CASE StartReserve(r)
      BY <2>1 DEF StartReserve, ReserveWorkersForTest, AssignedWorkers
    <2>2. CASE ~StartReserve(r)
      BY <1>1, <1>2, <2>2
         DEF StartStep, StartClaim, StartEnsure, StartRollback, StartSetRunning, StartDies,
             TryTransitionStatus, UpdateStatus, dbVars
    <2>. QED
      BY <2>1, <2>2
  <1>3. ASSUME NEW s \in Stoppers, StopStep(s) PROVE Goal
    <2>1. CASE StopRelease(s)
      BY <2>1 DEF StopRelease, ReleaseWorkersForTest, Active
    <2>2. CASE ~StopRelease(s)
      BY <1>1, <1>3, <2>2
         DEF StopStep, StopRead, StopFlip, StopFinish, StopDies,
             TryTransitionStatus, UpdateStatus, dbVars
    <2>. QED
      BY <2>1, <2>2
  <1>4. ASSUME NEW w \in Workers, WorkerRequest(w) PROVE Goal
    <2>1. ASSUME NEW t \in Tests, StartAssignment(t, w) PROVE Goal
      BY <2>1 DEF StartAssignment, MarkAssignmentRunning
    <2>2. ASSUME NEW t \in Tests, CompleteAssignment(t, w) PROVE Goal
      BY <2>2 DEF CompleteAssignment, MarkAssignmentCompleted
    <2>3. ASSUME NEW t \in Tests, FailAssignment(t, w) PROVE Goal
      BY <2>3 DEF FailAssignment, MarkAssignmentFailed, Active
    <2>. QED
      BY <1>1, <1>4, <2>1, <2>2, <2>3
         DEF WorkerRequest, Register, CreateWorker, Heartbeat, UpdateHeartbeat,
             HeartbeatsMissed, HeartbeatExpires
  <1>5. ASSUME ReconcilerStep PROVE Goal
    <2>1. CASE ReconcileAssignments
      BY <2>1 DEF ReconcileAssignments, SweepOverlooking,
                  MarkAssignmentsFailedForOfflineWorkers, SweepFailsAssignments,
                  LostAssignment, Active
    <2>2. CASE ReconcileOffline \/ ReconcileSkipped
      BY <1>1, <2>2 DEF ReconcileOffline, ReconcileSkipped, MarkOfflineWorkers, dbVars
    <2>. QED
      BY <1>5, <2>1, <2>2 DEF ReconcilerStep
  <1>6. ASSUME \/ \E t \in Tests : Create(t)
               \/ \E ids \in SUBSET Workers : DrainIdle(ids)
        PROVE  Goal
    BY <1>1, <1>6 DEF Create, InsertTest, DrainIdle, TerminateIdleWorkers
  <1>. QED
    BY <1>2, <1>3, <1>4, <1>5, <1>6 DEF Next

\* The outcome of an assignment is final: no late or repeated report, stop or
\* offline sweep rewrites it.
THEOREM FinalOutcomes == Spec => OutcomesAreFinal
  <1>1. TypeOK /\ [Next]_vars
          => [\A t \in Tests, w \in Workers : AssignmentMovesForward(t, w)]_vars
    BY OutcomesStep
  <1>. QED
    BY TypeCorrect, <1>1, PTL DEF Spec, OutcomesAreFinal

\* One step never makes a DRAINING or OFFLINE worker anything else, nor an
\* OFFLINE one DRAINING.
GoneStays(w) ==
  /\ workerStatus[w] \in {"DRAINING", "OFFLINE"} => workerStatus'[w] \in {"DRAINING", "OFFLINE"}
  /\ workerStatus[w] = "OFFLINE" => workerStatus'[w] = "OFFLINE"

LEMMA GoneStep ==
  ASSUME TypeOK, Next
  PROVE  \A w \in Workers : GoneStays(w)
  <1> DEFINE Goal == \A w \in Workers : GoneStays(w)
  <1> USE DEF TypeOK, DBTypeOK, GoneStays
  <1>1. ASSUME workerStatus' = workerStatus PROVE Goal
    BY <1>1
  <1>2. ASSUME NEW r \in Starters, StartStep(r) PROVE Goal
    <2>1. CASE StartReserve(r)
      BY <2>1 DEF StartReserve, ReserveWorkersForTest, IdleWorkers
    <2>2. CASE ~StartReserve(r)
      BY <1>1, <1>2, <2>2
         DEF StartStep, StartClaim, StartEnsure, StartRollback, StartSetRunning, StartDies,
             TryTransitionStatus, UpdateStatus, dbVars
    <2>. QED
      BY <2>1, <2>2
  <1>3. ASSUME NEW s \in Stoppers, StopStep(s) PROVE Goal
    <2>1. CASE StopRelease(s)
      BY <2>1 DEF StopRelease, ReleaseWorkersForTest
    <2>2. CASE ~StopRelease(s)
      BY <1>1, <1>3, <2>2
         DEF StopStep, StopRead, StopFlip, StopFinish, StopDies,
             TryTransitionStatus, UpdateStatus, dbVars
    <2>. QED
      BY <2>1, <2>2
  <1>4. ASSUME NEW w \in Workers, WorkerRequest(w) PROVE Goal
    <2>1. ASSUME NEW t \in Tests, StartAssignment(t, w) \/ CompleteAssignment(t, w) PROVE Goal
      BY <2>1 DEF StartAssignment, MarkAssignmentRunning, CompleteAssignment,
                  MarkAssignmentCompleted
    <2>2. ASSUME Register(w) PROVE Goal
      BY <2>2 DEF Register, CreateWorker, NoRow
    <2>3. ASSUME NEW status \in ReportableStatuses, Heartbeat(w, status) PROVE Goal
      BY <2>3 DEF Heartbeat, UpdateHeartbeat, ServerOwned
    <2>. QED
      BY <1>1, <1>4, <2>1, <2>2, <2>3
         DEF WorkerRequest, HeartbeatsMissed, HeartbeatExpires, FailAssignment,
             MarkAssignmentFailed
  <1>5. ASSUME ReconcilerStep PROVE Goal
    <2>1. CASE ReconcileOffline
      BY <2>1 DEF ReconcileOffline, MarkOfflineWorkers
    <2>2. CASE ReconcileAssignments \/ ReconcileSkipped
      BY <1>1, <2>2 DEF ReconcileAssignments, SweepOverlooking,
                        MarkAssignmentsFailedForOfflineWorkers, SweepFailsAssignments,
                        ReconcileSkipped, dbVars
    <2>. QED
      BY <1>5, <2>1, <2>2 DEF ReconcilerStep
  <1>6. ASSUME NEW ids \in SUBSET Workers, DrainIdle(ids) PROVE Goal
    BY <1>6 DEF DrainIdle, TerminateIdleWorkers
  <1>7. ASSUME NEW t \in Tests, Create(t) PROVE Goal
    BY <1>1, <1>7 DEF Create, InsertTest
  <1>. QED
    BY <1>2, <1>3, <1>4, <1>5, <1>6, <1>7 DEF Next

\* A worker that is being torn down or was declared dead is never handed back
\* to the scheduler.
THEOREM GoneForGood == Spec => GoneWorkersStayGone
  <1>1. TypeOK /\ [Next]_vars
          => [\A w \in Workers : workerStatus[w] \in {"DRAINING", "OFFLINE"} =>
                workerStatus'[w] \in {"DRAINING", "OFFLINE"}]_vars
    BY GoneStep DEF GoneStays
  <1>. QED
    BY TypeCorrect, <1>1, PTL DEF Spec, GoneWorkersStayGone

=============================================================================
