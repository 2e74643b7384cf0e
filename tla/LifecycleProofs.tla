---------------------------- MODULE LifecycleProofs ----------------------------
(***************************************************************************)
(* Proof that ControlPlane implements TestLifecycle, for every set of      *)
(* tests, workers and request slots.                                       *)
(***************************************************************************)
EXTENDS ControlPlaneProofs

-----------------------------------------------------------------------------
(* What the mapping needs to know                                          *)

\* At most one start of a test is under way, before or after its reservation.
OneStart ==
  \A r, q \in Starters :
    /\ start[r].pc # "free" /\ start[q].pc # "free"
    /\ start[r].test = start[q].test
    => r = q

\* A test that has got to RUNNING, or further by itself, has its workers and
\* no start that could still write to it.
RunIsSpent ==
  \A t \in Tests : testStatus[t] \in {"RUNNING", "COMPLETED", "FAILED"} =>
    /\ AssignedWorkers(t) # {}
    /\ \A r \in Starters : start[r].pc # "free" => start[r].test # t

\* A stop only goes on with a test it saw before an outcome.
StopSawOpen ==
  \A s \in Stoppers :
    stop[s].pc # "free" => stop[s].seen \in {"CREATED", "STARTING", "RUNNING", "STOPPING"}

LifecycleInv == CompletionInv /\ OneStart /\ RunIsSpent /\ StopSawOpen

LEMMA LifecycleInvInit == Init => LifecycleInv
  BY CompletionInit
     DEF LifecycleInv, OneStart, RunIsSpent, StopSawOpen, Init, DBInit, NoRow, NoRequest

LEMMA InvTypes ==
  ASSUME LifecycleInv
  PROVE  /\ TypeOK /\ AllocationInv /\ ClaimHeld /\ UnallocatedUntilReserved
         /\ \A r \in Starters : start[r].pc # "free" => start[r].test \in Tests
         /\ \A s \in Stoppers : stop[s].pc # "free" => stop[s].test \in Tests
  BY DEF LifecycleInv, CompletionInv, AllocationInv, TypeOK, StartRequests, StopRequests, NoRequest

\* Outside StartTest a test becomes RUNNING, COMPLETED or FAILED only from
\* RUNNING.
LEMMA QuietRunning ==
  ASSUME TypeOK,
         \/ \E t \in Tests : Create(t)
         \/ \E s \in Stoppers : StopStep(s)
         \/ \E w \in Workers : WorkerRequest(w)
         \/ \E ids \in SUBSET Workers : DrainIdle(ids)
         \/ ReconcilerStep
         \/ UNCHANGED vars,
         NEW t \in Tests, testStatus'[t] \in {"RUNNING", "COMPLETED", "FAILED"}
  PROVE  testStatus[t] \in {"RUNNING", "COMPLETED", "FAILED"}
  <1> USE DEF TypeOK, DBTypeOK, NoRow, dbVars
  <1> DEFINE Goal == testStatus[t] \in {"RUNNING", "COMPLETED", "FAILED"}
  <1>1. ASSUME NEW u \in Tests, Create(u) PROVE Goal
    BY <1>1 DEF Create, InsertTest
  <1>2. ASSUME NEW s \in Stoppers, StopStep(s) PROVE Goal
    BY <1>2 DEF StopStep, StopRead, StopFlip, StopRelease, StopFinish, StopDies,
                TryTransitionStatus, ReleaseWorkersForTest, UpdateStatus, TransitionApplies
  <1>3. ASSUME NEW w \in Workers, WorkerRequest(w) PROVE Goal
    <2>1. ASSUME NEW u \in Tests, CompleteAssignment(u, w) PROVE Goal
      BY <2>1 DEF CompleteAssignment, MarkAssignmentCompleted
    <2>2. ASSUME NEW u \in Tests, FailAssignment(u, w) PROVE Goal
      BY <2>2 DEF FailAssignment, MarkAssignmentFailed
    <2>3. ASSUME NEW u \in Tests, StartAssignment(u, w) PROVE Goal
      BY <2>3 DEF StartAssignment, MarkAssignmentRunning
    <2>4. CASE Register(w) \/ (\E status \in ReportableStatuses : Heartbeat(w, status)) \/ HeartbeatsMissed(w)
      BY <2>4 DEF Register, CreateWorker, Heartbeat, UpdateHeartbeat, HeartbeatsMissed, HeartbeatExpires
    <2>. QED
      BY <1>3, <2>1, <2>2, <2>3, <2>4 DEF WorkerRequest
  <1>4. ASSUME NEW ids \in SUBSET Workers, DrainIdle(ids) PROVE Goal
    BY <1>4 DEF DrainIdle, TerminateIdleWorkers
  <1>5. CASE ReconcilerStep
    BY <1>5 DEF ReconcilerStep, ReconcileOffline, ReconcileAssignments, ReconcileSkipped,
                MarkOfflineWorkers, SweepOverlooking,
                MarkAssignmentsFailedForOfflineWorkers, SweepFailsAssignments
  <1>6. CASE UNCHANGED vars
    BY <1>6 DEF vars
  <1>. QED
    BY <1>1, <1>2, <1>3, <1>4, <1>5, <1>6

LEMMA CreateQuiet ==
  ASSUME TypeOK, NEW t \in Tests, Create(t)
  PROVE  start' = start /\ RowsKept
  BY DEF Create, InsertTest, requestVars, RowsKept, AssignedWorkers

\* Neither does a start that is quiet about its test.
LEMMA SpentQuiet ==
  ASSUME LifecycleInv, start' = start, RowsKept,
         \A t \in Tests : testStatus'[t] \in {"RUNNING", "COMPLETED", "FAILED"} =>
           testStatus[t] \in {"RUNNING", "COMPLETED", "FAILED"}
  PROVE  OneStart' /\ RunIsSpent'
  BY DEF LifecycleInv, OneStart, RunIsSpent, RowsKept

LEMMA SpentStartStep ==
  ASSUME LifecycleInv, NEW r \in Starters, StartStep(r)
  PROVE  OneStart' /\ RunIsSpent'
  <1> DEFINE Goal == OneStart' /\ RunIsSpent'
  <1>0. /\ TypeOK /\ ClaimHeld /\ UnallocatedUntilReserved
        /\ \A q \in Starters : start[q].pc # "free" => start[q].test \in Tests
        /\ OneStart /\ RunIsSpent
    BY InvTypes DEF LifecycleInv
  <1> USE <1>0
  <1>t. start \in [Starters -> StartRequests] /\ testStatus \in [Tests -> TestStatuses \cup {NoRow}]
    BY DEF TypeOK, DBTypeOK
  <1> USE <1>t DEF StartAt, StartGoes, StartEnds, NoRequest
  <1>1. ASSUME NEW t \in Tests, StartClaim(r, t) PROVE Goal
    <2>1. /\ testStatus[t] = "CREATED"
          /\ testStatus' = [testStatus EXCEPT ![t] = "STARTING"]
          /\ start' = [start EXCEPT ![r] = [pc |-> "ensure", test |-> t]]
          /\ \A u \in Tests : AssignedWorkers(u)' = AssignedWorkers(u)
      BY <1>1 DEF StartClaim, TransitionApplies, TryTransitionStatus, AssignedWorkers
    <2>2. \A q \in Starters : start[q].pc # "free" => start[q].test # t
      BY <2>1 DEF ClaimHeld, UnallocatedUntilReserved, Unclaimed, StartRequests
    <2>3. OneStart'
      BY <2>1, <2>2 DEF OneStart
    <2>4. RunIsSpent'
      BY <2>1 DEF RunIsSpent
    <2>. QED
      BY <2>3, <2>4
  <1>2. CASE StartEnsure(r)
    <2>1. /\ start[r].pc = "ensure"
          /\ start' = [start EXCEPT ![r].pc = "reserve"]
          /\ testStatus' = testStatus
          /\ \A u \in Tests : AssignedWorkers(u)' = AssignedWorkers(u)
      BY <1>2 DEF StartEnsure, dbVars, AssignedWorkers
    <2>2. \A q \in Starters : start'[q].pc # "free" => start[q].pc # "free" /\ start'[q].test = start[q].test
      BY <2>1 DEF StartRequests
    <2>. QED
      BY <2>1, <2>2 DEF OneStart, RunIsSpent
  <1>3. CASE StartReserve(r)
    <2>1. /\ start[r].pc = "reserve"
          /\ start' = [start EXCEPT ![r].pc = "setRunning"]
          /\ testStatus' = testStatus
          /\ \A u \in Tests : u # start[r].test => AssignedWorkers(u)' = AssignedWorkers(u)
      BY <1>3 DEF StartReserve, ReserveWorkersForTest, AssignedWorkers, TypeOK, DBTypeOK
    <2>2. \A q \in Starters : start'[q].pc # "free" => start[q].pc # "free" /\ start'[q].test = start[q].test
      BY <2>1 DEF StartRequests
    <2>3. testStatus[start[r].test] \notin {"RUNNING", "COMPLETED", "FAILED"}
      BY <2>1 DEF RunIsSpent
    <2>. QED
      BY <2>1, <2>2, <2>3 DEF OneStart, RunIsSpent
  <1>4. CASE StartRollback(r)
    <2>1. /\ start' = [start EXCEPT ![r] = NoRequest]
          /\ \A u \in Tests : testStatus'[u] \in {testStatus[u], "CREATED"}
          /\ \A u \in Tests : AssignedWorkers(u)' = AssignedWorkers(u)
      BY <1>4 DEF StartRollback, TryTransitionStatus, TransitionApplies, AssignedWorkers
    <2>. QED
      BY <2>1 DEF OneStart, RunIsSpent
  <1>5. CASE StartSetRunning(r)
    <2>1. /\ start[r].pc = "setRunning"
          /\ start' = [start EXCEPT ![r] = NoRequest]
          /\ testStatus' = [testStatus EXCEPT ![start[r].test] = "RUNNING"]
          /\ \A u \in Tests : AssignedWorkers(u)' = AssignedWorkers(u)
      BY <1>5 DEF StartSetRunning, UpdateStatus, AssignedWorkers
    <2>2. AssignedWorkers(start[r].test) # {}
      BY <2>1 DEF ClaimHeld
    <2>3. OneStart'
      BY <2>1 DEF OneStart
    <2>4. RunIsSpent'
      BY <2>1, <2>2 DEF OneStart, RunIsSpent
    <2>. QED
      BY <2>3, <2>4
  <1>6. CASE StartDies(r)
    <2>1. /\ start' = [start EXCEPT ![r] = NoRequest]
          /\ testStatus' = testStatus
          /\ \A u \in Tests : AssignedWorkers(u)' = AssignedWorkers(u)
      BY <1>6 DEF StartDies, dbVars, AssignedWorkers
    <2>. QED
      BY <2>1 DEF OneStart, RunIsSpent
  <1>. QED
    BY <1>1, <1>2, <1>3, <1>4, <1>5, <1>6 DEF StartStep

LEMMA StopSawStep ==
  ASSUME LifecycleInv, [Next]_vars
  PROVE  StopSawOpen'
  <1> DEFINE Open == {"CREATED", "STARTING", "RUNNING", "STOPPING"}
  <1>0. TypeOK /\ StopSawOpen /\ stop \in [Stoppers -> StopRequests]
    BY InvTypes DEF LifecycleInv, TypeOK
  <1> USE <1>0 DEF StopSawOpen, StopRequests, NoRequest
  <1>1. ASSUME NEW s \in Stoppers, StopStep(s) PROVE StopSawOpen'
    <2> USE DEF StopAt, StopGoes, StopEnds
    <2>1. ASSUME NEW t \in Tests, StopRead(s, t) PROVE StopSawOpen'
      <3>1. testStatus[t] \in Open
        BY <2>1 DEF StopRead, TypeOK, DBTypeOK, TestStatuses
      <3>2. stop' = [stop EXCEPT ![s] = [pc |-> "flip", test |-> t, seen |-> testStatus[t]]]
        BY <2>1 DEF StopRead
      <3>. QED
        BY <3>1, <3>2
    <2>2. CASE StopFlip(s)
      <3>1. stop[s].pc # "free" /\ stop' = [stop EXCEPT ![s].pc = "release"]
        BY <2>2 DEF StopFlip
      <3>. QED
        BY <3>1
    <2>3. CASE StopRelease(s)
      <3>1. stop[s].pc # "free" /\ stop' = [stop EXCEPT ![s].pc = "finish"]
        BY <2>3 DEF StopRelease
      <3>. QED
        BY <3>1
    <2>4. CASE StopFinish(s) \/ StopDies(s)
      <3>1. stop' = [stop EXCEPT ![s] = NoRequest]
        BY <2>4 DEF StopFinish, StopDies
      <3>. QED
        BY <3>1
    <2>. QED
      BY <1>1, <2>1, <2>2, <2>3, <2>4 DEF StopStep
  <1>2. ASSUME stop' = stop PROVE StopSawOpen'
    BY <1>2
  <1>3. ASSUME NEW r \in Starters, StartStep(r) PROVE stop' = stop
    BY <1>3 DEF StartStep, StartClaim, StartEnsure, StartReserve, StartRollback, StartSetRunning, StartDies
  <1>4. ASSUME NEW w \in Workers, WorkerRequest(w) PROVE stop' = stop
    BY <1>4 DEF WorkerRequest, Register, Heartbeat, HeartbeatsMissed, StartAssignment,
                CompleteAssignment, FailAssignment, requestVars
  <1>5. ASSUME NEW t \in Tests, Create(t) PROVE stop' = stop
    BY <1>5 DEF Create, requestVars
  <1>6. ASSUME NEW ids \in SUBSET Workers, DrainIdle(ids) PROVE stop' = stop
    BY <1>6 DEF DrainIdle, requestVars
  <1>7. CASE ReconcilerStep
    BY <1>7, <1>2 DEF ReconcilerStep, ReconcileOffline, ReconcileAssignments,
                      SweepOverlooking, ReconcileSkipped
  <1>8. CASE UNCHANGED vars
    BY <1>8, <1>2 DEF vars
  <1>. QED
    BY <1>1, <1>2, <1>3, <1>4, <1>5, <1>6, <1>7, <1>8 DEF Next

LEMMA LifecycleInvStep == LifecycleInv /\ [Next]_vars => LifecycleInv'
  <1> SUFFICES ASSUME LifecycleInv, [Next]_vars PROVE LifecycleInv'
    OBVIOUS
  <1>1. CompletionInv'
    BY CompletionStep DEF LifecycleInv
  <1>2. StopSawOpen'
    BY StopSawStep
  <1>3. OneStart' /\ RunIsSpent'
    <2>1. ASSUME NEW r \in Starters, StartStep(r) PROVE OneStart' /\ RunIsSpent'
      BY <2>1, SpentStartStep
    <2>2. ASSUME NEW t \in Tests, Create(t) PROVE OneStart' /\ RunIsSpent'
      BY <2>2, CreateQuiet, QuietRunning, SpentQuiet, InvTypes
    <2>3. CASE \/ \E s \in Stoppers : StopStep(s)
               \/ \E w \in Workers : WorkerRequest(w)
               \/ \E ids \in SUBSET Workers : DrainIdle(ids)
               \/ ReconcilerStep
               \/ UNCHANGED vars
      BY <2>3, QuietStep, QuietRunning, SpentQuiet, InvTypes
    <2>. QED
      BY <2>1, <2>2, <2>3 DEF Next
  <1>. QED
    BY <1>1, <1>2, <1>3 DEF LifecycleInv

LEMMA LifecycleInvAlways == Spec => []LifecycleInv
  BY LifecycleInvInit, LifecycleInvStep, PTL DEF Spec

-----------------------------------------------------------------------------
(* What leaves the mapped variables alone                                  *)

\* The requests of a test and the existence of its rows decide its claim.
LEMMA ClaimKept ==
  ASSUME start' = start, RowsKept
  PROVE  \A t \in Tests : TestClaim(t)' = TestClaim(t)
  BY DEF RowsKept, TestClaim, StartAtTest

\* A step of one request leaves the claims of the other tests alone.
LEMMA ClaimOfOthers ==
  ASSUME NEW r \in Starters, NEW t \in Tests,
         \A q \in Starters \ {r} : start'[q] = start[q],
         start[r].pc = "free" \/ start[r].test = t,
         start'[r].pc = "free" \/ start'[r].test = t,
         NEW u \in Tests \ {t}, AssignedWorkers(u)' = AssignedWorkers(u)
  PROVE  TestClaim(u)' = TestClaim(u)
  <1>1. ASSUME NEW pcs \in {{"ensure", "reserve"}, {"setRunning"}}
        PROVE  StartAtTest(u, pcs)' <=> StartAtTest(u, pcs)
    <2>1. \A q \in Starters :
            /\ start'[q].pc \in pcs /\ start'[q].test = u
            <=> start[q].pc \in pcs /\ start[q].test = u
      BY <1>1
    <2>. QED
      BY <2>1 DEF StartAtTest
  <1>. QED
    BY <1>1 DEF TestClaim

LEMMA StopsKept ==
  ASSUME stop' = stop
  PROVE  BeingStopped' = BeingStopped
  BY DEF BeingStopped

LEMMA CutKept ==
  ASSUME \A t \in Tests, w \in Workers :
           (assignment'[t][w] = "COMPLETED" /\ <<t, w>> \notin reported')
             <=> (assignment[t][w] = "COMPLETED" /\ <<t, w>> \notin reported)
  PROVE  CutByStop' = CutByStop
  BY DEF CutByStop

\* Nothing a client can see happens.
LEMMA LifecycleStutter ==
  ASSUME testStatus' = testStatus,
         \A t \in Tests : TestClaim(t)' = TestClaim(t),
         BeingStopped' = BeingStopped,
         CutByStop' = CutByStop
  PROVE  UNCHANGED Lifecycle!lifecycleVars
  BY DEF Lifecycle!lifecycleVars

-----------------------------------------------------------------------------
(* Every step is a step of the life of a test, or a stutter                *)

Mapped == Lifecycle!LifecycleNext \/ UNCHANGED Lifecycle!lifecycleVars

LEMMA MapStart ==
  ASSUME LifecycleInv, LifecycleInv', NEW r \in Starters, StartStep(r)
  PROVE  Mapped
  <1>0. /\ TypeOK /\ ClaimHeld /\ UnallocatedUntilReserved
        /\ \A q \in Starters : start[q].pc # "free" => start[q].test \in Tests
        /\ OneStart /\ RunIsSpent
    BY InvTypes DEF LifecycleInv
  <1>0p. ClaimHeld' /\ UnallocatedUntilReserved' /\ OneStart'
    BY DEF LifecycleInv, CompletionInv, AllocationInv
  <1> USE <1>0
  <1>t. start \in [Starters -> StartRequests] /\ testStatus \in [Tests -> TestStatuses \cup {NoRow}]
    BY DEF TypeOK, DBTypeOK
  <1> USE <1>t DEF StartAt, StartGoes, StartEnds, NoRequest
  <1>s. stop' = stop /\ BeingStopped' = BeingStopped
    <2>1. stop' = stop
      BY DEF StartStep, StartClaim, StartEnsure, StartReserve, StartRollback, StartSetRunning, StartDies
    <2>. QED
      BY <2>1, StopsKept
  \* The claims of a start's own test.
  <1>a. ASSUME start[r].pc \in {"ensure", "reserve"}
        PROVE  TestClaim(start[r].test) = "starting"
    BY <1>a DEF UnallocatedUntilReserved, TestClaim, StartAtTest
  <1>b. ASSUME start[r].pc = "setRunning"
        PROVE  TestClaim(start[r].test) = "allocated"
    BY <1>b DEF ClaimHeld, TestClaim, StartAtTest
  \* The claim it leaves behind.
  <1>c. ASSUME NEW t \in Tests, start[r].pc # "free", start[r].test = t,
               start' = [start EXCEPT ![r] = NoRequest]
        PROVE  /\ ~StartAtTest(t, {"ensure", "reserve"})'
               /\ ~StartAtTest(t, {"setRunning"})'
    BY <1>c DEF OneStart, StartAtTest
  <1>1. ASSUME NEW t \in Tests, StartClaim(r, t) PROVE Mapped
    <2>1. /\ testStatus[t] = "CREATED" /\ start[r].pc = "free"
          /\ testStatus' = [testStatus EXCEPT ![t] = "STARTING"]
          /\ start' = [start EXCEPT ![r] = [pc |-> "ensure", test |-> t]]
          /\ assignment' = assignment /\ reported' = reported
      BY <1>1 DEF StartClaim, TransitionApplies, TryTransitionStatus
    <2>2. \A u \in Tests : AssignedWorkers(u)' = AssignedWorkers(u)
      BY <2>1 DEF AssignedWorkers
    <2>3. AssignedWorkers(t) = {}
      BY <2>1 DEF UnallocatedUntilReserved
    <2>4. \A q \in Starters : start[q].pc # "free" => start[q].test # t
      BY <2>1, <2>3 DEF ClaimHeld, Unclaimed, StartRequests
    <2>5. TestClaim(t) = "none"
      BY <2>3, <2>4 DEF TestClaim, StartAtTest
    <2>6. TestClaim(t)' = "starting"
      BY <2>1, <2>2, <2>3 DEF TestClaim, StartAtTest
    <2>7. \A u \in Tests \ {t} : TestClaim(u)' = TestClaim(u)
      BY <2>1, <2>2, ClaimOfOthers
    <2>8. CutByStop' = CutByStop
      BY <2>1, CutKept
    <2>9. Lifecycle!Claim(t)
      BY <1>s, <2>1, <2>5, <2>6, <2>7, <2>8 DEF Lifecycle!Claim
    <2>. QED
      BY <2>9 DEF Mapped, Lifecycle!LifecycleNext
  <1>2. CASE StartEnsure(r)
    <2>0. PICK t \in Tests : t = start[r].test
      BY <1>2 DEF StartEnsure
    <2>1. /\ start[r].pc = "ensure" /\ start' = [start EXCEPT ![r].pc = "reserve"]
          /\ testStatus' = testStatus /\ assignment' = assignment /\ reported' = reported
      BY <2>0, <1>2 DEF StartEnsure, dbVars
    <2>2. \A u \in Tests : AssignedWorkers(u)' = AssignedWorkers(u)
      BY <2>0, <2>1 DEF AssignedWorkers
    <2>3. start'[r].pc = "reserve" /\ start'[r].test = t
      BY <2>0, <2>1 DEF StartRequests
    <2>4. TestClaim(t)' = "starting"
      BY <2>0, <1>0p, <2>3 DEF UnallocatedUntilReserved, TestClaim, StartAtTest
    <2>5. \A u \in Tests \ {t} : TestClaim(u)' = TestClaim(u)
      BY <2>0, <2>1, <2>2, <2>3, ClaimOfOthers
    <2>6. CutByStop' = CutByStop
      BY <2>0, <2>1, CutKept
    <2>. QED
      BY <2>0, <1>a, <1>s, <2>1, <2>3, <2>4, <2>5, <2>6, LifecycleStutter DEF Mapped
  <1>3. CASE StartReserve(r)
    <2>0. PICK t \in Tests : t = start[r].test
      BY <1>3 DEF StartReserve
    <2>1. /\ start[r].pc = "reserve" /\ start' = [start EXCEPT ![r].pc = "setRunning"]
          /\ testStatus' = testStatus /\ reported' = reported
          /\ \A u \in Tests, w \in Workers :
               \/ assignment'[u][w] = assignment[u][w]
               \/ u = t /\ assignment'[u][w] = "RESERVED"
                  /\ assignment[u][w] = NoRow
      BY <2>0, <1>3 DEF StartReserve, ReserveWorkersForTest, TypeOK, DBTypeOK, AssignedWorkers
    <2>2. \A u \in Tests \ {t} : AssignedWorkers(u)' = AssignedWorkers(u)
      BY <2>0, <2>1 DEF AssignedWorkers
    <2>3. start'[r].pc = "setRunning" /\ start'[r].test = t
      BY <2>0, <2>1 DEF StartRequests
    <2>4. TestClaim(t)' = "allocated"
      BY <2>0, <1>0p, <2>3 DEF ClaimHeld, TestClaim, StartAtTest
    <2>5. \A u \in Tests \ {t} : TestClaim(u)' = TestClaim(u)
      BY <2>0, <2>1, <2>2, <2>3, ClaimOfOthers
    <2>6. CutByStop' = CutByStop
      BY <2>0, <2>1, CutKept DEF NoRow
    <2>7. Lifecycle!Allocate(t)
      BY <2>0, <1>a, <1>s, <2>1, <2>3, <2>4, <2>5, <2>6 DEF Lifecycle!Allocate
    <2>. QED
      BY <2>3, <2>7 DEF Mapped, Lifecycle!LifecycleNext
  <1>4. CASE StartRollback(r)
    <2>0. PICK t \in Tests : t = start[r].test
      BY <1>4 DEF StartRollback
    <2>1. /\ start[r].pc \in {"ensure", "reserve"} /\ start' = [start EXCEPT ![r] = NoRequest]
          /\ testStatus' = [testStatus EXCEPT ![t] = IF @ = "STARTING" THEN "CREATED" ELSE @]
          /\ assignment' = assignment /\ reported' = reported
      BY <2>0, <1>4 DEF StartRollback, TryTransitionStatus, TransitionApplies
    <2>2. \A u \in Tests : AssignedWorkers(u)' = AssignedWorkers(u)
      BY <2>0, <2>1 DEF AssignedWorkers
    <2>3. AssignedWorkers(t) = {}
      BY <2>0, <2>1 DEF UnallocatedUntilReserved
    <2>4. TestClaim(t)' = "none"
      BY <2>0, <1>c, <2>1, <2>2, <2>3 DEF TestClaim
    <2>5. \A u \in Tests \ {t} : TestClaim(u)' = TestClaim(u)
      BY <2>0, <2>1, <2>2, <2>3, ClaimOfOthers
    <2>6. CutByStop' = CutByStop
      BY <2>0, <2>1, CutKept
    <2>7. Lifecycle!GiveUp(t)
      BY <2>0, <1>a, <1>s, <2>1, <2>3, <2>4, <2>5, <2>6 DEF Lifecycle!GiveUp
    <2>. QED
      BY <2>3, <2>7 DEF Mapped, Lifecycle!LifecycleNext
  <1>5. CASE StartSetRunning(r)
    <2>0. PICK t \in Tests : t = start[r].test
      BY <1>5 DEF StartSetRunning
    <2>1. /\ start[r].pc = "setRunning" /\ start' = [start EXCEPT ![r] = NoRequest]
          /\ testStatus' = [testStatus EXCEPT ![t] = "RUNNING"]
          /\ assignment' = assignment /\ reported' = reported
      BY <2>0, <1>5 DEF StartSetRunning, UpdateStatus
    <2>2. \A u \in Tests : AssignedWorkers(u)' = AssignedWorkers(u)
      BY <2>0, <2>1 DEF AssignedWorkers
    <2>3. AssignedWorkers(t) # {}
      BY <2>0, <2>1 DEF ClaimHeld
    <2>4. TestClaim(t)' = "spent"
      BY <2>0, <1>c, <2>1, <2>2, <2>3 DEF TestClaim
    <2>5. \A u \in Tests \ {t} : TestClaim(u)' = TestClaim(u)
      BY <2>0, <2>1, <2>2, <2>3, ClaimOfOthers
    <2>6. CutByStop' = CutByStop
      BY <2>0, <2>1, CutKept
    <2>7. Lifecycle!Run(t)
      BY <2>0, <1>b, <1>s, <2>1, <2>3, <2>4, <2>5, <2>6 DEF Lifecycle!Run
    <2>. QED
      BY <2>3, <2>7 DEF Mapped, Lifecycle!LifecycleNext
  <1>6. CASE StartDies(r)
    <2>0. PICK t \in Tests : t = start[r].test
      BY <1>6 DEF StartDies
    <2>1. /\ start[r].pc # "free" /\ start' = [start EXCEPT ![r] = NoRequest]
          /\ testStatus' = testStatus /\ assignment' = assignment /\ reported' = reported
      BY <2>0, <1>6 DEF StartDies, dbVars
    <2>2. \A u \in Tests : AssignedWorkers(u)' = AssignedWorkers(u)
      BY <2>0, <2>1 DEF AssignedWorkers
    <2>3. start[r].pc \in {"ensure", "reserve", "setRunning"}
      BY <2>0, <2>1 DEF StartRequests
    <2>4. TestClaim(t)' = IF start[r].pc = "setRunning" THEN "spent" ELSE "none"
      BY <2>0, <1>c, <2>1, <2>2, <2>3 DEF TestClaim, ClaimHeld, UnallocatedUntilReserved
    <2>5. \A u \in Tests \ {t} : TestClaim(u)' = TestClaim(u)
      BY <2>0, <2>1, <2>2, <2>3, ClaimOfOthers
    <2>6. CutByStop' = CutByStop
      BY <2>0, <2>1, CutKept
    <2>7. Lifecycle!Abandon(t)
      BY <2>0, <1>a, <1>b, <1>s, <2>1, <2>3, <2>4, <2>5, <2>6 DEF Lifecycle!Abandon
    <2>. QED
      BY <2>3, <2>7 DEF Mapped, Lifecycle!LifecycleNext
  <1>. QED
    BY <1>1, <1>2, <1>3, <1>4, <1>5, <1>6 DEF StartStep

LEMMA MapStop ==
  ASSUME LifecycleInv, NEW s \in Stoppers, StopStep(s)
  PROVE  Mapped
  <1>0. /\ TypeOK /\ StopSawOpen
        /\ \A q \in Stoppers : stop[q].pc # "free" => stop[q].test \in Tests
        /\ stop \in [Stoppers -> StopRequests] /\ testStatus \in [Tests -> TestStatuses \cup {NoRow}]
    BY InvTypes DEF LifecycleInv, TypeOK, DBTypeOK
  <1> USE <1>0 DEF StopAt, StopGoes, StopEnds, NoRequest
  <1>c. \A t \in Tests : TestClaim(t)' = TestClaim(t)
    BY QuietStep, ClaimKept
  <1>1. ASSUME NEW t \in Tests, StopRead(s, t) PROVE Mapped
    <2>1. /\ testStatus[t] \in {"CREATED", "STARTING", "RUNNING", "STOPPING"}
          /\ stop[s].pc = "free"
          /\ stop' = [stop EXCEPT ![s] = [pc |-> "flip", test |-> t, seen |-> testStatus[t]]]
          /\ testStatus' = testStatus /\ assignment' = assignment /\ reported' = reported
      BY <1>1 DEF StopRead, TestStatuses, dbVars
    <2>2. BeingStopped' = BeingStopped \cup {t}
      BY <2>1 DEF BeingStopped
    <2>3. CutByStop' = CutByStop
      BY <2>1, CutKept
    <2>4. Lifecycle!BeginStop(t)
      BY <1>c, <2>1, <2>2, <2>3 DEF Lifecycle!BeginStop
    <2>. QED
      BY <2>4 DEF Mapped, Lifecycle!LifecycleNext
  <1>2. CASE StopFlip(s)
    <2>0. PICK t \in Tests : t = stop[s].test
      BY <1>2 DEF StopFlip
    <2>1. /\ stop[s].pc = "flip" /\ stop' = [stop EXCEPT ![s].pc = "release"]
          /\ testStatus' = [testStatus EXCEPT ![t] = IF @ = stop[s].seen THEN "STOPPING" ELSE @]
          /\ assignment' = assignment /\ reported' = reported
      BY <1>2, <2>0 DEF StopFlip, TryTransitionStatus, TransitionApplies
    <2>2. /\ stop'[s].pc = "release" /\ stop'[s].test = t
          /\ \A q \in Stoppers \ {s} : stop'[q] = stop[q]
      BY <2>0, <2>1 DEF StopRequests
    <2>3. BeingStopped' = BeingStopped /\ t \in BeingStopped
      BY <2>0, <2>1, <2>2 DEF BeingStopped
    <2>4. CutByStop' = CutByStop
      BY <2>1, CutKept
    <2>5. CASE testStatus' = testStatus
      BY <1>c, <2>3, <2>4, <2>5, LifecycleStutter DEF Mapped
    <2>6. CASE testStatus' # testStatus
      <3>1. /\ testStatus' = [testStatus EXCEPT ![t] = "STOPPING"]
            /\ testStatus[t] \in {"CREATED", "STARTING", "RUNNING"}
        BY <2>1, <2>6 DEF StopSawOpen
      <3>2. Lifecycle!MarkStopping(t)
        BY <1>c, <2>3, <2>4, <3>1 DEF Lifecycle!MarkStopping
      <3>. QED
        BY <3>2 DEF Mapped, Lifecycle!LifecycleNext
    <2>. QED
      BY <2>5, <2>6
  <1>3. CASE StopRelease(s)
    <2>0. PICK t \in Tests : t = stop[s].test
      BY <1>3 DEF StopRelease
    <2>1. /\ stop[s].pc = "release" /\ stop' = [stop EXCEPT ![s].pc = "finish"]
          /\ testStatus' = testStatus /\ reported' = reported
          /\ assignment' = [assignment EXCEPT
                ![t] = [w \in Workers |-> IF @[w] \in Active THEN "COMPLETED" ELSE @[w]]]
      BY <1>3, <2>0 DEF StopRelease, ReleaseWorkersForTest
    <2>2. /\ stop'[s].pc = "finish" /\ stop'[s].test = t
          /\ \A q \in Stoppers \ {s} : stop'[q] = stop[q]
      BY <2>0, <2>1 DEF StopRequests
    <2>3. BeingStopped' = BeingStopped /\ t \in BeingStopped
      BY <2>0, <2>1, <2>2 DEF BeingStopped
    \* What was cut stays cut; the release adds this test or nothing.
    <2>4. \A u \in Tests, w \in Workers :
            /\ assignment[u][w] = "COMPLETED" => assignment'[u][w] = "COMPLETED"
            /\ u # t => assignment'[u][w] = assignment[u][w]
      BY <2>1 DEF TypeOK, DBTypeOK
    <2>5. CutByStop \subseteq CutByStop' /\ CutByStop' \subseteq CutByStop \cup {t}
      BY <2>1, <2>4 DEF CutByStop
    <2>6. CASE CutByStop' = CutByStop
      BY <1>c, <2>1, <2>3, <2>6, LifecycleStutter DEF Mapped
    <2>7. CASE CutByStop' = CutByStop \cup {t}
      <3>1. Lifecycle!CutShort(t)
        BY <1>c, <2>1, <2>3, <2>7 DEF Lifecycle!CutShort
      <3>. QED
        BY <3>1 DEF Mapped, Lifecycle!LifecycleNext
    <2>. QED
      BY <2>5, <2>6, <2>7
  <1>4. CASE StopFinish(s) \/ StopDies(s)
    <2>0. PICK t \in Tests : t = stop[s].test
      BY <1>4 DEF StopFinish, StopDies
    <2>1. /\ stop[s].pc # "free" /\ stop' = [stop EXCEPT ![s] = NoRequest]
          /\ assignment' = assignment /\ reported' = reported
      BY <1>4 DEF StopFinish, StopDies, UpdateStatus, dbVars
    <2>2. t \in BeingStopped /\ BeingStopped' \in {BeingStopped, BeingStopped \ {t}}
      <3>1. BeingStopped \ {t} \subseteq BeingStopped' /\ BeingStopped' \subseteq BeingStopped
        BY <2>0, <2>1 DEF BeingStopped
      <3>2. t \in BeingStopped
        BY <2>0, <2>1 DEF BeingStopped
      <3>. QED
        BY <3>1, <3>2
    <2>3. CutByStop' = CutByStop
      BY <2>1, CutKept
    <2>4. CASE testStatus' = [testStatus EXCEPT ![t] = "STOPPED"]
      <3>1. Lifecycle!Stopped(t)
        BY <1>c, <2>2, <2>3, <2>4 DEF Lifecycle!Stopped
      <3>. QED
        BY <3>1 DEF Mapped, Lifecycle!LifecycleNext
    <2>5. CASE testStatus' = testStatus /\ BeingStopped' = BeingStopped \ {t}
      <3>1. Lifecycle!StopFails(t)
        BY <1>c, <2>2, <2>3, <2>5 DEF Lifecycle!StopFails
      <3>. QED
        BY <3>1 DEF Mapped, Lifecycle!LifecycleNext
    <2>6. CASE testStatus' = testStatus /\ BeingStopped' = BeingStopped
      BY <1>c, <2>3, <2>6, LifecycleStutter DEF Mapped
    <2>. QED
      BY <1>4, <2>0, <2>2, <2>4, <2>5, <2>6 DEF StopFinish, StopDies, UpdateStatus, dbVars
  <1>. QED
    BY <1>1, <1>2, <1>3, <1>4 DEF StopStep

\* A RUNNING test's start is over.
LEMMA RunningClaim ==
  ASSUME LifecycleInv, NEW t \in Tests, testStatus[t] = "RUNNING"
  PROVE  TestClaim(t) = "spent"
  BY DEF LifecycleInv, RunIsSpent, TestClaim, StartAtTest

LEMMA MapOthers ==
  ASSUME LifecycleInv,
         \/ \E w \in Workers : WorkerRequest(w)
         \/ \E ids \in SUBSET Workers : DrainIdle(ids)
         \/ ReconcilerStep
         \/ UNCHANGED vars
  PROVE  Mapped
  <1>0. /\ TypeOK /\ CompletionAccounted
        /\ assignment \in [Tests -> [Workers -> AssignmentStatuses \cup {NoRow}]]
        /\ testStatus \in [Tests -> TestStatuses \cup {NoRow}]
    BY InvTypes DEF LifecycleInv, CompletionInv, TypeOK, DBTypeOK
  <1> USE <1>0
  <1>c. \A t \in Tests : TestClaim(t)' = TestClaim(t)
    BY QuietStep, ClaimKept
  <1>s. BeingStopped' = BeingStopped
    <2>1. stop' = stop
      BY DEF WorkerRequest, Register, Heartbeat, HeartbeatsMissed, StartAssignment, CompleteAssignment,
             FailAssignment, DrainIdle, ReconcilerStep, ReconcileOffline, ReconcileAssignments,
             SweepOverlooking, ReconcileSkipped, requestVars, vars
    <2>. QED
      BY <2>1, StopsKept
  <1> DEFINE CutSame == \A t \in Tests, w \in Workers :
               (assignment'[t][w] = "COMPLETED" /\ <<t, w>> \notin reported')
                 <=> (assignment[t][w] = "COMPLETED" /\ <<t, w>> \notin reported)
  <1>1. ASSUME NEW t \in Tests, NEW w \in Workers, CompleteAssignment(t, w) PROVE Mapped
    <2>1. /\ assignment[t][w] = "RUNNING"
          /\ assignment' = [assignment EXCEPT ![t][w] = "COMPLETED"]
          /\ reported' = reported \cup {<<t, w>>}
      BY <1>1 DEF CompleteAssignment, MarkAssignmentCompleted
    <2>2. CutByStop' = CutByStop
      <3>1. \A u \in Tests, v \in Workers :
              assignment'[u][v] = IF u = t /\ v = w THEN "COMPLETED" ELSE assignment[u][v]
        BY <2>1
      <3>2. CutSame
        BY <2>1, <3>1
      <3>. QED
        BY <3>2, CutKept
    <2>3. CASE testStatus' = testStatus
      BY <1>c, <1>s, <2>2, <2>3, LifecycleStutter DEF Mapped
    <2>4. CASE testStatus' # testStatus
      <3>1. /\ testStatus[t] = "RUNNING"
            /\ testStatus' = [testStatus EXCEPT ![t] = "COMPLETED"]
        BY <1>1, <2>4 DEF CompleteAssignment, MarkAssignmentCompleted
      \* An assignment was still active: none of the test was cut.
      <3>2. t \notin CutByStop
        BY <2>1 DEF CutByStop, CompletionAccounted, Active
      <3>3. Lifecycle!Complete(t)
        BY <1>c, <1>s, <2>2, <3>1, <3>2, RunningClaim DEF Lifecycle!Complete
      <3>. QED
        BY <3>3 DEF Mapped, Lifecycle!LifecycleNext
    <2>. QED
      BY <2>3, <2>4
  <1>2. ASSUME NEW t \in Tests, NEW w \in Workers, FailAssignment(t, w) PROVE Mapped
    <2>1. /\ assignment[t][w] \in {"RESERVED", "RUNNING"}
          /\ assignment' = [assignment EXCEPT ![t][w] = "FAILED"]
          /\ testStatus' = [testStatus EXCEPT ![t] = IF @ = "RUNNING" THEN "FAILED" ELSE @]
          /\ reported' = reported
      BY <1>2 DEF FailAssignment, MarkAssignmentFailed, Active
    <2>2. CutByStop' = CutByStop
      <3>1. \A u \in Tests, v \in Workers :
              assignment'[u][v] = IF u = t /\ v = w THEN "FAILED" ELSE assignment[u][v]
        BY <2>1
      <3>2. CutSame
        BY <2>1, <3>1
      <3>. QED
        BY <3>2, CutKept
    <2>3. CASE testStatus[t] = "RUNNING"
      <3>1. testStatus' = [u \in Tests |-> IF u \in {t} THEN "FAILED" ELSE testStatus[u]]
        BY <2>1, <2>3
      <3>2. Lifecycle!Fail({t})
        BY <1>c, <1>s, <2>2, <2>3, <3>1, RunningClaim DEF Lifecycle!Fail
      <3>. QED
        BY <3>2 DEF Mapped, Lifecycle!LifecycleNext
    <2>4. CASE testStatus[t] # "RUNNING"
      BY <1>c, <1>s, <2>1, <2>2, <2>4, LifecycleStutter DEF Mapped
    <2>. QED
      BY <2>3, <2>4
  <1>3. CASE ReconcileAssignments
    <2>0. PICK overlooked \in SUBSET Tests : SweepOverlooking(overlooked)
      BY <1>3 DEF ReconcileAssignments
    <2> DEFINE failed == {t \in Tests : testStatus[t] = "RUNNING" /\ t \notin overlooked
                            /\ \E w \in Workers : LostAssignment(t, w) \/ assignment[t][w] = "FAILED"}
    <2>1. /\ \A t \in Tests, w \in Workers :
               assignment'[t][w] = IF LostAssignment(t, w) THEN "FAILED" ELSE assignment[t][w]
          /\ testStatus' = [t \in Tests |-> IF t \in failed THEN "FAILED" ELSE testStatus[t]]
          /\ reported' = reported
      BY <2>0 DEF SweepOverlooking, MarkAssignmentsFailedForOfflineWorkers, SweepFailsAssignments
    <2>2. CutByStop' = CutByStop
      BY <2>1, CutKept DEF LostAssignment, Active
    <2> HIDE DEF failed
    <2>3. \A t \in failed : t \in Tests /\ testStatus[t] = "RUNNING" /\ TestClaim(t) = "spent"
      BY RunningClaim DEF failed
    <2>4. Lifecycle!Fail(failed)
      BY <1>c, <1>s, <2>1, <2>2, <2>3 DEF Lifecycle!Fail
    <2>5. failed \in SUBSET Tests
      BY DEF failed
    <2>. QED
      BY <2>4, <2>5 DEF Mapped, Lifecycle!LifecycleNext
  <1>4. ASSUME testStatus' = testStatus, CutSame PROVE Mapped
    BY <1>c, <1>s, <1>4, CutKept, LifecycleStutter DEF Mapped
  <1>5. ASSUME NEW t \in Tests, NEW w \in Workers, StartAssignment(t, w) PROVE Mapped
    <2>1. /\ assignment[t][w] = "RESERVED" /\ testStatus' = testStatus /\ reported' = reported
          /\ \A u \in Tests, v \in Workers :
               assignment'[u][v] = IF u = t /\ v = w THEN "RUNNING" ELSE assignment[u][v]
      BY <1>5 DEF StartAssignment, MarkAssignmentRunning
    <2>. QED
      BY <1>4, <2>1
  <1>6. ASSUME NEW w \in Workers,
               Register(w) \/ (\E status \in ReportableStatuses : Heartbeat(w, status)) \/ HeartbeatsMissed(w)
        PROVE  Mapped
    BY <1>4, <1>6 DEF Register, CreateWorker, Heartbeat, UpdateHeartbeat, HeartbeatsMissed, HeartbeatExpires
  <1>7. ASSUME NEW ids \in SUBSET Workers, DrainIdle(ids) PROVE Mapped
    BY <1>4, <1>7 DEF DrainIdle, TerminateIdleWorkers
  <1>8. CASE ReconcileOffline \/ ReconcileSkipped \/ UNCHANGED vars
    BY <1>4, <1>8 DEF ReconcileOffline, MarkOfflineWorkers, ReconcileSkipped, dbVars, vars
  <1>. QED
    BY <1>1, <1>2, <1>3, <1>5, <1>6, <1>7, <1>8 DEF WorkerRequest, ReconcilerStep

LEMMA MapCreate ==
  ASSUME LifecycleInv, NEW t \in Tests, Create(t)
  PROVE  Mapped
  <1>1. /\ testStatus[t] = NoRow /\ testStatus' = [testStatus EXCEPT ![t] = "CREATED"]
        /\ assignment' = assignment /\ reported' = reported /\ stop' = stop
    BY DEF Create, InsertTest, requestVars
  <1>2. \A u \in Tests : TestClaim(u)' = TestClaim(u)
    BY InvTypes, CreateQuiet, ClaimKept
  <1>3. BeingStopped' = BeingStopped /\ CutByStop' = CutByStop
    BY <1>1, StopsKept, CutKept
  <1>4. Lifecycle!Create(t)
    BY <1>1, <1>2, <1>3 DEF Lifecycle!Create, Lifecycle!NoTest, NoRow
  <1>. QED
    BY <1>4 DEF Mapped, Lifecycle!LifecycleNext

LEMMA MapInit == Init => Lifecycle!LifecycleInit
  <1> SUFFICES ASSUME Init PROVE Lifecycle!LifecycleInit
    OBVIOUS
  <1>1. \A t \in Tests : TestClaim(t) = "none"
    BY DEF Init, DBInit, NoRow, NoRequest, TestClaim, StartAtTest, AssignedWorkers
  <1>2. BeingStopped = {} /\ CutByStop = {}
    BY DEF Init, DBInit, NoRow, NoRequest, BeingStopped, CutByStop
  <1>. QED
    BY <1>1, <1>2 DEF Init, DBInit, NoRow, Lifecycle!LifecycleInit, Lifecycle!NoTest

\* To its clients the control plane is module TestLifecycle: whatever the
\* requests, cut-off handlers, workers and sweeps do, and for every number of
\* them, a test is started once at a time, runs at most once, and never counts
\* as COMPLETED after a stop ended any of its work.
THEOREM LifecycleImplemented == Spec => ImplementsTestLifecycle
  <1>1. LifecycleInv /\ LifecycleInv' /\ [Next]_vars
          => [Lifecycle!LifecycleNext]_(Lifecycle!lifecycleVars)
    <2> SUFFICES ASSUME LifecycleInv, LifecycleInv', [Next]_vars PROVE Mapped
      BY DEF Mapped
    <2>. QED
      BY MapCreate, MapStart, MapStop, MapOthers DEF Next
  <1>. QED
    BY <1>1, MapInit, LifecycleInvAlways, PTL
       DEF Spec, ImplementsTestLifecycle, Lifecycle!LifecycleSpec

=============================================================================
