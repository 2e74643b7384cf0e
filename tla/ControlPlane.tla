---------------------------- MODULE ControlPlane ----------------------------
(***************************************************************************)
(* The control-plane server: concurrent HTTP requests and the worker       *)
(* reconciler's loop, acting on the rows of module Repository.             *)
(*                                                                         *)
(* A StartTest or StopTest request is a sequence of separate database      *)
(* statements; between two of them anything may run.  Each request is a    *)
(* handler slot with the point it has reached and what it has read.  The   *)
(* requests that are one transaction (create, register, heartbeat and the  *)
(* three assignment transitions) are one action.  The clients (operators   *)
(* and worker processes) may send any request the API accepts at any time; *)
(* the autoscaler's draining of idle workers is left open the same way.    *)
(***************************************************************************)
EXTENDS Repository, Capacity

CONSTANTS
  Starters,            \* slots for concurrent StartTest requests
  Stoppers,            \* slots for concurrent StopTest requests
  Rps,                 \* Rps[t]: tests.rps, fixed at creation
  WorkerCapacityRPS,   \* WORKER_CAPACITY_RPS
  RequestsDie          \* whether a request may be cut off between statements

ASSUME RpsAssumption == Rps \in [Tests -> Nat \ {0}]
ASSUME CapacityAssumption == WorkerCapacityRPS \in Nat \ {0}
ASSUME RequestsDieAssumption == RequestsDie \in BOOLEAN

VARIABLES
  start,       \* start[r]: the StartTest request in slot r
  stop,        \* stop[s]: the StopTest request in slot s
  reconciler,  \* the next statement of the worker reconciler's tick
  reported     \* history: the (test, worker) pairs whose completion was
               \* reported through CompleteAssignment and accepted

vars == <<testStatus, workerStatus, heartbeatFresh, assignment,
          start, stop, reconciler, reported>>

Required(t) == RequiredWorkers(Rps[t], WorkerCapacityRPS)

\* A slot without a request.
NoRequest == [pc |-> "free"]

StartRequests ==
  {NoRequest} \cup [pc : {"ensure", "reserve", "setRunning"}, test : Tests]

StopRequests ==
  {NoRequest} \cup [pc : {"flip", "release", "finish"}, test : Tests, seen : TestStatuses]

TypeOK ==
  /\ DBTypeOK
  /\ start \in [Starters -> StartRequests]
  /\ stop \in [Stoppers -> StopRequests]
  /\ reconciler \in {"markOffline", "failAssignments"}
  /\ reported \subseteq Tests \X Workers

Init ==
  /\ DBInit
  /\ start = [r \in Starters |-> NoRequest]
  /\ stop = [s \in Stoppers |-> NoRequest]
  /\ reconciler = "markOffline"
  /\ reported = {}

-----------------------------------------------------------------------------
(* StartTest: claim, wait for idle workers, reserve, set RUNNING.  The     *)
(* initial GetTestByID only supplies the immutable rps and is part of the  *)
(* claim.                                                                  *)

StartAt(r, pc) == start[r].pc = pc

StartGoes(r, pc) == start' = [start EXCEPT ![r].pc = pc]

StartEnds(r) == start' = [start EXCEPT ![r] = NoRequest]

\* Defect variant: the status is checked by an earlier read, so that two
\* requests may both pass.
StartClaimChecked(r, t) ==
  /\ StartAt(r, "free")
  /\ testStatus[t] \in {"CREATED", "STARTING"}
  /\ UpdateStatus(t, "STARTING")
  /\ start' = [start EXCEPT ![r] = [pc |-> "ensure", test |-> t]]
  /\ UNCHANGED <<stop, reconciler, reported>>

\* WHO: StartTest.  CREATED -> STARTING won; a request that loses the claim
\* gets ErrInvalidTestState and changes nothing.
StartClaim(r, t) ==
  /\ StartAt(r, "free")
  /\ TransitionApplies(t, "CREATED")
  /\ TryTransitionStatus(t, "CREATED", "STARTING")
  /\ start' = [start EXCEPT ![r] = [pc |-> "ensure", test |-> t]]
  /\ UNCHANGED <<stop, reconciler, reported>>

\* WHO: ensureWorkersAvailable.  A poll sees enough IDLE workers.
StartEnsure(r) ==
  /\ StartAt(r, "ensure")
  /\ Cardinality(IdleWorkers) >= Required(start[r].test)
  /\ StartGoes(r, "reserve")
  /\ UNCHANGED <<dbVars, stop, reconciler, reported>>

\* WHO: AllocateWorkers.
StartReserve(r) ==
  /\ StartAt(r, "reserve")
  /\ ReserveWorkersForTest(start[r].test, Required(start[r].test))
  /\ StartGoes(r, "setRunning")
  /\ UNCHANGED <<stop, reconciler, reported>>

\* Defect variant: an error return without the rollback.
StartGivesUp(r) ==
  /\ StartAt(r, "ensure") \/ StartAt(r, "reserve")
  /\ StartEnds(r)
  /\ UNCHANGED <<dbVars, stop, reconciler, reported>>

\* Defect variant: the rollback writes CREATED without a condition.
StartRollbackAnyway(r) ==
  /\ StartAt(r, "ensure") \/ StartAt(r, "reserve")
  /\ UpdateStatus(start[r].test, "CREATED")
  /\ StartEnds(r)
  /\ UNCHANGED <<stop, reconciler, reported>>

\* WHO: StartTest.  An error before or in the reservation (too few idle
\* workers, 30 s timeout, provisioning or database error) rolls the claim
\* back, if the test is still STARTING.
StartRollback(r) ==
  /\ StartAt(r, "ensure") \/ StartAt(r, "reserve")
  /\ TryTransitionStatus(start[r].test, "STARTING", "CREATED")
  /\ StartEnds(r)
  /\ UNCHANGED <<stop, reconciler, reported>>

\* WHO: StartTest.  The status is written without a condition.
StartSetRunning(r) ==
  /\ StartAt(r, "setRunning")
  /\ UpdateStatus(start[r].test, "RUNNING")
  /\ StartEnds(r)
  /\ UNCHANGED <<stop, reconciler, reported>>

\* The request's context is cancelled (client gone, 60 s middleware timeout)
\* or the server dies: no later statement of it runs, the rollback included,
\* since it uses the same context and its error is dropped.
StartDies(r) ==
  /\ RequestsDie
  /\ ~StartAt(r, "free")
  /\ StartEnds(r)
  /\ UNCHANGED <<dbVars, stop, reconciler, reported>>

-----------------------------------------------------------------------------
(* StopTest: read, flip to STOPPING, release, set STOPPED.                 *)

StopAt(s, pc) == stop[s].pc = pc

StopGoes(s, pc) == stop' = [stop EXCEPT ![s].pc = pc]

StopEnds(s) == stop' = [stop EXCEPT ![s] = NoRequest]

\* WHO: StopTest.  A test seen STOPPED, COMPLETED or FAILED is left alone.
StopRead(s, t) ==
  /\ StopAt(s, "free")
  /\ testStatus[t] \notin {NoRow, "STOPPED", "COMPLETED", "FAILED"}
  /\ stop' = [stop EXCEPT ![s] = [pc |-> "flip", test |-> t, seen |-> testStatus[t]]]
  /\ UNCHANGED <<dbVars, start, reconciler, reported>>

\* WHO: StopTest.  Whether the conditional write applied is not looked at.
StopFlip(s) ==
  /\ StopAt(s, "flip")
  /\ TryTransitionStatus(stop[s].test, stop[s].seen, "STOPPING")
  /\ StopGoes(s, "release")
  /\ UNCHANGED <<start, reconciler, reported>>

\* WHO: StopTest.
StopRelease(s) ==
  /\ StopAt(s, "release")
  /\ ReleaseWorkersForTest(stop[s].test)
  /\ StopGoes(s, "finish")
  /\ UNCHANGED <<start, reconciler, reported>>

\* Defect variant: the last write is conditional on the status first read.
StopFinishIfSeen(s) ==
  /\ StopAt(s, "finish")
  /\ TryTransitionStatus(stop[s].test, stop[s].seen, "STOPPED")
  /\ StopEnds(s)
  /\ UNCHANGED <<start, reconciler, reported>>

\* WHO: StopTest.  The status is written without a condition.
StopFinish(s) ==
  /\ StopAt(s, "finish")
  /\ UpdateStatus(stop[s].test, "STOPPED")
  /\ StopEnds(s)
  /\ UNCHANGED <<start, reconciler, reported>>

\* A statement fails, or the request is cut off: StopTest returns at once.
StopDies(s) ==
  /\ RequestsDie
  /\ ~StopAt(s, "free")
  /\ StopEnds(s)
  /\ UNCHANGED <<dbVars, start, reconciler, reported>>

-----------------------------------------------------------------------------
(* Requests that are a single transaction                                  *)

requestVars == <<start, stop, reconciler>>

\* WHO: CreateTest.
Create(t) == InsertTest(t) /\ UNCHANGED <<requestVars, reported>>

\* WHO: RegisterWorker.  Every registration gets an identifier of its own.
Register(w) == CreateWorker(w) /\ UNCHANGED <<requestVars, reported>>

\* Defect variant: a status the schema does not know.
ReportableStatusesUnchecked == {"IDLE", "RESERVED", "RUNNING", "DRAINING", "REGISTERING"}

\* The statuses WorkerService.Heartbeat lets a client report.
ReportableStatuses == {"IDLE", "RESERVED", "RUNNING", "DRAINING"}

\* WHO: WorkerService.Heartbeat.
Heartbeat(w, status) ==
  /\ status \in ReportableStatuses
  /\ UpdateHeartbeat(w, status)
  /\ UNCHANGED <<requestVars, reported>>

\* No heartbeat of w arrives for 120 s.
HeartbeatsMissed(w) ==
  /\ workerStatus[w] # NoRow
  /\ HeartbeatExpires(w)
  /\ UNCHANGED <<requestVars, reported>>

\* WHO: WorkerService.StartAssignment.
StartAssignment(t, w) ==
  MarkAssignmentRunning(t, w) /\ UNCHANGED <<requestVars, reported>>

\* WHO: WorkerService.CompleteAssignment.
CompleteAssignment(t, w) ==
  /\ MarkAssignmentCompleted(t, w)
  /\ reported' = reported \cup {<<t, w>>}
  /\ UNCHANGED requestVars

\* WHO: WorkerService.FailAssignment.
FailAssignment(t, w) ==
  MarkAssignmentFailed(t, w) /\ UNCHANGED <<requestVars, reported>>

\* WHO: the autoscaler's scale-down, which may pick any workers.
DrainIdle(ids) ==
  /\ ids \cap IdleWorkers # {}
  /\ TerminateIdleWorkers(ids)
  /\ UNCHANGED <<requestVars, reported>>

-----------------------------------------------------------------------------
(* WorkerReconciler: two statements every 5 s                              *)

ReconcileOffline ==
  /\ reconciler = "markOffline"
  /\ MarkOfflineWorkers
  /\ reconciler' = "failAssignments"
  /\ UNCHANGED <<start, stop, reported>>

SweepOverlooking(overlooked) ==
  /\ reconciler = "failAssignments"
  /\ MarkAssignmentsFailedForOfflineWorkers(overlooked)
  /\ reconciler' = "markOffline"
  /\ UNCHANGED <<start, stop, reported>>

ReconcileAssignments == \E overlooked \in SUBSET Tests : SweepOverlooking(overlooked)

\* Either statement errors, or the server restarts in between: the tick is
\* over, the next one begins anew.
ReconcileSkipped ==
  /\ reconciler = "failAssignments"
  /\ reconciler' = "markOffline"
  /\ UNCHANGED <<dbVars, start, stop, reported>>

-----------------------------------------------------------------------------

StartStep(r) ==
  \/ \E t \in Tests : StartClaim(r, t)
  \/ StartEnsure(r)
  \/ StartReserve(r)
  \/ StartRollback(r)
  \/ StartSetRunning(r)
  \/ StartDies(r)

StopStep(s) ==
  \/ \E t \in Tests : StopRead(s, t)
  \/ StopFlip(s)
  \/ StopRelease(s)
  \/ StopFinish(s)
  \/ StopDies(s)

WorkerRequest(w) ==
  \/ Register(w)
  \/ \E status \in ReportableStatuses : Heartbeat(w, status)
  \/ HeartbeatsMissed(w)
  \/ \E t \in Tests : StartAssignment(t, w) \/ CompleteAssignment(t, w) \/ FailAssignment(t, w)

ReconcilerStep == ReconcileOffline \/ ReconcileAssignments \/ ReconcileSkipped

Next ==
  \/ \E t \in Tests : Create(t)
  \/ \E r \in Starters : StartStep(r)
  \/ \E s \in Stoppers : StopStep(s)
  \/ \E w \in Workers : WorkerRequest(w)
  \/ \E ids \in SUBSET Workers : DrainIdle(ids)
  \/ ReconcilerStep

Spec == Init /\ [][Next]_vars

\* A handler that was not cut off gets to its next statement; the 30 s limit
\* on ensureWorkersAvailable bounds the wait for workers.  The reconciler's
\* ticker keeps firing, and database errors are not permanent.  A sweep that
\* begins after the last failure of an assignment overlooks nothing.
StartProgress(r) ==
  StartEnsure(r) \/ StartReserve(r) \/ StartRollback(r) \/ StartSetRunning(r)

StopProgress(s) == StopFlip(s) \/ StopRelease(s) \/ StopFinish(s)

Fairness ==
  /\ \A r \in Starters : WF_vars(StartProgress(r))
  /\ \A s \in Stoppers : WF_vars(StopProgress(s))
  /\ WF_vars(ReconcileOffline)
  /\ SF_vars(SweepOverlooking({}))

FairSpec == Spec /\ Fairness

-----------------------------------------------------------------------------
(* Safety                                                                  *)

\* A COMPLETED test has its workers, every one of its assignments is
\* COMPLETED, and each was reported by the worker that executed it: a stop,
\* which marks active assignments COMPLETED itself (ReleaseWorkersForTest),
\* never ends in a test that counts as COMPLETED, however it is interleaved
\* with completions and with the start of the same test.
CompletedByWorkers ==
  \A t \in Tests : testStatus[t] = "COMPLETED" =>
    /\ AssignedWorkers(t) # {}
    /\ \A w \in AssignedWorkers(t) : assignment[t][w] = "COMPLETED" /\ <<t, w>> \in reported

\* A test is allocated at most once, and then exactly the workers its rate
\* requires, across concurrent starts, rollbacks, retries and stops.
AllocatedOnceInFull ==
  \A t \in Tests : Cardinality(AssignedWorkers(t)) \in {0, Required(t)}

\* A test that may be started (again) holds no assignment, and a request
\* still on its way to the reservation finds none: the rollback to CREATED
\* never forgets workers that were reserved.
UnallocatedUntilReserved ==
  /\ \A t \in Tests : testStatus[t] \in {NoRow, "CREATED"} => AssignedWorkers(t) = {}
  /\ \A r \in Starters : start[r].pc \in {"ensure", "reserve"} =>
       /\ AssignedWorkers(start[r].test) = {}
       /\ \A q \in Starters \ {r} :
            start[q].pc # "free" => start[q].test # start[r].test

\* A FAILED test can always name the assignment that failed it.
FailedHasCause ==
  \A t \in Tests : testStatus[t] = "FAILED" => \E w \in Workers : assignment[t][w] = "FAILED"

-----------------------------------------------------------------------------
(* What a step may never do                                                *)

\* An assignment only moves forward, and a finished one never changes: late
\* or repeated reports, stops and offline sweeps cannot rewrite an outcome.
AssignmentMovesForward(t, w) ==
  LET from == assignment[t][w]
      to   == assignment'[t][w]
  IN  from # to => \/ from = NoRow /\ to = "RESERVED"
                   \/ from = "RESERVED" /\ to \in {"RUNNING", "COMPLETED", "FAILED"}
                   \/ from = "RUNNING" /\ to \in {"COMPLETED", "FAILED"}

OutcomesAreFinal == [][\A t \in Tests, w \in Workers : AssignmentMovesForward(t, w)]_vars

\* A worker that is being torn down or was declared dead is never handed
\* back: no heartbeat, completion or release makes it assignable again.
GoneWorkersStayGone ==
  [][\A w \in Workers : workerStatus[w] \in {"DRAINING", "OFFLINE"} =>
        workerStatus'[w] \in {"DRAINING", "OFFLINE"}]_vars

-----------------------------------------------------------------------------
(* Refinement: the life of a test (module TestLifecycle)                   *)

\* How far the start of t has come: a request on its way to the reservation
\* holds the claim; a test with assignments has been allocated, and its start
\* is spent once no request is left to write RUNNING.
StartAtTest(t, pcs) == \E r \in Starters : start[r].pc \in pcs /\ start[r].test = t

TestClaim(t) ==
  IF AssignedWorkers(t) = {}
  THEN IF StartAtTest(t, {"ensure", "reserve"}) THEN "starting" ELSE "none"
  ELSE IF StartAtTest(t, {"setRunning"}) THEN "allocated" ELSE "spent"

BeingStopped == {t \in Tests : \E s \in Stoppers : stop[s].pc # "free" /\ stop[s].test = t}

CutByStop ==
  {t \in Tests : \E w \in Workers : assignment[t][w] = "COMPLETED" /\ <<t, w>> \notin reported}

Lifecycle == INSTANCE TestLifecycle
  WITH status   <- testStatus,
       claim    <- [t \in Tests |-> TestClaim(t)],
       stopping <- BeingStopped,
       cut      <- CutByStop

\* To its clients a test is what TestLifecycle says, whatever the requests,
\* workers and sweeps do: one start at a time, RUNNING at most once and only
\* by the start that allocated it, no way from a stop's release to COMPLETED.
ImplementsTestLifecycle == Lifecycle!LifecycleSpec

-----------------------------------------------------------------------------
(* Liveness, under FairSpec                                                *)

\* No test is left STARTING (StartTest rolls back or goes on).
StartingIsLeft ==
  \A t \in Tests : testStatus[t] = "STARTING" ~> testStatus[t] # "STARTING"

\* No test is left STOPPING.
StoppingIsLeft ==
  \A t \in Tests : testStatus[t] = "STOPPING" ~> testStatus[t] # "STOPPING"

\* The assignment of a dead worker comes to an end.
LostAssignmentsEnd ==
  \A t \in Tests, w \in Workers :
    LostAssignment(t, w) ~> assignment[t][w] \notin Active

\* A test with a failed assignment does not stay RUNNING, not even when the
\* assignment failed before StartTest wrote RUNNING.
FailureReachesTest ==
  \A t \in Tests :
    (testStatus[t] = "RUNNING" /\ \E w \in Workers : assignment[t][w] = "FAILED")
      ~> testStatus[t] # "RUNNING"

-----------------------------------------------------------------------------
(* What the documents say of the program and its code does not keep        *)

\* A RUNNING test whose assignments are all COMPLETED does not stay RUNNING.
CompletionReachesTest ==
  \A t \in Tests :
    (/\ testStatus[t] = "RUNNING"
     /\ AssignedWorkers(t) # {}
     /\ \A w \in AssignedWorkers(t) : assignment[t][w] = "COMPLETED")
      ~> testStatus[t] # "RUNNING"

=============================================================================
