----------------------------- MODULE FleetProofs -----------------------------
(***************************************************************************)
(* Proofs about Fleet: that no worker is stranded in RESERVED, and that    *)
(* what the processes work on is accounted for in the database.  Both hold *)
(* of the fleet only.  The theorems of ControlPlaneProofs hold of it too.  *)
(***************************************************************************)
EXTENDS Fleet, ControlPlaneProofs

-----------------------------------------------------------------------------
(* The types of the processes                                              *)

ProcessTypeOK ==
  /\ proc \in [Workers -> Processes]
  /\ beat \in [Workers -> LocalStatuses \cup {NoBeat}]

LEMMA ProcessTypeInit == FleetInit => ProcessTypeOK
  BY DEF FleetInit, ProcessTypeOK, Processes

\* What the point a process has reached says of its record.
LEMMA ProcessRecord ==
  ASSUME ProcessTypeOK, NEW w \in Workers
  PROVE  /\ Alive(w) => proc[w].status \in LocalStatuses
         /\ Alive(w) /\ ~At(w, "polling") => proc[w].test \in Tests
  BY DEF ProcessTypeOK, Processes, Absent, Dead, Alive, At

LEMMA ProcessTypeStep == ProcessTypeOK /\ [FleetNext]_allVars => ProcessTypeOK'
  <1> SUFFICES ASSUME ProcessTypeOK, [FleetNext]_allVars PROVE ProcessTypeOK'
    OBVIOUS
  <1> USE DEF ProcessTypeOK
  <1>1. CASE UNCHANGED fleetVars
    BY <1>1 DEF fleetVars
  <1>2. ASSUME NEW w \in Workers, ProcessStep(w) PROVE ProcessTypeOK'
    <2>1. ASSUME Polls(w), UNCHANGED beat PROVE ProcessTypeOK'
      BY <2>1 DEF Polls, Processes, LocalStatuses
    <2>2. ASSUME proc' = [proc EXCEPT ![w] = Dead], UNCHANGED beat PROVE ProcessTypeOK'
      BY <2>2 DEF Processes
    <2>3. ASSUME NEW pc \in {"executing", "cancelled", "completing", "failing", "cutShort"},
                 Alive(w), ~At(w, "polling"), GoesTo(w, pc), UNCHANGED beat
          PROVE  ProcessTypeOK'
      <3>1. proc[w] \in [pc : {"starting", "executing", "cancelled", "completing", "failing",
                               "cutShort"}, test : Tests, status : LocalStatuses]
        BY <2>3 DEF Processes, Absent, Dead, Alive, At
      <3>2. [proc[w] EXCEPT !.pc = pc] \in Processes
        BY <3>1 DEF Processes
      <3>. QED
        BY <2>3, <3>2 DEF GoesTo
    <2>4. CASE Poll(w)
      BY <2>4 DEF Poll, ReservedAssignments, Processes, LocalStatuses
    <2>5. CASE HeartbeatSent(w)
      BY <2>5, ProcessRecord DEF HeartbeatSent
    <2>6. CASE HeartbeatDelivered(w) \/ HeartbeatLost(w)
      BY <2>6 DEF HeartbeatDelivered, HeartbeatLost
    <2>. QED
      BY <1>2, <2>1, <2>2, <2>3, <2>4, <2>5, <2>6
         DEF ProcessStep, ProcessRegisters, RegistrationUnanswered, StartAnswered,
             StartUnanswered, StartFails, SeeStop, ExecutionEnds, ShutdownTakenForEnd,
             CancelledExecutionEnds, CompletionDelivered, CutShortDelivered, FailureDelivered,
             ReportFails, ProcessDies, Alive, At
  <1>. QED
    BY <1>1, <1>2 DEF FleetNext, allVars, fleetVars

-----------------------------------------------------------------------------
(* Refinement of ControlPlane                                              *)

LEMMA FleetStepIsServerStep == ProcessTypeOK /\ [FleetNext]_allVars => [Next]_vars
  <1> SUFFICES ASSUME ProcessTypeOK, [FleetNext]_allVars PROVE [Next]_vars
    OBVIOUS
  <1>1. CASE ServerStep
    BY <1>1 DEF ServerStep, Next, WorkerRequest
  <1>2. ASSUME NEW w \in Workers, ProcessStep(w) PROVE [Next]_vars
    <2>1. CASE UNCHANGED vars
      BY <2>1
    <2>2. CASE WorkerRequest(w)
      BY <2>2 DEF Next
    <2>3. ProcessRegisters(w) \/ RegistrationUnanswered(w) => WorkerRequest(w)
      BY DEF ProcessRegisters, RegistrationUnanswered, WorkerRequest
    <2>4. StartAnswered(w) \/ StartUnanswered(w) => WorkerRequest(w)
      BY ProcessRecord DEF StartAnswered, StartUnanswered, WorkerRequest, Alive, At
    <2>5. CompletionDelivered(w) \/ CutShortDelivered(w) \/ FailureDelivered(w)
            => WorkerRequest(w)
      BY ProcessRecord
         DEF CompletionDelivered, CutShortDelivered, FailureDelivered, WorkerRequest, Alive, At
    <2>6. HeartbeatDelivered(w) => WorkerRequest(w)
      <3>1. Heartbeat(w, beat[w]) => beat[w] \in ReportableStatuses
        BY DEF Heartbeat
      <3>. QED
        BY <3>1 DEF HeartbeatDelivered, WorkerRequest
    <2>7. ASSUME \/ Poll(w) \/ StartFails(w) \/ SeeStop(w) \/ ExecutionEnds(w)
                 \/ ShutdownTakenForEnd(w) \/ CancelledExecutionEnds(w) \/ ReportFails(w)
                 \/ HeartbeatSent(w) \/ HeartbeatLost(w) \/ ProcessDies(w)
          PROVE  UNCHANGED vars
      BY <2>7 DEF Poll, StartFails, SeeStop, ExecutionEnds, ShutdownTakenForEnd,
             CancelledExecutionEnds, ReportFails, HeartbeatSent, HeartbeatLost, ProcessDies
    <2>. QED
      BY <1>2, <2>1, <2>2, <2>3, <2>4, <2>5, <2>6, <2>7 DEF ProcessStep
  <1>3. CASE UNCHANGED allVars
    BY <1>3 DEF allVars, vars
  <1>. QED
    BY <1>1, <1>2, <1>3 DEF FleetNext

\* Whatever the processes do, with calls lost or unanswered, is a behaviour
\* ControlPlane allows.  Fleet is written so (each step is conjoined with one of
\* ControlPlane or leaves its variables alone); the lemma carries the theorems
\* of ControlPlane over.
LEMMA FleetRefinesControlPlane == FleetSpec => Spec
  <1>1. FleetInit => Init
    BY DEF FleetInit
  <1>. QED
    BY <1>1, ProcessTypeInit, ProcessTypeStep, FleetStepIsServerStep, PTL DEF FleetSpec, Spec

\* Every variable of the fleet keeps its type.
THEOREM FleetTypeCorrect == FleetSpec => []FleetTypeOK
  <1>1. TypeOK /\ ProcessTypeOK => FleetTypeOK
    BY DEF FleetTypeOK, ProcessTypeOK
  <1>. QED
    BY <1>1, ProcessTypeInit, ProcessTypeStep, FleetRefinesControlPlane, TypeCorrect, PTL
       DEF FleetSpec

-----------------------------------------------------------------------------
(* Reservations                                                            *)

\* A process past StartAssignment works on an assignment that is no longer
\* RESERVED: this is why its FailAssignment cannot strand the worker.
WorkIsStarted ==
  \A w \in Workers :
    Alive(w) /\ ~At(w, "polling") /\ ~At(w, "starting")
      => assignment[proc[w].test][w] \notin {NoRow, "RESERVED"}

ReservationInv == TypeOK /\ ProcessTypeOK /\ WorkIsStarted /\ NoStrandedReservation

\* Assignments move forward in the fleet as well.
LEMMA FleetMovesForward ==
  ASSUME TypeOK, ProcessTypeOK, [FleetNext]_allVars
  PROVE  \A t \in Tests, w \in Workers : AssignmentMovesForward(t, w)
  <1>1. [Next]_vars
    BY FleetStepIsServerStep
  <1>2. CASE UNCHANGED vars
    BY <1>2 DEF vars, AssignmentMovesForward
  <1>. QED
    BY <1>1, <1>2, OutcomesStep

LEMMA WorkIsStartedStep ==
  ASSUME ReservationInv, [FleetNext]_allVars
  PROVE  WorkIsStarted'
  <1> USE DEF ReservationInv
  <1>0. \A t \in Tests, w \in Workers :
          assignment[t][w] \notin {NoRow, "RESERVED"} => assignment'[t][w] \notin {NoRow, "RESERVED"}
    BY FleetMovesForward DEF AssignmentMovesForward, NoRow
  <1>1. ASSUME NEW v \in Workers,
               Alive(v)', ~At(v, "polling")', ~At(v, "starting")',
               \/ proc'[v] = proc[v]
               \/ /\ Alive(v) /\ ~At(v, "polling") /\ ~At(v, "starting")
                  /\ proc'[v].test = proc[v].test
        PROVE  assignment'[proc'[v].test][v] \notin {NoRow, "RESERVED"}
    <2>1. Alive(v) /\ ~At(v, "polling") /\ ~At(v, "starting") /\ proc'[v].test = proc[v].test
      BY <1>1 DEF Alive, At
    <2>. QED
      BY <1>0, <2>1, ProcessRecord DEF WorkIsStarted
  <1>2. ASSUME UNCHANGED proc PROVE WorkIsStarted'
    BY <1>1, <1>2 DEF WorkIsStarted
  <1>3. ASSUME NEW w \in Workers, ProcessStep(w) PROVE WorkIsStarted'
    <2>0. proc \in [Workers -> Processes]
      BY DEF ProcessTypeOK
    <2>1. ASSUME Polls(w) \/ Poll(w) \/ proc' = [proc EXCEPT ![w] = Dead]
          PROVE  WorkIsStarted'
      <3>1. At(w, "polling")' \/ At(w, "starting")' \/ ~Alive(w)'
        BY <2>0, <2>1 DEF Polls, Poll, Dead, At, Alive
      <3>2. \A v \in Workers \ {w} : proc'[v] = proc[v]
        BY <2>0, <2>1 DEF Polls, Poll
      <3>. QED
        BY <1>1, <3>1, <3>2 DEF WorkIsStarted
    <2>2. ASSUME NEW pc \in {"cancelled", "completing", "failing", "cutShort"},
                 At(w, "executing") \/ At(w, "cancelled"), GoesTo(w, pc)
          PROVE  WorkIsStarted'
      <3>1. proc[w] \in [pc : {"executing", "cancelled"}, test : Tests, status : LocalStatuses]
        BY <2>0, <2>2 DEF Processes, Absent, Dead, At
      <3>2. proc'[w].test = proc[w].test
        BY <2>0, <2>2, <3>1 DEF GoesTo
      <3>3. \A v \in Workers \ {w} : proc'[v] = proc[v]
        BY <2>0, <2>2 DEF GoesTo
      <3>. QED
        BY <1>1, <3>1, <3>2, <3>3 DEF WorkIsStarted, Alive, At
    <2>3. CASE StartAnswered(w)
      <3>1. proc[w] \in [pc : {"starting"}, test : Tests, status : LocalStatuses]
        BY <2>0, <2>3 DEF StartAnswered, Processes, Absent, Dead, At
      <3>2. proc'[w].test = proc[w].test
        BY <2>0, <2>3, <3>1 DEF StartAnswered, GoesTo
      <3>3. assignment'[proc[w].test][w] = "RUNNING"
        BY <2>3, <3>1
           DEF StartAnswered, StartAssignment, MarkAssignmentRunning, TypeOK, DBTypeOK
      <3>4. \A v \in Workers \ {w} : proc'[v] = proc[v]
        BY <2>0, <2>3 DEF StartAnswered, GoesTo
      <3>. QED
        BY <1>1, <3>2, <3>3, <3>4 DEF WorkIsStarted, NoRow
    <2>. QED
      BY <1>2, <1>3, <2>1, <2>2, <2>3
         DEF ProcessStep, ProcessRegisters, RegistrationUnanswered, StartUnanswered, StartFails,
             SeeStop, ExecutionEnds, ShutdownTakenForEnd, CancelledExecutionEnds,
             CompletionDelivered, CutShortDelivered, FailureDelivered, ReportFails,
             HeartbeatSent, HeartbeatDelivered, HeartbeatLost, ProcessDies
  <1>. QED
    BY <1>2, <1>3 DEF FleetNext, allVars, fleetVars

\* A step that makes no worker RESERVED and ends no RESERVED assignment of a
\* worker it leaves RESERVED keeps the invariant.
LEMMA ReservationQuiet ==
  ASSUME NoStrandedReservation,
         \A w \in Workers : workerStatus'[w] = "RESERVED" =>
           /\ workerStatus[w] = "RESERVED"
           /\ \A t \in Tests : assignment[t][w] = "RESERVED" => assignment'[t][w] = "RESERVED"
  PROVE  NoStrandedReservation'
  BY DEF NoStrandedReservation, ReservedAssignments

LEMMA ReservationServerStep ==
  ASSUME ReservationInv, ServerStep
  PROVE  NoStrandedReservation'
  <1> USE DEF ReservationInv, TypeOK, DBTypeOK
  <1>1. ASSUME UNCHANGED <<workerStatus, assignment>> PROVE NoStrandedReservation'
    BY <1>1, ReservationQuiet
  <1>2. ASSUME NEW r \in Starters, StartStep(r) PROVE NoStrandedReservation'
    <2>1. CASE StartReserve(r)
      <3>1. start[r].test \in Tests
        BY <2>1 DEF StartReserve, StartAt, StartRequests, NoRequest
      <3>2. PICK S \in SUBSET IdleWorkers :
              /\ workerStatus' = [w \in Workers |->
                                    IF w \in S THEN "RESERVED" ELSE workerStatus[w]]
              /\ assignment' = [assignment EXCEPT
                   ![start[r].test] = [w \in Workers |-> IF w \in S THEN "RESERVED" ELSE @[w]]]
        BY <2>1 DEF StartReserve, ReserveWorkersForTest
      <3>3. ASSUME NEW w \in Workers, w \in S PROVE ReservedAssignments(w)' # {}
        BY <3>1, <3>2, <3>3 DEF ReservedAssignments
      <3>4. ASSUME NEW w \in Workers, w \notin S, workerStatus'[w] = "RESERVED"
            PROVE  ReservedAssignments(w)' # {}
        <4>1. workerStatus[w] = "RESERVED" /\ \A t \in Tests : assignment'[t][w] = assignment[t][w]
          BY <3>1, <3>2, <3>4
        <4>. QED
          BY <4>1 DEF NoStrandedReservation, ReservedAssignments
      <3>. QED
        BY <3>3, <3>4 DEF NoStrandedReservation
    <2>2. CASE ~StartReserve(r)
      BY <1>1, <1>2, <2>2
         DEF StartStep, StartClaim, StartEnsure, StartRollback, StartSetRunning, StartDies,
             TryTransitionStatus, UpdateStatus, dbVars
    <2>. QED
      BY <2>1, <2>2
  <1>3. ASSUME NEW s \in Stoppers, StopStep(s) PROVE NoStrandedReservation'
    <2>1. CASE StopRelease(s)
      BY <2>1, ReservationQuiet
         DEF StopRelease, ReleaseWorkersForTest, AssignedWorkers, NoRow, Active
    <2>2. CASE ~StopRelease(s)
      BY <1>1, <1>3, <2>2
         DEF StopStep, StopRead, StopFlip, StopFinish, StopDies,
             TryTransitionStatus, UpdateStatus, dbVars
    <2>. QED
      BY <2>1, <2>2
  <1>4. ASSUME NEW w \in Workers, HeartbeatsMissed(w) PROVE NoStrandedReservation'
    BY <1>1, <1>4 DEF HeartbeatsMissed, HeartbeatExpires
  <1>5. ASSUME NEW ids \in SUBSET Workers, DrainIdle(ids) PROVE NoStrandedReservation'
    BY <1>5, ReservationQuiet DEF DrainIdle, TerminateIdleWorkers
  <1>6. CASE ReconcileOffline
    BY <1>6, ReservationQuiet DEF ReconcileOffline, MarkOfflineWorkers
  <1>7. CASE ReconcileAssignments
    BY <1>7, ReservationQuiet
       DEF ReconcileAssignments, SweepOverlooking,
           MarkAssignmentsFailedForOfflineWorkers, SweepFailsAssignments, LostAssignment
  <1>8. CASE ReconcileSkipped
    BY <1>1, <1>8 DEF ReconcileSkipped, dbVars
  <1>9. ASSUME NEW t \in Tests, Create(t) PROVE NoStrandedReservation'
    BY <1>1, <1>9 DEF Create, InsertTest
  <1>. QED
    BY <1>2, <1>3, <1>4, <1>5, <1>6, <1>7, <1>8, <1>9 DEF ServerStep, ReconcilerStep

LEMMA ReservationProcessStep ==
  ASSUME ReservationInv, NEW w \in Workers, ProcessStep(w)
  PROVE  NoStrandedReservation'
  <1> USE DEF ReservationInv, TypeOK, DBTypeOK
  <1>1. ASSUME UNCHANGED <<workerStatus, assignment>> PROVE NoStrandedReservation'
    BY <1>1, ReservationQuiet
  <1>2. ASSUME Register(w) PROVE NoStrandedReservation'
    BY <1>2, ReservationQuiet DEF Register, CreateWorker
  <1>3. ASSUME NEW t \in Tests, StartAssignment(t, w) PROVE NoStrandedReservation'
    BY <1>3, ReservationQuiet DEF StartAssignment, MarkAssignmentRunning
  <1>4. ASSUME NEW t \in Tests, CompleteAssignment(t, w) PROVE NoStrandedReservation'
    BY <1>4, ReservationQuiet DEF CompleteAssignment, MarkAssignmentCompleted
  <1>5. CASE FailureDelivered(w)
    <2>1. proc[w].test \in Tests /\ assignment[proc[w].test][w] # "RESERVED"
      BY <1>5, ProcessRecord DEF FailureDelivered, WorkIsStarted, Alive, At
    <2>. QED
      BY <1>5, <2>1, ReservationQuiet DEF FailureDelivered, FailAssignment, MarkAssignmentFailed
  <1>6. CASE HeartbeatDelivered(w)
    <2>1. beat[w] \in LocalStatuses
      BY <1>6 DEF HeartbeatDelivered, ProcessTypeOK, NoBeat
    <2>. QED
      BY <1>6, <2>1, ReservationQuiet
         DEF HeartbeatDelivered, Heartbeat, UpdateHeartbeat, LocalStatuses, ServerOwned
  <1>7. StartAnswered(w) \/ StartUnanswered(w)
          => proc[w].test \in Tests /\ StartAssignment(proc[w].test, w)
    BY ProcessRecord DEF StartAnswered, StartUnanswered, Alive, At
  <1>8. CompletionDelivered(w) \/ CutShortDelivered(w)
          => proc[w].test \in Tests /\ CompleteAssignment(proc[w].test, w)
    BY ProcessRecord DEF CompletionDelivered, CutShortDelivered, Alive, At
  <1>9. ASSUME UNCHANGED vars PROVE NoStrandedReservation'
    BY <1>1, <1>9 DEF vars
  <1>10. CASE ProcessRegisters(w) \/ RegistrationUnanswered(w)
    BY <1>2, <1>10 DEF ProcessRegisters, RegistrationUnanswered
  <1>11. CASE \/ Poll(w) \/ StartFails(w) \/ SeeStop(w) \/ ExecutionEnds(w)
              \/ ShutdownTakenForEnd(w) \/ CancelledExecutionEnds(w) \/ ReportFails(w)
              \/ HeartbeatSent(w) \/ HeartbeatLost(w) \/ ProcessDies(w)
    BY <1>9, <1>11
       DEF Poll, StartFails, SeeStop, ExecutionEnds, ShutdownTakenForEnd,
           CancelledExecutionEnds, ReportFails, HeartbeatSent, HeartbeatLost, ProcessDies
  <1>. QED
    BY <1>3, <1>4, <1>5, <1>6, <1>7, <1>8, <1>10, <1>11 DEF ProcessStep

LEMMA ReservationStep == ReservationInv /\ [FleetNext]_allVars => ReservationInv'
  <1> SUFFICES ASSUME ReservationInv, [FleetNext]_allVars PROVE ReservationInv'
    OBVIOUS
  <1>1. TypeOK' /\ ProcessTypeOK'
    BY FleetStepIsServerStep, TypeStep, ProcessTypeStep DEF ReservationInv
  <1>2. WorkIsStarted'
    BY WorkIsStartedStep
  <1>3. ASSUME UNCHANGED allVars PROVE NoStrandedReservation'
    BY <1>3, ReservationQuiet DEF allVars, ReservationInv
  <1>4. NoStrandedReservation'
    BY <1>3, ReservationServerStep, ReservationProcessStep DEF FleetNext
  <1>. QED
    BY <1>1, <1>2, <1>4 DEF ReservationInv

\* No worker is stranded in RESERVED: whatever starts, stops, reports, lost
\* calls and crashes do, a RESERVED worker has a RESERVED assignment that its
\* poll will find.
THEOREM NoneStranded == FleetSpec => []NoStrandedReservation
  <1>1. FleetInit => ReservationInv
    <2> SUFFICES ASSUME FleetInit PROVE ReservationInv
      OBVIOUS
    <2>1. TypeOK /\ ProcessTypeOK
      BY TypeInit, ProcessTypeInit DEF FleetInit
    <2>2. WorkIsStarted
      BY DEF FleetInit, Absent, WorkIsStarted, Alive
    <2>3. NoStrandedReservation
      BY DEF FleetInit, Init, DBInit, NoRow, NoStrandedReservation
    <2>. QED
      BY <2>1, <2>2, <2>3 DEF ReservationInv
  <1>2. ReservationInv => NoStrandedReservation
    BY DEF ReservationInv
  <1>. QED
    BY <1>1, <1>2, ReservationStep, PTL DEF FleetSpec

-----------------------------------------------------------------------------
(* What the processes work on                                              *)

ReportedIsCompleted ==
  \A t \in Tests, w \in Workers : <<t, w>> \in reported => assignment[t][w] = "COMPLETED"

\* The first two parts of WorkIsAccounted, for assignment (t, w).
Unfinished(t, w) ==
  /\ \/ assignment[t][w] \in {"RUNNING", "COMPLETED"}
     \/ assignment[t][w] = "FAILED" /\ workerStatus[w] = "OFFLINE"
  /\ <<t, w>> \notin reported

WorkUnfinished == \A w \in Workers : AtWork(w) => Unfinished(proc[w].test, w)

WorkInv == TypeOK /\ ProcessTypeOK /\ ReportedIsCompleted /\ WorkUnfinished

\* A process whose report is carried out is no longer at work.
LEMMA ReportEndsWork ==
  ASSUME ProcessTypeOK, NEW w \in Workers,
         CompletionDelivered(w) \/ CutShortDelivered(w) \/ FailureDelivered(w)
  PROVE  ~AtWork(w)'
  BY DEF ProcessTypeOK, CompletionDelivered, CutShortDelivered, FailureDelivered, Polls, Dead,
         AtWork, At

\* The report that adds (t, w) to those accepted is one of the process w.
LEMMA ReportedByProcess ==
  ASSUME TypeOK, ProcessTypeOK, [FleetNext]_allVars, NEW t \in Tests, NEW w \in Workers,
         <<t, w>> \in reported', <<t, w>> \notin reported
  PROVE  /\ assignment'[t][w] = "COMPLETED"
         /\ CompletionDelivered(w) \/ CutShortDelivered(w)
  <1>1. CASE ServerStep
    BY <1>1
       DEF ServerStep, Create, InsertTest, StartStep, StartClaim, StartEnsure, StartReserve,
           StartRollback, StartSetRunning, StartDies, StopStep, StopRead, StopFlip, StopRelease,
           StopFinish, StopDies, HeartbeatsMissed, DrainIdle, ReconcilerStep, ReconcileOffline,
           ReconcileAssignments, SweepOverlooking, ReconcileSkipped
  <1>2. ASSUME NEW v \in Workers, CompletionDelivered(v) \/ CutShortDelivered(v)
        PROVE  assignment'[t][w] = "COMPLETED" /\ v = w
    <2>1. PICK u \in Tests : CompleteAssignment(u, v)
      BY <1>2, ProcessRecord DEF CompletionDelivered, CutShortDelivered, Alive, At
    <2>2. u = t /\ v = w
      BY <2>1 DEF CompleteAssignment
    <2>. QED
      BY <2>1, <2>2 DEF CompleteAssignment, MarkAssignmentCompleted, TypeOK, DBTypeOK
  <1>3. ASSUME NEW v \in Workers, ProcessStep(v), ~CompletionDelivered(v), ~CutShortDelivered(v)
        PROVE  reported' = reported
    BY <1>3
       DEF ProcessStep, ProcessRegisters, RegistrationUnanswered, Poll, StartAnswered,
           StartUnanswered, StartFails, SeeStop, ExecutionEnds, ShutdownTakenForEnd,
           CancelledExecutionEnds, FailureDelivered, ReportFails, HeartbeatSent,
           HeartbeatDelivered, HeartbeatLost, ProcessDies, vars, Register, StartAssignment,
           FailAssignment, Heartbeat
  <1>4. CASE UNCHANGED allVars
    BY <1>4 DEF allVars
  <1>. QED
    BY <1>1, <1>2, <1>3, <1>4 DEF FleetNext

\* An assignment fails by the report of its own process, or its worker is
\* OFFLINE.
LEMMA FailedBySweepOrProcess ==
  ASSUME TypeOK, ProcessTypeOK, [FleetNext]_allVars, NEW t \in Tests, NEW w \in Workers,
         assignment'[t][w] = "FAILED", assignment[t][w] # "FAILED"
  PROVE  FailureDelivered(w) \/ workerStatus'[w] = "OFFLINE"
  <1> USE DEF TypeOK, DBTypeOK
  <1>1. CASE ServerStep
    <2>1. CASE ReconcileAssignments
      BY <2>1 DEF ReconcileAssignments, SweepOverlooking,
                  MarkAssignmentsFailedForOfflineWorkers, SweepFailsAssignments, LostAssignment
    <2>2. ASSUME NEW r \in Starters, StartReserve(r) PROVE FALSE
      BY <2>2 DEF StartReserve, ReserveWorkersForTest
    <2>3. ASSUME NEW s \in Stoppers, StopRelease(s) PROVE FALSE
      BY <2>3 DEF StopRelease, ReleaseWorkersForTest
    <2>. QED
      BY <1>1, <2>1, <2>2, <2>3
         DEF ServerStep, Create, InsertTest, StartStep, StartClaim, StartEnsure, StartRollback,
             StartSetRunning, StartDies, StopStep, StopRead, StopFlip, StopFinish, StopDies,
             TryTransitionStatus, UpdateStatus, HeartbeatsMissed, HeartbeatExpires, DrainIdle,
             TerminateIdleWorkers, ReconcilerStep, ReconcileOffline, MarkOfflineWorkers,
             ReconcileSkipped, dbVars
  <1>2. ASSUME NEW v \in Workers, ProcessStep(v) PROVE FailureDelivered(w)
    <2>1. CASE FailureDelivered(v)
      BY <2>1 DEF FailureDelivered, FailAssignment, MarkAssignmentFailed
    <2>2. ASSUME NEW u, StartAssignment(u, v) \/ CompleteAssignment(u, v) PROVE FALSE
      BY <2>2 DEF StartAssignment, MarkAssignmentRunning, CompleteAssignment,
                  MarkAssignmentCompleted
    <2>3. ASSUME UNCHANGED assignment PROVE FALSE
      BY <2>3
    <2>. QED
      BY <1>2, <2>1, <2>2, <2>3
         DEF ProcessStep, ProcessRegisters, RegistrationUnanswered, Poll, StartAnswered,
             StartUnanswered, StartFails, SeeStop, ExecutionEnds, ShutdownTakenForEnd,
             CancelledExecutionEnds, CompletionDelivered, CutShortDelivered, ReportFails,
             HeartbeatSent, HeartbeatDelivered, HeartbeatLost, ProcessDies, vars, Register,
             CreateWorker, Heartbeat, UpdateHeartbeat
  <1>3. CASE UNCHANGED allVars
    BY <1>3 DEF allVars
  <1>. QED
    BY <1>1, <1>2, <1>3 DEF FleetNext

\* A process that is at work after a step was at work on the same test before,
\* or has just been told that its assignment was started.
LEMMA WorkBeginsByStart ==
  ASSUME ProcessTypeOK, [FleetNext]_allVars, NEW w \in Workers, AtWork(w)', ~StartAnswered(w)
  PROVE  AtWork(w) /\ proc'[w].test = proc[w].test
  <1>0. proc \in [Workers -> Processes]
    BY DEF ProcessTypeOK
  <1>1. ASSUME proc'[w] = proc[w] PROVE AtWork(w) /\ proc'[w].test = proc[w].test
    BY <1>1 DEF AtWork, At
  <1>2. CASE ProcessStep(w)
    <2>1. ~Polls(w) /\ ~Poll(w) /\ proc' # [proc EXCEPT ![w] = Dead]
      BY <1>0 DEF Polls, Poll, Dead, AtWork, At
    <2>2. ASSUME NEW pc, At(w, "executing") \/ At(w, "cancelled"), GoesTo(w, pc)
          PROVE  AtWork(w) /\ proc'[w].test = proc[w].test
      <3>1. proc[w] \in [pc : {"executing", "cancelled"}, test : Tests, status : LocalStatuses]
        BY <1>0, <2>2 DEF Processes, Absent, Dead, At
      <3>. QED
        BY <1>0, <2>2, <3>1 DEF GoesTo, AtWork, At
    <2>. QED
      BY <1>1, <1>2, <2>1, <2>2
         DEF ProcessStep, ProcessRegisters, RegistrationUnanswered, StartUnanswered, StartFails,
             SeeStop, ExecutionEnds, ShutdownTakenForEnd, CancelledExecutionEnds,
             CompletionDelivered, CutShortDelivered, FailureDelivered, ReportFails,
             HeartbeatSent, HeartbeatDelivered, HeartbeatLost, ProcessDies
  <1>3. ASSUME NEW v \in Workers \ {w}, ProcessStep(v) PROVE proc'[w] = proc[w]
    BY <1>0, <1>3
       DEF ProcessStep, ProcessRegisters, RegistrationUnanswered, Poll, StartAnswered,
           StartUnanswered, StartFails, SeeStop, ExecutionEnds, ShutdownTakenForEnd,
           CancelledExecutionEnds, CompletionDelivered, CutShortDelivered, FailureDelivered,
           ReportFails, HeartbeatSent, HeartbeatDelivered, HeartbeatLost, ProcessDies, Polls,
           GoesTo
  <1>. QED
    BY <1>1, <1>2, <1>3 DEF FleetNext, allVars, fleetVars

LEMMA WorkStep == WorkInv /\ [FleetNext]_allVars => WorkInv'
  <1> SUFFICES ASSUME WorkInv, [FleetNext]_allVars PROVE WorkInv'
    OBVIOUS
  <1> USE DEF WorkInv
  <1>1. TypeOK' /\ ProcessTypeOK'
    BY FleetStepIsServerStep, TypeStep, ProcessTypeStep
  <1>2. \A t \in Tests, w \in Workers : AssignmentMovesForward(t, w)
    BY FleetMovesForward
  <1>3. ReportedIsCompleted'
    BY <1>2, ReportedByProcess DEF ReportedIsCompleted, AssignmentMovesForward, NoRow
  <1>4. ASSUME NEW w \in Workers, AtWork(w)' PROVE Unfinished(proc[w].test, w)'
    <2>1. CASE StartAnswered(w)
      <3>1. proc[w] \in [pc : {"starting"}, test : Tests, status : LocalStatuses]
        BY <2>1 DEF StartAnswered, ProcessTypeOK, Processes, Absent, Dead, At
      <3>2. proc'[w].test = proc[w].test
        BY <2>1, <3>1 DEF StartAnswered, GoesTo, ProcessTypeOK
      <3>3. /\ assignment[proc[w].test][w] = "RESERVED"
            /\ assignment'[proc[w].test][w] = "RUNNING"
            /\ reported' = reported
        BY <2>1, <3>1
           DEF StartAnswered, StartAssignment, MarkAssignmentRunning, TypeOK, DBTypeOK
      <3>. QED
        BY <3>1, <3>2, <3>3 DEF Unfinished, ReportedIsCompleted
    <2>2. CASE ~StartAnswered(w)
      <3> DEFINE t == proc[w].test
      <3>1. AtWork(w) /\ proc'[w].test = t /\ Unfinished(t, w)
        BY <1>4, <2>2, WorkBeginsByStart DEF WorkUnfinished
      <3>2. t \in Tests
        BY <3>1, ProcessRecord DEF AtWork, Alive, At
      <3> HIDE DEF t
      <3>3. ~CompletionDelivered(w) /\ ~CutShortDelivered(w) /\ ~FailureDelivered(w)
        BY <1>4, ReportEndsWork
      <3>4. <<t, w>> \notin reported'
        BY <3>1, <3>2, <3>3, ReportedByProcess DEF Unfinished
      <3>5. workerStatus[w] = "OFFLINE" => workerStatus'[w] = "OFFLINE"
        BY FleetStepIsServerStep, GoneStep DEF GoneStays, vars
      <3>6. \/ assignment'[t][w] \in {"RUNNING", "COMPLETED"}
            \/ assignment'[t][w] = "FAILED" /\ workerStatus'[w] = "OFFLINE"
        <4>1. assignment'[t][w] \in {"RUNNING", "COMPLETED", "FAILED"}
          BY <1>2, <3>1, <3>2 DEF Unfinished, AssignmentMovesForward, NoRow
        <4>2. assignment'[t][w] = "FAILED" => workerStatus'[w] = "OFFLINE"
          BY <3>1, <3>2, <3>3, <3>5, FailedBySweepOrProcess DEF Unfinished
        <4>. QED
          BY <4>1, <4>2
      <3>. QED
        BY <3>1, <3>4, <3>6 DEF Unfinished
    <2>. QED
      BY <2>1, <2>2
  <1>. QED
    BY <1>1, <1>3, <1>4 DEF WorkUnfinished

\* Processes work only on what the database knows to run, or a stop or the
\* sweep has ended since; and never on a test that counts as COMPLETED.
THEOREM WorkAccounted == FleetSpec => []WorkIsAccounted
  <1>1. FleetInit => WorkInv
    <2> SUFFICES ASSUME FleetInit PROVE WorkInv
      OBVIOUS
    <2>1. TypeOK /\ ProcessTypeOK
      BY TypeInit, ProcessTypeInit DEF FleetInit
    <2>2. ReportedIsCompleted /\ WorkUnfinished
      BY DEF FleetInit, Init, Absent, ReportedIsCompleted, WorkUnfinished, AtWork, At
    <2>. QED
      BY <2>1, <2>2 DEF WorkInv
  <1>2. WorkInv /\ CompletedByWorkers => WorkIsAccounted
    <2> SUFFICES ASSUME WorkInv, CompletedByWorkers, NEW w \in Workers, AtWork(w)
                 PROVE  Unfinished(proc[w].test, w) /\ testStatus[proc[w].test] # "COMPLETED"
      BY DEF WorkIsAccounted, Unfinished
    <2>1. Unfinished(proc[w].test, w)
      BY DEF WorkInv, WorkUnfinished
    <2>2. proc[w].test \in Tests
      BY ProcessRecord DEF WorkInv, AtWork, Alive, At
    <2>3. w \in AssignedWorkers(proc[w].test) /\ <<proc[w].test, w>> \notin reported
      BY <2>1 DEF Unfinished, AssignedWorkers, NoRow
    <2>. QED
      BY <2>1, <2>2, <2>3 DEF CompletedByWorkers
  <1>. QED
    BY <1>1, <1>2, WorkStep, FleetRefinesControlPlane, CompletionIsEarned, PTL DEF FleetSpec

=============================================================================
