--------------------------- MODULE AutoscalerProofs ---------------------------
(***************************************************************************)
(* Proofs about module Autoscaler, for every set of tests, workers, hosts  *)
(* and request slots: the control plane beside the autoscaler is still     *)
(* the control plane, and scale-down tears down what it drains.            *)
(***************************************************************************)
EXTENDS Autoscaler, ControlPlaneProofs, SumProofs

-----------------------------------------------------------------------------
(* The cycle and the hostnames                                             *)

FleetTypes ==
  /\ hostname \in [Workers -> Hosts \cup {Unmanaged, NoRow}]
  /\ process \in [Hosts -> ProcessStates]

Rows == {w \in Workers : workerStatus[w] # NoRow}

ManagedRows == {w \in Rows : hostname[w] \in Hosts}

\* What Reconcile holds between its steps: candidates for the drain are rows
\* of processes the server started.
CycleShape ==
  /\ cycle.pc = "provision" =>
       cycle = [pc |-> "provision", by |-> cycle.by, count |-> cycle.count]
  /\ cycle.pc = "drain" => cycle.ids \subseteq ManagedRows
  /\ cycle.pc = "terminate" =>
       /\ cycle = [pc |-> "terminate", by |-> cycle.by, hosts |-> cycle.hosts]
       /\ cycle.hosts \subseteq Hosts

\* A row names a process that was started.
HostsStarted ==
  \A w \in ManagedRows : process[hostname[w]] # "unused"

FleetInv ==
  TypeOK /\ FleetTypes /\ CycleShape /\ HostsStarted /\ DrainedIsTornDown /\ KilledWasDrained

LEMMA FleetInvInit == AutoscalerInit => FleetInv
  BY TypeInit
     DEF AutoscalerInit, Init, DBInit, FleetInv, FleetTypes, ProcessStates, CycleShape, NoCycle,
         HostsStarted, ManagedRows, Rows, DrainedIsTornDown, KilledWasDrained, HostsLeft, NoRow

-----------------------------------------------------------------------------
(* The control plane's part of a step                                      *)

\* What a step of the whole does to the control plane's own state.
LEMMA ControlPlanePart ==
  ASSUME TypeOK, CycleShape, AutoscalerNext
  PROVE  [Next]_vars
  <1>1. CASE \/ CycleBegins({}) \/ \E r \in Starters : CycleBegins({r})
             \/ CycleScalesUp \/ CycleScalesDown \/ CycleIdles \/ CycleFails
             \/ \E h \in Hosts : CycleProvisions(h) \/ CycleKills(h) \/ CycleSkips(h)
             \/ \E h \in Hosts : ProcessForgotten(h) \/ ProcessExits(h)
             \/ ServerRestart
    BY <1>1 DEF CycleBegins, CycleScalesUp, CycleScalesDown, CycleIdles, CycleFails, CycleProvisions,
                CycleKills, CycleSkips, ProcessForgotten, ProcessExits, ServerRestart
  <1>2. CASE CycleDrains
    <2>1. /\ cycle.ids \subseteq Workers /\ TerminateIdleWorkers(cycle.ids)
          /\ UNCHANGED <<requestVars, reported>>
      BY <1>2 DEF CycleDrains, DrainAndTerminate, CycleShape, ManagedRows, Rows
    <2>2. CASE cycle.ids \cap IdleWorkers # {}
      BY <2>1, <2>2 DEF DrainIdle, Next
    \* Every candidate was reserved meanwhile: nothing is written.
    <2>3. CASE cycle.ids \cap IdleWorkers = {}
      <3>1. workerStatus' = workerStatus
        BY <2>1, <2>3 DEF TerminateIdleWorkers, IdleWorkers, TypeOK, DBTypeOK
      <3>. QED
        BY <2>1, <3>1 DEF TerminateIdleWorkers, requestVars, vars
    <2>. QED
      BY <2>2, <2>3
  <1>3. ASSUME NEW w \in Workers,
               (\E h \in Hosts : ManagedRegisters(h, w)) \/ UnmanagedRegisters(w) \/ WorkerCalls(w)
        PROVE  Next
    <2>1. WorkerRequest(w)
      BY <1>3 DEF ManagedRegisters, UnmanagedRegisters, WorkerCalls, WorkerRequest, ReportableStatuses
    <2>. QED
      BY <2>1 DEF Next
  <1>4. ASSUME NEW r \in Starters, AskingStart(r) PROVE [Next]_vars
    <2>1. CASE EnsureAsks(r)
      BY <2>1 DEF EnsureAsks
    <2>2. CASE ~EnsureAsks(r)
      <3>1. StartStep(r)
        BY <1>4, <2>2 DEF AskingStart, EnsureSees, StartStep
      <3>. QED
        BY <3>1 DEF Next
    <2>. QED
      BY <2>1, <2>2
  <1>. QED
    BY <1>1, <1>2, <1>3, <1>4 DEF AutoscalerNext, CycleStep, Next

\* A worker's row, once there, stays.
LEMMA RowsStay ==
  ASSUME TypeOK, [Next]_vars, NEW w \in Workers, workerStatus[w] # NoRow
  PROVE  workerStatus'[w] # NoRow
  <1> USE DEF TypeOK, DBTypeOK, NoRow, dbVars
  <1> DEFINE Goal == workerStatus'[w] # NoRow
  <1>1. ASSUME NEW t \in Tests, Create(t) PROVE Goal
    BY <1>1 DEF Create, InsertTest
  <1>2. ASSUME NEW r \in Starters, StartStep(r) PROVE Goal
    <2>1. CASE StartReserve(r)
      BY <2>1 DEF StartReserve, ReserveWorkersForTest
    <2>2. CASE ~StartReserve(r)
      BY <1>2, <2>2 DEF StartStep, StartClaim, StartEnsure, StartRollback, StartSetRunning, StartDies,
                        TryTransitionStatus, UpdateStatus
    <2>. QED
      BY <2>1, <2>2
  <1>3. ASSUME NEW s \in Stoppers, StopStep(s) PROVE Goal
    BY <1>3 DEF StopStep, StopRead, StopFlip, StopRelease, StopFinish, StopDies,
                TryTransitionStatus, ReleaseWorkersForTest, UpdateStatus
  <1>4. ASSUME NEW v \in Workers, WorkerRequest(v) PROVE Goal
    <2>1. ASSUME Register(v) \/ HeartbeatsMissed(v) PROVE Goal
      BY <2>1 DEF Register, CreateWorker, HeartbeatsMissed, HeartbeatExpires
    <2>2. ASSUME NEW status \in ReportableStatuses, Heartbeat(v, status) PROVE Goal
      BY <2>2 DEF Heartbeat, UpdateHeartbeat, ReportableStatuses
    <2>3. ASSUME NEW t \in Tests,
                 StartAssignment(t, v) \/ CompleteAssignment(t, v) \/ FailAssignment(t, v)
          PROVE  Goal
      BY <2>3 DEF StartAssignment, MarkAssignmentRunning, CompleteAssignment, MarkAssignmentCompleted,
                  FailAssignment, MarkAssignmentFailed
    <2>. QED
      BY <1>4, <2>1, <2>2, <2>3 DEF WorkerRequest
  <1>5. ASSUME NEW ids \in SUBSET Workers, DrainIdle(ids) PROVE Goal
    BY <1>5 DEF DrainIdle, TerminateIdleWorkers
  <1>6. CASE ReconcilerStep
    BY <1>6 DEF ReconcilerStep, ReconcileOffline, ReconcileAssignments, ReconcileSkipped,
                MarkOfflineWorkers, SweepOverlooking,
                MarkAssignmentsFailedForOfflineWorkers, SweepFailsAssignments
  <1>7. CASE UNCHANGED vars
    BY <1>7 DEF vars
  <1>. QED
    BY <1>1, <1>2, <1>3, <1>4, <1>5, <1>6, <1>7 DEF Next

-----------------------------------------------------------------------------
(* The fleet's part of a step                                              *)

\* A step of the control plane that drains nothing and registers nobody.
LEMMA FleetQuiet ==
  ASSUME FleetInv, TypeOK', [Next]_vars, UNCHANGED <<hostname, process, cycle, abandoned>>,
         \A w \in Workers : workerStatus'[w] = "DRAINING" => workerStatus[w] = "DRAINING",
         Rows' = Rows
  PROVE  FleetInv'
  <1> USE DEF FleetInv
  <1>1. FleetTypes' /\ CycleShape' /\ HostsStarted'
    BY DEF FleetTypes, CycleShape, HostsStarted, ManagedRows
  <1>2. HostsLeft' = HostsLeft
    BY DEF HostsLeft
  <1>3. DrainedIsTornDown'
    BY <1>2 DEF DrainedIsTornDown
  <1>4. KilledWasDrained'
    <2>1. \A w \in Workers : GoneStays(w)
      BY GoneStep DEF vars, GoneStays
    <2>. QED
      BY <1>2, <2>1 DEF KilledWasDrained, GoneStays
  <1>. QED
    BY <1>1, <1>3, <1>4

\* Only scale-down writes DRAINING, and only a registration makes a row.
LEMMA NothingDrained ==
  ASSUME TypeOK,
         \/ \E t \in Tests : Create(t)
         \/ \E r \in Starters : StartStep(r)
         \/ \E s \in Stoppers : StopStep(s)
         \/ \E w \in Workers :
              \/ HeartbeatsMissed(w) \/ \E status \in {"IDLE", "RUNNING"} : Heartbeat(w, status)
              \/ \E t \in Tests : StartAssignment(t, w) \/ CompleteAssignment(t, w) \/ FailAssignment(t, w)
         \/ ReconcilerStep
         \/ UNCHANGED vars
  PROVE  /\ \A w \in Workers : workerStatus'[w] = "DRAINING" => workerStatus[w] = "DRAINING"
         /\ Rows' = Rows
  <1> USE DEF TypeOK, DBTypeOK, NoRow, dbVars
  <1> DEFINE Quiet(w) == /\ workerStatus'[w] = "DRAINING" => workerStatus[w] = "DRAINING"
                         /\ workerStatus'[w] = NoRow <=> workerStatus[w] = NoRow
             Goal == \A w \in Workers : Quiet(w)
  <1>1. ASSUME workerStatus' = workerStatus PROVE Goal
    BY <1>1
  <1>2. ASSUME NEW t \in Tests, Create(t) PROVE Goal
    BY <1>1, <1>2 DEF Create, InsertTest
  <1>3. ASSUME NEW r \in Starters, StartStep(r) PROVE Goal
    <2>1. CASE StartReserve(r)
      BY <2>1 DEF StartReserve, ReserveWorkersForTest, IdleWorkers
    <2>2. CASE ~StartReserve(r)
      BY <1>1, <1>3, <2>2
         DEF StartStep, StartClaim, StartEnsure, StartRollback, StartSetRunning, StartDies,
             TryTransitionStatus, UpdateStatus
    <2>. QED
      BY <2>1, <2>2
  <1>4. ASSUME NEW s \in Stoppers, StopStep(s) PROVE Goal
    <2>1. CASE StopRelease(s)
      BY <2>1 DEF StopRelease, ReleaseWorkersForTest
    <2>2. CASE ~StopRelease(s)
      BY <1>1, <1>4, <2>2
         DEF StopStep, StopRead, StopFlip, StopFinish, StopDies, TryTransitionStatus, UpdateStatus
    <2>. QED
      BY <2>1, <2>2
  <1>5. ASSUME NEW w \in Workers, HeartbeatsMissed(w) PROVE Goal
    BY <1>1, <1>5 DEF HeartbeatsMissed, HeartbeatExpires
  <1>6. ASSUME NEW w \in Workers, NEW status \in {"IDLE", "RUNNING"}, Heartbeat(w, status) PROVE Goal
    BY <1>6 DEF Heartbeat, UpdateHeartbeat
  <1>7. ASSUME NEW w \in Workers, NEW t \in Tests,
               StartAssignment(t, w) \/ CompleteAssignment(t, w) \/ FailAssignment(t, w)
        PROVE  Goal
    BY <1>7 DEF StartAssignment, MarkAssignmentRunning, CompleteAssignment, MarkAssignmentCompleted,
                FailAssignment, MarkAssignmentFailed
  <1>8. ASSUME ReconcilerStep PROVE Goal
    <2>1. CASE ReconcileOffline
      BY <2>1 DEF ReconcileOffline, MarkOfflineWorkers, Overdue
    <2>2. CASE ReconcileAssignments \/ ReconcileSkipped
      BY <1>1, <2>2 DEF ReconcileAssignments, SweepOverlooking,
                        MarkAssignmentsFailedForOfflineWorkers, SweepFailsAssignments, ReconcileSkipped
    <2>. QED
      BY <1>8, <2>1, <2>2 DEF ReconcilerStep
  <1>9. ASSUME UNCHANGED vars PROVE Goal
    BY <1>1, <1>9 DEF vars
  <1>10. Goal
    <2> HIDE DEF Goal
    <2>. QED
      BY <1>2, <1>3, <1>4, <1>5, <1>6, <1>7, <1>8, <1>9
  <1>. QED
    BY <1>10 DEF Rows

\* A step of the fleet that leaves the control plane alone.
LEMMA FleetAlone ==
  ASSUME FleetInv, UNCHANGED <<vars, hostname>>,
         FleetTypes', CycleShape',
         \A h \in Hosts : process[h] # "unused" => process'[h] # "unused",
         \A h \in Hosts : process'[h] = "running" =>
           /\ process[h] \in {"running", "unused"}
           /\ h \in HostsLeft \cup abandoned => h \in (HostsLeft \cup abandoned)',
         HostsLeft' \subseteq HostsLeft
  PROVE  FleetInv'
  <1> USE DEF FleetInv
  <1>1. TypeOK'
    BY DEF TypeOK, DBTypeOK, vars
  <1>2. \A w \in Workers : workerStatus'[w] = workerStatus[w] /\ hostname'[w] = hostname[w]
    BY DEF vars
  <1>3. HostsStarted'
    BY <1>2 DEF HostsStarted, ManagedRows, Rows
  <1>4. DrainedIsTornDown'
    BY <1>2 DEF DrainedIsTornDown, HostsStarted, ManagedRows, Rows, NoRow
  <1>5. KilledWasDrained'
    BY <1>2 DEF KilledWasDrained
  <1>. QED
    BY <1>1, <1>3, <1>4, <1>5

LEMMA CycleAlone ==
  ASSUME FleetInv,
         \/ CycleBegins({}) \/ \E r \in Starters : CycleBegins({r})
         \/ CycleScalesUp \/ CycleScalesDown \/ CycleIdles \/ CycleFails
         \/ \E h \in Hosts : CycleProvisions(h) \/ CycleKills(h) \/ CycleSkips(h)
         \/ \E h \in Hosts : ProcessForgotten(h) \/ ProcessExits(h)
         \/ ServerRestart
  PROVE  FleetInv'
  <1>0. FleetTypes /\ CycleShape
    BY DEF FleetInv
  <1> USE <1>0 DEF FleetTypes, CycleShape, HostsLeft, ProcessStates, NoCycle, CycleEnds
  <1>m. UNCHANGED <<vars, hostname>> => ManagedRows' = ManagedRows
    BY DEF ManagedRows, Rows, vars
  <1>1. CASE \/ CycleBegins({}) \/ \E r \in Starters : CycleBegins({r})
             \/ CycleScalesUp \/ CycleIdles \/ CycleFails \/ ServerRestart
             \/ \E h \in Hosts : ProcessForgotten(h)
    <2>1. UNCHANGED <<vars, hostname, process>>
      BY <1>1 DEF CycleBegins, CycleScalesUp, CycleIdles, CycleFails, ServerRestart, ProcessForgotten
    <2>2. CycleShape'
      BY <1>1, <1>m, <2>1
         DEF CycleBegins, CycleScalesUp, CycleIdles, CycleFails, ServerRestart, ProcessForgotten
    <2>3. HostsLeft' \subseteq HostsLeft /\ HostsLeft \cup abandoned \subseteq (HostsLeft \cup abandoned)'
      BY <1>1 DEF CycleBegins, CycleScalesUp, CycleIdles, CycleFails, ServerRestart, ProcessForgotten
    <2>. QED
      BY <2>1, <2>2, <2>3, FleetAlone
  <1>2. CASE CycleScalesDown
    <2>1. /\ UNCHANGED <<vars, hostname, process, abandoned>> /\ cycle.pc = "readWorkers"
          /\ \E ids \in SUBSET Eligible : cycle' = [pc |-> "drain", by |-> cycle.by, ids |-> ids]
      BY <1>2 DEF CycleScalesDown, kSubset
    <2>2. Eligible \subseteq ManagedRows
      BY DEF Eligible, IdleWorkers, ManagedRows, Rows, NoRow
    <2>3. CycleShape' /\ HostsLeft = {} /\ HostsLeft' = {}
      BY <1>m, <2>1, <2>2
    <2>. QED
      BY <2>1, <2>3, FleetAlone
  <1>3. ASSUME NEW h \in Hosts, CycleProvisions(h) PROVE FleetInv'
    <2>1. /\ UNCHANGED <<vars, hostname, abandoned>> /\ cycle.pc = "provision"
          /\ process[h] = "unused" /\ process' = [process EXCEPT ![h] = "running"]
          /\ cycle' = NoCycle \/ cycle' = [cycle EXCEPT !.count = @ - 1]
      BY <1>3 DEF CycleProvisions
    <2>2. cycle' = NoCycle \/ cycle' = [pc |-> "provision", by |-> cycle.by, count |-> cycle.count - 1]
      BY <2>1
    <2>3. CycleShape' /\ HostsLeft = {} /\ HostsLeft' = {}
      BY <2>1, <2>2
    <2>4. FleetTypes'
      BY <2>1
    <2>. QED
      BY <2>1, <2>3, <2>4, FleetAlone
  <1>4. ASSUME NEW h \in Hosts, CycleKills(h) \/ CycleSkips(h) PROVE FleetInv'
    <2>1. /\ UNCHANGED <<vars, hostname>> /\ cycle.pc = "terminate" /\ h \in cycle.hosts
          /\ IF cycle.hosts = {h} THEN cycle' = NoCycle ELSE cycle' = [cycle EXCEPT !.hosts = @ \ {h}]
          /\ \/ process' = [process EXCEPT ![h] = "ended"] /\ abandoned' = abandoned
             \/ process' = process /\ abandoned' = abandoned \cup {h}
      BY <1>4 DEF CycleKills, CycleSkips, TerminatedNext
    <2>2. \/ cycle.hosts = {h} /\ cycle' = NoCycle
          \/ cycle' = [pc |-> "terminate", by |-> cycle.by, hosts |-> cycle.hosts \ {h}]
      BY <2>1
    <2>3. HostsLeft = cycle.hosts /\ HostsLeft' = HostsLeft \ {h}
      BY <2>1, <2>2
    <2>4. CycleShape'
      BY <2>1, <2>2
    <2>5. FleetTypes'
      BY <2>1
    <2>6. \A g \in Hosts : process'[g] = "running" =>
            /\ process[g] \in {"running", "unused"}
            /\ g \in HostsLeft \cup abandoned => g \in (HostsLeft \cup abandoned)'
      BY <2>1, <2>3
    <2>7. \A g \in Hosts : process[g] # "unused" => process'[g] # "unused"
      BY <2>1
    <2>. QED
      BY <2>1, <2>3, <2>4, <2>5, <2>6, <2>7, FleetAlone
  <1>5. ASSUME NEW h \in Hosts, ProcessExits(h) PROVE FleetInv'
    <2>1. /\ UNCHANGED <<vars, hostname, cycle, abandoned>>
          /\ process' = [process EXCEPT ![h] = "ended"]
      BY <1>5 DEF ProcessExits
    <2>2. CycleShape' /\ FleetTypes' /\ HostsLeft' = HostsLeft
      BY <1>m, <2>1
    <2>. QED
      BY <2>1, <2>2, FleetAlone
  <1>. QED
    BY <1>1, <1>2, <1>3, <1>4, <1>5

\* The drain: whatever was reserved since GetWorkers is left out, and the
\* processes of the rest are the ones the cycle goes on to end.
LEMMA FleetDrains ==
  ASSUME FleetInv, TypeOK', CycleDrains
  PROVE  FleetInv'
  <1> DEFINE terminated == cycle.ids \cap IdleWorkers
  <1>1. /\ cycle.pc = "drain" /\ cycle.ids \subseteq ManagedRows
        /\ UNCHANGED <<hostname, process, abandoned>>
        /\ workerStatus \in [Workers -> WorkerStatuses \cup {NoRow}]
        /\ \A w \in Workers :
             workerStatus'[w] = IF w \in terminated THEN "DRAINING" ELSE workerStatus[w]
    BY DEF CycleDrains, DrainAndTerminate, TerminateIdleWorkers, FleetInv, CycleShape, TypeOK,
           DBTypeOK, IdleWorkers
  <1>2. \/ terminated = {} /\ cycle' = NoCycle
        \/ cycle' = [pc |-> "terminate", by |-> cycle.by, hosts |-> {hostname[w] : w \in terminated}]
    BY DEF CycleDrains, DrainAndTerminate, CycleEnds
  <1> HIDE DEF terminated
  <1>3. terminated \subseteq ManagedRows
    BY <1>1 DEF terminated
  <1>4. HostsLeft = {} /\ HostsLeft' = {hostname[w] : w \in terminated}
    BY <1>1, <1>2 DEF HostsLeft, NoCycle
  <1>5. ManagedRows' = ManagedRows
    BY <1>1, <1>3 DEF ManagedRows, Rows, NoRow
  <1>6. FleetTypes' /\ HostsStarted'
    BY <1>1, <1>5 DEF FleetInv, FleetTypes, HostsStarted
  <1>7. CycleShape'
    BY <1>2, <1>3 DEF CycleShape, NoCycle, ManagedRows
  <1>8. DrainedIsTornDown'
    <2>1. ASSUME NEW w \in terminated
          PROVE  hostname[w] \in Hosts /\ hostname[w] \in HostsLeft'
      BY <1>3, <1>4 DEF ManagedRows
    <2>. QED
      BY <1>1, <1>4, <2>1 DEF FleetInv, DrainedIsTornDown
  <1>9. KilledWasDrained'
    <2>1. \A w \in terminated : w \in Workers /\ workerStatus'[w] = "DRAINING"
      BY <1>1, <1>3 DEF ManagedRows, Rows
    <2>. QED
      BY <1>1, <1>4, <2>1 DEF KilledWasDrained
  <1>. QED
    BY <1>6, <1>7, <1>8, <1>9 DEF FleetInv

\* A new row is IDLE and belongs to a process that was started, or to Compose.
LEMMA FleetRegisters ==
  ASSUME FleetInv, TypeOK', NEW w \in Workers,
         (\E h \in Hosts : ManagedRegisters(h, w)) \/ UnmanagedRegisters(w)
  PROVE  FleetInv'
  <1>1. /\ workerStatus[w] = NoRow /\ workerStatus' = [workerStatus EXCEPT ![w] = "IDLE"]
        /\ UNCHANGED <<process, cycle, abandoned>>
        /\ \/ hostname' = [hostname EXCEPT ![w] = Unmanaged]
           \/ \E h \in Hosts : process[h] # "unused" /\ hostname' = [hostname EXCEPT ![w] = h]
    BY DEF ManagedRegisters, UnmanagedRegisters, Register, CreateWorker
  <1>2. /\ hostname \in [Workers -> Hosts \cup {Unmanaged, NoRow}]
        /\ workerStatus \in [Workers -> WorkerStatuses \cup {NoRow}]
    BY DEF FleetInv, FleetTypes, TypeOK, DBTypeOK
  <1>3. \A v \in Workers \ {w} : workerStatus'[v] = workerStatus[v] /\ hostname'[v] = hostname[v]
    BY <1>1, <1>2
  <1>4. /\ workerStatus'[w] = "IDLE"
        /\ hostname'[w] \in Hosts => process[hostname'[w]] # "unused"
    BY <1>1, <1>2, HostsAssumption
  <1>5. HostsLeft' = HostsLeft
    BY <1>1 DEF HostsLeft
  <1>6. FleetTypes'
    BY <1>1, <1>2 DEF FleetInv, FleetTypes
  <1>7. ManagedRows \subseteq ManagedRows'
    BY <1>1, <1>3 DEF ManagedRows, Rows
  <1>8. CycleShape'
    BY <1>1, <1>7 DEF FleetInv, CycleShape
  <1>9. HostsStarted'
    BY <1>1, <1>3, <1>4 DEF FleetInv, HostsStarted, ManagedRows, Rows
  <1>10. DrainedIsTornDown'
    BY <1>1, <1>3, <1>4, <1>5 DEF FleetInv, DrainedIsTornDown
  <1>11. KilledWasDrained'
    BY <1>1, <1>3, <1>5 DEF FleetInv, KilledWasDrained, NoRow
  <1>. QED
    BY <1>6, <1>8, <1>9, <1>10, <1>11 DEF FleetInv

LEMMA FleetStep == FleetInv /\ [AutoscalerNext]_autoscalerVars => FleetInv' /\ [Next]_vars
  <1> SUFFICES ASSUME FleetInv, [AutoscalerNext]_autoscalerVars
               PROVE  FleetInv' /\ [Next]_vars
    OBVIOUS
  <1>1. CASE UNCHANGED autoscalerVars
    <2>1. UNCHANGED <<vars, hostname, process, cycle, abandoned>>
      BY <1>1 DEF autoscalerVars, vars
    <2>2. FleetTypes' /\ CycleShape'
      BY <2>1 DEF FleetInv, FleetTypes, CycleShape, ManagedRows, Rows, vars
    <2>3. HostsLeft' = HostsLeft
      BY <2>1 DEF HostsLeft
    <2>4. \A h \in Hosts : process[h] \in {"unused", "running", "ended"}
      BY DEF FleetInv, FleetTypes, ProcessStates
    <2>. QED
      BY <2>1, <2>2, <2>3, <2>4, FleetAlone
  <1>2. CASE AutoscalerNext
    <2>1. [Next]_vars
      BY <1>2, ControlPlanePart DEF FleetInv
    <2>2. TypeOK'
      BY <2>1, TypeStep DEF FleetInv
    <2>3. ASSUME UNCHANGED fleetState,
                 \/ \E t \in Tests : Create(t)
                 \/ \E r \in Starters : StartStep(r)
                 \/ \E s \in Stoppers : StopStep(s)
                 \/ \E w \in Workers :
                      \/ HeartbeatsMissed(w) \/ \E status \in {"IDLE", "RUNNING"} : Heartbeat(w, status)
                      \/ \E t \in Tests : StartAssignment(t, w) \/ CompleteAssignment(t, w) \/ FailAssignment(t, w)
                 \/ ReconcilerStep
          PROVE  FleetInv'
      BY <2>1, <2>2, <2>3, NothingDrained, FleetQuiet DEF FleetInv, fleetState
    <2>4. ASSUME NEW r \in Starters, AskingStart(r) PROVE FleetInv'
      <3>1. UNCHANGED <<hostname, process, cycle, abandoned>>
        BY <2>4 DEF AskingStart, EnsureAsks, EnsureSees, RequestUnasks, fleetState
      <3>2. StartStep(r) \/ UNCHANGED vars
        BY <2>4 DEF AskingStart, EnsureAsks, EnsureSees, StartStep
      <3>. QED
        BY <2>1, <2>2, <3>1, <3>2, NothingDrained, FleetQuiet DEF FleetInv
    <2>5. ASSUME NEW w \in Workers, WorkerCalls(w) PROVE FleetInv'
      BY <2>3, <2>5 DEF WorkerCalls
    <2>6. ASSUME NEW w \in Workers, (\E h \in Hosts : ManagedRegisters(h, w)) \/ UnmanagedRegisters(w)
          PROVE  FleetInv'
      BY <2>2, <2>6, FleetRegisters
    <2>7. CASE CycleDrains
      BY <2>1, <2>2, <2>7, FleetDrains
    <2>8. CASE \/ CycleBegins({}) \/ \E r \in Starters : CycleBegins({r})
               \/ CycleScalesUp \/ CycleScalesDown \/ CycleIdles \/ CycleFails
               \/ \E h \in Hosts : CycleProvisions(h) \/ CycleKills(h) \/ CycleSkips(h)
               \/ \E h \in Hosts : ProcessForgotten(h) \/ ProcessExits(h)
               \/ ServerRestart
      BY <2>1, <2>8, CycleAlone
    <2>9. CASE \/ \E s \in Stoppers : StopStep(s) /\ UNCHANGED fleetState
               \/ \E t \in Tests : Create(t) /\ UNCHANGED fleetState
               \/ ReconcilerStep /\ UNCHANGED fleetState
      BY <2>1, <2>3, <2>9
    <2>. QED
      BY <1>2, <2>1, <2>4, <2>5, <2>6, <2>7, <2>8, <2>9 DEF AutoscalerNext, CycleStep
  <1>. QED
    BY <1>1, <1>2

LEMMA FleetInvAlways == AutoscalerSpec => []FleetInv
  BY FleetInvInit, FleetStep, PTL DEF AutoscalerSpec

-----------------------------------------------------------------------------
(* Type correctness: what a cycle counts, and what it holds                *)

LEMMA DemandIsNatural ==
  ASSUME NEW S \in SUBSET Tests
  PROVE  Demand(S) \in Nat
  <1> DEFINE f == [t \in S |-> Required(t)]
             DemandSums(g) ==
               g = [s \in SUBSET S |->
                      IF s = {} THEN 0 ELSE Required(Element(s)) + g[s \ {Element(s)}]]
  <1>1. IsFiniteSet(S)
    BY RowsAssumption, FS_Subset
  <1>2. f \in [S -> Nat]
    BY RequiredPositive
  <1>3. \A s \in SUBSET S : s # {} => f[Element(s)] = Required(Element(s))
    BY ElementTaken
  <1>4. Demand(S) = (CHOOSE g : DemandSums(g))[S]
    BY DEF Demand, MapThenSumSet, MapThenFoldSet, Element
  <1>5. ASSUME NEW g
        PROVE  DemandSums(g) <=> Sums(S, f, g)
    <2>1. [s \in SUBSET S |-> IF s = {} THEN 0 ELSE Required(Element(s)) + g[s \ {Element(s)}]]
            = [s \in SUBSET S |-> IF s = {} THEN 0 ELSE f[Element(s)] + g[s \ {Element(s)}]]
      BY <1>3
    <2>. QED
      BY <2>1 DEF Sums
  <1> HIDE DEF f, DemandSums
  <1>6. PICK g \in [SUBSET S -> Nat] : Sums(S, f, g)
    BY <1>1, <1>2, SumsExist
  <1>7. DemandSums(CHOOSE h : DemandSums(h))
    BY <1>5, <1>6
  <1>8. (CHOOSE h : DemandSums(h)) = g
    BY <1>1, <1>5, <1>6, <1>7, SumsUnique
  <1>9. g[S] \in Nat
    BY <1>6
  <1>. QED
    BY <1>4, <1>8, <1>9

LEMMA MaxOfTwo ==
  ASSUME NEW m \in Nat, NEW n \in Nat
  PROVE  Max({m, n}) \in Nat
  <1>1. \E x \in {m, n} : \A y \in {m, n} : x >= y
    OBVIOUS
  <1>. QED
    BY <1>1 DEF Max

\* Both numbers Reconcile compares are natural numbers.
LEMMA CountsAreNatural == Target \in Nat /\ Actual \in Nat
  <1>1. DesiredCapacity \in Nat /\ PendingCapacity \in Nat
    BY DemandIsNatural DEF DesiredCapacity, PendingCapacity
  <1>2. Target \in Nat
    BY <1>1, MaxOfTwo DEF Target
  <1>3. Actual \in Nat
    <2>1. {w \in Workers : workerStatus[w] \in {"IDLE", "RESERVED", "RUNNING"}} \subseteq Workers
      OBVIOUS
    <2>. QED
      BY <2>1, RowsAssumption, FS_Subset, FS_CardinalityType DEF Actual
  <1>. QED
    BY <1>2, <1>3

\* The part of the type invariant that FleetInv does not have.
CycleTypes ==
  /\ runsAs \in [Hosts -> SUBSET Workers]
  /\ tracked \subseteq Hosts
  /\ cycle \in Cycles
  /\ ask \in [Starters -> Asks]
  /\ abandoned \subseteq Hosts

LEMMA CycleTypesInit == AutoscalerInit => CycleTypes
  BY DEF AutoscalerInit, CycleTypes, Cycles, Asks

\* What a cycle holds, by where it is.
LEMMA CycleFields ==
  ASSUME cycle \in Cycles
  PROVE  /\ cycle # NoCycle => cycle.by \in SUBSET Starters
         /\ cycle.pc = "readWorkers" => cycle # NoCycle /\ cycle.target \in Nat
         /\ cycle.pc = "provision" => cycle # NoCycle /\ cycle.count \in Nat \ {0}
         /\ cycle.pc = "drain" => cycle # NoCycle /\ cycle.ids \in SUBSET Workers
         /\ cycle.pc = "terminate" => cycle # NoCycle /\ cycle.hosts \in SUBSET Hosts
  BY DEF Cycles, NoCycle

\* Whatever way a cycle ends, requests only learn an outcome.
LEMMA CycleEndTypes ==
  ASSUME CycleTypes, NEW outcome \in {"done", "failed"}, CycleEnds(outcome)
  PROVE  cycle' \in Cycles /\ ask' \in [Starters -> Asks]
  <1>1. cycle' = NoCycle /\ ask' = [r \in Starters |-> IF r \in cycle.by THEN outcome ELSE ask[r]]
    BY DEF CycleEnds, Answered
  <1>. QED
    BY <1>1 DEF CycleTypes, Cycles, Asks

LEMMA CycleTypesStep ==
  FleetInv /\ CycleTypes /\ [AutoscalerNext]_autoscalerVars => CycleTypes'
  <1> SUFFICES ASSUME FleetInv, CycleTypes, [AutoscalerNext]_autoscalerVars
               PROVE  CycleTypes'
    OBVIOUS
  <1>0. /\ runsAs \in [Hosts -> SUBSET Workers] /\ tracked \subseteq Hosts /\ cycle \in Cycles
        /\ ask \in [Starters -> Asks] /\ abandoned \subseteq Hosts
    BY DEF CycleTypes
  <1>h. HostsLeft \subseteq Hosts
    BY <1>0, CycleFields DEF HostsLeft
  <1>q. ASSUME UNCHANGED <<runsAs, tracked, cycle, ask, abandoned>> PROVE CycleTypes'
    BY <1>q DEF CycleTypes
  <1>r. ASSUME NEW r \in Starters, RequestUnasks(r) PROVE CycleTypes'
    BY <1>r DEF RequestUnasks, CycleTypes, Asks
  <1>1. ASSUME NEW by \in SUBSET Starters, CycleBegins(by) PROVE CycleTypes'
    BY <1>1, CountsAreNatural DEF CycleBegins, CycleTypes, Cycles
  <1>2. CASE CycleScalesUp
    <2>1. cycle.target - Actual \in Nat \ {0} /\ cycle.by \in SUBSET Starters
      BY <1>0, <1>2, CountsAreNatural, CycleFields DEF CycleScalesUp
    <2>. QED
      BY <1>2, <2>1 DEF CycleScalesUp, CycleTypes, Cycles
  <1>3. CASE CycleScalesDown
    <2>1. Eligible \subseteq Workers
      BY DEF Eligible, IdleWorkers
    <2>2. \E ids \in SUBSET Workers : cycle' = [pc |-> "drain", by |-> cycle.by, ids |-> ids]
      BY <1>3, <2>1 DEF CycleScalesDown, kSubset
    <2>3. cycle.by \in SUBSET Starters
      BY <1>0, <1>3, CycleFields DEF CycleScalesDown
    <2>. QED
      BY <1>3, <2>2, <2>3 DEF CycleScalesDown, CycleTypes, Cycles
  <1>4. CASE CycleIdles
    BY <1>4, CycleEndTypes DEF CycleIdles, CycleTypes
  <1>5. ASSUME NEW h \in Hosts, CycleProvisions(h) PROVE CycleTypes'
    <2>1. UNCHANGED <<runsAs, abandoned>> /\ tracked' \subseteq Hosts
      BY <1>0, <1>5 DEF CycleProvisions
    <2>2. CASE cycle.count = 1
      BY <1>5, <2>1, <2>2, CycleEndTypes DEF CycleProvisions, CycleTypes
    <2>3. CASE cycle.count # 1
      <3>1. /\ cycle = [pc |-> "provision", by |-> cycle.by, count |-> cycle.count]
            /\ cycle.by \in SUBSET Starters /\ cycle.count \in Nat \ {0}
        BY <1>0, <1>5, CycleFields DEF CycleProvisions, FleetInv, CycleShape
      <3>2. cycle' = [pc |-> "provision", by |-> cycle.by, count |-> cycle.count - 1] /\ ask' = ask
        BY <1>5, <2>3, <3>1 DEF CycleProvisions
      <3>3. cycle.count - 1 \in Nat \ {0}
        BY <2>3, <3>1
      <3>. QED
        BY <1>0, <2>1, <3>1, <3>2, <3>3 DEF CycleTypes, Cycles
    <2>. QED
      BY <2>2, <2>3
  <1>6. CASE CycleDrains
    <2>1. UNCHANGED <<runsAs, tracked, abandoned>> /\ cycle.ids \subseteq ManagedRows
      BY <1>6 DEF CycleDrains, DrainAndTerminate, FleetInv, CycleShape
    <2>2. CASE cycle.ids \cap IdleWorkers = {}
      BY <1>6, <2>1, <2>2, CycleEndTypes DEF CycleDrains, DrainAndTerminate, CycleTypes
    <2>3. CASE cycle.ids \cap IdleWorkers # {}
      <3>1. {hostname[w] : w \in cycle.ids \cap IdleWorkers} \in SUBSET Hosts
        BY <2>1 DEF ManagedRows
      <3>2. cycle.by \in SUBSET Starters
        BY <1>0, <1>6, CycleFields DEF CycleDrains, DrainAndTerminate
      <3>3. /\ cycle' = [pc |-> "terminate", by |-> cycle.by,
                         hosts |-> {hostname[w] : w \in cycle.ids \cap IdleWorkers}]
            /\ ask' = ask
        BY <1>6, <2>3 DEF CycleDrains, DrainAndTerminate
      <3>. QED
        BY <1>0, <2>1, <3>1, <3>2, <3>3 DEF CycleTypes, Cycles
    <2>. QED
      BY <2>2, <2>3
  <1>7. ASSUME NEW h \in Hosts, CycleKills(h) \/ CycleSkips(h) PROVE CycleTypes'
    <2>1. UNCHANGED <<runsAs, tracked>> /\ abandoned' \subseteq Hosts /\ TerminatedNext(h)
      BY <1>0, <1>7 DEF CycleKills, CycleSkips
    <2>2. CASE cycle.hosts = {h}
      BY <1>0, <2>1, <2>2, CycleEndTypes DEF TerminatedNext, CycleTypes
    <2>3. CASE cycle.hosts # {h}
      <3>1. /\ cycle = [pc |-> "terminate", by |-> cycle.by, hosts |-> cycle.hosts]
            /\ cycle.by \in SUBSET Starters /\ cycle.hosts \in SUBSET Hosts
        BY <1>0, <1>7, CycleFields DEF CycleKills, CycleSkips, FleetInv, CycleShape
      <3>2. /\ cycle' = [pc |-> "terminate", by |-> cycle.by, hosts |-> cycle.hosts \ {h}]
            /\ ask' = ask
        BY <2>1, <2>3, <3>1 DEF TerminatedNext
      <3>. QED
        BY <1>0, <2>1, <3>1, <3>2 DEF CycleTypes, Cycles
    <2>. QED
      BY <2>2, <2>3
  <1>8. CASE CycleFails
    BY <1>0, <1>h, <1>8, CycleEndTypes DEF CycleFails, CycleTypes
  <1>9. ASSUME NEW h \in Hosts, ProcessForgotten(h) \/ ProcessExits(h) PROVE CycleTypes'
    BY <1>0, <1>9 DEF ProcessForgotten, ProcessExits, CycleTypes
  <1>10. ASSUME NEW w \in Workers, NEW h \in Hosts, ManagedRegisters(h, w) PROVE CycleTypes'
    BY <1>0, <1>10 DEF ManagedRegisters, CycleTypes
  <1>11. ASSUME NEW w \in Workers, UnmanagedRegisters(w) \/ WorkerCalls(w) PROVE CycleTypes'
    BY <1>q, <1>11 DEF UnmanagedRegisters, WorkerCalls, fleetState
  <1>12. ASSUME NEW r \in Starters, AskingStart(r) PROVE CycleTypes'
    <2>1. CASE EnsureAsks(r)
      BY <1>0, <2>1 DEF EnsureAsks, CycleTypes, Asks
    <2>2. CASE ~EnsureAsks(r)
      BY <1>q, <1>r, <1>12, <2>2 DEF AskingStart, EnsureSees, fleetState
    <2>. QED
      BY <2>1, <2>2
  <1>13. CASE ServerRestart
    BY <1>0, <1>h, <1>13 DEF ServerRestart, CycleTypes, Cycles
  <1>14. CASE UNCHANGED fleetState \/ UNCHANGED autoscalerVars
    BY <1>q, <1>14 DEF fleetState, autoscalerVars
  <1>. QED
    BY <1>1, <1>2, <1>3, <1>4, <1>5, <1>6, <1>7, <1>8, <1>9, <1>10, <1>11, <1>12, <1>13, <1>14
       DEF AutoscalerNext, CycleStep

-----------------------------------------------------------------------------
(* The theorems                                                            *)

\* Beside the autoscaler the control plane is still the control plane: cycles,
\* drains, processes and the waiting of StartTest for them add no step to
\* ControlPlane's, so its theorems hold of the whole.
THEOREM AutoscaledControlPlane == AutoscalerSpec => Spec
  <1>1. AutoscalerInit => Init
    BY DEF AutoscalerInit
  <1>2. FleetInv /\ [AutoscalerNext]_autoscalerVars => [Next]_vars
    BY FleetStep
  <1>. QED
    BY <1>1, <1>2, FleetInvAlways, PTL DEF AutoscalerSpec, Spec

\* Scale-down takes no worker the server did not start, and forgets no process
\* between the drain and the kill, whatever fails or restarts in between.
THEOREM DrainTearsDown == AutoscalerSpec => []DrainedIsTornDown
  <1>1. FleetInv => DrainedIsTornDown
    BY DEF FleetInv
  <1>. QED
    BY <1>1, FleetInvAlways, PTL

\* Only processes of rows that can no longer be reserved are killed.
THEOREM KillsAreDrained == AutoscalerSpec => []KilledWasDrained
  <1>1. FleetInv => KilledWasDrained
    BY DEF FleetInv
  <1>. QED
    BY <1>1, FleetInvAlways, PTL

\* Every variable keeps its type: whatever the cycle counts, however often it
\* fails and whoever registers meanwhile, the number of processes it still has
\* to start is positive, and what it drains and ends are workers and hosts.
THEOREM AutoscalerTypeCorrect == AutoscalerSpec => []AutoscalerTypeOK
  <1>1. FleetInv /\ CycleTypes => AutoscalerTypeOK
    BY DEF FleetInv, FleetTypes, CycleTypes, AutoscalerTypeOK
  <1>. QED
    BY <1>1, FleetInvAlways, CycleTypesInit, CycleTypesStep, PTL DEF AutoscalerSpec

=============================================================================
