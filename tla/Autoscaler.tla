------------------------------ MODULE Autoscaler ------------------------------
(***************************************************************************)
(* The fleet autoscaler (internal/autoscaler) and the process provisioner  *)
(* (internal/provisioner) beside the control plane.  Reconcile is a cycle  *)
(* of separate reads, one drain transaction and one step per process it    *)
(* starts or kills; a mutex admits one cycle at a time, which the periodic *)
(* loop or a StartTest request short of workers begins.  The processes     *)
(* register themselves some time after they were started.                  *)
(*                                                                         *)
(* Workers register, run and report as in ControlPlane, but only those     *)
(* with a live process behind them.  Worker rows of processes the server   *)
(* did not start (Docker Compose) have the hostname Unmanaged.             *)
(***************************************************************************)
EXTENDS ControlPlane, FiniteSetsExt

CONSTANTS
  Hosts,               \* hostnames Provision may generate, one per process
  AnswersLost,         \* whether a registration may be carried out unanswered
  ServerRestarts,      \* whether the server may restart
  ComposeWorkers       \* whether there are workers the server did not start

ASSUME AnswersLostAssumption == AnswersLost \in BOOLEAN
ASSUME ServerRestartsAssumption == ServerRestarts \in BOOLEAN
ASSUME ComposeWorkersAssumption == ComposeWorkers \in BOOLEAN

VARIABLES
  hostname,   \* hostname[w]: workers.hostname, or NoRow
  process,    \* process[h]: the state of the operating-system process
  runsAs,     \* runsAs[h]: the worker the process registered as, at most one
  tracked,    \* ProcessProvisioner.processes: the hostnames in the map
  cycle,      \* the Reconcile that holds the mutex
  ask,        \* ask[r]: what request r has asked of the autoscaler
  abandoned   \* history: hosts whose termination was skipped or given up

fleetState == <<hostname, process, runsAs, tracked, cycle, ask, abandoned>>

autoscalerVars == <<testStatus, workerStatus, heartbeatFresh, assignment, start, stop,
                    reconciler, reported, hostname, process, runsAs, tracked, cycle, ask,
                    abandoned>>

Unmanaged == "compose"

\* Provision's hostnames have a prefix of their own (isAutoscalerManagedWorker).
ASSUME HostsAssumption == Unmanaged \notin Hosts

\* Tests and workers are rows of two tables, which Reconcile counts.
ASSUME RowsAssumption == IsFiniteSet(Tests) /\ IsFiniteSet(Workers)

\* An ended process stays in the map until Provision's goroutine, which waits
\* for it, has deleted the entry.
ProcessStates == {"unused", "running", "ended"}

\* by is the set of the request the cycle runs for, empty for the loop.
NoCycle == [pc |-> "free"]

Cycles ==
  {NoCycle} \cup
  [pc : {"readWorkers"}, by : SUBSET Starters, target : Nat] \cup
  [pc : {"provision"}, by : SUBSET Starters, count : Nat \ {0}] \cup
  [pc : {"drain"}, by : SUBSET Starters, ids : SUBSET Workers] \cup
  [pc : {"terminate"}, by : SUBSET Starters, hosts : SUBSET Hosts]

Asks == {"no", "waiting", "done", "failed"}

AutoscalerTypeOK ==
  /\ TypeOK
  /\ hostname \in [Workers -> Hosts \cup {Unmanaged, NoRow}]
  /\ process \in [Hosts -> ProcessStates]
  /\ runsAs \in [Hosts -> SUBSET Workers]
  /\ tracked \subseteq Hosts
  /\ cycle \in Cycles
  /\ ask \in [Starters -> Asks]
  /\ abandoned \subseteq Hosts

AutoscalerInit ==
  /\ Init
  /\ hostname = [w \in Workers |-> NoRow]
  /\ process = [h \in Hosts |-> "unused"]
  /\ runsAs = [h \in Hosts |-> {}]
  /\ tracked = {}
  /\ cycle = NoCycle
  /\ ask = [r \in Starters |-> "no"]
  /\ abandoned = {}

-----------------------------------------------------------------------------
(* capacity.go and the counting in Reconcile                               *)

IsActiveTest(s) == s \in {"STARTING", "RUNNING"}

Demand(tests) == MapThenSumSet(Required, tests)

DesiredCapacity == Demand({t \in Tests : IsActiveTest(testStatus[t])})

PendingCapacity == Demand({t \in Tests : testStatus[t] = "CREATED"})

Target == Max({DesiredCapacity, PendingCapacity})

\* Usable fleet: DRAINING and OFFLINE rows do not count.
Actual == Cardinality({w \in Workers : workerStatus[w] \in {"IDLE", "RESERVED", "RUNNING"}})

\* Defect variant: no look at who started the process.
EligibleIfIdle == IdleWorkers

\* isAutoscalerManagedWorker: only processes Provision started.
Eligible == {w \in IdleWorkers : hostname[w] \in Hosts}

-----------------------------------------------------------------------------
(* Reconcile                                                               *)

\* What a request learns when the cycle it began is over.
Answered(outcome) == [r \in Starters |-> IF r \in cycle.by THEN outcome ELSE ask[r]]

CycleEnds(outcome) == cycle' = NoCycle /\ ask' = Answered(outcome)

\* WHO: the loop ({}), or a request that found too few workers.  The mutex
\* is taken and GetTests read.
CycleBegins(by) ==
  /\ cycle = NoCycle
  /\ \A r \in by : ask[r] = "waiting"
  /\ cycle' = [pc |-> "readWorkers", by |-> by, target |-> Target]
  /\ UNCHANGED <<vars, hostname, process, runsAs, tracked, ask, abandoned>>

\* WHO: Reconcile.  GetWorkers is read, and the tests may have changed since.
CycleScalesUp ==
  /\ cycle.pc = "readWorkers"
  /\ Actual < cycle.target
  /\ cycle' = [pc |-> "provision", by |-> cycle.by, count |-> cycle.target - Actual]
  /\ UNCHANGED <<vars, hostname, process, runsAs, tracked, ask, abandoned>>

\* Defect variant: only when the whole excess can be drained.
CycleScalesDownInFull ==
  /\ cycle.pc = "readWorkers"
  /\ Actual > cycle.target
  /\ Cardinality(Eligible) >= Actual - cycle.target
  /\ \E ids \in kSubset(Actual - cycle.target, Eligible) :
       cycle' = [pc |-> "drain", by |-> cycle.by, ids |-> ids]
  /\ UNCHANGED <<vars, hostname, process, runsAs, tracked, ask, abandoned>>

\* WHO: Reconcile.  Of the managed idle workers, as many as are in excess;
\* which of them depends on the order of registration.
CycleScalesDown ==
  /\ cycle.pc = "readWorkers"
  /\ Actual > cycle.target
  /\ Eligible # {}
  /\ \E ids \in kSubset(Min({Cardinality(Eligible), Actual - cycle.target}), Eligible) :
       cycle' = [pc |-> "drain", by |-> cycle.by, ids |-> ids]
  /\ UNCHANGED <<vars, hostname, process, runsAs, tracked, ask, abandoned>>

\* WHO: Reconcile.  The fleet has its size, or nothing in excess is eligible.
CycleIdles ==
  /\ cycle.pc = "readWorkers"
  /\ Actual = cycle.target \/ (Actual > cycle.target /\ Eligible = {})
  /\ CycleEnds("done")
  /\ UNCHANGED <<vars, hostname, process, runsAs, tracked, abandoned>>

\* Defect variant: the loop starts one process more than it was asked for.
CycleProvisionsOneMore(h) ==
  /\ cycle.pc = "provision"
  /\ process[h] = "unused"
  /\ process' = [process EXCEPT ![h] = "running"]
  /\ tracked' = tracked \cup {h}
  /\ IF cycle.count = 0
     THEN CycleEnds("done")
     ELSE cycle' = [cycle EXCEPT !.count = @ - 1] /\ UNCHANGED ask
  /\ UNCHANGED <<vars, hostname, runsAs, abandoned>>

\* WHO: Provision.  One process is started and entered in the map.
CycleProvisions(h) ==
  /\ cycle.pc = "provision"
  /\ process[h] = "unused"
  /\ process' = [process EXCEPT ![h] = "running"]
  /\ tracked' = tracked \cup {h}
  /\ IF cycle.count = 1
     THEN CycleEnds("done")
     ELSE cycle' = [cycle EXCEPT !.count = @ - 1] /\ UNCHANGED ask
  /\ UNCHANGED <<vars, hostname, runsAs, abandoned>>

\* The transaction drains, and the cycle goes on to end the processes behind
\* terminated, or is over if there are none.
DrainAndTerminate(terminated) ==
  /\ cycle.pc = "drain"
  /\ TerminateIdleWorkers(cycle.ids)
  /\ IF terminated = {}
     THEN CycleEnds("done")
     ELSE /\ cycle' = [pc |-> "terminate", by |-> cycle.by, hosts |-> {hostname[w] : w \in terminated}]
          /\ UNCHANGED ask
  /\ UNCHANGED <<requestVars, reported, hostname, process, runsAs, tracked, abandoned>>

\* Defect variant: the candidates are killed, drained or not.
CycleDrainsAnyway == DrainAndTerminate(cycle.ids)

\* WHO: scaleDown.  Those of the candidates still IDLE become DRAINING, and
\* only their processes are terminated.
CycleDrains == DrainAndTerminate(cycle.ids \cap IdleWorkers)

\* The cycle goes on with the hosts after h, or is over.
TerminatedNext(h) ==
  IF cycle.hosts = {h}
  THEN CycleEnds("done")
  ELSE cycle' = [cycle EXCEPT !.hosts = @ \ {h}] /\ UNCHANGED ask

\* WHO: Terminate.  The process is killed; one that has ended and was not
\* waited for yet takes the signal without an error.
CycleKills(h) ==
  /\ cycle.pc = "terminate" /\ h \in cycle.hosts
  /\ h \in tracked
  /\ process' = [process EXCEPT ![h] = "ended"]
  /\ TerminatedNext(h)
  /\ UNCHANGED <<vars, hostname, runsAs, tracked, abandoned>>

\* WHO: Terminate.  A hostname that is not in the map is passed over.
CycleSkips(h) ==
  /\ cycle.pc = "terminate" /\ h \in cycle.hosts
  /\ h \notin tracked
  /\ abandoned' = abandoned \cup {h}
  /\ TerminatedNext(h)
  /\ UNCHANGED <<vars, hostname, process, runsAs, tracked>>

\* The hosts a cycle that ends with an error leaves alone.
HostsLeft == IF cycle.pc = "terminate" THEN cycle.hosts ELSE {}

\* Defect variant: an error return that does not release the mutex.
CycleFailsLocked ==
  /\ cycle # NoCycle
  /\ ask' = Answered("failed")
  /\ abandoned' = abandoned \cup HostsLeft
  /\ cycle' = [cycle EXCEPT !.by = {}]
  /\ UNCHANGED <<vars, hostname, process, runsAs, tracked>>

\* WHO: Reconcile.  A query, the start of a process or Kill (of a process
\* already waited for but still in the map, say) fails, or the context of the
\* request is cancelled: the cycle returns the error, the rest is not done.
CycleFails ==
  /\ cycle # NoCycle
  /\ CycleEnds("failed")
  /\ abandoned' = abandoned \cup HostsLeft
  /\ UNCHANGED <<vars, hostname, process, runsAs, tracked>>

-----------------------------------------------------------------------------
(* Processes                                                               *)

\* Wait returns in Provision's goroutine, which deletes the map entry.
ProcessForgotten(h) ==
  /\ process[h] = "ended" /\ h \in tracked
  /\ tracked' = tracked \ {h}
  /\ UNCHANGED <<vars, hostname, process, runsAs, cycle, ask, abandoned>>

\* A process ends by itself.
ProcessExits(h) ==
  /\ process[h] = "running"
  /\ process' = [process EXCEPT ![h] = "ended"]
  /\ UNCHANGED <<vars, hostname, runsAs, tracked, cycle, ask, abandoned>>

\* A managed process registers and runs as w; or the row is there, but the
\* process does not learn of it (the answer is lost, or the process has ended
\* or registered in a later attempt by the time the request is carried out).
ManagedRegisters(h, w) ==
  /\ Register(w)
  /\ hostname' = [hostname EXCEPT ![w] = h]
  /\ \/ /\ process[h] = "running" /\ runsAs[h] = {}
        /\ runsAs' = [runsAs EXCEPT ![h] = {w}]
     \/ /\ AnswersLost
        /\ process[h] # "unused"
        /\ UNCHANGED runsAs
  /\ UNCHANGED <<process, tracked, cycle, ask, abandoned>>

UnmanagedRegisters(w) ==
  /\ ComposeWorkers
  /\ Register(w)
  /\ hostname' = [hostname EXCEPT ![w] = Unmanaged]
  /\ UNCHANGED <<process, runsAs, tracked, cycle, ask, abandoned>>

\* There is a process that speaks for w.
Lives(w) ==
  \/ hostname[w] = Unmanaged
  \/ \E h \in Hosts : process[h] = "running" /\ w \in runsAs[h]

\* What the workers ask of the server: a process heartbeats IDLE or RUNNING.
WorkerCalls(w) ==
  /\ \/ /\ Lives(w)
        /\ \/ \E status \in {"IDLE", "RUNNING"} : Heartbeat(w, status)
           \/ \E t \in Tests :
                StartAssignment(t, w) \/ CompleteAssignment(t, w) \/ FailAssignment(t, w)
     \/ HeartbeatsMissed(w)
  /\ UNCHANGED fleetState

-----------------------------------------------------------------------------
(* The server's requests, with what they ask of the autoscaler             *)

RequestUnasks(r) ==
  /\ ask' = [ask EXCEPT ![r] = "no"]
  /\ UNCHANGED <<hostname, process, runsAs, tracked, cycle, abandoned>>

\* WHO: ensureWorkersAvailable.  Too few idle workers: Reconcile is called,
\* and waits for the mutex.
EnsureAsks(r) ==
  /\ StartAt(r, "ensure") /\ ask[r] = "no"
  /\ Cardinality(IdleWorkers) < Required(start[r].test)
  /\ ask' = [ask EXCEPT ![r] = "waiting"]
  /\ UNCHANGED <<vars, hostname, process, runsAs, tracked, cycle, abandoned>>

\* Defect variant: the end of Reconcile is taken for the arrival of workers.
EnsureTrusted(r) ==
  /\ StartAt(r, "ensure") /\ ask[r] = "done"
  /\ StartGoes(r, "reserve")
  /\ UNCHANGED <<dbVars, stop, reconciler, reported>>
  /\ RequestUnasks(r)

\* WHO: ensureWorkersAvailable.  The first look, or one of those after
\* Reconcile has returned, finds enough idle workers.
EnsureSees(r) ==
  /\ ask[r] \in {"no", "done"}
  /\ StartEnsure(r)
  /\ RequestUnasks(r)

\* A request that is in Reconcile, or waits for it, does not go on before it
\* returns; after an error it can only roll back.
InCycle(r) == cycle # NoCycle /\ r \in cycle.by

AskingStart(r) ==
  \/ (\E t \in Tests : StartClaim(r, t)) /\ UNCHANGED fleetState
  \/ EnsureAsks(r)
  \/ EnsureSees(r)
  \/ StartReserve(r) /\ UNCHANGED fleetState
  \/ ask[r] # "waiting" /\ StartRollback(r) /\ RequestUnasks(r)
  \/ StartSetRunning(r) /\ UNCHANGED fleetState
  \/ ~InCycle(r) /\ StartDies(r) /\ RequestUnasks(r)

\* The server restarts: the map of processes is empty and the processes live
\* on.  Its requests have been cut off by then (StartDies, StopDies).
ServerRestart ==
  /\ ServerRestarts
  /\ \A r \in Starters : StartAt(r, "free")
  /\ \A s \in Stoppers : StopAt(s, "free")
  /\ reconciler = "markOffline"
  /\ tracked # {} \/ cycle # NoCycle
  /\ tracked' = {}
  /\ abandoned' = abandoned \cup HostsLeft
  /\ cycle' = NoCycle
  /\ UNCHANGED <<vars, hostname, process, runsAs, ask>>

-----------------------------------------------------------------------------

CycleStep ==
  \/ CycleScalesUp \/ CycleScalesDown \/ CycleIdles \/ CycleDrains \/ CycleFails
  \/ \E h \in Hosts : CycleProvisions(h) \/ CycleKills(h) \/ CycleSkips(h)

AutoscalerNext ==
  \/ CycleBegins({}) \/ \E r \in Starters : CycleBegins({r})
  \/ CycleStep
  \/ \E h \in Hosts : ProcessForgotten(h) \/ ProcessExits(h)
  \/ \E w \in Workers :
       \/ \E h \in Hosts : ManagedRegisters(h, w)
       \/ UnmanagedRegisters(w)
       \/ WorkerCalls(w)
  \/ \E r \in Starters : AskingStart(r)
  \/ \E s \in Stoppers : StopStep(s) /\ UNCHANGED fleetState
  \/ \E t \in Tests : Create(t) /\ UNCHANGED fleetState
  \/ ReconcilerStep /\ UNCHANGED fleetState
  \/ ServerRestart

AutoscalerSpec == AutoscalerInit /\ [][AutoscalerNext]_autoscalerVars

\* The loop's ticker keeps firing and gets the mutex in its turn (sync.Mutex
\* hands it to a waiter that starves); a cycle goes on or returns an error;
\* errors are not permanent.
AutoscalerFairness ==
  /\ SF_autoscalerVars(CycleBegins({}))
  /\ WF_autoscalerVars(CycleStep)
  /\ SF_autoscalerVars(CycleScalesDown)
  /\ SF_autoscalerVars(CycleDrains)

FairAutoscalerSpec == AutoscalerSpec /\ AutoscalerFairness

-----------------------------------------------------------------------------
(* Safety                                                                  *)

\* A DRAINING row belongs to a process the server started, and that process
\* has ended, is about to be killed, or was given up or passed over by
\* Terminate: scale-down takes no Compose worker and forgets no process.
DrainedIsTornDown ==
  \A w \in Workers : workerStatus[w] = "DRAINING" =>
    /\ hostname[w] \in Hosts
    /\ \/ process[hostname[w]] # "running"
       \/ hostname[w] \in HostsLeft \cup abandoned

\* No process is killed but on behalf of a row the scheduler cannot reserve
\* any more, whatever was reserved between GetWorkers and the drain.
KilledWasDrained ==
  \A h \in HostsLeft :
    \E w \in Workers : hostname[w] = h /\ workerStatus[w] \in {"DRAINING", "OFFLINE"}

-----------------------------------------------------------------------------
(* Liveness, under FairAutoscalerSpec                                      *)

\* Reconcile always returns: the mutex is released on every path, and nothing
\* that waits for it (the loop, a start that needs capacity) waits for ever.
MutexReleased == cycle # NoCycle ~> cycle = NoCycle

\* Without demand the managed fleet shrinks: no worker that was provisioned,
\* once too often for one shortfall or for a test that is over by now, stays
\* IDLE for ever, whatever the others do.
IdleFleetShrinks ==
  \A w \in Workers :
    LET excess == /\ workerStatus[w] = "IDLE" /\ hostname[w] \in Hosts
                  /\ \A t \in Tests : testStatus[t] \notin {"CREATED", "STARTING", "RUNNING"}
    IN  excess ~> ~excess

=============================================================================
