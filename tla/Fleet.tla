-------------------------------- MODULE Fleet --------------------------------
(***************************************************************************)
(* The control plane together with the worker processes                    *)
(* (internal/worker, internal/controlplane).  A process runs two loops: it *)
(* polls for an assignment and works on it (one goroutine), and it sends   *)
(* heartbeats with its local status (another).  The calls to the control   *)
(* plane may be lost, or carried out with the answer lost; a heartbeat     *)
(* takes effect some time after the status in it was read.                 *)
(*                                                                         *)
(* The worker requests of ControlPlane, where any client may ask for       *)
(* anything, are here only those the processes make.                       *)
(***************************************************************************)
EXTENDS ControlPlane

VARIABLES
  proc,  \* proc[w]: the process registered as w, and the point it has reached
  beat   \* beat[w]: the status in w's heartbeat on the wire, or NoBeat

fleetVars == <<proc, beat>>

allVars == <<testStatus, workerStatus, heartbeatFresh, assignment,
             start, stop, reconciler, reported, proc, beat>>

NoBeat == "NONE"

\* Worker.status: what the process believes, and reports.
LocalStatuses == {"IDLE", "RUNNING"}

Absent == [pc |-> "absent"]
Dead   == [pc |-> "dead"]

Processes ==
  {Absent, Dead} \cup [pc : {"polling"}, status : LocalStatuses] \cup
  [pc : {"starting", "executing", "cancelled", "completing", "failing", "cutShort"},
   test : Tests, status : LocalStatuses]

FleetTypeOK ==
  /\ TypeOK
  /\ proc \in [Workers -> Processes]
  /\ beat \in [Workers -> LocalStatuses \cup {NoBeat}]

FleetInit ==
  /\ Init
  /\ proc = [w \in Workers |-> Absent]
  /\ beat = [w \in Workers |-> NoBeat]

At(w, pc) == proc[w].pc = pc

GoesTo(w, pc) == proc' = [proc EXCEPT ![w].pc = pc]

\* Defect variant: back in the poll loop with nothing reset.
PollsUnreset(w) == GoesTo(w, "polling")

\* Back in the poll loop, with Worker.status reset.
Polls(w) == proc' = [proc EXCEPT ![w] = [pc |-> "polling", status |-> "IDLE"]]

Alive(w) == proc[w].pc \notin {"absent", "dead"}

-----------------------------------------------------------------------------
(* Registration (registerWithRetry)                                        *)

\* WHO: Register, answered.
ProcessRegisters(w) ==
  /\ At(w, "absent")
  /\ Register(w)
  /\ Polls(w)
  /\ UNCHANGED beat

\* WHO: Register, with the answer lost: the retry gets another identifier, so
\* no process ever runs as w.
RegistrationUnanswered(w) ==
  /\ At(w, "absent")
  /\ Register(w)
  /\ proc' = [proc EXCEPT ![w] = Dead]
  /\ UNCHANGED beat

-----------------------------------------------------------------------------
(* Poll loop: poll, processAssignment, execute                             *)

\* WHO: poll.  An assignment is returned; Worker.status becomes RUNNING.
Poll(w) ==
  /\ At(w, "polling")
  /\ \E t \in ReservedAssignments(w) :
       proc' = [proc EXCEPT ![w] = [pc |-> "starting", test |-> t, status |-> "RUNNING"]]
  /\ UNCHANGED <<vars, beat>>

\* WHO: StartAssignment, carried out and answered.
StartAnswered(w) ==
  /\ At(w, "starting")
  /\ StartAssignment(proc[w].test, w)
  /\ GoesTo(w, "executing")
  /\ UNCHANGED beat

\* WHO: StartAssignment, carried out, but the client sees an error.
StartUnanswered(w) ==
  /\ At(w, "starting")
  /\ StartAssignment(proc[w].test, w)
  /\ Polls(w)
  /\ UNCHANGED beat

\* Defect variant: the error of the call is not looked at.
StartFailsIgnored(w) ==
  /\ At(w, "starting")
  /\ GoesTo(w, "executing")
  /\ UNCHANGED <<vars, beat>>

\* WHO: StartAssignment, refused (the row is no longer RESERVED) or lost.
StartFails(w) ==
  /\ At(w, "starting")
  /\ Polls(w)
  /\ UNCHANGED <<vars, beat>>

\* WHO: execute.  The 1 s tick sees the test stopped and cancels the engine.
SeeStop(w) ==
  /\ At(w, "executing")
  /\ testStatus[proc[w].test] \in {"STOPPING", "STOPPED"}
  /\ GoesTo(w, "cancelled")
  /\ UNCHANGED <<vars, beat>>

\* WHO: execute.  The engine has run for the test's duration.  It has no
\* other error: CreateTest and DistributeRPS exclude invalid settings.
ExecutionEnds(w) ==
  /\ At(w, "executing")
  /\ GoesTo(w, "completing")
  /\ UNCHANGED <<vars, beat>>

\* WHO: execute.  The process is told to shut down.  The engine then returns
\* no error either, and when that is ready together with ctx.Done() (after a
\* flush, say) select may take it for the end of the execution.
ShutdownTakenForEnd(w) ==
  /\ At(w, "executing")
  /\ GoesTo(w, "cutShort")
  /\ UNCHANGED <<vars, beat>>

\* WHO: processAssignment.  The cancelled engine is done and execute returns
\* apierrors.ErrAssignmentStopped; the errors.Is test is against the other
\* ErrAssignmentStopped, so the branch for errors is taken.
CancelledExecutionEnds(w) ==
  /\ At(w, "cancelled")
  /\ GoesTo(w, "failing")
  /\ UNCHANGED <<vars, beat>>

\* WHO: CompleteAssignment, carried out (answered or not: the process goes on
\* alike).
CompletionDelivered(w) ==
  /\ At(w, "completing")
  /\ CompleteAssignment(proc[w].test, w)
  /\ Polls(w)
  /\ UNCHANGED beat

\* WHO: CompleteAssignment after a shutdown: its context is a fresh one.
CutShortDelivered(w) ==
  /\ At(w, "cutShort")
  /\ CompleteAssignment(proc[w].test, w)
  /\ proc' = [proc EXCEPT ![w] = Dead]
  /\ UNCHANGED beat

\* Defect variant: Worker.status is not reset on this path.
FailureDeliveredUnreset(w) ==
  /\ At(w, "failing")
  /\ FailAssignment(proc[w].test, w)
  /\ proc' = [proc EXCEPT ![w] = [pc |-> "polling", status |-> @.status]]
  /\ UNCHANGED beat

\* WHO: FailAssignment, carried out.
FailureDelivered(w) ==
  /\ At(w, "failing")
  /\ FailAssignment(proc[w].test, w)
  /\ Polls(w)
  /\ UNCHANGED beat

\* WHO: either report, refused (404) or lost; there is no retry.
ReportFails(w) ==
  /\ At(w, "completing") \/ At(w, "failing")
  /\ Polls(w)
  /\ UNCHANGED <<vars, beat>>

-----------------------------------------------------------------------------
(* Heartbeat loop, and the end of a process                                *)

\* WHO: HeartbeatLoop.  Worker.status is read, without synchronisation with
\* the other goroutine, and sent; not with the context of a shutdown.
HeartbeatSent(w) ==
  /\ Alive(w) /\ ~At(w, "cutShort")
  /\ beat[w] = NoBeat
  /\ beat' = [beat EXCEPT ![w] = proc[w].status]
  /\ UNCHANGED <<vars, proc>>

\* WHO: the heartbeat arrives, late or not.
HeartbeatDelivered(w) ==
  /\ beat[w] # NoBeat
  /\ Heartbeat(w, beat[w])
  /\ beat' = [beat EXCEPT ![w] = NoBeat]
  /\ UNCHANGED proc

HeartbeatLost(w) ==
  /\ beat[w] # NoBeat
  /\ beat' = [beat EXCEPT ![w] = NoBeat]
  /\ UNCHANGED <<vars, proc>>

\* The process crashes, is killed, or shuts down without a report.
ProcessDies(w) ==
  /\ Alive(w)
  /\ proc' = [proc EXCEPT ![w] = Dead]
  /\ UNCHANGED <<vars, beat>>

-----------------------------------------------------------------------------

ProcessStep(w) ==
  \/ ProcessRegisters(w) \/ RegistrationUnanswered(w)
  \/ Poll(w)
  \/ StartAnswered(w) \/ StartUnanswered(w) \/ StartFails(w)
  \/ SeeStop(w) \/ ExecutionEnds(w) \/ ShutdownTakenForEnd(w) \/ CancelledExecutionEnds(w)
  \/ CompletionDelivered(w) \/ CutShortDelivered(w) \/ FailureDelivered(w) \/ ReportFails(w)
  \/ HeartbeatSent(w) \/ HeartbeatDelivered(w) \/ HeartbeatLost(w)
  \/ ProcessDies(w)

ServerStep ==
  \/ \E t \in Tests : Create(t)
  \/ \E r \in Starters : StartStep(r)
  \/ \E s \in Stoppers : StopStep(s)
  \/ \E w \in Workers : HeartbeatsMissed(w)
  \/ \E ids \in SUBSET Workers : DrainIdle(ids)
  \/ ReconcilerStep

FleetNext ==
  \/ ServerStep /\ UNCHANGED fleetVars
  \/ \E w \in Workers : ProcessStep(w)

FleetSpec == FleetInit /\ [][FleetNext]_allVars

\* A live process keeps working: it polls, its execution is bounded by the
\* test's duration, its calls return (10 s client timeout).  Calls are not
\* lost forever.  Once a process is dead 120 s pass without a heartbeat.
ProcessFairness(w) ==
  /\ WF_allVars(Poll(w))
  /\ WF_allVars(StartAnswered(w) \/ StartUnanswered(w) \/ StartFails(w))
  /\ SF_allVars(StartAnswered(w))
  /\ WF_allVars(SeeStop(w) \/ ExecutionEnds(w) \/ CancelledExecutionEnds(w))
  /\ WF_allVars(CompletionDelivered(w) \/ FailureDelivered(w) \/ ReportFails(w))
  /\ WF_allVars(At(w, "cutShort") /\ ProcessDies(w))
  /\ WF_allVars(HeartbeatSent(w))
  /\ SF_allVars(HeartbeatDelivered(w))
  /\ WF_allVars(At(w, "dead") /\ HeartbeatsMissed(w) /\ UNCHANGED fleetVars)

FairFleetSpec == FleetSpec /\ Fairness /\ \A w \in Workers : ProcessFairness(w)

-----------------------------------------------------------------------------
(* Safety                                                                  *)

\* A RESERVED worker row always has a RESERVED assignment that will bring the
\* worker back: no worker is stranded in RESERVED, whatever starts, stops,
\* reports, lost calls and crashes do.
NoStrandedReservation ==
  \A w \in Workers : workerStatus[w] = "RESERVED" => ReservedAssignments(w) # {}

\* At work on an assignment: past StartAssignment, and before the answer to
\* the report.
AtWork(w) == \E pc \in {"executing", "cancelled", "completing", "failing", "cutShort"} : At(w, pc)

\* What a process works on is RUNNING in the database, unless a stop or the
\* sweep has ended it behind its back, and nothing was reported of it yet.  So
\* an assignment released or failed between the poll and StartAssignment is
\* never executed, and no test counts as COMPLETED while a process, be it one
\* declared OFFLINE, still works on it.
WorkIsAccounted ==
  \A w \in Workers : AtWork(w) =>
    LET t == proc[w].test
    IN  /\ \/ assignment[t][w] \in {"RUNNING", "COMPLETED"}
           \/ assignment[t][w] = "FAILED" /\ workerStatus[w] = "OFFLINE"
        /\ <<t, w>> \notin reported
        /\ testStatus[t] # "COMPLETED"

-----------------------------------------------------------------------------
(* Liveness, under FairFleetSpec                                           *)

\* Every reserved assignment is picked up, released or failed in the end:
\* its worker polls again, or it is found dead and the sweep gets to it.
ReservationsEnd ==
  \A t \in Tests, w \in Workers :
    assignment[t][w] = "RESERVED" ~> assignment[t][w] # "RESERVED"

\* No worker row stays RUNNING: FailAssignment leaves it so, and a heartbeat
\* sent late may write it again, but the process returns to IDLE and says so.
WorkersComeBack ==
  \A w \in Workers : workerStatus[w] = "RUNNING" ~> workerStatus[w] # "RUNNING"

-----------------------------------------------------------------------------
(* What the documents say of the program and its code does not keep        *)

\* A worker with an assignment it has yet to pick up is not handed back out.
ReservedNotHandedBack ==
  \A t \in Tests, w \in Workers :
    assignment[t][w] = "RESERVED" => workerStatus[w] # "IDLE"

=============================================================================
