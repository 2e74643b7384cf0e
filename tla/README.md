# Vulcan: specification and verification

Vulcan is a distributed load-testing system: a control-plane server assigns
load tests to a fleet of worker processes, watches over the workers and keeps
the fleet at the size the tests need. This directory holds TLA+ modules
translated from its Go source, TLC configurations that check them on small
instances, and proofs checked by TLAPS for every size.

`PROJECT.json` is the index: components, runs, the source lines of every
definition (`map`), a defect for every property that the property must detect
(`mutants`), findings, hazards and theorems.

## 1. Inventory of the system

| Component | State | Operations | What makes it correct |
|---|---|---|---|
| Repositories (`internal/repository`) | PostgreSQL: `tests`, `workers`, `test_workers` | one transaction or statement per method | outcomes never rewritten; worker row and assignment row agree |
| Test service (`internal/service/test_service.go`) | none: every request reads and writes rows | `CreateTest`, `StartTest`, `StopTest`, `ensureWorkersAvailable` | one allocation per test; no test stuck in a transient status; stop and start do not mix |
| Worker service (`internal/service/worker_service.go`, `assignment*.go`) | none | register, heartbeat, assignment poll, start/complete/fail assignment | a worker cannot overwrite what the server decided; a test completes only by its workers |
| Worker reconciler (`internal/reconciler`) | none; two statements every 5 s | mark overdue workers OFFLINE, fail their assignments and tests | a dead worker never leaves a test RUNNING |
| Scheduler arithmetic (`internal/scheduler`) | none | `RequiredWorkers`, `DistributeRPS` | rate covered, conserved, and within capacity |
| Worker process (`internal/worker`, `internal/controlplane`) | `Worker.status`, the goroutines' positions | register with retry, poll, execute, report, heartbeat | comes back for work; no assignment held for ever |
| Autoscaler and provisioner (`internal/autoscaler`, `internal/provisioner`) | a mutex; map of processes | `Reconcile`: scale up, drain and terminate | enough workers; never a busy one drained; no double provisioning |
| Execution engine (`internal/execution`) | tick, semaphore, wait group | `Run` | concurrency limit; every started request recorded |
| Telemetry (`internal/metrics`, `internal/aggregator`, `internal/victoria`) | collector, window store | record/flush, publish, merge, report | every request counted in one place, reported at most once, and lost only by a known fault |
| Dashboard, HTTP API, configuration, `cmd` | none | queries, decoding, wiring | – |

Interaction: operators and workers call the HTTP API; each request runs in its
own goroutine, concurrently with the worker reconciler and the autoscaler, and
all of them meet only in the database. Each transaction is atomic, but
`StartTest` and `StopTest` are several of them. A worker process runs a poll
loop and a heartbeat loop in two goroutines over one `status` field and learns
of a stop only by polling. Metrics go over NATS to the aggregator and from
there to VictoriaMetrics, independently of the test lifecycle. The autoscaler
reads tests and workers, and acts later; it starts and kills processes that
register, and die, on their own.

Where it is hard:

- between two statements of a start or stop anything else may run, and the last
  write of both is unconditional;
- a request may be cut off between statements (client gone, 60 s timeout,
  restart), and then its rollback, which uses the same context, fails too;
- calls of a worker may be lost, or carried out with the answer lost, and are
  not repeated; a heartbeat may arrive late;
- a worker may die at any point, the server between two statements;
- worker, assignment and test rows are three views of one fact that different
  parties change;
- the transactions that report an outcome run under READ COMMITTED and look at
  rows that others are about to change;
- a drain, a kill and a registration whose answer was lost disagree about which
  process a worker row stands for;
- the aggregator's two goroutines get, merge, delete and reset windows under
  different locks, over a transport that loses messages.

`PROJECT.json` lists the hazards at their lines, with the properties aimed at
them; where no property covers one, or none can, a note says why.

## 2. Modules

| Module | Models | Notes |
|---|---|---|
| `Capacity` | `scheduler/rps.go` | pure operators |
| `Repository` | the three tables; one operator per transaction | four variables: `testStatus`, `workerStatus`, `heartbeatFresh`, `assignment` |
| `ControlPlane` | the server: start/stop requests statement by statement, single-transaction requests, worker reconciler | clients may send any request at any time |
| `Fleet` | `ControlPlane` with real worker processes and an unreliable connection | its worker requests are only those the processes make |
| `TestLifecycle` | what a client sees of a test: the abstract specification of `ControlPlane` | from `docs/lifecycle.md`, with the transitions the code's unconditional writes add |
| `Transactions` | the transactions of `Repository` statement by statement with row locks and READ COMMITTED snapshots | shows that `Repository`'s atomic operators are what commits |
| `Autoscaler` | `ControlPlane` with the autoscaler, the provisioner and the processes it starts | composes with `ControlPlane` and refines it |
| `Execution` | one execution in a worker: pacing, semaphore, requests, flushes, stop, shutdown | |
| `Telemetry` | executions, NATS, the aggregator and its reports to VictoriaMetrics | extends `Execution` |
| `AtMostOnce` | what the pipeline promises: the abstract specification of `Telemetry` | |
| `MCCapacity`, `MCControlPlane`, `MCFleet`, `MCAutoscaler`, `MCTelemetry` | instances for TLC | |
| `CapacityProofs`, `ControlPlaneProofs`, `FleetProofs`, `LifecycleProofs`, `TransactionsProofs`, `AutoscalerProofs`, `TelemetryProofs` | theorems | |
| `SumProofs` | lemmas on sums over finite sets | for `CapacityProofs` and `AutoscalerProofs` |

The refinements, each checked by TLC on an instance and proved for all sizes:

    TestLifecycle <- ControlPlane <- Autoscaler
    AtMostOnce    <- Telemetry
    Repository    <- Transactions

the last one between the commit of a transaction and an atomic step.

`ControlPlane` says what the server does for *any* clients. `Fleet` composes it
with the processes: every step of theirs that reaches the server is one of
`ControlPlane`'s worker requests, so `Fleet` has the behaviours of `ControlPlane` by
the way it is built. That is a lemma of `FleetProofs`, which carries the theorems
about `ControlPlane` over, and no result of its own. What is worth stating about
`Fleet` is what holds only because workers behave: `NoStrandedReservation`,
`WorkIsAccounted` and the liveness of assignments.

How state corresponds to the code:

- `testStatus[t]`, `workerStatus[w]`, `assignment[t][w]` are the status columns,
  `NoRow` the absence of a row. `heartbeatFresh[w]` says whether
  `last_heartbeat` is newer than the reconciler's 120 s cutoff. Columns no guard
  reads (names, URLs, timestamps, `worker_count`) are dropped.
- `start[r]` and `stop[s]` are request slots: the next statement of a handler and
  what it has read (`seen`). A slot is free again when the handler returns, so
  a bound on slots is a bound on *concurrent* requests, not on their number.
- `reconciler` is the next statement of the worker reconciler.
- `reported` is a history variable: the completions accepted from workers.
- In `Transactions` the variables of `Repository` are what is committed;
  `tx[s]` is the open transaction of a connection with its next statement, the
  row it waits for and the rows it has yet to lock; `locks[s]` its row locks and
  `writes[s]` its uncommitted writes.
- In `Autoscaler`, `cycle` is the `Reconcile` that holds the mutex, with what it
  has read so far; `tracked` is `ProcessProvisioner.processes`; `process[h]` and
  `runsAs[h]` are the operating-system process of a generated hostname and the
  worker it registered as; `hostname[w]` is the column that ties the two together;
  `ask[r]` is what a start has asked of the autoscaler; `abandoned` is a history of
  the hosts whose termination was skipped or given up.
- In `Execution` and `Telemetry` a counter is the *set* of the requests it
  counts, so that one counted twice or nowhere is visible. `slots[e]` is the
  semaphore with the wait group, `executing[e]` the requests without a result yet,
  `collector[e]` the `Collector`, `bus` the published buckets, `window[t]` a
  `GlobalWindow`, `stored` the keys of `Store.tests`, `snapshots` what `report` has
  yet to write. `handling.live` says whether the window the callback got is still
  the store's.
- `TestLifecycle`'s `claim` and `stopping` are computed from the requests in
  flight and from the existence of assignment rows, `cut` from `assignment` and
  `reported`; `AtMostOnce`'s `made`, `told` and `gone` are the requests sent per
  test, `exported` and `lost`.
- `proc[w]` is the point the process registered as `w` has reached in
  `processAssignment`/`execute`, with `Worker.status`; `beat[w]` a heartbeat on
  its way. The identifier of a worker is given out once, as in the code: a
  restarted process registers as another `w`.

Atomicity. `ControlPlane` takes a repository method as one step. That is not
obvious under READ COMMITTED: each statement sees what was committed when *it*
began, waits for row locks and then looks at the row again. `Transactions` runs the
reports, the release and the sweep that way, from any reservation of workers for
tests, and `CommitsAreAtomic` says that whatever commits is what the atomic operator
does at that moment. There is one exception: a failure or a sweep that looked at the
test before `StartTest` wrote RUNNING commits as if just before that write, an order
`ControlPlane` has as well. And the sweep's operator has a parameter for the one
thing its two statements do not do as one: the second may overlook a RUNNING test
whose assignment another transaction failed while it ran (`MayBeOverlooked`); it never
overlooks a test of which it failed an assignment itself. `ControlPlane` lets every
sweep overlook what it may.

`Transactions` leaves out what writes worker rows only (registration, heartbeats, the
drain) and the reservation. They were not checked statement by statement; the argument
for them is that each reads and locks its worker rows in one statement and depends on
nothing else, so that one which changes a row after a report has looked at it counts as
coming after the report. The reservation passes over locked rows (`SKIP LOCKED`); which
workers that leaves is a nondeterministic choice, and when they are too few the start
rolls back, which `StartRollback` allows at any time.

In `ControlPlane` and `Fleet`, provisioning inside `ensureWorkersAvailable` shows as
workers that register at any time; its errors and its 30 s limit as
`StartRollback`. `Autoscaler` has the request wait for the mutex and for the cycle
it asked for. The HTTP API adds one thing, the 60 s timeout, which cuts a request
off between two statements.

## 3. Runs

All runs finish, and no run excuses a deadlock.

| Run | Instance | States | Shows |
|---|---|---|---|
| `capacity` | rates 1..40, capacities 1..12 | 480 | the split of a rate over workers is minimal, within capacity and conserves the rate |
| `safety` | 1 test, needing 2 or 1 of 2 workers; 2 starts, 2 stops, requests may die; symmetric | 293 000 | the type invariant and six safety properties below; `TestLifecycle` is implemented |
| `liveness` | 1 test, 2 workers, 2 starts, 1 stop, no request dies; fair | 113 000 | no test left STARTING or STOPPING; dead workers' assignments end, and fail their test |
| `fleet_reuse` | 2 tests that need the 1 worker process, with a stop, or 1 test on 2 processes; 1 start; symmetric | 906 000 | no worker stranded in RESERVED; what a process works on is accounted for |
| `fleet_liveness` | 1 test, 1 worker process, 1 start, 1 stop; fair | 18 000 | reservations end; worker rows come back from RUNNING |
| `transactions` | 1 test, 2 workers, one of them overdue; a report session each, a release and the sweep; every reservation | 391 000 | what commits is atomic; reports alone never deadlock |
| `autoscaler_drain` | 1 test, 2 worker rows, 1 generated host, 1 start; lost answers, exits, restarts, Compose workers | 354 000 | drains tear down what they drain and kill nothing else; refinement of `ControlPlane` |
| `autoscaler_liveness` | 1 test needing 1 worker, 2 worker rows, 2 generated hosts, 1 stop; fair | 119 000 | the mutex is released on every path; a fleet provisioned once too often shrinks |
| `telemetry` | 2 workers on one test, 2 requests, concurrency 2; faults; fair | 182 000 | every request in one place; contributors match; `AtMostOnce` is implemented; a stop ends the run; what is recorded is reported |

Safety properties of `safety`, each also proved for every size:

- `CompletedByWorkers`: a COMPLETED test was completed by reports of all its
  workers. This is not obvious: a stop marks active assignments COMPLETED by
  itself, and a late start may write RUNNING afterwards.
- `AllocatedOnceInFull`, `UnallocatedUntilReserved`: concurrent starts, rollbacks
  and retries allocate a test once, in full, and never forget a reservation. With a
  test that needs one of two workers a second allocation would find a free worker.
- `FailedHasCause`: FAILED tests have a FAILED assignment.
- `OutcomesAreFinal`: late, repeated or contradictory reports change nothing.
- `GoneWorkersStayGone`: nothing makes a DRAINING or OFFLINE worker assignable,
  not even the heartbeats of an OFFLINE worker that has come back: only a new
  registration does.

Properties of the other safety runs, beyond refinement:

- `NoStrandedReservation` (`fleet_reuse`): the process behind a RESERVED row will
  find an assignment when it polls.
- `WorkIsAccounted` (`fleet_reuse`): the assignment that a process works on is RUNNING
  in the database unless a stop or the sweep has ended it behind its back, nothing was
  reported of it, and its test does not count as COMPLETED. An assignment that was
  released between the poll and `StartAssignment` is therefore never executed, and a
  process declared OFFLINE while it executes cannot be overtaken by the completion of
  its test.
- `DrainedIsTornDown`, `KilledWasDrained` (`autoscaler_drain`): a worker may be
  reserved between `GetWorkers` and the drain, and rows may name a process that
  registered twice. A process is killed only on behalf of a row that was IDLE when it
  was drained (a ghost row may stand for a process that is busy under another row, see
  Departures); only rows of processes the server started are drained, and none keeps its
  process except after a fault the property names.
- `IdleFleetShrinks` (`autoscaler_liveness`): the loop may start a second process for a
  shortfall before the first has registered; without demand the scale-down takes both,
  and whatever else is left IDLE, however the excess came about.
- `CommitsAreAtomic`, `ReportsDoNotDeadlock` (`transactions`): see Atomicity. The
  second holds of worker reports alone; the sweep and a release can be part of a
  deadlock, which PostgreSQL resolves by aborting one (`DeadlockResolved`).
- `CountedOnce` (`telemetry`): a request is in exactly one of eight places (in
  flight, collector, bus, callback, window, snapshot, reported, lost).
  `ContributorsMatch`: `ContributingWorkers` of a snapshot are those whose buckets
  it sums. `NothingAfterLastFlush`: nothing records after the last flush.

Why the bounds suffice. Two workers per test are the least for which the last
completion, a partial reservation and a failed sibling differ from the whole.
Two starts race for the claim, and two stops and a start overlap in every
order; a third request of a kind can only repeat what an earlier one did, as a
slot is reused without limit. In `safety` either the test that needs both workers or
the one that needs one is created (`OneTestCreated`), and two stops overlap only while
the workers are heard of and neither DRAINING nor OFFLINE (`StopsOverlapInService`);
one stop runs beside everything. Tests interact only through shared workers, which
`fleet_reuse` and `v_handed` exercise; there either two tests take one process in turn,
with a stop at any time, or two processes share one test that nobody stops
(`ReusedOrShared`). The theorems cover every number of everything, and no
constraint. The one test of `fleet_liveness` is enough because both its properties
concern a single pair of a test and a worker, and another test can delay a
worker only until its own execution ends; this case is not checked, though.
In `autoscaler_drain` one generated host and two rows are the least for which a
registration with a lost answer gives one process a row of its own and a ghost, or a
Compose worker stands beside a managed one. In `autoscaler_liveness` two hosts and two rows
are the least for which one shortfall is provisioned twice. A host name is used once, as
in the code, so that hosts also bound how often the fleet grows. Demand comes from a CREATED
test and goes by a stop; starts, lost answers, restarts and Compose workers are left to
`autoscaler_drain`. A cycle that a start asked for takes the same steps as one of the loop.
Two requests and two executions are the least for which two buckets meet in
one window, two snapshots follow each other, and one is lost while the other is
counted. The state counts are of distinct states.

### Fairness

- A handler that is not cut off reaches its next statement, and
  `ensureWorkersAvailable` gives up after 30 s: weak fairness of
  `StartProgress`/`StopProgress` (one action per slot, so that it never demands
  that workers arrive). With `RequestsDie` the handler may end at any point.
- The 5 s ticker: weak fairness of the tick's first statement. Strong fairness of
  a second that overlooks nothing: it may fail (`ReconcileSkipped`), or run beside a
  failure that commits too late for it, but not for ever. Each assignment fails
  once, so only finitely many sweeps can run beside one that does.
- A live process polls (ticker), its calls return (10 s client limit, 5 s for
  reports), its execution ends (the duration bounds it), it sends heartbeats:
  weak fairness. `StartAssignment` and heartbeats, which are repeated, get
  through in the end: strong fairness. Reports are *not* repeated and may always
  be lost: `ReportFails` is a fair alternative to their delivery, and an
  assignment whose report is lost stays RUNNING under a live worker.
- After a process died 120 s pass.
- The autoscaler's loop ticks and gets the mutex in its turn (a waiter of a
  `sync.Mutex` that starves is served first): strong fairness of `CycleBegins`.
  A cycle goes on or returns an error: weak fairness of `CycleStep`; errors are not
  permanent: strong fairness of `CycleScalesDown` and `CycleDrains`. Nothing is
  assumed of processes.
- Requests of an execution end (their context reaches the HTTP client), its
  goroutines are scheduled, a cancelled scheduler leaves its loop, the flush
  ticker fires; messages are handled; the report ticker fires and VictoriaMetrics
  answers: weak fairness. The end of the *duration* is not assumed, only that of
  a cancelled run, so `CancelEndsRun` is about stops and shutdowns.

Nothing is assumed of operators, of provisioning, or of workers arriving.

### Findings

Each `v_...` run states what a document or comment of the repository says, and
TLC finds the behaviour of the code that differs; the quotations and lines are
in `PROJECT.json`.

| Run | What happens |
|---|---|
| `v_completion` | all workers complete before RUNNING is written: the test stays RUNNING |
| `v_handed` | stopping one test frees a worker RESERVED for another |
| `v_orphan` | a report deletes the window the subscriber has just got; the bucket merged into it is never reported |

### Departures

Other places where the code does not do what a document says. No run has these
expectations as a property, but the modules contain the behaviour, and their
properties hold in spite of it:

- The last writes of start and stop are unconditional, so a start that waited for
  workers makes a STOPPED test RUNNING, and a stop may write STOPPED over whatever
  came since it read the status, COMPLETED included; `docs/lifecycle.md:12-21` and `:53-54` draw neither.
  `TestLifecycle` has `Run` and `Stopped` overwrite any status.
- A start that is cut off leaves STARTING behind: the rollback uses the cancelled
  context (`internal/service/test_service.go:316-318` says it keeps the test from
  being "stuck in STARTING forever"). `Abandon` in `TestLifecycle`.
- An IDLE heartbeat that arrives after `MarkAssignmentRunning`, or follows an
  unanswered start of an assignment, frees a worker for a second test
  (`docs/phase-03-worker-scheduling.md:118` "two tests can never reserve the same worker
  simultaneously" is meant of the reservation).
- `internal/worker` tests for its own `ErrAssignmentStopped` (`worker.go:20`,
  `:169`) but `execute` returns the one of another package (`executor.go:129`), so
  a stop is reported as a failure, which the server rejects only if the release came
  first.
- On shutdown `ctx.Done()` and the end of the engine are ready together
  (`executor.go:70`, `:141`); if `select` takes the second, an execution cut short is
  reported complete.
- `docs/phase10.md:214-220` and `:318-327` say that an idle Compose worker without demand
  "will still" be marked DRAINING, "even though `ProcessProvisioner` can't actually
  terminate its process". The code no longer does that: `scaleDown` filters its candidates
  by `isAutoscalerManagedWorker` (`internal/autoscaler/reconciler.go:232-246`), as the
  comment above it, `docs/lifecycle.md:112-114` and the tests at
  `internal/autoscaler/reconciler_test.go:541` and `:607` say. `DrainedIsTornDown` states
  the behaviour of the code, that every DRAINING row has a generated hostname, and so the
  opposite of that document.
- `README.md:186` says loop and starts "can never double-provision". Processes count
  only once they have registered, so two cycles may provision for the same shortfall;
  the excess is drained later (`IdleFleetShrinks`).
- `internal/autoscaler/capacity.go:48-56` says a CREATED test does not trigger
  provisioning, but `Reconcile` takes the larger of active and pending demand as
  its target.
- A registration whose answer was lost leaves an IDLE row with the hostname of a
  process that runs as another worker; draining that row kills the process, busy or
  not. `KilledWasDrained` says no more than that *a* row of it was drained.
- An error from `Kill`, such as `os.ErrProcessDone` of a process already waited for,
  ends `Terminate`: the hosts after it are left running (`abandoned`).
- The write to VictoriaMetrics has neither deadline nor client timeout; one that
  never returns stops all reports. The fairness of `Telemetry` assumes that it answers.

## 4. Proofs

`tlapm` checks every proof to the last leaf. Assumptions on constants: every
rate and the worker capacity are positive (`CreateTest` and the configuration
enforce it), the concurrency limit is positive, the switches are Boolean,
every execution has a test and a worker, the connections of a stop, of the
reconciler and of the workers are different ones, and `Unmanaged`, which stands for the
hostnames of workers the server did not start, is none of those it generates
(they have a prefix of their own). The sets of tests, workers, hosts, slots,
executions and requests are arbitrary, as are the rates; for the autoscaler, which
counts them, tests and workers are finitely many.

- `Capacity`: `RequiredWorkersMinimal`, `SharesFitCapacity`, from one lemma on
  integer division, and `DemandAlwaysCovered`, `SharesAlwaysFit`,
  `RateAlwaysConserved` for the properties of the run. The sum of the shares is a
  fold, that is, a function on sets of workers defined by recursion, and the library's
  induction theorems take an operator that no prover here instantiates. `SumProofs`
  goes round that: it proves from minimal counterexamples (`WFMin`, for a set of
  numbers and for the subsets of a finite set) that the recursive equation has a
  solution and no second one (`SumsExist`, `SumsUnique`). A sum is then known once
  *some* function solves its equation: `SumOfShares` gives it in closed form, the base
  share times the number of workers plus the number of those below the remainder.
- `ControlPlane`: `TypeCorrect`; `AllocatedOnce` and `ClaimIsExclusive`; these two
  are inductive together with `ClaimHeld` (a request before its reservation holds
  its test out of CREATED; after it the test has its workers), which is what
  makes a claim exclusive although nothing locks the test between statements.
- `CompletionIsEarned` needs `CompletionAccounted`: for every test, either all
  its COMPLETED assignments were reported, or a release happened, after which the
  test is not COMPLETED and has no active assignment left that could complete it.
- `FailureHasCause`, `FinalOutcomes`, `GoneForGood` follow from type correctness
  action by action.
- `Fleet`: `FleetTypeCorrect`, and all of the above by the lemma
  `FleetRefinesControlPlane`;
  `NoneStranded`, from `WorkIsStarted`: a process past `StartAssignment` works on
  an assignment that is no longer RESERVED, hence its `FailAssignment`, which
  leaves the worker row alone, ends no reservation;
  `WorkAccounted`, from `WorkInv`. What was reported is COMPLETED
  (`ReportedIsCompleted`), so a process that begins work, which takes a RUNNING
  assignment, has not reported it; only the process itself could, and a report ends
  its work (`ReportEndsWork`). Only the process or the sweep makes its assignment
  FAILED, and the sweep only once its worker is OFFLINE, which is for good
  (`FailedBySweepOrProcess`). The last part, that its test is not COMPLETED, is
  `CompletedByWorkers`: a COMPLETED test has a report of every assignment.

- `TransactionsProofs`: `CommitsLookAtomic`, `NoDeadlockAmongReports`,
  `TransactionsTypeCorrect`, from `TransactionsInv`:
  - `RowsExist` and `LocksHeld`: sessions lock disjoint sets of existing rows and write
    only what they hold.
  - `Progress(s, x)`, for each call: how far session `s` has come says which rows it
    holds, what it has written to them, and what of the committed state cannot change
    before it commits, whether it waits or not. A completion past its first statement
    holds the row of the test, for example; a sweep past its first has written FAILED
    to every assignment that is lost by now, since only its own session makes workers
    OFFLINE. What others commit in the meantime is the subject of `BesideProgress`:
    statuses of rows a session holds do not change, and `early` grows whenever RUNNING
    is written behind its back.
  - From there `ProgressMayCommit`: after the last statement, `Progress` describes
    exactly what the operator of `Repository` would do. The last completion
    is the delicate case: the lock on the row of the test means that no other
    completion can be past its first statement, so what `completeTest` saw of
    the siblings still holds (`CommitKeepsLast`).
  - No deadlock: a report locks only its assignment, its worker and its test, so what
    it waits for of another report is the row of their test, before it has that row
    (`ReportWaits`). The report that has it would have to wait for the same row, which
    it has: it waits for no report.
- `LifecycleProofs`: `LifecycleImplemented`. The mapping computes how far a start has
  come from the request slots, so the proof needs `OneStart` (two starts of one test
  are never under way together), `RunIsSpent` (a test that got to RUNNING has its
  workers and no start that could still write), `StopSawOpen` (what a stop read), and
  the invariants of `CompletionIsEarned`, which is what forbids `Complete` after
  `CutShort`.
- `AutoscalerProofs`: `AutoscaledControlPlane` (every step is one of `ControlPlane` or
  a stutter), `AutoscalerTypeCorrect`, `DrainTearsDown` and `KillsAreDrained`. The
  two numbers a cycle compares are a sum over tests and a cardinality
  (`CountsAreNatural`, with `SumProofs`); that a cycle always has a positive number of
  processes left to start follows from what it compared, and that it kills hosts only
  from `CycleShape`, below. The invariant `FleetInv` adds to
  the two properties that candidates for a drain are rows with generated hostnames
  (`CycleShape`) and that a row's hostname was once started (`HostsStarted`): a drain
  makes a DRAINING row and, in the same step, enters its host into the list of the
  cycle; the host leaves that list by a kill, a skip or an error.
- `TelemetryProofs`: `TelemetryTypes`; `LastFlushIsLast`, from `EngineInv` (a returned
  engine has no request left); `CountedInOnePlace`, `ContributorsCounted` and
  `CountingImplemented`, all from `CountInv`. `CountInv` says that one execution
  made a request (`SentOnce`), that whatever counts it knows that execution or its
  test (`Owned`), that no two buckets or snapshots share one and none is reported
  twice (`NoTwins`), that the eight places exclude each other and cover what was
  sent (`Single`), and that only windows in the store hold anything (`StoreInv`):
  without it a report could delete a window with requests.

Every invariant and action property of a passing run is the statement of a theorem.
Model-checked only: the liveness properties, `StartingIsLeft`, `StoppingIsLeft`,
`LostAssignmentsEnd`, `FailureReachesTest`, `ReservationsEnd`, `WorkersComeBack`,
`MutexReleased`, `IdleFleetShrinks`, `CancelEndsRun` and `RecordedIsReported`. They rest
on fairness, for which `tlapm` has no rules here.

## 5. Not modelled, and the plan

Not modelled:

- Dashboard queries: read-only requests to VictoriaMetrics, without state.
- Configuration, validation, wiring in `cmd`: run once, before anything concurrent;
  the ranges they enforce are the assumptions on constants.
- Decoding and encoding in the HTTP handlers, the text of the Prometheus lines,
  latencies and percentiles: data no guard reads.
- Time: the rate of the ticks in `execution/scheduler.go`, and every interval, is
  only "some time later".
- Ambiguous commits: a transaction that committed although its caller sees an error
  is taken to have rolled back.
- `UpdateWorkerCount` and the other columns no guard reads; deployment files.

What could follow, in this order:

1. Ambiguous commits as a fault of `ControlPlane`: which of its invariants survive a
   reservation whose caller believes it failed.
2. The reservation's `SKIP LOCKED`, heartbeats and the drain as statements of
   `Transactions`, and their proof beside the others'.
3. `Fleet` and `Autoscaler` in one module, so that a kill meets a worker's protocol.
