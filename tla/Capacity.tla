------------------------------ MODULE Capacity ------------------------------
(***************************************************************************)
(* The scheduler's pure arithmetic (internal/scheduler/rps.go): how many   *)
(* workers a request rate needs and how that rate is split between them.   *)
(* The error returns for arguments <= 0 are unreachable: CreateTest        *)
(* rejects rps <= 0 and the configuration only accepts a positive worker   *)
(* capacity, so the operators are total on positive arguments.             *)
(***************************************************************************)
EXTENDS Naturals

\* Defect variant: floor instead of ceiling.
RequiredWorkersRoundedDown(rps, capacityRPS) == rps \div capacityRPS

\* Go's integer division truncates; on positive operands that is \div.
RequiredWorkers(rps, capacityRPS) == (rps + capacityRPS - 1) \div capacityRPS

\* Defect variant: the remainder is dropped.
DistributeRPSEvenly(totalRPS, workerCount) ==
  [i \in 1..workerCount |-> totalRPS \div workerCount]

\* Defect variant: all of the remainder goes to the first worker.
DistributeRPSLumped(totalRPS, workerCount) ==
  [i \in 1..workerCount |->
     (totalRPS \div workerCount) + (IF i = 1 THEN totalRPS % workerCount ELSE 0)]

\* allocations[i], with the slice index shifted to 1..workerCount.
DistributeRPS(totalRPS, workerCount) ==
  LET base      == totalRPS \div workerCount
      remainder == totalRPS % workerCount
  IN  [i \in 1..workerCount |-> IF i <= remainder THEN base + 1 ELSE base]

-----------------------------------------------------------------------------

\* The workers a test gets can carry its rate together, and one fewer cannot.
CoversDemand(rps, capacityRPS) ==
  LET n == RequiredWorkers(rps, capacityRPS)
  IN  n * capacityRPS >= rps /\ (n - 1) * capacityRPS < rps

\* No worker of the test gets a share above its capacity, and none gets an
\* idle share of 0, for which the execution scheduler has no interval.
SharesWithinCapacity(rps, capacityRPS) ==
  LET n == RequiredWorkers(rps, capacityRPS)
  IN  \A i \in 1..n : DistributeRPS(rps, n)[i] \in 1..capacityRPS

=============================================================================
