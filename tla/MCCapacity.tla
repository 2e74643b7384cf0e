----------------------------- MODULE MCCapacity -----------------------------
(* Capacity over every request rate and worker capacity up to a bound.     *)
EXTENDS Capacity, Functions

CONSTANTS MaxRps, MaxCapacity

ASSUME BoundsAssumption == MaxRps \in Nat /\ MaxCapacity \in Nat

VARIABLES rps, capacityRPS

Init == rps \in 1..MaxRps /\ capacityRPS \in 1..MaxCapacity

Next == UNCHANGED <<rps, capacityRPS>>

Spec == Init /\ [][Next]_<<rps, capacityRPS>>

Shares == DistributeRPS(rps, RequiredWorkers(rps, capacityRPS))

\* RequiredWorkers is the least sufficient number of workers.
DemandCovered == CoversDemand(rps, capacityRPS)

\* Every share of DistributeRPS is positive and within a worker's capacity.
SharesFit == SharesWithinCapacity(rps, capacityRPS)

\* The shares of DistributeRPS add up to the rate of the test: none of the
\* requested load is lost or doubled in the split.
RateConserved == FoldFunction(+, 0, Shares) = rps

=============================================================================
