------------------------------- MODULE MCFleet -------------------------------
(* Instances of Fleet for TLC.                                             *)
EXTENDS Fleet, TLC

CONSTANTS t1, t2, t3

\* Capacity 2: a test at rate 3 takes two workers, one at rate 1 takes one.
MCCapacityRPS == 2
OneNarrow == t1 :> 1
WideAndNarrow == t1 :> 3 @@ t2 :> 1
WideAndTwoNarrow == t1 :> 3 @@ t2 :> 1 @@ t3 :> 1

AnyWorker == Permutations(Workers)

\* Bounds of the safety run, as a constraint.  Either the two narrow tests
\* take the one worker in turn, with a stop under way or not, or the wide test
\* has two workers and is not stopped.
OneWorkerReused ==
  /\ testStatus[t1] = NoRow
  /\ Cardinality({w \in Workers : workerStatus[w] # NoRow}) <= 1

OneTestShared ==
  /\ \A t \in {t2, t3} : testStatus[t] = NoRow
  /\ \A s \in Stoppers : StopAt(s, "free")

ReusedOrShared == OneWorkerReused \/ OneTestShared

=============================================================================
