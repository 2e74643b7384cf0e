--------------------------- MODULE MCControlPlane ---------------------------
(* Instances of ControlPlane for TLC.                                      *)
EXTENDS ControlPlane, TLC

CONSTANTS t1, t2

\* Capacity 2: a test at rate 3 takes two workers, one at rate 1 takes one.
MCCapacity == 2
OneWide == t1 :> 3
WideAndNarrow == t1 :> 3 @@ t2 :> 1

SlotsAndWorkers ==
  Permutations(Workers) \cup Permutations(Starters) \cup Permutations(Stoppers)

\* Bounds of the safety run, as constraints.  Either the wide test or the
\* narrow one is created, and two stops overlap only while every worker is in
\* service and heard of.
OneTestCreated == testStatus[t1] = NoRow \/ testStatus[t2] = NoRow

InService(w) ==
  workerStatus[w] # NoRow => heartbeatFresh[w] /\ workerStatus[w] \notin {"DRAINING", "OFFLINE"}

StopsOverlapInService ==
  (\A s \in Stoppers : ~StopAt(s, "free")) => \A w \in Workers : InService(w)

=============================================================================
