SPECIFICATION FairSpec
CONSTANTS
  t1 = t1
  t2 = t2
  Tests = {t1}
  Workers = {w1, w2}
  Starters = {r1, r2}
  Stoppers = {s1}
  Rps <- OneWide
  WorkerCapacityRPS <- MCCapacity
  RequestsDie = FALSE
PROPERTIES
  StartingIsLeft
  StoppingIsLeft
  LostAssignmentsEnd
  FailureReachesTest
