SPECIFICATION Spec
CONSTANTS
  t1 = t1
  t2 = t2
  Tests = {t1, t2}
  Workers = {w1, w2}
  Starters = {r1, r2}
  Stoppers = {s1, s2}
  Rps <- WideAndNarrow
  WorkerCapacityRPS <- MCCapacity
  RequestsDie = TRUE
SYMMETRY SlotsAndWorkers
CONSTRAINTS
  OneTestCreated
  StopsOverlapInService
INVARIANTS
  TypeOK
  CompletedByWorkers
  AllocatedOnceInFull
  UnallocatedUntilReserved
  FailedHasCause
PROPERTIES
  OutcomesAreFinal
  GoneWorkersStayGone
  ImplementsTestLifecycle
