SPECIFICATION FleetSpec
CONSTANTS
  t1 = t1
  t2 = t2
  t3 = t3
  Tests = {t1, t2}
  Workers = {w1, w2}
  Starters = {r1}
  Stoppers = {s1}
  Rps <- WideAndNarrow
  WorkerCapacityRPS <- MCCapacityRPS
  RequestsDie = FALSE
INVARIANT ReservedNotHandedBack
