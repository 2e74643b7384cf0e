SPECIFICATION FairSpec
CONSTANTS
  t1 = t1
  t2 = t2
  Tests = {t1}
  Workers = {w1, w2}
  Starters = {r1}
  Stoppers = {}
  Rps <- OneWide
  WorkerCapacityRPS <- MCCapacity
  RequestsDie = FALSE
PROPERTY CompletionReachesTest
