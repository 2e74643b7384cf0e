SPECIFICATION AutoscalerSpec
CONSTANTS
  t1 = t1
  Tests = {t1}
  Workers = {w1, w2}
  Hosts = {h1}
  Starters = {r1}
  Stoppers = {}
  Rps <- OneNarrow
  WorkerCapacityRPS <- MCWorkerCapacity
  RequestsDie = TRUE
  AnswersLost = TRUE
  ServerRestarts = TRUE
  ComposeWorkers = TRUE
INVARIANTS
  AutoscalerTypeOK
  DrainedIsTornDown
  KilledWasDrained
PROPERTY Spec
