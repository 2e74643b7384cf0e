SPECIFICATION FairAutoscalerSpec
CONSTANTS
  t1 = t1
  Tests = {t1}
  Workers = {w1, w2}
  Hosts = {h1, h2}
  Starters = {}
  Stoppers = {s1}
  Rps <- OneNarrow
  WorkerCapacityRPS <- MCWorkerCapacity
  RequestsDie = FALSE
  AnswersLost = FALSE
  ServerRestarts = FALSE
  ComposeWorkers = FALSE
PROPERTIES
  MutexReleased
  IdleFleetShrinks
