SPECIFICATION FairFleetSpec
CONSTANTS
  t1 = t1
  t2 = t2
  t3 = t3
  Tests = {t1}
  Workers = {w1}
  Starters = {r1}
  Stoppers = {s1}
  Rps <- OneNarrow
  WorkerCapacityRPS <- MCCapacityRPS
  RequestsDie = FALSE
PROPERTIES
  ReservationsEnd
  WorkersComeBack
