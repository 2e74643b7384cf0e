SPECIFICATION FairTelemetrySpec
CONSTANTS
  e1 = e1
  e2 = e2
  t1 = t1
  t2 = t2
  w1 = w1
  w2 = w2
  Executions = {e1, e2}
  Requests = {q1, q2}
  Concurrency = 2
  Tests = {t1}
  TestOf <- SharedTest
  WorkerOf <- TwoWorkers
INVARIANTS
  TelemetryTypeOK
  NothingAfterLastFlush
  CountedOnce
  ContributorsMatch
PROPERTIES
  ImplementsAtMostOnce
  CancelEndsRun
  RecordedIsReported
