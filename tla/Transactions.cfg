SPECIFICATION TransactionsSpec
CONSTANTS
  Tests = {t1}
  Workers = {w1, w2}
  Silent = {w1}
  StopSession = stop
  ReconcilerSession = reconciler
INVARIANTS
  TransactionsTypeOK
  ReportsDoNotDeadlock
PROPERTY
  CommitsAreAtomic
