SPECIFICATION Spec
CONSTANTS
  t1 = t1
  t2 = t2
  w1 = w1
  w2 = w2
  NoTask = NoTask
  Tasks <- OneTask
  Workers <- TwoWorkers
  MaxAttempts = 2
  MaxCopies = 1
  MaxCrashes = 1
  MaxDbErrors = 0
SYMMETRY Interchangeable
INVARIANTS HoldersInv DlqInv StatsInv
PROPERTIES SettledForever LiveLeaseRespected LedgerSpec
CHECK_DEADLOCK FALSE
