SPECIFICATION FairSpec
CONSTANTS
  t1 = t1
  t2 = t2
  w1 = w1
  w2 = w2
  NoTask = NoTask
  Tasks <- OneTask
  Workers <- OneWorker
  MaxAttempts = 2
  MaxCopies = 1
  MaxCrashes = 1
  MaxDbErrors = 1
PROPERTIES RetryEventuallyRuns SettledUnlessNacked
CHECK_DEADLOCK FALSE
