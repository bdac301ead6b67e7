SPECIFICATION Spec
CONSTANTS
  t1 = t1
  t2 = t2
  w1 = w1
  w2 = w2
  NoTask = NoTask
  Tasks <- TwoTasks
  Workers <- TwoWorkers
  MaxAttempts = 1
  MaxCopies = 1
  MaxCrashes = 1
  MaxDbErrors = 1
SYMMETRY Interchangeable
INVARIANTS IInv
CHECK_DEADLOCK FALSE
