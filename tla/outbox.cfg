SPECIFICATION FairSpec
CONSTANTS
  r1 = r1
  r2 = r2
  run = run
  p1 = p1
  p2 = p2
  Nobody = Nobody
  TaskRows <- TwoTasks
  Starts <- TwoStarts
  RunRows <- OneRun
  Unroutable <- OneRun
  Publishers <- TwoPublishers
  BatchSize = 2
  MaxAttempts = 3
  TaskAttempts = 2
  MaxFaults = 1
INVARIANTS FailsByClaims ClaimsAreExclusive StatsInv
PROPERTIES EndedTaskStays RowsLeave ContractSpec
CHECK_DEADLOCK FALSE
