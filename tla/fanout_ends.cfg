SPECIFICATION FairSpec
CONSTANTS
  e1 = e1
  e2 = e2
  p1 = p1
  p2 = p2
  c1 = c1
  c2 = c2
  c3 = c3
  c4 = c4
  NoOwner = NoOwner
  NumUsers = 2
  Targets <- OneChannel
  UserOf <- OneUser
  PageTasks = 1
  Executors <- OneExecutor
  WorkerId <- SharedId
  Processors <- TwoProcessors
  BatchSize = 1
  ChannelSize = 1
  MaxFaults = 1
  MaxDbErrors = 1
  MaxRetries = 1
  MaxRecovers = 0
PROPERTIES RunCloses CancelEnds
CHECK_DEADLOCK FALSE
