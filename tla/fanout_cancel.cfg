SPECIFICATION Spec
CONSTANTS
  e1 = e1
  e2 = e2
  p1 = p1
  p2 = p2
  c1 = c1
  c2 = c2
  c3 = c3
  c4 = c4
  NoOwner = NoOwner
  NumUsers = 3
  Targets <- ThreeUsersChannels
  UserOf <- ThreeUsers
  PageTasks = 2
  Executors <- OneExecutor
  WorkerId <- SharedId
  Processors <- TwoProcessors
  BatchSize = 1
  ChannelSize = 1
  MaxFaults = 1
  MaxDbErrors = 1
  MaxRetries = 0
  MaxRecovers = 0
SYMMETRY Interchangeable
INVARIANTS LateTasksAreBounded VerdictIsEarned
PROPERTIES CancelledRunStays VerdictIsFinal
CHECK_DEADLOCK FALSE
