SPECIFICATION Spec
CONSTANTS
  e1 = e1
  e2 = e2
  p1 = p1
  p2 = p2
  c1 = c1
  c2 = c2
  c3 = c3
  c4 = c4
  NoOwner = NoOwner
  NumUsers = 2
  Targets <- OneUsersChannels
  UserOf <- OneUsers
  PageTasks = 2
  Executors <- TwoExecutors
  WorkerId <- SharedId
  Processors <- OneProcessor
  BatchSize = 1
  ChannelSize = 1
  MaxFaults = 1
  MaxDbErrors = 1
  MaxRetries = 0
  MaxRecovers = 1
SYMMETRY Interchangeable
INVARIANTS SignalInv PipelineInv CompletedRunIsWhole
CHECK_DEADLOCK FALSE
