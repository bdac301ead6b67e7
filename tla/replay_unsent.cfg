SPECIFICATION FairSpec
CONSTANTS
  t1 = t1
  t2 = t2
  a1 = a1
  a2 = a2
  o1 = o1
  o2 = o2
  Tasks <- OneTask
  ApiCalls <- OneApiCall
  OpCalls <- OneOpCall
  MaxAttempts = 1
  Ceiling = 3
  Additional = 0
  MaxFaults = 0
PROPERTY QueuedRuns
CHECK_DEADLOCK FALSE
