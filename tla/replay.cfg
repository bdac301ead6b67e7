SPECIFICATION FairSpec
CONSTANTS
  t1 = t1
  t2 = t2
  a1 = a1
  a2 = a2
  o1 = o1
  o2 = o2
  Tasks <- OneTask
  ApiCalls <- TwoApiCalls
  OpCalls <- OneOpCall
  MaxAttempts = 1
  Ceiling = 3
  Additional = 1
  MaxFaults = 2
INVARIANT ItemsMatchTasks DeadLettersCounted OneSendAtATime OneEffectPerKey
PROPERTY DeliveredStays RetryRuns CallsEnd
CHECK_DEADLOCK FALSE
