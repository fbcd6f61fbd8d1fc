\* A broadcast and a job, one try each, while workers are discovered.
CONSTANTS
  w1 = w1
  w2 = w2
  e1 = e1
  e2 = e2
  c1 = c1
  c2 = c2
  LookUp = LookUp
  NoOne = NoOne
  Worker = {w1, w2}
  Entry = {e1, e2}
  Addr <- Addr2
  Conn = {n1, n2}
  Client = {c1, c2}
  CallOf <- BroadcastAndJob
  UseDomain = TRUE
  MaxPriority = 15
  MaxFaults = 1
  MaxRestarts = 0
  kMaxFailedWorkersTrials = 3
  kMaxBroadcastFailedNodes = 2
  kReportPeriod = 2
  kMaxTries = 1
  RouteParts = 2
SPECIFICATION FairSpec
PROPERTIES
  CallsReturn
  MutexIsReleased
CHECK_DEADLOCK FALSE
