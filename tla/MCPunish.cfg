\* One worker that is not running; a 4-bit priority.
CONSTANTS
  w1 = w1
  w2 = w2
  e1 = e1
  e2 = e2
  c1 = c1
  c2 = c2
  LookUp = LookUp
  NoOne = NoOne
  Worker = {w1}
  Entry = {e1}
  Addr <- Addr1
  Conn = {n1, n2}
  Client = {c1, c2}
  CallOf <- TwoJobs
  UseDomain = FALSE
  MaxPriority = 15
  MaxFaults = 0
  MaxRestarts = 0
  kMaxFailedWorkersTrials = 3
  kMaxBroadcastFailedNodes = 2
  kReportPeriod = 2
  kMaxTries = 1
  RouteParts = 2
SPECIFICATION Spec
PROPERTIES
  PunishedIsPushedBack
CHECK_DEADLOCK FALSE
