\* A routing job with two result messages and a request for an address.
CONSTANTS
  w1 = w1
  w2 = w2
  e1 = e1
  e2 = e2
  c1 = c1
  c2 = c2
  LookUp = LookUp
  NoOne = NoOne
  Worker = {w1, w2}
  Entry = {e1, e2}
  Addr <- Addr2
  Conn = {n1, n2, n3, n4}
  Client = {c1, c2}
  CallOf <- RouteAndAddress
  UseDomain = FALSE
  MaxPriority = 15
  MaxFaults = 2
  MaxRestarts = 0
  kMaxFailedWorkersTrials = 3
  kMaxBroadcastFailedNodes = 2
  kReportPeriod = 2
  kMaxTries = 2
  RouteParts = 2
SPECIFICATION Spec
SYMMETRY ConnSymmetry
INVARIANTS
  LimitsKept
  ResultsOfOneRun
CHECK_DEADLOCK FALSE
