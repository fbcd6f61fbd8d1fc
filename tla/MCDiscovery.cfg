\* Two workers found by their domain name while two clients broadcast.
CONSTANTS
  w1 = w1
  w2 = w2
  e1 = e1
  e2 = e2
  c1 = c1
  c2 = c2
  LookUp = LookUp
  NoOne = NoOne
  Worker = {w1, w2}
  Entry = {e1, e2}
  Addr <- Addr2
  Conn = {n1, n2, n3}
  Client = {c1, c2}
  CallOf <- TwoBroadcasts
  UseDomain = TRUE
  MaxPriority = 15
  MaxFaults = 1
  MaxRestarts = 1
  kMaxFailedWorkersTrials = 3
  kMaxBroadcastFailedNodes = 2
  kReportPeriod = 2
  kMaxTries = 2
  RouteParts = 2
SPECIFICATION Spec
SYMMETRY ConnSymmetry
INVARIANTS
  QueuedWorkersUpToDate
  AppliedInOrder
CHECK_DEADLOCK FALSE
