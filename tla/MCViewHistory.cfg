SPECIFICATION Spec
CONSTANTS
  o1 = o1
  o2 = o2
  None = None
  p1 = p1
  p2 = p2
  Objects = {o1, o2}
  Poses = {p1, p2}
  MaxHistory = 3
INVARIANTS
  HistoryBounded
PROPERTIES
  ImplementsTrail
