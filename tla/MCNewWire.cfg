SPECIFICATION Spec
CONSTANTS
  i1 = i1
  w1 = w1
  top = top
  m1 = m1
  m2 = m1
  None = None
  Objects = {i1, w1, top}
  Batched = {w1, top}
  Nameless = top
  Layers = {m1}
  Prefixed <- MCPrefixed
  Nearest <- MCNearest
  MaxPerFrame = 1
  Spare = 1
  Designs <- Reloaded
  Frusta <- AllInView
  Poses = {p1}
  MaxHistory = 1
  Operations = {"refresh"}
INVARIANTS
  BatchedAreDrawn
