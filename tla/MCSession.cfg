SPECIFICATION Spec
CONSTANTS
  i1 = i1
  w1 = w1
  top = top
  m1 = m1
  m2 = m2
  None = None
  Objects = {i1, w1, top}
  Batched = {w1, top}
  Nameless = top
  Layers = {m1, m2}
  Prefixed <- MCPrefixed
  Nearest <- MCNearest
  MaxPerFrame = 1
  Spare = 1
  Designs <- OneDesign
  Frusta <- SomeInView
  Poses = {p1}
  MaxHistory = 1
  Operations = {"Inst", "Wire", "layer", "style", "hide", "select", "rescale", "camera"}
INVARIANTS
  ScreenIsExact
  GlowIsSelection
PROPERTIES
  OnlyRescaleShowsUnchecked
  HiddenForAReason
