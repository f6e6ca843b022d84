SPECIFICATION RtspSpec
CONSTANTS
  h1 = h1
  l1 = l1
  l2 = l2
  p1 = p1
  p2 = p2
  Handlers = {h1}
  Listeners = {l1, l2}
  Publishers = {p1, p2}
  MaxMedia = 2
  Unreliable = {1}
SYMMETRY GoroutineSymmetry
INVARIANTS MappingHasHolder MappingEndsWithRound
CHECK_DEADLOCK FALSE
