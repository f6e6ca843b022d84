SPECIFICATION Spec
CONSTANTS
  Requests = {r1, r2}
  Asked = {"select"}
  Stored = {s1, s2}
  NoMedia = NoMedia
INVARIANTS ConvertedIsOwn
SYMMETRY RequestSymmetry
CHECK_DEADLOCK FALSE
