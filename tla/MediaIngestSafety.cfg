SPECIFICATION Spec
CONSTANTS
  Requests = {r1, r2, r3}
  Asked = {"video", "audio", "image", "url", "queueURL", "nico", "select", "history", "clear"}
  Stored = {s1}
  NoMedia = NoMedia
INVARIANTS SlotHasOwner ExclusiveIngest QueuedIsOwn
SYMMETRY RequestSymmetry
CHECK_DEADLOCK FALSE
