SPECIFICATION Spec
CONSTANTS
  c1 = c1
  timeout = timeout
  Clients = {c1}
  Timeout = timeout
  MaxListener = 3
  MaxMedia = 2
PROPERTIES RevokedLoopIsInert ShownMovesForward TimeoutIsOwn KeepsPromise
CHECK_DEADLOCK FALSE
