SPECIFICATION FairSpec
CONSTANTS
  l1 = l1
  l2 = l2
  owner = owner
  session = session
  Leases = {l1, l2}
  NoLease = NoLease
  Closers = {owner, session}
  Owner = owner
INVARIANTS NoStrayContext ControlIsLast DoneIsClosedOnce
PROPERTIES ImplementsLeaseSlot CloseEnds CanceledJobEnds
CHECK_DEADLOCK FALSE
