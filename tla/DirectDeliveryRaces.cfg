SPECIFICATION FairSpec
CONSTANTS
  Plans = {p1, p2}
  NoPlan = NoPlan
  FirstPlan = p1
  MaxGeneration = 3
  MaxFaults = 1
INVARIANTS OnePublisher OldRouteIsSilent ReleaseIsSafe
PROPERTIES KeepsDeliveryPromise RequestsAreAnswered
CHECK_DEADLOCK FALSE
