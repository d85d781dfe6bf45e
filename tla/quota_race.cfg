SPECIFICATION Spec
CONSTANTS
  Pollers = {p1, p2}
  LastDay = 1
  FailClosedThreshold = 3
  DailyLimit = 6
INVARIANT ThresholdHolds
