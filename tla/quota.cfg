SPECIFICATION Spec
CONSTANTS
  Pollers = {p1, p2, p3}
  LastDay = 2
  FailClosedThreshold = 3
  DailyLimit = 8
SYMMETRY Symmetry
INVARIANTS
  QuotaInv
  WithinFreeTier
  CallsAreCounted
