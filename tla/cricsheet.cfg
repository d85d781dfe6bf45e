SPECIFICATION Spec
CONSTANTS
  e1 = e1
  l1 = l1
  l2 = l2
  m1 = m1
  m2 = m2
  m3 = m3
  p1 = p1
  p2 = p2
  Events = {e1}
  Loads = {l1, l2}
  Matches = {m1, m2, m3}
  Partitions = {p1, p2}
  Archive <- MCArchive
  PartitionOf <- MCPartitionOf
  Abandoned = {m2}
  MaxAttempts = 2
\* Deliveries of an event are bounded: the loader comes to rest.
CHECK_DEADLOCK FALSE
INVARIANTS
  LoaderInv
  DoneIsComplete
  BallsHaveMatches
  OneCopyPerAttempt
PROPERTIES
  StoreSpec
