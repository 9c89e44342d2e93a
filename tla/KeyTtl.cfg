SPECIFICATION Spec
CONSTANTS
  p1 = p1
  p2 = p2
  p3 = p3
  p4 = p4
  root = root
  a = a
  c = c
  Nodes = {root, a, c}
  Root = root
  Above <- AboveTree
  Calls = {p1, p2, p3, p4}
  Kind <- MixedKinds
  Visits <- MixedVisits
  Target <- MixedTargets
  Values = {"v", "w"}
  None = None
  Value <- MixedValues
  Created <- MixedCreated
  Ttl <- MixedTtl
  Absent = Absent
  Free = Free
  KeyLevelNodes = 2
  MinLevelSemaphore <- LockedSemaphores
  Scale = 2
  Loss = 0
  MaxTime = 6
CHECK_DEADLOCK FALSE
INVARIANT KeyTtlIsMax
