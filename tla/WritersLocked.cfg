SPECIFICATION Spec
CONSTANTS
  p1 = p1
  p2 = p2
  p3 = p3
  Calls = {p1, p2, p3}
  Writers = {p1, p2, p3}
  KeyNames <- Names
  Path <- SharedTreePath
  Kind <- TwoDeepOneSet
  KeyLevelNodes = 2
  None = None
  Absent = Absent
  Free = Free
  Start <- FromRoot
  MinLevelSemaphore <- LockAll
  Created <- CreateFirst
  Comparable = TRUE
  Moves = {"edit", "skip"}
  Faults <- AllFaults
INVARIANTS
  TypeOK
  LockOwnership
  NoLostUpdate
PROPERTY AtomicUpdates
