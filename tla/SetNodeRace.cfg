SPECIFICATION Spec
CONSTANTS
  p1 = p1
  p2 = p2
  p3 = p3
  Calls = {p1, p2}
  Writers = {p1, p2}
  KeyNames <- Names
  Path <- LeavesPath
  Kind <- AllSet
  KeyLevelNodes = 2
  None = None
  Absent = Absent
  Free = Free
  Start <- FromRoot
  MinLevelSemaphore <- LockAll
  Created <- CreateNone
  Comparable = TRUE
  Moves = {"edit"}
  Faults = {}
INVARIANT SafePersistence
