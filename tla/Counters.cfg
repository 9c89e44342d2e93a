SPECIFICATION Spec
CONSTANTS
  p1 = p1
  p2 = p2
  p3 = p3
  Calls = {p1, p2, p3}
  Writers = {p1, p2, p3}
  KeyNames <- Names
  Path <- CountersPath
  Kind <- AllDeep
  KeyLevelNodes = 3
  None = None
  Absent = Absent
  Free = Free
  Start <- ThirdFromA
  MinLevelSemaphore <- LockAll
  Created <- CreateNone
  Comparable = FALSE
  Moves = {"edit"}
  Faults <- AllFaults
INVARIANTS
  AncestorsCounted
  RegisteredBeforeStored
