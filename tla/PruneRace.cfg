SPECIFICATION PruneSpec
CONSTANTS
  p1 = p1
  p2 = p2
  p3 = p3
  Calls = {p1, p2, p3}
  Writers = {p1, p2, p3, Pruner}
  KeyNames <- Names
  Path <- TreePath
  Kind <- TwoDeepOneSet
  KeyLevelNodes = 2
  None = None
  Absent = Absent
  Free = Free
  Pruner = Pruner
  Start <- SecondFromA
  MinLevelSemaphore <- LockAll
  Created <- CreateNone
  Comparable = TRUE
  Moves = {"edit", "skip"}
  Faults = {}
  PruneFaults = {}
INVARIANT OnlyEmptyRemoved
