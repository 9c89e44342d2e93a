SPECIFICATION ReprocessSpec
CONSTANTS
  p1 = p1
  Calls = {p1}
  Writers = {p1, Full}
  KeyNames <- Names
  Path <- OnePath
  Kind <- OneDeep
  KeyLevelNodes = 2
  None = None
  Absent = Absent
  Free = Free
  Start <- FromRoot
  MinLevelSemaphore <- LockAll
  Created <- CreateNone
  Comparable = TRUE
  Moves = {"edit"}
  Faults <- DeepFaults
  Full = Full
  FullNodes <- WholeTree
  FullOrder <- WholeOrder
  FullMin = 1
  FullCreated = None
  Partition = 2
  ClearsRegistry = TRUE
INVARIANTS
  FullLocksExclusive
  FullNoLostUpdate
  ReprocessComplete
  RegistrationsSettled
PROPERTY
  EverythingEnds
