SPECIFICATION FairSpec
CONSTANTS
  KeyLevelNodes = 2
  Universe <- Small
  Registered0 <- SmallRegistered
  Stored0 <- SmallStored
  Bases <- SmallBases
  Modes = {"queue", "stack", "post"}
INVARIANTS
  NoRepetition
  Complete
  AncestorOrder
  BreadthOrder
  DepthOrder
PROPERTY
  Terminates
