SPECIFICATION WholeSpec
CONSTANTS
  Keys <- TwoKeys
  MaxLevel = 3
  Modes = {"queue", "stack", "post"}
  NoMap = NoMap
  MixLevel = 2
INVARIANTS
  EachOnce
  AncestorOrder
  BreadthOrder
  DepthOrder
  LiveKept
  PrunedExactly
  UnchangedIsSame
  WholeCopy
