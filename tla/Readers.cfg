SPECIFICATION Spec
CONSTANTS
  p1 = p1
  p2 = p2
  c1 = c1
  c2 = c2
  KeyLevelNodes = 2
  Depth = 3
  Calls = {p1, p2}
  Contexts = {c1, c2}
  Scenarios <- TwoCalls
  Entries <- AllEntries
  Gone = Gone
  None = None
  Bad = Bad
  MaxWrites <- FewWrites
  MaxTime = 2
INVARIANTS
  TypeOK
  ReadOnce
  FreshInContext
  WalkExact
  LiveInContext
PROPERTY
  ReadersEnd
