CONSTANTS
  Size = 4
  CHUNK = 2
  Value = {v, w}
  NoValue = NoValue
  Layouts <- Mappings
  MAX_STEPS = 3
  MaxChanges = 3
SPECIFICATION FairRecorderSpec
INVARIANTS InstantIsKept NotLeftStopped
PROPERTY GameGoesOn
CHECK_DEADLOCK FALSE
