CONSTANTS
  Range <- TwoAndOne
  Base <- TwoAndOneBase
  Size <- TwoAndOneSize
  CHUNK = 2
  Limit = 2
  MaxWords = 2
SPECIFICATION FairSpec
INVARIANT SteadyIsFound
PROPERTIES KeepsPromise SweepEnds
CHECK_DEADLOCK FALSE
