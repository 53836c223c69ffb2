CONSTANTS
  Addr = {a1, a2, a3}
  Kinds <- PairAndOther
  Placed = 1
  BASELINE_CHUNK = 1
  CHUNK = 1
  MaxPlaced = 2
  MaxGlitches = 1
  Removals <- Never
  Reuse = TRUE
SPECIFICATION FairSpec
INVARIANTS TypeOK SplitsAreReal EachSplitsOnce BelowTheMarkIsWatched
PROPERTY EverySplitComes
