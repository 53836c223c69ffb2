CONSTANTS
  NoAddr = NoAddr
  Addr = {a1, a2}
  MaxLoads = 2
  Lingering = TRUE
  Reuse = TRUE
  SlowLoads = TRUE
  Garbage <- EitherSide
  SaveNameResolves = TRUE
  StartSetting = TRUE
  MaxMisses = 1
SPECIFICATION Spec
INVARIANTS TypeOK LoadedIsCurrent SamplesRestoredState
PROPERTIES StartsOnlyRuns QuietOnTheMenu
SYMMETRY Symmetry
