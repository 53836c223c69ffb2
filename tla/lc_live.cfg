CONSTANTS
  NoAddr = NoAddr
  Addr = {a1, a2}
  MaxLoads = 1
  Lingering = TRUE
  Reuse = TRUE
  SlowLoads = TRUE
  Garbage <- EitherSide
  SaveNameResolves = TRUE
  StartSetting = TRUE
  MaxMisses = 1
SPECIFICATION FairSpec
PROPERTY GamesAreFollowed
