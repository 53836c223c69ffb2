CONSTANTS
  Addr = {a1, a2, a3}
  NoAddr = NoAddr
  GIVE_UP_SKIPPING_AFTER = 3
  MISSES_BEFORE_REFINDING = 3
  TABLE_SEARCH_ATTEMPTS = 3
SPECIFICATION FairContainersSpec
INVARIANTS ContainersTypeOK OwnContainer
PROPERTIES EveryGameIsBound WrongTableIsDropped
