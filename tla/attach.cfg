CONSTANTS
  NoPid = NoPid
  Pids = {p1, p2}
  Programs <- Titles
  FORGET_RULED_OUT_TICKS = 3
  AMBIGUOUS_RETRY_TICKS = 1
  PROCESS_GONE_DELAY_TICKS = 2
  MaxStarted = 3
SPECIFICATION FairSpec
INVARIANTS NeverAnother FoundInTime
PROPERTIES MenuIsEnough GamesAreWatched
