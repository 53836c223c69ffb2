CONSTANTS
  Daytime = 2
  Nighttime = 1
  S = 2
  NewGame = 7
  Saves <- OneSave
  MaxNow = 13
  MaxScenes = 1
  RawProgress <- Negative
  TogetherFilled = TRUE
  StartSetting = TRUE
SPECIFICATION FairSpec
INVARIANT TypeOK
PROPERTIES NeverAhead AtMostATickBehind MeasuredFromItsStart CatchesUp
