CONSTANTS
  Daytime = 2
  Nighttime = 1
  S = 2
  NewGame = 7
  Saves <- OneSave
  MaxNow = 10
  MaxScenes = 0
  RawProgress <- NoRaw
  TogetherFilled = TRUE
  StartSetting = TRUE
SPECIFICATION Spec
PROPERTY NoZeroNoTime
