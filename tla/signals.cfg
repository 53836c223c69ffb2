CONSTANTS
  Names = {"wonder", "house"}
  Wonder = "wonder"
  WELLBEING_GOAL = 1
  Highest = 2
  MaxFails = 1
  MaxLost = 1
  Following <- Groups
SPECIFICATION FairSpec
INVARIANTS RestoredIsQuiet UnlockIsNotSlept NoFalseAlarm
PROPERTY EachIsHeard
