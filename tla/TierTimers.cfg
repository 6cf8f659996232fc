SPECIFICATION MCSpec
CONSTANTS
  Clock = 64
  Width = 16
  Extra = 1
  Between = 1
  Passes = {2, 7, 14, 16, 37}
  Tiers = {"one"}
  Limit <- OneLimit
  Presses = {0, 1, 4, 5, 10, 12, 15}
  NPresses = 4
  TimeLimit = 3
  CodeWait = 2
  ShortFade = 1
  ShowFade = 2
  ShowPause = 4
  SlowFade = 3
  ShowFades = 3
  PassTimes = {1, 2, 3}
  ULong = 64
  IntRange = 16
  BlinkTimeOut = 5
  DelayStep = 3
INVARIANTS
  TiersKeepTime
  TagShowsEnd
PROPERTIES
  TagObeysCodes
  GrillScrolls
