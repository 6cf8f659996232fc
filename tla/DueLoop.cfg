SPECIFICATION MCSpec
CONSTANTS
  Slots = 4
  RefillBelow = 2
  MaxResponse = 2
  RxCap = 1
  TxCap = 2
  LineCap = 1
  Readings = {0, 1}
  Cells = 2
  ResetLimit = 0
  TierOneTicks = 1
  TierThreeTicks = 3
  TierFiveTicks = 3
  MaxPass = 1
INVARIANT
  TypeOK
PROPERTIES
  ImplementsPolling
  AnswerChangesItsReading
  FlagIsServed
  DueReadingReachesPi
