SPECIFICATION MCSpec
CONSTANTS
  Slots <- CodeSlots
  RefillBelow <- CodeRefill
  MaxResponse = 3
  RxCap = 2
  TxCap = 4
  LineCap = 2
  LossyLine = TRUE
  CarValues = {40, 140}
  MaxLeft = 2
  MaxCalls = 3
INVARIANTS
  QueueBounds
  CallbackMatchesRequest
  ReadingsInStep
  AnswersAreRecent
PROPERTIES
  RequestsAlternate
  AskingGoesOn
CHECK_DEADLOCK FALSE
