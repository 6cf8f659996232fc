SPECIFICATION MCSpec
CONSTANTS
  Readings <- ThreeReadings
  Cells = 3
  ResetLimit = 2
  FrameReused = TRUE
  heatAC = heatAC
  DUEdata = DUEdata
  page1 = page1
  page2 = page2
  Nothing = Nothing
  Channels = {heatAC, DUEdata}
  Pages = {page1, page2}
  Numbers = {5, 42}
  MaxInFlight = 2
  MaxMessages = 2
  MaxHandlers = 3
INVARIANTS
  QuietMeansDelivered
  BufferIsCurrent
  PageShowsCurrent
PROPERTIES
  KeptMixtureHeals
  PageComesAlive
