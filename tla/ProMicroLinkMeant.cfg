SPECIFICATION MCSpec
CONSTANTS
  Parts = {"promicro"}
  FrameLen = 4
  RxCap = 5
  Values <- MCValues
  Length <- ShortLength
  TxCap = 3
  MicroRxCap = 3
  fanSpeed = fanSpeed
  fogLights = fogLights
  ByteSettings = {fanSpeed}
  SwitchSettings = {fogLights}
  Numbers = {0, 1, 2, 3}
  ByteRange = 2
  FirstId = 1280
  LastId = 1283
  MaxThrees = 3
  Rate <- OneRate
  MasterIds = {2, 15, 16, 32}
  DataOf <- Payloads
  BlinkStates = {0, 1}
  TimingFrames = 10
INVARIANT SentWhereMeant
CHECK_DEADLOCK FALSE
