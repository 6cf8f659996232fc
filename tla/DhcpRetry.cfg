SPECIFICATION MCSpec
CONSTANTS
  s1 = s1
  s2 = s2
  None = None
  Servers = {s1}
  Leases = {4}
  SendsTimers = {FALSE}
  DefaultLease = 6
  LongRange = 16
  Timeout = 3
  ResponseTimeout = 1
  FirstIds = {1, 2}
  MaxFactor = 1
  MaxNet = 1
  Reliable = FALSE
  Names = {"ecu", "lights"}
  Ids = {0, 1, 2}
  Ports = {0, 1}
  MaxWaits = 3
  WordRange = 65536
  MaxReplies = 1
  MaxInbox = 2
  Alphabet <- AddressCharacters
  MaxLength = 8
  MaxSegment = 25
  AskedNames <- ShortNames
  DotCode = 46
  Messages <- DnsMessages
  Parts = {"dhcp"}
PROPERTIES
  FailureIsRetried
CHECK_DEADLOCK FALSE
