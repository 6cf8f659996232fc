SPECIFICATION MCSpec
CONSTANTS
  Parts = {"send", "udp", "sockets", "serves", "client", "size", "web"}
  SSize = 4
  PtrRange = 8
  Bytes = {0, 1}
  MaxWrite = 5
  MaxDatagram = 4
  RSize = 5
  RPtrRange = 10
  Senders = {0, 1}
  MaxLen = 2
  MaxSock = 3
  FirstServer = 1
  Outgoing = TRUE
  TcpSize = 2
  MaxSent = 4
  MaxWait = 3
  Base = 3
  Requests <- WebRequests
  LengthChars = 8
INVARIANTS
  SentAsWritten
  ReceivedAsSent
  SocketsKeptApart
  AnswersWereTrue
  RequestsAnswered
PROPERTIES
  LiveSocketKept
  CallsComeBack
CHECK_DEADLOCK FALSE
