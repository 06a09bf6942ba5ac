SPECIFICATION Spec
CONSTANTS
  MaxClients = 1
  MaxFds = 2
  Conns = {c1}
  NoConn = NoConn
  HeaderSize = 2
  MaxPayload = 1
  PayloadSizes = {0, 1, 2}
  MaxFrames = 3
  ReplyUnits = 2
  MaxQueue = 2
  SendBuffer = 1
  Breaks = {"finish", "cut", "reset"}
INVARIANTS
  TypeOK
  FullOnlyBehindBadHeader
PROPERTIES
  ImplementsService
  AnswersLeave
\* The peers may have nothing more to send.
CHECK_DEADLOCK FALSE
