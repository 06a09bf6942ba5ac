SPECIFICATION Spec
CONSTANTS
  MaxClients = 2
  MaxFds = 3
  Conns = {c1, c2, c3}
  NoConn = NoConn
  HeaderSize = 1
  MaxPayload = 1
  PayloadSizes = {1}
  MaxFrames = 1
  ReplyUnits = 1
  MaxQueue = 1
  SendBuffer = 1
  Breaks = {"cut", "reset"}
SYMMETRY MCSymmetry
INVARIANTS
  RightConnection
  NothingLeftBehind
\* The peers may have nothing more to send.
CHECK_DEADLOCK FALSE
