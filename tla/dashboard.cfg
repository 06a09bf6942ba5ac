SPECIFICATION Spec
CONSTANTS
  t1 = t1
  t2 = t2
  w1 = w1
  w2 = w2
  lobby = lobby
  den = den
  MaxAttempts = 3
  Tokens = {t1, t2}
  Stored = t1
  Sockets = {w1, w2}
  Channels = {lobby, den}
  None = None
  MaxSignIns = 2
  MaxInbox = 2
INVARIANTS
  TypeOK
  OneLiveSocket
  NoFalseConnected
  ActiveChannelHolds
PROPERTIES
  OpenedForSession
  CheckSettles
  
