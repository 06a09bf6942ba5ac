SPECIFICATION Spec
CONSTANTS
  ann = ann
  bob = bob
  s1 = s1
  s2 = s2
  s3 = s3
  r1 = r1
  p1 = p1
  Users = {ann, bob}
  Channels = {lobby}
  None = None
  Conns = {s1, p1}
  Sockets = {s1}
  Requests = {}
  Peers = {p1}
  UserOf <- MCPair
  Commands = {"dm"}
  MaxCommands = 2
  Capacity = 6
INVARIANTS
  TypeOK
  PendingInStep
  ConfirmedIsSaved
  DmSavedOnce
\* Browsers may have nothing more to send.
CHECK_DEADLOCK FALSE
