SPECIFICATION Spec
CONSTANTS
  ann = ann
  bob = bob
  s1 = s1
  s2 = s2
  s3 = s3
  r1 = r1
  p1 = p1
  Users = {ann, bob}
  Channels = {lobby}
  None = None
  Conns = {s1, s2}
  Sockets = {s1, s2}
  Requests = {}
  Peers = {}
  UserOf <- MCPair
  Commands = {"join", "say"}
  MaxCommands = 3
  Capacity = 2
INVARIANTS
  ChatHistory
  ConfirmedIsSaved
\* Browsers may have nothing more to send.
CHECK_DEADLOCK FALSE
