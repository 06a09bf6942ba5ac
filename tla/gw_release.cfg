SPECIFICATION Spec
CONSTANTS
  ann = ann
  bob = bob
  s1 = s1
  s2 = s2
  s3 = s3
  r1 = r1
  p1 = p1
  Users = {ann, bob}
  Channels = {lobby}
  None = None
  Conns = {s1, s2, r1}
  Sockets = {s1, s2}
  Requests = {r1}
  Peers = {}
  UserOf <- MCSame
  Commands = {"join", "switch", "leave", "say", "dm", "nick", "quit"}
  MaxCommands = 1
  Capacity = 1
INVARIANTS
  ActiveExact
PROPERTIES
  LetsGo
\* Browsers may have nothing more to send.
CHECK_DEADLOCK FALSE
