SPECIFICATION Spec
CONSTANTS
  MaxClients = 3
  MaxChannels = 1
  WhoLimit = 1
  MaxQueueBytes = 2
  FrameBytes <- MCFrameBytes
  Names = {alice, bob}
  ChannelNames = {general}
  Invalid = Invalid
  None = None
  Commands = {"HELLO", "NICK", "JOIN", "DM", "QUIT", "LIST", "STATS", "UNKNOWN"}
  MaxAccepts = 3
  MaxChats = 2
  MaxDms = 1
  MaxMalformed = 1
SYMMETRY MCSymmetry
INVARIANTS
  TypeOK
  UniqueUsernames
  FreeSlotsBlank
  CountersAgree
  QueueAccounting
\* The server stops: SIGTERM ends it.
CHECK_DEADLOCK FALSE
