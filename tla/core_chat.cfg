SPECIFICATION Spec
CONSTANTS
  MaxClients = 2
  MaxChannels = 2
  WhoLimit = 1
  MaxQueueBytes = 2
  FrameBytes <- MCFrameBytes
  Names = {alice, bob}
  ChannelNames = {general, random}
  Invalid = Invalid
  None = None
  Commands = {"HELLO", "JOIN", "SWITCH", "LEAVE", "SAY", "WHO", "MALFORMED"}
  MaxAccepts = 2
  MaxChats = 2
  MaxDms = 1
  MaxMalformed = 1
SYMMETRY MCSymmetry
INVARIANTS
  MembershipSound
  ChatsOnlyWhileJoined
  ChatsInOrder
PROPERTIES
  SlowReadersCostOnlyThemselves
\* The server stops: SIGTERM ends it.
CHECK_DEADLOCK FALSE
