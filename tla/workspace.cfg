SPECIFICATION Spec
CONSTANTS
  lobby = lobby
  den = den
  Channels = {lobby, den}
  None = None
  MessageLimit = 2
  SampleLimit = 2
  MaxSessions = 2
  MaxOperations <- MCMaxOperations
INVARIANTS
  TypeOK
  ParticipantsMatch
  
PROPERTIES
  ListsSettle
  ChannelListed
\* The sessions of the instance may be used up.
CHECK_DEADLOCK FALSE
