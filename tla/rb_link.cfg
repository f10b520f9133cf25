SPECIFICATION FairSpec
CONSTANTS
  QueueSize = 1
  WireSize = 2
  MaxMsgs = 4
INVARIANTS
  TypeOK
  NothingLost
PROPERTIES
  ImplementsChannel
  NotifiedSends
