SPECIFICATION FairSpec
CONSTANTS
  QueueSize = 1
  WireSize = 2
  MaxMsgs = 3
PROPERTIES
  SendsImmediately
