SPECIFICATION FairSpec
CONSTANTS
  HalfRange = 4
  MAX_PAYLOAD_SIZE = 2
  initial_retransmission_timeout = 1
  UIntRange = 2
  StreamLen = 2
  SendCapacity = 2
  RecvCapacity = 1
  WindowRange = 3
  ISN = 6
  MaxInTransit = 1
  MaxRetx = 1
PROPERTY
  EventuallyComplete
CHECK_DEADLOCK FALSE
