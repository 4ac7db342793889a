SPECIFICATION Spec
CONSTANTS
  HalfRange = 5
  MAX_PAYLOAD_SIZE = 2
  initial_retransmission_timeout = 1
  UIntRange = 2
  StreamLen = 3
  SendCapacity = 3
  RecvCapacity = 2
  WindowRange = 3
  ISN = 8
  MaxInTransit = 2
  MaxRetx = 1
INVARIANTS
  EndToEnd
  AckedIsDelivered
PROPERTY
  ImplementsPipe
CHECK_DEADLOCK FALSE
