SPECIFICATION Spec
CONSTANTS
  HalfRange = 4
  MAX_PAYLOAD_SIZE = 2
  initial_retransmission_timeout = 2
  UIntRange = 17
  StreamLen = 3
  Capacity = 3
  ISN = 6
  Windows = {0, 1, 2, 4}
  Ticks = {1, 2}
  MaxRetx = 3
PROPERTY
  WindowRespected
