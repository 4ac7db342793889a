SPECIFICATION Spec
CONSTANTS
  HalfRange = 3
  StreamLen = 7
  Capacity = 2
  ISNs = {4}
INVARIANTS
  OutputIsPrefix
  AcknoExact
PROPERTIES
  RightEdgeNeverShrinks
  SummaryOnlyAdvances
