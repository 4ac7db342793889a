SPECIFICATION Spec
CONSTANTS
  ByteBase = 64
  DoffUnit = 8
  SeqNos = {0, 16777215}
  FlagSets = {{"syn"}, {"fin", "ack", "psh", "urg"}}
  Doffs = {5, 6}
  PayloadLens = {0, 1, 4}
  Pseudos = {0, 24570}
  Deltas = {1, 63}
  MaxForeign = 29
  mtu = 27
INVARIANTS
  IntactIsAccepted
  DamageIsRejected
  ParsedByPosition
  ChecksumOfWords
CHECK_DEADLOCK FALSE
