SPECIFICATION PartsSpec
CONSTANTS
  HalfRange = 4
  MaxPosition = 20
  Byte = {b1, b2}
  Capacity = 3
  MaxWrite = 3
  MaxBytes = 6
  SourceLen = 6
  ReassemblerCapacity = 4
VIEW PartsView
INVARIANTS
  PeersAgree
  ClosestToCheckpoint
  Fifo
  WithinCapacity
  ReassemblerTypeOK
  OutputIsStream
  UnassembledExact
  LiveBytesWithinCapacity
PROPERTY
  ImplementsReassembly
