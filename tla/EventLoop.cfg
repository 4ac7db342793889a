CONSTANTS
  FD = {sock, pipe}
  Pipes = {pipe}
  MaxRules = 2
SPECIFICATION LoopSpec
INVARIANTS CancelledOnce JudgedByOwnResult NoCallbackAfterEof
PROPERTIES ClosedIsDropped ReadyIsServed
CHECK_DEADLOCK FALSE
