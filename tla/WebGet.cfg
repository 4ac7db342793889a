CONSTANTS
  Calls = 2
  MaxBuffers = 3
  MaxLen = 2
  AnswerLen = 4
  SendRoom = 3
  RecvRoom = 2
SPECIFICATION GetSpec
INVARIANTS RequestIntact SuccessIsComplete GivenBackOnce
PROPERTY Terminates
CHECK_DEADLOCK FALSE
