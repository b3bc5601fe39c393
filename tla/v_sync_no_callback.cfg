CONSTANTS
  Cap = 4
  MaxRecord = 4
  MaxPayload = 2
  Garbage = {0}
  MaxSends = 1
  MaxRecv = 0
  MaxPings = 0
  Async = FALSE
  HasReadyCb = FALSE
  HasTimeout = FALSE
  Methods = {"fetch"}
  Bodies = {0}
SPECIFICATION FairSpec
PROPERTIES
  SendReturnsWhenAnswered
CHECK_DEADLOCK FALSE
