CONSTANTS
  Cap = 4
  MaxRecord = 4
  MaxPayload = 2
  Garbage = {0}
  MaxSends = 1
  MaxRecv = 0
  MaxPings = 0
  Async = TRUE
  HasReadyCb = TRUE
  HasTimeout = TRUE
  Methods = {"fetch"}
  Bodies = {0}
SPECIFICATION Spec
PROPERTIES
  TimeoutOnlyIfUnanswered
CHECK_DEADLOCK FALSE
