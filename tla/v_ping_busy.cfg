CONSTANTS
  Cap = 4
  MaxRecord = 4
  MaxPayload = 2
  Garbage = {0}
  MaxSends = 1
  MaxRecv = 0
  MaxPings = 1
  Async = FALSE
  HasReadyCb = TRUE
  HasTimeout = FALSE
  Methods = {"fetch"}
  Bodies = {0}
SPECIFICATION Spec
PROPERTIES
  PingWhenIdle
CHECK_DEADLOCK FALSE
