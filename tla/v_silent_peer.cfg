CONSTANTS
  Cap = 3
  MaxRecord = 3
  MaxPayload = 1
  Garbage = {0}
  MaxSends = 1
  MaxRecv = 0
  MaxPings = 0
  Async = FALSE
  HasReadyCb = TRUE
  HasTimeout = TRUE
  Methods = {"fetch"}
  Bodies = {0}
SPECIFICATION FairSpec
PROPERTIES
  TimeoutTerminates
CHECK_DEADLOCK FALSE
