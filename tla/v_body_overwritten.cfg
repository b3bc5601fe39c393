CONSTANTS
  Cap = 4
  MaxRecord = 4
  MaxPayload = 2
  Garbage = {0}
  MaxSends = 2
  MaxRecv = 0
  MaxPings = 0
  Async = TRUE
  HasReadyCb = TRUE
  HasTimeout = FALSE
  Methods = {"fetchWithBody"}
  Bodies = {3, 5}
SPECIFICATION Spec
PROPERTIES
  BodyKept
CHECK_DEADLOCK FALSE
