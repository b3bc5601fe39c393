CONSTANTS
  Cap = 4
  MaxRecord = 2
  MaxPayload = 2
  Garbage = {0}
  MaxSends = 1
  MaxRecv = 0
  MaxPings = 0
  Async = FALSE
  HasReadyCb = TRUE
  HasTimeout = FALSE
  Methods = {"fetchWithBody"}
  Bodies = {3}
SPECIFICATION Spec
INVARIANTS
  Gapless
CHECK_DEADLOCK FALSE
