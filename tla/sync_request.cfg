CONSTANTS
  Cap = 4
  MaxRecord = 4
  MaxPayload = 2
  Garbage = {0}
  MaxSends = 1
  MaxRecv = 1
  MaxPings = 0
  Async = FALSE
  HasReadyCb = TRUE
  HasTimeout = TRUE
  Methods = {"fetch", "fetchWithBody"}
  Bodies = {0, 3}
SPECIFICATION FairSpec
INVARIANTS
  TypeOK
  NoSelfDeadlock
PROPERTIES
  SendReturns
CHECK_DEADLOCK FALSE
