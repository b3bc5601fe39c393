CONSTANTS
  Cap = 4
  MaxRecord = 4
  MaxPayload = 2
  Garbage = {0, 2}
  MaxSends = 1
  MaxRecv = 0
  MaxPings = 0
  Async = FALSE
  HasReadyCb = TRUE
  HasTimeout = FALSE
  Methods = {"fetch"}
  Bodies = {0}
SPECIFICATION Spec
INVARIANTS
  MagicFirst
CHECK_DEADLOCK FALSE
