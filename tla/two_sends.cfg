CONSTANTS
  Cap = 4
  MaxRecord = 2
  MaxPayload = 2
  Garbage = {0, 1}
  MaxSends = 2
  MaxRecv = 1
  MaxPings = 1
  Async = TRUE
  HasReadyCb = TRUE
  HasTimeout = FALSE
  Methods = {"fetch"}
  Bodies = {0}
SPECIFICATION Spec
INVARIANTS
  WireIncreasing
  OneOpEach
  NoStrandedOutput
  StopStopsService
  Attended
CHECK_DEADLOCK FALSE
