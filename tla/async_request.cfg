CONSTANTS
  Cap = 3
  MaxRecord = 2
  MaxPayload = 2
  Garbage = {0, 1}
  MaxSends = 1
  MaxRecv = 1
  MaxPings = 0
  Async = TRUE
  HasReadyCb = TRUE
  HasTimeout = FALSE
  Methods = {"fetchWithBody"}
  Bodies = {2}
SPECIFICATION FairSpec
INVARIANTS
  BufferBound
  PendingFresh
  GivenInFull
PROPERTIES
  BufferStable
  OutputInOrder
  RequestLeaves
  LostPeerStops
  AbortEnds
CHECK_DEADLOCK FALSE
