CONSTANTS
  Requests = {1}
  Promises = {2}
  Async = TRUE
  Mime = "none"
  Infos = FALSE
  Trailers = FALSE
  Resets = {1}
  Faulty = {1}
  MaxChunks = 1
SPECIFICATION Spec
INVARIANTS
  OnlyZeroMade
CHECK_DEADLOCK FALSE
