CONSTANTS
  Requests = {1}
  Promises = {}
  Async = TRUE
  Mime = "none"
  Infos = TRUE
  Trailers = FALSE
  Resets = {}
  Faulty = {}
  MaxChunks = 1
SPECIFICATION Spec
INVARIANTS
  FinalStatus
CHECK_DEADLOCK FALSE
