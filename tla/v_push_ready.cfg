CONSTANTS
  Requests = {1}
  Promises = {2}
  Async = FALSE
  Mime = "none"
  Infos = FALSE
  Trailers = FALSE
  Resets = {}
  Faulty = {}
  MaxChunks = 1
SPECIFICATION Spec
INVARIANTS
  ReadyForRequests
CHECK_DEADLOCK FALSE
