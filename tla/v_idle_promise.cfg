CONSTANTS
  Requests = {1}
  Promises = {2}
  Async = TRUE
  Mime = "none"
  Infos = FALSE
  Trailers = FALSE
  Resets = {}
  Faulty = {}
  MaxChunks = 1
SPECIFICATION Spec
INVARIANTS
  NoProtocolError
CHECK_DEADLOCK FALSE
