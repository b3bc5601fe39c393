CONSTANTS
  Requests = {1}
  Promises = {}
  Async = TRUE
  Mime = "none"
  Infos = FALSE
  Trailers = TRUE
  Resets = {}
  Faulty = {}
  MaxChunks = 1
SPECIFICATION Spec
PROPERTIES
  ReadyStateForward
CHECK_DEADLOCK FALSE
