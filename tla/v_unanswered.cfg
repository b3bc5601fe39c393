CONSTANTS
  Requests = {1}
  Promises = {}
  Async = TRUE
  Mime = "none"
  Infos = FALSE
  Trailers = FALSE
  Resets = {1}
  Faulty = {}
  MaxChunks = 1
SPECIFICATION Spec
INVARIANTS
  ReadyWhenAnswered
CHECK_DEADLOCK FALSE
