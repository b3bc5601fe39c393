CONSTANTS
  Requests = {1}
  Promises = {}
  Async = TRUE
  Mime = "param"
  Infos = FALSE
  Trailers = FALSE
  Resets = {}
  Faulty = {}
  MaxChunks = 1
SPECIFICATION Spec
INVARIANTS
  MimeOverridden
CHECK_DEADLOCK FALSE
