CONSTANTS
  Requests = {1, 3}
  Promises = {2}
  Async = TRUE
  Mime = "none"
  Infos = TRUE
  Trailers = TRUE
  Resets = {1}
  Faulty = {1}
  MaxChunks = 2
SPECIFICATION Spec
INVARIANTS
  TypeOK
  TableAgrees
  BodyIntact
  StatusIntact
  RequestKnown
PROPERTIES
  AnswersKept
CHECK_DEADLOCK FALSE
