CONSTANTS
  Urls = {"a", "b"}
  BadUrls = {"bad"}
  Times = {1, 2}
SPECIFICATION Spec
INVARIANTS
  TypeOK
  TimerIsTimeout
  SessionWired
  OpenHasSession
CHECK_DEADLOCK FALSE
