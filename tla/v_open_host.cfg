CONSTANTS
  Urls = {"a", "b"}
  BadUrls = {"bad"}
  Times = {1, 2}
SPECIFICATION Spec
INVARIANTS
  OpenHost
CHECK_DEADLOCK FALSE
