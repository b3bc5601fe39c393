CONSTANTS
  Urls = {"a", "b"}
  BadUrls = {"bad"}
  Times = {1, 2}
SPECIFICATION Spec
INVARIANTS
  OpenMode
CHECK_DEADLOCK FALSE
