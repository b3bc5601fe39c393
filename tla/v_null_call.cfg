CONSTANTS
  Urls = {"a", "b"}
  BadUrls = {"bad"}
  Times = {1, 2}
SPECIFICATION Spec
INVARIANTS
  NoNullCall
CHECK_DEADLOCK FALSE
