CONSTANTS
  Schemes = {"https", "tptp", "ftp"}
  Letters = {"a", "A", "8", ".", "-", ":", "/", "?", "#", "@", "%"}
  MaxLength = 5
  MinAddr = 2
  FieldMod = 16
  MaxPort = 500
SPECIFICATION Spec
INVARIANT SentWhole
CHECK_DEADLOCK FALSE
