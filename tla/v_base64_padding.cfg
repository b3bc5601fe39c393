CONSTANTS
  Jobs = {"base64"}
  Letters = {0, 32, 37, 43, 48, 50, 56, 57, 70, 97, 255}
  MaxLength = 4
  MaxNumber = 1100
  MaxInt = 285
  NameBytes = {2, 50, 104}
  MaxName = 3
  MaxOffers = 2
SPECIFICATION Spec
INVARIANTS
  Base64Exact
CHECK_DEADLOCK FALSE
