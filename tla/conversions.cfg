CONSTANTS
  Jobs = {"parse_uint", "utos", "percent_decode", "URIComponent", "base64", "selectH2"}
  Letters = {0, 32, 37, 43, 48, 50, 56, 57, 70, 97, 255}
  MaxLength = 4
  MaxNumber = 1100
  MaxInt = 285
  NameBytes = {2, 50, 104}
  MaxName = 3
  MaxOffers = 2
SPECIFICATION Spec
INVARIANTS
  TypeOK
  NoOverflow
  ParsedExactly
  PrintedExactly
  PercentDecoded
  ComponentReturns
  Base64Standard
  Base64Returns
  BestIsChosen
CHECK_DEADLOCK FALSE
