SPECIFICATION Spec
CONSTANTS
  None = None
  MaxToken = 9
  PricedTokens = 5
  PricingFile <- PriceFile
  Builtin <- NoPrices
  FamilyOf <- Families
  Stream = {r1, r2}
  RequestId = {1}
  RequestKind <- Kinds
  Answer <- Answers
  ReplyCap = 1
  TTL = 1
  MaxExchanges = 3
  MaxCrashes = 1
SYMMETRY Symmetry
INVARIANTS
  TurnsSumUpWhatArrived
  WholeResponsesRecorded
PROPERTY ExchangesAreAnnouncedOnce
CHECK_DEADLOCK FALSE
