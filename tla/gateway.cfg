SPECIFICATION GatewaySpec
CONSTANTS
  Request = {r1, r2}
  RpmLimit = 1
  KeyTTL = 2
  MaxWindow = 2
  Faults = {"refuse", "disconnect", "upstream", "body"}
  Calls <- MCCalls
  Messages <- MCMessages
  Catalogs <- MCCatalogs
  Overrides <- MCOverrides
  Pico = 10
INVARIANTS
  AllowedPerWindow
  UsageIsWhatArrived
  ClientSeesTheAnswer
  ActualIsFinal
  TurnsSurvive
  PriceIsBest
PROPERTIES
  RequestsAreAnswered
CHECK_DEADLOCK FALSE
