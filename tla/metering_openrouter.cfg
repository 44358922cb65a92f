SPECIFICATION MeterSpec
CONSTANTS
  Calls <- OpenRouterCalls
  Messages <- MCMessages
  Catalogs <- MCCatalogs
  Overrides <- MCOverrides
  Pico = 10
INVARIANT UpstreamCostIsCharged
CHECK_DEADLOCK FALSE
