SPECIFICATION CacheSpec
CONSTANTS
  g1 = g1
  g2 = g2
  r1 = r1
  r2 = r2
  Gateway = {g1, g2}
  Lookup = {r1, r2}
  GatewayOf <- MCGatewayOf
  LocalTTL = 1
  RedisTTL = 2
  MaxDelay = 2
  CacheFaults = {"message", "redis"}
INVARIANTS
  StaleAtMost
  PromptUnlessRaced
