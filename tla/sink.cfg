SPECIFICATION FairSpec
CONSTANTS
  Event = {e1, e2, e3, e4}
  MaxBuffer = 2
  Faults = {"refuse", "disconnect", "reply_lost", "exit"}
  MaxFaults = 2
INVARIANTS
  NoDuplicates
  EveryLossCounted
  FlusherRuns
PROPERTIES
  EmittedIsSettled
CHECK_DEADLOCK FALSE
