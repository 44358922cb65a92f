SPECIFICATION FairSpec
CONSTANTS
  Job = {j1}
  Slot = {s1, s2}
  Event = {1}
  Old = {}
  Batch = 1
  Attempts = 2
  MaxStalled = 1
  Faults = {"crash", "stall", "error", "unlink"}
  MaxFaults = 2
PROPERTIES ExportSettles OrphansAreSwept
CHECK_DEADLOCK FALSE
