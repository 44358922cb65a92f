SPECIFICATION Spec
CONSTANTS
  Job = {j1}
  Slot = {s1, s2}
  Event <- MCEvent
  Old <- MCOld
  Batch = 2
  Attempts = 2
  MaxStalled = 1
  Faults = {"crash", "stall", "error", "unlink"}
  MaxFaults = 2
INVARIANTS FinishedIsComplete
PROPERTIES SettledIsFinal
CHECK_DEADLOCK FALSE
