SPECIFICATION FairSpec
CONSTANTS
  e1 = e1
  e2 = e2
  project = project
  credential = credential
  Event = {e1, e2}
  Poison = {}
  Worker = {w1, w2}
  VirtualKey = {k}
  Parent <- MCParent
  Restricted = {project}
  Deletable = {credential}
  Time <- MCTime
  KeyOf <- MCKeyOf
  ParentsOf <- MCParentsOf
  OccurredAt <- MCOccurredAt
  BatchSize = 2
  MaxLen = 1
  Faults = {"postgres", "restart"}
  MaxFaults = 2
  MaxEntries = 2
  MaxPrunes = 1
INVARIANTS
  RollupsMatchRows
  AckedIsRecorded
PROPERTIES
  LedgerSpec
  LoopNeverWedges
