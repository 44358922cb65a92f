SPECIFICATION FairSpec
CONSTANTS
  e1 = e1
  e2 = e2
  project = project
  credential = credential
  Event = {e1, e2}
  Poison = {x}
  Worker = {w1, w2}
  VirtualKey = {k}
  Parent <- MCParent
  Restricted = {project}
  Deletable = {}
  Time <- MCTime
  KeyOf <- MCKeyOf
  ParentsOf <- MCParentsOf
  OccurredAt <- MCOccurredAt
  BatchSize = 2
  MaxLen = 2
  Faults = {"resend", "crash", "postgres", "redis"}
  MaxFaults = 2
  MaxEntries = 3
  MaxPrunes = 0
INVARIANTS
  TypeOK
  PoisonIsDeadLettered
  LastUsedIsLatest
PROPERTIES
  RecordedUnlessFault
