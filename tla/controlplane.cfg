SPECIFICATION Spec
CONSTANTS
  x1 = x1
  x2 = x2
  x3 = x3
  p1 = p1
  p2 = p2
  Credential = {x1, x2, x3}
  Provider = {p1, p2}
  ProviderOf <- MCProviderOf
  Key = {k1}
  CredRequest = {r1, r2}
  User = {x1, x2}
  Team = {t1}
  Project = {j1}
  TeamRequest = {r1, r2}
  Override = {x1, x2}
  Pattern = {m1, m2}
  PriceRequest = {r1, r2}
  Refresh = {s1, s2}
  MaxWrites = 3
  MaxRows = 1
  Edit = {r1, r2}
  MaxEdits = 2
SYMMETRY Symmetry
INVARIANTS
  DefaultIsUnique
  PinnedIsServed
  NothingDangles
  OwnEditsAreShown
PROPERTIES
  PriceChangesAreSound
CHECK_DEADLOCK FALSE
