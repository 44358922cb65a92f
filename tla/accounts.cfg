SPECIFICATION AccountSpec
CONSTANTS
  User = {founder, ann}
  Founder = founder
  Invitation = {i1, i2}
  Request = {r1, r2}
  Offered = {"ADMIN", "VIEWER"}
  MaxLinks = 1
  Token = {t1, t2, t3}
  Family = {f1, f2}
  SessionRequest = {r1, r2}
SYMMETRY Symmetry
INVARIANTS
  OwnerStays
  JoinedByInvitation
  OneActiveUnlessRaced
  ClosedUnlessRaced
PROPERTIES
  RevokedInvitationIsDead
