CONSTANTS
  admin = admin
  regular = regular
  other = other
  g1 = g1
  p1 = p1
  p2 = p2
  n1 = n1
  r1 = r1
  r2 = r2
  t1 = t1
  None = None
  Emails = {admin, regular, other}
  Admin = admin
  Regular = regular
  GoogleIds = {g1}
  Passwords = {p1, p2}
  Names = {n1}
  Reqs = {r1, r2}
  Tabs = {t1}
  Lifetime = 1
  MaxTime = 1
  MaxRows = 3
  MaxKeys = 2
  MaxFaults = 1
  MaxEdits = 1
  MaxAsked = 3
  MaxMoves = 1
SPECIFICATION Spec
SYMMETRY AccessSymmetry
INVARIANTS TypeOK GivenWorks RevokedStops
PROPERTY TokensByOwner
CHECK_DEADLOCK FALSE
