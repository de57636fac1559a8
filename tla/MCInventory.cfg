CONSTANTS
  h1 = h1
  h2 = h2
  spare = spare
  lab = lab
  x = x
  y = y
  old = old
  fresh = fresh
  c1 = c1
  cmd = cmd
  none = none
  Hostnames <- MCHostnames
  Clouds = {spare, lab}
  Spare = spare
  Names = {x, y}
  Values = {old, fresh}
  Stock <- MCStock
  Drafts <- MCDrafts
  Files <- MCFiles
  Scans <- MCScans
  Components <- MCComponents
  Clients = {c1}
  Cli = cmd
  None = none
  MaxRows = 16
  MaxJobs = 2
  MaxTroubles = 1
SYMMETRY MCSymmetry
SPECIFICATION ScopedSpec
INVARIANTS TypeOK NoTwins ImportedAsWritten
PROPERTY TouchesOnlyMeant
CHECK_DEADLOCK FALSE
