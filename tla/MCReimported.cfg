CONSTANTS
  h1 = h1
  h2 = h2
  spare = spare
  lab = lab
  x = x
  y = y
  old = old
  fresh = fresh
  c1 = c1
  cmd = cmd
  none = none
  Hostnames = {h1}
  Clouds = {spare, lab}
  Spare = spare
  Names = {x, y}
  Values = {old, fresh}
  Stock <- MCStock
  Drafts <- MCDrafts
  Files <- MCFiles
  Scans <- MCScans
  Components <- MCComponents
  Clients = {c1}
  Cli = cmd
  None = none
  MaxRows = 16
  MaxJobs = 2
  MaxTroubles = 0
SPECIFICATION Spec
INVARIANT KeepsMetadata
CHECK_DEADLOCK FALSE
