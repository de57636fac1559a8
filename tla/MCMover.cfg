SPECIFICATION FairSpec
CONSTANTS
  None = None
  Split = Split
  Hosts = {1, 2}
  Clouds = {0, 1, 2}
  Spare = 0
  Home <- AtSpare
  Wiped = {2}
  Supermicro = {}
  Schedules <- TwoMoves
  Ended = {1, 2}
  MaxTime = 1
  MaxFaults = 2
INVARIANT AppliedIsTrue
INVARIANT FreshlyBuilt
INVARIANT MoverInv
PROPERTY Settles
