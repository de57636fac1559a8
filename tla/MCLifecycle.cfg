SPECIFICATION LifecycleSpec
CONSTANTS
  None = None
  Split = Split
  Hosts = {1}
  Clouds = {0, 1, 2}
  Spare = 0
  Home <- AtSpare
  Wiped = {1}
  Supermicro = {1}
  Schedules <- OneAfterTheOther
  Ended = {1}
  MaxTime = 2
  MaxFaults = 1
  Grace = 0
INVARIANT ReleasedMeansProvisioned
PROPERTY Released
