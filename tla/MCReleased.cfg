SPECIFICATION LifecycleSpec
CONSTANTS
  None = None
  Split = Split
  Hosts = {1, 2}
  Clouds = {0, 1}
  Spare = 0
  Home <- AtSpare
  Wiped = {1}
  Supermicro = {1}
  Schedules <- OneCloud
  Ended = {}
  MaxTime = 1
  MaxFaults = 1
  Grace = 0
PROPERTY ReleasedMeansTested
