CONSTANTS
  Clients = {k1, k2}
  Commands <- Several
  Hosts = {1, 2}
  Clouds = {1, 2}
  Rows0 <- Together
  FirstId = 3
  Out = {}
  Owned = {1}
  SelfClouds = {2}
  SelfHosts = {2}
  HostLimit = 1
  DeadlineDay = 1
  DeadlineHour = 0
  SelfLifetime = 1
  Minute = 2
  Hour = 2
  Day = 4
  Week = 8
  Evening = 2
  Notices = {1, 3}
  initial = initial
  pre_initial = pre_initial
  pre = pre
  MaxTime = 2
  MaxFaults = 1
  None = None
SPECIFICATION ScopedSpec
INVARIANTS OverlapsOnlyUnchecked RepeatsNeedFaults WarnedUnlessCrossed
PROPERTIES EndsMoveAsAsked DoneAsChecked Welcomed
CHECK_DEADLOCK FALSE
