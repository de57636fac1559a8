SPECIFICATION FairSpec
CONSTANTS
  r1 = r1
  r2 = r2
  r3 = r3
  alice = alice
  bob = bob
  None = None
  Requests = {r1, r2}
  Hosts = {1, 2}
  Clouds = {0, 1, 2}
  SparePool = 0
  Users = {alice, bob}
  Bodies <- MixedBodies
  SelfHosts = {1, 2}
  FaultyHosts = {2}
  HostLimit = 1
  UserLimit = 1
  SelfLifetime = 2
  Assignments0 <- OneOpen
  Schedules0 <- OneRow
  FirstId = 3
  MaxTime = 2
CHECK_DEADLOCK FALSE
PROPERTY Answered
