SPECIFICATION ScopedSpec
CONSTANTS
  r1 = r1
  r2 = r2
  r3 = r3
  alice = alice
  bob = bob
  None = None
  Requests = {r1, r2, r3}
  Hosts = {1, 2, 3}
  Clouds = {0, 1, 2, 3}
  SparePool = 0
  Users = {alice, bob}
  Bodies <- AllBodies
  SelfHosts = {1, 2, 3}
  FaultyHosts = {2}
  HostLimit = 1
  UserLimit = 1
  SelfLifetime = 2
  Assignments0 <- TwoOpen
  Schedules0 <- OneRow
  FirstId = 4
  MaxTime = 2
SYMMETRY RequestSymmetry
CHECK_DEADLOCK FALSE
INVARIANT NoDoubleBooking
INVARIANT BookingInv
INVARIANT AvailabilityIsExact
INVARIANT OneActiveAssignment
INVARIANT NoWaitCycle
INVARIANT SelfHostLimit
PROPERTY CalendarSpec
