SPECIFICATION Spec
CONSTANTS
  Machines <- MCMachines
  Moves <- MCMoves
  Retries = 2
  IpmiRetries = 2
  MaxFaults = 2
  MaxRuns = 2
  None = None
CHECK_DEADLOCK FALSE
INVARIANT BuiltAsAsked
INVARIANT GateKept
INVARIANT FailsOnlyFor
PROPERTY Ends
