SPECIFICATION Spec
CONSTANTS
  Nics <- MCNics
  Layouts <- MCLayouts
  Clouds <- MCClouds
  Spare = 1
  Offers <- MCOffers
  VlanFirst = 1100
  Asked <- MCAsked
  MaxFaults = 1
  MaxCalls = 1
  None = None
INVARIANTS OneVlan Persisted
PROPERTIES PortsFollow VerifiedRight
