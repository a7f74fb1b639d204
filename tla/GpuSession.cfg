SPECIFICATION Spec
CONSTANTS
  Hosts <- MCHosts
  Selectors <- MCSelectors
  MaxDevices = 2
  MaxRows = 2
  MaxBatches = 3
  MaxFaults = 1
INVARIANTS
  CleanupReleasesAll
  ReleasedMemoryUntouched
  VerdictsSound
PROPERTIES
  ImplementsService
