\* One motor command fails half way through a vector.
SPECIFICATION Spec
CONSTANTS
  NW = 2
  Demands <- MCDemands
  Quantum = 2
  NONE = NONE
  Timeout = 1
  StatusEvery = 2
  BulkLimit = 2
  MaxAttempts = 2
  Faults = {"lost"}
  MaxFaults = 1
PROPERTY CommandTimeoutStops
