\* Fail-safes, failed reads, re-arms and reconnects; motor commands get through.
SPECIFICATION Spec
CONSTANTS
  NW = 2
  Demands <- MCDemands
  Quantum = 2
  NONE = NONE
  Timeout = 2
  StatusEvery = 2
  BulkLimit = 2
  MaxAttempts = 2
  Faults = {"trip", "arm", "read", "mute", "open", "stop"}
  MaxFaults = 4
INVARIANTS
  TypeOK
  DedupeIsSafe
PROPERTIES
  CommandTimeoutStops
  RecoveryEnds
