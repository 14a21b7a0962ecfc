\* A re-arm overtaken by an _apply under way.
SPECIFICATION Spec
CONSTANTS
  NW = 2
  Demands <- MCDemands
  Quantum = 2
  NONE = NONE
  Timeout = 1
  StatusEvery = 2
  BulkLimit = 2
  MaxAttempts = 2
  Faults = {"trip"}
  MaxFaults = 1
PROPERTY TargetReachesWheels
