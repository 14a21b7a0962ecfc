\* Queues of two messages: overflow, arbitrary delays, a pad that dies.
SPECIFICATION Spec
CONSTANTS
  Motions = {0, 1}
  Rest = 0
  Guard = 1
  Depth = 2
  Timeout = 1
INVARIANTS
  TypeOK
  OperatorHasLastWord
  HandoverThroughZero
PROPERTIES
  SilenceStops
  OperatorTakesControl
  PlannerDrivesAfterRelease
