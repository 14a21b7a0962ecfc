\* A pad that dies with a stick pushed.
SPECIFICATION Spec
CONSTANTS
  Motions = {0, 1}
  Rest = 0
  Guard = 1
  Depth = 2
  Timeout = 1
PROPERTY PlannerReplacesDeadPad
