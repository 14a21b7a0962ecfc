\* Two modules, deaths of every process, joints followed for half a turn each way.
SPECIFICATION Spec
CONSTANTS
  a = a
  b = b
  rest = rest
  fwd = fwd
  left = left
  right = right
  Modules = {a, b}
  Motions = {rest, fwd, left, right}
  Rest = rest
  HalfTurn = 6
  Heading <- MCHeading
  Speed <- MCSpeed
  Timeout = 1
  Guard = 0
  Depth = 1
  MaxWind = 6
INVARIANTS
  TypeOK
  KnowsTheJoints
  RollsAsAsked
PROPERTIES
  SteersAtMostQuarter
  SilenceStops
