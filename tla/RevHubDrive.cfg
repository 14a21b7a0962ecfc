\* All three joystick sources; requests and replies may be lost.
SPECIFICATION Spec
CONSTANTS
  NONE = NONE
  m0 = m0
  m1 = m1
  p1 = p1
  Sources = {"device", "ros", "twist"}
  Motions = {m0, m1}
  Rest = m0
  Ports = {p1}
  Timeout = 2
  Mix <- MCMix
  CalDrive <- MCCal
  NW = 1
  Slew = 2
  Quantum = 2
  StatusEvery = 1
  MaxAttempts = 2
  Faults = {"trip", "lost", "noack", "open"}
  MaxFaults = 2
  MayStop = TRUE
INVARIANTS
  HubFollowsApplied
PROPERTIES
  SilenceStops
  ButtonsAreRefreshed
CHECK_DEADLOCK FALSE
