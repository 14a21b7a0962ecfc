\* A re-arm that fails half way.
SPECIFICATION FairSpec
CONSTANTS
  NW = 2
  Demands <- MCDemands
  Slew = 4
  Quantum = 2
  StatusEvery = 2
  MaxAttempts = 2
  Faults = {"trip", "lost"}
  MaxFaults = 2
  MayStop = FALSE

PROPERTY ChannelsComeBack

