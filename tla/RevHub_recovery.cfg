\* Fail-safes, lost requests, failed session attempts and stop requests.
SPECIFICATION FairSpec
CONSTANTS
  NW = 2
  Demands <- MCDemands
  Slew = 4
  Quantum = 2
  StatusEvery = 2
  MaxAttempts = 2
  Faults = {"trip", "lost", "open"}
  MaxFaults = 3
  MayStop = TRUE
INVARIANT
  TypeOK
PROPERTIES
  SlewLimited
  ChannelsComeBackUnlessCut
  SteadyDemandReached

