\* Two of everything; each behaviour moves one of the programs.
SPECIFICATION Spec
CONSTANTS
  Pads = {padA, padB}
  Devs = {js0, js1}
  Nobody = Nobody
  holo = holo
  diff = diff
  Teleops = {holo, diff}
  Kind <- MCKind
  DeadMan = {diff}
  Poses <- MCPoses
  arm = arm
  turret = turret
  Joints = {arm, turret}
  Low <- MCLow
  High <- MCHigh
  Rate <- MCRate
  Grips <- MCGrips
  NoJoy = NoJoy
  Peers = {peerA, peerB}
  PeerTimeout = 3
  ReportEvery = 2
  MaxTroubles = 3
  vidar = vidar
  skadi = skadi
  Hosts = {vidar, skadi}
  HostVars <- MCHostVars
  Domain <- MCDomain
  MaxScans = 1
  MaxOvertakes = 1
  nav = nav
  arms = arms
  Repos = {nav, arms}
  Manifest <- MCManifest
INVARIANTS
  TypeOK
  OneLinePerPad
  OwnTopic
  JointsInRange
  OneLoopPerTile
  OneTilePerCamera
  NodeRunsTheLock
PROPERTIES
  PluggedPadPublishes
  OnePadDrives
  AllReleasedStops
  JointsNeverSnap
  HomeWins
  ReleasedFlywheelStops
  ListFollowsPeers
  StableIndices
  ViewersServed
  HealthyCameraKept
  TilesKeepRefreshing
