SPECIFICATION FairSpec
CONSTANTS
  one = one
  two = two
  other = other
  gateway = gateway
  web = web
  db = db
  NoTarget = NoTarget
  Addresses = {one, two, gateway}
  Targets <- MCTargets
  Identity <- MCIdentity
  Static = {}
  TrackStaleness = TRUE
  MaxChanges = 3
INVARIANTS
  TypeOK
  OneWriter
  DoneIsQuiet
  RemovedAreEnded
PROPERTIES
  MarkersEndLoops
  Converges
  ShutdownCompletes
