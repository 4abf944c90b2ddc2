SPECIFICATION FairSpec
CONSTANTS
  good = good
  better = better
  broken = broken
  passwordless = passwordless
  quit = quit
  reload = reload
  again = again
  Configs = {good}
  Loads = {good}
  Spawns = {good}
  Requests = {reload}
  Quits = {}
  LifecycleCapacity = 2
PROPERTIES
  IntEnds
