SPECIFICATION Spec
CONSTANTS
  good = good
  better = better
  broken = broken
  passwordless = passwordless
  quit = quit
  reload = reload
  again = again
  Configs = {good, passwordless}
  Loads = {good, passwordless}
  Spawns = {good}
  Requests = {quit, reload}
  Quits = {quit}
  LifecycleCapacity = 2
PROPERTIES
  FailedReloadKeepsRunning
