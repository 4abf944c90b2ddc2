SPECIFICATION RecoveringSpec
CONSTANTS
  good = good
  better = better
  broken = broken
  quit = quit
  reload = reload
  target = target
  Self = Self
  Configs = {good, better, broken}
  Loads = {good, better}
  Spawns = {good, better}
  Requests = {quit, reload}
  Quits = {quit}
  LifecycleCapacity = 1
  Targets = {target}
  TargetsOf <- MCTargetsOf
  OutboxCapacity = 1
INVARIANTS
  AgentTypeOK
  RequestsHonoured
  TurnsInOrder
PROPERTIES
  ReadyScrapes
  CommandsTakeEffect
