SPECIFICATION Spec
CONSTANTS
  files = files
  endpointslice = endpointslice
  podrole = podrole
  file = file
  pods = pods
  slices = slices
  rolePods = rolePods
  Sources = {endpointslice}
  Kube = {endpointslice}
  Stores <- MCStores
  StoresOf <- MCStoresOf
  NotifyCapacity = 1
  MaxVersion <- MCMaxVersion
CHECK_DEADLOCK FALSE
INVARIANTS
  TypeOK
  NoLostWakeup
