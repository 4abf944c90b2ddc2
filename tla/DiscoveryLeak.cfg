SPECIFICATION FairSpec
CONSTANTS
  files = files
  endpointslice = endpointslice
  podrole = podrole
  file = file
  pods = pods
  slices = slices
  rolePods = rolePods
  Sources = {podrole}
  Kube = {podrole}
  Stores <- MCStores
  StoresOf <- MCStoresOf
  NotifyCapacity = 1
  MaxVersion <- MCMaxVersion
CHECK_DEADLOCK FALSE
PROPERTIES
  SourcesEndWithJob
