SPECIFICATION FairSpec
CONSTANTS
  files = files
  endpointslice = endpointslice
  podrole = podrole
  file = file
  pods = pods
  slices = slices
  rolePods = rolePods
  Sources = {files, podrole}
  Kube = {podrole}
  Stores <- MCStores
  StoresOf <- MCStoresOf
  NotifyCapacity = 1
  MaxVersion <- MCMaxVersion
INVARIANTS
  NoLostPublication
PROPERTIES
  ViewsAdvance
  Converges
