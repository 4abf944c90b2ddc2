SPECIFICATION FairSpec
CONSTANTS
  plain = plain
  broken = broken
  Endpoints = {plain, broken}
  Kinds <- MCKinds
  NativeKinds <- MCNativeKinds
  Batches <- MCBatches
  SendNative <- MCSendNative
  ZeroDeadline <- MCZeroDeadline
  RelabelDrops <- MCRelabelDrops
  Capacity <- MCCapacity
  MaxSamplesPerSend <- MCMaxSamplesPerSend
  NominalBatch = 2
  MinSlots = 1
  MaxSeries = 5
INVARIANTS
  TypeOK
  PendingSamplesExact
  RequestBounded
  ReceivedInOrder
  StoppedIsDrained
PROPERTIES
  ImplementsStream
  DrainCompletes
  SettlesStream
