SPECIFICATION Spec
CONSTANTS
  t1 = t1
  t2 = t2
  a = a
  aSpaced = aSpaced
  b = b
  bHost = bHost
  noise = noise
  labelA = labelA
  labelB = labelB
  labelBHost = labelBHost
  labelNoise = labelNoise
  Dropped = Dropped
  NoStamp = NoStamp
  NoBody = NoBody
  Targets = {t1, t2}
  Raw <- MCRaw
  Parsed <- MCParsed
  Final <- MCFinal
  Clock <- MCClock
  Bodies <- MCBodies
  FoldHosts = FALSE
  HonorTimestamps = TRUE
  SampleLimit = 3
  CompressOutcomes = {TRUE, FALSE}
SYMMETRY MCSymmetry
INVARIANTS
  TypeOK
  RetainedAnswers
  VanishedAreEnded
  GaugeExact
