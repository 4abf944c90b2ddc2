SPECIFICATION Spec
CONSTANTS
  Newline = "nl"
  NameStart = {"a", "b", "t", "x", "X", "__", "job", "instance", "exported_"}
  NameTokens = {"a", "b", "t", "x", "X", "0", "__", "address", "job", "instance", "exported_"}
  Capture = Capture
  NoCapture = NoCapture
  Dropped = Dropped
  Lowercase <- MCLowercase
  Uppercase <- MCUppercase
  Digest <- MCDigest
  Numeral <- MCNumeral
  MaxRules = 2
  SchemaMin = 0
  SchemaMax = 2
  IndexBits = 5
  IndexLimit = 4
  CountBits = 4
  Failed = Failed
  FineSchemas = {3, 5}
  Absent = Absent
  NoStore = NoStore
  Empty = Empty
  Letters = {"m", "n", "a", "r", "le", "quantile"}
  Digits = {"1"}
  MetricNameLabel <- MCMetricNameLabel
  MaxLabelsPerSeries = 4
  LinearLimit = 2
  MaxTimestamp = 5000
  FloatOf <- MCFloatOf
  IntegerOf <- MCIntegerOf
  Malformed = Malformed
  NoLine = NoLine
  LeLabel <- MCLeLabel
  QuantileLabel <- MCQuantileLabel
  DigitValue <- MCDigitValue
  DurationUnits <- MCDurationUnits
  Ki = 4
  FractionDigits = 2
  MaxNumber = 255
  Blank = {" "}
  Invalid = Invalid
  MaxPieces = 5
  Unset = Unset
  EmptyText = EmptyText
  Unusable = Unusable
  MaxChanges = 2
  Before <- MCBefore
  MaxPreallocated = 3
  DefaultCapacity = 2
  FirstWeight = 6
CHECK_DEADLOCK FALSE
INVARIANTS
  Relabelled
  HistogramsReduced
  PortsCovered
  RequestsEncoded
  TextsRead
  FamiliesRead
  ConfigurationsHold
  AnswersRead
  Identities
  BatchesPromised
