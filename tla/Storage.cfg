SPECIFICATION Spec
CONSTANTS
  Cell = {0, 1, 2}
  KnownKind = {1}
  MaxBody = 10
  MaxSectionCount = 2
  MaxSectionSize = 1
  MaxHeaderWord = 3
  HeaderSize = 5
  EntrySize = 4
  TargetSize = 16
  MaxSections = 99
  MaxSegmentSize = 999
  Bands = 2
  BandHash = {0, 1}
  IndexScheme = {affine32, affine64}
  MaxItems = 2
  MaxDamage = 2
  Junk = 77
  MaxWord = 4
  MaxRetention = 2
  MaxPerm = 3
  Threshold = {0, 1}
  GoodThreshold = {1}
  Magic = 1
  Key = {k1, k2}
  Band = {b1, b2}
  Hash = {h1, h2}
  Absent = Absent
  Incompatible = Incompatible
  Unknown = Unknown
  NoMetrics = NoMetrics
  NoRetention = NoRetention
  MaxBatch = 2
  MaxObserved = 1
  MaxKnown = 5
INVARIANTS FormatsAgree AnswersExact VerifyCovers HandleCounts BackendConsistent
PROPERTIES ImplementsContents
CHECK_DEADLOCK FALSE
