SPECIFICATION Spec
CONSTANTS
  Width = 3
  Shift <- MCShift
  Factor <- MCFactor
  Seed = {1, 2}
  Draw <- MCDraw
  MaxPerm = 2
  Value = {0, 1, 6, 7}
  Name = {c1, c2}
  None = None
  Call = {c1, c2}
  MaxRows = 5
  MinRows = 2
  Available = 3
  AutoMax = 2
  MaxFaults = 1
  Automatic = Automatic
  Sequential = Sequential
  Key = {k1, k2, k3}
  Band = {b1, b2}
  Hash = {h1, h2}
  Absent = Absent
  NoId = NoId
  Incompatible = Incompatible
  MaxItems = 4
  MaxBatch = 2
  Thread = {c1, c2}
  Items = 2
  MaxQueries = 2
  MaxCalls = 2
  MaxSize = 2
  MaxBuckets = 105
  Keys = {1, 2, 3, 4}
  Bands = 2
  Hashes = {0, 1}
  Requests <- MCRequests
  MaxPairs = 3
INVARIANTS SketchesExact BatchExact SlotsConsistent QueryExact StatisticsExact GroupingExact
PROPERTIES ImplementsContents
CHECK_DEADLOCK FALSE
