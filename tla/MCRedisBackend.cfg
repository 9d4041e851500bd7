CONSTANTS
  d1 = d1
  d2 = d2
  Key = {k1, k2}
  Band = {b1, b2}
  Hash = {h1, h2}
  Absent = Absent
  Handle = {c1, c2}
  Descriptor = {d1}
  Retention <- OneRetention
  None = None
  MaxBatch = 2
  MaxLost = 1
  Horizon = 3
  Forever = 99
SPECIFICATION Spec
SYMMETRY Symmetry
INVARIANTS TypeOK BucketsMatchRecords QueryBounds SameRetention RetentionSinceMutation
