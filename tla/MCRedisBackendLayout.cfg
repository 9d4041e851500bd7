CONSTANTS
  d1 = d1
  d2 = d2
  Key = {k1, k2}
  Band = {b1}
  Hash = {h1, h2}
  Absent = Absent
  Handle = {c1, c2}
  Descriptor = {d1, d2}
  Retention <- TwoRetentions
  None = None
  MaxBatch = 2
  MaxLost = 1
  Horizon = 3
  Forever = 99
SPECIFICATION Spec
SYMMETRY Symmetry
INVARIANT CompatibleRecords
