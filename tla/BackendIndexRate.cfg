SPECIFICATION HandleSpec
CONSTANTS
  Key = {k1, k2, k3}
  Band = {b1, b2}
  Hash = {h1, h2}
  Absent = Absent
  Incompatible = Incompatible
  Unknown = Unknown
  NoMetrics = NoMetrics
  MaxBatch = 2
  MaxObserved = 1
  MaxKnown = 5
INVARIANTS PossibleIsExact
