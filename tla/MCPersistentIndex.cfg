CONSTANTS
  Key = {k1, k2}
  Band = {b1}
  Hash = {h1, h2}
  Absent = Absent
  None = None
  Torn = Torn
  MaxBatch = 2
  MaxFaults = 2
  MaxUnsynced = 2
SPECIFICATION Spec
SYMMETRY Symmetry
INVARIANTS TypeOK QueryExact CleanMeansCommitted NeverTorn DurableReport
PROPERTIES CommitKeepsMutations ImplementsContract
