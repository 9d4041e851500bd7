CONSTANTS
  c1 = c1
  c2 = c2
  c3 = c3
  p1 = p1
  p2 = p2
  Creator = {c1, c2}
  Process = {p1, p2}
  ProcessOf <- TwoProcesses
  Foreign = {f1}
  Free = Free
  Attempts = 2
  MaxFaults = 1
SPECIFICATION Spec
CHECK_DEADLOCK FALSE
PROPERTY RollbackPreservesReplacement
