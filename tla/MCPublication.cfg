SPECIFICATION FairSpec
CONSTANTS
  c1 = c1
  c2 = c2
  c3 = c3
  p1 = p1
  p2 = p2
  Creator = {c1, c2, c3}
  Process = {p1, p2}
  ProcessOf <- MCProcessOf
  PidOf <- MCPidOf
  Contender = {c1, c3}
  Intruder = {f1}
  Nonce = {n1, n2}
  OutputCount = 3
  Free = Free
  None = None
  Attempts = 2
  MaxForeign = 2
  MaxFaults = 2
INVARIANTS OnlyComplete ReportedIsPublished FailedLeavesNothing MergeMatchesReference
PROPERTIES OthersKept SomeoneIsPublished
CHECK_DEADLOCK FALSE
