SPECIFICATION FairSpec
CONSTANTS
  Thread = {t1, t2}
  Free = Free
  IndexCalls = 3
  EngineCalls = 2
  EngineBatch = 2
  CallFaults = 1
  Key = {k1}
  Band = {b1}
  Hash = {h1, h2}
  Absent = Absent
  None = None
  Torn = Torn
  MaxBatch = 1
  MaxFaults = 3
  MaxUnsynced = 2
INVARIANTS AcceptedSurvives EngineAligned GroupsNameRecords
PROPERTIES CallsReturn SyncRetrySucceeds
CHECK_DEADLOCK FALSE
