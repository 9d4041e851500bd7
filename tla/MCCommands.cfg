SPECIFICATION FairSpec
CONSTANTS
  affine32 = affine32
  affine64 = affine64
  Scheme = {affine32, affine64}
  Narrow = affine32
  None = None
  Free = Free
  Command = {c1, c2}
  Key = {1, 2}
  IndexInput <- MCIndexInput
  SearchInput <- MCSearchInput
  DedupInput <- MCDedupInput
  MaxBatch = 2
  MaxSize = 2
  MaxEvery = 2
  MaxFaults = 1
  MaxReplace = 1
INVARIANTS IndexAllOrNothing AnswersInOrder DedupWhole
PROPERTIES UsableIsIndexed
CHECK_DEADLOCK FALSE
