SPECIFICATION Spec
CONSTANTS
  Thread = {t1, t2}
  Items = 2
  MaxQueries = 2
  MaxCalls = 2
INVARIANT RateIsExact
