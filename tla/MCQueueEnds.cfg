\* Jobs end even if claims expire under live workers, keys fail and deletions roll back.
SPECIFICATION FairSpec
CONSTANTS
  d1 = d1
  j1 = j1
  j2 = j2
  w1 = w1
  w2 = w2
  NoJob = NoJob
  Docs <- OneDoc
  Jobs <- OneJob
  DocOf <- OneJobOf
  Workers = {w1, w2}
  MaxAttempts = 2
  MaxMishaps = 1
  SlowWorkers = TRUE
  KeysFail = TRUE
  DeletesFail = TRUE
PROPERTIES EveryJobEnds
CHECK_DEADLOCK FALSE
