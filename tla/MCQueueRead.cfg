\* One document, two workers; recovery only finds claims whose worker is gone; fair workers and timers.
SPECIFICATION FairSpec
CONSTANTS
  d1 = d1
  j1 = j1
  j2 = j2
  w1 = w1
  w2 = w2
  NoJob = NoJob
  Docs <- OneDoc
  Jobs <- OneDocJobs
  DocOf <- OneDocOf
  Workers = {w1, w2}
  MaxAttempts = 2
  MaxMishaps = 2
  SlowWorkers = FALSE
  KeysFail = FALSE
  DeletesFail = FALSE
INVARIANTS ExclusiveWork NeverStranded ScreenshotKept
PROPERTIES KeepsPromise DocumentSettles ScreenshotErased
CHECK_DEADLOCK FALSE
