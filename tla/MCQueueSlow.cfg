\* Recovery may take a live worker's job, keys fail, deletions roll back.
SPECIFICATION Spec
CONSTANTS
  d1 = d1
  j1 = j1
  j2 = j2
  w1 = w1
  w2 = w2
  NoJob = NoJob
  Docs <- OneDoc
  Jobs <- OneDocJobs
  DocOf <- OneDocOf
  Workers = {w1, w2}
  MaxAttempts = 2
  MaxMishaps = 2
  SlowWorkers = TRUE
  KeysFail = TRUE
  DeletesFail = TRUE
SYMMETRY WorkerSymmetry
INVARIANTS OneActiveJob
CHECK_DEADLOCK FALSE
