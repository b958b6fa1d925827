\* RUNBOOK.md: an exhausted job leaves the document failed.
SPECIFICATION Spec
CONSTANTS
  d1 = d1
  j1 = j1
  j2 = j2
  w1 = w1
  w2 = w2
  NoJob = NoJob
  Docs <- OneDoc
  Jobs <- OneDocJobs
  DocOf <- OneDocOf
  Workers = {w1}
  MaxAttempts = 2
  MaxMishaps = 0
  SlowWorkers = FALSE
  KeysFail = TRUE
  DeletesFail = FALSE
INVARIANTS NeverStranded
CHECK_DEADLOCK FALSE
