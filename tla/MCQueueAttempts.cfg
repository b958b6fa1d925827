\* RUNBOOK.md: a job stops after max_attempts.
SPECIFICATION Spec
CONSTANTS
  d1 = d1
  j1 = j1
  j2 = j2
  w1 = w1
  w2 = w2
  NoJob = NoJob
  Docs <- OneDoc
  Jobs <- OneDocJobs
  DocOf <- OneDocOf
  Workers = {w1}
  MaxAttempts = 2
  MaxMishaps = 2
  SlowWorkers = FALSE
  KeysFail = FALSE
  DeletesFail = FALSE
INVARIANTS AttemptsBounded
CHECK_DEADLOCK FALSE
