\* reprocessing.py: a document whose image is gone cannot be read again.
SPECIFICATION Spec
CONSTANTS
  d1 = d1
  j1 = j1
  j2 = j2
  w1 = w1
  w2 = w2
  NoJob = NoJob
  Docs <- OneDoc
  Jobs <- OneDocJobs
  DocOf <- OneDocOf
  Workers = {w1}
  MaxAttempts = 2
  MaxMishaps = 0
  SlowWorkers = FALSE
  KeysFail = FALSE
  DeletesFail = FALSE
PROPERTIES ReprocessHasScreenshot
CHECK_DEADLOCK FALSE
