SPECIFICATION Spec
CONSTANTS
  Rows = {e1}
  Sessions = {s1}
  Purge = Purge
  Script = Script
  Nobody = Nobody
  Hasty = FALSE
  MaxFaults = 1
INVARIANT FailureRemovesFile
CHECK_DEADLOCK FALSE
