SPECIFICATION Spec
CONSTANTS
  Rows = {e1, e2}
  Sessions = {s1}
  Purge = Purge
  Script = Script
  Nobody = Nobody
  Hasty = FALSE
  MaxFaults = 2
INVARIANTS DownloadsWhole
PROPERTIES MarkedWhenGone ExpiredErased
CHECK_DEADLOCK FALSE
