SPECIFICATION Spec
CONSTANTS
  Plans = {1, 2}
  Cached = {1}
  Codes = {"timeout", "crash", "memory", "setup"}
  Retryable = {"timeout", "crash", "memory"}
  Inherited = TRUE
  Faults = {"prepare", "image", "raise", "die", "store", "empty", "assets"}
  MaxAttempts = 3
INVARIANTS ModelRebuilt EveryRunTold
PROPERTIES WorkerStops
CHECK_DEADLOCK FALSE
