\* A child that has answered does not come to its end.
SPECIFICATION Spec
CONSTANTS
  Plans = {1, 2}
  Cached = {1}
  Codes = {"timeout", "crash"}
  Retryable = {"timeout", "crash"}
  Inherited = TRUE
  Faults = {"linger"}
  MaxAttempts = 1
PROPERTIES WorkerStops
CHECK_DEADLOCK FALSE
