\* A rotation is killed half way and run again.
SPECIFICATION Spec
CONSTANTS
  q1 = q1
  kyobo = kyobo
  emart = emart
  NoText = NoText
  NoToken = NoToken
  Rows <- RuleRows
  Kind <- RuleKinds
  Domain <- RuleDomains
  Texts = {kyobo}
  Requests = {q1}
  MaxVersion = 3
  MaxSearch = 2
  AppRunning = FALSE
  Interrupted = TRUE
INVARIANT RerunFinishes
CHECK_DEADLOCK FALSE
