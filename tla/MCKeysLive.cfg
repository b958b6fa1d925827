\* The application goes on while a rotation walks the rows.
SPECIFICATION Spec
CONSTANTS
  q1 = q1
  kyobo = kyobo
  emart = emart
  NoText = NoText
  NoToken = NoToken
  Rows <- RuleRows
  Kind <- RuleKinds
  Domain <- RuleDomains
  Texts = {kyobo, emart}
  Requests = {q1}
  MaxVersion = 3
  MaxSearch = 2
  AppRunning = TRUE
  Interrupted = FALSE
INVARIANT NothingLost
CHECK_DEADLOCK FALSE
