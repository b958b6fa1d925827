\* A merchant is corrected, then the row is accepted.
SPECIFICATION Spec
CONSTANTS
  q1 = q1
  kyobo = kyobo
  emart = emart
  NoText = NoText
  NoToken = NoToken
  Rows <- RuleRows
  Kind <- RuleKinds
  Domain <- RuleDomains
  Texts = {kyobo, emart}
  Requests = {q1}
  MaxVersion = 3
  MaxSearch = 2
  AppRunning = FALSE
  Interrupted = FALSE
INVARIANT AcceptedTokenMatches
CHECK_DEADLOCK FALSE
