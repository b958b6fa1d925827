\* Rotations that may be killed, with the application stopped meanwhile.
SPECIFICATION Spec
CONSTANTS
  q1 = q1
  kyobo = kyobo
  emart = emart
  NoText = NoText
  NoToken = NoToken
  Rows <- ThreeRows
  Kind <- ThreeKinds
  Domain <- ThreeDomains
  Texts = {kyobo, emart}
  Requests = {q1}
  MaxVersion = 3
  MaxSearch = 2
  AppRunning = FALSE
  Interrupted = TRUE
SYMMETRY TextSymmetry
INVARIANTS NothingLost ReadableAtRest TokensUnderLiveKeys TokensCurrent
CHECK_DEADLOCK FALSE
