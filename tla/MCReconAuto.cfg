\* Dismiss a duplicate while the automatic merge holds it.
SPECIFICATION Spec
CONSTANTS
  a = a
  b = b
  c = c
  x = x
  y = y
  dup = dup
  dup2 = dup2
  move = move
  back = back
  back2 = back2
  card = card
  NoRow = NoRow
  NoTx = NoTx
  NoMatch = NoMatch
  Docs = {x, y}
  Rows <- PairRows
  DocOf <- PairDocOf
  RunOf <- PairRunOf
  ReadAs <- PairReadAs
  Matches <- PairMatches
  Pair <- PairOf
  Kind <- PairKind
  LedgerAccounts = {FALSE}
  AutoMerge = TRUE
  DirectionsCorrected = FALSE
  ReviewDuringImport = FALSE
PROPERTY DecisionStands
CHECK_DEADLOCK FALSE
