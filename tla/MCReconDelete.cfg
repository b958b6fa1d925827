\* Delete a transaction and accept its row again.
SPECIFICATION Spec
CONSTANTS
  a = a
  b = b
  c = c
  x = x
  y = y
  dup = dup
  dup2 = dup2
  move = move
  back = back
  back2 = back2
  card = card
  NoRow = NoRow
  NoTx = NoTx
  NoMatch = NoMatch
  Docs = {x, y}
  Rows <- PairRows
  DocOf <- PairDocOf
  RunOf <- PairRunOf
  ReadAs <- PairReadAs
  Matches <- MoveMatches
  Pair <- MoveOf
  Kind <- MoveKind
  LedgerAccounts = {FALSE}
  AutoMerge = FALSE
  DirectionsCorrected = FALSE
  ReviewDuringImport = FALSE
INVARIANT AcceptedIsVisible
CHECK_DEADLOCK FALSE
