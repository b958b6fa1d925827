\* One pair of rows that can be a transfer, a refund or a duplicate; automatic merging on.
SPECIFICATION Spec
CONSTANTS
  a = a
  b = b
  c = c
  x = x
  y = y
  dup = dup
  dup2 = dup2
  move = move
  back = back
  back2 = back2
  card = card
  NoRow = NoRow
  NoTx = NoTx
  NoMatch = NoMatch
  Docs = {x, y}
  Rows <- PairRows
  DocOf <- PairDocOf
  RunOf <- PairRunOf
  ReadAs <- PairReadAs
  Matches <- PairMatches
  Pair <- PairOf
  Kind <- PairKind
  LedgerAccounts = {TRUE, FALSE}
  AutoMerge = TRUE
  DirectionsCorrected = FALSE
  ReviewDuringImport = FALSE
INVARIANTS TransferWhole BooksSettled
PROPERTY CountsOnce
CHECK_DEADLOCK FALSE
