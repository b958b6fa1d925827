\* Accept a row while a pass that replaces it is being imported.
SPECIFICATION Spec
CONSTANTS
  a = a
  b = b
  c = c
  x = x
  y = y
  dup = dup
  dup2 = dup2
  move = move
  back = back
  back2 = back2
  card = card
  NoRow = NoRow
  NoTx = NoTx
  NoMatch = NoMatch
  Docs = {x, y}
  Rows <- MergeRowsOf
  DocOf <- MergeDocOf
  RunOf <- MergeRunOf
  ReadAs <- MergeReadAs
  Matches <- MergeMatches
  Pair <- MergePair
  Kind <- MergeKind
  LedgerAccounts = {FALSE}
  AutoMerge = FALSE
  DirectionsCorrected = FALSE
  ReviewDuringImport = TRUE
PROPERTY OnlyOpenReplaced
CHECK_DEADLOCK FALSE
