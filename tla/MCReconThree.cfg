\* Three rows: a credit claimed by two purchases, a settlement, merges by hand, a second pass that reviewers do not wait for.
SPECIFICATION Spec
CONSTANTS
  a = a
  b = b
  c = c
  x = x
  y = y
  dup = dup
  dup2 = dup2
  move = move
  back = back
  back2 = back2
  card = card
  NoRow = NoRow
  NoTx = NoTx
  NoMatch = NoMatch
  Docs = {x, y}
  Rows <- ThreeRows
  DocOf <- ThreeDocOf
  RunOf <- ThreeRunOf
  ReadAs <- ThreeReadAs
  Matches <- ThreeMatches
  Pair <- ThreePair
  Kind <- ThreeKind
  LedgerAccounts = {FALSE}
  AutoMerge = FALSE
  DirectionsCorrected = FALSE
  ReviewDuringImport = TRUE
INVARIANTS CountedNotReopened NoMergeCycle
PROPERTY DecisionStands
CHECK_DEADLOCK FALSE
