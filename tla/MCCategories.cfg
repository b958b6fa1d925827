SPECIFICATION Spec
CONSTANTS
  None = None
  k1 = k1
  a1 = a1
  food = food
  fun = fun
  w = w
  ltd = ltd
  gangnam = gangnam
  Txs = {1, 2}
  landlord = landlord
  Words = {w, ltd, gangnam}
  Names <- TwoNames
  Noise = {ltd}
  Branch = {gangnam}
  Payees = {landlord}
  Cards = {k1}
  Accounts = {a1}
  AccountOf <- OneCard
  Categories = {food, fun}
  OtherRules <- TwoOthers
  OldRules <- OldRule
  Seen <- ByCardOrCash
  OtherAliases <- TwoAliases
  Corrected = {}
  MaxRules = 2
PROPERTIES AnswersKept PreviewHolds OrderFree
CHECK_DEADLOCK FALSE
