SPECIFICATION Spec
CONSTANTS
  None = None
  bank = bank
  visa = visa
  credit = credit
  n1 = n1
  n2 = n2
  Txs = {t1, t2}
  Accounts = {bank, visa}
  Cards = {credit}
  CardKind <- OneCard
  Names = {n1, n2}
  Offsets = {food}
  Equity = Equity
  Types = {"purchase", "income"}
  AccountTypes = {"checking", "credit_card_liability"}
  Currencies = {"USD"}
  Exponent <- Dollars
  Typed = {}
  Openings <- TwoOpenings
  InitialAccounts <- TwoAccounts
  Callers = {p1, p2}
  AdminEdits = {}
  Corrections = {"transaction_type", "financial_account", "payment_instrument"}
CHECK_DEADLOCK FALSE
INVARIANT OpeningStands
