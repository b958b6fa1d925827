SPECIFICATION Spec
CONSTANTS
  None = None
  bank = bank
  visa = visa
  credit = credit
  n1 = n1
  n2 = n2
  Txs = {t1}
  Accounts = {bank}
  Cards = {}
  CardKind <- NoCardKind
  Names = {n1, n2}
  Offsets = {food}
  Equity = Equity
  Types = {"purchase", "income"}
  AccountTypes = {"checking", "credit_card_liability"}
  Currencies = {"KRW"}
  Exponent <- Won
  Typed = {2}
  Openings <- TwoOpenings
  InitialAccounts <- WonAccount
  Callers = {p1}
  AdminEdits = {}
  Corrections = {"transaction_type", "financial_account", "payment_instrument"}
CHECK_DEADLOCK FALSE
PROPERTY ResaveKeeps
