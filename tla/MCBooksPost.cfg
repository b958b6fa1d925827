SPECIFICATION Spec
CONSTANTS
  None = None
  bank = bank
  visa = visa
  credit = credit
  n1 = n1
  n2 = n2
  Txs = {t1, t2}
  Accounts = {bank, visa}
  Cards = {credit}
  CardKind <- OneCard
  Names = {n1, n2}
  Offsets = {food}
  Equity = Equity
  Types = {"purchase", "refund", "cash_withdrawal"}
  AccountTypes = {"checking", "loan"}
  Currencies = {"USD"}
  Exponent <- Dollars
  Typed = {2}
  Openings <- TwoOpenings
  InitialAccounts <- TwoAccounts
  Callers = {p1}
  AdminEdits <- BankType
  Corrections = {"transaction_type", "financial_account", "payment_instrument"}
SYMMETRY TxSymmetry
INVARIANTS EntriesDescribe BalancesAgree OpeningStands ReportsAgree ReportsMatchLedger
PROPERTY HistoryKept
CHECK_DEADLOCK FALSE
