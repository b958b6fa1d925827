------------------------------- MODULE Books -------------------------------
(***************************************************************************)
(* One user's books: transactions typed in or accepted from rows, their    *)
(* double-entry postings, deletion by reversal, the ledger account made    *)
(* for each financial account, and opening balances, which are read and    *)
(* then written in one database transaction but under no lock of the       *)
(* account.  Amounts are integer minor units.  Ledger accounts are named   *)
(* by their blind index, which is unique in a chart.                       *)
(***************************************************************************)
EXTENDS Integers, FiniteSets, Functions

CONSTANTS
  Txs,         \* canonical transactions
  Accounts,    \* financial accounts
  Cards,       \* payment instruments
  CardKind,    \* their instrument_type
  Names,       \* blind indexes of account names
  Offsets,     \* ledger accounts made by hand, such as a category's expense
  Equity,      \* the system account opening balances are posted against
  None,        \* no account, no card, no posting, no opening balance
  Types,       \* transaction types in use
  AccountTypes,\* account types in use
  Currencies,  \* currencies in use
  Exponent,    \* minor_unit_exponent of each
  Typed,       \* amounts typed into the form, in hundredths
  Openings,    \* opening balances a user may record or correct to, minor units
  InitialAccounts, \* the accounts before anything is posted
  Callers,     \* concurrent calls of the opening-balance services
  AdminEdits,  \* <<account, column>>: what is changed in the Django admin
  Corrections  \* fields correct_confirmed_transaction is called with

\* POSTING_RULES: whether the account of the transaction is credited ("out") or
\* debited ("in"); the other side is the account the type's rule asks for.
PostingRules ==
  [purchase |-> "out", income |-> "in", bank_transfer |-> "out",
   internal_transfer |-> "out", credit_card_payment |-> "out",
   cash_withdrawal |-> "out", refund |-> "in", fee |-> "out", interest |-> "out",
   loan_payment |-> "out", adjustment |-> "out"]

AllTypes == DOMAIN PostingRules \cup {"opening_balance", "unknown"}

\* FINANCIAL_ACCOUNT_LEDGER_TYPES.
LedgerTypes ==
  [checking |-> "asset", savings |-> "asset", cash |-> "asset", investment |-> "asset",
   other_asset |-> "asset", credit_card_liability |-> "liability", loan |-> "liability",
   other_liability |-> "liability"]

BankTypes == {"checking", "savings", "cash"}

LedgerAccounts ==
  [type : {"asset", "liability", "equity", "income", "expense"}, of : Accounts \cup {None}]

Sums == [minor : Int, currency : Currencies]

Financial ==
  [type : DOMAIN LedgerTypes, currency : Currencies, name : Names, opening : Sums \cup {None}]

ASSUME BooksAssumption ==
  /\ IsFiniteSet(Txs)
  /\ CardKind \in [Cards -> {"debit_card", "credit_card", "other"}]
  /\ Names \cap Offsets = {} /\ Equity \notin Names \cup Offsets
  /\ None \notin Accounts \cup Cards \cup Names \cup Offsets \cup {Equity} \cup LedgerAccounts
  /\ Types \subseteq AllTypes
  /\ AccountTypes \subseteq DOMAIN LedgerTypes
  /\ Exponent \in [Currencies -> {0, 2}]
  /\ InitialAccounts \in [Accounts -> Financial]
  /\ \A a, b \in Accounts : InitialAccounts[a].name = InitialAccounts[b].name => a = b
  /\ Typed \subseteq Nat \ {0} /\ Openings \subseteq Int
  /\ AdminEdits \subseteq Accounts \X {"name", "account_type", "currency"}
  /\ Corrections \subseteq {"transaction_type", "financial_account", "payment_instrument"}

VARIABLES
  account,   \* FinancialAccount
  card,      \* PaymentInstrument: the account it draws on and the one that settles it
  book,      \* LedgerAccount, by name
  tx,        \* CanonicalTransaction
  pair,      \* the two LedgerEntry rows of each posted transaction
  reversed,  \* transactions whose entries have their mirror image
  call       \* opening-balance services between their read and their write

vars == <<account, card, book, tx, pair, reversed, call>>

-----------------------------------------------------------------------------
(* What is stored *)

BookNames == Names \cup Offsets \cup {Equity}

NoTx == [status |-> "absent", type |-> "unknown", amount |-> 0, currency |-> None,
         account |-> None, card |-> None]

Transactions ==
  [status : {"draft", "confirmed", "voided"}, type : AllTypes, amount : Nat, currency : Currencies,
   account : Accounts, card : Cards \cup {None}]

Pairs == [debit : BookNames, credit : BookNames, amount : Int, currency : Currencies]

Calls ==
  [account : Accounts, corrects : BOOLEAN, target : Int, already : Int, seen : Financial]

ASSUME NoneIsNothing == None \notin Sums \cup Pairs

TypeOK ==
  /\ account \in [Accounts -> Financial]
  /\ card \in [Cards -> [account : Accounts, settlement : Accounts \cup {None}]]
  /\ book \in [BookNames -> LedgerAccounts \cup {None}]
  /\ tx \in [Txs -> Transactions \cup {NoTx}]
  /\ pair \in [Txs -> Pairs \cup {None}]
  /\ reversed \subseteq Txs
  /\ call \in [Callers -> Calls \cup {None}]

-----------------------------------------------------------------------------
(* The chart of accounts *)

\* The LedgerAccount rows that stand for a financial account.
Standing(a) == {n \in BookNames : book[n] # None /\ book[n].of = a}

\* ensure_ledger_account_for an account read as fa: the one that stands for it,
\* or else the one that has its name, or else a new one.
LedgerName(a, fa) ==
  IF Standing(a) = {} THEN fa.name ELSE CHOOSE n \in Standing(a) : TRUE

WithLedger(a, fa) ==
  IF Standing(a) # {} \/ book[fa.name] # None THEN book
  ELSE [book EXCEPT ![fa.name] = [type |-> LedgerTypes[fa.type], of |-> a]]

\* ensure_opening_balance_equity.
WithEquity(books) == [books EXCEPT ![Equity] = [type |-> "equity", of |-> None]]

\* NORMAL_BALANCES.
DebitNormal(ledger) == ledger.type \in {"asset", "expense"}

-----------------------------------------------------------------------------
(* Postings and balances *)

\* build_transaction_postings: own is the ledger account of the transaction's
\* account, other the one its rule asks the caller for.
PairFor(type, amount, currency, own, other) ==
  [debit |-> IF PostingRules[type] = "in" THEN own ELSE other,
   credit |-> IF PostingRules[type] = "in" THEN other ELSE own,
   amount |-> amount, currency |-> currency]

\* What a posted pair does to one ledger account, debits positive.
Moved(p, n) ==
  (IF p.debit = n THEN p.amount ELSE 0) - (IF p.credit = n THEN p.amount ELSE 0)

Signed(n, debits) == IF DebitNormal(book[n]) THEN debits ELSE -debits

\* What the entries of some transactions come to, with their mirror images.
Net(n, txs) == SumFunction([t \in txs |-> IF t \in reversed THEN 0 ELSE Moved(pair[t], n)])

\* account_balances: entries of confirmed transactions only.
Balance(n, c) ==
  Signed(n, Net(n, {t \in Txs : pair[t] # None /\ tx[t].status = "confirmed"
                                /\ pair[t].currency = c}))

\* Every entry ever written, reversals included.
RawBalance(n, c) == Signed(n, Net(n, {t \in Txs : pair[t] # None /\ pair[t].currency = c}))

\* posted_opening_balance_minor: whatever the currency of the entries.
PostedOpening(a) ==
  IF Standing(a) = {} THEN 0
  ELSE LET n == CHOOSE n \in Standing(a) : TRUE
       IN Signed(n, Net(n, {t \in Txs : pair[t] # None /\ tx[t].type = "opening_balance"
                                        /\ t \notin reversed}))

-----------------------------------------------------------------------------
(* Payment instruments *)

\* validate_payment_instrument_mapping.
ValidMapping(k, a, s) ==
  /\ s # a
  /\ CardKind[k] = "debit_card" => account[a].type \in BankTypes /\ s = None
  /\ CardKind[k] = "credit_card" =>
       /\ account[a].type = "credit_card_liability"
       /\ s # None => account[s].type \in BankTypes

UpdateMapping(k, a, s) ==
  /\ ValidMapping(k, a, s)
  /\ card' = [card EXCEPT ![k] = [account |-> a, settlement |-> s]]
  /\ UNCHANGED <<account, book, tx, pair, reversed, call>>

Compatible(a, k) == k # None => card[k].account = a

-----------------------------------------------------------------------------
(* Transactions *)

NewTx(status, type, amount, currency, a, k) ==
  [status |-> status, type |-> type, amount |-> amount, currency |-> currency,
   account |-> a, card |-> k]

Drafted(t, type, amount, c, a, k) ==
  /\ Compatible(a, k)
  /\ tx' = [tx EXCEPT ![t] = NewTx("draft", type, amount, c, a, k)]
  /\ UNCHANGED <<account, card, book, pair, reversed, call>>

\* create_manual_transaction through the form, which takes the amount as
\* hundredths of a unit to be the minor units of any currency.
CreateManual(t, type, typed, c, a, k) ==
  tx[t].status = "absent" /\ Drafted(t, type, typed, c, a, k)

\* Mutant: the old rule, confirmed and posted.
EditableUntilPosted(t) ==
  tx[t].status = "draft" \/ (tx[t].status = "confirmed" /\ pair[t] = None)

\* assert_editable_in_place.
Editable(t) == tx[t].status = "draft"

\* update_manual_transaction.
UpdateManual(t, type, typed, c, a, k) ==
  Editable(t) /\ Drafted(t, type, typed, c, a, k)

\* The amount the edit form shows for a draft, in hundredths of a unit.
Shown(t) ==
  CASE Exponent[tx[t].currency] = 0 -> tx[t].amount * 100
    [] Exponent[tx[t].currency] = 2 -> tx[t].amount

\* The edit form saved as it was opened.
Resave(t) == UpdateManual(t, tx[t].type, Shown(t), tx[t].currency, tx[t].account, tx[t].card)

\* Acceptance of a row, a transfer or a refund without ledger accounts: the
\* amount was parsed to minor units.
Accept(t, type, amount, c, a, k) ==
  tx[t].status = "absent" /\ Drafted(t, type, amount, c, a, k)

\* The same with ledger accounts: created, confirmed and posted, or nothing.
AcceptPosted(t, type, amount, c, a, k, own, other) ==
  /\ tx[t].status = "absent"
  /\ Compatible(a, k)
  /\ type \in DOMAIN PostingRules
  /\ own \in Standing(a) /\ book[other] # None
  /\ tx' = [tx EXCEPT ![t] = NewTx("confirmed", type, amount, c, a, k)]
  /\ pair' = [pair EXCEPT ![t] = PairFor(type, amount, c, own, other)]
  /\ UNCHANGED <<account, card, book, reversed, call>>

\* transition_transaction_status to confirmed.
Confirm(t) ==
  /\ tx[t].status = "draft"
  /\ tx' = [tx EXCEPT ![t].status = "confirmed"]
  /\ UNCHANGED <<account, card, book, pair, reversed, call>>

\* post_transaction_by_type: a confirmed transaction, once.
Post(t, own, other) ==
  /\ tx[t].status = "confirmed" /\ pair[t] = None
  /\ tx[t].type \in DOMAIN PostingRules
  /\ own \in Standing(tx[t].account) /\ book[other] # None
  /\ pair' = [pair EXCEPT ![t] = PairFor(tx[t].type, tx[t].amount, tx[t].currency, own, other)]
  /\ UNCHANGED <<account, card, book, tx, reversed, call>>

\* Mutant: whether it is posted is not looked up.
CorrectableConfirmed(t) == tx[t].status = "confirmed"

\* What postings are built from is not corrected once they exist.
Correctable(t) == tx[t].status = "confirmed" /\ pair[t] = None

\* correct_confirmed_transaction of those fields.  Nothing checks that the card
\* draws on the account.
Correct(t, type, a, k) ==
  /\ Correctable(t)
  /\ tx' = [tx EXCEPT ![t] = NewTx("confirmed", type, tx[t].amount, tx[t].currency, a, k)]
  /\ tx' # tx
  /\ "transaction_type" \in Corrections \/ type = tx[t].type
  /\ "financial_account" \in Corrections \/ a = tx[t].account
  /\ "payment_instrument" \in Corrections \/ k = tx[t].card
  /\ UNCHANGED <<account, card, book, pair, reversed, call>>

\* _is_already_reversed: no ledger account is left with a position.
NothingToUndo(t) == pair[t] # None /\ (t \in reversed \/ pair[t].debit = pair[t].credit)

\* Mutant: the transaction is voided and its entries left standing.
VoidOnly(t) == reversed

\* reverse_transaction_postings: every entry gets its mirror image.
Mirrored(t) == IF pair[t] = None THEN reversed ELSE reversed \cup {t}

\* delete_transaction: the reversal and the void, or neither.
Delete(t) ==
  /\ tx[t].status \in {"draft", "confirmed"}
  /\ ~NothingToUndo(t)
  /\ tx' = [tx EXCEPT ![t].status = "voided"]
  /\ reversed' = Mirrored(t)
  /\ UNCHANGED <<account, card, book, pair, call>>

-----------------------------------------------------------------------------
(* Financial accounts and their opening balances *)

EnsureLedger(a) ==
  /\ book' = WithLedger(a, account[a])
  /\ book' # book
  /\ UNCHANGED <<account, card, tx, pair, reversed, call>>

\* FinancialAccountAdmin leaves these columns editable.  The admin pages of transactions
\* and of the ledger, which leave nearly all of theirs editable, are not modelled.
AdminEdit(a, field, value) ==
  /\ <<a, field>> \in AdminEdits
  /\ CASE field = "name" -> value \in Names /\ \A b \in Accounts \ {a} : account[b].name # value
       [] field = "account_type" -> value \in AccountTypes
       [] field = "currency" -> value \in Currencies
  /\ account' = [account EXCEPT ![a] =
       CASE field = "name" -> [@ EXCEPT !.name = value]
         [] field = "account_type" -> [@ EXCEPT !.type = value]
         [] field = "currency" -> [@ EXCEPT !.currency = value]]
  /\ UNCHANGED <<card, book, tx, pair, reversed, call>>

\* post_opening_balance up to its check that nothing is posted yet.
BeginOpening(p, a) ==
  /\ call[p] = None
  /\ account[a].opening # None
  /\ account[a].opening.minor # 0
  /\ account[a].opening.currency = account[a].currency
  /\ PostedOpening(a) = 0
  /\ call' = [call EXCEPT ![p] = [account |-> a, corrects |-> FALSE,
       target |-> account[a].opening.minor, already |-> 0, seen |-> account[a]]]
  /\ UNCHANGED <<account, card, book, tx, pair, reversed>>

\* correct_opening_balance up to the difference it will post.
BeginCorrection(p, a, corrected) ==
  /\ call[p] = None
  /\ call' = [call EXCEPT ![p] = [account |-> a, corrects |-> TRUE,
       target |-> corrected, already |-> PostedOpening(a), seen |-> account[a]]]
  /\ UNCHANGED <<account, card, book, tx, pair, reversed>>

\* Mutant: every account is taken for an asset.
DebitedAsAsset(ledger, minor) == minor > 0

\* An increase in the ledger account's own normal direction, or a decrease.
Debited(ledger, minor) == (minor > 0) = DebitNormal(ledger)

\* Mutant: the sign is kept in the amount.
Signless(minor) == minor

Magnitude(minor) == IF minor > 0 THEN minor ELSE -minor

\* The two entries of _post_pair.
OpeningPair(n, books, minor, currency) ==
  LET grows == Debited(books[n], minor) IN
  [debit |-> IF grows THEN n ELSE Equity, credit |-> IF grows THEN Equity ELSE n,
   amount |-> Magnitude(minor), currency |-> currency]

\* The rest of either service, up to its commit.
FinishOpening(p, t) ==
  /\ call[p] # None
  /\ LET a == call[p].account
         seen == call[p].seen
         difference == call[p].target - call[p].already
     IN /\ account' = IF call[p].corrects
                      THEN [account EXCEPT ![a].opening =
                              [minor |-> call[p].target, currency |-> seen.currency]]
                      ELSE account
        /\ IF difference = 0 THEN UNCHANGED <<book, tx, pair>>
           ELSE LET books == WithLedger(a, seen) IN
                /\ tx[t].status = "absent"
                /\ book' = WithEquity(books)
                /\ tx' = [tx EXCEPT ![t] = NewTx("confirmed", "opening_balance",
                                              Magnitude(difference), seen.currency, a, None)]
                /\ pair' = [pair EXCEPT ![t] =
                     OpeningPair(LedgerName(a, seen), books, difference, seen.currency)]
  /\ call' = [call EXCEPT ![p] = None]
  /\ UNCHANGED <<card, reversed>>

-----------------------------------------------------------------------------
(* The system *)

Init ==
  /\ account = InitialAccounts
  /\ card \in [Cards -> [account : Accounts, settlement : Accounts \cup {None}]]
  /\ \A k \in Cards : ValidMapping(k, card[k].account, card[k].settlement)
  /\ book = [n \in BookNames |-> IF n \in Offsets THEN [type |-> "expense", of |-> None]
                                 ELSE None]
  /\ tx = [t \in Txs |-> NoTx]
  /\ pair = [t \in Txs |-> None]
  /\ reversed = {}
  /\ call = [p \in Callers |-> None]

Drafting(t) ==
  \E type \in Types, n \in Typed, c \in Currencies, a \in Accounts, k \in Cards \cup {None} :
    \/ CreateManual(t, type, n, c, a, k)
    \/ UpdateManual(t, type, n, c, a, k)
    \/ Accept(t, type, n, c, a, k)
    \/ \E own \in Names, other \in BookNames : AcceptPosted(t, type, n, c, a, k, own, other)

Keeping(t) ==
  \/ Confirm(t)
  \/ Resave(t)
  \/ Delete(t)
  \/ \E own \in Names, other \in BookNames : Post(t, own, other)
  \/ \E type \in Types, a \in Accounts, k \in Cards \cup {None} : Correct(t, type, a, k)

Opening(p) ==
  \/ \E a \in Accounts : BeginOpening(p, a) \/ \E m \in Openings : BeginCorrection(p, a, m)
  \/ \E t \in Txs : FinishOpening(p, t)

Next ==
  \/ \E t \in Txs : Drafting(t) \/ Keeping(t)
  \/ \E p \in Callers : Opening(p)
  \/ \E a \in Accounts : EnsureLedger(a)
  \/ \E edit \in AdminEdits, v \in Names \cup AccountTypes \cup Currencies :
       AdminEdit(edit[1], edit[2], v)
  \/ \E k \in Cards, a \in Accounts, s \in Accounts \cup {None} : UpdateMapping(k, a, s)

Spec == Init /\ [][Next]_vars

-----------------------------------------------------------------------------
(* What makes it correct *)

\* The entries of a posted transaction describe it as it is now: nothing that
\* they were built from has changed since, and one of them is on the ledger
\* account of its own account (LEDGER_BEARING_FIELDS, build_transaction_postings).
EntriesDescribe ==
  \A t \in Txs : pair[t] # None =>
    /\ tx[t].status \in {"confirmed", "voided"}
    /\ pair[t].amount = tx[t].amount /\ pair[t].currency = tx[t].currency
    /\ IF tx[t].type = "opening_balance"
       THEN \E n \in Standing(tx[t].account) : {pair[t].debit, pair[t].credit} = {n, Equity}
       ELSE /\ tx[t].type \in DOMAIN PostingRules
            /\ \E n \in Standing(tx[t].account) :
                 n = IF PostingRules[tx[t].type] = "in" THEN pair[t].debit ELSE pair[t].credit

\* Balances read from confirmed history are the balances of everything ever
\* written: nothing was withdrawn without its reversal (balances._entries).
BalancesAgree ==
  \A n \in BookNames, c \in Currencies : book[n] # None => Balance(n, c) = RawBalance(n, c)

\* Between calls, and unless a posting of it was deleted, the opening balance in
\* the ledger is either not there yet or the one recorded on the account.
OpeningStands ==
  (\A p \in Callers : call[p] = None) =>
    \A a \in Accounts :
      \/ \E t \in Txs : tx[t].type = "opening_balance" /\ tx[t].account = a
                         /\ tx[t].status = "voided"
      \/ PostedOpening(a) = 0
      \/ account[a].opening # None /\ PostedOpening(a) = account[a].opening.minor

\* Confirmed history is not rewritten: a posted transaction only ever changes by
\* being voided, its entries stay, what was voided stays voided, and no amount
\* that was confirmed changes.
HistoryKept ==
  [][\A t \in Txs :
       /\ tx[t].status = "confirmed" =>
            tx'[t].status \in {"confirmed", "voided"} /\ tx'[t].amount = tx[t].amount
       /\ tx[t].status = "voided" => tx'[t] = tx[t]
       /\ pair[t] # None =>
            /\ pair'[t] = pair[t]
            /\ tx'[t] \in {tx[t], [tx[t] EXCEPT !.status = "voided"]}
       /\ t \in reversed => t \in reversed']_vars

\* Between calls, the live opening postings of an account are in the currency of
\* the opening balance it records.
OpeningInOneCurrency ==
  (\A p \in Callers : call[p] = None) =>
    \A t \in Txs :
      tx[t].type = "opening_balance" /\ tx[t].status = "confirmed"
        => account[tx[t].account].opening.currency = tx[t].currency

\* Any transaction that is still counted can be deleted.
Deletable == \A t \in Txs : tx[t].status = "confirmed" => ~NothingToUndo(t)

\* What is bought with a credit card is owed, not taken out of an asset: the
\* transaction's account is one the card may draw on.
CardOnItsAccount ==
  \A t \in Txs :
    tx[t].status = "confirmed" /\ tx[t].card # None /\ CardKind[tx[t].card] = "credit_card"
      => account[tx[t].account].type = "credit_card_liability"

\* An edit form saved as it was opened leaves the amount alone.
ResaveKeeps == [][\A t \in Txs : Resave(t) => tx'[t].amount = tx[t].amount]_vars
=============================================================================
