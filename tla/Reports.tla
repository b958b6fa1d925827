------------------------------ MODULE Reports ------------------------------
(***************************************************************************)
(* What the report pages and the export files make of the books.  A report *)
(* reads the transactions of one user, one currency and one period; dates  *)
(* are abstracted to an arbitrary set of transactions, the period, and so  *)
(* are the category and the merchant a row is grouped by.  A report line   *)
(* is a function from columns to sums.                                     *)
(***************************************************************************)
EXTENDS Books

-----------------------------------------------------------------------------
(* The meaning of a transaction type *)

SpendingTypes == {"purchase", "fee", "interest"}
IncomeTypes == {"income"}
RefundTypes == {"refund"}
NeutralTypes == {"internal_transfer", "bank_transfer", "credit_card_payment",
                 "cash_withdrawal", "loan_payment", "opening_balance"}
OpeningTypes == {"opening_balance"}
SettlementTypes == {"credit_card_payment", "loan_payment"}
UnresolvedTypes == {"adjustment", "unknown"}

\* BUCKETS.
Members == [spending |-> SpendingTypes, income |-> IncomeTypes, refund |-> RefundTypes,
            neutral |-> NeutralTypes, unresolved |-> UnresolvedTypes]

\* bucket_of: the first bucket a type is a member of.
BucketOf(type) ==
  CASE type \in SpendingTypes -> "spending"
    [] type \in IncomeTypes -> "income"
    [] type \in RefundTypes -> "refund"
    [] type \in NeutralTypes -> "neutral"
    [] type \in UnresolvedTypes -> "unresolved"

Bucket(t) == BucketOf(tx[t].type)

IsSettlement(t) == tx[t].type \in SettlementTypes

-----------------------------------------------------------------------------
(* What a report reads *)

\* Mutant: what was deleted is still counted.
VoidedToo(t) == tx[t].status # "absent" /\ tx[t].type \notin OpeningTypes

\* reportable_transactions: drafts count, opening balances do not.
Reportable(t) ==
  /\ tx[t].status \in {"draft", "confirmed"}
  /\ tx[t].type \notin OpeningTypes

\* The rows of one period and currency.
Rows(period, c) == {t \in period : Reportable(t) /\ tx[t].currency = c}

\* transaction_amount, added up: integer minor units of one currency.
Total(rows) == SumFunction([t \in rows |-> tx[t].amount])

\* group_rows: every row adds its amount to one column of its key's line.
Lines(rows, key, column, columns) ==
  [k \in {key[t] : t \in rows} |->
     [col \in columns |-> Total({t \in rows : key[t] = k /\ column[t] = col})]]

ColumnSum(lines, col) == SumFunction([k \in DOMAIN lines |-> lines[k][col]])

\* accumulate: one currency's SpendingTotals.
Totals(rows) == [b \in DOMAIN Members |-> Total({t \in rows : Bucket(t) = b})]

NetSpending(totals) == totals["spending"] - totals["refund"]

-----------------------------------------------------------------------------
(* The overview *)

\* _field_for.
OverviewField(t) ==
  CASE Bucket(t) = "income" -> "income"
    [] Bucket(t) = "refund" -> "refunds"
    [] Bucket(t) = "unresolved" -> "unresolved"
    [] Bucket(t) = "spending" -> IF tx[t].card # None THEN "card_expenses" ELSE "cash_expenses"
    [] Bucket(t) = "neutral" /\ IsSettlement(t) -> "settlements"
    [] Bucket(t) = "neutral" /\ tx[t].type = "cash_withdrawal" -> "cash_withdrawals"
    [] OTHER -> "transfers"

Counters == {"income", "card_expenses", "cash_expenses", "refunds", "cash_withdrawals",
             "settlements", "transfers", "unresolved"}

\* summarize.
Overview(rows) == [f \in Counters |-> Total({t \in rows : OverviewField(t) = f})]

OverviewGross(o) == o["card_expenses"] + o["cash_expenses"]
Excluded(o) == o["cash_withdrawals"] + o["settlements"] + o["transfers"]

-----------------------------------------------------------------------------
(* Activity by account and by card *)

\* _column_for of the activity report.
ActivityColumn(t) ==
  CASE Bucket(t) = "spending" -> "gross_spending"
    [] Bucket(t) = "refund" -> "refunds"
    [] Bucket(t) = "income" -> "income"
    [] Bucket(t) = "unresolved" -> "unresolved"
    [] OTHER -> IF IsSettlement(t) THEN "settlements" ELSE "movement"

ActivityColumns == {"gross_spending", "refunds", "income", "settlements", "movement", "unresolved"}

Activity(rows, key) == Lines(rows, key, [t \in rows |-> ActivityColumn(t)], ActivityColumns)

AccountActivity(rows) == Activity(rows, [t \in rows |-> tx[t].account])

\* instrument_activity, with the line of the rows no card is attached to.
CardActivity(rows) == Activity(rows, [t \in rows |-> tx[t].card])

-----------------------------------------------------------------------------
(* Spending by category or by merchant *)

\* The predicates SPENDING | REFUNDS, over the same sets.
SpendingOrRefund == SpendingTypes \cup RefundTypes

\* Mutant: the database narrows to spending alone.
SpendingOnly(rows) == {t \in rows : Bucket(t) = "spending"}

\* _spending_rows, narrowed by those predicates.
SpendingRows(rows) == {t \in rows : tx[t].type \in SpendingOrRefund}

\* _column_for of the breakdown.
BreakdownColumn(t) == IF Bucket(t) = "refund" THEN "refunds" ELSE "gross_spending"

\* category_breakdown or merchant_breakdown, key being the category or the
\* merchant token of each row.
Breakdown(rows, key) ==
  LET spending == SpendingRows(rows) IN
  Lines(spending, key, [t \in spending |-> BreakdownColumn(t)], {"gross_spending", "refunds"})

BreakdownNet(lines) == ColumnSum(lines, "gross_spending") - ColumnSum(lines, "refunds")

\* reconciles.
Reconciles(breakdown, totals) == BreakdownNet(breakdown) = NetSpending(totals)

\* export_rows: the amounts of an export, each under its reporting bucket.
ExportRows(rows) ==
  {[transaction |-> t, bucket |-> Bucket(t), amount |-> tx[t].amount, status |-> tx[t].status] :
     t \in rows}

-----------------------------------------------------------------------------
(* What makes it correct *)

\* The breakdown of some rows adds up to their month, the overview and both
\* activity pages agree with it, and so does an export of them.
PagesAgree(rows) ==
  LET totals == Totals(rows)
      over == Overview(rows)
      Exported(b) == SumFunction([x \in {e \in ExportRows(rows) : e.bucket = b} |-> x.amount])
  IN /\ \A key \in [rows -> {"filed", "unassigned"}] : Reconciles(Breakdown(rows, key), totals)
     /\ OverviewGross(over) - over["refunds"] = NetSpending(totals)
     /\ Excluded(over) = totals["neutral"] /\ over["unresolved"] = totals["unresolved"]
     /\ \A lines \in {AccountActivity(rows), CardActivity(rows)} :
          /\ ColumnSum(lines, "gross_spending") = OverviewGross(over)
          /\ ColumnSum(lines, "settlements") = over["settlements"]
          /\ ColumnSum(lines, "movement") = over["cash_withdrawals"] + over["transfers"]
     /\ \A b \in DOMAIN Members : Exported(b) = totals[b]

\* Whatever the period and however rows are grouped, the pages of one period and
\* currency agree (reconciles, breakdown.py's "the lines add up to the total").
ReportsAgree ==
  \A rows \in {Rows(period, c) : period \in SUBSET Txs, c \in Currencies} : PagesAgree(rows)

\* What a report line says happened to an account, debits positive.
NetMovement(line) ==
  line["income"] + line["refunds"] - line["gross_spending"] - line["settlements"]
    - line["movement"] - line["unresolved"]

\* Opening postings of an account that are in its balance.
OpeningShare(n, c) ==
  Net(n, {t \in Txs : /\ tx[t].type \in OpeningTypes /\ tx[t].status = "confirmed"
                      /\ pair[t] # None /\ tx[t].currency = c})

\* Every reportable transaction of the account is posted, and no posting of
\* another account's transaction, or of its own, has the account on its other side.
SettledInLedger(a, c) ==
  /\ \A t \in Rows(Txs, c) : tx[t].account = a => pair[t] # None
  /\ \A t \in Txs : pair[t] # None /\ tx[t].type \notin OpeningTypes =>
       LET other == IF PostingRules[tx[t].type] = "in" THEN pair[t].credit ELSE pair[t].debit
       IN other \notin Standing(a)

\* The balance of an account moves by what the activity page says happened on
\* it: a report and the ledger read the same history, whatever was corrected,
\* deleted or reversed on the way, as long as all of it is posted (balances.py:
\* "consistent with the reports by construction, because both read the same
\* rows", which drafts and unposted confirmations are exempted from).
ReportsMatchLedger ==
  \A a \in Accounts, c \in Currencies :
    SettledInLedger(a, c) =>
      \A n \in Standing(a) :
        LET lines == AccountActivity(Rows(Txs, c))
            moved == IF a \in DOMAIN lines THEN NetMovement(lines[a]) ELSE 0
        IN Balance(n, c) = Signed(n, moved + OpeningShare(n, c))
=============================================================================
