---------------------------- MODULE MCEvidence ----------------------------
(* Small screens of events for Evidence and ReviewQueue. *)
EXTENDS ReviewQueue

CONSTANTS none

MCDecimals == [KRW |-> 0, USD |-> 2]
MCScreens == {1, 2}
Toss == [parser |-> "toss", balanceColumn |-> TRUE]
Hyundai == [parser |-> "hyundai", balanceColumn |-> FALSE]
MCProfiles == <<Hyundai, Toss>>

Hits(bank, card) == [toss |-> [institution |-> bank, layout |-> bank],
                     hyundai |-> [institution |-> card, layout |-> 0]]

\* A year has ten days here; the screens are uploaded on the third day of a year.
Day == 2024 * 10 + 3

\* A bank list whose rows name a card company too, as payments to one do.
BankList == [source |-> "bank_list", owner |-> "checking", currency |-> "KRW", form |-> "full",
             label |-> TRUE, sign |-> FALSE, columns |-> FALSE, balance |-> "plain", months |-> FALSE,
             override |-> none, uploaded |-> Day, hits |-> Hits(2, 1)]
SavingsList == [BankList EXCEPT !.owner = "savings"]
SignedList == [BankList EXCEPT !.label = FALSE, !.sign = TRUE, !.balance = "labelled"]
ColumnList == [BankList EXCEPT !.label = FALSE, !.columns = TRUE, !.balance = "labelled"]
BankDetail == [BankList EXCEPT !.source = "bank_detail", !.balance = "labelled", !.override = "toss"]
CardList == [BankList EXCEPT !.source = "card_list", !.owner = "card", !.balance = "none",
                             !.hits = Hits(0, 1)]
Instalments == [CardList EXCEPT !.months = TRUE]
DollarList == [CardList EXCEPT !.currency = "USD", !.label = FALSE, !.sign = TRUE]
Partial == [CardList EXCEPT !.form = "partial"]
Relative == [CardList EXCEPT !.form = "today"]
Payment == [CardList EXCEPT !.source = "card_payment"]
Statement == [CardList EXCEPT !.source = "card_statement"]
Foreign == [CardList EXCEPT !.hits = Hits(0, 0)]

Won(n) == [value |-> n, frac |-> 0, lens |-> <<1, 3>>, seps |-> <<",">>]
Cents(n) == [value |-> n, frac |-> 2, lens |-> <<1, 3, 2>>, seps |-> <<",", ".">>]
Whole(n) == [value |-> 100 * n, frac |-> 0, lens |-> <<1, 3>>, seps |-> <<",">>]

\* Events: a purchase and one just like it, a salary, a purchase and its refund with
\* codes of their own, its cancellation under its own code, purchases abroad, a card's payment, the two sides of a transfer.
Event(id, day, amount, way, name) ==
    [id |-> id, day |-> day, amount |-> amount, way |-> way, name |-> name,
     code |-> none, returns |-> 0, arrives |-> 0]
Coffee == Event(1, Day, Won(7), "debit", "name")
Again == [Coffee EXCEPT !.id = 2]
Salary == Event(3, Day - 1, Won(30), "credit", "otherName")
Lunch == [Event(4, Day - 25, Won(7), "debit", "name") EXCEPT !.code = 1]
Refunded == [Event(5, Day, Won(7), "credit", "name") EXCEPT !.code = 2, !.returns = 4]
Cancelled == [Lunch EXCEPT !.id = 11, !.way = "credit", !.returns = 4]
Paid == [Lunch EXCEPT !.id = 10, !.way = "credit"]
LunchAtBank == [Lunch EXCEPT !.code = none]
Flight == Event(6, Day, Cents(123456), "debit", "name")
Ticket == Event(7, Day, Whole(1234), "debit", "otherName")
Out == [Event(8, Day - 1, Won(40), "debit", "otherName") EXCEPT !.arrives = 9]
In == Event(9, Day, Won(40), "credit", "name")

Show(layout, events) == [layout |-> layout, events |-> events]
Nothing == Show(CardList, <<>>)

Alone == {Show(BankList, <<Coffee, Salary>>), Show(SignedList, <<Coffee, Salary>>),
          Show(ColumnList, <<Coffee, Salary>>), Show(BankDetail, <<Coffee>>),
          Show(CardList, <<Refunded, Lunch>>), Show(CardList, <<Cancelled, Lunch>>), Show(DollarList, <<Flight, Ticket>>),
          Show(Instalments, <<Lunch>>), Show(Partial, <<Lunch>>), Show(Relative, <<Coffee>>),
          Show(Payment, <<Paid>>), Show(Statement, <<Lunch>>), Show(Foreign, <<Lunch>>)}
Overlaps == {<<Show(BankList, <<Again, Coffee>>), Show(BankList, <<Coffee, Salary>>)>>,
             <<Show(SignedList, <<Coffee, Salary>>), Show(BankDetail, <<Coffee>>)>>,
             <<Show(CardList, <<Lunch>>), Show(CardList, <<Refunded, Lunch>>)>>,
             <<Show(CardList, <<Lunch>>), Show(BankList, <<LunchAtBank>>)>>,
             <<Show(BankList, <<Out>>), Show(SavingsList, <<In>>)>>}
MCWorlds == Overlaps \cup {<<Nothing, screen>> : screen \in Alone}

TransferWorlds == {<<Show(BankList, <<Out>>), Show(SavingsList, <<In>>)>>}

MCAlike == {<<s, s>> : s \in UNION {[1 .. k -> Names] : k \in 1 .. 3}}
=============================================================================
