--------------------------- MODULE ScreenReading ---------------------------
(***************************************************************************)
(* What apps.parsing makes of the tokens of one screenshot: how a token is *)
(* normalised, how amounts, dates and directions are read, how a row's     *)
(* tokens become its amount and its balance, how running balances are      *)
(* chained, which rows a reviewer has to look at, and which parser is      *)
(* believed.  Everything here is a function of the tokens; Evidence.tla    *)
(* prints the screens and lets two engines misread them.                   *)
(*                                                                         *)
(* A token is a record with its place (x, y) and its kind: a word, named   *)
(* by what the tables in direction.py, base.py and the profiles call it; a *)
(* date, with the day it names and the form it is written in; or an        *)
(* amount, with its digits' value, the lengths of its digit groups and the *)
(* separators between them.  Days are numbers, a year having YearDays.     *)
(***************************************************************************)
EXTENDS Integers, Sequences, FiniteSets, SequencesExt, TLC

CONSTANTS YearDays,   \* Days in a year.
          LeapDay,    \* The day of the year that only every fourth year has.
          None,       \* A field that holds nothing.
          Decimals    \* The fraction digits of each currency.

Currencies == DOMAIN Decimals
Year(day) == day \div YearDays
Build(year, n) == IF n = LeapDay /\ year % 4 # 0 THEN {} ELSE {year * YearDays + n}
Distance(a, b) == IF a < b THEN b - a ELSE a - b

Of(tokens, kind) == SelectSeq(tokens, LAMBDA t : t.kind = kind)
Word(t, w) == t.kind = "word" /\ t.word = w
Says(tokens, w) == \E i \in DOMAIN tokens : Word(tokens[i], w)

(* ------------------------------ normalisation ---------------------------*)

\* Won amounts lose their commas and a plus sign; a short year becomes a year of the first century.
Normalized(t) ==
    CASE t.kind = "money" /\ t.currency = "KRW" /\ t.label = None /\ ToSet(t.seps) \subseteq {","} ->
            [t EXCEPT !.lens = <<1>>, !.seps = <<>>, !.sign = IF t.sign = "-" THEN "-" ELSE ""]
      [] t.kind = "date" /\ t.form = "short" ->
            [t EXCEPT !.form = "full", !.day = t.day - 2000 * YearDays]
      [] OTHER -> t

\* Mutant: only dates are kept apart.
StructuredDates(t) == t.kind = "date" /\ t.form = "full"

\* Values that two engines may not paper over: won amounts and full dates, once normalised.
Structured(t) ==
    \/ t.kind = "money" /\ t.currency = "KRW" /\ t.seps = <<>> /\ t.sign # "+" /\ t.label = None
    \/ t.kind = "date" /\ t.form = "full"

(* --------------------------------- amounts ------------------------------*)

Grouped(lens) == Len(lens) > 1 /\ lens[1] <= 3 /\ \A i \in 2 .. Len(lens) : lens[i] = 3

\* How many fraction digits the separators leave: one number, or none when there are several readings.
Interpreted(lens, seps, places) ==
    LET fraction == Last(lens)
        mixed == Cardinality(ToSet(seps)) = 2
        grouping == \A i \in 1 .. Len(seps) - 1 : seps[i] # Last(seps)
    IN  CASE seps = <<>> -> {0}
          [] seps # <<>> /\ mixed ->
                IF grouping /\ Grouped(Front(lens)) /\ places > 0 THEN {fraction} ELSE {}
          [] seps # <<>> /\ ~mixed /\ Grouped(lens) ->
                IF places = 0 \/ Len(seps) > 1 THEN {0} ELSE {}
          [] OTHER -> IF Len(seps) = 1 /\ places > 0 /\ fraction = places THEN {fraction} ELSE {}

\* The amount in minor units; off by powers of ten when the fraction is read where it is not.
Minor(t) ==
    LET read == Interpreted(t.lens, t.seps, Decimals[t.currency])
    IN  IF read = {} THEN None
        ELSE LET k == CHOOSE n \in read : TRUE
             IN  IF k <= t.frac THEN t.value * 10 ^ (t.frac - k)
                 ELSE t.value \div 10 ^ (k - t.frac)

(* ---------------------------------- dates -------------------------------*)

Median(days) ==
    LET sorted == SortSeq(days, <)
        n == Len(days)
    IN  (sorted[(n + 1) \div 2] + sorted[(n \div 2) + 1]) \div 2

Confidence == [explicit |-> 100, relative |-> 90, statement |-> 80, surrounding |-> 75,
               upload |-> 60, previous |-> 50, none |-> 0]

Anchor(context) ==
    CASE context.month # None -> [day |-> context.month, why |-> "statement"]
      [] context.month = None /\ context.explicit # <<>> ->
            [day |-> Median(context.explicit), why |-> "surrounding"]
      [] OTHER -> [day |-> context.today, why |-> "upload"]

Unresolved == [day |-> None, why |-> "none"]

\* The year next to the anchor that brings the day nearest to it, the earlier of two.
InferYear(n, context) ==
    LET anchor == Anchor(context)
        days == {d \in UNION {Build(Year(anchor.day) + o, n) : o \in {-1, 0, 1}} :
                    anchor.why = "upload" => d <= context.today + 1}
        nearer(d, e) == \/ Distance(d, anchor.day) < Distance(e, anchor.day)
                        \/ Distance(d, anchor.day) = Distance(e, anchor.day) /\ d <= e
    IN  IF days = {} THEN Unresolved
        ELSE LET day == CHOOSE d \in days : \A e \in days : nearer(d, e)
             IN  [day |-> day,
                  why |-> IF anchor.why = "upload" /\ Year(day) # Year(anchor.day)
                          THEN "previous" ELSE anchor.why]

Resolve(t, context) ==
    CASE t.form = "full" -> [day |-> t.day, why |-> "explicit"]
      [] t.form = "today" -> [day |-> context.today, why |-> "relative"]
      [] t.form = "yesterday" -> [day |-> context.today - 1, why |-> "relative"]
      [] OTHER -> InferYear(t.day % YearDays, context)

\* The screen's own full dates say which year the others belong to.
DateContext(document, tokens) ==
    [today |-> document.uploaded, month |-> document.month,
     explicit |-> LET full == SelectSeq(tokens, LAMBDA t : t.kind = "date" /\ t.form = "full")
                  IN  [i \in DOMAIN full |-> full[i].day]]

DateNeedsReview(date) == date.day = None \/ Confidence[date.why] <= 80

(* -------------------------------- direction -----------------------------*)

Families == <<"settlement", "inflow", "outflow", "ambivalent">>

Category(source, instrument) ==
    CASE source \in {"bank_list", "bank_detail"} -> "bank"
      [] source = "card_list" -> IF instrument = "debit_card" THEN "debit_card" ELSE "credit_card"
      [] source = "card_statement" -> "statement"
      [] source = "card_payment" -> "payment"

CardCategories == {"debit_card", "credit_card", "statement"}

FromSign(sign, category) ==
    CASE category = "bank" /\ sign = "-" -> "debit"
      [] category = "bank" /\ sign = "+" -> "credit"
      [] category \in CardCategories /\ sign = "-" -> "credit"
      [] OTHER -> "unknown"

\* The first text that carries a label decides, by the label's family.
Labelled(labels) == SelectSeq(labels, LAMBDA w : w \in ToSet(Families))
Family(labels) == IF Labelled(labels) = <<>> THEN "none" ELSE Head(Labelled(labels))

Direction(category, labels, sign) ==
    LET family == Family(labels)
        signed == FromSign(sign, category)
    IN  CASE family = "settlement" ->
                IF category \in {"payment", "statement"} THEN "credit"
                ELSE IF category = "bank" THEN "debit" ELSE "unknown"
          [] family \in {"inflow", "outflow"} ->
                IF category = "payment" \/ family = "inflow" THEN "credit" ELSE "debit"
          [] family = "ambivalent" -> signed
          [] OTHER -> IF signed # "unknown" THEN signed
                      ELSE IF category \in {"debit_card", "credit_card"} THEN "debit"
                      ELSE IF category = "payment" THEN "credit" ELSE "unknown"

\* How sure the direction is, in hundredths: a label, then a sign, then what a screen is for.
DirectionScore(category, labels, sign) ==
    IF Direction(category, labels, sign) = "unknown" THEN 0
    ELSE IF Family(labels) \in {"settlement", "inflow", "outflow"} THEN 95
    ELSE IF FromSign(sign, category) # "unknown" THEN 75 ELSE 60

Settles(category, labels) ==
    \/ Family(labels) = "settlement"
    \/ category = "payment" /\ Family(labels) # "ambivalent"

(* ----------------------------------- rows -------------------------------*)

RowThreshold == 4

\* Tokens join a row while they stay near the mean height of its tokens.
Grow(rows, t) ==
    LET row == Last(rows)
        sum == FoldLeft(LAMBDA total, u : total + u.y, 0, row)
    IN  IF rows # <<>> /\ Distance(t.y * Len(row), sum) <= RowThreshold * Len(row)
        THEN Append(Front(rows), Append(row, t))
        ELSE Append(rows, <<t>>)

LeftToRight(tokens) == SortSeq(tokens, LAMBDA a, b : a.x < b.x \/ (a.x = b.x /\ a.n < b.n))
TopToBottom(tokens) == SortSeq(tokens, LAMBDA a, b : a.y < b.y \/ (a.y = b.y /\ a.x < b.x))

GroupRows(tokens) ==
    LET rows == FoldLeft(Grow, <<>>, TopToBottom(tokens))
    IN  [i \in DOMAIN rows |-> LeftToRight(rows[i])]

Lines(row) == {t.line : t \in ToSet(row)}

\* Which amount of a row is the running balance: the labelled one, else the rightmost of several.
Balances(row, profile) ==
    LET money == {i \in DOMAIN row : row[i].kind = "money"}
        labelled == {i \in money : row[i].label = "balance"
                                    \/ (i > 1 /\ Word(row[i - 1], "balance"))}
    IN  IF labelled # {} THEN {CHOOSE i \in labelled : \A j \in labelled : i <= j}
        ELSE IF profile.balanceColumn /\ Cardinality(money) > 1
             THEN {CHOOSE i \in money : \A j \in money : i >= j} ELSE {}

AmountsOf(row, profile) ==
    LET balance == Balances(row, profile)
        others == [i \in DOMAIN row |-> [t |-> row[i], keep |-> row[i].kind = "money" /\ i \notin balance]]
        kept == SelectSeq(others, LAMBDA o : o.keep)
    IN  [i \in DOMAIN kept |-> kept[i].t]

RowDate(row, context) ==
    LET found == SelectSeq([i \in DOMAIN Of(row, "date") |-> Resolve(Of(row, "date")[i], context)],
                           LAMBDA d : d.day # None)
    IN  IF found = <<>> THEN Unresolved ELSE Head(found)

InstalmentRow(row) == Says(row, "installment")
ApprovalCode(row) ==
    IF Says(row, "code") THEN Head(SelectSeq(row, LAMBDA t : Word(t, "code"))).code ELSE None

\* The words left over name the merchant, misread ones included.
Names == {"name", "otherName", "blur"}

ExtractRow(row, profile, context) ==
    LET amounts == AmountsOf(row, profile)
        balance == Balances(row, profile)
        words == Of(row, "word")
        names == SelectSeq(words, LAMBDA t : t.word \in Names)
    IN  [row |-> row,
         date |-> RowDate(row, context),
         amount |-> IF amounts = <<>> THEN None ELSE Head(amounts),
         extra |-> Len(amounts) > 1,
         balance |-> IF balance = {} THEN None ELSE row[CHOOSE i \in balance : TRUE],
         labels |-> [i \in DOMAIN words |-> words[i].word],
         name |-> IF names = <<>> THEN None ELSE [i \in DOMAIN names |-> names[i].word],
         months |-> InstalmentRow(row),
         code |-> ApprovalCode(row)]

\* Mutant: a row needs both to be one.
SignalsBoth(fields) == fields.amount # None /\ fields.date.day # None

\* A row with neither an amount nor a date is no transaction.
Signals(fields) == fields.amount # None \/ fields.date.day # None

\* Rows with a word of the profile's chrome are skipped, whatever else they hold.
IsChrome(row) == Says(row, "chrome")

Merged(rows) ==
    IF rows = <<>> THEN <<>> ELSE <<TopToBottom(FlattenSeq(rows))>>

(* --------------------------- columns and balances -----------------------*)

\* The first row with both headers and no amount says where withdrawals and deposits stand.
Columns(rows) ==
    LET headers == SelectSeq(rows, LAMBDA r : /\ Of(r, "money") = <<>>
                                              /\ Says(r, "debitColumn") /\ Says(r, "creditColumn"))
        place(w) == Head(SelectSeq(Head(headers), LAMBDA t : Word(t, w))).x
    IN  IF headers = <<>> THEN None
        ELSE [debit |-> place("debitColumn"), credit |-> place("creditColumn")]

ByColumn(columns, x) ==
    IF columns = None THEN "unknown"
    ELSE LET d == Distance(x, columns.debit)
             c == Distance(x, columns.credit)
         IN  IF d < c THEN "debit" ELSE IF c < d THEN "credit" ELSE "unknown"

RowDirection(fields, category, columns) ==
    LET own == IF fields.amount # None /\ fields.amount.label # None
               THEN <<fields.amount.label>> ELSE <<>>
        labels == own \o fields.labels \o (IF fields.months THEN <<"outflow">> ELSE <<>>)
        sign == IF fields.amount = None THEN "" ELSE fields.amount.sign
        stated == Direction(category, labels, sign)
        placed == IF fields.amount = None THEN "unknown" ELSE ByColumn(columns, fields.amount.x)
    IN  [way |-> IF stated = "unknown" THEN placed ELSE stated,
         score |-> IF stated = "unknown" /\ placed # "unknown" THEN 80
                   ELSE DirectionScore(category, labels, sign),
         settles |-> Settles(category, labels)]

\* The row's effect on the balance, None when it is not known.
SignedMinor(fields, way) ==
    IF fields.amount = None THEN None
    ELSE IF Minor(fields.amount) = None THEN None
    ELSE IF way = "credit" THEN Minor(fields.amount)
    ELSE IF way = "debit" \/ fields.amount.sign = "-" THEN 0 - Minor(fields.amount)
    ELSE IF fields.amount.sign = "+" THEN Minor(fields.amount) ELSE None

BalanceOf(fields) ==
    IF fields.balance = None THEN None ELSE Minor(fields.balance)

\* The balance an older row prints last; rows stand newest first.
BalanceBefore(fields, i) ==
    LET older == {j \in DOMAIN fields : j > i /\ BalanceOf(fields[j]) # None}
    IN  IF older = {} THEN None ELSE fields[CHOOSE j \in older : \A k \in older : j <= k].balance

BalanceStatus(fields, ways, i) ==
    LET before == BalanceBefore(fields, i)
        after == fields[i].balance
        moved == SignedMinor(fields[i], ways[i].way)
    IN  IF before = None \/ after = None \/ moved = None THEN "unavailable"
        ELSE IF Minor(after) = None \/ before.currency # after.currency THEN "unavailable"
        ELSE IF Minor(before) + moved = Minor(after) THEN "valid" ELSE "invalid"

(* ------------------------------- observations ---------------------------*)

Missing(day, amount, way, name) ==
    {f \in {"date", "amount", "direction", "merchant"} :
        CASE f = "date" -> day = None
          [] f = "amount" -> amount = None
          [] f = "direction" -> way = "unknown"
          [] f = "merchant" -> name = None}

AmountScore(amount, minor) == IF amount = None THEN 0 ELSE IF minor = None THEN 30 ELSE 98

\* score: the sum of what date, amount and direction are worth, None where a parser scores none.
BuildObservation(fields, direction, status, profile) ==
    LET amount == IF fields.amount = None THEN None ELSE Minor(fields.amount)
        ambiguous == {f \in {"amount", "balance_after"} :
                        IF f = "amount" THEN fields.extra \/ (fields.amount # None /\ amount = None)
                        ELSE status = "invalid"}
        missing == Missing(fields.date.day, amount, direction.way, fields.name) \ ambiguous
    IN  [lines |-> Lines(fields.row), day |-> fields.date.day, amount |-> amount,
         currency |-> IF amount = None THEN None ELSE fields.amount.currency,
         way |-> direction.way, name |-> fields.name, code |-> fields.code,
         balance |-> BalanceOf(fields), settles |-> direction.settles, parser |-> profile.parser,
         missing |-> missing, ambiguous |-> ambiguous, origin |-> "parser",
         score |-> Confidence[fields.date.why] + AmountScore(fields.amount, amount) + direction.score,
         review |-> missing # {} \/ ambiguous # {} \/ DateNeedsReview(fields.date)]

Unreadable(row, parser) ==
    [lines |-> Lines(row), day |-> None, amount |-> None, currency |-> None, way |-> "unknown",
     name |-> None, code |-> None, balance |-> None, settles |-> FALSE, parser |-> parser,
     missing |-> Missing(None, None, "unknown", None), ambiguous |-> {}, origin |-> "error",
     score |-> None, review |-> TRUE]

\* The generic parser knows full dates, won amounts and four words, one of each in a row.
GenericObservation(row) ==
    LET out(t) == t.kind = "word" /\ t.word \in {"outflow", "debitColumn"}
        in(t) == t.kind = "word" /\ t.word \in {"inflow", "creditColumn"}
        dates == SelectSeq(row, LAMBDA t : t.kind = "date" /\ t.form = "full")
        amounts == SelectSeq(row, LAMBDA t : Structured(t) /\ t.kind = "money")
        ways == {IF out(t) THEN "debit" ELSE "credit" : t \in {u \in ToSet(row) : out(u) \/ in(u)}}
        others == SelectSeq(row, LAMBDA t : ~out(t) /\ ~in(t) /\ t \notin ToSet(dates \o amounts))
        one(s) == Len(s) = 1
        day == IF one(dates) THEN Head(dates).day ELSE None
        amount == IF ~one(amounts) THEN None
                  ELSE IF Head(amounts).sign = "-" THEN 0 - Head(amounts).value ELSE Head(amounts).value
        way == IF Cardinality(ways) = 1 THEN CHOOSE w \in ways : TRUE ELSE "unknown"
        name == IF others = <<>> THEN None
                ELSE [i \in DOMAIN others |-> IF others[i].kind = "word" THEN others[i].word ELSE "blur"]
        several == [date |-> Len(dates), amount |-> Len(amounts), direction |-> Cardinality(ways)]
        ambiguous == {f \in DOMAIN several : several[f] > 1}
        missing == Missing(day, amount, way, name) \ ambiguous
    IN  [lines |-> Lines(row), day |-> day, amount |-> amount,
         currency |-> IF one(amounts) THEN "KRW" ELSE None, way |-> way, name |-> name,
         code |-> None, balance |-> None, settles |-> FALSE, parser |-> "generic",
         missing |-> missing, ambiguous |-> ambiguous, origin |-> "parser", score |-> None,
         review |-> missing # {} \/ ambiguous # {}]

GenericParse(tokens) ==
    LET rows == GroupRows(tokens) IN [i \in DOMAIN rows |-> GenericObservation(rows[i])]

\* Screens that show one transaction down the page.
SingleTransaction == {"bank_detail", "card_payment"}

\* The observations of the rows that are transactions.
Built(fields, category, columns, profile) ==
    LET ways == [i \in DOMAIN fields |-> RowDirection(fields[i], category, columns)]
    IN  [i \in DOMAIN fields |->
            BuildObservation(fields[i], ways[i], BalanceStatus(fields, ways, i), profile)]

\* One institution's parser: rows that fail stay visible, and a screen without rows falls back.
Parse(profile, document, tokens) ==
    LET grouped == GroupRows(tokens)
        columns == Columns(grouped)
        category == Category(document.source, document.instrument)
        context == DateContext(document, tokens)
        unskipped == SelectSeq(grouped, LAMBDA r : ~IsChrome(r))
        rows == IF document.source \in SingleTransaction THEN Merged(unskipped) ELSE unskipped
        odd == SelectSeq(rows, LAMBDA r : Says(r, "odd"))
        read == SelectSeq(rows, LAMBDA r : ~Says(r, "odd"))
        extracted == [i \in DOMAIN read |-> ExtractRow(read[i], profile, context)]
        built == Built(SelectSeq(extracted, Signals), category, columns, profile)
        failures == [i \in DOMAIN odd |-> Unreadable(odd[i], profile.parser)]
        generic == GenericParse(tokens)
    IN  IF built # <<>> THEN built \o failures
        ELSE IF failures # <<>> THEN failures
        ELSE [i \in DOMAIN generic |-> [generic[i] EXCEPT !.review = TRUE, !.origin = "fallback"]]

(* --------------------------------- selection ----------------------------*)

\* How sure a parser is of a screen, in hundredths: its name, then headers and titles it knows.
Support(hits, hinted) ==
    LET marks == (IF hits.institution > 1 THEN hits.institution - 1 ELSE 0) + hits.layout
        score == 55 + 10 * marks + (IF hinted THEN 15 ELSE 0)
    IN  IF hits.institution = 0 /\ ~hinted THEN 0 ELSE IF score > 95 THEN 95 ELSE score

\* A named parser is taken as it is; else the surest one, the first by name among equals.
Selected(profiles, document) ==
    LET score(i) == Support(document.hits[profiles[i].parser], profiles[i].parser = document.override)
        sure == {i \in DOMAIN profiles : score(i) > 0}
        best(i) == \A j \in sure : score(i) > score(j) \/ (score(i) = score(j) /\ i <= j)
        named == {i \in DOMAIN profiles : profiles[i].parser = document.override}
    IN  IF named # {} THEN named ELSE {i \in sure : best(i)}

\* One total with a due date of a known month makes a statement out of a page of rows.
BuildStatement(document, observations) ==
    LET totals == SelectSeq(observations, LAMBDA o : o.settles)
    IN  IF Len(totals) # 1 \/ document.month = None THEN {}
        ELSE IF Head(totals).day = None \/ Head(totals).amount = None THEN {}
        ELSE {SelectSeq(observations, LAMBDA o : o # Head(totals))}

\* A payment is one settlement with a date and an amount nobody doubts.
BuildsCardPayment(observations) ==
    LET found == SelectSeq(observations, LAMBDA o : o.settles)
    IN  /\ Len(found) = 1
        /\ Head(found).day # None
        /\ Head(found).amount # None
        /\ Head(found).ambiguous = {}

\* The generic parser is never sure: it counts the full dates and the amounts it sees.
GenericSupport(tokens) ==
    LET few(kind) == Len(SelectSeq(tokens, LAMBDA t : t.kind = kind /\ Structured(t)))
        pairs == IF few("date") < few("money") THEN few("date") ELSE few("money")
    IN  IF pairs > 4 THEN 49 ELSE 5 + 10 * pairs

\* A row without scores of its own takes three times what its parser is worth.
Stamped(observations, support) ==
    [i \in DOMAIN observations |->
        [observations[i] EXCEPT !.score = IF @ = None THEN 3 * support ELSE @]]

\* A statement or a payment that cannot be built is read by the generic parser.
Accepted(document, found, generic) ==
    CASE document.source = "card_statement" ->
           LET statement == BuildStatement(document, found)
           IN  IF statement = {} THEN generic ELSE CHOOSE items \in statement : TRUE
      [] document.source = "card_payment" ->
           IF BuildsCardPayment(found) THEN found ELSE generic
      [] OTHER -> found

\* The rows a screenshot leaves behind; profiles are sorted by name.
Observations(profiles, document, tokens) ==
    LET chosen == Selected(profiles, document)
        generic == Stamped(GenericParse(tokens), GenericSupport(tokens))
    IN  IF chosen = {} THEN generic
        ELSE LET profile == profiles[CHOOSE i \in chosen : TRUE]
                 support == Support(document.hits[profile.parser], profile.parser = document.override)
             IN  Accepted(document, Stamped(Parse(profile, document, tokens), support), generic)
=============================================================================
