----------------------------- MODULE Evidence -----------------------------
(***************************************************************************)
(* From what a bank or card app shows to what is kept of it.  Screenshots  *)
(* print true events; two OCR engines read each of them and may misread,   *)
(* miss or misplace a token; apps.ocr.matching settles what they disagree  *)
(* on, apps.parsing turns the tokens into rows (ScreenReading), the import *)
(* decides which rows a reviewer has to look at, and the nightly command   *)
(* proposes which rows are one event and which refund which (PairScoring). *)
(***************************************************************************)
EXTENDS ScreenReading

CONSTANTS Screens,    \* The screenshots, numbers in the order of their import.
          Worlds,     \* What they may show: functions from Screens to screens.
          Profiles,   \* The institutions' parsers, by name.
          Kinds,      \* What may go wrong with one token.
          MaxFaults,  \* Bound: how many screenshots have a token that goes wrong.
          MaxTouched, \* Bound: how many rows a reviewer touches and screenshots go wrong, together.
          Slip,       \* How far a misread amount is off.
          Alike,      \* Names that are as good as equal.
          Cap         \* Candidates one row may take part in.

ASSUME EvidenceAssumption ==
    /\ IsFiniteSet(Screens) /\ Screens = 1 .. Cardinality(Screens)
    /\ MaxFaults \in Nat /\ MaxTouched \in Nat /\ Cap \in Nat \ {0} /\ Slip \in Nat \ {0}
    /\ \A pair \in Alike : <<pair[2], pair[1]>> \in Alike

VARIABLES shows,    \* What each screenshot shows: a layout and the events it lists, newest first.
          fault,    \* What went wrong when it was read.
          rows,     \* The rows imported from it.
          read,     \* The screenshots read so far.
          mapped,   \* The rows a reviewer mapped to their screen's account or card.
          decided,  \* The rows whose status is not UNREVIEWED: corrected or accepted.
          seen,     \* Of the command's last run over all screenshots: the rows mapped and decided then.
          matches   \* The candidates stored, by the rows they join and their type.

vars == <<shows, fault, rows, read, mapped, decided, seen, matches>>

Scoring == INSTANCE PairScoring WITH Unknown <- "unknown"

NoFault == [kind |-> "none", at |-> 0]

(* ------------------------------- printing ------------------------------ *)

Signed(event) == IF event.way = "credit" THEN event.amount.value ELSE 0 - event.amount.value

Opening == 1000
BalanceAfter(events, i) ==
    FoldLeft(LAMBDA sum, e : sum + Signed(e), Opening, SubSeq(events, i, Len(events)))

Token(kind, x) == [kind |-> kind, x |-> x, y |-> 0, n |-> 0, line |-> 0]
WordAt(word, x) == Token("word", x) @@ [word |-> word]
Amount(printed, sign, currency, x) ==
    Token("money", x) @@ printed @@ [sign |-> sign, currency |-> currency, label |-> None]
If(holds, t) == IF holds THEN <<t>> ELSE <<>>

Bank(layout) == layout.source \in {"bank_list", "bank_detail"}

\* The sign a layout prints: banks mark money leaving, cards money coming back.
PrintedSign(layout, event) ==
    IF ~layout.sign THEN ""
    ELSE IF Bank(layout) THEN (IF event.way = "debit" THEN "-" ELSE "+")
    ELSE (IF event.way = "credit" THEN "-" ELSE "")

PrintedLabel(layout, event) ==
    IF layout.source = "card_payment" THEN "settlement"
    ELSE IF event.way = "debit" THEN "outflow" ELSE "inflow"

PrintedBalance(layout, events, i) ==
    Amount([value |-> BalanceAfter(events, i), frac |-> 0, lens |-> <<1>>, seps |-> <<>>], "",
           layout.currency, 90)

PrintLine(layout, events, i) ==
    LET e == events[i]
    IN     <<Token("date", 10) @@ [form |-> layout.form, day |-> e.day], WordAt(e.name, 20)>>
        \o If(layout.label, WordAt(PrintedLabel(layout, e), 30))
        \o If(e.code # None, WordAt("code", 40) @@ [code |-> e.code])
        \o If(layout.months, WordAt("installment", 45))
        \o <<Amount(e.amount, PrintedSign(layout, e), layout.currency,
                    IF layout.columns /\ e.way = "credit" THEN 70 ELSE 50)>>
        \o If(layout.balance = "labelled", WordAt("balance", 80))
        \o If(layout.balance # "none", PrintedBalance(layout, events, i))

PrintHeader(layout) ==
    <<WordAt("title", 1)>> \o (IF layout.columns THEN <<WordAt("debitColumn", 50), WordAt("creditColumn", 70)>>
                               ELSE <<WordAt("chrome", 50)>>)

\* A list prints an event a line; a detail screen prints the one event down the page.
Gap == 20
Printed(screen) ==
    LET line(i) == IF i = 0 THEN PrintHeader(screen.layout) ELSE PrintLine(screen.layout, screen.events, i)
        down == screen.layout.source \in SingleTransaction
        place(i, k) == IF down /\ i > 0 THEN Gap * (i + k) ELSE Gap * i
        printed(i) == [k \in DOMAIN line(i) |-> [line(i)[k] EXCEPT !.line = i, !.y = place(i, k)]]
        tokens == FlattenSeq([i \in 1 .. Len(screen.events) + 1 |-> printed(i - 1)])
    IN  [n \in DOMAIN tokens |-> [tokens[n] EXCEPT !.n = 2 * n]]

(* ------------------------------- recognising --------------------------- *)

Misread(t) ==
    CASE t.kind = "money" -> [t EXCEPT !.value = @ + Slip]
      [] t.kind = "date" -> [t EXCEPT !.day = @ + 1]
      [] OTHER -> [t EXCEPT !.word = "blur"]

Swapped(t) == [t EXCEPT !.seps = [i \in DOMAIN @ |-> IF @[i] = "," THEN "." ELSE ","]]
Odd(t) == [x |-> t.x, y |-> t.y, n |-> t.n, line |-> t.line, kind |-> "word", word |-> "odd"]
Moved(t) == [t EXCEPT !.y = @ + Gap \div 2]

\* What is left of one place that two engines read as a and b: one text when they
\* agree or nearly do, the surer of the two; both when they do not, or when what
\* they disagree on is an amount or a date.
Settled(a, b) ==
    LET first == Normalized(a)
        second == [Normalized(b) EXCEPT !.n = @ + 1]
    IN  IF [second EXCEPT !.n = first.n] = first THEN {<<first>>}
        ELSE IF Structured(first) \/ Structured(second) THEN {<<first, second>>}
        ELSE {<<first>>, <<second>>, <<first, second>>}

\* What the engines may leave of token t when this goes wrong with it.
Outcomes(t, kind) ==
    CASE kind = "none" -> {<<Normalized(t)>>}
      [] kind = "one" -> Settled(t, Misread(t)) \cup Settled(Misread(t), t)
      [] kind \in {"both", "alone"} -> {<<Normalized(Misread(t))>>}
      [] kind = "lost" -> {<<>>}
      [] kind = "moved" -> {<<Normalized(Moved(t))>>}
      [] kind = "swapped" -> {<<Normalized(Swapped(t))>>}
      [] kind = "odd" -> {<<Odd(t)>>}

Faults(tokens) ==
    {NoFault} \cup {f \in [kind : Kinds, at : DOMAIN tokens] :
                      f.kind = "swapped" => tokens[f.at].kind = "money"}

\* The token sequences that tokens_for_parsing may return.
Recognised(tokens, f) ==
    LET kept(n) == <<Normalized(tokens[n])>>
    IN  IF f = NoFault THEN {FlattenSeq([n \in DOMAIN tokens |-> kept(n)])}
        ELSE {FlattenSeq([n \in DOMAIN tokens |-> IF n = f.at THEN o ELSE kept(n)]) :
                o \in Outcomes(tokens[f.at], f.kind)}

(* -------------------------------- importing ---------------------------- *)

\* The marks a parser recognises its screens by are gone when the title is.
Document(layout, tokens) ==
    [source |-> layout.source, instrument |-> None, uploaded |-> layout.uploaded,
     month |-> None, override |-> layout.override,
     hits |-> IF Says(tokens, "title") THEN layout.hits
              ELSE [p \in DOMAIN layout.hits |-> [institution |-> 0, layout |-> 0]]]

\* A settlement and a row read by one engine alone are flagged whatever the parser says.
Imported(observations, degraded) ==
    [i \in DOMAIN observations |->
        [degraded |-> degraded] @@
        [observations[i] EXCEPT !.review = @ \/ observations[i].settles \/ degraded]]

\* The rows that may be imported from a screen when this goes wrong with it.
Readings(screen, f) ==
    {Imported(Observations(Profiles, Document(screen.layout, tokens), tokens), f.kind = "alone") :
        tokens \in Recognised(Printed(screen), f)}

\* What is true of the events themselves: one code belongs to one authorisation ("An approval
\* code identifies one authorisation exactly", deterministic_key), which a purchase may share
\* with the event that cancels it; an event is the same wherever it shows; a refund returns
\* an earlier purchase.
Cancels(one, other) == one.returns = other.id \/ other.returns = one.id
ASSUME WorldAssumption ==
    /\ None \notin Int
    /\ \A world \in Worlds : \A s, t \in Screens :
         \A d \in DOMAIN world[s].events, e \in DOMAIN world[t].events :
           LET one == world[s].events[d]
               other == world[t].events[e]
               equal == /\ one.amount.value = other.amount.value
                        /\ world[s].layout.currency = world[t].layout.currency
           IN  /\ one.day \in Int /\ one.amount.value \in Int
               /\ one.way \in {"debit", "credit"}
               /\ one.code # None /\ one.code = other.code => one.id = other.id \/ Cancels(one, other)
               /\ one.id = other.id => equal /\ one.day = other.day /\ one.way = other.way
               /\ one.returns = other.id =>
                    /\ equal /\ one.way = "credit" /\ other.way = "debit"
                    /\ other.day <= one.day /\ one.day - other.day <= Scoring!RefundWindow

\* What the rest relies on when it takes rows from the parsers: a row is well typed, a code
\* it carries is printed beside one of its events, and a row of a screen that both engines
\* read rightly says what its event was, unless it is flagged.
TypedRow(row) == row.score \in Int /\ (row.day = None \/ row.day \in Int)
SaysTruly(row, layout, event) ==
    /\ row.day = event.day /\ row.amount = event.amount.value /\ row.currency = layout.currency
    /\ row.way = event.way
ASSUME ReadingAssumption ==
    \A world \in Worlds : \A s \in Screens : \A f \in Faults(Printed(world[s])) :
      \A reading \in Readings(world[s], f) :
        LET events(i) == {e \in DOMAIN world[s].events : e \in reading[i].lines}
        IN  /\ Len(reading) \in Nat /\ DOMAIN reading = 1 .. Len(reading)
            /\ \A i \in DOMAIN reading :
                 /\ TypedRow(reading[i])
                 /\ reading[i].code # None =>
                      \E e \in events(i) : world[s].events[e].code = reading[i].code
                 /\ f = NoFault /\ ~reading[i].review =>
                      \A e \in events(i) : SaysTruly(reading[i], world[s].layout, world[s].events[e])

\* Rows read rightly give one event, or a refund and its purchase, names that are taken as equal.
ASSUME NameAssumption ==
    \A world \in Worlds : \A s, t \in Screens :
      \A left \in Readings(world[s], NoFault), right \in Readings(world[t], NoFault) :
        \A i \in DOMAIN left, j \in DOMAIN right :
          \A d \in DOMAIN world[s].events, e \in DOMAIN world[t].events :
            (/\ <<s, i>> # <<t, j>> /\ ~left[i].review /\ ~right[j].review
             /\ d \in left[i].lines /\ e \in right[j].lines
             /\ world[t].events[e].id \in {world[s].events[d].id, world[s].events[d].returns})
            => Scoring!Similar(left[i], right[j])

Faulty == {s \in read : fault[s] # NoFault}
Touched == mapped \cup decided

\* execute_document_ocr and the import of what it parsed.
Read(s) ==
    /\ s \notin read
    /\ \E f \in Faults(Printed(shows[s])) :
         /\ f # NoFault => /\ Cardinality(Faulty) < MaxFaults
                           /\ Cardinality(Faulty) + Cardinality(Touched) < MaxTouched
         /\ fault' = [fault EXCEPT ![s] = f]
         /\ \E reading \in Readings(shows[s], f) : rows' = [rows EXCEPT ![s] = reading]
    /\ read' = read \cup {s}
    /\ UNCHANGED <<shows, mapped, decided, seen, matches>>

(* -------------------------------- reviewing ---------------------------- *)

Row(p) == rows[p[1]][p[2]]
MayTouch(p) == Cardinality(Faulty) + Cardinality(Touched \cup {p}) <= MaxTouched

\* correct_observation with an account or a card; an accepted row may be corrected too.
MapRow(p) ==
    /\ p \notin mapped
    /\ MayTouch(p)
    /\ mapped' = mapped \cup {p}
    /\ decided' = decided \cup {p}
    /\ UNCHANGED <<shows, fault, rows, read, seen, matches>>

\* A row without a date or a positive amount is refused whoever confirms it.
Acceptable(p) ==
    Row(p).day # None /\ Row(p).amount # None /\ (Row(p).amount # None => Row(p).amount > 0)

\* accept_observation, confirmed where it has to be; its account may be the call's own.
Accept(p) ==
    /\ p \notin decided
    /\ Acceptable(p)
    /\ MayTouch(p)
    /\ decided' = decided \cup {p}
    /\ UNCHANGED <<shows, fault, rows, read, mapped, seen, matches>>

\* delete_transaction of the transaction a decided row led to (a corrected row was accepted
\* first): the row awaits a decision again, and keeps its corrections and its stored risk.
Reopen(p) ==
    /\ p \in decided
    /\ Acceptable(p)
    /\ decided' = decided \ {p}
    /\ UNCHANGED <<shows, fault, rows, read, mapped, seen, matches>>

(* -------------------------------- detecting ---------------------------- *)

\* The rows, by their screenshot and their place on it, and the order they were imported in.
Places == UNION {{<<s, i>> : i \in DOMAIN rows[s]} : s \in Screens}
Earlier(p, q) == p[1] < q[1] \/ (p[1] = q[1] /\ p[2] < q[2])

\* A row of a fresh import is mapped to no instrument and to no account.
FactsFrom(place) ==
    LET row == rows[place[1]][place[2]]
        layout == shows[place[1]].layout
    IN  [id |-> place, user |-> "user", day |-> row.day, amount |-> row.amount,
         currency |-> row.currency, way |-> row.way, name |-> row.name, code |-> row.code,
         balance |-> row.balance, source |-> layout.source,
         instrument |-> IF place \in mapped /\ ~Bank(layout) THEN layout.owner ELSE None,
         account |-> IF place \in mapped /\ Bank(layout) THEN layout.owner ELSE None]

\* The command looks at the rows dated in the thirty days up to a day.
CommandDays == 30
Dated(until) ==
    {p \in Places : LET day == rows[p[1]][p[2]].day
                    IN  day # None /\ day \in until - CommandDays .. until}

Join(type, p, q, score) == [type |-> type, pair |-> {p, q}, score |-> score]

Duplicates(dated) ==
    LET places == Scoring!Ranked(dated, Earlier)
        facts == [i \in DOMAIN places |-> FactsFrom(places[i])]
    IN  {Join("duplicate", places[c[1]], places[c[2]], Scoring!ScorePair(facts[c[1]], facts[c[2]])) :
            c \in Scoring!FindDuplicateCandidates(facts)}

\* Only rows that await a decision are taken as the refund, or as either side of a transfer.
Unreviewed(dated) == dated \ decided

\* Mutant: the purchase has to be open too.
BothOpen(dated) ==
    {m \in {Join("refund", p, q, Scoring!MatchRefundToPurchase(FactsFrom(p), FactsFrom(q))) :
              p \in Unreviewed(dated), q \in Unreviewed(dated)} : m.score > 0}

Refunds(dated) ==
    {m \in {Join("refund", p, q, Scoring!MatchRefundToPurchase(FactsFrom(p), FactsFrom(q))) :
              p \in Unreviewed(dated), q \in dated} : m.score > 0}

Transfers(dated) ==
    {m \in {Join("transfer", p, q, Scoring!MatchInternalTransfer(FactsFrom(p), FactsFrom(q), None)) :
              p \in Unreviewed(dated), q \in Unreviewed(dated)} : m.score > 0}

\* A candidate stored earlier takes the new score; one no longer proposed stays.
Recorded(found) ==
    found \cup {m \in matches : \A n \in found : n.type # m.type \/ n.pair # m.pair}

\* generate_reconciliation_candidates, run on the day the newest screenshot came in.
Today == LET days == {shows[s].layout.uploaded : s \in Screens}
         IN  CHOOSE d \in days : \A e \in days : e <= d

Proposed ==
    LET dated == Dated(Today) IN Duplicates(dated) \cup Transfers(dated) \cup Refunds(dated)

Detect ==
    /\ seen' = IF read = Screens THEN [complete |-> TRUE, mapped |-> mapped, decided |-> decided] ELSE seen
    /\ matches' = Recorded(Proposed)
    /\ UNCHANGED <<shows, fault, rows, read, mapped, decided>>

Init ==
    /\ shows \in Worlds
    /\ fault = [s \in Screens |-> NoFault]
    /\ rows = [s \in Screens |-> <<>>]
    /\ read = {}
    /\ mapped = {}
    /\ decided = {}
    /\ seen = [complete |-> FALSE, mapped |-> {}, decided |-> {}]
    /\ matches = {}

Next ==
    \/ Detect
    \/ \E s \in Screens : Read(s)
    \/ \E p \in Places : MapRow(p)
    \/ \E p \in Places : Accept(p)
    \/ \E p \in Places : Reopen(p)

Spec == Init /\ [][Next]_vars
-----------------------------------------------------------------------------
(* What a reviewer may rely on *)

\* The events a row was read from, by their place on the screenshot.
EventsOf(s, i) == {e \in DOMAIN shows[s].events : e \in rows[s][i].lines}
Silent(s, i) == ~rows[s][i].review

\* What was printed where the fault of a screenshot is.
Struck(s) == Printed(shows[s])[fault[s].at]
Strikes(s, kinds, what) == fault[s] # NoFault /\ fault[s].kind \in kinds /\ Struck(s).kind = what

\* An older row's balance and this row's show a wrong amount up.
Balanced(s, i) ==
    /\ rows[s][i].balance # None
    /\ \E j \in DOMAIN rows[s] : j > i /\ rows[s][j].balance # None

\* Errors the code has nothing to tell them by: a date misread; an amount both
\* engines misread where no balances stand beside it, or one they disagree on in a
\* currency it does not normalise; an amount missed beside a balance nothing labels;
\* a card refund without its label or its sign.
DateLost(s) == Strikes(s, {"one", "both"}, "date")
AmountLost(s, i) ==
    \/ Strikes(s, {"both"}, "money") /\ ~Balanced(s, i)
    \/ Strikes(s, {"one"}, "money") /\ shows[s].layout.currency # "KRW"
    \/ Strikes(s, {"lost", "moved"}, "money") /\ shows[s].layout.balance = "plain"
WayLost(s, e) ==
    /\ shows[s].layout.source = "card_list"
    /\ shows[s].events[e].way = "credit"
    /\ Strikes(s, {"one", "both", "lost", "moved"}, "word")
    /\ Struck(s).word = "inflow"

\* A row the import lets pass without review says what its event was: the day,
\* the amount, the currency and the direction (pipeline.tokens_for_parsing,
\* InstitutionParser.build_observation and _build of observations/services.py).
SilentRowsTrue ==
    \A s \in read : \A i \in DOMAIN rows[s] : Silent(s, i) =>
        \E e \in EventsOf(s, i) :
            LET row == rows[s][i]
                event == shows[s].events[e]
            IN  /\ row.day = event.day \/ DateLost(s)
                /\ row.amount = event.amount.value \/ AmountLost(s, i)
                /\ row.currency = shows[s].layout.currency
                /\ row.way = event.way \/ WayLost(s, e)

\* No event of a readable screen is dropped: some row stands for it, if only an
\* unreadable one or one of the fallback parser (InstitutionParser.parse).
EveryRowKept ==
    \A s \in read : \A e \in DOMAIN shows[s].events : \E i \in DOMAIN rows[s] : e \in EventsOf(s, i)

\* An event that two screenshots show and both rows tell truly, dated in the thirty
\* days the command looks at, is proposed as a duplicate, unless one of the rows already
\* has as many candidates as it may (find_duplicate_candidates and the command).
Tells(s, i, e) == Silent(s, i) /\ e \in EventsOf(s, i) /\ fault[s] = NoFault
CandidatesOf(p) == {m \in matches : m.type = "duplicate" /\ p \in m.pair}
OverlapFound ==
    seen.complete =>
        \A s, t \in Screens : \A i \in DOMAIN rows[s], j \in DOMAIN rows[t] :
            (/\ s < t
             /\ {<<s, i>>, <<t, j>>} \subseteq Dated(Today)
             /\ \E e \in EventsOf(s, i), f \in EventsOf(t, j) :
                  /\ Tells(s, i, e)
                  /\ Tells(t, j, f)
                  /\ shows[s].events[e].id = shows[t].events[f].id)
            => \/ \E m \in matches : m.type = "duplicate" /\ m.pair = {<<s, i>>, <<t, j>>}
               \/ Cardinality(CandidatesOf(<<s, i>>)) >= Cap
               \/ Cardinality(CandidatesOf(<<t, j>>)) >= Cap

\* Two rows reach the score of an automatic merge for one of three reasons only: they were
\* read from one event, or from a purchase and the event that cancels it under one code, or a
\* reviewer mapped both to one account or card and they agree in amount and currency, and in
\* their days, to one, or their balance.  The second and the third merge distinct events
\* (score_pair and LIKELY_MERGE_SCORE).
OnOneAccount(p, q) ==
    /\ {p, q} \subseteq mapped
    /\ shows[p[1]].layout.owner = shows[q[1]].layout.owner
    /\ Scoring!SameAmount(Row(p), Row(q))
    /\ Scoring!Within(Row(p).day, Row(q).day, 1) \/ Scoring!Same(Row(p).balance, Row(q).balance)
OneAuthorisation(p, q) ==
    \E d \in EventsOf(p[1], p[2]), e \in EventsOf(q[1], q[2]) :
        LET one == shows[p[1]].events[d]
            other == shows[q[1]].events[e]
        IN  one.id = other.id \/ (one.code # None /\ one.code = other.code /\ Cancels(one, other))
AutoMergeSafe ==
    \A m \in matches : m.type = "duplicate" /\ m.score >= 90 =>
        \A p, q \in m.pair : p # q => OneAuthorisation(p, q) \/ OnOneAccount(p, q)

\* A refund read truly is proposed with the purchase it returns, when both are dated in
\* the command's thirty days and the refund's row awaited a decision when the command ran
\* (propose_refund_matches, match_refund_to_purchase).
RefundFound ==
    seen.complete =>
        \A s, t \in Screens : \A i \in DOMAIN rows[s], j \in DOMAIN rows[t] :
            (/\ <<s, i>> \notin seen.decided
             /\ {<<s, i>>, <<t, j>>} \subseteq Dated(Today)
             /\ \E e \in EventsOf(s, i), f \in EventsOf(t, j) :
                  /\ Tells(s, i, e)
                  /\ Tells(t, j, f)
                  /\ shows[s].events[e].returns = shows[t].events[f].id)
            => \E m \in matches : /\ m.type = "refund"
                                  /\ m.pair = {<<s, i>>, <<t, j>>}
                                  /\ m.score >= 85

\* "Only rows still awaiting review and already mapped to an owned account are
\* considered" (propose_internal_transfers): so two rows that are, that tell the two
\* sides of one transfer truly, and that nobody decided, are proposed as one.
TransferFound ==
    seen.complete =>
        \A s, t \in Screens : \A i \in DOMAIN rows[s], j \in DOMAIN rows[t] :
            (/\ {<<s, i>>, <<t, j>>} \subseteq seen.mapped
             /\ shows[s].layout.owner # shows[t].layout.owner
             /\ \E e \in EventsOf(s, i), f \in EventsOf(t, j) :
                  /\ Tells(s, i, e)
                  /\ Tells(t, j, f)
                  /\ shows[s].events[e].arrives = shows[t].events[f].id)
            => \E m \in matches : m.type = "transfer" /\ m.pair = {<<s, i>>, <<t, j>>}
=============================================================================
