---------------------------- MODULE ReviewQueue ----------------------------
(***************************************************************************)
(* What the review queue makes of the rows Evidence imports: the flags a   *)
(* row carries, the risk it is stored with, the order the queue shows open *)
(* rows in, the filters and the counts of the workload page, and which     *)
(* rows an acceptance takes only when it is confirmed explicitly           *)
(* (apps.observations.risk, .queue and .review, apps.reports.workload).    *)
(***************************************************************************)
EXTENDS Evidence

CONSTANT BacklogLimit   \* How many screenshots the workload page lists.
ASSUME BacklogAssumption == BacklogLimit \in Nat

(* --------------------------------- risk -------------------------------- *)

FlagRisk == [ambiguous_amount |-> 100, missing_amount |-> 95, balance_mismatch |-> 90,
             parser_error |-> 85, unknown_direction |-> 80, missing_direction |-> 80,
             missing_date |-> 70, ambiguous_date |-> 70, parser_fallback |-> 50,
             settlement_candidate |-> 45, ambiguous_merchant |-> 30, missing_merchant |-> 20]
UnknownMapping == 75
LowConfidence == 40
HighRisk == 80
AmountFlags == {"ambiguous_amount", "missing_amount"}
MissingFlags == {"missing_amount", "missing_date", "missing_direction", "missing_merchant"}

MissingFlag == [date |-> "missing_date", amount |-> "missing_amount",
                direction |-> "missing_direction", merchant |-> "missing_merchant"]
AmbiguousFlag == [date |-> "ambiguous_date", amount |-> "ambiguous_amount",
                  direction |-> "ambiguous_direction", balance_after |-> "ambiguous_balance_after"]

\* The concerns a row carries; a flag without a risk of its own counts for nothing.
ReviewFlags(row) ==
    LET stated == [unknown_direction |-> row.way = "unknown",
                   balance_mismatch |-> "balance_after" \in row.ambiguous,
                   parser_fallback |-> row.origin = "fallback",
                   parser_error |-> row.origin = "error",
                   degraded_ocr |-> row.degraded,
                   settlement_candidate |-> row.settles]
    IN  {MissingFlag[f] : f \in row.missing} \cup {AmbiguousFlag[f] : f \in row.ambiguous}
            \cup {f \in DOMAIN stated : stated[f]}

\* The engines are taken to be sure of what they print, so the parser decides;
\* scores are sums of three hundredths: 210 is the threshold of seventy.
Low(row) == row.score <= 210

\* Mutant: problems add up.
ScoreSum(flags, low, unmapped) ==
    MapThenSumSet(LAMBDA f : FlagRisk[f], flags \cap DOMAIN FlagRisk)
        + (IF unmapped THEN UnknownMapping ELSE 0) + (IF low THEN LowConfidence ELSE 0)

\* The worst problem of a row, not the sum of its problems.
ScoreFlags(flags, low, unmapped) ==
    Max({0} \cup {FlagRisk[f] : f \in flags \cap DOMAIN FlagRisk}
            \cup (IF unmapped THEN {UnknownMapping} ELSE {})
            \cup (IF low THEN {LowConfidence} ELSE {}))

\* risk_score: set by the import, and again by every correction.
RiskScore(p) == ScoreFlags(ReviewFlags(Row(p)), Low(Row(p)), p \notin mapped)

Projections(row) ==
    LET flags == ReviewFlags(row)
    IN  [amount_uncertain |-> flags \cap AmountFlags # {},
         balance_mismatched |-> "balance_mismatch" \in flags,
         has_missing_fields |-> flags \cap MissingFlags # {},
         is_settlement_candidate |-> "settlement_candidate" \in flags]

(* --------------------------------- queue ------------------------------- *)

\* A decided row has left the queue, until its transaction is deleted.
OpenObservations == Places \ decided

MatchDerived == <<"duplicate", "transfer", "settlement", "refund">>
MatchRisk == [duplicate |-> 88, settlement |-> 60, transfer |-> 55, refund |-> 50]

\* Every candidate of Evidence is still proposed.
QueueMatchIds(name) == UNION {m.pair : m \in {n \in matches : n.type = name}}
Derived(p) == {k \in DOMAIN MatchDerived : p \in QueueMatchIds(MatchDerived[k])}

\* What the database orders by, and what the page shows of the same row.
MatchRiskOf(p) == IF Derived(p) = {} THEN 0 ELSE MatchRisk[MatchDerived[Min(Derived(p))]]
Explained(p) == Max({RiskScore(p)} \cup {MatchRisk[MatchDerived[k]] : k \in Derived(p)})

\* Dates nobody read come last; rows of one page stand as the screen shows them.
Order(p) ==
    LET day == Row(p).day
    IN  <<0 - RiskScore(p), 0 - MatchRiskOf(p), Row(p).score,
          IF day = None THEN 1 ELSE 0, IF day = None THEN 0 ELSE day, p[2], p[1]>>
Before(a, b) ==
    \E k \in DOMAIN a : a[k] < b[k] /\ \A j \in 1 .. k - 1 : a[j] = b[j]
Queue ==
    LET order == [p \in OpenObservations |-> Order(p)]
    IN  Scoring!Ranked(OpenObservations, LAMBDA p, q : Before(order[p], order[q]))

QueueFilters == {"low_confidence", "amount_disagreement", "unknown_mapping", "duplicate",
                 "transfer", "settlement", "refund", "missing_fields", "balance_mismatch"}
Filtered(name) ==
    {p \in OpenObservations :
        CASE name = "low_confidence" -> Low(Row(p))
          [] name = "amount_disagreement" -> Projections(Row(p)).amount_uncertain
          [] name = "unknown_mapping" -> p \notin mapped
          [] name = "missing_fields" -> Projections(Row(p)).has_missing_fields
          [] name = "balance_mismatch" -> Projections(Row(p)).balance_mismatched
          [] name \in ToSet(MatchDerived) -> p \in QueueMatchIds(name)}
QueueCounts == [name \in QueueFilters |-> Cardinality(Filtered(name))]

\* The workload page: how sure the open rows are, and what is left of each screenshot.
ConfidenceBands ==
    [high |-> Cardinality({p \in OpenObservations : Row(p).score >= 270}),
     medium |-> Cardinality({p \in OpenObservations : Row(p).score \in 211 .. 269}),
     low |-> Cardinality({p \in OpenObservations : Row(p).score <= 210}),
     risky |-> Cardinality({p \in OpenObservations : RiskScore(p) >= HighRisk})]
Backlog(s) ==
    [total |-> Len(rows[s]),
     unreviewed |-> Cardinality({i \in DOMAIN rows[s] : <<s, i>> \in OpenObservations}),
     accepted |-> Cardinality({i \in DOMAIN rows[s] : <<s, i>> \in decided})]

\* The page lists the first of the screenshots with rows: those with most left to decide,
\* of two alike the newer one.
Left == [s \in Screens |-> Backlog(s).unreviewed]
Listed ==
    LET left == Left
        filled == {s \in Screens : Backlog(s).total > 0}
        ahead(s) == {t \in filled : left[t] > left[s] \/ (left[t] = left[s] /\ t > s)}
    IN  {s \in filled : Cardinality(ahead(s)) < BacklogLimit}

(* ------------------------------- acceptance ---------------------------- *)

\* Mutant: only the amount is asked about.
AsksForAmount(p) == Projections(Row(p)).amount_uncertain

RequiresConfirmation(p) == RiskScore(p) >= HighRisk \/ Projections(Row(p)).amount_uncertain
-----------------------------------------------------------------------------
(* What a reviewer who trusts the queue relies on *)

\* A row that one click accepts, without the explicit confirmation asked of risky
\* rows, has the amount and the direction of its event (_requires_confirmation).
UnaskedTrue ==
    \A p \in Places : Acceptable(p) /\ ~RequiresConfirmation(p) /\ ~Row(p).degraded =>
        \E e \in EventsOf(p[1], p[2]) :
            LET event == shows[p[1]].events[e]
            IN  /\ Row(p).amount = event.amount.value \/ AmountLost(p[1], p[2])
                /\ Row(p).way = event.way \/ WayLost(p[1], e)

\* "Three cosmetic problems must never outrank one ambiguous amount" (risk.py): the
\* database's order has the rows whose amount is in doubt before all others, those that came
\* back to the queue included.  It has the rows the page shows as high-risk before the rest,
\* except where a reviewer's mapping lowered the stored risk of a row that came back with a
\* duplicate: the order takes that duplicate second.  The workload page's bands count every
\* open row once, its lowest band is what the low-confidence filter finds, and the rows it
\* counts as risky are those that acceptance refuses without confirmation.  The screenshots
\* it lists have no fewer open rows than those it leaves out, and have all of them unless
\* more screenshots than it lists have some.
High(p) == Explained(p) >= HighRisk
QueueTells ==
    LET queue == Queue
        open == OpenObservations
        doubted == {p \in open : Projections(Row(p)).amount_uncertain}
        high == {p \in open : High(p)}
        bands == ConfidenceBands
        left == Left
        waiting == {s \in Screens : left[s] > 0}
        listed == Listed
    IN  /\ \A j, k \in DOMAIN queue :
             /\ queue[k] \in doubted /\ queue[j] \notin doubted => k < j
             /\ queue[k] \in high /\ queue[j] \notin high =>
                  k < j \/ (queue[k] \in mapped /\ RiskScore(queue[k]) < RiskScore(queue[j]))
        /\ QueueCounts["low_confidence"] = bands.low
        /\ bands.high + bands.medium + bands.low = Cardinality(open)
        /\ bands.risky = Cardinality({p \in open : RequiresConfirmation(p)})
        /\ \A s \in listed, t \in waiting \ listed : left[s] >= left[t]
        /\ Cardinality(waiting) <= BacklogLimit =>
             MapThenSumSet(LAMBDA s : left[s], listed) = Cardinality(open)

\* "A high-risk row must sort ahead of routine work across the whole queue, not merely
\* within whichever page it landed on" (queue.py).  A row that came back to the queue after
\* it was mapped, shown as high-risk for its duplicate alone, stands behind routine rows.
HighRiskFirst ==
    LET queue == Queue
    IN  \A j, k \in DOMAIN queue : High(queue[k]) /\ ~High(queue[j]) => k < j
=============================================================================
