---------------------------- MODULE PairScoring ----------------------------
(***************************************************************************)
(* How two imported rows are compared: the duplicate score and the key of  *)
(* apps.reconciliation.duplicates, the candidates it keeps under its cap,  *)
(* and the transfer and refund scores of apps.reconciliation.matching.     *)
(*                                                                         *)
(* The facts of a row are a record [id, user, day, amount, currency, way,  *)
(* name, code, balance, instrument, account, source]; a fact that is not   *)
(* known is None.  Days and amounts are integers, so only they are ordered.*)
(***************************************************************************)
EXTENDS Integers, Sequences, FiniteSets, SequencesExt

CONSTANTS None,    \* A fact that is not known.
          Unknown, \* The direction of a row nobody could tell.
          Alike,   \* Pairs of names whose similarity reaches the threshold.
          Cap      \* Candidates one row may take part in.

\* The similarity of two names does not depend on their order.
AlikeBothWays == \A a, b : <<a, b>> \in Alike <=> <<b, a>> \in Alike

Days == 1
LikelyMerge == 90
ReviewCandidate == 65
SearchWindow == 31
TransferWindow == 1
RefundWindow == 120
StrongMatch == 85
MinimumMatch == 40

Points(holds, n) == IF holds THEN n ELSE 0
AtMost100(n) == IF n > 100 THEN 100 ELSE n

Known(a, b) == a # None /\ b # None

\* Mutant: two facts that nobody knows are the same.
EquallyUnknown(a, b) == a = b

Same(a, b) == a # None /\ a = b
Within(a, b, days) == Known(a, b) /\ a - b <= days /\ b - a <= days

\* The instrument a row is mapped to, else its account.
Owner(f) == IF f.instrument # None THEN f.instrument ELSE f.account
Similar(l, r) == Known(l.name, r.name) /\ <<l.name, r.name>> \in Alike
SameAmount(l, r) == Same(l.amount, r.amount) /\ l.currency = r.currency

(* ------------------------------- duplicates -----------------------------*)

RawScore(l, r) ==
      Points(SameAmount(l, r), 30)
    + Points(Same(Owner(l), Owner(r)), 25)
    + Points(Within(l.day, r.day, Days), 15)
    + Points(l.way = r.way /\ l.way # Unknown, 10)
    + Points(Similar(l, r), 10)
    + Points(Same(l.code, r.code), 30)
    + Points(Same(l.balance, r.balance), 15)
    + Points(Same(l.source, r.source), 5)

ScorePair(l, r) ==
    IF l.user # r.user \/ l.id = r.id THEN 0 ELSE AtMost100(RawScore(l, r))

\* What identifies a row without judgement; empty when it has no amount or no day.
DeterministicKey(f) ==
    IF f.code # None THEN <<"approval", f.user, f.code>>
    ELSE IF f.amount = None \/ f.day = None THEN <<>>
    ELSE <<"row", f.user, Owner(f), f.day, f.amount, f.currency, f.way>>

Keyed(l, r) == DeterministicKey(l) # <<>> /\ DeterministicKey(l) = DeterministicKey(r)

FarApart(l, r) == Known(l.day, r.day) /\ ~Within(l.day, r.day, SearchWindow)

\* Mutant: the threshold itself is left out.
AboveThreshold(l, r) ==
    Keyed(l, r) \/ (~FarApart(l, r) /\ ScorePair(l, r) > ReviewCandidate)

IsCandidate(l, r) ==
    Keyed(l, r) \/ (~FarApart(l, r) /\ ScorePair(l, r) >= ReviewCandidate)

\* Keyed pairs first, then by score, then by where the left row and the right row stand.
Ranks(facts, p, q) ==
    LET key(c) == Keyed(facts[c[1]], facts[c[2]])
        score(c) == ScorePair(facts[c[1]], facts[c[2]])
        earlier == p[1] < q[1] \/ (p[1] = q[1] /\ p[2] < q[2])
    IN  IF key(p) # key(q) THEN key(p)
        ELSE score(p) > score(q) \/ (score(p) = score(q) /\ earlier)

\* A pair is dropped once one of its rows takes part in Cap better ones.
Admit(chosen, c) ==
    LET count(i) == Cardinality({d \in chosen : i \in {d[1], d[2]}})
    IN  IF count(c[1]) >= Cap \/ count(c[2]) >= Cap THEN chosen ELSE chosen \cup {c}

\* The members of S in the order of before: each stands where as many precede it.
Ranked(S, before(_, _)) ==
    [k \in 1 .. Cardinality(S) |-> CHOOSE x \in S : Cardinality({y \in S : before(y, x)}) = k - 1]

\* The pairs <<i, j>> of positions, i < j, that become candidates.
FindDuplicateCandidates(facts) ==
    LET pairs == {c \in (DOMAIN facts) \X (DOMAIN facts) :
                    c[1] < c[2] /\ IsCandidate(facts[c[1]], facts[c[2]])}
        best == Ranked(pairs, LAMBDA p, q : Ranks(facts, p, q))
        chosen[k \in 0 .. Cardinality(pairs)] == IF k = 0 THEN {} ELSE Admit(chosen[k - 1], best[k])
    IN  chosen[Cardinality(pairs)]

(* -------------------------------- transfers -----------------------------*)

\* Money that leaves one owned account and arrives in another.
Opposite(out, in) ==
    /\ out.user = in.user
    /\ out.id # in.id
    /\ out.way = "debit"
    /\ in.way = "credit"
    /\ Known(out.account, in.account)
    /\ out.account # in.account

\* A reviewer's tolerance in days and in minor units, None when the command runs without one.
Tolerated(out, in, tolerance) ==
    /\ tolerance # None
    /\ Within(out.day, in.day, tolerance.window)
    /\ Within(out.amount, in.amount, tolerance.amount)
    /\ out.currency = in.currency

\* The score of a transfer, 0 when none is proposed.
MatchInternalTransfer(out, in, tolerance) ==
    IF ~Opposite(out, in) THEN 0
    ELSE IF SameAmount(out, in) /\ Within(out.day, in.day, TransferWindow)
         THEN 70 + Points(out.day = in.day, 15)
    ELSE IF Tolerated(out, in, tolerance)
         THEN 40 + Points(SameAmount(out, in), 15)
                 + (IF out.day = in.day THEN 10 ELSE Points(Within(out.day, in.day, TransferWindow), 5))
    ELSE 0

(* --------------------------------- refunds ------------------------------*)

Follows(refund, purchase) ==
    /\ refund.user = purchase.user
    /\ refund.id # purchase.id
    /\ refund.way = "credit"
    /\ purchase.way = "debit"
    /\ Known(refund.day, purchase.day)
    /\ purchase.day <= refund.day
    /\ refund.day - purchase.day <= RefundWindow

Partial(refund, purchase) ==
    /\ Known(refund.amount, purchase.amount)
    /\ 0 < refund.amount
    /\ refund.amount < purchase.amount

RefundScore(refund, purchase) ==
    25 + (IF SameAmount(refund, purchase) THEN 35 ELSE Points(Partial(refund, purchase), 15))
       + Points(Similar(refund, purchase), 25)
       + Points(Same(Owner(refund), Owner(purchase)), 20)

MatchRefundToPurchase(refund, purchase) ==
    IF ~Follows(refund, purchase) \/ RefundScore(refund, purchase) < MinimumMatch THEN 0
    ELSE AtMost100(RefundScore(refund, purchase))
=============================================================================
