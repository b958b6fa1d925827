------------------------- MODULE ReviewQueueProofs -------------------------
(***************************************************************************)
(* What holds of the rows that were imported, of the candidates the        *)
(* command stores and of the review queue, for any number of screenshots,  *)
(* any cap and any order of reading, reviewing and detecting.  What a      *)
(* parser makes of one screen is assumed (ReadingAssumption, which the     *)
(* model checker evaluates): rows are built with SelectSeq, SortSeq and    *)
(* @@, of which the provers are told nothing.                              *)
(***************************************************************************)
EXTENDS ReviewQueue, FiniteSetTheorems, FunctionTheorems, WellFoundedInduction,
        TLAPS

-----------------------------------------------------------------------------
(* Least and greatest numbers, and elements by their rank *)

LEMMA LeastOf ==
  ASSUME NEW S \in SUBSET Nat, S # {} PROVE \E x \in S : \A y \in S : x <= y
<1> DEFINE R == OpToRel(<, Nat)
<1>1. \E x \in S : \A y \in S : ~(<<y, x>> \in R)
  <2> HIDE DEF R
  <2> QED BY NatLessThanWellFounded, WFMin DEF R
<1>2. PICK x \in S : \A y \in S : ~(<<y, x>> \in R)
  BY <1>1
<1>3. \A y \in S : ~(y < x)
  BY <1>2 DEF OpToRel
<1> QED BY <1>3

\* A set of numbers up to a bound has a greatest one, which Max finds.
LEMMA MaxOf ==
  ASSUME NEW S \in SUBSET Nat, S # {}, NEW n \in Nat, \A x \in S : x <= n
  PROVE  Max(S) \in S /\ \A y \in S : Max(S) >= y
<1> DEFINE T == {n - x : x \in S}
<1>1. T \in SUBSET Nat /\ T # {}
  <2>1. \A x \in S : n - x \in Nat
    OBVIOUS
  <2> QED BY <2>1
<1>2. PICK t \in T : \A u \in T : t <= u
  <2> HIDE DEF T
  <2> QED BY <1>1, LeastOf
<1>3. PICK x \in S : t = n - x
  BY <1>2
<1>4. \A y \in S : x >= y
  <2> TAKE y \in S
  <2>1. n - y \in T
    OBVIOUS
  <2>2. n - x <= n - y
    BY <1>2, <1>3, <2>1
  <2> QED BY <2>2
<1> QED BY <1>4 DEF Max

LEMMA MinOf ==
  ASSUME NEW S \in SUBSET Nat, S # {} PROVE Min(S) \in S /\ \A y \in S : Min(S) <= y
<1>1. \E x \in S : \A y \in S : x <= y
  BY LeastOf
<1> QED BY <1>1 DEF Min

\* The modules count with the same operator.
LEMMA SameCardinality == ASSUME NEW S PROVE Scoring!Cardinality(S) = Cardinality(S)
BY DEF Scoring!Cardinality, Cardinality

\* The members of S that come before p in the order R, a set of pairs.
Ahead(S, R, p) == {q \in S : <<q, p>> \in R}

Orders(R, S) ==
  /\ \A x \in S : <<x, x>> \notin R
  /\ \A x, y \in S : x # y => <<x, y>> \in R \/ <<y, x>> \in R
  /\ \A x, y, z \in S : <<x, y>> \in R /\ <<y, z>> \in R => <<x, z>> \in R

\* In a finite set that is strictly and totally ordered every rank is taken, once.
LEMMA EveryRankTaken ==
  ASSUME NEW S, IsFiniteSet(S), NEW R, Orders(R, S)
  PROVE  /\ \A x, y \in S : <<x, y>> \in R => Cardinality(Ahead(S, R, x)) < Cardinality(Ahead(S, R, y))
         /\ \A k \in 1 .. Cardinality(S) : \E p \in S : Cardinality(Ahead(S, R, p)) = k - 1
         /\ \A p \in S : Cardinality(Ahead(S, R, p)) + 1 \in 1 .. Cardinality(S)
<1> DEFINE n == Cardinality(S)
           rank == [p \in S |-> Cardinality(Ahead(S, R, p)) + 1]
<1>0. /\ \A x \in S : <<x, x>> \notin R
      /\ \A x, y \in S : x # y => <<x, y>> \in R \/ <<y, x>> \in R
      /\ \A x, y, z \in S : <<x, y>> \in R /\ <<y, z>> \in R => <<x, z>> \in R
  BY DEF Orders
<1>1. \A p \in S : IsFiniteSet(Ahead(S, R, p)) /\ Cardinality(Ahead(S, R, p)) \in Nat
  BY FS_Subset, FS_CardinalityType DEF Ahead
<1>2. \A x, y \in S : <<x, y>> \in R => Cardinality(Ahead(S, R, x)) < Cardinality(Ahead(S, R, y))
  <2> TAKE x, y \in S
  <2> HAVE <<x, y>> \in R
  <2>1. Ahead(S, R, x) \in SUBSET Ahead(S, R, y)
    BY <1>0 DEF Ahead
  <2>2. x \in Ahead(S, R, y) /\ x \notin Ahead(S, R, x)
    BY <1>0 DEF Ahead
  <2>3. /\ Cardinality(Ahead(S, R, x)) <= Cardinality(Ahead(S, R, y))
        /\ Cardinality(Ahead(S, R, y)) = Cardinality(Ahead(S, R, x)) => Ahead(S, R, y) = Ahead(S, R, x)
    BY <1>1, <2>1, FS_Subset
  <2> QED BY <1>1, <2>2, <2>3
<1>3. n \in Nat
  BY FS_CardinalityType
<1>4. \A p \in S : rank[p] \in 1 .. n
  <2> TAKE p \in S
  <2>1. /\ Cardinality(Ahead(S, R, p)) <= n
        /\ n = Cardinality(Ahead(S, R, p)) => S = Ahead(S, R, p)
    <3>1. Ahead(S, R, p) \in SUBSET S
      BY <1>0 DEF Ahead
    <3> QED BY <3>1, FS_Subset
  <2>2. S # Ahead(S, R, p)
    BY <1>0 DEF Ahead
  <2> QED BY <1>1, <1>3, <2>1, <2>2
<1>5. rank \in [S -> 1 .. n]
  BY <1>4
<1>6. \A x, y \in S : rank[x] = rank[y] => x = y
  <2> TAKE x, y \in S
  <2> HAVE rank[x] = rank[y]
  <2>1. Cardinality(Ahead(S, R, x)) = Cardinality(Ahead(S, R, y))
    BY <1>1
  <2>2. ~(<<x, y>> \in R) /\ ~(<<y, x>> \in R)
    BY <1>1, <1>2, <2>1
  <2> QED BY <1>0, <2>2
<1>7. rank \in Injection(S, 1 .. n)
  <2> HIDE DEF rank
  <2> QED BY <1>5, <1>6, Fun_IsInj
<1>8. IsFiniteSet(1 .. n) /\ Cardinality(1 .. n) = n
  BY <1>3, FS_Interval
<1>9. rank \in Surjection(S, 1 .. n)
  <2> HIDE DEF rank
  <2> QED BY <1>7, <1>8, FS_Injection
<1>10. \A k \in 1 .. n : \E p \in S : rank[p] = k
  BY <1>9 DEF Surjection
<1>11. \A k \in 1 .. n : \E p \in S : Cardinality(Ahead(S, R, p)) = k - 1
  BY <1>1, <1>3, <1>10
<1> QED BY <1>2, <1>4, <1>11

ByRank(f, S, R) ==
  /\ DOMAIN f = 1 .. Cardinality(S)
  /\ \A k \in 1 .. Cardinality(S) :
       (\E x \in S : Cardinality(Ahead(S, R, x)) = k - 1)
         => f[k] \in S /\ Cardinality(Ahead(S, R, f[k])) = k - 1

\* A sequence that holds at each place the member of that rank lists the set in order.
LEMMA PlacedByRank ==
  ASSUME NEW S, IsFiniteSet(S), NEW R, Orders(R, S), NEW f, ByRank(f, S, R)
  PROVE  /\ \A k \in DOMAIN f : f[k] \in S
         /\ \A j, k \in DOMAIN f : <<f[j], f[k]>> \in R <=> j < k
         /\ \A x \in S : \E k \in DOMAIN f : f[k] = x
<1> DEFINE n == Cardinality(S)
           rank(x) == Cardinality(Ahead(S, R, x))
<1>0. /\ DOMAIN f = 1 .. n
      /\ \A k \in 1 .. n : (\E x \in S : rank(x) = k - 1) => f[k] \in S /\ rank(f[k]) = k - 1
  BY DEF ByRank
<1>1. /\ \A x, y \in S : <<x, y>> \in R => rank(x) < rank(y)
      /\ \A k \in 1 .. n : \E p \in S : rank(p) = k - 1
      /\ \A p \in S : rank(p) + 1 \in 1 .. n
  BY EveryRankTaken
<1>2. n \in Nat /\ \A p \in S : rank(p) \in Nat
  BY FS_Subset, FS_CardinalityType DEF Ahead
<1>3. \A k \in 1 .. n : f[k] \in S /\ rank(f[k]) = k - 1
  BY <1>0, <1>1
<1> HIDE DEF rank, n
<1>4. \A x, y \in S : rank(x) = rank(y) => x = y
  <2> TAKE x, y \in S
  <2> HAVE rank(x) = rank(y)
  <2>1. ~(<<x, y>> \in R)
    BY <1>1, <1>2
  <2>2. ~(<<y, x>> \in R)
    BY <1>1, <1>2
  <2> QED BY <2>1, <2>2 DEF Orders
<1>5. \A j, k \in 1 .. n : <<f[j], f[k]>> \in R => j < k
  <2> TAKE j, k \in 1 .. n
  <2> HAVE <<f[j], f[k]>> \in R
  <2>1. rank(f[j]) < rank(f[k])
    BY <1>1, <1>3
  <2> QED BY <1>2, <1>3, <2>1
<1>6. \A j, k \in 1 .. n : j < k => <<f[j], f[k]>> \in R
  <2> TAKE j, k \in 1 .. n
  <2> HAVE j < k
  <2>1. f[j] # f[k] /\ f[j] \in S /\ f[k] \in S
    BY <1>2, <1>3
  <2>2. ~(<<f[k], f[j]>> \in R)
    BY <1>2, <1>5
  <2> QED BY <2>1, <2>2 DEF Orders
<1>7. \A x \in S : \E k \in 1 .. n : f[k] = x
  <2> TAKE x \in S
  <2> DEFINE k == rank(x) + 1
  <2>1. k \in 1 .. n /\ rank(x) = k - 1
    BY <1>1, <1>2
  <2>2. rank(f[k]) = rank(x) /\ f[k] \in S
    <3> HIDE DEF k
    <3> QED BY <1>3, <2>1
  <2>3. f[k] = x
    BY <1>4, <2>2
  <2> QED BY <2>1, <2>3
<1> QED BY <1>0, <1>3, <1>5, <1>6, <1>7 DEF n

-----------------------------------------------------------------------------
(* The order of the queue *)

\* Two keys are compared by the first field they differ in.
LEMMA BeforeIsStrict ==
  ASSUME NEW n \in Nat, NEW a \in [1 .. n -> Int] PROVE ~Before(a, a)
BY DEF Before

LEMMA BeforeIsTotal ==
  ASSUME NEW n \in Nat, NEW a \in [1 .. n -> Int], NEW b \in [1 .. n -> Int], a # b
  PROVE  Before(a, b) \/ Before(b, a)
<1> DEFINE D == {k \in 1 .. n : a[k] # b[k]}
<1>1. D \in SUBSET Nat /\ D # {}
  OBVIOUS
<1>2. PICK k \in D : \A j \in D : k <= j
  <2> HIDE DEF D
  <2> QED BY <1>1, LeastOf
<1>3. k \in 1 .. n /\ a[k] # b[k]
  BY <1>2
<1>4. \A j \in 1 .. k - 1 : a[j] = b[j]
  BY <1>2, <1>3
<1>5. a[k] < b[k] \/ b[k] < a[k]
  BY <1>3
<1> QED BY <1>3, <1>4, <1>5 DEF Before

LEMMA BeforeIsTransitive ==
  ASSUME NEW n \in Nat, NEW a \in [1 .. n -> Int], NEW b \in [1 .. n -> Int],
         NEW c \in [1 .. n -> Int], Before(a, b), Before(b, c)
  PROVE  Before(a, c)
<1>1. PICK k \in 1 .. n : a[k] < b[k] /\ \A j \in 1 .. k - 1 : a[j] = b[j]
  BY DEF Before
<1>2. PICK l \in 1 .. n : b[l] < c[l] /\ \A j \in 1 .. l - 1 : b[j] = c[j]
  BY DEF Before
<1>3. CASE k < l
  <2>1. a[k] < c[k]
    BY <1>1, <1>2, <1>3
  <2>2. \A j \in 1 .. k - 1 : a[j] = c[j]
    BY <1>1, <1>2, <1>3
  <2> QED BY <2>1, <2>2 DEF Before
<1>4. CASE l < k
  <2>1. a[l] < c[l]
    BY <1>1, <1>2, <1>4
  <2>2. \A j \in 1 .. l - 1 : a[j] = c[j]
    BY <1>1, <1>2, <1>4
  <2> QED BY <2>1, <2>2 DEF Before
<1>5. CASE k = l
  <2>1. a[k] < c[k]
    BY <1>1, <1>2, <1>5
  <2>2. \A j \in 1 .. k - 1 : a[j] = c[j]
    BY <1>1, <1>2, <1>5
  <2> QED BY <2>1, <2>2 DEF Before
<1> QED BY <1>3, <1>4, <1>5

\* The database has typed columns for how sure a row is and for its day.
RowsTyped ==
    \A s \in Screens : /\ Len(rows[s]) \in Nat
                       /\ DOMAIN rows[s] = 1 .. Len(rows[s])
                       /\ \A i \in DOMAIN rows[s] : TypedRow(rows[s][i])

LEMMA PlaceOfRow ==
  ASSUME RowsTyped, NEW p \in Places
  PROVE  /\ p[1] \in Screens /\ p[2] \in DOMAIN rows[p[1]] /\ p = <<p[1], p[2]>>
         /\ p[1] \in Int /\ p[2] \in Int /\ TypedRow(Row(p))
<1>1. PICK s \in Screens : \E i \in DOMAIN rows[s] : p = <<s, i>>
  BY DEF Places
<1> PICK i \in DOMAIN rows[s] : p = <<s, i>>
  BY <1>1
<1>2. p[1] = s /\ p[2] = i
  OBVIOUS
<1>3. s \in Int
  BY EvidenceAssumption, FS_CardinalityType
<1>4. Len(rows[s]) \in Nat /\ DOMAIN rows[s] = 1 .. Len(rows[s]) /\ TypedRow(rows[s][i])
  BY DEF RowsTyped
<1> QED BY <1>2, <1>3, <1>4 DEF Row

LEMMA PlacesFinite == ASSUME RowsTyped PROVE IsFiniteSet(Places)
<1> DEFINE of(s) == {<<s, i>> : i \in DOMAIN rows[s]}
           all == {of(s) : s \in Screens}
<1>1. IsFiniteSet(Screens)
  BY EvidenceAssumption
<1>2. \A s \in Screens : IsFiniteSet(of(s))
  <2> TAKE s \in Screens
  <2>1. IsFiniteSet(DOMAIN rows[s])
    BY FS_Interval DEF RowsTyped
  <2> DEFINE f == [i \in DOMAIN rows[s] |-> <<s, i>>]
  <2>2. f \in Surjection(DOMAIN rows[s], of(s))
    BY DEF Surjection
  <2> HIDE DEF f, of
  <2> QED BY <2>1, <2>2, FS_Surjection
<1>3. IsFiniteSet(all)
  <2> HIDE DEF of
  <2> DEFINE f == [s \in Screens |-> of(s)]
  <2>1. f \in Surjection(Screens, all)
    BY DEF Surjection
  <2> HIDE DEF f, all
  <2> QED BY <1>1, <2>1, FS_Surjection
<1>4. \A t \in all : IsFiniteSet(t)
  <2> HIDE DEF of
  <2> QED BY <1>2
<1>5. IsFiniteSet(UNION all)
  <2> HIDE DEF all
  <2> QED BY <1>3, <1>4, FS_UNION
<1> QED BY <1>5 DEF Places

-----------------------------------------------------------------------------
(* Risk *)

LEMMA FlagRiskValues ==
  ASSUME NEW f \in DOMAIN FlagRisk
  PROVE  /\ FlagRisk[f] \in {20, 30, 45, 50, 70, 80, 85, 90, 95, 100}
         /\ f \in AmountFlags <=> FlagRisk[f] >= 95
<1>1. f \in {"ambiguous_amount", "missing_amount", "balance_mismatch", "parser_error",
             "unknown_direction", "missing_direction", "missing_date", "ambiguous_date",
             "parser_fallback", "settlement_candidate", "ambiguous_merchant", "missing_merchant"}
  BY DEF FlagRisk
<1> QED BY <1>1 DEF FlagRisk, AmountFlags

LEMMA AmountFlagsHaveRisk == AmountFlags \subseteq DOMAIN FlagRisk
BY DEF AmountFlags, FlagRisk

\* The risks a row may be stored with.
Risks == {0, 20, 30, 40, 45, 50, 70, 75, 80, 85, 90, 95, 100}

\* A row carries one of them, the highest exactly when its amount is in doubt, and one that
\* nobody mapped carries at least the risk of that.
LEMMA RiskOfRow ==
  ASSUME NEW flags, NEW low, NEW unmapped \in BOOLEAN
  PROVE  /\ ScoreFlags(flags, low, unmapped) \in Risks
         /\ ScoreFlags(flags, low, unmapped) >= 95 <=> flags \cap AmountFlags # {}
         /\ unmapped => ScoreFlags(flags, low, unmapped) >= 75
<1> DEFINE S == {0} \cup {FlagRisk[f] : f \in flags \cap DOMAIN FlagRisk}
                    \cup (IF unmapped THEN {UnknownMapping} ELSE {})
                    \cup (IF low THEN {LowConfidence} ELSE {})
           m == Max(S)
<1>1. S \subseteq Risks /\ 0 \in S
  BY FlagRiskValues DEF UnknownMapping, LowConfidence, Risks
<1>2. unmapped => 75 \in S
  BY DEF UnknownMapping
<1>3. ScoreFlags(flags, low, unmapped) = m
  BY DEF ScoreFlags
<1>4. m \in S /\ m \in Risks /\ \A y \in S : m >= y
  <2> HIDE DEF S
  <2>1. S \in SUBSET Nat /\ S # {} /\ \A x \in S : x <= 100
    BY <1>1 DEF Risks
  <2> QED BY <1>1, <2>1, MaxOf
<1> HIDE DEF m
<1>5. ASSUME flags \cap AmountFlags # {} PROVE m >= 95
  <2>1. PICK f \in flags \cap AmountFlags : TRUE
    BY <1>5
  <2>2. f \in DOMAIN FlagRisk /\ FlagRisk[f] >= 95 /\ FlagRisk[f] \in S
    BY <2>1, FlagRiskValues, AmountFlagsHaveRisk
  <2>3. m >= FlagRisk[f] /\ FlagRisk[f] \in {20, 30, 45, 50, 70, 80, 85, 90, 95, 100}
    <3> HIDE DEF S
    <3> QED BY <1>4, <2>2, FlagRiskValues
  <2>4. m \in Nat
    BY <1>4 DEF Risks
  <2> QED BY <2>2, <2>3, <2>4
<1>6. ASSUME m >= 95 PROVE flags \cap AmountFlags # {}
  <2>1. m \in S /\ m \notin {0, 75, 40}
    <3> HIDE DEF S
    <3> QED BY <1>4, <1>6
  <2>2. PICK f \in flags \cap DOMAIN FlagRisk : FlagRisk[f] = m
    BY <2>1 DEF UnknownMapping, LowConfidence
  <2> QED BY <1>6, <2>2, FlagRiskValues
<1>7. unmapped => m >= 75
  <2> HIDE DEF S
  <2> QED BY <1>2, <1>4
<1> HIDE DEF S
<1> QED BY <1>3, <1>4, <1>5, <1>6, <1>7

LEMMA MatchRiskValues ==
  /\ DOMAIN MatchDerived = 1 .. 4
  /\ MatchRisk[MatchDerived[1]] = 88
  /\ \A k \in 2 .. 4 : MatchRisk[MatchDerived[k]] \in {50, 55, 60}
<1>1. DOMAIN MatchDerived = 1 .. 4 /\ MatchDerived[1] = "duplicate"
  BY DEF MatchDerived
<1>2. \A k \in 2 .. 4 : MatchDerived[k] \in {"transfer", "settlement", "refund"}
  BY DEF MatchDerived
<1> QED BY <1>1, <1>2 DEF MatchRisk

\* The database's second key is that of a duplicate when the row is in one.
LEMMA MatchRiskTells ==
  ASSUME NEW p
  PROVE  /\ MatchRiskOf(p) \in {0, 50, 55, 60, 88}
         /\ MatchRiskOf(p) = 88 <=> 1 \in Derived(p)
<1>1. Derived(p) \subseteq 1 .. 4
  BY MatchRiskValues DEF Derived
<1>2. CASE Derived(p) = {}
  BY <1>2 DEF MatchRiskOf
<1>3. CASE Derived(p) # {}
  <2> DEFINE k == Min(Derived(p))
  <2>1. k \in Derived(p) /\ \A j \in Derived(p) : k <= j
    <3>1. Derived(p) \in SUBSET Nat
      BY <1>1
    <3> QED BY <1>3, <3>1, MinOf
  <2>2. MatchRiskOf(p) = MatchRisk[MatchDerived[k]]
    BY <1>3 DEF MatchRiskOf
  <2> HIDE DEF k
  <2>3. k \in 1 .. 4
    BY <1>1, <2>1
  <2>4. CASE k = 1
    BY <2>1, <2>2, <2>4, MatchRiskValues
  <2>5. CASE k # 1
    <3>1. k \in 2 .. 4 /\ 1 \notin Derived(p)
      BY <2>1, <2>3, <2>5
    <3>2. MatchRiskOf(p) \in {50, 55, 60}
      BY <2>2, <3>1, MatchRiskValues
    <3> QED BY <3>1, <3>2
  <2> QED BY <2>4, <2>5
<1> QED BY <1>2, <1>3

\* The page shows a row as high-risk for what is wrong with it or for its duplicate.
LEMMA ExplainedHigh ==
  ASSUME NEW p, RiskScore(p) \in Risks
  PROVE  Explained(p) >= HighRisk <=> RiskScore(p) >= HighRisk \/ MatchRiskOf(p) = 88
<1> DEFINE S == {RiskScore(p)} \cup {MatchRisk[MatchDerived[k]] : k \in Derived(p)}
           m == Max(S)
           r == RiskScore(p)
<1>1. Derived(p) \subseteq 1 .. 4
  BY MatchRiskValues DEF Derived
<1>2. \A k \in 1 .. 4 : /\ MatchRisk[MatchDerived[k]] \in {50, 55, 60, 88}
                        /\ MatchRisk[MatchDerived[k]] = 88 <=> k = 1
  <2> TAKE k \in 1 .. 4
  <2>1. CASE k = 1
    BY <2>1, MatchRiskValues
  <2>2. CASE k # 1
    <3>1. MatchRisk[MatchDerived[k]] \in {50, 55, 60}
      BY <2>2, MatchRiskValues
    <3> QED BY <2>2, <3>1
  <2> QED BY <2>1, <2>2
<1>3. S \subseteq Risks \cup {55, 60, 88} /\ r \in S
  BY <1>1, <1>2 DEF Risks
<1>4. m \in S /\ \A y \in S : m >= y
  <2>1. S \in SUBSET Nat /\ S # {} /\ \A x \in S : x <= 100
    BY <1>3 DEF Risks
  <2> HIDE DEF S
  <2> QED BY <2>1, MaxOf
<1>5. Explained(p) = m
  BY DEF Explained
<1> HIDE DEF m
<1>6. m \in Nat /\ r \in Nat
  <2> HIDE DEF S
  <2>1. m \in Risks \cup {55, 60, 88}
    BY <1>3, <1>4
  <2> QED BY <2>1 DEF Risks
<1>7. ASSUME 1 \in Derived(p) PROVE m >= 80
  <2>1. 88 \in S
    BY <1>2, <1>7
  <2> HIDE DEF S
  <2> QED BY <1>4, <1>6, <2>1
<1>8. ASSUME r >= 80 PROVE m >= 80
  <2> HIDE DEF S
  <2> QED BY <1>3, <1>4, <1>6, <1>8
<1>9. ASSUME m >= 80, 1 \notin Derived(p) PROVE r >= 80
  <2>1. m = r \/ \E k \in Derived(p) : m = MatchRisk[MatchDerived[k]]
    BY <1>4
  <2>2. \A k \in Derived(p) : MatchRisk[MatchDerived[k]] \in {50, 55, 60}
    BY <1>1, <1>2, <1>9
  <2> HIDE DEF S, r
  <2> QED BY <1>9, <2>1, <2>2
<1> QED BY <1>5, <1>7, <1>8, <1>9, MatchRiskTells DEF HighRisk

\* What an open row is, and what it is ordered by.
LEMMA OpenRow ==
  ASSUME RowsTyped, NEW p \in OpenObservations
  PROVE  /\ p[1] \in Screens /\ p[2] \in DOMAIN rows[p[1]] /\ p = <<p[1], p[2]>>
         /\ p[1] \in Int /\ p[2] \in Int
         /\ TypedRow(Row(p))
         /\ RiskScore(p) \in Risks
         /\ RiskScore(p) >= 95 <=> Projections(Row(p)).amount_uncertain
         /\ p \notin mapped => RiskScore(p) >= 75
<1>1. p \in Places
  BY DEF OpenObservations
<1>2. /\ p[1] \in Screens /\ p[2] \in DOMAIN rows[p[1]] /\ p = <<p[1], p[2]>>
      /\ p[1] \in Int /\ p[2] \in Int /\ TypedRow(Row(p))
  BY <1>1, PlaceOfRow
<1> DEFINE flags == ReviewFlags(Row(p))
           low == Low(Row(p))
           unmapped == p \notin mapped
<1>3. RiskScore(p) = ScoreFlags(flags, low, unmapped)
  BY DEF RiskScore
<1>4. Projections(Row(p)).amount_uncertain <=> flags \cap AmountFlags # {}
  BY DEF Projections
<1>5. unmapped \in BOOLEAN
  OBVIOUS
<1> HIDE DEF flags, low
<1>6. /\ RiskScore(p) \in Risks
      /\ RiskScore(p) >= 95 <=> flags \cap AmountFlags # {}
      /\ unmapped => RiskScore(p) >= 75
  <2> HIDE DEF unmapped
  <2> DEFINE score == ScoreFlags(flags, low, unmapped)
  <2>1. /\ score \in Risks
        /\ score >= 95 <=> flags \cap AmountFlags # {}
        /\ unmapped => score >= 75
    BY <1>5, RiskOfRow
  <2>2. RiskScore(p) = score
    BY <1>3
  <2> HIDE DEF score
  <2> QED BY <2>1, <2>2
<1> QED BY <1>2, <1>4, <1>6

LEMMA OpenFinite == ASSUME RowsTyped PROVE IsFiniteSet(OpenObservations)
<1>1. OpenObservations \in SUBSET Places
  BY DEF OpenObservations
<1> QED BY <1>1, PlacesFinite, FS_Subset

LEMMA OrderIsKey ==
  ASSUME RowsTyped, NEW p \in OpenObservations
  PROVE  /\ Order(p) \in [1 .. 7 -> Int]
         /\ Order(p)[1] = 0 - RiskScore(p) /\ Order(p)[2] = 0 - MatchRiskOf(p)
         /\ Order(p)[6] = p[2] /\ Order(p)[7] = p[1]
<1>1. RiskScore(p) \in Int /\ MatchRiskOf(p) \in Int /\ p[1] \in Int /\ p[2] \in Int
  BY OpenRow, MatchRiskTells DEF Risks
<1>2. Row(p).score \in Int /\ (Row(p).day = None \/ Row(p).day \in Int)
  BY OpenRow DEF TypedRow
<1> DEFINE day == Row(p).day
           late == IF day = None THEN 1 ELSE 0
           on == IF day = None THEN 0 ELSE day
<1>3. late \in Int /\ on \in Int
  BY <1>2
<1>4. Order(p) = <<0 - RiskScore(p), 0 - MatchRiskOf(p), Row(p).score, late, on, p[2], p[1]>>
  BY DEF Order
<1> HIDE DEF late, on
<1> QED BY <1>1, <1>2, <1>3, <1>4

\* The queue lists every open row, and a row that the order puts first comes first.
LEMMA QueueSorted ==
  ASSUME RowsTyped
  PROVE  /\ DOMAIN Queue = 1 .. Cardinality(OpenObservations)
         /\ \A k \in DOMAIN Queue : Queue[k] \in OpenObservations
         /\ \A j, k \in DOMAIN Queue : Before(Order(Queue[k]), Order(Queue[j])) => k < j
<1> DEFINE S == OpenObservations
           order == [p \in S |-> Order(p)]
           R == {c \in S \X S : Before(order[c[1]], order[c[2]])}
           n == Cardinality(S)
<1>1. IsFiniteSet(S) /\ n \in Nat
  BY OpenFinite, FS_CardinalityType
<1>2. \A p \in S : order[p] = Order(p) /\ order[p] \in [1 .. 7 -> Int]
  BY OrderIsKey
<1>3. \A p, q \in S : order[p] = order[q] => p = q
  <2> TAKE p, q \in S
  <2> HAVE order[p] = order[q]
  <2>1. p[1] = q[1] /\ p[2] = q[2]
    BY <1>2, OrderIsKey
  <2> QED BY <2>1, OpenRow
<1> HIDE DEF S, order, n
<1>4. \A p, q \in S : <<p, q>> \in R <=> Before(order[p], order[q])
  OBVIOUS
<1>5. \A x \in S : <<x, x>> \notin R
  BY <1>2, <1>4, BeforeIsStrict
<1>6. \A x, y \in S : x # y => <<x, y>> \in R \/ <<y, x>> \in R
  <2> TAKE x, y \in S
  <2> HAVE x # y
  <2> DEFINE a == order[x]
             b == order[y]
  <2>1. a \in [1 .. 7 -> Int] /\ b \in [1 .. 7 -> Int] /\ a # b
    BY <1>2, <1>3
  <2> HIDE DEF a, b
  <2>2. Before(a, b) \/ Before(b, a)
    BY <2>1, BeforeIsTotal
  <2> QED BY <1>4, <2>2 DEF a, b
<1>7. \A x, y, z \in S : <<x, y>> \in R /\ <<y, z>> \in R => <<x, z>> \in R
  BY <1>2, <1>4, BeforeIsTransitive
<1> HIDE DEF R
<1>8. \A p \in S : Ahead(S, R, p) = {q \in S : Before(order[q], order[p])}
  BY <1>4 DEF Ahead
<1>9. Queue = [k \in 1 .. Scoring!Cardinality(S) |->
                  CHOOSE p \in S : Scoring!Cardinality({q \in S : Before(order[q], order[p])}) = k - 1]
  BY DEF Queue, Scoring!Ranked, S, order
<1>10. DOMAIN Queue = 1 .. n
  BY <1>9, SameCardinality DEF n
<1>11. ASSUME NEW k \in 1 .. n, \E p \in S : Cardinality(Ahead(S, R, p)) = k - 1
       PROVE  Queue[k] \in S /\ Cardinality(Ahead(S, R, Queue[k])) = k - 1
  <2>1. \E p \in S : Scoring!Cardinality({q \in S : Before(order[q], order[p])}) = k - 1
    BY <1>8, <1>11, SameCardinality
  <2>2. k \in 1 .. Scoring!Cardinality(S)
    BY SameCardinality DEF n
  <2>3. /\ Queue[k] \in S
        /\ Scoring!Cardinality({q \in S : Before(order[q], order[Queue[k]])}) = k - 1
    BY <1>9, <2>1, <2>2
  <2> QED BY <1>8, <2>3, SameCardinality
<1>12. /\ \A k \in DOMAIN Queue : Queue[k] \in S
       /\ \A j, k \in DOMAIN Queue : <<Queue[j], Queue[k]>> \in R <=> j < k
  <2>1. ByRank(Queue, S, R)
    BY <1>10, <1>11 DEF ByRank, n
  <2>2. Orders(R, S)
    BY <1>5, <1>6, <1>7 DEF Orders
  <2> QED BY <1>1, <2>1, <2>2, PlacedByRank
<1>13. \A j, k \in DOMAIN Queue : Before(Order(Queue[k]), Order(Queue[j])) => k < j
  BY <1>2, <1>4, <1>12
<1> QED BY <1>10, <1>12, <1>13 DEF S, n

-----------------------------------------------------------------------------
(* The counts of the workload page *)

LEMMA CardinalityOfParts ==
  ASSUME NEW S, IsFiniteSet(S), NEW A \in SUBSET S, NEW B \in SUBSET S, A \cup B = S, A \cap B = {}
  PROVE  Cardinality(S) = Cardinality(A) + Cardinality(B)
<1>1. IsFiniteSet(A) /\ IsFiniteSet(B)
  BY FS_Subset
<1>2. Cardinality(A \cap B) = 0 /\ Cardinality(A) \in Nat /\ Cardinality(B) \in Nat
  BY <1>1, FS_EmptySet, FS_CardinalityType
<1>3. Cardinality(A \cup B) = Cardinality(A) + Cardinality(B) - Cardinality(A \cap B)
  BY <1>1, FS_Union
<1> QED BY <1>2, <1>3

\* What holds of a finite set as soon as it holds of its proper subsets.
LEMMA SubsetInduction ==
  ASSUME NEW T, IsFiniteSet(T), NEW Good,
         \A s \in SUBSET T : (\A u \in SUBSET s : u # s => u \in Good) => s \in Good
  PROVE  SUBSET T \subseteq Good
<1> DEFINE Bad == (SUBSET T) \ Good
<1>1. Bad \subseteq FiniteSubsetsOf(T)
  BY FS_Subset DEF FiniteSubsetsOf
<1>2. SUFFICES ASSUME Bad # {} PROVE FALSE
  OBVIOUS
<1>3. \E x \in Bad : \A y \in Bad : ~(<<y, x>> \in StrictSubsetOrdering(T))
  <2> HIDE DEF Bad
  <2> QED BY <1>1, <1>2, FS_StrictSubsetOrderingWellFounded, WFMin
<1>4. PICK x \in Bad : \A y \in Bad : ~(<<y, x>> \in StrictSubsetOrdering(T))
  BY <1>3
<1>5. \A u \in SUBSET x : u # x => u \in Good
  <2> SUFFICES ASSUME NEW u \in SUBSET x, u # x, u \notin Good PROVE FALSE
    OBVIOUS
  <2>1. u \in Bad /\ <<u, x>> \in StrictSubsetOrdering(T)
    BY DEF StrictSubsetOrdering
  <2> QED BY <1>4, <2>1
<1>6. x \in Good
  BY <1>5
<1> QED BY <1>6

Pick(s) == CHOOSE x \in s : TRUE

\* The sum of the unreviewed rows of T as the library's recursion computes it.
Sums(g, T) ==
  g = [s \in SUBSET T |-> IF s = {} THEN 0 ELSE Left[Pick(s)] + g[s \ {Pick(s)}]]

OpenOn(s) == {p \in OpenObservations : p[1] \in s}

LEMMA UnreviewedOn ==
  ASSUME RowsTyped, NEW s \in Screens
  PROVE  Left[s] = Cardinality(OpenOn({s})) /\ Left[s] \in Nat
<1> DEFINE I == {i \in DOMAIN rows[s] : <<s, i>> \in OpenObservations}
           f == [i \in I |-> <<s, i>>]
<1>1. Left[s] = Cardinality(I)
  BY DEF Backlog, Left
<1>2. IsFiniteSet(I)
  <2>1. IsFiniteSet(DOMAIN rows[s])
    BY FS_Interval DEF RowsTyped
  <2>2. I \in SUBSET DOMAIN rows[s]
    OBVIOUS
  <2> HIDE DEF I
  <2> QED BY <2>1, <2>2, FS_Subset
<1>3. f \in Bijection(I, OpenOn({s}))
  <2>1. f \in [I -> OpenOn({s})]
    BY DEF OpenOn
  <2>2. \A i, j \in I : f[i] = f[j] => i = j
    OBVIOUS
  <2>3. \A p \in OpenOn({s}) : \E i \in I : f[i] = p
    <3> TAKE p \in OpenOn({s})
    <3>1. p \in OpenObservations /\ p[1] = s
      BY DEF OpenOn
    <3>2. p[2] \in DOMAIN rows[s] /\ p = <<s, p[2]>>
      BY <3>1, OpenRow
    <3>3. p[2] \in I /\ f[p[2]] = p
      BY <3>1, <3>2
    <3> QED BY <3>3
  <2> HIDE DEF f, I
  <2>4. f \in Injection(I, OpenOn({s})) /\ f \in Surjection(I, OpenOn({s}))
    BY <2>1, <2>2, <2>3, Fun_IsInj, Fun_IsSurj
  <2> QED BY <2>4 DEF Bijection
<1> HIDE DEF f, I
<1>4. Cardinality(OpenOn({s})) = Cardinality(I)
  <2>1. ExistsBijection(I, OpenOn({s}))
    BY <1>3 DEF ExistsBijection
  <2> QED BY <1>2, <2>1, FS_Bijection
<1> QED BY <1>1, <1>2, <1>4, FS_CardinalityType

\* The unreviewed rows of some screenshots are the open rows on them, each counted once.
LEMMA BacklogsAddUp ==
  ASSUME RowsTyped, NEW T \in SUBSET Screens
  PROVE  MapThenSumSet(LAMBDA s : Left[s], T) = Cardinality(OpenOn(T))
<1> DEFINE total == CHOOSE g : Sums(g, T)
           h == [s \in SUBSET T |-> Cardinality(OpenOn(s))]
<1>1. MapThenSumSet(LAMBDA s : Left[s], T) = total[T]
  BY DEF MapThenSumSet, MapThenFoldSet, Sums, Pick
<1>2. IsFiniteSet(T) /\ IsFiniteSet(OpenObservations)
  BY EvidenceAssumption, OpenFinite, FS_Subset
<1>3. \A s \in SUBSET T : IsFiniteSet(OpenOn(s)) /\ Cardinality(OpenOn(s)) \in Nat
  BY <1>2, FS_Subset, FS_CardinalityType DEF OpenOn
<1>4. Sums(h, T)
  <2>1. ASSUME NEW s \in SUBSET T
        PROVE  h[s] = IF s = {} THEN 0 ELSE Left[Pick(s)] + h[s \ {Pick(s)}]
    <3>1. CASE s = {}
      <4>1. OpenOn(s) = {}
        BY <3>1 DEF OpenOn
      <4> QED BY <3>1, <4>1, FS_EmptySet
    <3>2. CASE s # {}
      <4> DEFINE x == Pick(s)
      <4>1. x \in s
        BY <3>2 DEF Pick
      <4> HIDE DEF x
      <4>2. Cardinality(OpenOn(s)) = Cardinality(OpenOn({x})) + Cardinality(OpenOn(s \ {x}))
        <5>1. /\ OpenOn({x}) \in SUBSET OpenOn(s)
              /\ OpenOn(s \ {x}) \in SUBSET OpenOn(s)
              /\ OpenOn({x}) \cup OpenOn(s \ {x}) = OpenOn(s)
              /\ OpenOn({x}) \cap OpenOn(s \ {x}) = {}
          BY <4>1 DEF OpenOn
        <5>2. IsFiniteSet(OpenOn(s))
          BY <1>3
        <5> QED BY <5>1, <5>2, CardinalityOfParts
      <4>3. Left[x] = Cardinality(OpenOn({x}))
        BY <4>1, UnreviewedOn
      <4>4. h[s] = Left[x] + h[s \ {x}]
        BY <4>2, <4>3
      <4> QED BY <3>2, <4>4 DEF x
    <3> QED BY <3>1, <3>2
  <2>2. h = [s \in SUBSET T |-> h[s]]
    OBVIOUS
  <2> HIDE DEF h
  <2> QED BY <2>1, <2>2 DEF Sums
<1>5. Sums(total, T)
  <2> HIDE DEF h
  <2> QED BY <1>4
<1> DEFINE Good == {s \in SUBSET T : total[s] = h[s]}
<1> HIDE DEF total
<1>6. ASSUME NEW s \in SUBSET T, \A u \in SUBSET s : u # s => u \in Good PROVE s \in Good
  <2> HIDE DEF h
  <2>1. /\ total[s] = IF s = {} THEN 0 ELSE Left[Pick(s)] + total[s \ {Pick(s)}]
        /\ h[s] = IF s = {} THEN 0 ELSE Left[Pick(s)] + h[s \ {Pick(s)}]
    BY <1>4, <1>5 DEF Sums
  <2>2. s # {} => total[s \ {Pick(s)}] = h[s \ {Pick(s)}]
    BY <1>6 DEF Pick
  <2> QED BY <2>1, <2>2
<1> HIDE DEF Good
<1>7. SUBSET T \subseteq Good
  BY <1>2, <1>6, SubsetInduction
<1>8. total[T] = Cardinality(OpenOn(T))
  BY <1>7 DEF Good
<1> QED BY <1>1, <1>8

\* The screenshots with open rows, those with any rows, and what stands ahead of one of them.
Waiting == {s \in Screens : Left[s] > 0}
Filled == {s \in Screens : Backlog(s).total > 0}
AheadOf(s) == {t \in Filled : Left[t] > Left[s] \/ (Left[t] = Left[s] /\ t > s)}

LEMMA ListedOnes ==
  ASSUME RowsTyped
  PROVE  /\ Listed = {s \in Filled : Cardinality(AheadOf(s)) < BacklogLimit}
         /\ Waiting \subseteq Filled
         /\ \A s \in Screens : IsFiniteSet(AheadOf(s)) /\ Cardinality(AheadOf(s)) \in Nat
<1>1. Listed = {s \in Filled : Cardinality(AheadOf(s)) < BacklogLimit}
  BY DEF Listed, Filled, AheadOf
<1>2. ASSUME NEW s \in Waiting PROVE s \in Filled
  <2>1. s \in Screens /\ Left[s] > 0 /\ Left[s] = Cardinality(OpenOn({s}))
    BY <1>2, UnreviewedOn DEF Waiting
  <2>2. OpenOn({s}) # {}
    BY <2>1, FS_EmptySet
  <2>3. PICK p \in OpenObservations : p[1] = s
    BY <2>2 DEF OpenOn
  <2>4. p[2] \in DOMAIN rows[s]
    BY <2>3, OpenRow
  <2>5. Len(rows[s]) > 0
    BY <2>1, <2>4 DEF RowsTyped
  <2>6. Backlog(s).total = Len(rows[s])
    BY DEF Backlog
  <2> QED BY <2>1, <2>5, <2>6 DEF Filled
<1>3. ASSUME NEW s \in Screens PROVE IsFiniteSet(AheadOf(s)) /\ Cardinality(AheadOf(s)) \in Nat
  <2>1. AheadOf(s) \in SUBSET Screens
    BY DEF AheadOf, Filled
  <2> QED BY <2>1, EvidenceAssumption, FS_Subset, FS_CardinalityType
<1> QED BY <1>1, <1>2, <1>3

\* A screenshot that is left out has no more open rows than one that is listed.
LEMMA LeftOutHasLess ==
  ASSUME RowsTyped, NEW s \in Listed, NEW t \in Waiting \ Listed
  PROVE  Left[s] >= Left[t]
<1>1. /\ s \in Screens /\ Cardinality(AheadOf(s)) < BacklogLimit
      /\ t \in Screens /\ ~(Cardinality(AheadOf(t)) < BacklogLimit)
  BY ListedOnes DEF Filled
<1>2. /\ Cardinality(AheadOf(s)) \in Nat /\ Cardinality(AheadOf(t)) \in Nat
      /\ IsFiniteSet(AheadOf(s)) /\ BacklogLimit \in Nat
  BY <1>1, ListedOnes, BacklogAssumption
<1>3. \A u \in Screens : Left[u] \in Nat
  BY UnreviewedOn
<1> SUFFICES ASSUME Left[s] < Left[t] PROVE FALSE
  BY <1>1, <1>3
<1>4. AheadOf(t) \subseteq AheadOf(s)
  <2> SUFFICES ASSUME NEW u \in AheadOf(t) PROVE u \in AheadOf(s)
    OBVIOUS
  <2>1. u \in Filled /\ u \in Screens /\ Left[u] >= Left[t]
    BY <1>1, <1>3 DEF AheadOf, Filled
  <2>2. Left[u] > Left[s]
    BY <1>1, <1>3, <2>1
  <2> QED BY <2>1, <2>2 DEF AheadOf
<1>5. Cardinality(AheadOf(t)) <= Cardinality(AheadOf(s))
  BY <1>2, <1>4, FS_Subset
<1> QED BY <1>1, <1>2, <1>5

\* When no more screenshots wait than the page lists, it lists all that do.
LEMMA WaitingListed ==
  ASSUME RowsTyped, Cardinality(Waiting) <= BacklogLimit
  PROVE  Waiting \subseteq Listed
<1> SUFFICES ASSUME NEW t \in Waiting PROVE t \in Listed
  OBVIOUS
<1>1. IsFiniteSet(Waiting) /\ t \in Screens /\ Left[t] > 0
  BY EvidenceAssumption, FS_Subset DEF Waiting
<1>2. \A u \in Screens : Left[u] \in Nat
  BY UnreviewedOn
<1>3. AheadOf(t) \subseteq Waiting \ {t}
  <2> SUFFICES ASSUME NEW u \in AheadOf(t) PROVE u \in Waiting \ {t}
    OBVIOUS
  <2>1. u \in Screens /\ (Left[u] > Left[t] \/ (Left[u] = Left[t] /\ u > t))
    BY DEF AheadOf, Filled
  <2>2. u # t
    <3>1. t \in Int
      BY <1>1, EvidenceAssumption, FS_CardinalityType
    <3>2. Left[t] \in Nat
      BY <1>1, <1>2
    <3> QED BY <2>1, <3>1, <3>2
  <2>3. Left[u] > 0
    BY <1>1, <1>2, <2>1
  <2> QED BY <2>1, <2>2, <2>3 DEF Waiting
<1>4. Cardinality(Waiting \ {t}) = Cardinality(Waiting) - 1 /\ IsFiniteSet(Waiting \ {t})
  BY <1>1, FS_RemoveElement, FS_Subset
<1>5. Cardinality(AheadOf(t)) <= Cardinality(Waiting \ {t})
  BY <1>3, <1>4, FS_Subset
<1>6. Cardinality(AheadOf(t)) \in Nat /\ Cardinality(Waiting) \in Nat /\ BacklogLimit \in Nat
  BY <1>1, ListedOnes, FS_CardinalityType, BacklogAssumption
<1>7. Cardinality(AheadOf(t)) < BacklogLimit
  BY <1>4, <1>5, <1>6
<1> QED BY <1>7, ListedOnes

\* Between two open rows: the amount in doubt comes first, and so does what the page shows as
\* high-risk, unless it is mapped and stored with the lower risk.
LEMMA RiskierFirst ==
  ASSUME RowsTyped, NEW p \in OpenObservations, NEW q \in OpenObservations
  PROVE  /\ Projections(Row(p)).amount_uncertain /\ ~Projections(Row(q)).amount_uncertain =>
              Before(Order(p), Order(q))
         /\ Explained(p) >= HighRisk /\ ~(Explained(q) >= HighRisk) =>
              Before(Order(p), Order(q)) \/ (p \in mapped /\ RiskScore(p) < RiskScore(q))
<1> DEFINE a == Order(p)
           b == Order(q)
           r == RiskScore(p)
           t == RiskScore(q)
<1>1. /\ a \in [1 .. 7 -> Int] /\ b \in [1 .. 7 -> Int]
      /\ a[1] = 0 - r /\ a[2] = 0 - MatchRiskOf(p)
      /\ b[1] = 0 - t /\ b[2] = 0 - MatchRiskOf(q)
  BY OrderIsKey
<1>2. /\ r \in Risks /\ t \in Risks
      /\ r >= 95 <=> Projections(Row(p)).amount_uncertain
      /\ t >= 95 <=> Projections(Row(q)).amount_uncertain
      /\ p \notin mapped => r >= 75
  BY OpenRow
<1>3. /\ MatchRiskOf(p) \in {0, 50, 55, 60, 88} /\ MatchRiskOf(q) \in {0, 50, 55, 60, 88}
  BY MatchRiskTells
<1>4. /\ Explained(p) >= HighRisk <=> r >= 80 \/ MatchRiskOf(p) = 88
      /\ Explained(q) >= HighRisk <=> t >= 80 \/ MatchRiskOf(q) = 88
  BY <1>2, ExplainedHigh DEF HighRisk
<1> HIDE DEF a, b, r, t
<1>5. a[1] < b[1] => Before(a, b)
  <2>1. 1 \in DOMAIN a /\ \A j \in 1 .. 1 - 1 : a[j] = b[j]
    BY <1>1
  <2> QED BY <2>1 DEF Before
<1>6. a[1] = b[1] /\ a[2] < b[2] => Before(a, b)
  <2>1. 2 \in DOMAIN a /\ 2 - 1 = 1 /\ 1 .. 1 = {1}
    BY <1>1
  <2> QED BY <2>1 DEF Before
<1>7. ASSUME r >= 95, ~(t >= 95) PROVE a[1] < b[1]
  BY <1>1, <1>2, <1>7 DEF Risks
<1>8. ASSUME Explained(p) >= HighRisk, ~(Explained(q) >= HighRisk)
      PROVE  a[1] < b[1] \/ (a[1] = b[1] /\ a[2] < b[2]) \/ (p \in mapped /\ r < t)
  <2>1. t \in {0, 20, 30, 40, 45, 50, 70, 75} /\ MatchRiskOf(q) \in {0, 50, 55, 60}
    BY <1>2, <1>3, <1>4, <1>8 DEF Risks
  <2>2. CASE r >= 80
    BY <1>1, <1>2, <2>1, <2>2 DEF Risks
  <2>3. CASE MatchRiskOf(p) = 88
    BY <1>1, <1>2, <2>1, <2>3 DEF Risks
  <2> QED BY <1>4, <1>8, <2>2, <2>3
<1> QED BY <1>2, <1>5, <1>6, <1>7, <1>8 DEF a, b, r, t

\* Every open row is in one band: sure, uncertain or low.
LEMMA BandsAddUp ==
  ASSUME RowsTyped
  PROVE  ConfidenceBands.high + ConfidenceBands.medium + ConfidenceBands.low
            = Cardinality(OpenObservations)
<1> DEFINE S == OpenObservations
           sure == {p \in S : Row(p).score >= 270}
           uncertain == {p \in S : Row(p).score \in 211 .. 269}
           unsure == {p \in S : Row(p).score <= 210}
           rest == {p \in S : Row(p).score <= 269}
<1>1. ConfidenceBands.high = Cardinality(sure) /\ ConfidenceBands.medium = Cardinality(uncertain)
        /\ ConfidenceBands.low = Cardinality(unsure)
  BY DEF ConfidenceBands
<1>2. IsFiniteSet(S) /\ \A p \in S : Row(p).score \in Int
  BY OpenFinite, OpenRow DEF TypedRow
<1>3. sure \in SUBSET S /\ rest \in SUBSET S /\ sure \cup rest = S /\ sure \cap rest = {}
  BY <1>2
<1>4. /\ uncertain \in SUBSET rest /\ unsure \in SUBSET rest
      /\ uncertain \cup unsure = rest /\ uncertain \cap unsure = {}
  BY <1>2
<1> HIDE DEF S, sure, uncertain, unsure, rest
<1>5. IsFiniteSet(rest) /\ IsFiniteSet(sure)
  BY <1>2, <1>3, FS_Subset
<1>6. IsFiniteSet(uncertain) /\ IsFiniteSet(unsure)
  BY <1>4, <1>5, FS_Subset
<1>7. Cardinality(S) = Cardinality(sure) + Cardinality(rest)
  BY <1>2, <1>3, CardinalityOfParts
<1>8. Cardinality(rest) = Cardinality(uncertain) + Cardinality(unsure)
  BY <1>4, <1>5, CardinalityOfParts
<1>9. Cardinality(sure) \in Nat /\ Cardinality(uncertain) \in Nat /\ Cardinality(unsure) \in Nat
  BY <1>5, <1>6, FS_CardinalityType
<1> QED BY <1>1, <1>7, <1>8, <1>9 DEF S

LEMMA TypedQueueTells == ASSUME RowsTyped PROVE QueueTells
<1> DEFINE open == OpenObservations
           doubted == {p \in open : Projections(Row(p)).amount_uncertain}
           high == {p \in open : High(p)}
<1>1. ASSUME NEW j \in DOMAIN Queue, NEW k \in DOMAIN Queue
      PROVE  /\ Queue[k] \in doubted /\ Queue[j] \notin doubted => k < j
             /\ Queue[k] \in high /\ Queue[j] \notin high =>
                  k < j \/ (Queue[k] \in mapped /\ RiskScore(Queue[k]) < RiskScore(Queue[j]))
  <2>1. Queue[j] \in open /\ Queue[k] \in open
    BY QueueSorted
  <2>2. Before(Order(Queue[k]), Order(Queue[j])) => k < j
    BY QueueSorted
  <2>3. CASE Queue[k] \in doubted /\ Queue[j] \notin doubted
    <3>1. Before(Order(Queue[k]), Order(Queue[j]))
      BY <2>1, <2>3, RiskierFirst
    <3> QED BY <2>2, <3>1
  <2>4. ASSUME Queue[k] \in high, Queue[j] \notin high
        PROVE  k < j \/ (Queue[k] \in mapped /\ RiskScore(Queue[k]) < RiskScore(Queue[j]))
    <3>1. Explained(Queue[k]) >= HighRisk /\ ~(Explained(Queue[j]) >= HighRisk)
      BY <2>1, <2>4 DEF High
    <3> QED BY <2>1, <2>2, <3>1, RiskierFirst
  <2> QED BY <2>2, <2>3, <2>4
<1>2. QueueCounts["low_confidence"] = ConfidenceBands.low
  <2>1. "low_confidence" \in QueueFilters
    BY DEF QueueFilters
  <2>2. QueueCounts["low_confidence"] = Cardinality(Filtered("low_confidence"))
    BY <2>1 DEF QueueCounts
  <2>3. Filtered("low_confidence") = {p \in OpenObservations : Row(p).score <= 210}
    <3>1. "low_confidence" \notin ToSet(MatchDerived)
      BY DEF ToSet, MatchDerived
    <3> QED BY <3>1 DEF Filtered, Low
  <2> QED BY <2>2, <2>3 DEF ConfidenceBands
<1>3. ConfidenceBands.risky = Cardinality({p \in OpenObservations : RequiresConfirmation(p)})
  <2>1. \A p \in OpenObservations : RequiresConfirmation(p) <=> RiskScore(p) >= HighRisk
    <3> TAKE p \in OpenObservations
    <3>1. RiskScore(p) \in Nat
      BY OpenRow DEF Risks
    <3>2. RiskScore(p) >= 95 <=> Projections(Row(p)).amount_uncertain
      BY OpenRow
    <3> QED BY <3>1, <3>2 DEF RequiresConfirmation, HighRisk
  <2>2. {p \in OpenObservations : RequiresConfirmation(p)} = {p \in OpenObservations : RiskScore(p) >= HighRisk}
    BY <2>1
  <2> QED BY <2>2 DEF ConfidenceBands
<1>4. \A s \in Listed, t \in Waiting \ Listed : Left[s] >= Left[t]
  BY LeftOutHasLess
<1>5. ASSUME Cardinality(Waiting) <= BacklogLimit
      PROVE  MapThenSumSet(LAMBDA s : Left[s], Listed) = Cardinality(OpenObservations)
  <2>1. Waiting \subseteq Listed /\ Listed \in SUBSET Screens
    BY <1>5, WaitingListed, ListedOnes DEF Filled
  <2>2. OpenOn(Listed) = OpenObservations
    <3> SUFFICES ASSUME NEW p \in OpenObservations PROVE p[1] \in Listed
      BY DEF OpenOn
    <3> DEFINE s == p[1]
    <3>1. s \in Screens /\ p \in OpenOn({s})
      BY OpenRow DEF OpenOn
    <3> HIDE DEF s
    <3>2. IsFiniteSet(OpenOn({s})) /\ Left[s] = Cardinality(OpenOn({s})) /\ Left[s] \in Nat
      BY <3>1, OpenFinite, UnreviewedOn, FS_Subset DEF OpenOn
    <3>3. Left[s] # 0
      BY <3>1, <3>2, FS_EmptySet
    <3>4. s \in Waiting
      BY <3>1, <3>2, <3>3 DEF Waiting
    <3> QED BY <2>1, <3>4 DEF s
  <2> QED BY <2>1, <2>2, BacklogsAddUp
<1>6. Waiting = {s \in Screens : Left[s] > 0}
  BY DEF Waiting
<1> QED BY <1>1, <1>2, <1>3, <1>4, <1>5, <1>6, BandsAddUp DEF QueueTells

-----------------------------------------------------------------------------
(* The candidates that one run of the command keeps *)

LEMMA PointsAreNumbers == ASSUME NEW holds, NEW n \in Int PROVE Scoring!Points(holds, n) \in {0, n}
BY DEF Scoring!Points

\* The score of two rows is a number, and it reaches that of an automatic merge only when
\* they have a code in common, or an owner, an amount and a day or a balance.
LEMMA ScoreOfPair ==
  ASSUME NEW l, NEW r
  PROVE  /\ Scoring!ScorePair(l, r) \in Int
         /\ Scoring!ScorePair(l, r) >= 90 =>
              \/ Scoring!Same(l.code, r.code)
              \/ /\ Scoring!Same(Scoring!Owner(l), Scoring!Owner(r))
                 /\ Scoring!SameAmount(l, r)
                 /\ Scoring!Within(l.day, r.day, Scoring!Days) \/ Scoring!Same(l.balance, r.balance)
<1> DEFINE a == Scoring!Points(Scoring!SameAmount(l, r), 30)
           b == Scoring!Points(Scoring!Same(Scoring!Owner(l), Scoring!Owner(r)), 25)
           c == Scoring!Points(Scoring!Within(l.day, r.day, Scoring!Days), 15)
           d == Scoring!Points(l.way = r.way /\ l.way # "unknown", 10)
           e == Scoring!Points(Scoring!Similar(l, r), 10)
           f == Scoring!Points(Scoring!Same(l.code, r.code), 30)
           g == Scoring!Points(Scoring!Same(l.balance, r.balance), 15)
           h == Scoring!Points(Scoring!Same(l.source, r.source), 5)
<1>1. Scoring!RawScore(l, r) = a + b + c + d + e + f + g + h
  BY DEF Scoring!RawScore
<1>2. /\ a \in {0, 30} /\ b \in {0, 25} /\ c \in {0, 15} /\ d \in {0, 10}
      /\ e \in {0, 10} /\ f \in {0, 30} /\ g \in {0, 15} /\ h \in {0, 5}
  BY PointsAreNumbers
<1>3. ~Scoring!Same(l.code, r.code) => f = 0
  BY DEF Scoring!Points
<1>4. /\ ~Scoring!Same(Scoring!Owner(l), Scoring!Owner(r)) => b = 0
      /\ ~Scoring!SameAmount(l, r) => a = 0
      /\ ~Scoring!Within(l.day, r.day, Scoring!Days) => c = 0
      /\ ~Scoring!Same(l.balance, r.balance) => g = 0
  BY DEF Scoring!Points
<1> HIDE DEF a, b, c, d, e, f, g, h
<1> DEFINE raw == Scoring!RawScore(l, r)
<1>5. raw \in 0 .. 140
  BY <1>1, <1>2
<1>6. f = 0 /\ (b = 0 \/ a = 0 \/ (c = 0 /\ g = 0)) => raw < 90
  BY <1>1, <1>2
<1> HIDE DEF raw
<1>7. Scoring!ScorePair(l, r) = 0 \/ Scoring!ScorePair(l, r) = IF raw > 100 THEN 100 ELSE raw
  BY DEF Scoring!ScorePair, Scoring!AtMost100, raw
<1> QED BY <1>3, <1>4, <1>5, <1>6, <1>7

Pairs(facts) ==
  {c \in (DOMAIN facts) \X (DOMAIN facts) :
     c[1] < c[2] /\ Scoring!IsCandidate(facts[c[1]], facts[c[2]])}

RanksOf(facts, S) == {c \in S \X S : Scoring!Ranks(facts, c[1], c[2])}

\* Pairs are strictly and totally ordered: keyed ones first, then by score, then by place.
LEMMA RanksOrders ==
  ASSUME NEW n \in Nat, NEW facts, DOMAIN facts = 1 .. n, NEW S, S = Pairs(facts),
         NEW R, R = RanksOf(facts, S)
  PROVE  Orders(R, S)
<1> DEFINE key(c) == Scoring!Keyed(facts[c[1]], facts[c[2]])
           score(c) == Scoring!ScorePair(facts[c[1]], facts[c[2]])
           earlier(p, q) == p[1] < q[1] \/ (p[1] = q[1] /\ p[2] < q[2])
<1>1. \A p, q \in S : <<p, q>> \in R <=>
         IF key(p) # key(q) THEN key(p)
         ELSE score(p) > score(q) \/ (score(p) = score(q) /\ earlier(p, q))
  BY DEF RanksOf, Scoring!Ranks
<1>2. \A p \in S : score(p) \in Int /\ key(p) \in BOOLEAN
  BY ScoreOfPair DEF Scoring!Keyed
<1>3. \A p \in S : p[1] \in Int /\ p[2] \in Int /\ p = <<p[1], p[2]>>
  BY DEF Pairs
<1> HIDE DEF key, score
<1>4. \A x \in S : <<x, x>> \notin R
  BY <1>1, <1>2, <1>3
<1>5. \A x, y \in S : x # y => <<x, y>> \in R \/ <<y, x>> \in R
  <2> TAKE x, y \in S
  <2> HAVE x # y
  <2>1. earlier(x, y) \/ earlier(y, x)
    BY <1>3
  <2> HIDE DEF earlier
  <2> QED BY <1>1, <1>2, <2>1
<1>6. \A x, y, z \in S : <<x, y>> \in R /\ <<y, z>> \in R => <<x, z>> \in R
  <2> TAKE x, y, z \in S
  <2> HAVE <<x, y>> \in R /\ <<y, z>> \in R
  <2>1. earlier(x, y) /\ earlier(y, z) => earlier(x, z)
    BY <1>3
  <2> HIDE DEF earlier
  <2> QED BY <1>1, <1>2, <2>1
<1> QED BY <1>4, <1>5, <1>6 DEF Orders

\* The chosen pairs that the row at place i takes part in.
TakingPart(chosen, i) == {d \in chosen : i \in {d[1], d[2]}}

Chooses(f, best, n) ==
  f = [k \in 0 .. n |-> IF k = 0 THEN {} ELSE Scoring!Admit(f[k - 1], best[k])]

LEMMA ChoiceExists == ASSUME NEW n \in Nat, NEW best PROVE \E f : Chooses(f, best, n)
<1> DEFINE Bad == {m \in 0 .. n : ~\E f : Chooses(f, best, m)}
<1>1. SUFFICES ASSUME Bad # {} PROVE FALSE
  OBVIOUS
<1>2. PICK m \in Bad : \A k \in Bad : m <= k
  <2>1. Bad \in SUBSET Nat
    OBVIOUS
  <2> HIDE DEF Bad
  <2> QED BY <1>1, <2>1, LeastOf
<1>3. m \in 0 .. n /\ ~\E f : Chooses(f, best, m)
  BY <1>2
<1>4. CASE m = 0
  <2>1. Chooses([k \in 0 .. 0 |-> {}], best, 0)
    BY DEF Chooses
  <2> QED BY <1>3, <1>4, <2>1
<1>5. CASE m # 0
  <2>1. m - 1 \in 0 .. n /\ m - 1 \notin Bad
    BY <1>2, <1>3, <1>5
  <2>2. PICK f : Chooses(f, best, m - 1)
    BY <2>1
  <2> DEFINE g == [k \in 0 .. m |-> IF k = m THEN Scoring!Admit(f[m - 1], best[m]) ELSE f[k]]
  <2>3. \A k \in 0 .. m : g[k] = IF k = 0 THEN {} ELSE Scoring!Admit(g[k - 1], best[k])
    <3> TAKE k \in 0 .. m
    <3>1. CASE k = m
      BY <1>3, <1>5, <3>1
    <3>2. CASE k # m
      <4>1. k \in 0 .. m - 1 /\ (k # 0 => k - 1 \in 0 .. m - 1) /\ g[k] = f[k]
        BY <1>3, <3>2
      <4>2. f[k] = IF k = 0 THEN {} ELSE Scoring!Admit(f[k - 1], best[k])
        BY <2>2, <4>1 DEF Chooses
      <4>3. k # 0 => g[k - 1] = f[k - 1]
        BY <1>3, <4>1
      <4> QED BY <4>1, <4>2, <4>3
    <3> QED BY <3>1, <3>2
  <2>4. g = [k \in 0 .. m |-> g[k]]
    OBVIOUS
  <2>5. Chooses(g, best, m)
    <3> HIDE DEF g
    <3> QED BY <2>3, <2>4 DEF Chooses
  <2> QED BY <1>3, <2>5
<1> QED BY <1>4, <1>5

\* One step of the choice adds its pair, unless one of the pair's rows has enough of them.
LEMMA AdmitTakes ==
  ASSUME NEW chosen, NEW c
  PROVE  /\ chosen \subseteq Scoring!Admit(chosen, c)
         /\ Scoring!Admit(chosen, c) \subseteq chosen \cup {c}
         /\ \/ c \in Scoring!Admit(chosen, c)
            \/ Cardinality(TakingPart(chosen, c[1])) >= Cap
            \/ Cardinality(TakingPart(chosen, c[2])) >= Cap
<1>1. \A i : Scoring!Cardinality(TakingPart(chosen, i)) = Cardinality(TakingPart(chosen, i))
  BY SameCardinality
<1>2. Scoring!Admit(chosen, c) =
        IF \/ Scoring!Cardinality(TakingPart(chosen, c[1])) >= Cap
           \/ Scoring!Cardinality(TakingPart(chosen, c[2])) >= Cap
        THEN chosen ELSE chosen \cup {c}
  BY DEF Scoring!Admit, TakingPart
<1> QED BY <1>1, <1>2

\* Every pair kept is one that scores high enough, and a pair that does is kept unless one
\* of its rows takes part in as many as it may.
LEMMA CandidatesKept ==
  ASSUME NEW n \in Nat, NEW facts, DOMAIN facts = 1 .. n,
         NEW found, found = Scoring!FindDuplicateCandidates(facts)
  PROVE  /\ found \subseteq Pairs(facts) /\ IsFiniteSet(found)
         /\ \A c \in Pairs(facts) : \/ c \in found
                                    \/ Cardinality(TakingPart(found, c[1])) >= Cap
                                    \/ Cardinality(TakingPart(found, c[2])) >= Cap
<1> DEFINE S == Pairs(facts)
           R == RanksOf(facts, S)
           m == Cardinality(S)
           best == Scoring!Ranked(S, LAMBDA p, q : Scoring!Ranks(facts, p, q))
<1>1. IsFiniteSet(S)
  <2>1. IsFiniteSet((1 .. n) \X (1 .. n))
    <3> DEFINE I == 1 .. n
    <3>1. IsFiniteSet(I)
      BY FS_Interval
    <3> HIDE DEF I
    <3>2. IsFiniteSet(I \X I)
      BY <3>1, FS_Product
    <3> QED BY <3>2 DEF I
  <2>2. S \in SUBSET ((1 .. n) \X (1 .. n))
    BY DEF Pairs
  <2> HIDE DEF S
  <2> QED BY <2>1, <2>2, FS_Subset
<1>2. m \in Nat
  BY <1>1, FS_CardinalityType
<1>3. Orders(R, S)
  BY RanksOrders
<1>4. best = [k \in 1 .. Scoring!Cardinality(S) |->
                CHOOSE p \in S : Scoring!Cardinality({q \in S : Scoring!Ranks(facts, q, p)}) = k - 1]
  BY DEF Scoring!Ranked
<1>5. \A p \in S : Ahead(S, R, p) = {q \in S : Scoring!Ranks(facts, q, p)}
  BY DEF Ahead, RanksOf
<1>6. Scoring!FindDuplicateCandidates(facts) = (CHOOSE f : Chooses(f, best, Scoring!Cardinality(S)))[Scoring!Cardinality(S)]
  BY DEF Scoring!FindDuplicateCandidates, Chooses, Pairs
<1> DEFINE chosen == CHOOSE f : Chooses(f, best, m)
<1> HIDE DEF S, R, best, m
<1>7. found = chosen[m] /\ Chooses(chosen, best, m)
  <2>1. Scoring!Cardinality(S) = m
    BY SameCardinality DEF m
  <2>2. \E f : Chooses(f, best, m)
    BY <1>2, ChoiceExists
  <2> QED BY <1>6, <2>1, <2>2
<1> HIDE DEF chosen
<1>8. DOMAIN best = 1 .. m
  BY <1>4, SameCardinality DEF m
<1>9. ASSUME NEW k \in 1 .. m, \E p \in S : Cardinality(Ahead(S, R, p)) = k - 1
      PROVE  best[k] \in S /\ Cardinality(Ahead(S, R, best[k])) = k - 1
  <2>1. \E p \in S : Scoring!Cardinality({q \in S : Scoring!Ranks(facts, q, p)}) = k - 1
    BY <1>5, <1>9, SameCardinality
  <2>2. k \in 1 .. Scoring!Cardinality(S)
    BY SameCardinality DEF m
  <2>3. /\ best[k] \in S
        /\ Scoring!Cardinality({q \in S : Scoring!Ranks(facts, q, best[k])}) = k - 1
    BY <1>4, <2>1, <2>2
  <2> QED BY <1>5, <2>3, SameCardinality
<1>10. /\ \A k \in DOMAIN best : best[k] \in S
       /\ \A x \in S : \E k \in DOMAIN best : best[k] = x
  <2>1. ByRank(best, S, R)
    BY <1>8, <1>9 DEF ByRank, m
  <2> QED BY <1>1, <1>3, <2>1, PlacedByRank
<1>11. /\ chosen[0] = {}
       /\ \A k \in 1 .. m : chosen[k] = Scoring!Admit(chosen[k - 1], best[k])
  <2>1. \A k \in 0 .. m : chosen[k] = IF k = 0 THEN {} ELSE Scoring!Admit(chosen[k - 1], best[k])
    BY <1>7 DEF Chooses
  <2>2. 0 \in 0 .. m /\ \A k \in 1 .. m : k \in 0 .. m /\ k # 0
    BY <1>2
  <2> QED BY <2>1, <2>2
<1> DEFINE Good(k) ==
      /\ chosen[k] \subseteq S
      /\ \A j \in 1 .. k : \/ best[j] \in chosen[k]
                           \/ Cardinality(TakingPart(chosen[k], best[j][1])) >= Cap
                           \/ Cardinality(TakingPart(chosen[k], best[j][2])) >= Cap
<1>12. Good(0)
  BY <1>11
<1>13. ASSUME NEW k \in 1 .. m, Good(k - 1) PROVE Good(k)
  <2> DEFINE before == chosen[k - 1]
             after == chosen[k]
  <2>1. /\ before \subseteq after /\ after \subseteq before \cup {best[k]}
        /\ \/ best[k] \in after
           \/ Cardinality(TakingPart(before, best[k][1])) >= Cap
           \/ Cardinality(TakingPart(before, best[k][2])) >= Cap
    BY <1>11, AdmitTakes
  <2>2. before \subseteq S /\ after \subseteq S
    BY <1>8, <1>10, <1>13, <2>1
  <2> HIDE DEF before, after
  <2>3. \A i : Cardinality(TakingPart(before, i)) >= Cap => Cardinality(TakingPart(after, i)) >= Cap
    <3> TAKE i
    <3> DEFINE a == TakingPart(before, i)
               b == TakingPart(after, i)
    <3>1. a \in SUBSET b /\ b \in SUBSET S
      BY <2>1, <2>2 DEF TakingPart
    <3> HIDE DEF a, b
    <3>2. IsFiniteSet(b) /\ IsFiniteSet(a)
      BY <1>1, <3>1, FS_Subset
    <3>3. Cardinality(a) <= Cardinality(b) /\ Cardinality(a) \in Nat /\ Cardinality(b) \in Nat
      BY <3>1, <3>2, FS_Subset, FS_CardinalityType
    <3>4. Cardinality(a) >= Cap => Cardinality(b) >= Cap
      BY <3>3, EvidenceAssumption
    <3> QED BY <3>4 DEF a, b
  <2>4. ASSUME NEW j \in 1 .. k
        PROVE  \/ best[j] \in after
               \/ Cardinality(TakingPart(after, best[j][1])) >= Cap
               \/ Cardinality(TakingPart(after, best[j][2])) >= Cap
    <3>1. CASE j = k
      BY <2>1, <2>3, <3>1
    <3>2. CASE j # k
      <4>1. j \in 1 .. k - 1
        BY <3>2
      <4>2. \/ best[j] \in before
            \/ Cardinality(TakingPart(before, best[j][1])) >= Cap
            \/ Cardinality(TakingPart(before, best[j][2])) >= Cap
        BY <1>13, <4>1 DEF before
      <4> QED BY <2>1, <2>3, <4>2
    <3> QED BY <3>1, <3>2
  <2> QED BY <2>2, <2>4 DEF after
<1> HIDE DEF Good
<1>14. \A k \in 0 .. m : Good(k)
  <2> DEFINE Bad == {k \in 0 .. m : ~Good(k)}
  <2>1. SUFFICES ASSUME Bad # {} PROVE FALSE
    OBVIOUS
  <2>2. PICK k \in Bad : \A j \in Bad : k <= j
    <3>1. Bad \in SUBSET Nat
      OBVIOUS
    <3> HIDE DEF Bad
    <3> QED BY <2>1, <3>1, LeastOf
  <2>3. k \in 0 .. m /\ ~Good(k)
    BY <2>2
  <2>4. k # 0 /\ k - 1 \in 0 .. m
    BY <1>2, <1>12, <2>3
  <2>5. k - 1 \notin Bad
    BY <2>2, <2>3
  <2>6. Good(k - 1) /\ k \in 1 .. m
    BY <2>3, <2>4, <2>5
  <2> QED BY <1>13, <2>3, <2>6
<1>15. Good(m)
  BY <1>2, <1>14
<1>16. found \subseteq S /\ IsFiniteSet(found)
  BY <1>1, <1>7, <1>15, FS_Subset DEF Good
<1>17. \A c \in S : \/ c \in found
                    \/ Cardinality(TakingPart(found, c[1])) >= Cap
                    \/ Cardinality(TakingPart(found, c[2])) >= Cap
  <2> TAKE c \in S
  <2>1. PICK k \in 1 .. m : best[k] = c
    BY <1>8, <1>10
  <2> QED BY <1>7, <1>15, <2>1 DEF Good
<1> QED BY <1>16, <1>17 DEF S

-----------------------------------------------------------------------------
(* What the command stores of them *)

LEMMA EarlierOrders ==
  ASSUME RowsTyped, NEW D \in SUBSET Places, NEW R, R = {c \in D \X D : Earlier(c[1], c[2])}
  PROVE  Orders(R, D)
<1>1. \A p \in D : p[1] \in Int /\ p[2] \in Int /\ p = <<p[1], p[2]>>
  BY PlaceOfRow
<1>2. \A p, q \in D : <<p, q>> \in R <=> p[1] < q[1] \/ (p[1] = q[1] /\ p[2] < q[2])
  BY DEF Earlier
<1>3. \A p \in D : <<p, p>> \notin R
  BY <1>1, <1>2
<1>4. \A p, q \in D : p # q => <<p, q>> \in R \/ <<q, p>> \in R
  BY <1>1, <1>2
<1>5. \A p, q, r \in D : <<p, q>> \in R /\ <<q, r>> \in R => <<p, r>> \in R
  BY <1>1, <1>2
<1> QED BY <1>3, <1>4, <1>5 DEF Orders

\* The rows in the order of their import: each has its place.
LEMMA InOrder ==
  ASSUME RowsTyped, NEW D \in SUBSET Places, NEW places, places = Scoring!Ranked(D, Earlier)
  PROVE  /\ IsFiniteSet(D) /\ Cardinality(D) \in Nat /\ DOMAIN places = 1 .. Cardinality(D)
         /\ \A k \in DOMAIN places : places[k] \in D
         /\ \A j, k \in DOMAIN places : Earlier(places[j], places[k]) <=> j < k
         /\ \A p \in D : \E k \in DOMAIN places : places[k] = p
<1> DEFINE R == {c \in D \X D : Earlier(c[1], c[2])}
           n == Cardinality(D)
<1>1. IsFiniteSet(D) /\ n \in Nat
  BY PlacesFinite, FS_Subset, FS_CardinalityType
<1>2. Orders(R, D)
  BY EarlierOrders
<1>3. \A p \in D : Ahead(D, R, p) = {q \in D : Earlier(q, p)}
  BY DEF Ahead
<1>4. places = [k \in 1 .. Scoring!Cardinality(D) |->
                  CHOOSE p \in D : Scoring!Cardinality({q \in D : Earlier(q, p)}) = k - 1]
  BY DEF Scoring!Ranked
<1>5. \A p, q \in D : <<p, q>> \in R <=> Earlier(p, q)
  OBVIOUS
<1> HIDE DEF R, n
<1>6. DOMAIN places = 1 .. n
  BY <1>4, SameCardinality DEF n
<1>7. ASSUME NEW k \in 1 .. n, \E p \in D : Cardinality(Ahead(D, R, p)) = k - 1
      PROVE  places[k] \in D /\ Cardinality(Ahead(D, R, places[k])) = k - 1
  <2>1. \E p \in D : Scoring!Cardinality({q \in D : Earlier(q, p)}) = k - 1
    BY <1>3, <1>7, SameCardinality
  <2>2. k \in 1 .. Scoring!Cardinality(D)
    BY SameCardinality DEF n
  <2>3. /\ places[k] \in D
        /\ Scoring!Cardinality({q \in D : Earlier(q, places[k])}) = k - 1
    BY <1>4, <2>1, <2>2
  <2> QED BY <1>3, <2>3, SameCardinality
<1>8. ByRank(places, D, R)
  BY <1>6, <1>7 DEF ByRank, n
<1>9. /\ \A k \in DOMAIN places : places[k] \in D
      /\ \A j, k \in DOMAIN places : <<places[j], places[k]>> \in R <=> j < k
      /\ \A p \in D : \E k \in DOMAIN places : places[k] = p
  BY <1>1, <1>2, <1>8, PlacedByRank
<1> QED BY <1>1, <1>5, <1>6, <1>9 DEF n

ScoreOf(p, q) == Scoring!ScorePair(FactsFrom(p), FactsFrom(q))
CandidatesIn(stored, p) == {m \in stored : m.type = "duplicate" /\ p \in m.pair}

\* The candidates join rows the command looks at, with their score, and every pair that
\* scores high enough is among them unless one of its rows has as many as it may have.
LEMMA DuplicatesFound ==
  ASSUME RowsTyped, NEW D \in SUBSET Places
  PROVE  /\ IsFiniteSet(Duplicates(D))
         /\ \A m \in Duplicates(D) :
              \E p, q \in D : p # q /\ m = Join("duplicate", p, q, ScoreOf(p, q))
         /\ \A p, q \in D :
              Earlier(p, q) /\ Scoring!IsCandidate(FactsFrom(p), FactsFrom(q)) =>
                \/ \E m \in Duplicates(D) : m.type = "duplicate" /\ m.pair = {p, q}
                \/ Cardinality(CandidatesIn(Duplicates(D), p)) >= Cap
                \/ Cardinality(CandidatesIn(Duplicates(D), q)) >= Cap
<1> DEFINE places == Scoring!Ranked(D, Earlier)
           n == Cardinality(D)
           facts == [i \in DOMAIN places |-> FactsFrom(places[i])]
           found == Scoring!FindDuplicateCandidates(facts)
           joined(c) == Join("duplicate", places[c[1]], places[c[2]],
                             Scoring!ScorePair(facts[c[1]], facts[c[2]]))
<1>1. Duplicates(D) = {joined(c) : c \in found}
  BY DEF Duplicates
<1>2. /\ n \in Nat /\ DOMAIN places = 1 .. n
      /\ \A k \in 1 .. n : places[k] \in D
      /\ \A j, k \in 1 .. n : Earlier(places[j], places[k]) <=> j < k
      /\ \A p \in D : \E k \in 1 .. n : places[k] = p
  <2>1. places = Scoring!Ranked(D, Earlier)
    OBVIOUS
  <2> HIDE DEF places
  <2>2. /\ n \in Nat /\ DOMAIN places = 1 .. n
        /\ \A k \in DOMAIN places : places[k] \in D
        /\ \A j, k \in DOMAIN places : Earlier(places[j], places[k]) <=> j < k
        /\ \A p \in D : \E k \in DOMAIN places : places[k] = p
    BY <2>1, InOrder
  <2> QED BY <2>2
<1> HIDE DEF places, n
<1>3. DOMAIN facts = 1 .. n /\ \A k \in 1 .. n : facts[k] = FactsFrom(places[k])
  BY <1>2
<1> HIDE DEF facts
<1>4. /\ found \subseteq Pairs(facts) /\ IsFiniteSet(found)
      /\ \A c \in Pairs(facts) : \/ c \in found
                                 \/ Cardinality(TakingPart(found, c[1])) >= Cap
                                 \/ Cardinality(TakingPart(found, c[2])) >= Cap
  BY <1>2, <1>3, CandidatesKept
<1> HIDE DEF found
<1>5. \A i, j \in 1 .. n : places[i] = places[j] => i = j
  <2> TAKE i, j \in 1 .. n
  <2> HAVE places[i] = places[j]
  <2>1. ~(i < i)
    OBVIOUS
  <2>2. ~Earlier(places[i], places[i])
    BY <1>2, <2>1
  <2> QED BY <1>2, <2>2
<1>6. \A c \in found : /\ c[1] \in 1 .. n /\ c[2] \in 1 .. n /\ c[1] < c[2] /\ c = <<c[1], c[2]>>
                       /\ joined(c) = Join("duplicate", places[c[1]], places[c[2]],
                                           ScoreOf(places[c[1]], places[c[2]]))
  BY <1>3, <1>4 DEF Pairs, ScoreOf
<1>7. IsFiniteSet(Duplicates(D))
  <2> HIDE DEF joined
  <2> DEFINE f == [c \in found |-> joined(c)]
  <2>1. f \in Surjection(found, Duplicates(D))
    BY <1>1 DEF Surjection
  <2> HIDE DEF f
  <2> QED BY <1>4, <2>1, FS_Surjection
<1>8. ASSUME NEW m \in Duplicates(D)
      PROVE  \E p, q \in D : p # q /\ m = Join("duplicate", p, q, ScoreOf(p, q))
  <2>1. PICK c \in found : m = joined(c)
    BY <1>1
  <2>2. places[c[1]] \in D /\ places[c[2]] \in D /\ places[c[1]] # places[c[2]]
    BY <1>2, <1>5, <1>6
  <2> QED BY <1>6, <2>1, <2>2
<1>9. ASSUME NEW i \in 1 .. n, Cardinality(TakingPart(found, i)) >= Cap
      PROVE  Cardinality(CandidatesIn(Duplicates(D), places[i])) >= Cap
  <2> DEFINE A == TakingPart(found, i)
             B == CandidatesIn(Duplicates(D), places[i])
             f == [c \in A |-> joined(c)]
  <2>1. \A c \in A : c \in found /\ i \in {c[1], c[2]}
    BY DEF TakingPart
  <2>2. \A c \in A : joined(c) \in B
    <3> TAKE c \in A
    <3>1. joined(c) \in Duplicates(D)
      BY <1>1, <2>1
    <3>2. joined(c).type = "duplicate" /\ places[i] \in joined(c).pair
      BY <2>1 DEF Join
    <3> HIDE DEF joined
    <3> QED BY <3>1, <3>2 DEF CandidatesIn
  <2>3. \A c, d \in A : joined(c) = joined(d) => c = d
    <3> TAKE c, d \in A
    <3> HAVE joined(c) = joined(d)
    <3>1. joined(c).pair = {places[c[1]], places[c[2]]} /\ joined(d).pair = {places[d[1]], places[d[2]]}
      BY DEF Join
    <3>2. {places[c[1]], places[c[2]]} = {places[d[1]], places[d[2]]}
      BY <3>1
    <3>3. /\ c[1] \in 1 .. n /\ c[2] \in 1 .. n /\ c[1] < c[2] /\ c = <<c[1], c[2]>>
          /\ d[1] \in 1 .. n /\ d[2] \in 1 .. n /\ d[1] < d[2] /\ d = <<d[1], d[2]>>
      BY <1>6, <2>1
    <3>4. \/ places[c[1]] = places[d[1]] /\ places[c[2]] = places[d[2]]
          \/ places[c[1]] = places[d[2]] /\ places[c[2]] = places[d[1]]
      BY <3>2
    <3>5. (c[1] = d[1] /\ c[2] = d[2]) \/ (c[1] = d[2] /\ c[2] = d[1])
      BY <1>5, <3>3, <3>4
    <3> QED BY <3>3, <3>5
  <2> HIDE DEF A, B, joined
  <2>4. f \in [A -> B] /\ \A c, d \in A : f[c] = f[d] => c = d
    BY <2>2, <2>3
  <2> HIDE DEF f
  <2>5. f \in Injection(A, B)
    BY <2>4, Fun_IsInj
  <2>6. IsFiniteSet(B)
    <3>1. B \in SUBSET Duplicates(D)
      BY DEF B, CandidatesIn
    <3> QED BY <1>7, <3>1, FS_Subset
  <2>7. IsFiniteSet(A) /\ Cardinality(A) <= Cardinality(B)
    BY <2>5, <2>6, FS_Injection
  <2>8. Cardinality(A) \in Nat /\ Cardinality(B) \in Nat
    BY <2>6, <2>7, FS_CardinalityType
  <2>9. Cardinality(A) >= Cap
    BY <1>9 DEF A
  <2>10. Cardinality(B) >= Cap
    BY <2>7, <2>8, <2>9, EvidenceAssumption
  <2> QED BY <2>10 DEF B
<1>10. ASSUME NEW p \in D, NEW q \in D, Earlier(p, q), Scoring!IsCandidate(FactsFrom(p), FactsFrom(q))
       PROVE  \/ \E m \in Duplicates(D) : m.type = "duplicate" /\ m.pair = {p, q}
              \/ Cardinality(CandidatesIn(Duplicates(D), p)) >= Cap
              \/ Cardinality(CandidatesIn(Duplicates(D), q)) >= Cap
  <2>1. PICK i \in 1 .. n : places[i] = p
    BY <1>2
  <2>2. PICK j \in 1 .. n : places[j] = q
    BY <1>2
  <2>3. i < j
    BY <1>2, <1>10, <2>1, <2>2
  <2> DEFINE c == <<i, j>>
  <2>4. c \in Pairs(facts) /\ c[1] = i /\ c[2] = j
    BY <1>3, <1>10, <2>1, <2>2, <2>3 DEF Pairs
  <2>5. CASE c \in found
    <3>1. joined(c) \in Duplicates(D)
      <4> HIDE DEF joined
      <4> QED BY <1>1, <2>5
    <3>2. joined(c).type = "duplicate" /\ joined(c).pair = {p, q}
      BY <2>1, <2>2 DEF Join
    <3> HIDE DEF joined, c
    <3> QED BY <3>1, <3>2
  <2>6. CASE c \notin found
    <3> HIDE DEF joined
    <3>1. Cardinality(TakingPart(found, i)) >= Cap \/ Cardinality(TakingPart(found, j)) >= Cap
      <4> HIDE DEF c
      <4> QED BY <1>4, <2>4, <2>6
    <3> QED BY <1>9, <2>1, <2>2, <3>1
  <2> QED BY <2>5, <2>6
<1> QED BY <1>7, <1>8, <1>10

-----------------------------------------------------------------------------
(* What holds in every state *)

\* The rows of a screenshot are those of one reading of it.
RowsFromReadings ==
  /\ shows \in Worlds
  /\ DOMAIN fault = Screens /\ DOMAIN rows = Screens
  /\ read \subseteq Screens
  /\ \A s \in Screens \ read : rows[s] = <<>>
  /\ \A s \in read : /\ fault[s] \in Faults(Printed(shows[s]))
                     /\ rows[s] \in Readings(shows[s], fault[s])

\* Rows whose own text makes them a candidate, or a refund and its purchase, whatever they are mapped to.
LookAlike(p, q) ==
  /\ Scoring!SameAmount(Row(p), Row(q)) /\ Scoring!Similar(Row(p), Row(q))
  /\ Row(p).day # None /\ Row(p).day = Row(q).day
  /\ Row(p).way # "unknown" /\ Row(p).way = Row(q).way
ComesBack(p, q) ==
  /\ Scoring!SameAmount(Row(p), Row(q)) /\ Scoring!Similar(Row(p), Row(q))
  /\ Row(p).way = "credit" /\ Row(q).way = "debit"
  /\ Scoring!Known(Row(p).day, Row(q).day)
  /\ Row(q).day <= Row(p).day /\ Row(p).day - Row(q).day <= Scoring!RefundWindow

\* Two stored rows score as a merge only for a code they share or one account they are on.
SharedCode(p, q) == Row(p).code # None /\ Row(p).code = Row(q).code
MergesExplained ==
  \A m \in matches :
    /\ \E p, q \in Places : m.pair = {p, q}
    /\ m.type = "duplicate" /\ m.score >= 90 =>
         \A p, q \in m.pair : p # q => SharedCode(p, q) \/ OnOneAccount(p, q)

Joined(p, q) ==
  \/ \E m \in matches : m.type = "duplicate" /\ m.pair = {p, q}
  \/ Cardinality(CandidatesOf(p)) >= Cap
  \/ Cardinality(CandidatesOf(q)) >= Cap
Returned(p, q) == \E m \in matches : m.type = "refund" /\ m.pair = {p, q} /\ m.score >= 85

\* Once the command has seen all screenshots, what it has to find is stored.
AllFound ==
  seen.complete =>
    \A p, q \in Dated(Today) :
      /\ Earlier(p, q) /\ LookAlike(p, q) => Joined(p, q)
      /\ p \notin seen.decided /\ ComesBack(p, q) => Returned(p, q)

EvidenceInv ==
  /\ RowsFromReadings
  /\ IsFiniteSet(matches) /\ (seen.complete => read = Screens)
  /\ MergesExplained
  /\ AllFound

LEMMA Typed == ASSUME RowsFromReadings PROVE RowsTyped
<1> SUFFICES ASSUME NEW s \in Screens
             PROVE  /\ Len(rows[s]) \in Nat
                    /\ DOMAIN rows[s] = 1 .. Len(rows[s])
                    /\ \A i \in DOMAIN rows[s] : TypedRow(rows[s][i])
  BY DEF RowsTyped
<1>1. CASE s \notin read
  <2>1. rows[s] = <<>>
    BY <1>1 DEF RowsFromReadings
  <2> QED BY <2>1
<1>2. CASE s \in read
  BY <1>2, ReadingAssumption DEF RowsFromReadings
<1> QED BY <1>1, <1>2

\* A row that is there was read, and what it says is what its reading said.
LEMMA RowRead ==
  ASSUME RowsFromReadings, NEW s \in Screens, NEW i \in DOMAIN rows[s]
  PROVE  /\ s \in read /\ <<s, i>> \in Places /\ Row(<<s, i>>) = rows[s][i]
         /\ fault[s] \in Faults(Printed(shows[s])) /\ rows[s] \in Readings(shows[s], fault[s])
<1>1. rows[s] # <<>>
  OBVIOUS
<1>2. s \in read
  BY <1>1 DEF RowsFromReadings
<1> QED BY <1>2 DEF RowsFromReadings, Places, Row

LEMMA FactsOfRow ==
  ASSUME NEW p
  PROVE  /\ FactsFrom(p).id = p /\ FactsFrom(p).user = "user" /\ FactsFrom(p).day = Row(p).day
         /\ FactsFrom(p).amount = Row(p).amount /\ FactsFrom(p).currency = Row(p).currency
         /\ FactsFrom(p).way = Row(p).way /\ FactsFrom(p).name = Row(p).name
         /\ FactsFrom(p).code = Row(p).code /\ FactsFrom(p).balance = Row(p).balance
BY DEF FactsFrom, Row

LEMMA OwnerOfRow ==
  ASSUME NEW p
  PROVE  Scoring!Owner(FactsFrom(p)) = IF p \in mapped THEN shows[p[1]].layout.owner ELSE None
BY DEF FactsFrom, Scoring!Owner

\* What two rows that score as a merge have in common.
LEMMA MergeExplained ==
  ASSUME NEW p, NEW q, ScoreOf(p, q) >= 90
  PROVE  /\ SharedCode(p, q) \/ OnOneAccount(p, q)
         /\ SharedCode(q, p) \/ OnOneAccount(q, p)
<1> DEFINE l == FactsFrom(p)
           r == FactsFrom(q)
<1>1. /\ l.code = Row(p).code /\ r.code = Row(q).code
      /\ l.amount = Row(p).amount /\ r.amount = Row(q).amount
      /\ l.currency = Row(p).currency /\ r.currency = Row(q).currency
      /\ l.day = Row(p).day /\ r.day = Row(q).day
      /\ l.balance = Row(p).balance /\ r.balance = Row(q).balance
      /\ Scoring!Owner(l) = IF p \in mapped THEN shows[p[1]].layout.owner ELSE None
      /\ Scoring!Owner(r) = IF q \in mapped THEN shows[q[1]].layout.owner ELSE None
  BY FactsOfRow, OwnerOfRow
<1> HIDE DEF l, r
<1>2. \/ Scoring!Same(l.code, r.code)
      \/ /\ Scoring!Same(Scoring!Owner(l), Scoring!Owner(r))
         /\ Scoring!SameAmount(l, r)
         /\ Scoring!Within(l.day, r.day, Scoring!Days) \/ Scoring!Same(l.balance, r.balance)
  BY ScoreOfPair DEF ScoreOf, l, r
<1>3. CASE Scoring!Same(l.code, r.code)
  BY <1>1, <1>3 DEF Scoring!Same, SharedCode
<1>4. CASE /\ Scoring!Same(Scoring!Owner(l), Scoring!Owner(r))
           /\ Scoring!SameAmount(l, r)
           /\ Scoring!Within(l.day, r.day, Scoring!Days) \/ Scoring!Same(l.balance, r.balance)
  <2>1. /\ p \in mapped /\ q \in mapped
        /\ shows[p[1]].layout.owner = shows[q[1]].layout.owner
    BY <1>1, <1>4 DEF Scoring!Same
  <2>2. Scoring!SameAmount(Row(p), Row(q)) /\ Scoring!SameAmount(Row(q), Row(p))
    BY <1>1, <1>4 DEF Scoring!SameAmount, Scoring!Same
  <2>3. /\ Scoring!Within(Row(p).day, Row(q).day, 1) \/ Scoring!Same(Row(p).balance, Row(q).balance)
        /\ Scoring!Within(Row(q).day, Row(p).day, 1) \/ Scoring!Same(Row(q).balance, Row(p).balance)
    BY <1>1, <1>4 DEF Scoring!Within, Scoring!Known, Scoring!Days, Scoring!Same
  <2> QED BY <2>1, <2>2, <2>3 DEF OnOneAccount
<1> QED BY <1>2, <1>3, <1>4

LEMMA LookAlikeIsCandidate ==
  ASSUME NEW p, NEW q, p # q, Row(p).day = None \/ Row(p).day \in Int, LookAlike(p, q)
  PROVE  Scoring!IsCandidate(FactsFrom(p), FactsFrom(q))
<1> DEFINE l == FactsFrom(p)
           r == FactsFrom(q)
<1>1. /\ l.id # r.id /\ l.user = r.user
      /\ Scoring!SameAmount(l, r) /\ Scoring!Similar(l, r)
      /\ l.day = r.day /\ l.day # None /\ l.day \in Int
      /\ l.way = r.way /\ l.way # "unknown"
  BY FactsOfRow DEF LookAlike, Scoring!SameAmount, Scoring!Similar
<1> HIDE DEF l, r
<1>2. \A days \in Nat : Scoring!Within(l.day, r.day, days)
  BY <1>1 DEF Scoring!Within, Scoring!Known
<1>3. ~Scoring!FarApart(l, r)
  BY <1>2 DEF Scoring!FarApart, Scoring!SearchWindow
<1> DEFINE a == Scoring!Points(Scoring!SameAmount(l, r), 30)
           b == Scoring!Points(Scoring!Same(Scoring!Owner(l), Scoring!Owner(r)), 25)
           c == Scoring!Points(Scoring!Within(l.day, r.day, Scoring!Days), 15)
           d == Scoring!Points(l.way = r.way /\ l.way # "unknown", 10)
           e == Scoring!Points(Scoring!Similar(l, r), 10)
           f == Scoring!Points(Scoring!Same(l.code, r.code), 30)
           g == Scoring!Points(Scoring!Same(l.balance, r.balance), 15)
           h == Scoring!Points(Scoring!Same(l.source, r.source), 5)
<1>4. Scoring!RawScore(l, r) = a + b + c + d + e + f + g + h
  BY DEF Scoring!RawScore
<1>5. a = 30 /\ c = 15 /\ d = 10 /\ e = 10
  BY <1>1, <1>2 DEF Scoring!Points, Scoring!Days
<1>6. b \in {0, 25} /\ f \in {0, 30} /\ g \in {0, 15} /\ h \in {0, 5}
  BY PointsAreNumbers
<1> HIDE DEF a, b, c, d, e, f, g, h
<1> DEFINE raw == Scoring!RawScore(l, r)
<1>7. raw \in 65 .. 140
  BY <1>4, <1>5, <1>6
<1> HIDE DEF raw
<1>8. Scoring!ScorePair(l, r) = IF raw > 100 THEN 100 ELSE raw
  BY <1>1 DEF Scoring!ScorePair, Scoring!AtMost100, raw
<1>9. Scoring!ScorePair(l, r) >= Scoring!ReviewCandidate
  BY <1>7, <1>8 DEF Scoring!ReviewCandidate
<1>10. Scoring!IsCandidate(l, r)
  BY <1>3, <1>9 DEF Scoring!IsCandidate
<1> QED BY <1>10 DEF l, r

LEMMA ComesBackScores ==
  ASSUME NEW p, NEW q, ComesBack(p, q)
  PROVE  Scoring!MatchRefundToPurchase(FactsFrom(p), FactsFrom(q)) \in 85 .. 100
<1> DEFINE l == FactsFrom(p)
           r == FactsFrom(q)
<1>1. p # q
  BY DEF ComesBack
<1>2. /\ l.id # r.id /\ l.user = r.user
      /\ Scoring!SameAmount(l, r) /\ Scoring!Similar(l, r)
      /\ Scoring!Follows(l, r)
  BY <1>1, FactsOfRow DEF ComesBack, Scoring!SameAmount, Scoring!Similar, Scoring!Follows
<1> HIDE DEF l, r
<1> DEFINE s == Scoring!Points(Scoring!Similar(l, r), 25)
           o == Scoring!Points(Scoring!Same(Scoring!Owner(l), Scoring!Owner(r)), 20)
           score == Scoring!RefundScore(l, r)
<1>3. s = 25 /\ o \in {0, 20}
  BY <1>2, PointsAreNumbers DEF Scoring!Points
<1>4. score = 25 + 35 + s + o
  BY <1>2 DEF Scoring!RefundScore
<1> HIDE DEF s, o, score
<1>5. score \in {85, 105}
  BY <1>3, <1>4
<1>6. Scoring!MatchRefundToPurchase(l, r) = IF score > 100 THEN 100 ELSE score
  BY <1>2, <1>5 DEF Scoring!MatchRefundToPurchase, Scoring!AtMost100, Scoring!MinimumMatch, score
<1>7. Scoring!MatchRefundToPurchase(l, r) \in 85 .. 100
  BY <1>5, <1>6
<1> QED BY <1>7 DEF l, r

-----------------------------------------------------------------------------
(* What a step keeps *)

LEMMA ReadKeeps ==
  ASSUME RowsFromReadings, NEW s \in Screens, Read(s)
  PROVE  /\ RowsFromReadings'
         /\ s \notin read /\ read \subseteq read'
         /\ \A p \in Places : p \in Places' /\ Row(p)' = Row(p)
<1>1. PICK f \in Faults(Printed(shows[s])) :
        /\ fault' = [fault EXCEPT ![s] = f]
        /\ \E reading \in Readings(shows[s], f) : rows' = [rows EXCEPT ![s] = reading]
  BY DEF Read
<1>2. PICK reading \in Readings(shows[s], f) : rows' = [rows EXCEPT ![s] = reading]
  BY <1>1
<1>3. s \notin read /\ read' = read \cup {s} /\ shows' = shows
  BY DEF Read
<1>4. /\ DOMAIN fault' = Screens /\ DOMAIN rows' = Screens
      /\ fault'[s] = f /\ rows'[s] = reading
      /\ \A t \in Screens : t # s => fault'[t] = fault[t] /\ rows'[t] = rows[t]
  BY <1>1, <1>2 DEF RowsFromReadings
<1>5. RowsFromReadings'
  BY <1>1, <1>2, <1>3, <1>4 DEF RowsFromReadings
<1>6. ASSUME NEW p \in Places PROVE p \in Places' /\ Row(p)' = Row(p)
  <2>1. PICK t \in Screens : \E i \in DOMAIN rows[t] : p = <<t, i>>
    BY DEF Places
  <2>2. PICK i \in DOMAIN rows[t] : p = <<t, i>>
    BY <2>1
  <2>3. t # s
    <3>1. rows[t] # <<>>
      BY <2>2
    <3> QED BY <1>3, <3>1 DEF RowsFromReadings
  <2>4. rows'[t] = rows[t] /\ p[1] = t /\ p[2] = i
    BY <1>4, <2>2, <2>3
  <2> QED BY <2>2, <2>4 DEF Places, Row
<1> QED BY <1>3, <1>5, <1>6

LEMMA ReadKeepsInv == ASSUME EvidenceInv, NEW s \in Screens, Read(s) PROVE EvidenceInv'
<1>1. /\ RowsFromReadings'
      /\ s \notin read /\ read \subseteq read'
      /\ \A p \in Places : p \in Places' /\ Row(p)' = Row(p)
  BY ReadKeeps DEF EvidenceInv
<1>2. matches' = matches /\ mapped' = mapped /\ seen' = seen /\ shows' = shows
  BY DEF Read
<1>3. IsFiniteSet(matches)' /\ ~seen'.complete
  BY <1>1, <1>2 DEF EvidenceInv
<1>4. MergesExplained'
  <2> SUFFICES ASSUME NEW m \in matches
               PROVE  /\ \E p, q \in Places' : m.pair = {p, q}
                      /\ m.type = "duplicate" /\ m.score >= 90 =>
                           \A p, q \in m.pair : p # q => SharedCode(p, q)' \/ OnOneAccount(p, q)'
    BY <1>2 DEF MergesExplained
  <2>1. PICK p, q \in Places : m.pair = {p, q}
    BY DEF EvidenceInv, MergesExplained
  <2>2. p \in Places' /\ q \in Places' /\ \A r \in m.pair : Row(r)' = Row(r)
    BY <1>1, <2>1
  <2>3. ASSUME m.type = "duplicate", m.score >= 90, NEW r \in m.pair, NEW t \in m.pair, r # t
        PROVE  SharedCode(r, t)' \/ OnOneAccount(r, t)'
    <3>1. SharedCode(r, t) \/ OnOneAccount(r, t)
      BY <2>3 DEF EvidenceInv, MergesExplained
    <3>2. Row(r)' = Row(r) /\ Row(t)' = Row(t)
      BY <2>2, <2>3
    <3> QED BY <1>2, <3>1, <3>2 DEF SharedCode, OnOneAccount
  <2> QED BY <2>1, <2>2, <2>3
<1>5. AllFound'
  BY <1>3 DEF AllFound
<1> QED BY <1>1, <1>3, <1>4, <1>5 DEF EvidenceInv

\* What a step of a reviewer keeps: rows and candidates stay, mappings are only added.
LEMMA ReviewKeepsInv ==
  ASSUME EvidenceInv, UNCHANGED <<shows, fault, rows, read, seen, matches>>, mapped \subseteq mapped'
  PROVE  EvidenceInv'
<1>1. RowsFromReadings'
  BY DEF EvidenceInv, RowsFromReadings
<1>2. IsFiniteSet(matches)' /\ (seen.complete => read = Screens)'
  BY DEF EvidenceInv
<1>3. Places' = Places /\ Dated(Today)' = Dated(Today) /\ \A p : Row(p)' = Row(p)
  BY DEF Places, Dated, Today, Row
<1>4. \A p, q : /\ SharedCode(p, q)' <=> SharedCode(p, q)
                /\ OnOneAccount(p, q) => OnOneAccount(p, q)'
  BY <1>3 DEF SharedCode, OnOneAccount
<1>5. MergesExplained'
  BY <1>3, <1>4 DEF EvidenceInv, MergesExplained
<1>6. \A p, q : /\ LookAlike(p, q)' <=> LookAlike(p, q)
                /\ ComesBack(p, q)' <=> ComesBack(p, q)
                /\ Joined(p, q)' <=> Joined(p, q)
                /\ Returned(p, q)' <=> Returned(p, q)
  BY <1>3 DEF LookAlike, ComesBack, Joined, Returned, CandidatesOf
<1>7. AllFound'
  BY <1>3, <1>6 DEF EvidenceInv, AllFound
<1> QED BY <1>1, <1>2, <1>5, <1>7 DEF EvidenceInv

\* The other two kinds of candidates: what they are, and that there are finitely many.
LEMMA OthersProposed ==
  ASSUME RowsTyped, NEW D \in SUBSET Places, NEW others, others = Transfers(D) \cup Refunds(D)
  PROVE  /\ IsFiniteSet(others)
         /\ \A m \in others : /\ m.type \in {"transfer", "refund"}
                              /\ \E p, q \in D : m.pair = {p, q}
<1> DEFINE refund(c) == Join("refund", c[1], c[2],
                             Scoring!MatchRefundToPurchase(FactsFrom(c[1]), FactsFrom(c[2])))
           transfer(c) == Join("transfer", c[1], c[2],
                               Scoring!MatchInternalTransfer(FactsFrom(c[1]), FactsFrom(c[2]), None))
           pairs == D \X D
           refunds == {refund(c) : c \in pairs}
           transfers == {transfer(c) : c \in pairs}
<1>1. IsFiniteSet(pairs)
  BY PlacesFinite, FS_Subset, FS_Product
<1>2. Refunds(D) \subseteq refunds
  <2> SUFFICES ASSUME NEW m \in Refunds(D) PROVE m \in refunds
    OBVIOUS
  <2>1. PICK p \in D, q \in D :
          m = Join("refund", p, q, Scoring!MatchRefundToPurchase(FactsFrom(p), FactsFrom(q)))
    BY DEF Refunds, Unreviewed
  <2>2. <<p, q>> \in pairs /\ m = refund(<<p, q>>)
    BY <2>1
  <2> HIDE DEF refund, pairs
  <2> QED BY <2>2
<1>3. Transfers(D) \subseteq transfers
  <2> SUFFICES ASSUME NEW m \in Transfers(D) PROVE m \in transfers
    OBVIOUS
  <2>1. PICK p \in D, q \in D :
          m = Join("transfer", p, q, Scoring!MatchInternalTransfer(FactsFrom(p), FactsFrom(q), None))
    BY DEF Transfers, Unreviewed
  <2>2. <<p, q>> \in pairs /\ m = transfer(<<p, q>>)
    BY <2>1
  <2> HIDE DEF transfer, pairs
  <2> QED BY <2>2
<1>4. \A c \in pairs : /\ c[1] \in D /\ c[2] \in D
                       /\ refund(c).type = "refund" /\ refund(c).pair = {c[1], c[2]}
                       /\ transfer(c).type = "transfer" /\ transfer(c).pair = {c[1], c[2]}
  BY DEF Join
<1> HIDE DEF refund, transfer, pairs
<1>5. IsFiniteSet(refunds) /\ IsFiniteSet(transfers)
  <2> DEFINE f == [c \in pairs |-> refund(c)]
             g == [c \in pairs |-> transfer(c)]
  <2>1. f \in Surjection(pairs, refunds) /\ g \in Surjection(pairs, transfers)
    BY DEF Surjection
  <2> HIDE DEF f, g, refunds, transfers
  <2> QED BY <1>1, <2>1, FS_Surjection
<1>6. IsFiniteSet(others)
  <2>1. IsFiniteSet(Refunds(D)) /\ IsFiniteSet(Transfers(D))
    <3> HIDE DEF refunds, transfers
    <3> QED BY <1>2, <1>3, <1>5, FS_Subset
  <2> QED BY <2>1, FS_Union
<1>7. ASSUME NEW m \in others
      PROVE  m.type \in {"transfer", "refund"} /\ \E p, q \in D : m.pair = {p, q}
  <2>1. PICK c \in pairs : m = refund(c) \/ m = transfer(c)
    BY <1>2, <1>3
  <2> QED BY <1>4, <2>1
<1> QED BY <1>6, <1>7

LEMMA DetectKeepsInv == ASSUME EvidenceInv, Detect PROVE EvidenceInv'
<1> DEFINE D == Dated(Today)
           others == Transfers(D) \cup Refunds(D)
<1>1. /\ seen' = IF read = Screens THEN [complete |-> TRUE, mapped |-> mapped, decided |-> decided] ELSE seen
      /\ matches' = Recorded(Proposed)
      /\ UNCHANGED <<shows, fault, rows, read, mapped, decided>>
  BY DEF Detect
<1>2. RowsTyped /\ D \in SUBSET Places
  BY Typed DEF EvidenceInv, Dated
<1>3. RowsFromReadings'
  BY <1>1 DEF EvidenceInv, RowsFromReadings
<1>4. seen'.complete => read' = Screens /\ seen'.decided = decided
  BY <1>1 DEF EvidenceInv
<1>5. Places' = Places /\ Dated(Today)' = D /\ \A p : Row(p)' = Row(p)
  BY <1>1 DEF Places, Dated, Today, Row
<1>6. Proposed = Duplicates(D) \cup others
  BY DEF Proposed
<1> HIDE DEF D
<1>7. /\ IsFiniteSet(Duplicates(D))
      /\ \A m \in Duplicates(D) :
           \E p, q \in D : p # q /\ m = Join("duplicate", p, q, ScoreOf(p, q))
      /\ \A p, q \in D :
           Earlier(p, q) /\ Scoring!IsCandidate(FactsFrom(p), FactsFrom(q)) =>
             \/ \E m \in Duplicates(D) : m.type = "duplicate" /\ m.pair = {p, q}
             \/ Cardinality(CandidatesIn(Duplicates(D), p)) >= Cap
             \/ Cardinality(CandidatesIn(Duplicates(D), q)) >= Cap
  BY <1>2, DuplicatesFound
<1>8. /\ IsFiniteSet(others)
      /\ \A m \in others : /\ m.type \in {"transfer", "refund"}
                           /\ \E p, q \in D : m.pair = {p, q}
  BY <1>2, OthersProposed
<1>9. /\ Duplicates(D) \subseteq matches' /\ others \subseteq matches'
      /\ matches' \subseteq Duplicates(D) \cup others \cup matches
  BY <1>1, <1>6 DEF Recorded
<1>10. IsFiniteSet(matches')
  <2> HIDE DEF others
  <2>1. IsFiniteSet(Duplicates(D) \cup others)
    BY <1>7, <1>8, FS_Union
  <2>2. IsFiniteSet(Duplicates(D) \cup others \cup matches)
    BY <2>1, FS_Union DEF EvidenceInv
  <2> QED BY <1>9, <2>2, FS_Subset
<1>11. MergesExplained'
  <2> SUFFICES ASSUME NEW m \in matches'
               PROVE  /\ \E p, q \in Places : m.pair = {p, q}
                      /\ m.type = "duplicate" /\ m.score >= 90 =>
                           \A p, q \in m.pair : p # q => SharedCode(p, q) \/ OnOneAccount(p, q)
    <3>1. \A p, q : /\ SharedCode(p, q)' <=> SharedCode(p, q)
                    /\ OnOneAccount(p, q)' <=> OnOneAccount(p, q)
      BY <1>1, <1>5 DEF SharedCode, OnOneAccount
    <3> QED BY <1>5, <3>1 DEF MergesExplained
  <2>1. CASE m \in matches
    BY <2>1 DEF EvidenceInv, MergesExplained
  <2>2. CASE m \in others
    <3>1. m.type # "duplicate"
      BY <1>8, <2>2
    <3>2. \E p, q \in D : m.pair = {p, q}
      BY <1>8, <2>2
    <3> QED BY <1>2, <3>1, <3>2
  <2>3. CASE m \in Duplicates(D)
    <3>1. PICK p, q \in D : m = Join("duplicate", p, q, ScoreOf(p, q))
      BY <1>7, <2>3
    <3>2. m.pair = {p, q} /\ m.score = ScoreOf(p, q)
      BY <3>1 DEF Join
    <3>3. ASSUME m.score >= 90, NEW r \in m.pair, NEW t \in m.pair, r # t
          PROVE  SharedCode(r, t) \/ OnOneAccount(r, t)
      <4>1. ScoreOf(p, q) >= 90 /\ r \in {p, q} /\ t \in {p, q}
        BY <3>2, <3>3
      <4>2. (r = p /\ t = q) \/ (r = q /\ t = p)
        BY <3>3, <4>1
      <4> QED BY <4>1, <4>2, MergeExplained
    <3> QED BY <1>2, <3>2, <3>3
  <2> QED BY <1>9, <2>1, <2>2, <2>3
<1>12. ASSUME NEW p \in D, NEW q \in D, Earlier(p, q), LookAlike(p, q)' PROVE Joined(p, q)'
  <2>1. LookAlike(p, q)
    BY <1>5, <1>12 DEF LookAlike
  <2>2. p \in Places /\ q \in Places
    BY <1>2
  <2>3. p # q /\ TypedRow(Row(p))
    BY <1>2, <1>12, <2>2, PlaceOfRow DEF Earlier
  <2>4. Scoring!IsCandidate(FactsFrom(p), FactsFrom(q))
    BY <2>1, <2>3, LookAlikeIsCandidate DEF TypedRow
  <2>5. \A r \in D : Cardinality(CandidatesIn(Duplicates(D), r)) >= Cap => Cardinality(CandidatesOf(r)') >= Cap
    <3> TAKE r \in D
    <3> DEFINE a == CandidatesIn(Duplicates(D), r)
               b == CandidatesOf(r)'
    <3>1. a \in SUBSET b /\ b \in SUBSET matches'
      BY <1>9 DEF CandidatesIn, CandidatesOf
    <3> HIDE DEF a, b
    <3>2. IsFiniteSet(b)
      BY <1>10, <3>1, FS_Subset
    <3>3. IsFiniteSet(a) /\ Cardinality(a) <= Cardinality(b)
      BY <3>1, <3>2, FS_Subset
    <3>4. Cardinality(a) \in Nat /\ Cardinality(b) \in Nat
      BY <3>2, <3>3, FS_CardinalityType
    <3>5. Cardinality(a) >= Cap => Cardinality(b) >= Cap
      BY <3>3, <3>4, EvidenceAssumption
    <3> QED BY <3>5 DEF a, b
  <2>6. CASE \E m \in Duplicates(D) : m.type = "duplicate" /\ m.pair = {p, q}
    BY <1>9, <2>6 DEF Joined
  <2>7. CASE \/ Cardinality(CandidatesIn(Duplicates(D), p)) >= Cap
             \/ Cardinality(CandidatesIn(Duplicates(D), q)) >= Cap
    BY <2>5, <2>7 DEF Joined
  <2> QED BY <1>7, <1>12, <2>4, <2>6, <2>7
<1>13. ASSUME NEW p \in D, NEW q \in D, seen'.complete, p \notin seen'.decided, ComesBack(p, q)'
       PROVE  Returned(p, q)'
  <2>1. ComesBack(p, q) /\ p \in Unreviewed(D)
    BY <1>4, <1>5, <1>13 DEF ComesBack, Unreviewed
  <2> DEFINE score == Scoring!MatchRefundToPurchase(FactsFrom(p), FactsFrom(q))
             m == Join("refund", p, q, score)
  <2>2. score \in 85 .. 100
    BY <2>1, ComesBackScores
  <2>3. m \in {Join("refund", r, s, Scoring!MatchRefundToPurchase(FactsFrom(r), FactsFrom(s))) :
                 r \in Unreviewed(D), s \in D}
    BY <2>1
  <2> HIDE DEF score
  <2>4. m.type = "refund" /\ m.pair = {p, q} /\ m.score = score
    BY DEF Join
  <2>5. m \in Refunds(D)
    <3> HIDE DEF m
    <3> QED BY <2>2, <2>3, <2>4 DEF Refunds
  <2>6. m \in matches'
    BY <1>9, <2>5
  <2> HIDE DEF m
  <2> QED BY <2>2, <2>4, <2>6 DEF Returned
<1>14. AllFound'
  BY <1>5, <1>12, <1>13 DEF AllFound, Earlier
<1> QED BY <1>3, <1>4, <1>10, <1>11, <1>14 DEF EvidenceInv

THEOREM EvidenceInvariant == Spec => []EvidenceInv
<1>1. Init => EvidenceInv
  <2> SUFFICES ASSUME Init PROVE EvidenceInv
    OBVIOUS
  <2>1. Places = {}
    BY DEF Init, Places
  <2>2. RowsFromReadings
    BY DEF Init, RowsFromReadings
  <2>3. IsFiniteSet(matches) /\ (seen.complete => read = Screens) /\ MergesExplained
    BY FS_EmptySet DEF Init, MergesExplained
  <2>4. AllFound
    BY <2>1 DEF AllFound, Dated
  <2> QED BY <2>2, <2>3, <2>4 DEF EvidenceInv
<1>2. EvidenceInv /\ [Next]_vars => EvidenceInv'
  <2> SUFFICES ASSUME EvidenceInv, [Next]_vars PROVE EvidenceInv'
    OBVIOUS
  <2>1. CASE Detect
    BY <2>1, DetectKeepsInv
  <2>2. CASE \E s \in Screens : Read(s)
    BY <2>2, ReadKeepsInv
  <2>3. CASE \E p \in Places : MapRow(p)
    <3>1. UNCHANGED <<shows, fault, rows, read, seen, matches>> /\ mapped \subseteq mapped'
      BY <2>3 DEF MapRow
    <3> QED BY <3>1, ReviewKeepsInv
  <2>4. CASE \E p \in Places : Accept(p)
    <3>1. UNCHANGED <<shows, fault, rows, read, seen, matches>> /\ mapped \subseteq mapped'
      BY <2>4 DEF Accept
    <3> QED BY <3>1, ReviewKeepsInv
  <2>5. CASE \E p \in Places : Reopen(p)
    <3>1. UNCHANGED <<shows, fault, rows, read, seen, matches>> /\ mapped \subseteq mapped'
      BY <2>5 DEF Reopen
    <3> QED BY <3>1, ReviewKeepsInv
  <2>6. CASE UNCHANGED vars
    <3>1. UNCHANGED <<shows, fault, rows, read, seen, matches>> /\ mapped \subseteq mapped'
      BY <2>6 DEF vars
    <3> QED BY <3>1, ReviewKeepsInv
  <2> QED BY <2>1, <2>2, <2>3, <2>4, <2>5, <2>6 DEF Next
<1> QED BY <1>1, <1>2, PTL DEF Spec

-----------------------------------------------------------------------------
(* What a reviewer may rely on, for any screens *)

\* The queue, the filters and the workload page tell the same of the same rows, and the queue
\* strays from what it shows only as QueueTells allows: whatever the rows, those that came
\* back included, the candidates, the number of screenshots and the number the page lists
\* (queue.py, risk.py, workload.py).
THEOREM QueueAlwaysTells == Spec => []QueueTells
<1>1. EvidenceInv => QueueTells
  BY Typed, TypedQueueTells DEF EvidenceInv
<1> QED BY <1>1, EvidenceInvariant, PTL

\* The code a row carries is printed beside one of the events it was read from.
LEMMA CodePrinted ==
  ASSUME EvidenceInv, NEW r \in Places, Row(r).code # None
  PROVE  /\ r[1] \in Screens
         /\ \E e \in EventsOf(r[1], r[2]) :
              e \in DOMAIN shows[r[1]].events /\ shows[r[1]].events[e].code = Row(r).code
<1> DEFINE s == r[1]
           i == r[2]
<1>1. s \in Screens /\ i \in DOMAIN rows[s] /\ r = <<s, i>>
  BY PlaceOfRow, Typed DEF EvidenceInv
<1> HIDE DEF s, i
<1>2. /\ Row(r) = rows[s][i] /\ shows \in Worlds
      /\ fault[s] \in Faults(Printed(shows[s])) /\ rows[s] \in Readings(shows[s], fault[s])
  BY <1>1, RowRead DEF EvidenceInv, RowsFromReadings
<1>3. rows[s][i].code # None =>
        \E e \in {d \in DOMAIN shows[s].events : d \in rows[s][i].lines} :
          shows[s].events[e].code = rows[s][i].code
  BY <1>1, <1>2, ReadingAssumption
<1>4. \E e \in EventsOf(s, i) : e \in DOMAIN shows[s].events /\ shows[s].events[e].code = Row(r).code
  BY <1>2, <1>3 DEF EventsOf
<1> QED BY <1>1, <1>4 DEF s, i

LEMMA MergesOneAuthorisation == ASSUME EvidenceInv PROVE AutoMergeSafe
<1> SUFFICES ASSUME NEW m \in matches, m.type = "duplicate", m.score >= 90,
                    NEW p \in m.pair, NEW q \in m.pair, p # q
             PROVE  OneAuthorisation(p, q) \/ OnOneAccount(p, q)
  BY DEF AutoMergeSafe
<1>1. p \in Places /\ q \in Places
  BY DEF EvidenceInv, MergesExplained
<1>2. SharedCode(p, q) \/ OnOneAccount(p, q)
  BY DEF EvidenceInv, MergesExplained
<1>3. CASE SharedCode(p, q)
  <2> DEFINE code == Row(p).code
  <2>1. code # None /\ Row(q).code = code
    BY <1>3 DEF SharedCode
  <2>2. PICK d \in EventsOf(p[1], p[2]) :
          d \in DOMAIN shows[p[1]].events /\ shows[p[1]].events[d].code = code
    BY <1>1, <2>1, CodePrinted
  <2>3. PICK e \in EventsOf(q[1], q[2]) :
          e \in DOMAIN shows[q[1]].events /\ shows[q[1]].events[e].code = code
    BY <1>1, <2>1, CodePrinted
  <2>4. p[1] \in Screens /\ q[1] \in Screens /\ shows \in Worlds
    BY <1>1, <2>1, CodePrinted DEF EvidenceInv, RowsFromReadings
  <2> DEFINE one == shows[p[1]].events[d]
             other == shows[q[1]].events[e]
  <2>5. one.code # None /\ one.code = other.code
    BY <2>1, <2>2, <2>3
  <2>6. one.id = other.id \/ Cancels(one, other)
    BY <2>2, <2>3, <2>4, <2>5, WorldAssumption
  <2> QED BY <2>5, <2>6 DEF OneAuthorisation
<1> QED BY <1>2, <1>3

\* Two rows that score as an automatic merge were read from one authorisation, an event and
\* its cancellation counted as one, or a reviewer put both on one account or card and they
\* agree in the amount and in the day or the balance: nothing else that rows can have in
\* common gets them there (score_pair).
THEOREM MergesAreSafe == Spec => []AutoMergeSafe
<1>1. EvidenceInv => AutoMergeSafe
  BY MergesOneAuthorisation
<1> QED BY <1>1, EvidenceInvariant, PTL

\* Two rows read rightly and not flagged say what their events were, in names taken as equal.
LEMMA ToldTruly ==
  ASSUME EvidenceInv,
         NEW s \in Screens, NEW i \in DOMAIN rows[s], NEW d \in EventsOf(s, i), Tells(s, i, d),
         NEW t \in Screens, NEW j \in DOMAIN rows[t], NEW e \in EventsOf(t, j), Tells(t, j, e),
         <<s, i>> # <<t, j>>,
         shows[t].events[e].id \in {shows[s].events[d].id, shows[s].events[d].returns}
  PROVE  /\ SaysTruly(rows[s][i], shows[s].layout, shows[s].events[d])
         /\ SaysTruly(rows[t][j], shows[t].layout, shows[t].events[e])
         /\ Scoring!Similar(rows[s][i], rows[t][j])
<1>1. /\ shows \in Worlds
      /\ rows[s] \in Readings(shows[s], NoFault) /\ rows[t] \in Readings(shows[t], NoFault)
      /\ NoFault \in Faults(Printed(shows[s])) /\ NoFault \in Faults(Printed(shows[t]))
  BY RowRead DEF Tells, EvidenceInv, RowsFromReadings
<1>2. /\ d \in DOMAIN shows[s].events /\ d \in rows[s][i].lines
      /\ e \in DOMAIN shows[t].events /\ e \in rows[t][j].lines
  BY DEF EventsOf
<1>3. ~rows[s][i].review /\ ~rows[t][j].review
  BY DEF Tells, Silent
<1>4. SaysTruly(rows[s][i], shows[s].layout, shows[s].events[d])
  BY <1>1, <1>2, <1>3, ReadingAssumption
<1>5. SaysTruly(rows[t][j], shows[t].layout, shows[t].events[e])
  BY <1>1, <1>2, <1>3, ReadingAssumption
<1>6. Scoring!Similar(rows[s][i], rows[t][j])
  BY <1>1, <1>2, <1>3, NameAssumption
<1> QED BY <1>4, <1>5, <1>6

LEMMA OverlapsFound == ASSUME EvidenceInv PROVE OverlapFound
<1> SUFFICES ASSUME seen.complete, NEW s \in Screens, NEW t \in Screens,
                    NEW i \in DOMAIN rows[s], NEW j \in DOMAIN rows[t],
                    s < t, {<<s, i>>, <<t, j>>} \subseteq Dated(Today),
                    NEW d \in EventsOf(s, i), NEW e \in EventsOf(t, j),
                    Tells(s, i, d), Tells(t, j, e),
                    shows[s].events[d].id = shows[t].events[e].id
             PROVE  Joined(<<s, i>>, <<t, j>>)
  BY DEF OverlapFound, Joined
<1> DEFINE p == <<s, i>>
           q == <<t, j>>
           l == rows[s][i]
           r == rows[t][j]
           one == shows[s].events[d]
           other == shows[t].events[e]
<1>1. s \in Int /\ t \in Int
  BY EvidenceAssumption, FS_CardinalityType
<1>2. p # q /\ Earlier(p, q)
  BY <1>1 DEF Earlier
<1>3. /\ SaysTruly(l, shows[s].layout, one) /\ SaysTruly(r, shows[t].layout, other)
      /\ Scoring!Similar(l, r)
  BY <1>2, ToldTruly
<1>4. shows \in Worlds /\ d \in DOMAIN shows[s].events /\ e \in DOMAIN shows[t].events
  BY DEF EventsOf, EvidenceInv, RowsFromReadings
<1>5. /\ one.day \in Int /\ one.amount.value \in Int /\ one.way \in {"debit", "credit"}
      /\ one.amount.value = other.amount.value /\ one.day = other.day /\ one.way = other.way
      /\ shows[s].layout.currency = shows[t].layout.currency
  BY <1>4, WorldAssumption
<1>6. /\ Row(p) = l /\ Row(q) = r
  BY DEF Row
<1> HIDE DEF one, other, l, r
<1>7. /\ l.day = one.day /\ r.day = one.day /\ l.amount = one.amount.value /\ r.amount = one.amount.value
      /\ l.way = one.way /\ r.way = one.way /\ l.currency = r.currency
  BY <1>3, <1>5 DEF SaysTruly
<1>8. one.day # None /\ one.amount.value # None /\ one.way # "unknown"
  BY <1>5, WorldAssumption
<1>9. LookAlike(p, q)
  BY <1>3, <1>6, <1>7, <1>8 DEF LookAlike, Scoring!SameAmount, Scoring!Same
<1> HIDE DEF p, q
<1>10. p \in Dated(Today) /\ q \in Dated(Today)
  BY DEF p, q
<1>11. Joined(p, q)
  BY <1>2, <1>9, <1>10 DEF EvidenceInv, AllFound
<1> QED BY <1>11 DEF p, q

\* Two rows that tell one event truly are joined, unless one of them has as many candidates
\* as it may: for any cap, and whatever was read, mapped and detected in whatever order.
THEOREM OverlapAlwaysFound == Spec => []OverlapFound
<1>1. EvidenceInv => OverlapFound
  BY OverlapsFound
<1> QED BY <1>1, EvidenceInvariant, PTL

LEMMA RefundsFound == ASSUME EvidenceInv PROVE RefundFound
<1> SUFFICES ASSUME seen.complete, NEW s \in Screens, NEW t \in Screens,
                    NEW i \in DOMAIN rows[s], NEW j \in DOMAIN rows[t],
                    <<s, i>> \notin seen.decided, {<<s, i>>, <<t, j>>} \subseteq Dated(Today),
                    NEW d \in EventsOf(s, i), NEW e \in EventsOf(t, j),
                    Tells(s, i, d), Tells(t, j, e),
                    shows[s].events[d].returns = shows[t].events[e].id
             PROVE  Returned(<<s, i>>, <<t, j>>)
  BY DEF RefundFound, Returned
<1> DEFINE p == <<s, i>>
           q == <<t, j>>
           l == rows[s][i]
           r == rows[t][j]
           one == shows[s].events[d]
           other == shows[t].events[e]
<1>1. shows \in Worlds /\ d \in DOMAIN shows[s].events /\ e \in DOMAIN shows[t].events
  BY DEF EventsOf, EvidenceInv, RowsFromReadings
<1>2. /\ one.day \in Int /\ one.amount.value \in Int /\ other.day \in Int
      /\ one.way = "credit" /\ other.way = "debit"
      /\ one.amount.value = other.amount.value
      /\ other.day <= one.day /\ one.day - other.day <= Scoring!RefundWindow
      /\ shows[s].layout.currency = shows[t].layout.currency
  BY <1>1, WorldAssumption
<1>3. /\ rows[s] \in Readings(shows[s], NoFault) /\ rows[t] \in Readings(shows[t], NoFault)
      /\ NoFault \in Faults(Printed(shows[s])) /\ NoFault \in Faults(Printed(shows[t]))
  BY RowRead DEF Tells, EvidenceInv
<1>4. ~l.review /\ ~r.review /\ d \in l.lines /\ e \in r.lines
  BY DEF Tells, Silent, EventsOf
<1>5. SaysTruly(l, shows[s].layout, one) /\ SaysTruly(r, shows[t].layout, other)
  BY <1>1, <1>3, <1>4, ReadingAssumption
<1>6. p # q
  BY <1>2, <1>5 DEF SaysTruly
<1>7. Scoring!Similar(l, r)
  BY <1>6, ToldTruly
<1>8. Row(p) = l /\ Row(q) = r
  BY DEF Row
<1> HIDE DEF one, other, l, r
<1>9. /\ l.day = one.day /\ r.day = other.day /\ l.amount = one.amount.value /\ r.amount = one.amount.value
      /\ l.way = "credit" /\ r.way = "debit" /\ l.currency = r.currency
  BY <1>2, <1>5 DEF SaysTruly
<1>10. one.day # None /\ other.day # None /\ one.amount.value # None
  BY <1>2, WorldAssumption
<1>11. ComesBack(p, q)
  BY <1>2, <1>7, <1>8, <1>9, <1>10 DEF ComesBack, Scoring!SameAmount, Scoring!Same, Scoring!Known
<1> HIDE DEF p, q
<1>12. p \in Dated(Today) /\ q \in Dated(Today) /\ p \notin seen.decided
  BY DEF p, q
<1>13. Returned(p, q)
  BY <1>11, <1>12 DEF EvidenceInv, AllFound
<1> QED BY <1>13 DEF p, q

\* A refund told truly is stored with its purchase, with the score of a strong match, unless
\* its row was corrected before the command ran: also when the purchase was.
THEOREM RefundAlwaysFound == Spec => []RefundFound
<1>1. EvidenceInv => RefundFound
  BY RefundsFound
<1> QED BY <1>1, EvidenceInvariant, PTL
=============================================================================
