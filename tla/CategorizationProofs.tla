------------------------ MODULE CategorizationProofs ------------------------
(***************************************************************************)
(* For any transactions, rules, learned names and categories: the engine   *)
(* always decides, and decides the same however often and in whatever      *)
(* order it runs; what a user answered or confirmed is changed by nobody   *)
(* else; a rule applied backwards stays within its preview.                *)
(***************************************************************************)
EXTENDS Categorization, FiniteSetTheorems, WellFoundedInduction, TLAPS

-----------------------------------------------------------------------------
(* The first of a finite set *)

\* What holds of a finite set as soon as it holds of its proper subsets.
LEMMA SubsetInduction ==
  ASSUME NEW T, IsFiniteSet(T), NEW Good,
         \A s \in SUBSET T : (\A u \in SUBSET s : u # s => u \in Good) => s \in Good
  PROVE  T \in Good
<1> DEFINE Bad == (SUBSET T) \ Good
<1>1. Bad \subseteq FiniteSubsetsOf(T)
  BY FS_Subset DEF FiniteSubsetsOf
<1>2. SUFFICES ASSUME Bad # {} PROVE FALSE
  OBVIOUS
<1>3. \E x \in Bad : \A y \in Bad : ~(<<y, x>> \in StrictSubsetOrdering(T))
  <2> HIDE DEF Bad
  <2> QED BY <1>1, <1>2, FS_StrictSubsetOrderingWellFounded, WFMin
<1>4. PICK x \in Bad : \A y \in Bad : ~(<<y, x>> \in StrictSubsetOrdering(T))
  BY <1>3
<1>5. \A u \in SUBSET x : u # x => u \in Good
  <2> SUFFICES ASSUME NEW u \in SUBSET x, u # x, u \notin Good PROVE FALSE
    OBVIOUS
  <2>1. u \in Bad /\ <<u, x>> \in StrictSubsetOrdering(T)
    BY DEF StrictSubsetOrdering
  <2> QED BY <1>4, <2>1
<1> QED BY <1>5

Firsts(S, Order) == {x \in S : \A y \in S \ {x} : <<x, y>> \in Order}

\* An order in which any two elements of a finite set can be compared has a first one.
LEMMA FirstExists ==
  ASSUME NEW S, IsFiniteSet(S), S # {}, NEW Order,
         \A x, y \in S : x # y => <<x, y>> \in Order \/ <<y, x>> \in Order,
         \A x, y, z \in S : <<x, y>> \in Order /\ <<y, z>> \in Order => <<x, z>> \in Order
  PROVE  Firsts(S, Order) # {}
<1> DEFINE First(s, x) == x \in s /\ \A y \in s \ {x} : <<x, y>> \in Order
           Good == {s \in SUBSET S : s # {} => \E x \in s : First(s, x)}
<1>1. ASSUME NEW s \in SUBSET S, \A u \in SUBSET s : u # s => u \in Good PROVE s \in Good
  <2> SUFFICES ASSUME s # {} PROVE \E x \in s : First(s, x)
    OBVIOUS
  <2>1. PICK x \in s : TRUE
    OBVIOUS
  <2>2. CASE s = {x}
    BY <2>2
  <2>3. CASE s # {x}
    <3>1. s \ {x} \in SUBSET s /\ s \ {x} # s /\ s \ {x} # {}
      BY <2>1, <2>3
    <3> DEFINE r == s \ {x}
    <3>r. r \in Good
      <4> HIDE DEF Good, r
      <4> QED BY <1>1, <3>1 DEF r
    <3>2. PICK b \in s \ {x} : First(s \ {x}, b)
      BY <3>r, <3>1
    <3>3. CASE <<b, x>> \in Order
      BY <3>2, <3>3
    <3>4. CASE <<x, b>> \in Order
      <4>1. \A y \in s \ {x} : <<x, y>> \in Order
        BY <3>2, <3>4
      <4> QED BY <4>1
    <3> QED BY <3>3, <3>4
  <2> QED BY <2>2, <2>3
<1> HIDE DEF Good
<1>2. S \in Good
  BY <1>1, SubsetInduction
<1> QED BY <1>2 DEF Good, Firsts

LEMMA MaxIn ==
  ASSUME NEW S \in SUBSET Nat, IsFiniteSet(S), S # {}
  PROVE  Max(S) \in S /\ \A y \in S : Max(S) >= y
<1> DEFINE R == {p \in S \X S : p[1] >= p[2]}
<1>1. \A x, y \in S : <<x, y>> \in R <=> x >= y
  OBVIOUS
<1> HIDE DEF R
<1>2. \A x, y \in S : x # y => <<x, y>> \in R \/ <<y, x>> \in R
  BY <1>1
<1>3. \A x, y, z \in S : <<x, y>> \in R /\ <<y, z>> \in R => <<x, z>> \in R
  BY <1>1
<1>4. Firsts(S, R) # {}
  BY <1>2, <1>3, FirstExists
<1>5. PICK x \in S : \A y \in S \ {x} : <<x, y>> \in R
  BY <1>4 DEF Firsts
<1>6. \A y \in S : x >= y
  <2> TAKE y \in S
  <2>1. x \in Nat /\ y \in Nat
    OBVIOUS
  <2>2. CASE y = x
    BY <2>1, <2>2
  <2>3. CASE y # x
    BY <1>1, <1>5, <2>3
  <2> QED BY <2>2, <2>3
<1> QED BY <1>6 DEF Max

LEMMA MinIn ==
  ASSUME NEW S \in SUBSET Nat, IsFiniteSet(S), S # {}
  PROVE  Min(S) \in S /\ \A y \in S : Min(S) <= y
<1> DEFINE R == {p \in S \X S : p[1] <= p[2]}
<1>1. \A x, y \in S : <<x, y>> \in R <=> x <= y
  OBVIOUS
<1> HIDE DEF R
<1>2. \A x, y \in S : x # y => <<x, y>> \in R \/ <<y, x>> \in R
  BY <1>1
<1>3. \A x, y, z \in S : <<x, y>> \in R /\ <<y, z>> \in R => <<x, z>> \in R
  BY <1>1
<1>4. Firsts(S, R) # {}
  BY <1>2, <1>3, FirstExists
<1>5. PICK x \in S : \A y \in S \ {x} : <<x, y>> \in R
  BY <1>4 DEF Firsts
<1>6. \A y \in S : x <= y
  <2> TAKE y \in S
  <2>1. x \in Nat /\ y \in Nat
    OBVIOUS
  <2>2. CASE y = x
    BY <2>1, <2>2
  <2>3. CASE y # x
    BY <1>1, <1>5, <2>3
  <2> QED BY <2>2, <2>3
<1> QED BY <1>6 DEF Min

-----------------------------------------------------------------------------
(* The engine *)

LEMMA RuleFields ==
  ASSUME NEW R \in Seq(Rules), NEW i \in DOMAIN R
  PROVE  /\ i \in Nat
         /\ R[i].priority \in Nat
         /\ R[i].category \in Categories
BY DEF Rules

\* _by_specificity orders the rules: it never leaves two of them open.
LEMMA BeforeOrders ==
  ASSUME NEW R \in Seq(Rules), NEW row
  PROVE  /\ \A i, j \in DOMAIN R : i # j => Before(R, i, j, row) \/ Before(R, j, i, row)
         /\ \A i, j \in DOMAIN R : ~(Before(R, i, j, row) /\ Before(R, j, i, row))
         /\ \A i, j, k \in DOMAIN R :
              Before(R, i, j, row) /\ Before(R, j, k, row) => Before(R, i, k, row)
<1>1. \A i \in DOMAIN R : i \in Nat /\ R[i].priority \in Nat /\ Rank(R[i], row) \in Nat
  BY RuleFields DEF Rank
<1> QED BY <1>1 DEF Before

LEMMA RuleFirst ==
  ASSUME NEW R \in Seq(Rules), NEW row, NEW S \in SUBSET DOMAIN R, S # {}
  PROVE  \E i \in S : \A j \in S \ {i} : Before(R, i, j, row)
<1> DEFINE O == {p \in S \X S : Before(R, p[1], p[2], row)}
<1>1. \A i, j \in S : <<i, j>> \in O <=> Before(R, i, j, row)
  OBVIOUS
<1>2. IsFiniteSet(S)
  <2>1. IsFiniteSet(1 .. Len(R)) /\ S \in SUBSET (1 .. Len(R))
    BY FS_Interval
  <2> QED BY <2>1, FS_Subset
<1> HIDE DEF O
<1>3. \A x, y \in S : x # y => <<x, y>> \in O \/ <<y, x>> \in O
  BY <1>1, BeforeOrders
<1>4. \A x, y, z \in S : <<x, y>> \in O /\ <<y, z>> \in O => <<x, z>> \in O
  BY <1>1, BeforeOrders
<1>5. Firsts(S, O) # {}
  BY <1>2, <1>3, <1>4, FirstExists
<1> QED BY <1>1, <1>5 DEF Firsts

Fitting(R, type, pattern, row) ==
  {i \in DOMAIN R : R[i].type = type /\ R[i].pattern = pattern /\ Scoped(R[i], row)}

LEMMA RuleDecides ==
  ASSUME NEW R \in Seq(Rules), NEW type, NEW pattern, NEW row
  PROVE  \/ /\ pattern \in {<<>>, None} \/ Fitting(R, type, pattern, row) = {}
            /\ ByRule(R, type, pattern, row) = None
         \/ /\ pattern \notin {<<>>, None}
            /\ \E i \in Fitting(R, type, pattern, row) :
                 /\ \A j \in Fitting(R, type, pattern, row) \ {i} : Before(R, i, j, row)
                 /\ ByRule(R, type, pattern, row) = R[i].category
<1> DEFINE F == Fitting(R, type, pattern, row)
           a == CHOOSE i \in F : \A j \in F \ {i} : Before(R, i, j, row)
<1>1. ByRule(R, type, pattern, row) =
        IF pattern \in {<<>>, None} \/ F = {} THEN None ELSE R[a].category
  BY DEF ByRule, Fitting
<1>2. F \in SUBSET DOMAIN R
  BY DEF Fitting
<1> HIDE DEF F
<1>3. F # {} => a \in F /\ \A j \in F \ {a} : Before(R, a, j, row)
  BY <1>2, RuleFirst
<1> HIDE DEF a
<1> QED BY <1>1, <1>3 DEF F

LEMMA RuleCategory ==
  ASSUME NEW R \in Seq(Rules), NEW type, NEW pattern, NEW row
  PROVE  ByRule(R, type, pattern, row) \in Categories \cup {None}
BY RuleDecides, RuleFields DEF Fitting

\* A rule looks at the row's card and account only.
LEMMA RuleSame ==
  ASSUME NEW R \in Seq(Rules), NEW type, NEW pattern, NEW row, NEW other,
         other.card = row.card, other.account = row.account
  PROVE  ByRule(R, type, pattern, other) = ByRule(R, type, pattern, row)
<1> DEFINE F == Fitting(R, type, pattern, row)
<1>1. Fitting(R, type, pattern, other) = F
  BY DEF Fitting, Scoped
<1>2. \A i, j \in DOMAIN R : Before(R, i, j, other) <=> Before(R, i, j, row)
  BY DEF Before, Rank
<1>3. F \subseteq DOMAIN R
  BY DEF Fitting
<1>4. \A i, j \in F : (\A k \in F \ {i} : Before(R, i, k, row))
                     /\ (\A k \in F \ {j} : Before(R, j, k, row)) => i = j
  BY <1>3, BeforeOrders
<1> HIDE DEF F
<1>5. CASE pattern \in {<<>>, None} \/ F = {}
  BY <1>1, <1>5, RuleDecides DEF F
<1>6. CASE pattern \notin {<<>>, None} /\ F # {}
  <2>1. PICK i \in F : /\ \A k \in F \ {i} : Before(R, i, k, row)
                       /\ ByRule(R, type, pattern, row) = R[i].category
    BY <1>6, RuleDecides DEF F
  <2>2. PICK j \in F : /\ \A k \in F \ {j} : Before(R, j, k, other)
                       /\ ByRule(R, type, pattern, other) = R[j].category
    BY <1>1, <1>6, RuleDecides
  <2>3. \A k \in F \ {j} : Before(R, j, k, row)
    BY <1>2, <1>3, <2>2
  <2> QED BY <1>4, <2>1, <2>2, <2>3
<1> QED BY <1>5, <1>6

OnCardRules(R, row) ==
  {i \in DOMAIN R : R[i].type = "payment_instrument" /\ R[i].active /\ R[i].card = row.card}

LEMMA CardDecides ==
  ASSUME NEW R \in Seq(Rules), NEW row
  PROVE  \/ /\ row.card = None \/ OnCardRules(R, row) = {}
            /\ ByCard(R, row) = None
         \/ /\ row.card # None
            /\ \E i \in OnCardRules(R, row) :
                 /\ \A j \in OnCardRules(R, row) \ {i} : Before(R, i, j, row)
                 /\ ByCard(R, row) = R[i].category
<1> DEFINE F == OnCardRules(R, row)
           Older(i, j) == \/ R[i].priority > R[j].priority
                          \/ R[i].priority = R[j].priority /\ i < j
           a == CHOOSE i \in F : \A j \in F \ {i} : Older(i, j)
<1>1. ByCard(R, row) = IF row.card = None \/ F = {} THEN None ELSE R[a].category
  BY DEF ByCard, OnCardRules
<1>2. F \in SUBSET DOMAIN R
  BY DEF OnCardRules
<1>3. \A i, j \in F : Older(i, j) <=> Before(R, i, j, row)
  BY DEF OnCardRules, Before, Rank
<1> HIDE DEF F, Older
<1>4. F # {} => \E i \in F : \A j \in F \ {i} : Older(i, j)
  BY <1>2, <1>3, RuleFirst
<1>5. F # {} => a \in F /\ \A j \in F \ {a} : Older(a, j)
  BY <1>4
<1> HIDE DEF a
<1> QED BY <1>1, <1>3, <1>5 DEF F

LEMMA CardCategory ==
  ASSUME NEW R \in Seq(Rules), NEW row
  PROVE  ByCard(R, row) \in Categories \cup {None}
BY CardDecides, RuleFields DEF OnCardRules

LEMMA CardSame ==
  ASSUME NEW R \in Seq(Rules), NEW row, NEW other, other.card = row.card,
         other.account = row.account
  PROVE  ByCard(R, other) = ByCard(R, row)
<1> DEFINE F == OnCardRules(R, row)
<1>1. OnCardRules(R, other) = F
  BY DEF OnCardRules
<1>2. \A i, j \in DOMAIN R : Before(R, i, j, other) <=> Before(R, i, j, row)
  BY DEF Before, Rank
<1>3. F \subseteq DOMAIN R
  BY DEF OnCardRules
<1>4. \A i, j \in F : (\A k \in F \ {i} : Before(R, i, k, row))
                     /\ (\A k \in F \ {j} : Before(R, j, k, row)) => i = j
  BY <1>3, BeforeOrders
<1> HIDE DEF F
<1>5. CASE row.card = None \/ F = {}
  BY <1>1, <1>5, CardDecides DEF F
<1>6. CASE row.card # None /\ F # {}
  <2>1. PICK i \in F : /\ \A k \in F \ {i} : Before(R, i, k, row)
                       /\ ByCard(R, row) = R[i].category
    BY <1>6, CardDecides DEF F
  <2>2. PICK j \in F : /\ \A k \in F \ {j} : Before(R, j, k, other)
                       /\ ByCard(R, other) = R[j].category
    BY <1>1, <1>6, CardDecides
  <2>3. \A k \in F \ {j} : Before(R, j, k, row)
    BY <1>2, <1>3, <2>2
  <2> QED BY <1>4, <2>1, <2>2, <2>3
<1> QED BY <1>5, <1>6

\* A name is learned once for a card and once for any card (the unique constraints
\* of MerchantAlias).
Unique(A) ==
  \A i, j \in DOMAIN A : A[i].token = A[j].token /\ A[i].card = A[j].card => i = j

Known(A, row) ==
  {i \in DOMAIN A : /\ A[i].token = row.token /\ A[i].category # None
                    /\ A[i].card \in {None, row.card}}

LEMMA AliasDecides ==
  ASSUME NEW A \in Seq(Aliases), Unique(A), NEW row
  PROVE  \/ /\ row.token = <<>> \/ Known(A, row) = {}
            /\ ByAlias(A, row) = None
         \/ /\ row.token # <<>>
            /\ \E i \in Known(A, row) :
                 /\ \A j \in Known(A, row) \ {i} : A[i].card = row.card
                 /\ ByAlias(A, row) = A[i].category
<1> DEFINE F == Known(A, row)
           a == CHOOSE i \in F : \A j \in F \ {i} : A[i].card = row.card
<1>1. ByAlias(A, row) = IF row.token = <<>> \/ F = {} THEN None ELSE A[a].category
  BY DEF ByAlias, Known
<1>2. ASSUME NEW x \in F PROVE \E i \in F : \A j \in F \ {i} : A[i].card = row.card
  <2>1. CASE F = {x}
    BY <2>1
  <2>2. CASE F # {x}
    <3>1. PICK y \in F : y # x
      BY <2>2
    <3>2. A[x].card = row.card \/ A[y].card = row.card
      BY <3>1 DEF Known, Unique
    <3> QED BY <3>2
  <2> QED BY <2>1, <2>2
<1>3. F # {} => a \in F /\ \A j \in F \ {a} : A[a].card = row.card
  <2> HIDE DEF F
  <2> QED BY <1>2
<1> HIDE DEF a
<1> QED BY <1>1, <1>3

LEMMA AliasCategory ==
  ASSUME NEW A \in Seq(Aliases), Unique(A), NEW row
  PROVE  ByAlias(A, row) \in Categories \cup {None}
<1>1. \A i \in DOMAIN A : A[i] \in Aliases
  OBVIOUS
<1>2. \A i \in DOMAIN A : A[i].category \in Categories \cup {None}
  BY <1>1 DEF Aliases
<1> QED BY <1>2, AliasDecides DEF Known

\* A learned name looks at the row's token and card only.
LEMMA AliasSame ==
  ASSUME NEW A \in Seq(Aliases), Unique(A), NEW row, NEW other,
         other.card = row.card, other.token = row.token
  PROVE  ByAlias(A, other) = ByAlias(A, row)
<1> DEFINE F == Known(A, row)
<1>1. Known(A, other) = F
  BY DEF Known
<1>2. \A i, j \in F : (\A k \in F \ {i} : A[i].card = row.card)
                     /\ (\A k \in F \ {j} : A[j].card = row.card) => i = j
  BY DEF Known, Unique
<1> HIDE DEF F
<1>3. CASE row.token = <<>> \/ F = {}
  BY <1>1, <1>3, AliasDecides DEF F
<1>4. CASE row.token # <<>> /\ F # {}
  <2>1. PICK i \in F : /\ \A k \in F \ {i} : A[i].card = row.card
                       /\ ByAlias(A, row) = A[i].category
    BY <1>4, AliasDecides DEF F
  <2>2. PICK j \in F : /\ \A k \in F \ {j} : A[j].card = row.card
                       /\ ByAlias(A, other) = A[j].category
    BY <1>1, <1>4, AliasDecides
  <2> QED BY <1>2, <2>1, <2>2
<1> QED BY <1>3, <1>4

LEMMA RowFields ==
  ASSUME NEW row \in Transactions \cup {Absent}
  PROVE  /\ row.category \in Categories \cup {None}
         /\ row.source \in Sources
         /\ row.status = "absent" => row = Absent
         /\ row.status # "absent" => row \in Transactions
BY DEF Transactions, Absent, Sources

Rows == [Txs -> Transactions \cup {Absent}]

LEMMA PriorDecides ==
  ASSUME CategorizationAssumption, NEW T \in Rows, NEW t \in Txs
  PROVE  \/ /\ T[t].token = <<>> \/ AnsweredBefore(T, t) = {}
            /\ Prior(T, t) = None
         \/ \E s \in AnsweredBefore(T, t) : s \in Txs /\ Prior(T, t) = T[s].category
<1> DEFINE F == AnsweredBefore(T, t)
<1>1. F \in SUBSET Txs
  BY DEF AnsweredBefore, Rows
<1>2. F \in SUBSET Nat /\ IsFiniteSet(F)
  BY <1>1, FS_Subset DEF CategorizationAssumption
<1>3. F # {} => Max(F) \in F
  <2> HIDE DEF F
  <2> QED BY <1>2, MaxIn
<1> QED BY <1>1, <1>3 DEF Prior

\* PRECEDENCE: six sources, each with a category or none.
LEMMA AskedTypes ==
  ASSUME CategorizationAssumption, NEW T \in Rows, NEW R \in Seq(Rules), NEW A \in Seq(Aliases),
         Unique(A), NEW t \in Txs
  PROVE  \A i \in 1 .. 6 : /\ Asked(T, R, A, t)[i][1] \in Sources \ {"manual_override"}
                           /\ Asked(T, R, A, t)[i][2] \in Categories \cup {None}
<1> DEFINE row == T[t]
<1>1. row.category \in Categories \cup {None}
  BY RowFields DEF Rows
<1>2. Prior(T, t) \in Categories \cup {None}
  <2>1. \A s \in Txs : T[s].category \in Categories \cup {None}
    BY RowFields DEF Rows
  <2>2. Prior(T, t) = None \/ \E s \in Txs : Prior(T, t) = T[s].category
    BY PriorDecides
  <2> QED BY <2>1, <2>2
<1>3. /\ ByRule(R, "merchant_exact", row.token, row) \in Categories \cup {None}
      /\ ByRule(R, "counterparty_exact", row.payee, row) \in Categories \cup {None}
  BY RuleCategory
<1>4. ByCard(R, row) \in Categories \cup {None}
  BY CardCategory
<1>5. ByAlias(A, row) \in Categories \cup {None}
  BY AliasCategory
<1> HIDE DEF row
<1>6. \A i \in 1 .. 6 : i \in {1, 2, 3, 4, 5, 6}
  OBVIOUS
<1> QED BY <1>1, <1>2, <1>3, <1>4, <1>5, <1>6 DEF Asked, Sources, row

\* What the engine answers: what is on the row already, nothing, or what the first
\* source with a category says.
LEMMA EngineDecides ==
  ASSUME NEW T, NEW R, NEW A, NEW t, T[t].source # "manual_override"
  PROVE  \/ /\ \A i \in 1 .. 6 : Asked(T, R, A, t)[i][2] = None
            /\ Decide(T, R, A, t) = <<"uncategorized", None>>
         \/ \E i \in 1 .. 6 :
              /\ Asked(T, R, A, t)[i][2] # None
              /\ \A j \in 1 .. 6 : j < i => Asked(T, R, A, t)[j][2] = None
              /\ Decide(T, R, A, t) = Asked(T, R, A, t)[i]
<1> DEFINE Hits == {i \in 1 .. 6 : Asked(T, R, A, t)[i][2] # None}
<1>1. Decide(T, R, A, t) = IF Hits = {} THEN <<"uncategorized", None>>
                           ELSE Asked(T, R, A, t)[Min(Hits)]
  BY DEF Decide
<1>2. Hits \in SUBSET Nat /\ IsFiniteSet(Hits)
  <2>1. Hits \in SUBSET Nat /\ \A i \in Hits : i <= 6
    OBVIOUS
  <2> HIDE DEF Hits
  <2> QED BY <2>1, FS_BoundedSetOfNaturals
<1>3. Hits # {} => Min(Hits) \in Hits /\ \A j \in Hits : Min(Hits) <= j
  <2> HIDE DEF Hits
  <2> QED BY <1>2, MinIn
<1>4. CASE Hits = {}
  BY <1>1, <1>4
<1>5. CASE Hits # {}
  <2> DEFINE m == Min(Hits)
  <2>1. m \in Hits /\ (\A j \in Hits : m <= j) /\ Decide(T, R, A, t) = Asked(T, R, A, t)[m]
    BY <1>1, <1>3, <1>5
  <2> HIDE DEF m
  <2>2. m \in 1 .. 6 /\ Asked(T, R, A, t)[m][2] # None
    BY <2>1
  <2>3. \A j \in 1 .. 6 : j < m => Asked(T, R, A, t)[j][2] = None
    BY <2>1, <2>2
  <2> QED BY <2>1, <2>2, <2>3
<1> QED BY <1>4, <1>5

LEMMA DecisionTypes ==
  ASSUME CategorizationAssumption, NEW T \in Rows, NEW R \in Seq(Rules), NEW A \in Seq(Aliases),
         Unique(A), NEW t \in Txs
  PROVE  /\ Decide(T, R, A, t)[1] \in Sources
         /\ Decide(T, R, A, t)[2] \in Categories \cup {None}
         /\ T[t].source = "manual_override" => Decide(T, R, A, t)[2] = T[t].category
         /\ T[t].source # "manual_override" => Decide(T, R, A, t)[1] # "manual_override"
<1>1. CASE T[t].source = "manual_override"
  <2>1. Decide(T, R, A, t) = <<T[t].source, T[t].category>>
    BY <1>1 DEF Decide
  <2>2. T[t].category \in Categories \cup {None} /\ T[t].source \in Sources
    BY RowFields DEF Rows
  <2> QED BY <1>1, <2>1, <2>2
<1>2. CASE T[t].source # "manual_override"
  BY <1>2, EngineDecides, AskedTypes DEF Sources
<1> QED BY <1>1, <1>2

-----------------------------------------------------------------------------
(* Types *)

Inv == TypeOK /\ Unique(alias)

LEMMA StoredType ==
  ASSUME NEW row \in Transactions, NEW decision, decision[1] \in Sources,
         decision[2] \in Categories \cup {None}
  PROVE  Stored(row, decision) \in Transactions
BY DEF Stored, Transactions

LEMMA SeenTypes ==
  ASSUME CategorizationAssumption, NEW t \in Txs, NEW v \in Seen[t]
  PROVE  /\ v[1] \in Names \cup {<<>>}
         /\ v[2] \in Payees \cup {None}
         /\ v[3] \in Cards \cup {None}
         /\ v[4] \in Accounts
<1>1. v \in (Names \cup {<<>>}) \X (Payees \cup {None}) \X (Cards \cup {None}) \X Accounts
  BY DEF CategorizationAssumption
<1> QED BY <1>1

LEMMA TokenType == \A name \in Names \cup {<<>>} : Token(name) \in Tokens
BY DEF Tokens

LEMMA EntersTypes ==
  ASSUME CategorizationAssumption, TypeOK, NEW t \in Txs, Enters(t)
  PROVE  TypeOK'
<1>1. PICK v \in Seen[t], c \in Maybe(Categories) :
        \/ \E imported \in Names \cup {<<>>} : Accept(t, imported, v[1], v[3], v[4], c)
        \/ CreateManual(t, v[1], v[2], v[3], v[4], c)
  BY DEF Enters
<1>2. /\ v[1] \in Names \cup {<<>>} /\ v[2] \in Payees \cup {None}
      /\ v[3] \in Cards \cup {None} /\ v[4] \in Accounts /\ c \in Categories \cup {None}
  BY <1>1, SeenTypes DEF Maybe
<1>3. ASSUME NEW imported \in Names \cup {<<>>}, Accept(t, imported, v[1], v[3], v[4], c)
      PROVE  TypeOK'
  <2>1. [status |-> "draft", name |-> v[1], token |-> Token(imported), payee |-> None,
         card |-> v[3], account |-> v[4], category |-> c,
         source |-> IF c = None THEN "uncategorized" ELSE "parser"] \in Transactions
    BY <1>2, TokenType DEF Transactions, Sources
  <2>2. tx' \in Rows
    BY <1>3, <2>1 DEF Accept, TypeOK, Rows
  <2> QED BY <1>3, <2>2 DEF Accept, TypeOK, Rows
<1>4. CASE CreateManual(t, v[1], v[2], v[3], v[4], c)
  <2>1. [status |-> "draft", name |-> v[1], token |-> Token(v[1]), payee |-> v[2],
         card |-> v[3], account |-> v[4], category |-> c, source |-> tx[t].source]
        \in Transactions
    BY <1>2, TokenType, RowFields DEF Transactions, TypeOK
  <2>2. tx' \in Rows
    BY <1>4, <2>1 DEF CreateManual, Typed, TypeOK, Rows
  <2> QED BY <1>4, <2>2 DEF CreateManual, Typed, TypeOK, Rows
<1> QED BY <1>1, <1>3, <1>4

LEMMA AnsweredTypes ==
  ASSUME TypeOK, NEW t \in Txs, tx[t].status # "absent", NEW c \in Categories \cup {None}
  PROVE  /\ Answered(t, c) \in Rows
         /\ Answered(t, c)[t] = Stored(tx[t], <<"manual_override", c>>)
         /\ \A s \in Txs \ {t} : Answered(t, c)[s] = tx[s]
<1>1. tx[t] \in Transactions
  BY RowFields DEF TypeOK
<1>2. Stored(tx[t], <<"manual_override", c>>) \in Transactions
  BY <1>1, StoredType DEF Sources
<1> QED BY <1>2 DEF Answered, TypeOK, Rows

LEMMA CreateRuleTypes ==
  ASSUME CategorizationAssumption, Inv, NEW t \in Txs, NEW c \in Categories,
         NEW scope \in Scopes, NEW back \in BOOLEAN, CreateRule(t, c, scope, back)
  PROVE  TypeOK'
<1>0. TypeOK /\ tx[t].status # "absent" /\ c \in Categories \cup {None}
  BY DEF CreateRule, Inv
<1>others. \A u \in Txs \ {t} : Answered(t, c)[u] = tx[u]
  BY <1>0, AnsweredTypes
<1> DEFINE T == Answered(t, c)
<1>1. T \in Rows
  BY <1>0, AnsweredTypes
<1>2. CorrectionRule(t, c, scope) \in Rules
  <2>1. tx[t] \in Transactions
    BY RowFields DEF CreateRule, Inv, TypeOK
  <2>2. Token(tx[t].name) \in Tokens \ {<<>>} /\ tx[t].card \in Cards \cup {None}
    BY <2>1, TokenType DEF CreateRule, Keyed, Transactions
  <2> QED BY <2>2 DEF CorrectionRule, Rules
<1>3. rules' \in Seq(Rules)
  BY <1>2 DEF CreateRule, Inv, TypeOK
<1>4. tx' = [s \in Txs |-> IF back /\ s \in Reached(t, scope)
                           THEN Stored(T[s], Decide(T, rules', alias, s)) ELSE T[s]]
  BY DEF CreateRule
<1>5. ASSUME NEW s \in Txs, s \in Reached(t, scope)
      PROVE  Stored(T[s], Decide(T, rules', alias, s)) \in Transactions
  <2>1. s # t /\ tx[s].status # "absent"
    BY <1>5 DEF Reached, Matching
  <2>2. T[s] = tx[s] /\ tx[s] \in Transactions
    <3>1. tx[s] \in Transactions
      BY <2>1, RowFields DEF Inv, TypeOK
    <3>2. T[s] = tx[s]
      BY <1>others, <2>1
    <3> QED BY <3>1, <3>2
  <2>3. /\ Decide(T, rules', alias, s)[1] \in Sources
        /\ Decide(T, rules', alias, s)[2] \in Categories \cup {None}
    <3> HIDE DEF T
    <3> QED BY <1>1, <1>3, DecisionTypes DEF Inv, TypeOK
  <2> QED BY <2>2, <2>3, StoredType
<1> HIDE DEF T
<1>6. tx' \in Rows
  BY <1>1, <1>4, <1>5 DEF Rows
<1> QED BY <1>3, <1>6 DEF CreateRule, Inv, TypeOK, Rows

LEMMA ByHandTypes ==
  ASSUME CategorizationAssumption, Inv, NEW t \in Txs, ByHand(t)
  PROVE  TypeOK'
<1>1. ASSUME NEW c \in Maybe(Categories), SetManually(t, c) PROVE TypeOK'
  BY <1>1, AnsweredTypes DEF SetManually, Maybe, Inv, TypeOK, Rows
<1>2. ASSUME NEW c \in Maybe(Categories), CorrectConfirmed(t, c) PROVE TypeOK'
  <2>1. tx[t] \in Transactions
    BY <1>2, RowFields DEF CorrectConfirmed, Inv, TypeOK
  <2>2. [tx[t] EXCEPT !.category = c] \in Transactions
    BY <2>1 DEF Transactions, Maybe
  <2> QED BY <1>2, <2>2 DEF CorrectConfirmed, Inv, TypeOK
<1>3. ASSUME NEW c \in Categories, NEW scope \in Scopes, NEW back \in BOOLEAN,
             CreateRule(t, c, scope, back)
      PROVE  TypeOK'
  BY <1>3, CreateRuleTypes
<1>4. ASSUME NEW v \in Seen[t], NEW c \in Maybe(Categories),
             UpdateManual(t, v[1], v[2], v[3], v[4], c)
      PROVE  TypeOK'
  <2>1. /\ v[1] \in Names \cup {<<>>} /\ v[2] \in Payees \cup {None}
        /\ v[3] \in Cards \cup {None} /\ v[4] \in Accounts
    BY SeenTypes
  <2>2. [status |-> "draft", name |-> v[1], token |-> Token(v[1]), payee |-> v[2],
         card |-> v[3], account |-> v[4], category |-> c, source |-> tx[t].source]
        \in Transactions
    BY <2>1, TokenType, RowFields DEF Transactions, Inv, TypeOK, Maybe
  <2> QED BY <1>4, <2>2 DEF UpdateManual, Typed, Inv, TypeOK
<1> QED BY <1>1, <1>2, <1>3, <1>4 DEF ByHand

LEMMA CategorizeTypes ==
  ASSUME CategorizationAssumption, Inv, NEW t \in Txs, Categorize(t)
  PROVE  TypeOK'
<1>1. tx[t] \in Transactions
  BY RowFields DEF Categorize, Inv, TypeOK
<1>2. /\ Decide(tx, rules, alias, t)[1] \in Sources
      /\ Decide(tx, rules, alias, t)[2] \in Categories \cup {None}
  BY DecisionTypes DEF Inv, TypeOK, Rows
<1>3. Stored(tx[t], Decide(tx, rules, alias, t)) \in Transactions
  BY <1>1, <1>2, StoredType
<1> QED BY <1>3 DEF Categorize, Inv, TypeOK

LEMMA AliasTypes ==
  ASSUME CategorizationAssumption, Inv, NEW v \in OtherAliases, CreateAlias(v[1], v[2], v[3])
  PROVE  Inv'
<1> DEFINE new == [token |-> Token(v[1]), card |-> v[2], category |-> v[3]]
<1>1. v \in Names \X (Cards \cup {None}) \X (Categories \cup {None})
  BY DEF CategorizationAssumption
<1>2. new \in Aliases
  BY <1>1, TokenType DEF Aliases, CreateAlias, Keyed
<1>3. alias \in Seq(Aliases) /\ alias' = Append(alias, new)
  BY DEF Inv, TypeOK, CreateAlias
<1>4. \A i \in DOMAIN alias : ~(alias[i].token = new.token /\ alias[i].card = new.card)
  BY DEF CreateAlias
<1>5. /\ alias' \in Seq(Aliases)
      /\ DOMAIN alias = 1 .. Len(alias) /\ Len(alias) \in Nat
      /\ DOMAIN alias' = 1 .. Len(alias) + 1
      /\ \A i \in DOMAIN alias : alias'[i] = alias[i]
      /\ alias'[Len(alias) + 1] = new
  <2> HIDE DEF new
  <2> QED BY <1>2, <1>3
<1> HIDE DEF new
<1>6. \A i \in DOMAIN alias' : i \in DOMAIN alias \/ i = Len(alias) + 1
  BY <1>5
<1>7. ASSUME NEW i \in DOMAIN alias', NEW j \in DOMAIN alias',
             alias'[i].token = alias'[j].token, alias'[i].card = alias'[j].card
      PROVE  i = j
  <2>1. CASE i \in DOMAIN alias /\ j \in DOMAIN alias
    BY <1>5, <1>7, <2>1 DEF Inv, Unique
  <2>2. CASE i \in DOMAIN alias /\ j = Len(alias) + 1
    BY <1>4, <1>5, <1>7, <2>2
  <2>3. CASE i = Len(alias) + 1 /\ j \in DOMAIN alias
    BY <1>4, <1>5, <1>7, <2>3
  <2> QED BY <1>6, <2>1, <2>2, <2>3
<1>8. Unique(alias')
  BY <1>7 DEF Unique
<1> QED BY <1>5, <1>8 DEF Inv, TypeOK, CreateAlias

LEMMA InvInit ==
  ASSUME RulesAssumption, Init
  PROVE  Inv
BY DEF RulesAssumption, Init, Inv, TypeOK, Unique

LEMMA InvStep ==
  ASSUME CategorizationAssumption, RulesAssumption, Inv, [Next]_vars
  PROVE  Inv'
<1>1. ASSUME NEW t \in Txs, Enters(t) PROVE Inv'
  <2>1. TypeOK'
    BY <1>1, EntersTypes DEF Inv
  <2>2. UNCHANGED alias
    BY <1>1 DEF Enters, Accept, CreateManual, Typed
  <2> QED BY <2>1, <2>2 DEF Inv
<1>2. ASSUME NEW t \in Txs, ByHand(t) PROVE Inv'
  <2>1. TypeOK'
    BY <1>2, ByHandTypes
  <2>2. UNCHANGED alias
    BY <1>2 DEF ByHand, SetManually, CorrectConfirmed, CreateRule, UpdateManual, Typed
  <2> QED BY <2>1, <2>2 DEF Inv
<1>3. ASSUME NEW t \in Txs, Confirm(t) \/ Delete(t) PROVE Inv'
  <2>1. tx[t] \in Transactions
    BY <1>3, RowFields DEF Confirm, Delete, Inv, TypeOK
  <2>2. \A st \in {"confirmed", "voided"} : [tx[t] EXCEPT !.status = st] \in Transactions
    BY <2>1 DEF Transactions
  <2> QED BY <1>3, <2>2 DEF Confirm, Delete, Inv, TypeOK
<1>4. ASSUME NEW t \in Txs, Categorize(t) PROVE Inv'
  <2>1. TypeOK'
    BY <1>4, CategorizeTypes
  <2> QED BY <1>4, <2>1 DEF Categorize, Inv
<1>5. ASSUME NEW r \in OtherRules, AddRule(r) PROVE Inv'
  <2>1. r \in Rules
    BY DEF RulesAssumption
  <2> QED BY <1>5, <2>1 DEF AddRule, Inv, TypeOK
<1>6. ASSUME NEW i \in DOMAIN rules, NEW active \in BOOLEAN, SetRuleActive(i, active) PROVE Inv'
  <2>1. rules[i] \in Rules
    BY DEF Inv, TypeOK
  <2>2. [rules[i] EXCEPT !.active = active] \in Rules
    BY <2>1 DEF Rules
  <2>3. rules' \in Seq(Rules)
    BY <1>6, <2>2 DEF SetRuleActive, Inv, TypeOK
  <2> QED BY <1>6, <2>3 DEF SetRuleActive, Inv, TypeOK
<1>7. ASSUME NEW v \in OtherAliases, CreateAlias(v[1], v[2], v[3]) PROVE Inv'
  BY <1>7, AliasTypes
<1>8. CASE UNCHANGED vars
  BY <1>8 DEF vars, Inv, TypeOK
<1> QED BY <1>1, <1>2, <1>3, <1>4, <1>5, <1>6, <1>7, <1>8 DEF Next

\* Every decision is a category or none with the source it comes from, and a merchant
\* has one learned name per card and one for any card (TypeOK; the CHOOSEs of the
\* engine are thereby its queries' first rows).
THEOREM TypeCorrect == Spec => []TypeOK
<1>1. Init => Inv
  BY RulesAssumption, InvInit
<1>2. Inv /\ [Next]_vars => Inv'
  BY CategorizationAssumption, RulesAssumption, InvStep
<1>3. Inv => TypeOK
  BY DEF Inv
<1> QED BY <1>1, <1>2, <1>3, PTL DEF Spec

-----------------------------------------------------------------------------
(* Who changes a category *)

\* A rule made from t changes t and drafts nobody has answered, and no others.
LEMMA CreateRuleReaches ==
  ASSUME Inv, NEW t \in Txs, NEW c \in Categories, NEW scope \in Scopes, NEW back \in BOOLEAN,
         CreateRule(t, c, scope, back), NEW s \in Txs \ {t}, tx'[s] # tx[s]
  PROVE  s \in Preview(t, scope)
<1>1. \A u \in Txs \ {t} : Answered(t, c)[u] = tx[u]
  BY AnsweredTypes DEF CreateRule, Inv
<1>2. back /\ s \in Reached(t, scope)
  BY <1>1 DEF CreateRule
<1> QED BY <1>2 DEF Reached, Preview

LEMMA AnswerStands ==
  ASSUME CategorizationAssumption, Inv, [Next]_vars, NEW t \in Txs,
         tx[t].status = "confirmed" \/ tx[t].source = "manual_override",
         tx'[t].category # tx[t].category
  PROVE  ByHand(t)
<1>0. tx \in Rows /\ tx[t] \in Transactions
  <2>1. tx \in Rows /\ tx[t] # Absent
    BY DEF Inv, TypeOK, Absent, Rows
  <2> QED BY <2>1 DEF Rows
<1>1. ASSUME NEW s \in Txs, Enters(s) PROVE FALSE
  <2>1. tx[s].status = "absent" /\ \A u \in Txs \ {s} : tx'[u] = tx[u]
    BY <1>0, <1>1 DEF Enters, Accept, CreateManual, Typed, Rows
  <2>2. s # t
    BY <1>0, <2>1 DEF Transactions
  <2> QED BY <2>1, <2>2
<1>2. ASSUME NEW s \in Txs \ {t}, ByHand(s) PROVE FALSE
  <2>1. ASSUME NEW c \in Maybe(Categories), SetManually(s, c) \/ CorrectConfirmed(s, c)
        PROVE  tx'[t] = tx[t]
    BY <1>0, <2>1 DEF SetManually, CorrectConfirmed, Answered, Rows
  <2>2. ASSUME NEW c \in Categories, NEW scope \in Scopes, NEW back \in BOOLEAN,
               CreateRule(s, c, scope, back), tx'[t] # tx[t]
        PROVE  FALSE
    <3>1. t \in Preview(s, scope)
      BY <2>2, CreateRuleReaches
    <3> QED BY <3>1 DEF Preview
  <2>3. ASSUME NEW v \in Seen[s], NEW c \in Maybe(Categories),
               UpdateManual(s, v[1], v[2], v[3], v[4], c)
        PROVE  tx'[t] = tx[t]
    BY <1>0, <2>3 DEF UpdateManual, Typed, Rows
  <2> QED BY <1>2, <2>1, <2>2, <2>3 DEF ByHand
<1>3. ASSUME NEW s \in Txs, Confirm(s) \/ Delete(s) PROVE FALSE
  <2>1. PICK st \in {"confirmed", "voided"} : tx' = [tx EXCEPT ![s].status = st]
    BY <1>3 DEF Confirm, Delete
  <2>2. tx'[t] \in {tx[t], [tx[t] EXCEPT !.status = st]}
    BY <1>0, <2>1 DEF Rows
  <2> QED BY <1>0, <2>2 DEF Transactions
<1>4. ASSUME NEW s \in Txs, Categorize(s) PROVE FALSE
  <2>1. CASE s # t
    BY <1>0, <1>4, <2>1 DEF Categorize, Rows
  <2>2. CASE s = t
    <3>1. tx[t].source = "manual_override"
      BY <1>4, <2>2 DEF Categorize
    <3>2. Decide(tx, rules, alias, t)[2] = tx[t].category
      BY <1>0, <3>1, DecisionTypes DEF Inv, TypeOK
    <3>3. tx'[t] = Stored(tx[t], Decide(tx, rules, alias, t))
      BY <1>0, <1>4, <2>2 DEF Categorize, Rows
    <3> QED BY <1>0, <3>2, <3>3 DEF Stored, Transactions
  <2> QED BY <2>1, <2>2
<1>5. (\E r \in OtherRules : AddRule(r)) => tx' = tx
  BY DEF AddRule
<1>6. (\E i \in DOMAIN rules, active \in BOOLEAN : SetRuleActive(i, active)) => tx' = tx
  BY DEF SetRuleActive
<1>7. (\E v \in OtherAliases : CreateAlias(v[1], v[2], v[3])) => tx' = tx
  BY DEF CreateAlias
<1>8. UNCHANGED vars => tx' = tx
  BY DEF vars
<1> QED BY <1>1, <1>2, <1>3, <1>4, <1>5, <1>6, <1>7, <1>8 DEF Next

\* A category that is confirmed or was answered by the user is changed by nobody but
\* the user, and on that transaction, whatever rules, learned names and earlier
\* answers there are (engine.py "never overwritten").
THEOREM AnswersAlwaysKept == Spec => AnswersKept
<1>1. Spec => []Inv
  BY CategorizationAssumption, RulesAssumption, InvInit, InvStep, PTL DEF Spec
<1>2. Inv /\ [Next]_vars =>
        [\A t \in Txs :
           /\ tx[t].status = "confirmed" \/ tx[t].source = "manual_override"
           /\ tx'[t].category # tx[t].category
           => ByHand(t)]_vars
  BY CategorizationAssumption, AnswerStands
<1> QED BY <1>1, <1>2, PTL DEF Spec, AnswersKept

\* A rule applied backwards changes no transaction that the preview of its scope did
\* not count, apart from the corrected one (preview_rule, _apply_backwards).
THEOREM PreviewAlwaysHolds == Spec => PreviewHolds
<1>1. Spec => []Inv
  BY CategorizationAssumption, RulesAssumption, InvInit, InvStep, PTL DEF Spec
<1>2. Inv /\ [Next]_vars =>
        [\A t \in Txs, c \in Categories, scope \in Scopes :
           rules' # rules /\ CreateRule(t, c, scope, TRUE)
           => \A s \in Txs \ {t} : tx'[s] # tx[s] => s \in Preview(t, scope)]_vars
  BY CreateRuleReaches
<1> QED BY <1>1, <1>2, PTL DEF Spec, PreviewHolds

-----------------------------------------------------------------------------
(* The order of classification *)

\* What was answered before does not depend on categories nobody answered.
LEMMA PriorStays ==
  ASSUME CategorizationAssumption, NEW T \in Rows, NEW U \in Rows, NEW t \in Txs,
         \A x \in Txs : U[x].token = T[x].token,
         \A x \in Txs : \/ U[x] = T[x]
                       \/ /\ T[x].source # "manual_override"
                          /\ U[x].source # "manual_override"
  PROVE  Prior(U, t) = Prior(T, t)
<1> DEFINE F == AnsweredBefore(T, t)
<1>1. AnsweredBefore(U, t) = F
  <2>1. DOMAIN T = Txs /\ DOMAIN U = Txs
    BY DEF Rows
  <2>2. ASSUME NEW x \in Txs
        PROVE  x \in AnsweredBefore(U, t) <=> x \in F
    BY <2>1, <2>2 DEF AnsweredBefore
  <2>3. AnsweredBefore(U, t) \subseteq Txs /\ F \subseteq Txs
    BY <2>1 DEF AnsweredBefore
  <2> HIDE DEF F
  <2> QED BY <2>2, <2>3
<1>2. \A x \in F : U[x] = T[x]
  BY DEF AnsweredBefore, Rows
<1>3. F # {} => Max(F) \in F
  <2>1. F \in SUBSET Txs
    BY DEF AnsweredBefore, Rows
  <2>2. F \in SUBSET Nat /\ IsFiniteSet(F)
    BY <2>1, FS_Subset DEF CategorizationAssumption
  <2> HIDE DEF F
  <2> QED BY <2>2, MaxIn
<1>4. U[t].token = T[t].token
  OBVIOUS
<1> HIDE DEF F
<1> QED BY <1>1, <1>2, <1>3, <1>4 DEF Prior, F

LEMMA StoredSame ==
  ASSUME NEW row \in Transactions
  PROVE  Stored(row, <<row.source, row.category>>) = row
<1>1. /\ row = [row EXCEPT !.source = row.source]
      /\ row = [row EXCEPT !.category = row.category]
  BY DEF Transactions
<1> QED BY <1>1 DEF Stored

LEMMA StoredFields ==
  ASSUME NEW row \in Transactions, NEW d
  PROVE  /\ Stored(row, d).source = d[1] /\ Stored(row, d).category = d[2]
         /\ Stored(row, d).token = row.token /\ Stored(row, d).payee = row.payee
         /\ Stored(row, d).card = row.card /\ Stored(row, d).account = row.account
BY DEF Stored, Transactions

LEMMA DecisionStays ==
  ASSUME CategorizationAssumption, NEW T \in Rows, NEW R \in Seq(Rules), NEW A \in Seq(Aliases),
         Unique(A), NEW s \in Txs, T[s].status # "absent", NEW t \in Txs,
         NEW U \in Rows, U[s] = Stored(T[s], Decide(T, R, A, s)),
         \A x \in Txs \ {s} : U[x] = T[x]
  PROVE  Decide(U, R, A, t) = Decide(T, R, A, t)
<1> DEFINE d == Decide(T, R, A, s)
<1>1. T[s] \in Transactions
  BY RowFields DEF Rows
<1>2. /\ d[1] \in Sources /\ d[2] \in Categories \cup {None}
      /\ T[s].source = "manual_override" => d[2] = T[s].category
      /\ T[s].source # "manual_override" => d[1] # "manual_override"
  BY DecisionTypes
<1>3. CASE T[s].source = "manual_override"
  <2>1. d = <<T[s].source, T[s].category>>
    BY <1>3 DEF Decide
  <2>2. Stored(T[s], d) = T[s]
    BY <1>1, <2>1, StoredSame
  <2>3. \A x \in Txs : U[x] = T[x]
    BY <2>2
  <2>4. U = [x \in Txs |-> U[x]] /\ T = [x \in Txs |-> T[x]]
    BY DEF Rows
  <2>5. U = T
    BY <2>3, <2>4
  <2> QED BY <2>5
<1>4. CASE T[s].source # "manual_override"
  <2> HIDE DEF d
  <2>1. U[s] = Stored(T[s], d)
    BY DEF d
  <2>2. /\ U[s].source = d[1] /\ U[s].category = d[2]
        /\ U[s].token = T[s].token /\ U[s].payee = T[s].payee
        /\ U[s].card = T[s].card /\ U[s].account = T[s].account
    <3>1. /\ Stored(T[s], d).source = d[1] /\ Stored(T[s], d).category = d[2]
          /\ Stored(T[s], d).token = T[s].token /\ Stored(T[s], d).payee = T[s].payee
          /\ Stored(T[s], d).card = T[s].card /\ Stored(T[s], d).account = T[s].account
      BY <1>1, StoredFields
    <3> QED BY <2>1, <3>1
  <2>3. U[s].source # "manual_override"
    BY <1>2, <1>4, <2>2
  <2>4. Prior(U, t) = Prior(T, t)
    <3>1. \A x \in Txs : U[x].token = T[x].token
      BY <2>2
    <3>2. \A x \in Txs : \/ U[x] = T[x]
                        \/ /\ T[x].source # "manual_override"
                           /\ U[x].source # "manual_override"
      BY <1>4, <2>3
    <3> QED BY <3>1, <3>2, PriorStays
  <2>5. CASE t # s
    <3>1. U[t] = T[t]
      BY <2>1, <2>5
    <3>2. Asked(U, R, A, t) = Asked(T, R, A, t)
      BY <2>4, <3>1 DEF Asked
    <3>3. {i \in 1 .. 6 : Asked(U, R, A, t)[i][2] # None}
            = {i \in 1 .. 6 : Asked(T, R, A, t)[i][2] # None}
      BY <3>2
    <3> QED BY <3>1, <3>2, <3>3 DEF Decide
  <2>6. CASE t = s
    <3> DEFINE before == Asked(T, R, A, s)
               after == Asked(U, R, A, s)
    <3>1. /\ ByRule(R, "merchant_exact", U[s].token, U[s])
               = ByRule(R, "merchant_exact", T[s].token, T[s])
          /\ ByRule(R, "counterparty_exact", U[s].payee, U[s])
               = ByRule(R, "counterparty_exact", T[s].payee, T[s])
      BY <2>2, RuleSame
    <3>2. ByCard(R, U[s]) = ByCard(R, T[s])
      BY <2>2, CardSame
    <3>3. ByAlias(A, U[s]) = ByAlias(A, T[s])
      BY <2>2, AliasSame
    <3>4. \A i \in 1 .. 5 : after[i] = before[i]
      <4>1. \A i \in 1 .. 5 : i \in {1, 2, 3, 4, 5}
        OBVIOUS
      <4>2. Prior(U, s) = Prior(T, s)
        BY <2>4, <2>6
      <4>3. /\ after[1] = before[1] /\ after[2] = before[2] /\ after[3] = before[3]
            /\ after[4] = before[4] /\ after[5] = before[5]
        BY <3>1, <3>2, <3>3, <4>2 DEF Asked
      <4> HIDE DEF before, after
      <4> QED BY <4>1, <4>3
    <3>5. before[6] = <<"parser", T[s].category>> /\ after[6] = <<"parser", d[2]>>
      BY <2>2 DEF Asked
    <3> HIDE DEF before, after
    <3>6. \/ (\A i \in 1 .. 6 : before[i][2] = None) /\ d = <<"uncategorized", None>>
          \/ \E i \in 1 .. 6 : /\ before[i][2] # None
                               /\ \A j \in 1 .. 6 : j < i => before[j][2] = None
                               /\ d = before[i]
      BY <1>4, EngineDecides DEF before, d
    <3>7. \/ /\ \A i \in 1 .. 6 : after[i][2] = None
             /\ Decide(U, R, A, s) = <<"uncategorized", None>>
          \/ \E i \in 1 .. 6 : /\ after[i][2] # None
                               /\ \A j \in 1 .. 6 : j < i => after[j][2] = None
                               /\ Decide(U, R, A, s) = after[i]
      BY <2>3, EngineDecides DEF after
    <3>8. \A i \in 1 .. 6 : i \in 1 .. 5 \/ i = 6
      OBVIOUS
    <3>9. CASE (\A i \in 1 .. 6 : before[i][2] = None) /\ d = <<"uncategorized", None>>
      <4>1. \A i \in 1 .. 6 : after[i][2] = None
        BY <3>4, <3>5, <3>8, <3>9
      <4> QED BY <2>6, <3>7, <3>9, <4>1 DEF d
    <3>10. ASSUME NEW i \in 1 .. 6, before[i][2] # None, d = before[i],
                  \A j \in 1 .. 6 : j < i => before[j][2] = None
           PROVE  Decide(U, R, A, s) = d
      <4>1. after[i] = before[i]
        <5>1. CASE i \in 1 .. 5
          BY <3>4, <5>1
        <5>2. CASE i = 6
          <6>1. d[2] = T[s].category
            BY <3>5, <3>10, <5>2
          <6> QED BY <3>5, <5>2, <6>1
        <5> QED BY <3>8, <5>1, <5>2
      <4>2. \A j \in 1 .. 6 : j < i => after[j][2] = None
        <5> TAKE j \in 1 .. 6
        <5> HAVE j < i
        <5>1. j \in 1 .. 5
          OBVIOUS
        <5> QED BY <3>4, <3>10, <5>1
      <4>3. PICK k \in 1 .. 6 : /\ after[k][2] # None
                                /\ \A j \in 1 .. 6 : j < k => after[j][2] = None
                                /\ Decide(U, R, A, s) = after[k]
        BY <3>7, <3>10, <4>1
      <4>4. k = i
        <5>1. ~(k < i) /\ ~(i < k)
          BY <3>10, <4>1, <4>2, <4>3
        <5> QED BY <5>1
      <4> QED BY <3>10, <4>1, <4>3, <4>4
    <3> QED BY <2>6, <3>6, <3>9, <3>10 DEF d
  <2> QED BY <2>5, <2>6
<1> QED BY <1>3, <1>4

\* The engine run over one transaction changes neither its own decision nor anyone
\* else's, so a bulk run gives the same answers in every order and when it is run
\* again (engine.py "two runs over the same transaction agree").
THEOREM OrderNeverMatters == Spec => OrderFree
<1>1. Spec => []Inv
  BY CategorizationAssumption, RulesAssumption, InvInit, InvStep, PTL DEF Spec
<1>2. ASSUME Inv, NEW s \in Txs, Categorize(s), NEW t \in Txs
      PROVE  Decide(tx', rules', alias', t) = Decide(tx, rules, alias, t)
  <2>1. /\ tx' = [tx EXCEPT ![s] = Stored(tx[s], Decide(tx, rules, alias, s))]
        /\ rules' = rules /\ alias' = alias /\ tx[s].status # "absent"
    BY <1>2 DEF Categorize
  <2>2. Decide(tx', rules, alias, t) = Decide(tx, rules, alias, t)
    <3>0. tx' \in Rows
      BY <1>2, CategorizationAssumption, CategorizeTypes DEF TypeOK, Rows
    <3>1. tx \in Rows /\ rules \in Seq(Rules) /\ alias \in Seq(Aliases) /\ Unique(alias)
      BY <1>2 DEF Inv, TypeOK, Rows
    <3>2. /\ tx'[s] = Stored(tx[s], Decide(tx, rules, alias, s))
          /\ \A x \in Txs \ {s} : tx'[x] = tx[x]
      BY <2>1, <3>1 DEF Rows
    <3>3. PICK U \in Rows : U = tx'
      BY <3>0
    <3>4. /\ U[s] = Stored(tx[s], Decide(tx, rules, alias, s))
          /\ \A x \in Txs \ {s} : U[x] = tx[x]
      BY <3>2, <3>3
    <3>5. tx[s].status # "absent"
      BY <2>1
    <3>6. Decide(U, rules, alias, t) = Decide(tx, rules, alias, t)
      BY <3>1, <3>4, <3>5, CategorizationAssumption, DecisionStays
    <3> QED BY <3>3, <3>6
  <2> QED BY <2>1, <2>2
<1>3. Inv /\ [Next]_vars =>
        [\A s \in Txs : tx'[s] # tx[s] /\ Categorize(s) =>
           \A t \in Txs : Decide(tx, rules, alias, t)' = Decide(tx, rules, alias, t)]_vars
  BY <1>2
<1> QED BY <1>1, <1>3, PTL DEF Spec, OrderFree
=============================================================================
