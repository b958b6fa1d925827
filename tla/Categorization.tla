--------------------------- MODULE Categorization ---------------------------
(***************************************************************************)
(* What decides a transaction's category: the user on that transaction, a  *)
(* rule or a learned name, what was answered for the merchant last time,   *)
(* or the parser's guess.  Rules and names are looked up by blind indexes  *)
(* of normalized names, so here by the normalized names themselves.        *)
(***************************************************************************)
EXTENDS Integers, Sequences, FiniteSets, FiniteSetsExt

CONSTANTS
  Txs,        \* transactions, numbered in the order they occurred
  Words,
  Names,      \* merchant names as written, each a sequence of words
  Noise,      \* words that are a company form, a payment word or a number
  Branch,     \* words that are a branch suffix
  Payees,     \* counterparties
  Cards, Accounts,
  AccountOf,  \* the account each card draws on
  Categories,
  None,       \* no card, account, counterparty or category
  OldRules,   \* rules there are to begin with
  OtherRules, \* rules that do not come from a correction
  Corrected,  \* <<imported, corrected>> merchants of accepted rows
  Seen,       \* <<name, counterparty, card, account>> each transaction may show
  OtherAliases, \* <<name, card, category>> learned names
  MaxRules    \* bound: rules ever written

ASSUME CategorizationAssumption ==
  /\ Txs \subseteq Nat /\ IsFiniteSet(Txs)
  /\ Names \subseteq Seq(Words) \ {<<>>}
  /\ Corrected \subseteq Names \X Names
  /\ AccountOf \in [Cards -> Accounts]
  /\ Seen \in [Txs -> SUBSET ((Names \cup {<<>>}) \X (Payees \cup {None}) \X
                              (Cards \cup {None}) \X Accounts)]
  /\ OtherAliases \subseteq Names \X (Cards \cup {None}) \X (Categories \cup {None})
  /\ None \notin Payees \cup Cards \cup Accounts \cup Categories

VARIABLES
  tx,     \* CanonicalTransaction
  rules,  \* CategoryRule, in the order they were created
  alias   \* MerchantAlias, in the order they were created

vars == <<tx, rules, alias>>

-----------------------------------------------------------------------------
(* Names *)

\* normalize_merchant: noise goes, then one branch suffix unless it is the name.
Token(name) ==
  LET kept == SelectSeq(name, LAMBDA w : w \notin Noise) IN
  IF Len(kept) > 1 /\ kept[Len(kept)] \in Branch THEN SubSeq(kept, 1, Len(kept) - 1) ELSE kept

\* Mutant: a name of which nothing survives is a key as well.
KeyedAnyway(name) == TRUE

\* normalize_merchant refuses an empty result.
Keyed(name) == Token(name) # <<>>

Tokens == {Token(n) : n \in Names \cup {<<>>}} \cup {<<>>}

-----------------------------------------------------------------------------
(* What is stored *)

Sources ==
  {"manual_override", "user_rule", "card_rule", "merchant_alias", "counterparty_rule",
   "prior_confirmation", "parser", "uncategorized"}

Absent == [status |-> "absent", name |-> <<>>, token |-> <<>>, payee |-> None, card |-> None,
           account |-> None, category |-> None, source |-> "uncategorized"]

Transactions ==
  [status : {"draft", "confirmed", "voided"}, name : Names \cup {<<>>}, token : Tokens,
   payee : Payees \cup {None}, card : Cards \cup {None}, account : Accounts,
   category : Categories \cup {None}, source : Sources]

\* CategoryRule: a name, a counterparty or a card decides.
Rules ==
  {r \in [type : {"merchant_exact", "counterparty_exact", "payment_instrument"},
          pattern : Tokens \cup Payees, card : Cards \cup {None},
          account : Accounts \cup {None}, category : Categories, priority : Nat,
          active : BOOLEAN] :
     /\ r.type = "merchant_exact" => r.pattern \in Tokens \ {<<>>}
     /\ r.type = "counterparty_exact" => r.pattern \in Payees
     /\ r.type = "payment_instrument" => r.pattern = <<>>}

\* MerchantAlias.
Aliases == [token : Tokens \ {<<>>}, card : Cards \cup {None}, category : Categories \cup {None}]

ASSUME RulesAssumption == OldRules \in Seq(Rules) /\ OtherRules \subseteq Rules

TypeOK ==
  /\ tx \in [Txs -> Transactions \cup {Absent}]
  /\ rules \in Seq(Rules)
  /\ alias \in Seq(Aliases)

-----------------------------------------------------------------------------
(* The engine: T, R and A are the transactions, rules and aliases it reads *)

\* _scoped_to, for an active rule.
Scoped(r, row) ==
  r.active /\ r.card \in {None, row.card} /\ r.account \in {None, row.account}

\* scope_rank of _by_specificity.  "No card" equals "no card".
Rank(r, row) ==
  CASE r.card = row.card -> 0
    [] r.card # row.card /\ r.account = row.account -> 1
    [] OTHER -> 2

\* Rule i comes before rule j for this row: priority, then scope, then age.
Before(R, i, j, row) ==
  \/ R[i].priority > R[j].priority
  \/ R[i].priority = R[j].priority /\ Rank(R[i], row) < Rank(R[j], row)
  \/ R[i].priority = R[j].priority /\ Rank(R[i], row) = Rank(R[j], row) /\ i < j

\* _user_rule and _counterparty_rule.
ByRule(R, type, pattern, row) ==
  LET Fits == {i \in DOMAIN R : R[i].type = type /\ R[i].pattern = pattern /\ Scoped(R[i], row)}
  IN IF pattern \in {<<>>, None} \/ Fits = {} THEN None
     ELSE R[CHOOSE i \in Fits : \A j \in Fits \ {i} : Before(R, i, j, row)].category

\* _card_rule.
ByCard(R, row) ==
  LET Fits == {i \in DOMAIN R : /\ R[i].type = "payment_instrument" /\ R[i].active
                                /\ R[i].card = row.card}
      Older(i, j) == R[i].priority > R[j].priority \/ (R[i].priority = R[j].priority /\ i < j)
  IN IF row.card = None \/ Fits = {} THEN None
     ELSE R[CHOOSE i \in Fits : \A j \in Fits \ {i} : Older(i, j)].category

\* _merchant_alias: the one for this card before the one for any.
ByAlias(A, row) ==
  LET Fits == {i \in DOMAIN A : /\ A[i].token = row.token /\ A[i].category # None
                                /\ A[i].card \in {None, row.card}}
  IN IF row.token = <<>> \/ Fits = {} THEN None
     ELSE A[CHOOSE i \in Fits : \A j \in Fits \ {i} : A[i].card = row.card].category

\* Mutant: any earlier category of the merchant is taken for an answer.
FiledBefore(T, t) ==
  {s \in DOMAIN T \ {t} : T[s].token = T[t].token /\ T[s].category # None}

\* What the user answered for this merchant on other transactions.
AnsweredBefore(T, t) ==
  {s \in DOMAIN T \ {t} : /\ T[s].token = T[t].token /\ T[s].category # None
                          /\ T[s].source = "manual_override"}

\* _prior_confirmation: the latest of them, a voided one included.
Prior(T, t) ==
  IF T[t].token = <<>> \/ AnsweredBefore(T, t) = {} THEN None
  ELSE T[Max(AnsweredBefore(T, t))].category

\* PRECEDENCE: what each source says, in the order they are asked.
Asked(T, R, A, t) ==
  LET row == T[t] IN
  << <<"user_rule", ByRule(R, "merchant_exact", row.token, row)>>,
     <<"card_rule", ByCard(R, row)>>,
     <<"merchant_alias", ByAlias(A, row)>>,
     <<"counterparty_rule", ByRule(R, "counterparty_exact", row.payee, row)>>,
     <<"prior_confirmation", Prior(T, t)>>,
     <<"parser", row.category>> >>

\* classify: the answer on the row, or the first source that has a category.
Decide(T, R, A, t) ==
  LET Hits == {i \in 1 .. 6 : Asked(T, R, A, t)[i][2] # None}
  IN IF T[t].source = "manual_override" THEN <<T[t].source, T[t].category>>
     ELSE IF Hits = {} THEN <<"uncategorized", None>> ELSE Asked(T, R, A, t)[Min(Hits)]

\* store_decision.
Stored(row, decision) == [row EXCEPT !.source = decision[1], !.category = decision[2]]

-----------------------------------------------------------------------------
(* Transactions *)

OnCard(account, card) == card # None => AccountOf[card] = account

\* accept_observation: the token comes from the name the row was imported with,
\* the counterparty is not carried across.
Accept(t, imported, name, card, account, guess) ==
  /\ tx[t].status = "absent"
  /\ imported = name \/ <<imported, name>> \in Corrected
  /\ OnCard(account, card)
  /\ tx' = [tx EXCEPT ![t] =
       [status |-> "draft", name |-> name, token |-> Token(imported), payee |-> None,
        card |-> card, account |-> account, category |-> guess,
        source |-> IF guess = None THEN "uncategorized" ELSE "parser"]]
  /\ UNCHANGED <<rules, alias>>

\* The form of create_ and update_manual_transaction; what decided the category
\* is not one of the fields it writes.
Typed(t, name, payee, card, account, category) ==
  /\ name = <<>> \/ Keyed(name)
  /\ OnCard(account, card)
  /\ tx' = [tx EXCEPT ![t] =
       [status |-> "draft", name |-> name, token |-> Token(name), payee |-> payee,
        card |-> card, account |-> account, category |-> category, source |-> tx[t].source]]
  /\ UNCHANGED <<rules, alias>>

CreateManual(t, name, payee, card, account, category) ==
  tx[t].status = "absent" /\ Typed(t, name, payee, card, account, category)

UpdateManual(t, name, payee, card, account, category) ==
  tx[t].status = "draft" /\ Typed(t, name, payee, card, account, category)

Confirm(t) ==
  /\ tx[t].status = "draft"
  /\ tx' = [tx EXCEPT ![t].status = "confirmed"]
  /\ UNCHANGED <<rules, alias>>

\* correct_confirmed_transaction of the category.
CorrectConfirmed(t, category) ==
  /\ tx[t].status = "confirmed"
  /\ category # tx[t].category
  /\ tx' = [tx EXCEPT ![t].category = category]
  /\ UNCHANGED <<rules, alias>>

Delete(t) ==
  /\ tx[t].status \in {"draft", "confirmed"}
  /\ tx' = [tx EXCEPT ![t].status = "voided"]
  /\ UNCHANGED <<rules, alias>>

-----------------------------------------------------------------------------
(* Categories, rules and aliases *)

\* Mutant: confirmed transactions are classified as well.
CategorizeAny(t) ==
  /\ tx[t].status # "absent"
  /\ tx' = [tx EXCEPT ![t] = Stored(@, Decide(tx, rules, alias, t))]
  /\ UNCHANGED <<rules, alias>>

\* categorize_transaction.
Categorize(t) ==
  /\ tx[t].status \in {"draft", "voided"}
  /\ tx' = [tx EXCEPT ![t] = Stored(@, Decide(tx, rules, alias, t))]
  /\ UNCHANGED <<rules, alias>>

Answered(t, category) ==
  [tx EXCEPT ![t] = Stored(@, <<"manual_override", category>>)]

\* set_category_manually, also the correction for this transaction only.
SetManually(t, category) ==
  /\ tx[t].status # "absent"
  /\ tx' = Answered(t, category)
  /\ UNCHANGED <<rules, alias>>

\* _matching_transactions.
Matching(t, scope) ==
  {s \in Txs : /\ tx[s].status # "absent" /\ tx[s].token = tx[t].token
               /\ scope = "merchant_and_card" => tx[s].card = tx[t].card}

\* preview_rule: the drafts a user is told about.
Preview(t, scope) ==
  {s \in Matching(t, scope) \ {t} : tx[s].status = "draft" /\ tx[s].source # "manual_override"}

\* Mutant: a rule for one card is applied to all of them.
ReachedAnyCard(t, scope) ==
  {s \in Matching(t, "merchant") \ {t} : tx[s].status = "draft" /\ tx[s].source # "manual_override"}

\* The candidates of _apply_backwards, after the correction of t itself.
Reached(t, scope) ==
  {s \in Matching(t, scope) \ {t} : tx[s].status = "draft" /\ tx[s].source # "manual_override"}

CorrectionRule(t, category, scope) ==
  [type |-> "merchant_exact", pattern |-> Token(tx[t].name),
   card |-> IF scope = "merchant_and_card" THEN tx[t].card ELSE None, account |-> None,
   category |-> category, priority |-> 0, active |-> TRUE]

\* create_rule_from_correction.  The candidates are reclassified one after the
\* other; OrderFree says that the order makes no difference.
CreateRule(t, category, scope, applyToExisting) ==
  /\ tx[t].status # "absent" /\ Len(rules) < MaxRules
  /\ scope = "merchant_and_card" => tx[t].card # None
  /\ Keyed(tx[t].name)
  /\ rules' = Append(rules, CorrectionRule(t, category, scope))
  /\ LET T == Answered(t, category) IN
     tx' = [s \in Txs |-> IF applyToExisting /\ s \in Reached(t, scope)
                          THEN Stored(T[s], Decide(T, rules', alias, s)) ELSE T[s]]
  /\ UNCHANGED alias

\* create_exact_merchant_rule for a card, an account or a priority, and rules of
\* the other types.
AddRule(r) ==
  /\ Len(rules) < MaxRules
  /\ rules' = Append(rules, r)
  /\ UNCHANGED <<tx, alias>>

SetRuleActive(i, active) ==
  /\ rules[i].active # active
  /\ rules' = [rules EXCEPT ![i].active = active]
  /\ UNCHANGED <<tx, alias>>

\* create_merchant_alias, unique for a card and unique for any card.
CreateAlias(name, card, category) ==
  /\ Keyed(name)
  /\ \A i \in DOMAIN alias : ~(alias[i].token = Token(name) /\ alias[i].card = card)
  /\ alias' = Append(alias, [token |-> Token(name), card |-> card, category |-> category])
  /\ UNCHANGED <<tx, rules>>

-----------------------------------------------------------------------------
(* The system *)

Scopes == {"merchant", "merchant_and_card"}
Maybe(S) == S \cup {None}

Init ==
  /\ tx = [t \in Txs |-> Absent]
  /\ rules = OldRules
  /\ alias = <<>>

\* What a user does to one transaction's category.
ByHand(t) ==
  \/ \E c \in Maybe(Categories) : SetManually(t, c) \/ CorrectConfirmed(t, c)
  \/ \E c \in Categories, scope \in Scopes, back \in BOOLEAN : CreateRule(t, c, scope, back)
  \/ \E v \in Seen[t], c \in Maybe(Categories) : UpdateManual(t, v[1], v[2], v[3], v[4], c)

Enters(t) ==
  \E v \in Seen[t], c \in Maybe(Categories) :
    \/ \E imported \in Names \cup {<<>>} : Accept(t, imported, v[1], v[3], v[4], c)
    \/ CreateManual(t, v[1], v[2], v[3], v[4], c)

Next ==
  \/ \E t \in Txs : Enters(t) \/ ByHand(t) \/ Confirm(t) \/ Delete(t) \/ Categorize(t)
  \/ \E r \in OtherRules : AddRule(r)
  \/ \E i \in DOMAIN rules, active \in BOOLEAN : SetRuleActive(i, active)
  \/ \E v \in OtherAliases : CreateAlias(v[1], v[2], v[3])

Spec == Init /\ [][Next]_vars

-----------------------------------------------------------------------------
(* What makes it correct *)

\* A category that is confirmed or was answered by the user is changed by nobody
\* but the user, and on that transaction (engine.py "never overwritten",
\* rule_creation.py "Confirmed history is never rewritten").
AnswersKept ==
  [][\A t \in Txs :
       /\ tx[t].status = "confirmed" \/ tx[t].source = "manual_override"
       /\ tx'[t].category # tx[t].category
       => ByHand(t)]_vars

\* A rule applied backwards changes no transaction that the preview of its scope
\* did not count, apart from the corrected one (preview_rule).
PreviewHolds ==
  [][\A t \in Txs, c \in Categories, scope \in Scopes :
       rules' # rules /\ CreateRule(t, c, scope, TRUE)
       => \A s \in Txs \ {t} : tx'[s] # tx[s] => s \in Preview(t, scope)]_vars

\* Re-running the engine over one transaction changes neither its own decision
\* nor anyone else's, so a bulk run gives the same answers in every order
\* (engine.py "two runs over the same transaction agree").
OrderFree ==
  [][\A s \in Txs : tx'[s] # tx[s] /\ Categorize(s) =>
       \A t \in Txs : Decide(tx, rules, alias, t)' = Decide(tx, rules, alias, t)]_vars

\* A rule made from a correction decides what it reaches when the other rules
\* have its priority and its scope (rule_creation.py "A new rule applies to what
\* comes next").
NewRuleDecides ==
  [][\A t \in Txs, c \in Categories :
       /\ CreateRule(t, c, "merchant", TRUE)
       /\ \A i \in DOMAIN rules :
            rules[i].priority = 0 /\ rules[i].card = None /\ rules[i].account = None
       => \A s \in Reached(t, "merchant") : tx'[s].category = c]_vars

\* A rule made from a transaction is one that this transaction matches (views.py
\* "the rule's index matches the one on the transaction it was written from").
RuleMatchesOrigin ==
  [][\A t \in Txs, c \in Categories, scope \in Scopes :
       CreateRule(t, c, scope, FALSE)
       => rules'[Len(rules')].pattern = tx[t].token]_vars

\* What a user filed by typing it in is not refiled (models.py "What decided the
\* category"): with no source but a category, a person put it there.
HandFiledKept ==
  [][\A t \in Txs :
       /\ tx[t].source = "uncategorized" /\ tx[t].category # None
       /\ tx'[t].category # tx[t].category
       => ByHand(t)]_vars

\* A rule limited to the transaction's account outranks one for everything
\* (_by_specificity "the narrowest scope wins a tie on priority").
NarrowestWins ==
  \A t \in Txs, i, j \in DOMAIN rules :
    LET row == tx[t] IN
    /\ row.status # "absent"
    /\ rules[i].priority = rules[j].priority
    /\ rules[i].account # None /\ rules[i].account = row.account
    /\ rules[j].account = None /\ rules[j].card = None
    /\ rules[i].card \in {None, row.card}
    => Before(rules, i, j, row)
=============================================================================
