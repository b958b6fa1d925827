-------------------------- MODULE MCCategorization --------------------------
(* Small instances of Categorization for TLC. *)
EXTENDS Categorization, TLC

CONSTANTS k1, a1, food, fun, w, ltd, gangnam, landlord

OneCard == (k1 :> a1)
\* Two spellings of one merchant, and a name of which nothing is left.
TwoNames == {<<w, gangnam>>, <<ltd, w>>, <<ltd>>}

Rule(type, pattern, card, account, category, priority) ==
  [type |-> type, pattern |-> pattern, card |-> card, account |-> account,
   category |-> category, priority |-> priority, active |-> TRUE]

\* A rule for the merchant at one account, older than any correction.
OldRule == <<Rule("merchant_exact", <<w>>, None, a1, fun, 0)>>
\* A rule for a card and one for a counterparty.
TwoOthers ==
  {Rule("payment_instrument", <<>>, k1, None, fun, 0),
   Rule("counterparty_exact", landlord, None, None, fun, 0)}

\* A purchase by card or in cash, and a later one in cash, at one merchant.
ByCardOrCash ==
  LET byCard == <<<<w, gangnam>>, None, k1, a1>>
      cash == <<<<ltd, w>>, landlord, None, a1>>
  IN (1 :> {byCard, cash}) @@ (2 :> {cash})
\* One of them is refused.
TwoAliases == {<<<<ltd, w>>, None, food>>, <<<<ltd>>, None, food>>}
=============================================================================
