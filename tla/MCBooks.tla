------------------------------ MODULE MCBooks ------------------------------
(* Small instances of Books for TLC. *)
EXTENDS Reports, TLC

CONSTANTS bank, visa, credit, n1, n2

Dollars == [USD |-> 2]
Won == [KRW |-> 0]
BankType == {<<bank, "account_type">>}

Of(type, c, n, minor) ==
  [type |-> type, currency |-> c, name |-> n,
   opening |-> IF minor = 0 THEN None ELSE [minor |-> minor, currency |-> c]]

\* A bank account that started with money in it and the card it settles.
TwoAccounts == (bank :> Of("checking", "USD", n1, 1)) @@
               (visa :> Of("credit_card_liability", "USD", n2, 2))
OneCard == (credit :> "credit_card")
TwoOpenings == {-1, 2}

\* One account in won.
WonAccount == (bank :> Of("checking", "KRW", n1, 0))
NoCardKind == [k \in {} |-> "other"]

TxSymmetry == Permutations(Txs)
=============================================================================
