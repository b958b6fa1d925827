--------------------------- MODULE MCKeyRotation ---------------------------
(* Small instances of KeyRotation for TLC. *)
EXTENDS KeyRotation, TLC

CONSTANTS q1, kyobo, emart

\* No action tells one plaintext from another.
TextSymmetry == Permutations({kyobo, emart})

\* A row of the inbox, the transaction it may become, and a counterparty.
ThreeRows == 1..3
ThreeKinds == <<"observation", "transaction", "transaction">>
ThreeDomains == <<"merchant", "merchant", "counterparty">>

\* An observation, the transaction it may become, and a rule on a counterparty.
RuleRows == 1..3
RuleKinds == <<"observation", "transaction", "rule">>
RuleDomains == <<"merchant", "merchant", "counterparty">>
=============================================================================
