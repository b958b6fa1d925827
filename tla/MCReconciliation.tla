------------------------- MODULE MCReconciliation -------------------------
(* Small instances of Reconciliation for TLC. *)
EXTENDS Reconciliation, TLC

CONSTANTS a, b, c, x, y, dup, dup2, move, back, back2, card

\* Two rows of different documents, one leaving an account and one arriving,
\* which can be a transfer, a refund, a settlement, or twice the same event.
PairRows == {a, b}
PairDocOf == (a :> x) @@ (b :> y)
PairRunOf == [r \in PairRows |-> 1]
PairReadAs == (a :> "debit") @@ (b :> "credit")
PairMatches == {dup, move, back}
PairOf == [m \in PairMatches |-> {a, b}]
PairKind == (dup :> "duplicate") @@ (move :> "transfer") @@ (back :> "refund")

\* The same pair as a transfer only.
MoveMatches == {move}
MoveOf == [m \in MoveMatches |-> {a, b}]
MoveKind == [m \in MoveMatches |-> "transfer"]

\* Three rows that may all be the same event, the third in a second pass of the
\* first row's document; a settlement on a pair that can also be merged.
MergeRowsOf == {a, b, c}
MergeDocOf == (a :> x) @@ (b :> y) @@ (c :> x)
MergeRunOf == (a :> 1) @@ (b :> 1) @@ (c :> 2)
MergeReadAs == [r \in MergeRowsOf |-> "debit"]
MergeMatches == {dup, dup2, card}
MergePair == (dup :> {a, b}) @@ (dup2 :> {b, c}) @@ (card :> {a, b})
MergeKind == (dup :> "duplicate") @@ (dup2 :> "duplicate") @@ (card :> "settlement")

\* One credit row that may refund either of two debits, which may also be one
\* event or a purchase and its settlement; the third row is read by a second
\* pass of the first one's document.
ThreeRows == {a, b, c}
ThreeDocOf == (a :> x) @@ (b :> y) @@ (c :> x)
ThreeRunOf == (a :> 1) @@ (b :> 1) @@ (c :> 2)
ThreeReadAs == (a :> "debit") @@ (b :> "credit") @@ (c :> "debit")
ThreeMatches == {back, back2, card}
ThreePair == (back :> {a, b}) @@ (back2 :> {b, c}) @@ (card :> {a, c})
ThreeKind == (back :> "refund") @@ (back2 :> "refund") @@ (card :> "settlement")
=============================================================================
