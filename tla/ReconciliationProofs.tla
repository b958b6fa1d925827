----------------------- MODULE ReconciliationProofs -----------------------
(***************************************************************************)
(* Proofs about Reconciliation, for every set of documents, rows and       *)
(* matches.  Types and the ledger come first, then the shape of a row and  *)
(* the merges, what stays counted, transfers and the abstract events; last *)
(* the scores of PairScoring by which matches are proposed.                *)
(***************************************************************************)
EXTENDS Reconciliation, PairScoring, TLAPS

LEMMA KeyFacts ==
  ASSUME ReviewAssumption
  PROVE  /\ \A r \in Rows : RowKey(r) \in Keys
         /\ \A m \in Matches : Kind[m] \in {"transfer", "refund"} => MatchKey(m) \in Keys
         /\ \A r \in Rows, m \in Matches : Kind[m] \in {"transfer", "refund"} =>
                                             RowKey(r) # MatchKey(m)
         /\ \A r, q \in Rows : RowKey(r) = RowKey(q) => r = q
         /\ \A m, n \in Matches : MatchKey(m) = MatchKey(n) => m = n
         /\ \A k \in Keys : \/ \E r \in Rows : k = RowKey(r)
                            \/ \E m \in Matches : Kind[m] \in {"transfer", "refund"} /\ k = MatchKey(m)
BY DEF Keys, RowKeys, MatchKeys, RowKey, MatchKey

-----------------------------------------------------------------------------
(* Types and the ledger *)

Books == TypeOK /\ BooksSettled

LEMMA BooksSave ==
  ASSUME ReviewAssumption, Books, NEW k \in Keys, NEW post \in BOOLEAN, SaveOnce(k, post)
  PROVE  /\ tx' \in [Keys -> {"none", "draft", "confirmed", "voided"}]
         /\ entries' \in [Keys -> [posted : {0, 1}, mirrored : {0, 1}]]
         /\ BooksSettled'
<1>1. CASE tx[k] = "none"
  <2>1. /\ entries[k] = [posted |-> 0, mirrored |-> 0]
        /\ entries[k] \in [posted : {0, 1}, mirrored : {0, 1}]
    BY <1>1 DEF Books, BooksSettled
  <2>2. /\ tx' = [tx EXCEPT ![k] = IF post THEN "confirmed" ELSE "draft"]
        /\ entries' = [entries EXCEPT ![k].posted = IF post THEN 1 ELSE 0]
    BY <1>1 DEF SaveOnce
  <2> QED BY <2>1, <2>2 DEF Books, TypeOK, BooksSettled
<1>2. CASE tx[k] # "none"
  BY <1>2 DEF SaveOnce, bookVars, Books, TypeOK, BooksSettled
<1> QED BY <1>1, <1>2

LEMMA BooksVoid ==
  ASSUME ReviewAssumption, Books, NEW k \in Keys, Void(k)
  PROVE  /\ tx' \in [Keys -> {"none", "draft", "confirmed", "voided"}]
         /\ entries' \in [Keys -> [posted : {0, 1}, mirrored : {0, 1}]]
         /\ BooksSettled'
<1>1. /\ entries[k] \in [posted : {0, 1}, mirrored : {0, 1}]
      /\ entries[k].mirrored = 0
  BY DEF Void, Live, Books, BooksSettled, TypeOK
<1>2. Mirrored(entries[k]) = [posted |-> entries[k].posted, mirrored |-> entries[k].posted]
  BY <1>1 DEF Mirrored
<1>3. /\ tx' = [tx EXCEPT ![k] = "voided"]
      /\ entries' = [entries EXCEPT ![k] = [posted |-> entries[k].posted, mirrored |-> entries[k].posted]]
  BY <1>2 DEF Void
<1> QED BY <1>1, <1>3 DEF Books, TypeOK, BooksSettled


\* An action that leaves transactions and entries alone leaves the ledger settled.
LEMMA BooksStay ==
  ASSUME Books, UNCHANGED bookVars
  PROVE  /\ tx' \in [Keys -> {"none", "draft", "confirmed", "voided"}]
         /\ entries' \in [Keys -> [posted : {0, 1}, mirrored : {0, 1}]]
         /\ BooksSettled'
BY DEF Books, TypeOK, BooksSettled, bookVars

LEMMA BooksReview ==
  ASSUME ReviewAssumption, Books, Review
  PROVE  Books'
<1> USE ReviewAssumption, KeyFacts DEF rowVars, importVars, LinkAccepted, Reopen, Release, MergeRows
<1>1. ASSUME NEW r \in Rows, Correct(r) PROVE Books'
  BY <1>1, BooksStay DEF Correct, Books, TypeOK
<1>2. ASSUME NEW r \in Rows, Reject(r) PROVE Books'
  BY <1>2, BooksStay DEF Reject, Books, TypeOK
<1>3. ASSUME NEW r \in Rows, NEW post \in LedgerAccounts, Accept(r, post) PROVE Books'
  BY <1>3, BooksSave DEF Accept, Books, TypeOK
<1>4. ASSUME NEW r \in Rows, NEW rows \in (SUBSET Rows) \ {{}}, Merge(r, rows) PROVE Books'
  BY <1>4, BooksStay DEF Merge, Books, TypeOK
<1>5. ASSUME NEW k \in Keys, Delete(k) PROVE Books'
  BY <1>5, BooksVoid DEF Delete, Books, TypeOK
<1>6. ASSUME NEW m \in Matches, LinkManually(m) PROVE Books'
  BY <1>6, BooksStay DEF LinkManually, Books, TypeOK
<1>7. ASSUME NEW m \in Matches, RejectMatch(m) PROVE Books'
  BY <1>7, BooksStay DEF RejectMatch, Books, TypeOK
<1>8. ASSUME NEW m \in Matches, Unlink(m) PROVE Books'
  <2>1. /\ tx' \in [Keys -> {"none", "draft", "confirmed", "voided"}]
        /\ entries' \in [Keys -> [posted : {0, 1}, mirrored : {0, 1}]]
        /\ BooksSettled'
    BY <1>8, BooksVoid, BooksStay DEF Unlink, bookVars
  <2>2. \E rows : Reopen(rows)
    BY <1>8 DEF Unlink
  <2>3. canonical' \in [Rows -> Keys \cup {NoTx}]
    BY <1>8 DEF Unlink, Books, TypeOK
  <2> QED BY <1>8, <2>1, <2>2, <2>3 DEF Unlink, Books, TypeOK
<1>9. ASSUME NEW m \in Matches, ConfirmSettlement(m) PROVE Books'
  BY <1>9, BooksStay DEF ConfirmSettlement, Books, TypeOK
<1>10. ASSUME NEW m \in Matches, NEW w \in Rows, ConfirmDuplicate(m, w) PROVE Books'
  BY <1>10, BooksStay DEF ConfirmDuplicate, Books, TypeOK
<1>11. ASSUME NEW m \in Matches, NEW post \in LedgerAccounts, ConfirmTransfer(m, post) PROVE Books'
  BY <1>11, BooksSave DEF ConfirmTransfer, Books, TypeOK
<1>12. ASSUME NEW m \in Matches, NEW post \in LedgerAccounts, ConfirmRefund(m, post) PROVE Books'
  BY <1>12, BooksSave DEF ConfirmRefund, Books, TypeOK
<1> QED BY <1>1, <1>2, <1>3, <1>4, <1>5, <1>6, <1>7, <1>8, <1>9, <1>10, <1>11, <1>12 DEF Review

LEMMA BooksStep ==
  ASSUME ReviewAssumption, Books, [Next]_vars
  PROVE  Books'
<1> USE ReviewAssumption DEF rowVars, importVars
<1>1. CASE Review
  BY <1>1, BooksReview
<1>2. ASSUME NEW m \in Matches, RecordMatch(m) PROVE Books'
  BY <1>2, BooksStay DEF RecordMatch, Books, TypeOK
<1>3. CASE AutomaticallyMerge
  BY <1>3, BooksStay DEF AutomaticallyMerge, MergeRows, Books, TypeOK
<1>4. CASE ReplaceOpen
  BY <1>4, BooksStay DEF ReplaceOpen, Books, TypeOK
<1>5. ASSUME NEW d \in Docs, NEW n, SelectOpen(d, n) PROVE Books'
  BY <1>5, BooksStay DEF SelectOpen, Books, TypeOK
<1>6. CASE UNCHANGED vars
  BY <1>6, BooksStay DEF vars, bookVars, Books, TypeOK
<1> QED BY <1>1, <1>2, <1>3, <1>4, <1>5, <1>6 DEF Next, Detect, Import

LEMMA BooksInvariant == Spec => []Books
<1>1. Init => Books
  BY ReviewAssumption DEF Init, Books, TypeOK, BooksSettled
<1>2. Books /\ [Next]_vars => Books'
  BY BooksStep, ReviewAssumption
<1> QED BY <1>1, <1>2, PTL DEF Spec

\* Every variable keeps its type; in particular no entry is ever posted or
\* mirrored twice.
THEOREM TypeCorrect == Spec => []TypeOK
BY BooksInvariant, PTL DEF Books

\* The ledger agrees with the lifecycle of every transaction, whatever the order
\* of posting attempts, deletions and unlinks.
THEOREM BooksAlwaysSettled == Spec => []BooksSettled
BY BooksInvariant, PTL DEF Books

-----------------------------------------------------------------------------
(* The shape of a row, and the merges *)

\* What the columns of one row say together.
RowShape ==
  /\ \A r \in Rows :
       /\ canonical[r] # NoTx => status[r] \in {"accepted", "corrected"}
       /\ mergedInto[r] # NoRow => status[r] = "merged"
       /\ r \in importing => status[r] = "absent"
  /\ importing \cap doomed = {}

Shape == TypeOK /\ RowShape /\ NoMergeCycle

LEMMA ShapeLink ==
  ASSUME ReviewAssumption, Shape, NEW rows \in SUBSET Rows, NEW k \in Keys,
         \A r \in rows : Free(r), LinkAccepted(rows, k), UNCHANGED importVars
  PROVE  RowShape' /\ NoMergeCycle'
<1>1. NoMergeCycle'
  BY DEF Shape, NoMergeCycle, LinkAccepted
<1>2. RowShape'
  BY DEF Shape, TypeOK, RowShape, LinkAccepted, Free, Exists, Resolved, importVars
<1> QED BY <1>1, <1>2

\* A winner that points nowhere cannot close a cycle.
LEMMA ShapeMerge ==
  ASSUME ReviewAssumption, Shape, NEW w \in Rows, NEW rows \in SUBSET Rows,
         MergeRows(w, rows), UNCHANGED importVars
  PROVE  RowShape' /\ NoMergeCycle'
<1>1. NoMergeCycle'
  <2> SUFFICES ASSUME NEW S \in (SUBSET Rows) \ {{}}, \A r \in S : mergedInto'[r] \in S PROVE FALSE
    BY DEF NoMergeCycle
  <2>1. CASE w \in S
    <3>1. w \notin rows
      BY DEF MergeRows
    <3>2. mergedInto'[w] = NoRow
      BY <3>1 DEF MergeRows, MayWin
    <3> QED BY <2>1, <3>2 DEF ReviewAssumption
  <2>2. CASE w \notin S
    <3>1. \A r \in S : r \notin rows /\ mergedInto'[r] = mergedInto[r]
      BY <2>2 DEF MergeRows
    <3> QED BY <3>1 DEF Shape, NoMergeCycle
  <2> QED BY <2>1, <2>2
<1>2. RowShape'
  BY DEF Shape, TypeOK, RowShape, MergeRows, MayBeMerged, Exists, importVars
<1> QED BY <1>1, <1>2

\* Rows that go back to the queue let go of their transaction and their winner.
LEMMA ShapeReopen ==
  ASSUME ReviewAssumption, Shape, NEW rows \in SUBSET Rows, Reopen(rows), UNCHANGED importVars,
         canonical' \in [Rows -> Keys \cup {NoTx}], mergedInto' \in [Rows -> Rows \cup {NoRow}],
         \A r \in Rows : canonical'[r] \in {canonical[r], NoTx},
         \A r \in Rows : mergedInto'[r] \in {mergedInto[r], NoRow},
         \A r \in rows : canonical'[r] = NoTx /\ mergedInto'[r] = NoRow,
         \A r \in rows : status[r] # "absent"
  PROVE  RowShape' /\ NoMergeCycle'
<1>1. NoMergeCycle'
  BY DEF Shape, NoMergeCycle, ReviewAssumption
<1>2. RowShape'
  BY DEF Shape, TypeOK, RowShape, Reopen, importVars
<1> QED BY <1>1, <1>2

LEMMA ShapeStay ==
  ASSUME Shape, UNCHANGED <<status, canonical, mergedInto>>, UNCHANGED importVars
  PROVE  RowShape' /\ NoMergeCycle'
BY DEF Shape, RowShape, NoMergeCycle, importVars

\* A decision that only sets the status of one row, to one its links allow.
LEMMA ShapeDecide ==
  ASSUME Shape, NEW r \in Rows, NEW s, Exists(r),
         status' = [status EXCEPT ![r] = s], UNCHANGED <<canonical, mergedInto>>, UNCHANGED importVars,
         canonical[r] # NoTx => s \in {"accepted", "corrected"},
         mergedInto[r] # NoRow => s = "merged"
  PROVE  RowShape' /\ NoMergeCycle'
<1>1. NoMergeCycle'
  BY DEF Shape, NoMergeCycle
<1>2. r \notin importing
  BY DEF Shape, RowShape, Exists
<1>3. status'[r] = s /\ \A q \in Rows \ {r} : status'[q] = status[q]
  BY DEF Shape, TypeOK
<1>4. ASSUME NEW q \in Rows
      PROVE  /\ canonical[q] # NoTx => status'[q] \in {"accepted", "corrected"}
             /\ mergedInto[q] # NoRow => status'[q] = "merged"
             /\ q \in importing => status'[q] = "absent"
  <2>1. CASE q = r
    BY <1>2, <1>3, <2>1
  <2>2. CASE q # r
    BY <1>3, <2>2 DEF Shape, RowShape
  <2> QED BY <2>1, <2>2
<1>5. RowShape'
  BY <1>4 DEF Shape, RowShape, importVars
<1> QED BY <1>1, <1>5

LEMMA ShapeReview ==
  ASSUME ReviewAssumption, Shape, Review
  PROVE  RowShape' /\ NoMergeCycle'
<1>1. ASSUME NEW r \in Rows, Correct(r) PROVE RowShape' /\ NoMergeCycle'
  <2>1. /\ status' = [status EXCEPT ![r] = "corrected"]
        /\ UNCHANGED <<canonical, mergedInto>> /\ UNCHANGED importVars
        /\ Exists(r) /\ ~Resolved(r)
    BY <1>1 DEF Correct
  <2>2. mergedInto[r] = NoRow
    BY <2>1 DEF Shape, RowShape, Resolved
  <2> QED BY <2>1, <2>2, ShapeDecide
<1>2. ASSUME NEW r \in Rows, Reject(r) PROVE RowShape' /\ NoMergeCycle'
  BY <1>2, ShapeDecide DEF Reject
<1> USE ReviewAssumption, KeyFacts
<1>3. ASSUME NEW r \in Rows, NEW post \in LedgerAccounts, Accept(r, post)
      PROVE RowShape' /\ NoMergeCycle'
  BY <1>3, ShapeLink DEF Accept
<1>4. ASSUME NEW r \in Rows, NEW rows \in (SUBSET Rows) \ {{}}, Merge(r, rows)
      PROVE RowShape' /\ NoMergeCycle'
  BY <1>4, ShapeMerge DEF Merge
<1>5. ASSUME NEW k \in Keys, Delete(k) PROVE RowShape' /\ NoMergeCycle'
  <2>1. \A r \in HeldBy(k) : status[r] # "absent" /\ mergedInto[r] = NoRow /\ canonical[r] # NoTx
    BY DEF HeldBy, Shape, RowShape, TypeOK, ReviewAssumption
  <2>2. /\ canonical' \in [Rows -> Keys \cup {NoTx}]
        /\ mergedInto' \in [Rows -> Rows \cup {NoRow}]
        /\ \A r \in Rows : canonical'[r] \in {canonical[r], NoTx}
        /\ \A r \in HeldBy(k) : canonical'[r] = NoTx
    BY <1>5 DEF Delete, Release, HeldBy, Shape, TypeOK
  <2> QED BY <1>5, <2>1, <2>2, ShapeReopen DEF Delete, HeldBy
<1>6. ASSUME NEW m \in Matches, LinkManually(m) PROVE RowShape' /\ NoMergeCycle'
  BY <1>6, ShapeStay DEF LinkManually, rowVars
<1>7. ASSUME NEW m \in Matches, RejectMatch(m) PROVE RowShape' /\ NoMergeCycle'
  BY <1>7, ShapeStay DEF RejectMatch, rowVars
<1>8. ASSUME NEW m \in Matches, Unlink(m) PROVE RowShape' /\ NoMergeCycle'
  <2>1. PICK rows \in SUBSET Rows :
          /\ Reopen(rows \cup Unmerged(m))
          /\ \A r \in rows : canonical[r] # NoTx /\ canonical'[r] = NoTx
          /\ canonical' \in [Rows -> Keys \cup {NoTx}]
          /\ \A r \in Rows : canonical'[r] \in {canonical[r], NoTx}
    <3>1. ASSUME NEW k \in Keys, Reopen(HeldBy(k) \cup Unmerged(m)), Release(HeldBy(k))
          PROVE  \E rows \in SUBSET Rows :
                   /\ Reopen(rows \cup Unmerged(m))
                   /\ \A r \in rows : canonical[r] # NoTx /\ canonical'[r] = NoTx
                   /\ canonical' \in [Rows -> Keys \cup {NoTx}]
                   /\ \A r \in Rows : canonical'[r] \in {canonical[r], NoTx}
      <4>1. /\ HeldBy(k) \in SUBSET Rows
            /\ \A r \in HeldBy(k) : canonical[r] # NoTx /\ canonical'[r] = NoTx
            /\ canonical' \in [Rows -> Keys \cup {NoTx}]
            /\ \A r \in Rows : canonical'[r] \in {canonical[r], NoTx}
        BY <3>1 DEF HeldBy, Release, Shape, TypeOK, ReviewAssumption
      <4> QED BY <3>1, <4>1
    <3>2. ASSUME Reopen(Unmerged(m)), UNCHANGED canonical
          PROVE  \E rows \in SUBSET Rows :
                   /\ Reopen(rows \cup Unmerged(m))
                   /\ \A r \in rows : canonical[r] # NoTx /\ canonical'[r] = NoTx
                   /\ canonical' \in [Rows -> Keys \cup {NoTx}]
                   /\ \A r \in Rows : canonical'[r] \in {canonical[r], NoTx}
      <4>1. Reopen({} \cup Unmerged(m))
        BY <3>2 DEF Reopen
      <4>2. canonical' \in [Rows -> Keys \cup {NoTx}] /\ \A r \in Rows : canonical'[r] = canonical[r]
        BY <3>2 DEF Shape, TypeOK
      <4> WITNESS {} \in SUBSET Rows
      <4> QED BY <4>1, <4>2
    <3> QED BY <1>8, <3>1, <3>2 DEF Unlink, bookVars
  <2>2. Unmerged(m) \in SUBSET Rows /\ \A r \in Unmerged(m) : mergedInto[r] # NoRow
    BY DEF Unmerged, ReviewAssumption
  <2>3. /\ mergedInto' \in [Rows -> Rows \cup {NoRow}]
        /\ \A r \in Rows : mergedInto'[r] \in {mergedInto[r], NoRow}
        /\ \A r \in Unmerged(m) : mergedInto'[r] = NoRow
    BY <1>8, <2>2 DEF Unlink, Shape, TypeOK
  <2>4. /\ \A r \in rows : mergedInto[r] = NoRow /\ status[r] # "absent"
        /\ \A r \in Unmerged(m) : canonical[r] = NoTx /\ status[r] # "absent"
    BY <2>1, <2>2 DEF Shape, RowShape
  <2>5. \A r \in rows \cup Unmerged(m) :
          canonical'[r] = NoTx /\ mergedInto'[r] = NoRow /\ status[r] # "absent"
    BY <2>1, <2>2, <2>3, <2>4
  <2> QED BY <1>8, <2>1, <2>2, <2>3, <2>5, ShapeReopen DEF Unlink
<1>9. ASSUME NEW m \in Matches, ConfirmSettlement(m) PROVE RowShape' /\ NoMergeCycle'
  BY <1>9, ShapeStay DEF ConfirmSettlement, rowVars
<1>10. ASSUME NEW m \in Matches, NEW w \in Rows, ConfirmDuplicate(m, w)
       PROVE RowShape' /\ NoMergeCycle'
  BY <1>10, ShapeMerge DEF ConfirmDuplicate, ReviewAssumption
<1>11. ASSUME NEW m \in Matches, NEW post \in LedgerAccounts, ConfirmTransfer(m, post)
       PROVE RowShape' /\ NoMergeCycle'
  BY <1>11, ShapeLink DEF ConfirmTransfer, BothSides, ReviewAssumption
<1>12. ASSUME NEW m \in Matches, NEW post \in LedgerAccounts, ConfirmRefund(m, post)
       PROVE RowShape' /\ NoMergeCycle'
  BY <1>12, ShapeLink DEF ConfirmRefund, Incoming, ReviewAssumption
<1> QED BY <1>1, <1>2, <1>3, <1>4, <1>5, <1>6, <1>7, <1>8, <1>9, <1>10, <1>11, <1>12 DEF Review

LEMMA ShapeStep ==
  ASSUME ReviewAssumption, Shape, [Next]_vars
  PROVE  RowShape' /\ NoMergeCycle'
<1>1. CASE Review
  BY <1>1, ShapeReview
<1>2. ASSUME NEW m \in Matches, RecordMatch(m) PROVE RowShape' /\ NoMergeCycle'
  BY <1>2, ShapeStay DEF RecordMatch, rowVars
<1>3. CASE AutomaticallyMerge
  BY <1>3, ShapeMerge, ShapeStay DEF AutomaticallyMerge, rowVars, ReviewAssumption, Shape, TypeOK
<1>4. CASE ReplaceOpen
  <2>1. NoMergeCycle'
    <3>1. \A r \in Rows : mergedInto'[r] \in {mergedInto[r], NoRow}
      BY <1>4 DEF ReplaceOpen
    <3> QED BY <3>1 DEF Shape, NoMergeCycle, ReviewAssumption
  <2>2. RowShape'
    BY <1>4 DEF ReplaceOpen, Shape, TypeOK, RowShape, ReviewAssumption
  <2> QED BY <2>1, <2>2
<1>5. ASSUME NEW d \in Docs, NEW n, SelectOpen(d, n) PROVE RowShape' /\ NoMergeCycle'
  BY <1>5 DEF SelectOpen, rowVars, Shape, TypeOK, RowShape, NoMergeCycle
<1>6. CASE UNCHANGED vars
  BY <1>6, ShapeStay DEF vars, rowVars
<1> QED BY <1>1, <1>2, <1>3, <1>4, <1>5, <1>6 DEF Next, Detect, Import

LEMMA ShapeInvariant == Spec => []Shape
<1>1. Init => RowShape /\ NoMergeCycle
  <2> SUFFICES ASSUME Init PROVE RowShape /\ NoMergeCycle
    OBVIOUS
  <2>1. \A r \in Rows : mergedInto[r] = NoRow /\ status[r] = "absent" /\ canonical[r] = NoTx
    BY DEF Init
  <2>2. RowShape
    BY <2>1 DEF Init, RowShape
  <2>3. ASSUME NEW rows \in (SUBSET Rows) \ {{}} PROVE \E r \in rows : mergedInto[r] \notin rows
    <3>1. PICK r \in rows : r \in Rows
      OBVIOUS
    <3>2. NoRow \notin rows
      BY ReviewAssumption DEF ReviewAssumption
    <3> QED BY <2>1, <3>1, <3>2
  <2> QED BY <2>2, <2>3 DEF NoMergeCycle
<1>2. Shape /\ [Next]_vars => (RowShape /\ NoMergeCycle)'
  BY ShapeStep, ReviewAssumption
<1>3. Shape <=> TypeOK /\ RowShape /\ NoMergeCycle
  BY DEF Shape
<1> QED BY <1>1, <1>2, <1>3, TypeCorrect, PTL DEF Spec

\* merged_into leads out of every set of rows, so following it ends, whatever is
\* merged, unlinked, replaced and merged again.
THEOREM MergesEnd == Spec => []NoMergeCycle
BY ShapeInvariant, PTL DEF Shape

\* A row folded into another says so and has no transaction.
THEOREM MergedNeverCounted == Spec => []MergedNotCounted
<1>1. Shape => MergedNotCounted
  BY DEF Shape, RowShape, MergedNotCounted
<1> QED BY <1>1, ShapeInvariant, PTL

-----------------------------------------------------------------------------
(* What a step does to transactions and to the rows that point at them *)

\* Rows that nothing points at become the event of k.
Makes(k, rows) ==
  /\ \A r \in rows : Free(r)
  /\ \/ tx[k] = "none" /\ \E s \in {"draft", "confirmed"} : tx' = [tx EXCEPT ![k] = s]
     \/ tx[k] # "none" /\ tx' = tx
  /\ canonical' = [r \in Rows |-> IF r \in rows THEN k ELSE canonical[r]]

\* The event of k is withdrawn and its rows let go of it.
Withdraws(k) ==
  /\ Live(k)
  /\ tx' = [tx EXCEPT ![k] = "voided"]
  /\ canonical' = [r \in Rows |-> IF canonical[r] = k THEN NoTx ELSE canonical[r]]

Leaves == UNCHANGED <<tx, canonical>>

\* The rows a match was made an event from.
Linked(m) == IF Kind[m] = "transfer" THEN Pair[m] ELSE Incoming(m)

EventMatches == {m \in Matches : Kind[m] \in {"transfer", "refund"}}

LEMMA Pairs ==
  ASSUME ReviewAssumption, NEW m \in Matches
  PROVE  Pair[m] \in (SUBSET Rows) \ {{}} /\ Incoming(m) \in SUBSET Rows
BY DEF ReviewAssumption, Incoming

\* The rows of a refund that receive money: one.
LEMMA OneReceives ==
  ASSUME ReviewAssumption, NEW m \in Matches, OneEachWay(m), NEW r \in Incoming(m)
  PROVE  Incoming(m) = {r}
<1>1. PICK a, b \in Rows : a # b /\ Pair[m] = {a, b}
  BY DEF ReviewAssumption
<1>2. "debit" \in {direction[q] : q \in Pair[m]} /\ "debit" # "credit"
  BY DEF OneEachWay, Directions
<1>3. direction[a] = "debit" \/ direction[b] = "debit"
  BY <1>1, <1>2
<1> QED BY <1>1, <1>3 DEF Incoming

\* A proposed match becomes an event.
Confirms(m) ==
  /\ OneEachWay(m)
  /\ match[m] = "proposed" /\ match'[m] = "confirmed"
  /\ Makes(MatchKey(m), Linked(m))

LEMMA SaveMakes ==
  ASSUME NEW k \in Keys, NEW post, NEW rows \in SUBSET Rows, \A r \in rows : Free(r),
         SaveOnce(k, post), LinkAccepted(rows, k)
  PROVE  Makes(k, rows)
BY DEF SaveOnce, LinkAccepted, Makes, bookVars

\* Transactions are made and withdrawn in these ways only.
LEMMA Effects ==
  ASSUME ReviewAssumption, Shape, Next
  PROVE  \/ Leaves
         \/ ReplaceOpen
         \/ \E k \in Keys : Withdraws(k)
         \/ \E r \in Rows : Makes(RowKey(r), {r})
         \/ \E m \in EventMatches : Confirms(m)
<1> USE KeyFacts
<1> DEFINE Goal == \/ Leaves
                   \/ ReplaceOpen
                   \/ \E k \in Keys : Withdraws(k)
                   \/ \E r \in Rows : Makes(RowKey(r), {r})
                   \/ \E m \in EventMatches : Confirms(m)
<1>1. ASSUME NEW r \in Rows, Correct(r) \/ Reject(r) PROVE Goal
  BY <1>1 DEF Correct, Reject, bookVars, Leaves
<1>2. ASSUME NEW r \in Rows, NEW post \in LedgerAccounts, Accept(r, post) PROVE Goal
  <2>1. \A q \in {r} : Free(q)
    BY <1>2 DEF Accept
  <2>2. Makes(RowKey(r), {r})
    BY <1>2, <2>1, SaveMakes DEF Accept
  <2> QED BY <2>2
<1>3. ASSUME NEW w \in Rows, NEW rows \in (SUBSET Rows) \ {{}}, Merge(w, rows) PROVE Goal
  BY <1>3 DEF Merge, MergeRows, bookVars, Leaves
<1>4. ASSUME NEW k \in Keys, Delete(k) PROVE Goal
  <2>1. Withdraws(k)
    BY <1>4 DEF Delete, Void, Release, HeldBy, Withdraws
  <2> QED BY <2>1
<1>5. ASSUME NEW m \in Matches, LinkManually(m) \/ RejectMatch(m) \/ ConfirmSettlement(m) PROVE Goal
  BY <1>5 DEF LinkManually, RejectMatch, ConfirmSettlement, rowVars, bookVars, Leaves
<1>6. ASSUME NEW m \in Matches, Unlink(m) PROVE Goal
  <2>1. ASSUME NEW k \in Keys, Void(k), Release(HeldBy(k)) PROVE Withdraws(k)
    BY <2>1 DEF Void, Release, HeldBy, Withdraws
  <2>2. Leaves \/ \E k \in Keys : Void(k) /\ Release(HeldBy(k))
    BY <1>6 DEF Unlink, bookVars, Leaves
  <2> QED BY <2>1, <2>2
<1>7. ASSUME NEW m \in Matches, NEW w \in Rows, ConfirmDuplicate(m, w) PROVE Goal
  BY <1>7 DEF ConfirmDuplicate, MergeRows, bookVars, Leaves
<1>8. ASSUME NEW m \in Matches, NEW post \in LedgerAccounts, ConfirmTransfer(m, post) PROVE Goal
  <2>1. m \in EventMatches /\ MatchKey(m) \in Keys /\ Linked(m) = Pair[m] /\ Pair[m] \in SUBSET Rows
    BY <1>8, Pairs DEF ConfirmTransfer, EventMatches, Linked
  <2>2. /\ \A r \in Pair[m] : Free(r)
        /\ SaveOnce(MatchKey(m), post) /\ LinkAccepted(Pair[m], MatchKey(m))
        /\ OneEachWay(m) /\ match[m] = "proposed" /\ match'[m] = "confirmed"
    BY <1>8 DEF ConfirmTransfer, BothSides, Undecided, Shape, TypeOK
  <2>3. Makes(MatchKey(m), Linked(m))
    BY <2>1, <2>2, SaveMakes
  <2>4. Confirms(m)
    BY <2>2, <2>3 DEF Confirms
  <2> QED BY <2>1, <2>4
<1>9. ASSUME NEW m \in Matches, NEW post \in LedgerAccounts, ConfirmRefund(m, post) PROVE Goal
  <2>1. PICK r \in Incoming(m) :
          Free(r) /\ SaveOnce(MatchKey(m), post) /\ LinkAccepted({r}, MatchKey(m))
    BY <1>9 DEF ConfirmRefund
  <2>2. /\ m \in EventMatches /\ MatchKey(m) \in Keys /\ OneEachWay(m)
        /\ match[m] = "proposed" /\ match'[m] = "confirmed"
    BY <1>9 DEF ConfirmRefund, EventMatches, Undecided
  <2>3. Linked(m) = {r} /\ {r} \in SUBSET Rows
    BY <1>9, <2>2, OneReceives, Pairs DEF Linked, ConfirmRefund
  <2>4. Makes(MatchKey(m), {r})
    <3>1. \A q \in {r} : Free(q)
      BY <2>1
    <3> QED BY <2>1, <2>2, <2>3, <3>1, SaveMakes
  <2>5. Makes(MatchKey(m), Linked(m))
    BY <2>3, <2>4
  <2>6. Confirms(m)
    BY <2>2, <2>5 DEF Confirms
  <2> QED BY <2>2, <2>6
<1>10. CASE Review
  BY <1>1, <1>2, <1>3, <1>4, <1>5, <1>6, <1>7, <1>8, <1>9, <1>10 DEF Review
<1>11. CASE Detect
  BY <1>11 DEF Detect, AutomaticallyMerge, RecordMatch, MergeRows, rowVars, bookVars, Leaves
<1>12. CASE Import
  BY <1>12 DEF Import, SelectOpen, rowVars, bookVars, Leaves
<1> QED BY <1>10, <1>11, <1>12 DEF Next

-----------------------------------------------------------------------------
(* Transfers are counted whole *)

\* A row's transaction was made.
Made == \A r \in Rows : canonical[r] # NoTx => tx[canonical[r]] # "none"

\* A row accepted for itself points at what it became while that counts.
RowWhole == \A r \in Rows : Live(RowKey(r)) => canonical[r] = RowKey(r)

\* What an import is about to delete was not made into anything.
Replacing ==
  /\ importing = {} => doomed = {}
  /\ \A r \in doomed : canonical[r] = NoTx

Whole == Made /\ RowWhole /\ TransferWhole /\ Replacing

LEMMA ReplacingStep ==
  ASSUME ReviewAssumption, ~ReviewDuringImport, Shape, Replacing, Next
  PROVE  Replacing'
<1>1. CASE Review
  <2>1. importing = {} /\ doomed = {}
    BY <1>1 DEF Review, Replacing
  <2>2. UNCHANGED importVars
    BY <1>1 DEF Review, Correct, Reject, Accept, Merge, Delete, LinkManually, RejectMatch, Unlink,
                ConfirmSettlement, ConfirmDuplicate, ConfirmTransfer, ConfirmRefund
  <2> QED BY <2>1, <2>2 DEF importVars, Replacing
<1>2. CASE Detect
  BY <1>2 DEF Detect, AutomaticallyMerge, RecordMatch, MergeRows, rowVars, importVars, Replacing
<1>3. CASE ReplaceOpen
  BY <1>3 DEF ReplaceOpen, Replacing
<1>4. ASSUME NEW d, NEW n, SelectOpen(d, n) PROVE Replacing'
  BY <1>4 DEF SelectOpen, rowVars, Shape, RowShape, Replacing
<1> QED BY <1>1, <1>2, <1>3, <1>4 DEF Next, Import

LEMMA WholeStep ==
  ASSUME ReviewAssumption, ~ReviewDuringImport, Shape, Whole, Next
  PROVE  Whole'
<1> USE ReviewAssumption, KeyFacts
<1>0. Replacing'
  BY ReplacingStep DEF Whole
<1>1. CASE Leaves
  BY <1>0, <1>1 DEF Leaves, Whole, Made, RowWhole, TransferWhole, Live
<1>2. CASE ReplaceOpen
  <2>1. UNCHANGED <<tx, canonical>>
    BY <1>2 DEF ReplaceOpen, bookVars, Whole, Replacing, Shape, TypeOK
  <2> QED BY <1>0, <2>1 DEF Whole, Made, RowWhole, TransferWhole, Live
<1>3. ASSUME NEW k \in Keys, Withdraws(k) PROVE Whole'
  <2>1. \A j \in Keys : tx'[j] = IF j = k THEN "voided" ELSE tx[j]
    BY <1>3 DEF Withdraws, Shape, TypeOK
  <2>2. \A j \in Keys : Live(j)' => Live(j) /\ j # k
    BY <2>1 DEF Live
  <2>3. \A r \in Rows : canonical'[r] = IF canonical[r] = k THEN NoTx ELSE canonical[r]
    BY <1>3 DEF Withdraws
  <2>4. Made'
    BY <2>1, <2>3 DEF Whole, Made, Shape, TypeOK
  <2>5. RowWhole'
    BY <2>2, <2>3 DEF Whole, RowWhole
  <2>6. TransferWhole'
    <3> SUFFICES ASSUME NEW m \in Matches, Kind[m] = "transfer", Live(MatchKey(m))', NEW r \in Pair[m]
                 PROVE  canonical'[r] = MatchKey(m)
      BY DEF TransferWhole
    <3>1. MatchKey(m) \in Keys /\ r \in Rows
      BY Pairs
    <3> QED BY <2>2, <2>3, <3>1 DEF Whole, TransferWhole
  <2> QED BY <1>0, <2>4, <2>5, <2>6 DEF Whole
<1>4. ASSUME NEW k \in Keys, NEW rows \in SUBSET Rows, Makes(k, rows),
             k \in RowKeys => \A r \in Rows : k = RowKey(r) => r \in rows,
             \A m \in Matches : Kind[m] = "transfer" /\ k = MatchKey(m) => Pair[m] \subseteq rows
      PROVE  Whole'
  <2>1. \A r \in Rows : canonical'[r] = IF r \in rows THEN k ELSE canonical[r]
    BY <1>4 DEF Makes
  <2>2. \A r \in rows : canonical[r] = NoTx
    BY <1>4 DEF Makes, Free
  <2>3. /\ tx'[k] # "none" /\ \A j \in Keys \ {k} : tx'[j] = tx[j]
        /\ tx[k] # "none" => tx'[k] = tx[k]
    BY <1>4 DEF Makes, Shape, TypeOK
  <2>4. Made'
    BY <2>1, <2>3 DEF Whole, Made, Shape, TypeOK
  <2>5. \A j \in Keys \ {k} : Live(j)' => Live(j)
    BY <2>3 DEF Live
  <2>6. RowWhole'
    <3> SUFFICES ASSUME NEW r \in Rows, Live(RowKey(r))' PROVE canonical'[r] = RowKey(r)
      BY DEF RowWhole
    <3>1. CASE k = RowKey(r)
      BY <1>4, <2>1, <3>1 DEF RowKeys
    <3>2. CASE k # RowKey(r)
      <4>1. canonical[r] = RowKey(r)
        BY <2>5, <3>2 DEF Whole, RowWhole
      <4> QED BY <2>1, <2>2, <4>1
    <3> QED BY <3>1, <3>2
  <2>7. TransferWhole'
    <3> SUFFICES ASSUME NEW m \in Matches, Kind[m] = "transfer", Live(MatchKey(m))', NEW r \in Pair[m]
                 PROVE  canonical'[r] = MatchKey(m)
      BY DEF TransferWhole
    <3>0. r \in Rows /\ MatchKey(m) \in Keys
      BY Pairs
    <3>1. CASE k = MatchKey(m)
      BY <1>4, <2>1, <3>0, <3>1
    <3>2. CASE k # MatchKey(m)
      <4>1. canonical[r] = MatchKey(m)
        BY <2>5, <3>0, <3>2 DEF Whole, TransferWhole
      <4> QED BY <2>1, <2>2, <3>0, <4>1
    <3> QED BY <3>1, <3>2
  <2> QED BY <1>0, <2>4, <2>6, <2>7 DEF Whole
<1>5. ASSUME NEW r \in Rows, Makes(RowKey(r), {r}) PROVE Whole'
  <2>1. \A m \in Matches : Kind[m] = "transfer" => RowKey(r) # MatchKey(m)
    OBVIOUS
  <2> QED BY <1>4, <1>5, <2>1
<1>6. ASSUME NEW m \in EventMatches, Makes(MatchKey(m), Linked(m)) PROVE Whole'
  <2>1. /\ MatchKey(m) \in Keys /\ Linked(m) \in SUBSET Rows
        /\ MatchKey(m) \notin RowKeys
    BY Pairs DEF EventMatches, Linked, RowKeys
  <2>2. \A n \in Matches : Kind[n] = "transfer" /\ MatchKey(m) = MatchKey(n) => Pair[n] \subseteq Linked(m)
    BY DEF EventMatches, Linked
  <2> QED BY <1>4, <1>6, <2>1, <2>2
<1> QED BY <1>1, <1>2, <1>3, <1>5, <1>6, Effects DEF Confirms

LEMMA WholeInvariant == ASSUME ~ReviewDuringImport PROVE Spec => []Whole
<1>1. Init => Whole
  <2> SUFFICES ASSUME Init PROVE Whole
    OBVIOUS
  <2>1. \A k \in Keys : ~Live(k)
    BY DEF Init, Live
  <2> QED BY <2>1, KeyFacts, ReviewAssumption DEF Init, Whole, Made, RowWhole, TransferWhole, Replacing
<1>2. ASSUME Shape, Whole, [Next]_vars PROVE Whole'
  <2>1. CASE UNCHANGED vars
    BY <1>2, <2>1 DEF vars, rowVars, bookVars, importVars, Whole, Made, RowWhole, TransferWhole,
                      Replacing, Live
  <2>2. CASE Next
    BY <1>2, <2>2, WholeStep, ReviewAssumption
  <2> QED BY <1>2, <2>1, <2>2
<1> QED BY <1>1, <1>2, ShapeInvariant, PTL DEF Spec

\* As long as nobody reviews while a pass is being imported, a transfer that
\* reports count has both of its rows (confirm_match, delete_transaction, unlink_match).
THEOREM TransfersAlwaysWhole == ASSUME ~ReviewDuringImport PROVE Spec => []TransferWhole
BY WholeInvariant, PTL DEF Whole

-----------------------------------------------------------------------------
(* Counted events are not put up for decision again *)

\* The match of a counted transfer or refund stands and its rows point at the event,
\* or it went for good with one of its rows.
Standing ==
  \A m \in EventMatches : Live(MatchKey(m)) =>
    \/ match[m] = "confirmed" /\ \A r \in Linked(m) : canonical[r] = MatchKey(m)
    \/ match[m] = "none" /\ \E r \in Pair[m] : status[r] = "gone"

\* A row that an import deleted does not come back.
LEMMA GoneStays ==
  ASSUME ReviewAssumption, Shape, Next, NEW r \in Rows, status[r] = "gone"
  PROVE  status'[r] = "gone"
<1>1. canonical[r] = NoTx /\ mergedInto[r] = NoRow /\ ~Exists(r) /\ r \notin importing
  BY DEF Shape, RowShape, Exists
<1>2. \A k \in Keys : r \notin HeldBy(k)
  BY <1>1 DEF HeldBy, ReviewAssumption
<1>3. \A m \in Matches : r \notin Unmerged(m)
  BY <1>1, Pairs, ReviewAssumption DEF Unmerged
<1>4. CASE \E q \in Rows : \/ Correct(q) \/ Reject(q) \/ \E post \in LedgerAccounts : Accept(q, post)
                           \/ \E rows \in (SUBSET Rows) \ {{}} : Merge(q, rows)
  BY <1>1, <1>4 DEF Correct, Reject, Accept, Merge, MergeRows, MayBeMerged, LinkAccepted, Free,
                    Shape, TypeOK
<1>5. CASE \E k \in Keys : Delete(k)
  BY <1>2, <1>5 DEF Delete, Reopen
<1>6. ASSUME NEW m \in Matches, Unlink(m) PROVE status'[r] = "gone"
  <2>1. ASSUME NEW k \in Keys, Reopen(HeldBy(k) \cup Unmerged(m)) PROVE status'[r] = "gone"
    BY <1>2, <1>3, <2>1 DEF Reopen
  <2>2. ASSUME Reopen(Unmerged(m)) PROVE status'[r] = "gone"
    BY <1>3, <2>2 DEF Reopen
  <2> QED BY <1>6, <2>1, <2>2 DEF Unlink
<1>7. CASE \E m \in Matches : \/ LinkManually(m) \/ RejectMatch(m) \/ ConfirmSettlement(m)
                              \/ \E w \in Rows : ConfirmDuplicate(m, w)
  BY <1>1, <1>7, Pairs DEF LinkManually, RejectMatch, ConfirmSettlement, ConfirmDuplicate, rowVars,
                           MergeRows, MayBeMerged
<1>8. CASE \E m \in Matches, post \in LedgerAccounts : ConfirmTransfer(m, post) \/ ConfirmRefund(m, post)
  BY <1>1, <1>8 DEF ConfirmTransfer, ConfirmRefund, BothSides, LinkAccepted, Free
<1>9. CASE Review
  BY <1>4, <1>5, <1>6, <1>7, <1>8, <1>9 DEF Review
<1>10. CASE Detect
  BY <1>1, <1>10 DEF Detect, RecordMatch, AutomaticallyMerge, rowVars, MergeRows, MayBeMerged
<1>11. CASE Import
  BY <1>1, <1>11 DEF Import, SelectOpen, ReplaceOpen, rowVars
<1> QED BY <1>9, <1>10, <1>11 DEF Next

LEMMA DirectionsStay ==
  ASSUME ~DirectionsCorrected, Shape, Next
  PROVE  direction' = direction
<1>1. \A r \in Rows : direction = [direction EXCEPT ![r] = direction[r]]
  BY DEF Shape, TypeOK
<1>2. ASSUME NEW r \in Rows, Correct(r) PROVE direction' = direction
  BY <1>1, <1>2 DEF Correct
<1>3. CASE Review
  BY <1>2, <1>3 DEF Review, Reject, Accept, Merge, MergeRows, LinkAccepted, Delete, LinkManually,
       RejectMatch, Unlink, ConfirmSettlement, ConfirmDuplicate, ConfirmTransfer, ConfirmRefund, rowVars
<1> QED BY <1>3 DEF Next, Detect, Import, RecordMatch, AutomaticallyMerge, MergeRows, SelectOpen,
                    ReplaceOpen, rowVars

\* How the status of a match changes that is not being decided in this step.
LEMMA MatchStays ==
  ASSUME ReviewAssumption, Shape, Next, NEW m \in EventMatches,
         match[m] \in {"none", "confirmed"}
  PROVE  \/ match'[m] = match[m]
         \/ \A r \in Pair[m] : Exists(r) /\ match[m] = "none"
         \/ match'[m] = "none" /\ \E r \in Pair[m] : status'[r] = "gone"
         \/ Unlink(m)
<1> DEFINE Goal == \/ match'[m] = match[m]
                   \/ \A r \in Pair[m] : Exists(r) /\ match[m] = "none"
                   \/ match'[m] = "none" /\ \E r \in Pair[m] : status'[r] = "gone"
                   \/ Unlink(m)
<1>0. m \in Matches /\ match = [n \in Matches |-> match[n]]
  BY DEF EventMatches, Shape, TypeOK
<1>1. CASE UNCHANGED match
  BY <1>1
<1>2. ASSUME NEW n \in Matches, RecordMatch(n) \/ LinkManually(n) PROVE Goal
  BY <1>0, <1>2 DEF RecordMatch, LinkManually
<1>3. CASE AutomaticallyMerge
  BY <1>0, <1>3 DEF AutomaticallyMerge, MayWin
<1>4. CASE Import
  <2>1. CASE ReplaceOpen
    <3>1. Pair[m] \cap doomed = {} => match'[m] = match[m]
      BY <1>0, <2>1 DEF ReplaceOpen
    <3>2. ASSUME NEW r \in Pair[m] \cap doomed
          PROVE match'[m] = "none" /\ status'[r] = "gone"
      BY <1>0, <2>1, <3>2, Pairs DEF ReplaceOpen
    <3> QED BY <3>1, <3>2
  <2> QED BY <1>1, <1>4, <2>1 DEF Import, SelectOpen
<1>5. ASSUME NEW n \in Matches, Unlink(n) PROVE Goal
  BY <1>0, <1>5 DEF Unlink
<1>6. ASSUME NEW n \in Matches,
             \/ RejectMatch(n) \/ ConfirmSettlement(n)
             \/ \E w \in Rows : ConfirmDuplicate(n, w)
             \/ \E post \in LedgerAccounts : ConfirmTransfer(n, post)
      PROVE  Goal
  BY <1>0, <1>6 DEF RejectMatch, ConfirmSettlement, ConfirmDuplicate, ConfirmTransfer, Undecided
<1>7. ASSUME NEW n \in Matches, NEW post \in LedgerAccounts, ConfirmRefund(n, post) PROVE Goal
  <2>1. PICK refund : match' = [j \in Matches |-> IF j = n THEN "confirmed"
                                                  ELSE IF j \in Competing(n, refund) THEN "rejected"
                                                  ELSE match[j]]
    BY <1>7 DEF ConfirmRefund
  <2>2. m # n /\ m \notin Competing(n, refund)
    BY <1>7 DEF ConfirmRefund, Undecided, Competing
  <2> QED BY <1>0, <2>1, <2>2
<1>8. CASE Review
  BY <1>1, <1>2, <1>5, <1>6, <1>7, <1>8 DEF Review, Correct, Reject, Accept, Merge, Delete
<1> QED BY <1>2, <1>3, <1>4, <1>8 DEF Next, Detect

LEMMA StandingStep ==
  ASSUME ReviewAssumption, ~DirectionsCorrected, Shape, Standing, Next
  PROVE  Standing'
<1> USE ReviewAssumption, KeyFacts
<1> SUFFICES ASSUME NEW m \in EventMatches, Live(MatchKey(m))'
             PROVE  \/ match'[m] = "confirmed" /\ \A r \in Linked(m)' : canonical'[r] = MatchKey(m)
                    \/ match'[m] = "none" /\ \E r \in Pair[m] : status'[r] = "gone"
  BY DEF Standing
<1>0. /\ m \in Matches /\ MatchKey(m) \in Keys /\ Linked(m)' = Linked(m)
      /\ Linked(m) \in SUBSET Rows /\ Linked(m) \subseteq Pair[m] /\ MatchKey(m) # NoTx
  BY DirectionsStay, Pairs DEF EventMatches, Linked, Incoming, ReviewAssumption
<1>1. CASE Live(MatchKey(m))
  <2>1. CASE match[m] = "none"
    <3>1. PICK r \in Pair[m] : status[r] = "gone"
      BY <1>1, <2>1 DEF Standing
    <3>2. status'[r] = "gone" /\ ~Exists(r)
      BY <1>0, <3>1, GoneStays, Pairs DEF Exists
    <3>3. match'[m] = "none"
      BY <2>1, <3>2, MatchStays DEF Unlink
    <3> QED BY <3>2, <3>3
  <2>2. CASE match[m] = "confirmed"
    <3>1. \A r \in Linked(m) : canonical[r] = MatchKey(m)
      BY <1>1, <2>2 DEF Standing
    <3>2. ~Unlink(m)
      <4> SUFFICES ASSUME Unlink(m) PROVE FALSE
        OBVIOUS
      <4>1. PICK k \in Keys : Undone(m, k) /\ Void(k)
        BY <1>0 DEF Unlink, EventMatches
      <4>2. k = MatchKey(m)
        <5>1. CASE Kind[m] = "transfer"
          <6>1. {canonical[r] : r \in Pair[m]} = {MatchKey(m)}
            BY <1>0, <3>1, <5>1, Pairs DEF Linked
          <6> QED BY <4>1, <5>1, <6>1 DEF Undone
        <5>2. CASE Kind[m] # "transfer"
          BY <3>1, <4>1, <5>2 DEF Undone, Linked
        <5> QED BY <5>1, <5>2
      <4>3. tx'[k] = "voided"
        BY <4>1 DEF Void, Shape, TypeOK
      <4> QED BY <4>2, <4>3 DEF Live
    <3>3. CASE match'[m] = "none" /\ \E r \in Pair[m] : status'[r] = "gone"
      BY <3>3
    <3>4. CASE match'[m] = "confirmed"
      <4> SUFFICES ASSUME NEW r \in Linked(m) PROVE canonical'[r] = MatchKey(m)
        BY <1>0, <3>4
      <4>1. canonical[r] = MatchKey(m) /\ r \in Rows /\ r \in Pair[m]
        BY <1>0, <3>1
      <4>2. CASE Leaves
        BY <4>1, <4>2 DEF Leaves
      <4>3. CASE ReplaceOpen
        BY <1>0, <3>4, <4>1, <4>3 DEF ReplaceOpen
      <4>4. ASSUME NEW k \in Keys, Withdraws(k) PROVE canonical'[r] = MatchKey(m)
        <5>1. tx'[k] = "voided"
          BY <4>4 DEF Withdraws, Shape, TypeOK
        <5> QED BY <4>1, <4>4, <5>1 DEF Withdraws, Live
      <4>5. ASSUME NEW k, NEW rows, Makes(k, rows) PROVE canonical'[r] = MatchKey(m)
        BY <1>0, <4>1, <4>5 DEF Makes, Free
      <4> QED BY <4>2, <4>3, <4>4, <4>5, Effects DEF Confirms
    <3> QED BY <1>0, <2>2, <3>2, <3>3, <3>4, MatchStays, Pairs
  <2> QED BY <1>1, <2>1, <2>2 DEF Standing
<1>2. CASE ~Live(MatchKey(m))
  <2>1. ASSUME Leaves \/ ReplaceOpen PROVE FALSE
    BY <1>2, <2>1 DEF Leaves, ReplaceOpen, bookVars, Live
  <2>2. ASSUME NEW k \in Keys, Withdraws(k) PROVE FALSE
    BY <1>0, <1>2, <2>2 DEF Withdraws, Shape, TypeOK, Live
  <2>3. ASSUME NEW k \in Keys, NEW rows, Makes(k, rows) PROVE k = MatchKey(m)
    BY <1>0, <1>2, <2>3 DEF Makes, Shape, TypeOK, Live
  <2>4. ASSUME NEW r \in Rows, Makes(RowKey(r), {r}) PROVE FALSE
    BY <2>3, <2>4 DEF EventMatches
  <2>5. ASSUME NEW n \in EventMatches, Confirms(n) PROVE Confirms(m)
    <3>1. MatchKey(n) \in Keys /\ n \in Matches
      BY DEF EventMatches
    <3>2. MatchKey(n) = MatchKey(m)
      BY <2>3, <2>5, <3>1 DEF Confirms
    <3>3. n = m
      BY <1>0, <3>1, <3>2
    <3> QED BY <2>5, <3>3
  <2>6. Confirms(m)
    BY <2>1, <2>2, <2>4, <2>5, Effects
  <2>7. match'[m] = "confirmed" /\ \A r \in Linked(m) : canonical'[r] = MatchKey(m)
    BY <1>0, <2>6 DEF Confirms, Makes
  <2> QED BY <1>0, <2>7
<1> QED BY <1>1, <1>2

LEMMA StandingInvariant == ASSUME ~DirectionsCorrected PROVE Spec => []Standing
<1>1. Init => Standing
  <2> SUFFICES ASSUME Init PROVE Standing
    OBVIOUS
  <2>1. \A k \in Keys : ~Live(k)
    BY DEF Init, Live
  <2> QED BY <2>1, KeyFacts, ReviewAssumption DEF Standing, EventMatches
<1>2. ASSUME Shape, Standing, [Next]_vars PROVE Standing'
  <2>1. CASE UNCHANGED vars
    BY <1>2, <2>1 DEF vars, rowVars, bookVars, Standing, Live, Linked, Incoming
  <2>2. CASE Next
    BY <1>2, <2>2, StandingStep, ReviewAssumption
  <2> QED BY <1>2, <2>1, <2>2
<1> QED BY <1>1, <1>2, ShapeInvariant, PTL DEF Spec

\* As long as reviewers leave directions alone, no counted event's match is back in
\* the queue or dismissed, for any number of matches on a row and passes that delete
\* rows under review (record_match, _dismiss_competing_candidates, unlink_match).
THEOREM CountedStaysDecided == ASSUME ~DirectionsCorrected PROVE Spec => []CountedNotReopened
<1>1. Standing => CountedNotReopened
  <2>1. \A m \in Matches : MatchKey(m) \in Keys => m \in EventMatches
    <3> SUFFICES ASSUME NEW m \in Matches, MatchKey(m) \in Keys PROVE m \in EventMatches
      OBVIOUS
    <3>1. \A r \in Rows : MatchKey(m) # RowKey(r)
      BY ReviewAssumption DEF MatchKey, RowKey, Kinds, ReviewAssumption
    <3>2. PICK n \in Matches : Kind[n] \in {"transfer", "refund"} /\ MatchKey(m) = MatchKey(n)
      BY <3>1, KeyFacts, ReviewAssumption
    <3> QED BY <3>2 DEF MatchKey, EventMatches
  <2> QED BY <2>1 DEF Standing, CountedNotReopened
<1> QED BY <1>1, StandingInvariant, PTL

-----------------------------------------------------------------------------
(* Every event is counted once *)

\* What reports see of a state.
CountedNow == {k \in Keys : Live(k)}
Withdrawn == {k \in Keys : tx[k] = "voided"}
Holder == [r \in Rows |-> IF canonical[r] \in {k \in Keys : Live(k)} THEN canonical[r] ELSE NoTx]

\* A row no counted event was made from becomes one, or it is found made and withdrawn.
LEMMA MakesCounts ==
  ASSUME ReviewAssumption, Shape, Made, NEW k \in Keys, NEW rows \in SUBSET Rows, rows # {},
         Makes(k, rows), ~Live(k)
  PROVE  Counting!Count(k, rows) \/ UNCHANGED Counting!vars
<1>1. /\ \A r \in Rows : canonical'[r] = IF r \in rows THEN k ELSE canonical[r]
      /\ \A r \in rows : canonical[r] = NoTx
  BY DEF Makes, Free
<1>2. NoTx \notin Keys
  BY DEF ReviewAssumption
<1>3. CASE tx[k] = "none"
  <2>1. /\ Live(k)' /\ \A j \in Keys \ {k} : tx'[j] = tx[j] /\ (Live(j)' <=> Live(j))
        /\ tx'[k] # "voided"
    BY <1>3 DEF Makes, Shape, TypeOK, Live
  <2>2. k \notin CountedNow \cup Withdrawn
    BY <1>3 DEF CountedNow, Withdrawn, Live
  <2>3. CountedNow' = CountedNow \cup {k} /\ Withdrawn' = Withdrawn
    BY <1>3, <2>1 DEF CountedNow, Withdrawn
  <2>4. \A r \in rows : Holder[r] = NoTx
    BY <1>1, <1>2 DEF Holder
  <2>5. \A r \in Rows : canonical[r] # k
    BY <1>2, <1>3 DEF Made
  <2>6. ASSUME NEW r \in Rows
        PROVE  Holder'[r] = IF r \in rows THEN k ELSE Holder[r]
    <3>1. CASE r \in rows
      BY <1>1, <2>1, <3>1 DEF Holder
    <3>2. CASE r \notin rows
      BY <1>1, <2>1, <2>5, <3>2 DEF Holder
    <3> QED BY <3>1, <3>2
  <2>7. Holder' = [r \in Rows |-> IF r \in rows THEN k ELSE Holder[r]]
    BY <2>6 DEF Holder
  <2>8. Counting!Count(k, rows)
    BY <2>2, <2>3, <2>4, <2>7 DEF Counting!Count, CountedNow, Withdrawn, Holder
  <2> QED BY <2>8
<1>4. CASE tx[k] # "none"
  <2>1. tx' = tx /\ ~Live(k)'
    BY <1>4 DEF Makes, Live
  <2>2. CountedNow' = CountedNow /\ Withdrawn' = Withdrawn
    BY <2>1 DEF CountedNow, Withdrawn, Live
  <2>3. \A r \in Rows : Holder'[r] = Holder[r]
    BY <1>1, <1>2, <2>1 DEF Holder, Live
  <2>4. Holder' = Holder
    BY <2>3 DEF Holder
  <2> QED BY <2>2, <2>4 DEF Counting!vars, CountedNow, Withdrawn, Holder
<1> QED BY <1>3, <1>4

LEMMA WithdrawsOne ==
  ASSUME ReviewAssumption, Shape, NEW k \in Keys, Withdraws(k)
  PROVE  Counting!Withdraw(k)
<1>1. /\ ~Live(k)' /\ tx'[k] = "voided"
      /\ \A j \in Keys \ {k} : tx'[j] = tx[j] /\ (Live(j)' <=> Live(j))
  BY DEF Withdraws, Shape, TypeOK, Live
<1>2. \A r \in Rows : canonical'[r] = IF canonical[r] = k THEN NoTx ELSE canonical[r]
  BY DEF Withdraws
<1>3. k \in CountedNow
  BY DEF CountedNow, Withdraws
<1>4. CountedNow' = CountedNow \ {k} /\ Withdrawn' = Withdrawn \cup {k}
  BY <1>1 DEF CountedNow, Withdrawn
<1>5. NoTx \notin Keys
  BY DEF ReviewAssumption
<1>6. ASSUME NEW r \in Rows
      PROVE  Holder'[r] = IF Holder[r] = k THEN NoTx ELSE Holder[r]
  <2>1. CASE canonical[r] = k
    BY <1>2, <1>3, <1>5, <2>1 DEF Holder, CountedNow
  <2>2. CASE canonical[r] # k
    BY <1>1, <1>2, <1>5, <2>2 DEF Holder
  <2> QED BY <2>1, <2>2
<1>7. Holder' = [r \in Rows |-> IF Holder[r] = k THEN NoTx ELSE Holder[r]]
  BY <1>6 DEF Holder
<1> QED BY <1>3, <1>4, <1>7 DEF Counting!Withdraw, CountedNow, Withdrawn, Holder

LEMMA CountedStep ==
  ASSUME ReviewAssumption, Shape, Whole, Standing, Next
  PROVE  [Counting!Next]_(Counting!vars)
<1> USE ReviewAssumption, KeyFacts
<1>1. CASE Leaves
  BY <1>1 DEF Leaves, Counting!vars, Live
<1>2. CASE ReplaceOpen
  <2>1. Leaves
    BY <1>2 DEF ReplaceOpen, bookVars, Whole, Replacing, Shape, TypeOK, Leaves
  <2> QED BY <1>1, <2>1
<1>3. ASSUME NEW k \in Keys, Withdraws(k) PROVE Counting!Next
  BY <1>3, WithdrawsOne DEF Counting!Next
<1>4. ASSUME NEW k \in Keys, NEW rows \in SUBSET Rows, rows # {}, Makes(k, rows), ~Live(k)
      PROVE  [Counting!Next]_(Counting!vars)
  BY <1>4, MakesCounts DEF Whole, Counting!Next
<1>5. ASSUME NEW r \in Rows, Makes(RowKey(r), {r}) PROVE ~Live(RowKey(r))
  <2>1. canonical[r] = NoTx /\ RowKey(r) # NoTx
    BY <1>5 DEF Makes, Free, ReviewAssumption
  <2> QED BY <2>1 DEF Whole, RowWhole
<1>6. ASSUME NEW m \in EventMatches, Confirms(m)
      PROVE  /\ ~Live(MatchKey(m)) /\ MatchKey(m) \in Keys
             /\ Linked(m) \in SUBSET Rows /\ Linked(m) # {}
  <2>1. ~Live(MatchKey(m))
    BY <1>6 DEF Standing, Confirms
  <2>2. m \in Matches /\ MatchKey(m) \in Keys
    BY DEF EventMatches
  <2>3. Incoming(m) # {}
    <3>1. "credit" \in {direction[r] : r \in Pair[m]}
      BY <1>6 DEF Confirms, OneEachWay, Directions
    <3> QED BY <3>1 DEF Incoming
  <2> QED BY <2>1, <2>2, <2>3, Pairs DEF Linked
<1> QED BY <1>1, <1>2, <1>3, <1>4, <1>5, <1>6, Effects DEF Confirms

\* Review and reconciliation implement CountedEvents: whatever is accepted, merged,
\* transferred, refunded, unlinked, deleted and read again, an event is counted once,
\* from rows of no other counted event, and a withdrawn one stays withdrawn, as long as
\* nobody reviews during an import or corrects directions.
THEOREM EventsCountOnce ==
  ASSUME ~ReviewDuringImport, ~DirectionsCorrected
  PROVE  Spec => CountsOnce
<1>1. Init => Counting!Init
  <2> SUFFICES ASSUME Init PROVE Counting!Init
    OBVIOUS
  <2>1. \A k \in Keys : ~Live(k) /\ tx[k] # "voided"
    BY DEF Init, Live
  <2> QED BY <2>1 DEF Init, Counting!Init
<1>2. ASSUME Shape, Whole, Standing, [Next]_vars PROVE [Counting!Next]_(Counting!vars)
  <2>1. CASE UNCHANGED vars
    BY <2>1 DEF vars, rowVars, bookVars, Counting!vars, Live
  <2>2. CASE Next
    BY <1>2, <2>2, CountedStep, ReviewAssumption
  <2> QED BY <1>2, <2>1, <2>2
<1> QED BY <1>1, <1>2, ShapeInvariant, WholeInvariant, StandingInvariant, PTL
        DEF Spec, CountsOnce, Counting!Spec

-----------------------------------------------------------------------------
(* A dismissed match *)

Unhanded == merging = NoMatch

\* With automatic merging off, a dismissed match is never applied by the step that
\* finds it dismissed (record_match, _automatically_merge_duplicate).
THEOREM DismissedStays == ASSUME ~AutoMerge PROVE Spec => DecisionStands
<1>1. Init => Unhanded
  BY DEF Init, Unhanded
<1>2. ASSUME Unhanded, [Next]_vars PROVE Unhanded'
  BY <1>2 DEF Unhanded, Next, Review, Detect, Import, RecordMatch, AutomaticallyMerge, SelectOpen,
     ReplaceOpen, Correct, Reject, Accept, Merge, Delete, LinkManually, RejectMatch, Unlink,
     ConfirmSettlement, ConfirmDuplicate, ConfirmTransfer, ConfirmRefund, vars
<1>3. ASSUME Shape, Unhanded, Next, NEW m \in Matches, match[m] = "rejected"
      PROVE  match'[m] # "confirmed"
  <2>1. match = [n \in Matches |-> match[n]]
    BY <1>3 DEF Shape, TypeOK
  <2>2. ASSUME NEW n \in Matches,
               \/ LinkManually(n) \/ RejectMatch(n) \/ Unlink(n) \/ ConfirmSettlement(n)
               \/ \E w \in Rows : ConfirmDuplicate(n, w)
               \/ \E post \in LedgerAccounts : ConfirmTransfer(n, post)
               \/ RecordMatch(n)
        PROVE  match'[m] # "confirmed"
    BY <1>3, <2>1, <2>2 DEF LinkManually, RejectMatch, Unlink, ConfirmSettlement, ConfirmDuplicate,
       ConfirmTransfer, RecordMatch, Undecided
  <2>3. ASSUME NEW n \in Matches, NEW post \in LedgerAccounts, ConfirmRefund(n, post)
        PROVE  match'[m] # "confirmed"
    <3>1. PICK refund : match' = [j \in Matches |-> IF j = n THEN "confirmed"
                                                    ELSE IF j \in Competing(n, refund) THEN "rejected"
                                                    ELSE match[j]]
      BY <2>3 DEF ConfirmRefund
    <3>2. m # n
      BY <1>3, <2>3 DEF ConfirmRefund, Undecided
    <3> QED BY <1>3, <3>1, <3>2
  <2>4. CASE Import
    BY <1>3, <2>1, <2>4 DEF Import, SelectOpen, ReplaceOpen
  <2>5. ~AutomaticallyMerge
    BY <1>3 DEF Unhanded, AutomaticallyMerge
  <2>6. CASE UNCHANGED match
    BY <1>3, <2>6
  <2> QED BY <1>3, <2>2, <2>3, <2>4, <2>5, <2>6
          DEF Next, Detect, Review, Correct, Reject, Accept, Merge, Delete
<1>4. Shape /\ Unhanded /\ [Next]_vars
        => [\A m \in Matches : match[m] = "rejected" => match'[m] # "confirmed"]_vars
  BY <1>3
<1> QED BY <1>1, <1>2, <1>4, ShapeInvariant, PTL DEF Spec, DecisionStands

-----------------------------------------------------------------------------
(* The scores of PairScoring, for any two rows: they do not depend on which row
   comes first, they fit the column they are stored in, only an approval code or a
   mapping carries a pair to an automatic merge, and a transfer found by widening
   the search never looks strong. *)

\* The facts a row may have; days, amounts and balances are integers when they are known.
Ordered(f) == f.day \in Int \cup {None} /\ f.amount \in Int \cup {None}

LEMMA WithinBothWays ==
  ASSUME NEW a, NEW b, NEW days \in Nat, a \in Int \cup {None}, b \in Int \cup {None}
  PROVE  Within(a, b, days) <=> Within(b, a, days)
<1>1. CASE a = None \/ b = None
  BY <1>1 DEF Within, Known
<1>2. CASE a # None /\ b # None
  <2>1. a \in Int /\ b \in Int
    BY <1>2
  <2>2. (a - b <= days /\ b - a <= days) <=> (b - a <= days /\ a - b <= days)
    OBVIOUS
  <2> QED BY <1>2, <2>2 DEF Within, Known
<1> QED BY <1>1, <1>2

\* Each feature of the score says the same of a pair and of its mirror image.
LEMMA FeaturesBothWays ==
  ASSUME AlikeBothWays, NEW l, NEW r, Ordered(l), Ordered(r)
  PROVE  /\ SameAmount(l, r) <=> SameAmount(r, l)
         /\ Same(Owner(l), Owner(r)) <=> Same(Owner(r), Owner(l))
         /\ Within(l.day, r.day, Days) <=> Within(r.day, l.day, Days)
         /\ (l.way = r.way /\ l.way # Unknown) <=> (r.way = l.way /\ r.way # Unknown)
         /\ Similar(l, r) <=> Similar(r, l)
         /\ Same(l.code, r.code) <=> Same(r.code, l.code)
         /\ Same(l.balance, r.balance) <=> Same(r.balance, l.balance)
         /\ Same(l.source, r.source) <=> Same(r.source, l.source)
<1>1. \A a, b : Same(a, b) <=> Same(b, a)
  BY DEF Same
<1>2. SameAmount(l, r) <=> SameAmount(r, l)
  BY DEF Same, SameAmount
<1>3. Within(l.day, r.day, Days) <=> Within(r.day, l.day, Days)
  <2>1. l.day \in Int \cup {None} /\ r.day \in Int \cup {None} /\ Days \in Nat
    BY DEF Ordered, Days
  <2> QED BY <2>1, WithinBothWays
<1>4. Similar(l, r) <=> Similar(r, l)
  BY DEF Similar, Known, AlikeBothWays
<1>5. (l.way = r.way /\ l.way # Unknown) <=> (r.way = l.way /\ r.way # Unknown)
  OBVIOUS
<1> QED BY <1>1, <1>2, <1>3, <1>4, <1>5

\* score_pair does not depend on the order of its arguments, so a detection that meets
\* two rows the other way round stores the same score.
THEOREM ScoreSymmetric ==
  ASSUME AlikeBothWays, NEW l, NEW r, Ordered(l), Ordered(r)
  PROVE  ScorePair(l, r) = ScorePair(r, l)
<1>1. RawScore(l, r) = RawScore(r, l)
  <2>1. Points(SameAmount(l, r), 30) = Points(SameAmount(r, l), 30)
    BY FeaturesBothWays DEF Points
  <2>2. Points(Same(Owner(l), Owner(r)), 25) = Points(Same(Owner(r), Owner(l)), 25)
    BY FeaturesBothWays DEF Points
  <2>3. Points(Within(l.day, r.day, Days), 15) = Points(Within(r.day, l.day, Days), 15)
    BY FeaturesBothWays DEF Points
  <2>4. Points(l.way = r.way /\ l.way # Unknown, 10) = Points(r.way = l.way /\ r.way # Unknown, 10)
    BY FeaturesBothWays DEF Points
  <2>5. Points(Similar(l, r), 10) = Points(Similar(r, l), 10)
    BY FeaturesBothWays DEF Points
  <2>6. Points(Same(l.code, r.code), 30) = Points(Same(r.code, l.code), 30)
    BY FeaturesBothWays DEF Points
  <2>7. Points(Same(l.balance, r.balance), 15) = Points(Same(r.balance, l.balance), 15)
    BY FeaturesBothWays DEF Points
  <2>8. Points(Same(l.source, r.source), 5) = Points(Same(r.source, l.source), 5)
    BY FeaturesBothWays DEF Points
  <2> QED BY <2>1, <2>2, <2>3, <2>4, <2>5, <2>6, <2>7, <2>8 DEF RawScore
<1>2. (l.user # r.user \/ l.id = r.id) <=> (r.user # l.user \/ r.id = l.id)
  OBVIOUS
<1> QED BY <1>1, <1>2 DEF ScorePair

\* Every feature at once is worth 140 points, and each of them at least none.
LEMMA RawScoreFacts ==
  ASSUME NEW l, NEW r
  PROVE  /\ RawScore(l, r) \in 0 .. 140
         /\ (~Same(Owner(l), Owner(r)) /\ ~Same(l.code, r.code)) => RawScore(l, r) <= 85
<1> DEFINE amount == Points(SameAmount(l, r), 30)
           owner == Points(Same(Owner(l), Owner(r)), 25)
           day == Points(Within(l.day, r.day, Days), 15)
           way == Points(l.way = r.way /\ l.way # Unknown, 10)
           name == Points(Similar(l, r), 10)
           code == Points(Same(l.code, r.code), 30)
           balance == Points(Same(l.balance, r.balance), 15)
           source == Points(Same(l.source, r.source), 5)
<1>1. amount \in {0, 30} /\ owner \in {0, 25} /\ day \in {0, 15} /\ way \in {0, 10}
  BY DEF Points
<1>2. name \in {0, 10} /\ code \in {0, 30} /\ balance \in {0, 15} /\ source \in {0, 5}
  BY DEF Points
<1>3. RawScore(l, r) = amount + owner + day + way + name + code + balance + source
  BY DEF RawScore
<1>4. (~Same(Owner(l), Owner(r)) /\ ~Same(l.code, r.code)) => owner = 0 /\ code = 0
  BY DEF Points
<1> HIDE DEF amount, owner, day, way, name, code, balance, source
<1> QED BY <1>1, <1>2, <1>3, <1>4

\* A score fits the range that the table of matches allows (reconciliation_score_range).
THEOREM ScoreInRange ==
  ASSUME NEW l, NEW r
  PROVE  ScorePair(l, r) \in 0 .. 100
BY RawScoreFacts DEF ScorePair, AtMost100

\* Two rows that share neither an instrument nor an approval code never reach the score
\* of an automatic merge, whatever else they agree on, their running balance included.
THEOREM AutomaticMergeNeedsIdentity ==
  ASSUME NEW l, NEW r, ~Same(Owner(l), Owner(r)), ~Same(l.code, r.code)
  PROVE  ScorePair(l, r) < LikelyMerge
BY RawScoreFacts DEF ScorePair, AtMost100, LikelyMerge

\* A transfer the strict search would not find never scores as a strong match, however
\* wide the reviewer's tolerance is.
THEOREM ToleranceStaysWeak ==
  ASSUME NEW out, NEW in, NEW tolerance,
         ~(SameAmount(out, in) /\ Within(out.day, in.day, TransferWindow))
  PROVE  MatchInternalTransfer(out, in, tolerance) < StrongMatch
<1>1. Points(SameAmount(out, in), 15) \in {0, 15}
  BY DEF Points
<1>2. Points(Within(out.day, in.day, TransferWindow), 5) \in {0, 5}
  BY DEF Points
<1> QED BY <1>1, <1>2 DEF MatchInternalTransfer, StrongMatch

\* A transfer is only ever proposed between two accounts of one user, one row leaving the
\* one and one arriving in the other.
THEOREM TransferBetweenOwnAccounts ==
  ASSUME NEW out, NEW in, NEW tolerance, MatchInternalTransfer(out, in, tolerance) # 0
  PROVE  Opposite(out, in)
BY DEF MatchInternalTransfer

\* A refund is only proposed for a purchase dated on its own day or at most 120 days
\* before it (match_refund_to_purchase).
THEOREM RefundFollowsPurchase ==
  ASSUME NEW refund, NEW purchase, Ordered(refund), Ordered(purchase),
         MatchRefundToPurchase(refund, purchase) # 0
  PROVE  /\ refund.day \in Int /\ purchase.day \in Int
         /\ purchase.day <= refund.day
         /\ refund.day <= purchase.day + RefundWindow
<1>1. Follows(refund, purchase)
  BY DEF MatchRefundToPurchase
<1>2. refund.day \in Int /\ purchase.day \in Int
  BY <1>1 DEF Follows, Known, Ordered
<1>3. purchase.day <= refund.day /\ refund.day - purchase.day <= RefundWindow
  BY <1>1 DEF Follows
<1> QED BY <1>2, <1>3 DEF RefundWindow
=============================================================================
