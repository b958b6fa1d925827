-------------------------- MODULE Reconciliation --------------------------
(***************************************************************************)
(* Review and reconciliation: apps.observations.review, apps.transactions, *)
(* apps.ledger.posting and apps.reconciliation.  Imported rows are         *)
(* corrected, accepted, rejected and merged; pairs of rows are proposed as *)
(* duplicates, transfers, refunds or settlements, confirmed, rejected,     *)
(* unlinked and linked again; the transactions they become are posted to   *)
(* the ledger and deleted.                                                 *)
(*                                                                         *)
(* A handler holds row locks on everything it decides on until it commits, *)
(* so it is one action.  Two pieces of code decide on what they read       *)
(* before they write, and take two actions each: an import, which selects  *)
(* the open rows of earlier passes before it deletes them, and the         *)
(* automatic merge, which acts on the match object an earlier database     *)
(* transaction returned.                                                   *)
(***************************************************************************)
EXTENDS Naturals, FiniteSets

CONSTANTS
  Rows,          \* ImportedObservation ids
  Docs,          \* SourceDocument ids
  DocOf,         \* source_document of each row
  RunOf,         \* position among its document's passes of the pass that reads it
  ReadAs,        \* the direction the parser reads for each row
  Matches,       \* ReconciliationMatch ids
  Pair,          \* the two observations a match joins
  Kind,          \* its match_type
  NoRow, NoTx, NoMatch,
  AutoMerge,            \* AUTOMATIC_RECONCILIATION_MERGE_ENABLED
  LedgerAccounts,       \* {TRUE, FALSE}: callers may pass ledger accounts or not;
                        \* {FALSE}: only the web views call, and never pass them
  DirectionsCorrected,  \* TRUE: a reviewer may correct the direction of a row
  ReviewDuringImport    \* TRUE: a reviewer may act while a pass is being imported

Directions == {"debit", "credit"}
Kinds == {"duplicate", "transfer", "refund", "settlement"}

\* source_idempotency_key: one per origin.
RowKey(r) == <<"observation", r>>
MatchKey(m) == <<Kind[m], m>>
RowKeys == {RowKey(r) : r \in Rows}
MatchKeys == {MatchKey(m) : m \in {n \in Matches : Kind[n] \in {"transfer", "refund"}}}
Keys == RowKeys \cup MatchKeys

ASSUME ReviewAssumption ==
  /\ DocOf \in [Rows -> Docs]
  /\ RunOf \in [Rows -> Nat]
  /\ ReadAs \in [Rows -> Directions]
  /\ Pair \in [Matches -> SUBSET Rows]
  /\ Kind \in [Matches -> Kinds]
  /\ \A m \in Matches : \E a, b \in Rows : a # b /\ Pair[m] = {a, b}
  /\ NoRow \notin Rows
  /\ NoTx \notin Keys
  /\ NoMatch \notin Matches
  /\ AutoMerge \in BOOLEAN
  /\ LedgerAccounts \subseteq BOOLEAN
  /\ DirectionsCorrected \in BOOLEAN
  /\ ReviewDuringImport \in BOOLEAN

VARIABLES
  status,      \* review_status of each row; "absent": not imported, "gone": deleted
  corrected,   \* whether corrected_fields is non-empty
  direction,   \* direction of each row
  canonical,   \* canonical_transaction
  mergedInto,  \* merged_into
  match,       \* status of each match; "none": no such row
  tx,          \* status of the transaction of each key; "none": no such row
  entries,     \* its ledger entries: as posted, and mirrored by a reversal
  importing,   \* the rows the running import is about to write
  doomed,      \* the open rows it selected for deletion
  merging      \* the match the automatic merge has been handed

rowVars == <<status, corrected, direction, canonical, mergedInto>>
bookVars == <<tx, entries>>
importVars == <<importing, doomed>>
vars == <<rowVars, match, bookVars, importVars, merging>>

Exists(r) == status[r] \notin {"absent", "gone"}
Resolved(r) == status[r] \in {"rejected", "merged"}
Live(k) == tx[k] \in {"draft", "confirmed"}

Init ==
  /\ status = [r \in Rows |-> "absent"]
  /\ corrected = [r \in Rows |-> FALSE]
  /\ direction = ReadAs
  /\ canonical = [r \in Rows |-> NoTx]
  /\ mergedInto = [r \in Rows |-> NoRow]
  /\ match = [m \in Matches |-> "none"]
  /\ tx = [k \in Keys |-> "none"]
  /\ entries = [k \in Keys |-> [posted |-> 0, mirrored |-> 0]]
  /\ importing = {} /\ doomed = {}
  /\ merging = NoMatch

-----------------------------------------------------------------------------
(* Importing a pass: the open rows of earlier passes make way for new ones *)

\* import_parser_selection for pass n of document d, up to the moment
\* queryset.delete() has read what it is going to delete.
SelectOpen(d, n) ==
  /\ importing = {}
  /\ importing' = {r \in Rows : DocOf[r] = d /\ RunOf[r] = n}
  /\ importing' # {}
  /\ \A r \in importing' : status[r] = "absent"
  /\ \A r \in Rows : DocOf[r] = d /\ RunOf[r] < n => status[r] # "absent"
  /\ doomed' = {r \in Rows \ importing' : DocOf[r] = d /\ status[r] = "unreviewed"}
  /\ UNCHANGED <<rowVars, match, bookVars, merging>>

\* The selected rows are deleted by primary key, whatever became of them since;
\* their matches go with them (CASCADE), rows merged into them keep their status
\* (SET_NULL), and the pass's own rows are inserted.
ReplaceOpen ==
  /\ importing # {}
  /\ status' = [r \in Rows |-> IF r \in doomed THEN "gone"
                               ELSE IF r \in importing THEN "unreviewed" ELSE status[r]]
  /\ canonical' = [r \in Rows |-> IF r \in doomed THEN NoTx ELSE canonical[r]]
  /\ mergedInto' = [r \in Rows |->
       IF r \in doomed \/ mergedInto[r] \in doomed THEN NoRow ELSE mergedInto[r]]
  /\ match' = [m \in Matches |-> IF Pair[m] \cap doomed # {} THEN "none" ELSE match[m]]
  /\ importing' = {} /\ doomed' = {}
  /\ UNCHANGED <<corrected, direction, bookVars, merging>>

-----------------------------------------------------------------------------
(* Transactions and the ledger *)

\* Mutant: whoever finds the row confirms it, and posts if nothing is posted.
ConfirmWhoeverMadeIt(k, post) ==
  /\ tx' = [tx EXCEPT ![k] = IF post THEN "confirmed" ELSE IF @ = "none" THEN "draft" ELSE @]
  /\ entries' = [entries EXCEPT ![k].posted = IF post THEN 1 ELSE @]

\* Mutant: a converged attempt posts again.
PostAgain(k, post) ==
  /\ tx' = [tx EXCEPT ![k] = IF @ # "none" THEN @ ELSE IF post THEN "confirmed" ELSE "draft"]
  /\ entries' = [entries EXCEPT ![k].posted = IF post THEN @ + 1 ELSE @]

\* save_once, then the posting only the attempt that created the row may make.
SaveOnce(k, post) ==
  IF tx[k] = "none"
  THEN /\ tx' = [tx EXCEPT ![k] = IF post THEN "confirmed" ELSE "draft"]
       /\ entries' = [entries EXCEPT ![k].posted = IF post THEN 1 ELSE 0]
  ELSE UNCHANGED bookVars

\* reverse_transaction_postings refuses a second reversal.
Reversed(k) == entries[k].posted > 0 /\ entries[k].posted = entries[k].mirrored

\* Every existing entry gets its opposite.
Mirrored(e) == [posted |-> e.posted + e.mirrored, mirrored |-> e.mirrored + e.posted]

\* Mutant: the transaction is voided and its postings left standing.
VoidUnreversed(k) ==
  /\ Live(k)
  /\ tx' = [tx EXCEPT ![k] = "voided"]
  /\ UNCHANGED entries

\* delete_transaction without its release: reverse every entry, then void.
Void(k) ==
  /\ Live(k) /\ ~Reversed(k)
  /\ tx' = [tx EXCEPT ![k] = "voided"]
  /\ entries' = [entries EXCEPT ![k] = Mirrored(entries[k])]

HeldBy(k) == {r \in Rows : canonical[r] = k}

\* Rows go back to the queue; corrected_fields stays.
Reopen(rows) == status' = [r \in Rows |-> IF r \in rows THEN "unreviewed" ELSE status[r]]
Release(rows) == canonical' = [r \in Rows |-> IF r \in rows THEN NoTx ELSE canonical[r]]

Delete(k) ==
  /\ Void(k)
  /\ Reopen(HeldBy(k)) /\ Release(HeldBy(k))
  /\ UNCHANGED <<corrected, direction, mergedInto, match, importVars, merging>>

-----------------------------------------------------------------------------
(* Reviewing a row *)

Correct(r) ==
  /\ Exists(r) /\ ~Resolved(r)
  /\ corrected' = [corrected EXCEPT ![r] = TRUE]
  /\ status' = [status EXCEPT ![r] = "corrected"]
  /\ \E d \in IF DirectionsCorrected THEN Directions ELSE {direction[r]} :
       direction' = [direction EXCEPT ![r] = d]
  /\ UNCHANGED <<canonical, mergedInto, match, bookVars, importVars, merging>>

LinkAccepted(rows, k) ==
  /\ canonical' = [r \in Rows |-> IF r \in rows THEN k ELSE canonical[r]]
  /\ status' = [r \in Rows |-> IF r \notin rows THEN status[r]
                               ELSE IF corrected[r] THEN "corrected" ELSE "accepted"]
  /\ UNCHANGED <<corrected, direction, mergedInto>>

\* Mutant: a merged row may become a transaction of its own.
FreeEvenMerged(r) == Exists(r) /\ status[r] # "rejected" /\ canonical[r] = NoTx

\* May become part of a transaction.
Free(r) == Exists(r) /\ ~Resolved(r) /\ canonical[r] = NoTx

Accept(r, post) ==
  /\ Free(r)
  /\ SaveOnce(RowKey(r), post)
  /\ LinkAccepted({r}, RowKey(r))
  /\ UNCHANGED <<match, importVars, merging>>

\* The check constraint observation_merged_rows_say_so rolls back a rejection
\* of a row that points at a winner.
Reject(r) ==
  /\ Exists(r) /\ canonical[r] = NoTx /\ mergedInto[r] = NoRow
  /\ status[r] # "rejected"
  /\ status' = [status EXCEPT ![r] = "rejected"]
  /\ UNCHANGED <<corrected, direction, canonical, mergedInto, match, bookVars, importVars, merging>>

\* Mutant: any row may win a merge.
AnyoneWins(w) == Exists(w)

MayWin(w) == Exists(w) /\ mergedInto[w] = NoRow

MayBeMerged(r) == Exists(r) /\ canonical[r] = NoTx /\ status[r] # "merged"

\* The winner is never among the duplicates: the ids are compared as the service
\* is given them, both as UUIDs.

MergeRows(w, rows) ==
  /\ MayWin(w)
  /\ \A r \in rows : r # w /\ (MayBeMerged(r) \/ (status[r] = "merged" /\ mergedInto[r] = w))
  /\ mergedInto' = [r \in Rows |-> IF r \in rows THEN w ELSE mergedInto[r]]
  /\ status' = [r \in Rows |-> IF r \in rows THEN "merged" ELSE status[r]]
  /\ UNCHANGED <<corrected, direction, canonical>>

Merge(w, rows) ==
  /\ MergeRows(w, rows)
  /\ UNCHANGED <<match, bookVars, importVars, merging>>

-----------------------------------------------------------------------------
(* Proposing matches *)

\* record_match, from a detection run.  What the run read of the two rows may be
\* out of date by now: it only requires that they are still there.  A stored
\* duplicate that is still proposed goes on to the automatic merge if it scores
\* high enough.
RecordMatch(m) ==
  /\ \A r \in Pair[m] : Exists(r)
  /\ match' = [match EXCEPT ![m] = IF @ = "none" THEN "proposed" ELSE @]
  /\ \/ UNCHANGED merging
     \/ /\ AutoMerge /\ Kind[m] = "duplicate" /\ match'[m] = "proposed"
        /\ merging = NoMatch /\ merging' = m
  /\ UNCHANGED <<rowVars, bookVars, importVars>>

\* _automatically_merge_duplicate tests match.status of the object in memory.
AutomaticallyMerge ==
  /\ merging # NoMatch
  /\ merging' = NoMatch
  /\ \/ /\ \E w \in Pair[merging] : MergeRows(w, Pair[merging] \ {w})
        /\ \A r \in Pair[merging] : MayWin(r)
        /\ match' = [match EXCEPT ![merging] = "confirmed"]
     \/ /\ \E r \in Pair[merging] : ~MayWin(r) \/ ~MayBeMerged(r)
        /\ UNCHANGED <<rowVars, match>>
  /\ UNCHANGED <<bookVars, importVars>>

\* link_observations, whose form offers only rows that are not resolved.
LinkManually(m) ==
  /\ \A r \in Pair[m] : Exists(r) /\ ~Resolved(r)
  /\ match[m] \in {"none", "rejected"}
  /\ match' = [match EXCEPT ![m] = "proposed"]
  /\ UNCHANGED <<rowVars, bookVars, importVars, merging>>

-----------------------------------------------------------------------------
(* Deciding matches *)

\* Mutant: a rejected candidate can still be confirmed.
NotConfirmed(m) == match[m] \in {"proposed", "rejected"}

Undecided(m) == match[m] = "proposed"

ConfirmDuplicate(m, w) ==
  /\ Kind[m] = "duplicate" /\ Undecided(m) /\ w \in Pair[m]
  /\ MergeRows(w, Pair[m] \ {w})
  /\ match' = [match EXCEPT ![m] = "confirmed"]
  /\ UNCHANGED <<bookVars, importVars, merging>>

OneEachWay(m) == {direction[r] : r \in Pair[m]} = Directions
Incoming(m) == {r \in Pair[m] : direction[r] = "credit"}

\* Mutant: only the row leaving an account is linked.
OutgoingOnly(m) == Pair[m] \ Incoming(m)

\* The rows a confirmed transfer points at its one event.
BothSides(m) == Pair[m]

ConfirmTransfer(m, post) ==
  /\ Kind[m] = "transfer" /\ Undecided(m) /\ OneEachWay(m)
  /\ \A r \in Pair[m] : Free(r)
  /\ SaveOnce(MatchKey(m), post)
  /\ LinkAccepted(BothSides(m), MatchKey(m))
  /\ match' = [match EXCEPT ![m] = "confirmed"]
  /\ UNCHANGED <<importVars, merging>>

\* _dismiss_competing_candidates: other open refund candidates of this row.
Competing(m, refund) ==
  {n \in Matches \ {m} : Kind[n] = "refund" /\ match[n] = "proposed" /\ refund \in Pair[n]}

ConfirmRefund(m, post) ==
  /\ Kind[m] = "refund" /\ Undecided(m) /\ OneEachWay(m)
  /\ \E refund \in Incoming(m) :
       /\ Free(refund)
       /\ SaveOnce(MatchKey(m), post)
       /\ LinkAccepted({refund}, MatchKey(m))
       /\ match' = [n \in Matches |-> IF n = m THEN "confirmed"
                                      ELSE IF n \in Competing(m, refund) THEN "rejected"
                                      ELSE match[n]]
  /\ UNCHANGED <<importVars, merging>>

ConfirmSettlement(m) ==
  /\ Kind[m] = "settlement" /\ Undecided(m)
  /\ match' = [match EXCEPT ![m] = "confirmed"]
  /\ UNCHANGED <<rowVars, bookVars, importVars, merging>>

RejectMatch(m) ==
  /\ Undecided(m)
  /\ match' = [match EXCEPT ![m] = "rejected"]
  /\ UNCHANGED <<rowVars, bookVars, importVars, merging>>

\* Mutant: unlinking a refund deletes the purchase's transaction.
UndoneOrPurchase(m, k) ==
  \/ Kind[m] = "transfer" /\ {canonical[r] : r \in Pair[m]} \ {NoTx} = {k}
  \/ Kind[m] = "refund" /\ k # NoTx /\ \E r \in Pair[m] \ Incoming(m) : canonical[r] = k

\* The transaction unlink_match deletes: the one the two rows of a transfer
\* share, the one of the credit row of a refund.
Undone(m, k) ==
  \/ Kind[m] = "transfer" /\ {canonical[r] : r \in Pair[m]} \ {NoTx} = {k}
  \/ Kind[m] = "refund" /\ k # NoTx /\ \E r \in Incoming(m) : canonical[r] = k

\* Rows of the pair merged into the pair come apart, whatever kind of match this is.
Unmerged(m) == {r \in Pair[m] : mergedInto[r] \in Pair[m]}

Unlink(m) ==
  /\ match[m] = "confirmed"
  /\ \/ /\ Kind[m] \in {"transfer", "refund"}
        /\ \E k \in Keys : /\ Undone(m, k) /\ Void(k)
                           /\ Reopen(HeldBy(k) \cup Unmerged(m)) /\ Release(HeldBy(k))
     \/ /\ Kind[m] \in {"duplicate", "settlement"}
        /\ Reopen(Unmerged(m))
        /\ UNCHANGED <<canonical, bookVars>>
  /\ mergedInto' = [r \in Rows |-> IF r \in Unmerged(m) THEN NoRow ELSE mergedInto[r]]
  /\ match' = [match EXCEPT ![m] = "rejected"]
  /\ UNCHANGED <<corrected, direction, importVars, merging>>

-----------------------------------------------------------------------------
Review ==
  /\ ReviewDuringImport \/ importing = {}
  /\ \/ \E r \in Rows : \/ Correct(r) \/ Reject(r)
                        \/ \E post \in LedgerAccounts : Accept(r, post)
                        \/ \E rows \in (SUBSET Rows) \ {{}} : Merge(r, rows)
     \/ \E k \in Keys : Delete(k)
     \/ \E m \in Matches : \/ LinkManually(m) \/ RejectMatch(m) \/ Unlink(m)
                           \/ ConfirmSettlement(m)
                           \/ \E w \in Rows : ConfirmDuplicate(m, w)
                           \/ \E post \in LedgerAccounts : ConfirmTransfer(m, post) \/ ConfirmRefund(m, post)

Detect == AutomaticallyMerge \/ \E m \in Matches : RecordMatch(m)

Import == ReplaceOpen \/ \E d \in Docs, n \in {RunOf[r] : r \in Rows} : SelectOpen(d, n)

Next == Review \/ Detect \/ Import

Spec == Init /\ [][Next]_vars

-----------------------------------------------------------------------------
(* Properties *)

\* Every variable holds a value its column can hold.
TypeOK ==
  /\ status \in [Rows -> {"absent", "unreviewed", "accepted", "corrected", "rejected",
                          "merged", "gone"}]
  /\ corrected \in [Rows -> BOOLEAN]
  /\ direction \in [Rows -> Directions]
  /\ canonical \in [Rows -> Keys \cup {NoTx}]
  /\ mergedInto \in [Rows -> Rows \cup {NoRow}]
  /\ match \in [Matches -> {"none", "proposed", "confirmed", "rejected"}]
  /\ tx \in [Keys -> {"none", "draft", "confirmed", "voided"}]
  /\ entries \in [Keys -> [posted : {0, 1}, mirrored : {0, 1}]]
  /\ importing \in SUBSET Rows
  /\ doomed \in SUBSET Rows
  /\ merging \in Matches \cup {NoMatch}

\* What reports count (a draft or confirmed transaction) is counted once: see
\* CountedEvents.  Two transactions never count the same row, a counted one
\* keeps its rows until it is deleted, and a deleted one never comes back, for
\* every order of accepting, transferring, refunding, unlinking and deleting.
Counting == INSTANCE CountedEvents WITH
  Events <- Keys, NoEvent <- NoTx,
  counted <- {k \in Keys : Live(k)},
  withdrawn <- {k \in Keys : tx[k] = "voided"},
  holder <- [r \in Rows |-> IF canonical[r] \in {k \in Keys : Live(k)}
                            THEN canonical[r] ELSE NoTx]
CountsOnce == Counting!Spec

\* As long as reports count a transfer, both of its rows point at it, so neither
\* side can be accepted as spending or income (confirm_match, services.py:516).
TransferWhole ==
  \A m \in Matches : Kind[m] = "transfer" /\ Live(MatchKey(m)) =>
                       \A r \in Pair[m] : canonical[r] = MatchKey(m)

\* As long as reports count the event of a transfer or a refund, its match is
\* neither back in the queue nor dismissed: it is confirmed, or it went with a
\* row that a later pass replaced (a purchase still open when refunded).
CountedNotReopened ==
  \A m \in Matches : MatchKey(m) \in Keys /\ Live(MatchKey(m)) =>
                       match[m] \notin {"proposed", "rejected"}

\* A row folded into another is not history of its own: it says it is merged and
\* no transaction, live or deleted, was made from it.
MergedNotCounted ==
  \A r \in Rows : mergedInto[r] # NoRow => status[r] = "merged" /\ canonical[r] = NoTx

\* Following merged_into always ends: no set of rows is merged within itself.
NoMergeCycle ==
  \A rows \in (SUBSET Rows) \ {{}} : \E r \in rows : mergedInto[r] \notin rows

\* The ledger agrees with the lifecycle: a draft has no entries, a confirmed
\* transaction is posted once and not reversed, a deleted one nets to zero on
\* every account and was reversed at most once.
BooksSettled ==
  \A k \in Keys :
    /\ tx[k] \in {"none", "draft"} => entries[k] = [posted |-> 0, mirrored |-> 0]
    /\ tx[k] = "confirmed" => entries[k] = [posted |-> 1, mirrored |-> 0]
    /\ tx[k] = "voided" => entries[k].posted = entries[k].mirrored /\ entries[k].posted <= 1

\* A dismissed candidate is never applied: only a manual link reopens it, and
\* confirming is then a step of its own (record_match, services.py:75).
DecisionStands ==
  [][\A m \in Matches : match[m] = "rejected" => match'[m] # "confirmed"]_vars

-----------------------------------------------------------------------------
(* What the documentation says and the code does not keep *)

\* No row is left accepted, out of the queue and pointing at a transaction
\* nobody can see (deletion.py:16-18).
AcceptedIsVisible == \A r \in Rows : canonical[r] # NoTx => Live(canonical[r])

\* Merges never chain: a merged row points at one that is not merged (REVIEW.md:111).
MergesNeverChain ==
  \A r \in Rows : mergedInto[r] # NoRow => mergedInto[mergedInto[r]] = NoRow

\* Every merged row points at a surviving one (REVIEW.md:112).
MergedKeepsSurvivor == \A r \in Rows : status[r] = "merged" => mergedInto[r] # NoRow

\* An import removes only open rows (observations/services.py:266).
OnlyOpenReplaced ==
  [][\A r \in Rows : Exists(r) /\ status'[r] = "gone" => status[r] = "unreviewed"]_vars

\* Both sides of a confirmed transfer point at the transfer they created
\* (transfers.py:149).
TransferStands ==
  \A m \in Matches : Kind[m] = "transfer" /\ match[m] = "confirmed" =>
                       \A r \in Pair[m] : canonical[r] = MatchKey(m)

\* Unlinking reverses the relationship it is asked to reverse: the transaction
\* it deletes is the one that match made (unlink_match, services.py:575).
UnlinkUndoesOwn ==
  [][\A m \in Matches, k \in Keys :
       match[m] = "confirmed" /\ match'[m] = "rejected" /\ Live(k) /\ tx'[k] = "voided" =>
         k = MatchKey(m)]_vars
=============================================================================
