# A verification project for Finance OCR

TLA+ specifications of the parts of the application whose correctness is hard to
test: who works on a document and when, what is made of a screenshot that two
engines read differently, which row becomes which transaction, what the ledger,
the reports and the categories say after any sequence of edits, and what survives
crashes, retries and repeated clicks. Small instances are model-checked with TLC; the most important facts are proved for
every instance with TLAPS. Paths below are relative to the repository's root;
`apps/...` stands for `src/apps/...` in `PROJECT.json`.

## 1. The system

A user uploads screenshots of bank and card apps. Workers read them with two OCR
engines, a parser turns the text into *observations* (rows), the user reviews
rows into *canonical transactions*, double-entry postings go to a ledger, and
pairs of rows that describe one event are reconciled. Everything is a Django
application over PostgreSQL; concurrency comes from several web requests, several
worker processes and cron jobs, all meeting in database transactions and in one
directory of private files.

| Component | State | Operations | Meets |
|---|---|---|---|
| Job queue (`apps/processing/models.py`, `services.py`) | `ProcessingJob` rows: status, attempts, claim time | claim, refuse, succeed, retry, fail, recover | workers, recovery timer, reprocessing |
| Document lifecycle (`state.py`, `pipeline.py`) | `SourceDocument.processing_status` | ten statuses, transitions checked under a row lock | the worker that holds a job, deletion, retention |
| Uploads, retention, cleanup (`upload_services.py`, `retention.py`, `cleanup.py`) | one directory per document | store, commit, expire, delete, collect and remove | everything that reads the file |
| Reprocessing (`apps/observations/reprocessing.py`) | none of its own | request another pass | queue, import |
| Import (`apps/observations/services.py`) | `ImportedObservation` rows | replace the open rows of earlier passes, insert new ones | review, matches (cascade) |
| Review (`apps/observations/review.py`) | status, corrections, links of a row | correct, accept, reject, merge | transactions, reconciliation |
| Reconciliation (`apps/reconciliation`) | `ReconciliationMatch` rows | propose, merge automatically, confirm, reject, unlink, link by hand | review, transactions |
| Transactions (`apps/transactions`) | `CanonicalTransaction` rows, one per idempotency key | create once, delete (reverse, void, release), edit | ledger, observations |
| Ledger (`apps/ledger`) | `LedgerEntry` rows | post balanced, reverse once | transactions |
| Keys (`apps/core/key_*.py`, `rotation.py`) | versions of data and search keys per user, checkpoints | provision, activate, rotate, retire, re-index | every encrypted column |
| OCR engines (`apps/ocr/execution.py`, `pipeline.py`) | `OcrRun` rows, a child process per engine, cached models | fork, wait, reap, record, hand off | the worker, its signals |
| OCR agreement and parsing (`apps/ocr/matching.py`, `apps/parsing`) | none | settle two engines' tokens, read rows, amounts, dates and directions, choose a parser | import |
| Matching (`apps/reconciliation/duplicates.py`, `transfers.py`, `matching.py`) | stored candidates | score pairs, propose | review, reconciliation |
| Review queue (`apps/observations/risk.py`, `queue.py`, `apps/reports/workload.py`) | risk of a row | order, filter, count, ask for confirmation | review |
| Categorization (`apps/categorization`) | rules, aliases, a transaction's category and its source | classify, answer, make rules, preview, apply backwards | review, transactions |
| Books (`apps/transactions`, `apps/ledger`, `apps/financial_accounts`, `apps/payment_instruments`) | chart, entries, opening balances, card mappings | type, edit, confirm, post, correct, reverse | reports |
| Reports (`apps/reports`) | none | overview, activity, breakdown, export rows | transactions, balances |
| Exports (`apps/reports/services.py`, `deploy/maintenance/cleanup_temp_files.py`) | `TransactionExport` rows and files | write, download, delete, purge | cron, requests |
| Users | TOTP step, recovery codes, failed logins, sessions | log in, recover, revoke | all views |

The behaviours that are hard to test, each with its line, are the `hazards` of
`PROJECT.json`; the properties below are written against them.

What would make each part correct:

* **Queue**: one document is with one worker; a queued or in-flight document has
  a job; every job ends; attempts are limited; recovery undoes a crash.
* **Documents and files**: a status only says what happened (rows exist when a
  document is ready for review); a file is there for as long as somebody will
  read it and is erased in the end; a deleted document stays deleted.
* **Import, review, reconciliation**: a row's money is counted at most once; what
  reports count keeps its rows; a deleted event never returns; merged rows are
  not counted and can be followed to a survivor; a reviewer's decision stands.
* **Ledger**: posted once, reversed once, and in agreement with the transaction's
  status.
* **Keys**: no row becomes unreadable, whatever crashes between two batches.
* **OCR and parsing**: an engine ends with its turn, a failed model is not used
  again, every engine leaves a run; a row nobody is asked to look at says what the
  screen showed, and no event of a screen is dropped.
* **Matching and the queue**: what is one event is proposed as one, only rows of one
  event are merged unasked; the riskiest rows come first and the counts are right.
* **Books and reports**: entries describe their transaction, confirmed history is
  not rewritten, an opening balance stands as recorded, all pages add up alike.
* **Categorization**: a person's answer is changed by that person only, a rule
  reaches what its preview said, and the order of classification does not matter.
* **Exports**: nothing half-written is downloaded, nothing is marked deleted while
  its file is there, and what expired is erased in the end.
* **Users**: a code, a step or a session is used at most once.

## 2. The modules

| Module | What it is |
|---|---|
| `DocumentLifecycle` | abstract: what the owner of a screenshot is promised |
| `DocumentQueue` | queue, workers, stages, files, retention, cleaner, reprocessing |
| `DocumentQueueProofs` | its theorems, with and without workers that outlive their claim |
| `OcrExecution`, `OcrExecutionProofs` | engines in child processes, their models and runs |
| `ScreenReading` | operators: tokens to rows (normalisation, amounts, dates, directions, balances, parser choice) |
| `PairScoring` | operators: duplicate, transfer and refund scores, candidates |
| `Evidence` | screens, two engines, import, mapping and detection; uses both of the above |
| `ReviewQueue` | extends `Evidence`: risk, order, filters, counts, confirmation |
| `CountedEvents` | abstract: which events count, and from which rows |
| `Reconciliation` | import, review, matches, transactions, ledger entries |
| `ReconciliationProofs` | theorems of `Reconciliation` and of the scores of `PairScoring` |
| `ReviewQueueProofs` | theorems of `Evidence` and `ReviewQueue` |
| `Books` | transactions, postings, corrections, opening balances, card mappings |
| `Reports` | extends `Books`: overview, activity, breakdown, export rows |
| `BooksProofs` | theorems of `Books` and `Reports` |
| `Categorization`, `CategorizationProofs` | rules, aliases, answers, backward application |
| `KeyRotation`, `KeyRotationProofs` | envelopes, tokens, key scopes and the four key commands |
| `Exports`, `ExportsProofs` | export files, their rows, downloads, the purge and the script |
| `MC...` | the small instances of each |

### DocumentQueue

One action per database transaction, and one per step a worker takes between two
of them. `status`, `jobStatus` and `attempts` are the columns of the two tables;
`file` says whether the document's directory holds its screenshot; `pc`, `claim`,
`tries` and `outcome` are a worker's place in `process_one_job` and
`_process_document`, the job object it holds in memory and what it read of it;
`candidates` are the directories `stale_document_candidates` decided on and
`_remove_candidates` has not reached. A worker may die at any step (`Die`).
`Recover` takes any set of running jobs: with `SlowWorkers` FALSE only those whose
worker is gone (a claim that is old enough and whose worker is alive does not
occur), with TRUE any of them, because `recover_stale` judges by the age of the
claim alone. `mark_failed`'s collision with the unique index of active jobs, the
refusals of `claim_next`, the `finally` clause that removes the file, and the
rollback of a deletion that already removed it are all there. The job that is
claimed is any queued one that is due, which includes the oldest.

Left out: the back-off delay (a retried job is due at any time), the parser
choice, the contents of files. Never reached by this code, and so by the model:
the statuses `pending` and `confirmed`, and `retry_failed_document`, which only
tests call.

### Reconciliation

One action per handler, since handlers lock every row they decide on until they
commit. Two pieces of code decide before they write and take two actions:
`SelectOpen`/`ReplaceOpen`, because `queryset.delete()` collects the open rows
and then deletes by primary key without having locked them, and
`RecordMatch`/`AutomaticallyMerge`, because the automatic merge acts on the match
object that an earlier database transaction returned.

A transaction is named by its idempotency key: `RowKey(r)` for an accepted row,
`MatchKey(m)` for a transfer or refund, so that `tx` maps each key to the status
of the one row that may hold it. `entries` counts the ledger entries of a key, as
posted and mirrored; amounts are the same in a pair and are left out. A row is
`absent` until its pass is imported and `gone` after a later pass replaced it.
`Import` writes passes of a document in order; documents differ in nothing else.

Abstracted: which fields a correction touches (only whether there was one, and
the direction), the required confirmation of risky rows, dates, amounts,
accounts, the unknown direction, the score of a match. `Merge` is the service called
with ids of one type; the view's mixture of types is a finding. A merge of several
duplicates is one action, as it is one database transaction. What detection reads
is stale by the time it writes, so `RecordMatch` requires only what
`record_match` itself checks.

### KeyRotation

One user's encrypted values, `row`: the plaintext, the version the envelope
states (`label`), the key that really sealed it (`sealed`) and the token in the
index column beside it. The two versions differ because every write of the
application is labelled with `User.encryption_key_version`, which stays 1, and
sealed with the active key of the scope; `Opens` is `read_field` with its retry
under the stated version. `wanted` is a history variable: what was last
committed by a user or a parser.

`phase`, `plan`, `cursor` and `batch` are the running command: `rotate` and
`verify` are the two halves of `rotate_encryption_keys`, `reindex` is
`rotate_search_key`, `seal` is `encrypt_plaintext_fields`, `backfill` is
`backfill_blind_indexes`. Each reads a batch of any size (`ReadBatch`), writes it
with its checkpoint in one database transaction (`SaveBatch`), and may be killed
between any two steps (`Kill`). The four rewritings (`Rotated`, `Reindexed`,
`Sealed`, `Backfilled`) are operators on the object that was read and the row as
it is, since each saves only some columns. With `AppRunning` FALSE the
application is stopped while a command runs, which is what the runbook asks for.

Left out: several encrypted fields of one record (each value is a row of its
own), columns without a token, approval codes and account identifiers (two more
domains treated like the counterparty's), values that normalise to nothing and
have no token, deletions of rows, a change of `encryption_key_version` in the
admin form, and a rotation of several users in one run.

### OcrExecution

One worker, one child at a time. `parent` is the worker's place in
`orchestrate_document_ocr` and `run_engine_bounded`, `child` the forked process,
`channel` the queue between them (an answer may arrive after `TimesOut`), `model`
the model an engine keeps in the worker, `runs` the `OcrRun` of each plan and
`told` what the job is told. `Reap` is terminate, join, kill and the reset of the
model; `Escape` is an exception no handler classifies. With `Inherited` the child
has the worker's SIGTERM handler, as `fork` gives it. Which failures may happen is
the constant `Faults`; `"linger"`, a child that answered and never exits, is left
out of the passing run and is a finding. One document at a time: the queue's
`RunEngines` step is one run through this module.

### ScreenReading, PairScoring, Evidence, ReviewQueue

`Evidence` starts from what is true. `shows` says which events a screenshot lists
and in which layout; `Printed` puts them on the screen as tokens; two engines read
them, one token of a screenshot may be misread by one or both, missed, misplaced,
swapped or seen by one engine alone (`fault`, of `Kinds`). `Read` is the whole way
of a page: the engines' tokens settled by `apps/ocr/matching.py`, the parser chosen
and applied (`ScreenReading`), the rows imported with their flags. `MapRow` is a
reviewer's mapping, `Accept` an acceptance and `Reopen` the deletion of the transaction
a row led to, which puts the row back into the queue with its mapping and its stored
risk; `decided` are the rows whose status is not UNREVIEWED, `mapped` those with an
account or a card, and neither includes the other. `Reopen` takes a corrected row too, its
acceptance in between left implicit. Rejections and merges are in `Reconciliation`, and so
is the reopening by `unlink_match`, which leaves the same rows as a deletion does. `Detect`
is the nightly `generate_reconciliation_candidates` with the scores of `PairScoring`;
`seen` is what was mapped and decided when it last ran over all screenshots.
`OverlapFound` and `RefundFound` are about the rows of the thirty days that command looks
at. The properties compare rows with events, so the code's
decision to ask nobody is judged by the truth and not by its own flags.

A token is a record (a word of the tables, a date in one of its printed forms, an
amount with its digit groups and separators), never text; a year has ten days so
that the numbers stay small, with one leap day. Both engines are taken to be sure
of what they print. Scores are sums of three hundredths, so that the parser's
thirds are whole numbers.

`ReviewQueue` adds operators on the same state: flags, risk, the database's order,
what the page shows, the filters, the workload page, and which rows an acceptance
takes only when it is confirmed. The workload page lists twenty-five screenshots
(`BacklogLimit`): those with most open rows, so its figures per screenshot need not add up
to the open rows when more than that wait. Rows of a degraded document are exempt from
`UnaskedTrue`: they carry a flag to which the code gives no risk (a finding).

### Books and Reports

`tx`, `pair` and `reversed` are the transactions, their two ledger entries and the
mirrored ones; `book` is the chart; `account` and `card` hold what the
administrator and the mapping form edit; `call` is an opening-balance service
between what it read and what it writes, since it takes no lock of the account.
Every other service is one action, being one database transaction under the row's
lock. Amounts are integer minor units with each currency's exponent. `Reports` is
operators on that state; a report's period is an arbitrary set of transactions, so
a property that holds for all of them holds for all dates. `AdminEdit` is
`FinancialAccountAdmin`. The admin pages of transactions, ledger accounts and entries
(`apps/transactions/admin.py`, `apps/ledger/admin.py`) leave status, type, currency,
accounts and dates editable in place; they are not modelled, so what is said of
confirmed history and of balances is said of the services and forms (a finding). Left
out too: notes, names in reports, sorting, the refusal of a transaction with
contradictory currencies.

### Categorization

`tx[t]` has the facts a rule looks at, the category and its source; `rules` and
`alias` are in order of creation. `Decide` is the engine, `Asked` the sources it
asks in their order: rule, card, alias, counterparty, earlier answer of the merchant,
parser's guess. Names are sequences of words and
`Token` is `normalize_merchant` on them. A rule made from a correction is one
action with the backward application inside it.

### Exports

`writer` is the place of `create_export` (row first, file next, path last),
`session` a download or a deletion, which holds the row's lock, `sweep` the hourly
purge or the cleanup script, which read all their rows at once and take no lock
until they save. `named` says whether the row has the file's path yet. Every step
between two system calls is an action. `Hasty` FALSE says that no export expires
while it is still being written: it lives for an hour
(`DEFAULT_EXPORT_LIFETIME`), counted from when its row is made.

## 3. What TLC checks

Passing runs:

| Run | Instance | Properties |
|---|---|---|
| `queue_read` | 1 document, 2 jobs (upload and another pass), 2 workers, 2 deaths, fairness | `ExclusiveWork`, `NeverStranded`, `ScreenshotKept`, `KeepsPromise` (implements `DocumentLifecycle`), `DocumentSettles`, `ScreenshotErased` |
| `queue_slow` | claims expire under live workers, keys fail, deletions tear | `OneActiveJob` |
| `queue_ends` | the same with one job and fairness | `EveryJobEnds` |
| `ocr` | 2 engines, one of which keeps a model; 3 documents; every failure but a lingering child; a signal; fairness | `ModelRebuilt`, `EveryRunTold`, `WorkerStops` |
| `evidence` | 18 pairs of screens, one token wrong anywhere, up to 2 rows mapped, accepted and reopened, `Cap` 2, 1 screenshot listed | `SilentRowsTrue`, `EveryRowKept`, `OverlapFound`, `AutoMergeSafe`, `RefundFound`, `UnaskedTrue`, `QueueTells` |
| `recon_pair` | 2 rows, a duplicate, a transfer and a refund match on them, automatic merge on, with and without postings | `CountsOnce` (implements `CountedEvents`), `TransferWhole`, `BooksSettled` |
| `recon_three` | 3 rows in 2 documents, one replaced by a later pass that reviewers do not wait for; two purchases claim one credit row, a settlement, merges by hand | `CountedNotReopened`, `NoMergeCycle`, `DecisionStands` |
| `books` | 2 transactions, 2 accounts, a card, an opening balance posted and corrected, an administrator's edit | `EntriesDescribe`, `BalancesAgree`, `OpeningStands`, `HistoryKept`, `ReportsAgree`, `ReportsMatchLedger` |
| `categories` | 2 transactions of one merchant, 2 categories, old, card, counterparty and new rules, learned names | `AnswersKept`, `PreviewHolds`, `OrderFree` |
| `keys_rotate` | 3 values (an observation, the transaction made from it, a counterparty), 2 texts, 3 data keys, 2 search keys, commands killed anywhere | `NothingLost`, `ReadableAtRest`, `TokensUnderLiveKeys`, `TokensCurrent` |
| `exports` | 2 exports, a download or deletion beside the purge and the script, 2 faults, fairness | `DownloadsWhole`, `MarkedWhenGone`, `ExpiredErased` |

`PromiseKept` proves the queue's refinement for any number of documents: the run
with one is enough to see that the statement means something. No run lists a type
invariant: they are proved; that of `Evidence` is the first part of `EvidenceInv`.

*Bounds.* The queue: two jobs let a document fail, be requeued and be
reprocessed; `MaxAttempts` 2 makes both "will retry" and "exhausted"
happen; a mishap is a worker's death or a recovery from under a live worker, and
two of them let a recovery meet a recovered job. Every cross-worker property is
about two workers. OCR: three documents are the fewest in which a model fails,
is rebuilt and fails again. Evidence: an overlap needs two screens and a chain of
balances two rows of one screen; one wrong token at a time (`MaxFaults` 1), of
every kind and at every place; `Slip` 5 keeps a misread amount positive and among
the others, which is the hard case; two rows that a reviewer touches (`MaxTouched`,
which counts a screenshot gone wrong too, so that damage meets one such row) are the two
sides of a transfer or of a merge, or a row that comes back and its look-alike. With one
screenshot listed, the page has to choose as soon as two wait. Review: two rows are what a match relates, and three are
the fewest that make a chain, a cycle or a competing claim. There is no bound on
how often a row is accepted, released, matched or unlinked. Books: a correction of
an opening balance posts a second transaction, and a third party's posting between
two steps needs one more, so two; the two are symmetric. Categories: one
transaction a rule is made from and one it reaches; two rules compete. Keys: three
data-key versions are the fewest with which a rotation is interrupted and another
one runs after it; two search keys let tokens lie under two keys. Exports: the
sweeper that meets another's erased file needs one row, the one that goes on to
the next needs two.

*Exemptions.* `SilentRowsTrue` and `UnaskedTrue` name the errors the code has
nothing to tell by (`DateLost`, `AmountLost`, `WayLost`). Each of them was taken
out once and TLC then showed the row, so none is there for nothing; the ones that
contradict a doc are findings. `OpeningStands` is about one caller at a time; two
at once are `MCBooksTwice.cfg`. `AutoMergeSafe` speaks of every pair and names the two
kinds of distinct events that reach an automatic merge all the same: a purchase and the
cancellation that repeats its approval code (`OneAuthorisation`), and look-alikes a
reviewer mapped to one account or card (`OnOneAccount`). Both occur in the run; the first
is a finding. `QueueTells` lets one kind of high-risk row stand behind routine ones: a row
that came back to the queue with a mapping, whose duplicate the page shows at 88 while the
order goes by its stored risk. `HighRiskFirst` is the sentence of `queue.py` without that
exception, and is refuted (a finding).
`ReportsMatchLedger` speaks of accounts whose every counted
transaction is posted, which the views alone never make true (a finding).

*Fairness.* `FairSpec` of `DocumentQueue`: workers poll forever, so their steps
are weakly fair. The queue is ordered by age, so a queued job is served when
workers keep polling (strong fairness on `Serve`). The recovery and cleanup
timers fire again and again (RUNBOOK.md, cron table), so each abandoned claim is
recovered and each removable directory is reached. Nobody is obliged to upload,
delete or reprocess. `OcrExecution`: the worker's code waits for nothing but its
child, and for that no longer than its limit; a child that answered exits unless
something holds it there. `Exports`: requests and sweeps that have begun go on,
exports expire, the purge fires every hour; strong fairness where a save waits for
a row's lock, which PostgreSQL grants in the order it was asked for. The script is
run by hand and is not obliged to start.
*Deadlock* checking is off in every run: with nothing to upload, claim or review
the system may rest, and job and row identifiers run out.

## 4. Where the code and its documentation disagree

`findings` in `PROJECT.json` quotes both sides of each. `queue_retry` is a run of
the project; the other configurations end in a violation too, are kept beside it
and are run by hand: `tlc -config MCReconAuto.cfg MCReconciliation.tla`.

| Configuration | What happens |
|---|---|
| `queue_retry` (`MCQueueRetry.cfg`) | the file is removed before a retry that needs it |
| `MCQueueUpload.cfg` | the cleaner removes an upload whose row is not committed yet |
| `MCQueueAttempts.cfg` | a job is claimed more than `max_attempts` times after crashes |
| `MCQueueReprocess.cfg` | another pass is accepted although the file is gone |
| `MCQueueKeys.cfg` | a missing key leaves a document in flight without a job |
| `MCOcrLingers.cfg` | a child that answered and does not exit holds the worker for ever |
| `MCEvidenceTransfer.cfg` | a mapped transfer is not proposed until its rows come back to the queue |
| `MCReconDelete.cfg` | accept, delete, accept again: the row is linked to the voided transaction |
| `MCReconTransfer.cfg` | deleting a transfer leaves its match confirmed and hollow |
| `MCReconAuto.cfg` | a candidate just rejected is merged automatically |
| `MCReconRace.cfg` | a row accepted while a pass selects open rows is deleted |
| `MCBooksForm.cfg` | an edit form saved as it was opened multiplies the amount by one hundred |
| `MCBooksTwice.cfg` | two calls at once post an opening balance twice |
| `MCKeysRerun.cfg` | an interrupted rotation, run again, never gets clean |
| `MCKeysAccept.cfg` | a transaction is indexed under the merchant before its correction |
| `MCKeysLive.cfg` | a rotation overwrites an edit made while it runs |
| `MCExportsLeak.cfg` | a failed export leaves its file behind, past every purge |

The other findings name a property of a module that no configuration lists
(`HighRiskFirst`, `MergesNeverChain`, `MergedKeepsSurvivor`, `UnlinkUndoesOwn`, `CardOnItsAccount`,
`Deletable`, `NarrowestWins`, `NewRuleDecides`, `HandFiledKept`,
`RuleMatchesOrigin`, `WrittenUnderActive`, `NothingIndexedUnderRetired`,
`RulesInDomain`): give it as an INVARIANT or a PROPERTY of the module's
configuration with the constants its comment asks for. Findings without a property
were met while translating: readings of amounts and dates in `apps/parsing`,
matchers no program calls, the form that merges a row into itself.

Seen while modelling, without a line of documentation against it: with slow
workers a finished document can be overturned by its second worker; correcting
the direction of a row that is part of a confirmed refund makes unlink delete the
purchase's transaction instead (so every run keeps `DirectionsCorrected` FALSE);
replacing a purchase row that was still open when its refund was confirmed takes
the confirmed match with it (`CountedNotReopened` allows for that); two merges in
opposite directions wait for each other's locks and the database aborts one; the
web views never pass ledger accounts, so what they create stays a draft.

## 5. What is proved

All proofs are about the specifications themselves, for any number of documents,
jobs, workers, rows, matches, transactions, accounts, key versions, engines,
exports and requests, under the named assumptions of each module
(`QueueAssumption`, `ReviewAssumption`, `BooksAssumption`, `NoneIsNothing`,
`KeyAssumption`, `OcrAssumption`, `ExportsAssumption`, `CategorizationAssumption`,
`RulesAssumption`, `EvidenceAssumption`, `BacklogAssumption`: the constants have their types, there are
finitely many transactions and screenshots, a match joins two different rows, the
accounts of a user have different names, "none" is no amount; the three further ones
of `Evidence` are named below). Every other hypothesis of a theorem is in
its statement and named below with its reason.

*The queue.* `DocumentQueueProofs` proves `TypeCorrect`, `AtMostOneActiveJob` and
`ReviewHasRowsHolds` with every failure switched on. At most one active job needs
nothing but the guards of the four places that make a job active.
Its last section strengthens them for the case that recovery takes only
abandoned jobs (`~SlowWorkers`): the inductive invariant ties a worker's stage to
the status of its document and to the running state of its job. `ExclusiveWork`
says nothing about job statuses and is not inductive alone: a worker whose job
had been requeued behind its back would be joined by the next one to claim it.
From the invariant follow `ExclusiveWorkHolds`, `NobodyStranded` (also
`~KeysFail`), `ScreenshotStays` and the refinement `PromiseKept` (also
`~DeletesFail`).

*Review.* `ReconciliationProofs` proves `TypeCorrect` and `BooksAlwaysSettled`
together, since a posting count stays 0 or 1 only because a draft has none.
`MergesEnd` and `MergedNeverCounted` rest on `Shape`: a row with a transaction is
accepted or corrected, a row that points at a winner is merged, and the rows a
pass is about to write have none of it. A merge closes no cycle because its
winner points nowhere at that moment, which is stated for sets of rows
(`NoMergeCycle`: no set of rows is merged within itself) so that no recursion is
needed.

`TransfersAlwaysWhole` says that a counted transfer has both of its rows, as long as
nobody reviews during an import (`~ReviewDuringImport`): otherwise the pass that
selected open rows deletes one that was linked in the meantime, which is a finding
(`MCReconRace.cfg`). `CountedStaysDecided` says that the match of a counted event is
neither open again nor dismissed, as long as reviewers leave directions alone
(`~DirectionsCorrected`): a corrected direction lets `unlink_match` void another
event than the match's own, whose match is then dismissed while its event counts.
Both rest on which transaction a row's link names, given the row's status and the
status of every match on it. Under both hypotheses `EventsCountOnce` proves the
refinement of `CountedEvents`, step by step: an action of a reviewer counts one
event, withdraws one or stutters. `DismissedStays` needs automatic merging off
(`~AutoMerge`), since the automatic merge may confirm a candidate that was rejected a
moment before (`MCReconAuto.cfg`).

*Books.* `BooksProofs` proves `HistoryAlwaysKept` and `DeletionReverses` from `Inv`:
only a confirmed or voided transaction has entries, and they are mirrored exactly
when it is voided, so that no service that may still write a transaction meets one
that has entries. `EntriesAlwaysDescribe` adds that the ledger account of the
right side still stands for the transaction's account. It follows when no account
is renamed (`NoRenames`): then an account's ledger account bears its name, and none
of those that stand for an account is taken from it (`Chart`, `Grows`).
`FinancialAccountAdmin` leaves the name's blind index editable, and
`ensure_ledger_account_for`, which falls back on the name, may then hand a renamed
account the ledger account of another, which is why the hypothesis is there. It is
the only one: an administrator may change types and currencies, and services may
be between their read and their write.

`BalancesAlwaysAgree` has no hypothesis. A balance is a sum over a finite set of
transactions, and what the provers are told of sums is proved first: `SumFunction` is
a recursive function over subsets, so each fact about it (that it has a value, that
any element may be taken out first, that zeros may be left out, that sums add up) is
an induction over subsets, done as the search for a minimal counterexample under the
strict subset order, which the library proves well founded; the induction theorems
with an operator parameter cannot be used. `BooksTyped` supplies that amounts are
integers.

`OpeningAlwaysStands` is proved for one caller of the opening-balance services
(`OneCaller`; two at once post it twice, `MCBooksTwice.cfg`) and without renames
(`NoRenames`). `OpeningStands` only speaks of moments between calls and is
not inductive: `OpeningInv` adds what a call has read, that it is still what the ledger
holds and, for a first posting, what the account records. It is kept because nothing
but an opening-balance service posts to the equity account, and because an account
whose opening transaction was deleted by hand (`Withdrawn`) is out of the property's
reach from then on.

*Reports.* The last section of `BooksProofs` proves `ReportsAlwaysAgree` for every set of rows and every
currency, without hypotheses: the overview, the activity of accounts and of cards,
the breakdowns and the export of one period are sums of the same rows cut in different
ways (`SumByKey`: the sums over the classes of any key add up to the whole).
`ReportsAlwaysMatchLedger`, without renames, says that where all of an account's
history is posted its balance is what its activity line says and its opening
postings: `EntryOn` computes the entry of each transaction from `EntriesDescribe`.

*Categorization.* `CategorizationProofs` proves `TypeCorrect` together with the
uniqueness of learned names, which makes each query of the engine have one first row:
`BeforeOrders` shows that priority, scope and age leave no two rules open and
`FirstExists` that a finite set so ordered has a first. From it follow, without
hypotheses, `AnswersAlwaysKept`, `PreviewAlwaysHolds` and `OrderNeverMatters`. The
last one rests on `DecisionStays`: classification writes only the category and its
source, the engine reads of other transactions only what was answered by hand, and it
never calls its own decision an answer.

*Keys.* `KeyRotationProofs` proves `TypeCorrect` with `Driven` (a command walks
for the version that is active while it runs: without it retirement could take
the active key), `WalksAlwaysStartOver` from `Behind` (no checkpoint exists for a
version that does not exist yet), and, with the application stopped for commands
(`~AppRunning`), `NothingIsLost` and `TokensStayUnderLiveKeys`. `NothingLost` is
not inductive: it needs that a batch in memory equals its rows (`HeldIsStored`),
that open scopes hold the active keys (`Quiet`), and that every row a clean
verification has passed is sealed by the new key (`VerifiedSoFar`), which is what
makes retirement safe although labels are wrong. `RowsReadableAtRest` and
`TokensStayCurrent` say what finished commands leave behind, under the same
hypothesis and as long as no command was killed, from `InOrder`: every row is sealed by
the active key or, if a rotation has still to come to it, by the key that rotation
holds (`SealedSoFar`); a token is under the active search key unless a reindexing has
still to come to it (`IndexedSoFar`); a batch is an unbroken stretch of rows
(`Windowed`); and no label is ahead of the active version (`Labels`), so that no row
is skipped as already done.

*OCR.* `OcrExecutionProofs` proves `TypeCorrect`, `ChildAlwaysAttended`,
`ModelAlwaysRebuilt` and `EveryRunAlwaysTold` for any number of engines. The
invariant ties the worker's place to the child's, says that a model with which a
child failed is kept only when the pinned models are gone, and that the plans
already passed are exactly those with a run.

*Reading and the queue.* `ReviewQueueProofs` is about any number of screenshots, rows,
mappings, acceptances and deletions, any cap and any order of reading, reviewing and
detecting. It takes three things from outside. `WorldAssumption` is what is true of
events: events with one code are one event or a purchase and what cancels it, an event is
the same wherever it shows, a refund returns an earlier purchase.
`ReadingAssumption` is what the parsers make of one screen: rows are well typed, a code
they carry is printed beside one of their events, and a row of an undamaged screen that
is not flagged says what its event was. `NameAssumption`: rows so read give one event, or
a refund and its purchase, names that count as equal. The last two are about given screens
and given parsers, `apps/parsing` computes them with folds, and TLC evaluates them for
every screen of `MCEvidence`; nothing is assumed of a damaged screen except types and
codes. What is proved is what the program then makes of the rows, in steps that nothing
bounds.

`EvidenceInvariant` proves the inductive invariant `EvidenceInv` (which TLC checked on
`MCEvidence` first): every row comes from a reading of its screen; a stored candidate that
scores 90 joins rows of one code or two mapped rows that agree (`MergesExplained`);
and when the last detection saw every screen, what it has to find is stored (`AllFound`).
`AutoMergeSafe` is not inductive because it speaks of events: `MergesExplained` speaks of
what the rows say. It survives later mappings because they only add to the pairs that are
mapped, a reopening because that takes no mapping away, and later detections because a new
score is explained again (`MergeExplained`: 90 points need a code in common, or an owner in
common and, with it, the amount and a day or a balance). What follows is not in the
weights alone: that equal codes come from one authorisation needs that a row's code was
printed beside its event, by every parser and on a damaged screen too (`CodePrinted`).
From the invariant follow `MergesAreSafe`, and from `AllFound` `OverlapAlwaysFound` and
`RefundAlwaysFound`. The heart of the second is `CandidatesKept`: the greedy choice drops
a pair only when one of its rows already takes part in `Cap` chosen ones, and later
choices take nothing back. `AllFound` is kept by a review because a pair is looked at by
what it says and by what was mapped and decided when the command ran (`seen`), not by what
is so now.

`QueueAlwaysTells` needs no more than the types: `OrderIsKey` and `QueueSorted` show that
the database's order, made of seven columns, is a strict total order whose first two
columns decide between a high-risk and a routine row, unless a mapping lowered the stored
risk of the first (`RiskOfRow`: an open row without one has at least 75, and nothing
between 75 and the threshold of 80 exists); `RiskierFirst` that a doubted amount outranks
everything else, a reopened row's included; `BandsAddUp` and `BacklogsAddUp` that the
workload page's bands and the screenshots partition the open rows; `LeftOutHasLess` that a
screenshot the page leaves out has no more open rows than any it lists, and
`WaitingListed` that none with open rows is left out while no more wait than it lists. An
ordered list is written by ranks (`Ranked`: the member that k - 1 others precede stands at
k), and `EveryRankTaken` and `PlacedByRank` show that it holds every member once and in
order.

*Scores.* The last section of `ReconciliationProofs` proves facts about the operators for any rows: the
duplicate score is symmetric and from 0 to 100; it reaches an automatic merge only
with a shared owner or approval code; a reviewer's tolerance alone never makes a
strong transfer; a proposed transfer joins a debit and a credit of two accounts of
one user; a refund follows its purchase within 120 days.

*Exports.* `ExportsProofs` proves `TypeCorrect` and `DownloadsAlwaysWhole` from
three facts (who works on a row holds its lock, a path is recorded last, what was
looked at may be read), and `NeverMarkedBefore` when no export expires while it is
written (`~Hasty`). That one needs more: a sweeper acts on paths it read earlier, so
the invariant says that they are still what they were (`Seeing`), which is true
because nobody publishes an expired export (`Expiry`).

Only model-checked:

* what needs fairness (`DocumentSettles`, `ScreenshotErased`, `EveryJobEnds`,
  `WorkerStops`, `ExpiredErased`), which is out of the provers' reach;
* `SilentRowsTrue`, `EveryRowKept` and `UnaskedTrue`: they are about what the parsers make
  of one screen with one token damaged, computed by folds and sorting over its tokens
  with definitions of which the provers are told nothing (`SelectSeq`, `SortSeq`, `@@`,
  and folds over sequences, induction over data);
* what section 4 lists.

## 6. Plan

Done: the queue, the engines, reading and matching, review and reconciliation, the
books and their reports, categories, keys, exports. Next, in this order:

1. `Accounts`: TOTP step reuse, recovery codes, lockout, sessions. To prove: a
   code is accepted once.
2. Retention of backups; the retry delay as a number.
3. Proofs: `ReadingAssumption` itself, once the provers can unfold folds over tokens;
   `OpeningAlwaysStands` for calls that do not overlap instead of one caller.
4. The statement-membership conflict check of a confirmation, and the matchers that
   only tests call, once a program calls them.

## 7. Not modelled

| Part | Why |
|---|---|
| OCR engines, image preprocessing | external; modelled by what `apps/ocr` does with their answers |
| The institutions' own labels and screens | a small set of words and layouts stands for them |
| Master key file, wrapping, normalization of search text | pure file and string work |
| Backups | files and subprocesses with one retention rule, planned |
| Users, sessions, recovery | planned |
| Audit log, metrics, logging, errors | no decision reads what they write |
| Quality figures, formatting, periods of a report | queries and layout |
| Settings, routes, containers, shell scripts | no state of their own |
