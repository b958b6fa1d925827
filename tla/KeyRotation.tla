---------------------------- MODULE KeyRotation ----------------------------
(***************************************************************************)
(* One user's encrypted columns and the search tokens beside them, while   *)
(* data keys and search keys are rotated: rotate_encryption_keys,          *)
(* rotate_search_key, encrypt_plaintext_fields and backfill_blind_indexes. *)
(* A command walks the rows in batches; it reads a batch in one database   *)
(* transaction and writes it in another, and may be stopped between any    *)
(* two of them.  Requests and worker jobs hold, in their key scope, the    *)
(* keys that were active when it was opened.                               *)
(***************************************************************************)
EXTENDS Integers, FiniteSets

CONSTANTS
  Rows,         \* encrypted values in the order the commands walk them
  Kind,         \* "observation", "transaction", or "rule" (an alias or a rule)
  Domain,       \* the blind-index domain of the value: "merchant" or "counterparty"
  Texts,        \* plaintexts
  NoText,       \* a row that does not exist yet
  NoToken,      \* an empty index column
  Requests,     \* requests and jobs that may hold a key scope
  MaxVersion,   \* bound: versions of the data key
  MaxSearch,    \* bound: versions of the search key
  AppRunning,   \* TRUE: web and workers go on while a command runs
  Interrupted   \* TRUE: a command may be killed

ASSUME KeyAssumption ==
  /\ Rows \subseteq Nat \ {0}
  /\ Kind \in [Rows -> {"observation", "transaction", "rule"}]
  /\ Domain \in [Rows -> {"merchant", "counterparty"}]
  /\ NoText \notin Texts
  /\ MaxVersion \in Nat \ {0} /\ MaxSearch \in 1..MaxVersion
  /\ AppRunning \in BOOLEAN /\ Interrupted \in BOOLEAN

VARIABLES
  row,          \* what the database holds of each value
  wanted,       \* the plaintext last committed by a user or a parser (history)
  keys,         \* UserDataKey versions
  active,       \* the active one
  searchKeys,   \* UserSearchKey versions
  activeSearch, \* the active one
  checkpoint,   \* RotationCheckpoint.last_record_id, by kind and version
  phase,        \* what the running command is doing
  plan,         \* its arguments and the keys it holds in memory
  cursor,       \* the last row it has dealt with
  batch,        \* the objects it has read and not written yet
  clean,        \* whether its verification found no problem so far
  broken,       \* whether a command has ever been killed (history)
  scope         \* the keys each request holds; version 0 for none

vars == <<row, wanted, keys, active, searchKeys, activeSearch, checkpoint, phase, plan,
          cursor, batch, clean, broken, scope>>
keyVars == <<keys, active, searchKeys, activeSearch>>
commandVars == <<phase, plan, cursor, batch, clean>>

-----------------------------------------------------------------------------
(* Envelopes and tokens *)

\* User.encryption_key_version: set once; only the admin form could change it.
UserVersion == 1

\* search_key.version, the domain and the plaintext all go into a token.
Token(key, domain, text) == [key |-> key, domain |-> domain, text |-> text]

Tokens == [key : Nat, domain : {"merchant", "counterparty"}, text : Texts] \cup {NoToken}

\* A value: its plaintext, the version its envelope states, the key that sealed
\* it (0 for a value stored in clear), and the token in the index column.
Values == [text : Texts \cup {NoText}, label : Nat, sealed : Nat, token : Tokens]

Blank == [text |-> NoText, label |-> 0, sealed |-> 0, token |-> NoToken]

Present == {r \in Rows : row[r].text # NoText}

\* read_field under key k, then under the version the envelope states.
Opens(v, k) ==
  \/ v.sealed \in {0, k}
  \/ v.label # UserVersion /\ v.label \in keys /\ v.sealed = v.label

\* Columns in INDEXED_MODELS.
Indexed(r) == Kind[r] # "rule"

\* Columns in the indexes of ENCRYPTED_MODELS, all of them in the merchant domain.
RebuiltByRotation(r) == Kind[r] = "rule" \/ Domain[r] = "merchant"

Phases == {"idle", "rotate", "verify", "reindex", "seal", "backfill"}

Plans == [dataKey : Nat, searchKey : Nat, target : Nat, retire : BOOLEAN]

NoPlan == [dataKey |-> 0, searchKey |-> 0, target |-> 0, retire |-> FALSE]

TypeOK ==
  /\ row \in [Rows -> Values]
  /\ wanted \in [Rows -> Texts \cup {NoText}]
  /\ keys \in SUBSET (1..MaxVersion) /\ active \in keys
  /\ searchKeys \in SUBSET (1..MaxSearch) /\ activeSearch \in searchKeys
  /\ checkpoint \in [{"rotate", "reindex"} -> [1..MaxVersion -> Nat]]
  /\ phase \in Phases
  /\ plan \in Plans
  /\ cursor \in Nat
  /\ batch \in [Rows -> Values]
  /\ clean \in BOOLEAN
  /\ broken \in BOOLEAN
  /\ scope \in [Requests -> [data : Nat, search : Nat]]

\* Rows written before their column was encrypted are in clear and have no token;
\* aliases and rules were never written in clear.
Legacy == {[Blank EXCEPT !.text = t] : t \in Texts}

Init ==
  /\ row \in [Rows -> {Blank} \cup Legacy]
  /\ \A r \in Rows : Indexed(r) \/ row[r] = Blank
  /\ wanted = [r \in Rows |-> row[r].text]
  /\ keys = {1} /\ active = 1
  /\ searchKeys = {1} /\ activeSearch = 1
  /\ checkpoint = [k \in {"rotate", "reindex"} |-> [v \in 1..MaxVersion |-> 0]]
  /\ phase = "idle"
  /\ plan = NoPlan
  /\ cursor = 0
  /\ batch = [r \in Rows |-> Blank]
  /\ clean = TRUE
  /\ broken = FALSE
  /\ scope = [q \in Requests |-> [data |-> 0, search |-> 0]]

-----------------------------------------------------------------------------
(* The application *)

Open(q) == scope[q].data # 0

\* Unwraps the active data key once for the request or job.
OpenScope(q) ==
  /\ ~Open(q)
  /\ AppRunning \/ phase = "idle"
  /\ scope' = [scope EXCEPT ![q] = [data |-> active, search |-> 0]]
  /\ UNCHANGED <<row, wanted, keyVars, checkpoint, commandVars, broken>>

CloseScope(q) ==
  /\ Open(q)
  /\ scope' = [scope EXCEPT ![q] = [data |-> 0, search |-> 0]]
  /\ UNCHANGED <<row, wanted, keyVars, checkpoint, commandVars, broken>>

\* The search key of a scope is unwrapped at its first use.
SearchKeyOf(q) == IF scope[q].search = 0 THEN activeSearch ELSE scope[q].search

KeepSearchKey(q) == scope' = [scope EXCEPT ![q].search = SearchKeyOf(q)]

\* Every write of the application is labelled with the user's version and sealed
\* with the key of its scope.
Store(q, r, text, token) ==
  /\ row' = [row EXCEPT ![r] = [text |-> text, label |-> UserVersion,
                               sealed |-> scope[q].data, token |-> token]]
  /\ wanted' = [wanted EXCEPT ![r] = text]
  /\ UNCHANGED <<keyVars, checkpoint, commandVars, broken>>

\* Import of an observation, manual entry of a transaction, a new alias or rule.
Enter(q, r, text) ==
  /\ Open(q) /\ r \notin Present
  /\ Store(q, r, text, Token(SearchKeyOf(q), Domain[r], text))
  /\ KeepSearchKey(q)

\* The edit form decrypts the stored value before it saves the new one.
EditTransaction(q, r, text) ==
  /\ Open(q) /\ r \in Present /\ Kind[r] = "transaction"
  /\ Opens(row[r], scope[q].data)
  /\ Store(q, r, text, Token(SearchKeyOf(q), Domain[r], text))
  /\ KeepSearchKey(q)

\* A correction of the merchant leaves the index column alone.
CorrectObservation(q, r, text) ==
  /\ Open(q) /\ r \in Present /\ Kind[r] = "observation"
  /\ Opens(row[r], scope[q].data) /\ row[r].text # text
  /\ Store(q, r, text, row[r].token)
  /\ UNCHANGED scope

\* The transaction takes over the value and the token of the row it comes from.
AcceptObservation(q, o, r) ==
  /\ Open(q) /\ o \in Present /\ Kind[o] = "observation"
  /\ r \notin Present /\ Kind[r] = "transaction" /\ Domain[r] = Domain[o]
  /\ Opens(row[o], scope[q].data)
  /\ Store(q, r, row[o].text, row[o].token)
  /\ UNCHANGED scope

-----------------------------------------------------------------------------
(* Commands *)

\* Commands are run one at a time; the runbook stops the application first.
MayStart == phase = "idle" /\ (AppRunning \/ \A q \in Requests : ~Open(q))

\* Mutant: the checkpoint is looked up under the version being replaced.
BeginAfterOld(p, how) ==
  /\ phase' = p
  /\ plan' = how
  /\ cursor' = IF p \in DOMAIN checkpoint THEN checkpoint[p][how.target - 1] ELSE 0
  /\ batch' = [r \in Rows |-> Blank]
  /\ clean' = TRUE
  /\ UNCHANGED <<row, wanted, checkpoint, broken, scope>>

\* The walk starts after the checkpoint of its version.
Begin(p, how) ==
  /\ phase' = p
  /\ plan' = how
  /\ cursor' = IF p \in DOMAIN checkpoint THEN checkpoint[p][how.target] ELSE 0
  /\ batch' = [r \in Rows |-> Blank]
  /\ clean' = TRUE
  /\ UNCHANGED <<row, wanted, checkpoint, broken, scope>>

StartRotation(retire) ==
  /\ MayStart /\ active < MaxVersion
  /\ keys' = keys \cup {active + 1}
  /\ active' = active + 1
  /\ Begin("rotate", [dataKey |-> active, searchKey |-> activeSearch,
                      target |-> active + 1, retire |-> retire])
  /\ UNCHANGED <<searchKeys, activeSearch>>

StartReindex ==
  /\ MayStart /\ activeSearch < MaxSearch
  /\ searchKeys' = searchKeys \cup {activeSearch + 1}
  /\ activeSearch' = activeSearch + 1
  /\ Begin("reindex", [dataKey |-> active, searchKey |-> activeSearch + 1,
                       target |-> activeSearch + 1, retire |-> FALSE])
  /\ UNCHANGED <<keys, active>>

\* encrypt_plaintext_fields and backfill_blind_indexes.
StartRepair(p) ==
  /\ MayStart
  /\ Begin(p, [dataKey |-> active, searchKey |-> activeSearch,
               target |-> UserVersion, retire |-> FALSE])
  /\ UNCHANGED keyVars

Walking == phase \in Phases \ {"idle", "verify"}

Held == {r \in Rows : batch[r].text # NoText}

Ahead == {r \in Present : r > cursor}

\* The rows of one batch, which ends with row `last`.
Window(last) == {r \in Ahead : r <= last}

ReadBatch(last) ==
  /\ Walking /\ Held = {} /\ last \in Ahead
  /\ batch' = [r \in Rows |-> IF r \in Window(last) THEN row[r] ELSE Blank]
  /\ UNCHANGED <<row, wanted, keyVars, checkpoint, phase, plan, cursor, clean, broken, scope>>

\* Mutant: only envelopes that state the version being replaced are moved.
RotatedFromOld(r, v) ==
  IF v.label = plan.target - 1 /\ Opens(v, plan.dataKey)
  THEN [text |-> v.text, label |-> plan.target, sealed |-> plan.target, token |-> row[r].token]
  ELSE row[r]

\* What the command makes of row r, from the object v it read: fields it does
\* not save keep what the database holds.
Rotated(r, v) ==
  IF v.label # plan.target /\ Opens(v, plan.dataKey)
  THEN [text |-> v.text, label |-> plan.target, sealed |-> plan.target,
        token |-> IF RebuiltByRotation(r) THEN Token(plan.searchKey, "merchant", v.text)
                  ELSE row[r].token]
  ELSE row[r]

TokenIsAt(v, version) == v.token # NoToken /\ v.token.key = version

\* Mutant: the counterparty column is forgotten.
ReindexedMerchants(r, v) ==
  IF Indexed(r) /\ Domain[r] = "merchant" /\ ~TokenIsAt(v, plan.target) /\ Opens(v, plan.dataKey)
  THEN [row[r] EXCEPT !.token = Token(plan.searchKey, Domain[r], v.text)]
  ELSE row[r]

Reindexed(r, v) ==
  IF Indexed(r) /\ ~TokenIsAt(v, plan.target) /\ Opens(v, plan.dataKey)
  THEN [row[r] EXCEPT !.token = Token(plan.searchKey, Domain[r], v.text)]
  ELSE row[r]

Sealed(r, v) ==
  IF v.label = 0
  THEN [row[r] EXCEPT !.text = v.text, !.label = UserVersion, !.sealed = plan.dataKey]
  ELSE row[r]

Backfilled(r, v) ==
  IF Indexed(r) /\ Opens(v, plan.dataKey)
  THEN [row[r] EXCEPT !.token = Token(plan.searchKey, Domain[r], v.text)]
  ELSE row[r]

Rewritten(r, v) ==
  CASE phase = "rotate" -> Rotated(r, v)
    [] phase = "reindex" -> Reindexed(r, v)
    [] phase = "seal" -> Sealed(r, v)
    [] phase = "backfill" -> Backfilled(r, v)

\* The batch's rows and the checkpoint are written in one database transaction.
SaveBatch ==
  /\ Walking /\ Held # {}
  /\ \E last \in Held :
       /\ \A r \in Held : r <= last
       /\ cursor' = last
       /\ checkpoint' = IF phase \in DOMAIN checkpoint
                        THEN [checkpoint EXCEPT ![phase][plan.target] = last]
                        ELSE checkpoint
  /\ row' = [r \in Rows |-> IF r \in Held THEN Rewritten(r, batch[r]) ELSE row[r]]
  /\ batch' = [r \in Rows |-> Blank]
  /\ UNCHANGED <<wanted, keyVars, phase, plan, clean, broken, scope>>

\* A complete walk clears its checkpoint; a rotation goes on to verify.
EndWalk ==
  /\ Walking /\ Held = {} /\ Ahead = {}
  /\ checkpoint' = IF phase \in DOMAIN checkpoint
                   THEN [checkpoint EXCEPT ![phase][plan.target] = 0]
                   ELSE checkpoint
  /\ phase' = IF phase = "rotate" THEN "verify" ELSE "idle"
  /\ plan' = IF phase = "rotate" THEN plan ELSE NoPlan
  /\ cursor' = 0
  /\ UNCHANGED <<row, wanted, keyVars, batch, clean, broken, scope>>

VerifyBatch(last) ==
  /\ phase = "verify" /\ last \in Ahead
  /\ clean' = (clean /\ \A r \in Window(last) :
                  row[r].label = plan.target /\ Opens(row[r], plan.target))
  /\ cursor' = last
  /\ UNCHANGED <<row, wanted, keyVars, checkpoint, phase, plan, batch, broken, scope>>

\* Mutant: keys are retired whatever the verification found.
SupersededUnverified == IF plan.retire THEN {k \in keys : k < plan.target} ELSE {}

\* Mutant: the key just activated is retired with the others.
SupersededAndActive == IF clean /\ plan.retire THEN {k \in keys : k <= plan.target} ELSE {}

\* Superseded keys go only after a clean verification, and only if asked for.
Superseded == IF clean /\ plan.retire THEN {k \in keys : k < plan.target} ELSE {}

EndVerify ==
  /\ phase = "verify" /\ Ahead = {}
  /\ keys' = keys \ Superseded
  /\ phase' = "idle" /\ plan' = NoPlan /\ cursor' = 0 /\ clean' = TRUE
  /\ UNCHANGED <<row, wanted, active, searchKeys, activeSearch, checkpoint, batch, broken,
                 scope>>

\* Mutant: only the observations' columns are counted.
StaleObservations ==
  {r \in Present : Kind[r] = "observation" /\ row[r].token # NoToken
                   /\ ~TokenIsAt(row[r], activeSearch)}

\* rotate_search_key --retire refuses while an indexed column is behind.
StaleTokens ==
  {r \in Present : Indexed(r) /\ row[r].token # NoToken /\ ~TokenIsAt(row[r], activeSearch)}

RetireSearchKeys ==
  /\ MayStart /\ StaleTokens = {}
  /\ searchKeys' = {k \in searchKeys : k >= activeSearch}
  /\ UNCHANGED <<row, wanted, keys, active, activeSearch, checkpoint, commandVars, broken, scope>>

\* The process is killed: what is not committed is lost.
Kill ==
  /\ Interrupted /\ phase # "idle"
  /\ phase' = "idle" /\ plan' = NoPlan /\ cursor' = 0
  /\ batch' = [r \in Rows |-> Blank]
  /\ clean' = TRUE
  /\ broken' = TRUE
  /\ UNCHANGED <<row, wanted, keyVars, checkpoint, scope>>

Application ==
  \/ \E q \in Requests : OpenScope(q) \/ CloseScope(q)
  \/ \E q \in Requests, r \in Rows, text \in Texts :
       Enter(q, r, text) \/ EditTransaction(q, r, text) \/ CorrectObservation(q, r, text)
  \/ \E q \in Requests, o, r \in Rows : AcceptObservation(q, o, r)

Operator ==
  \/ \E retire \in BOOLEAN : StartRotation(retire)
  \/ StartReindex \/ RetireSearchKeys
  \/ \E p \in {"seal", "backfill"} : StartRepair(p)

Command ==
  \/ \E last \in Rows : ReadBatch(last) \/ VerifyBatch(last)
  \/ SaveBatch \/ EndWalk \/ EndVerify

Next == Application \/ Operator \/ Command \/ Kill

Spec == Init /\ [][Next]_vars

-----------------------------------------------------------------------------
(* Properties *)

\* Every value that was committed is still stored, and the key that sealed it
\* still exists (rotate_encryption_keys.py: "a row nobody can ever read").
NothingLost ==
  \A r \in Present : row[r].text = wanted[r] /\ row[r].sealed \in keys \cup {0}

\* When no command is running and none was ever killed, the application reads
\* every row with the key that a new scope would hold.
ReadableAtRest ==
  phase = "idle" /\ ~broken => \A r \in Present : Opens(row[r], active)

\* No token of an indexed column is left under a search key that was removed
\* (rotate_search_key --retire).
TokensUnderLiveKeys ==
  \A r \in Present : Indexed(r) /\ row[r].token # NoToken => row[r].token.key \in searchKeys

\* When no command is running and none was ever killed, every token of an
\* indexed column is under the active search key, in the domain of its column,
\* so that a lookup with one token finds all of them.
TokensCurrent ==
  phase = "idle" /\ ~broken =>
    \A r \in Present : Indexed(r) /\ row[r].token # NoToken =>
      row[r].token.key = activeSearch /\ row[r].token.domain = Domain[r]

\* A walk never resumes: each run walks for a version no earlier run had, so
\* resume_point finds no checkpoint and every row is looked at again.
WalksStartOver == [][phase = "idle" /\ phase' # "idle" => cursor' = 0]_vars

-----------------------------------------------------------------------------
(* What the documentation says and the code does not do *)

\* rotate_encryption_keys.py:8-9: "an interrupted run resumes by simply running
\* again": a rotation that reaches the end of its verification is clean.
RerunFinishes == phase = "verify" /\ Ahead = {} => clean

\* rotate_encryption_keys.py:5-6: "Everything written from that moment is already
\* correct": at rest, every sealed value states the active version.
WrittenUnderActive ==
  phase = "idle" /\ ~broken => \A r \in Present : row[r].sealed # 0 => row[r].label = row[r].sealed

\* rotate_search_key.py:21-22: the old key goes "only once nothing is indexed
\* under it", aliases and rules included.
NothingIndexedUnderRetired ==
  \A r \in Present : row[r].token # NoToken => row[r].token.key \in searchKeys

\* categorization/services.py:172-178: a rule whose pattern is indexed in another
\* domain "can never fire".
RulesInDomain ==
  \A r \in Present : row[r].token # NoToken => row[r].token.domain = Domain[r]

\* review.py:469-471: an accepted row's token "was built from the merchant this row
\* actually carries".
AcceptedTokenMatches ==
  \A r \in Present : Kind[r] = "transaction" /\ row[r].token # NoToken =>
    row[r].token.text = row[r].text

=============================================================================
