------------------------ MODULE KeyRotationProofs ------------------------
(***************************************************************************)
(* Proofs about KeyRotation, for every set of rows, every batch, any       *)
(* number of rotations and a command killed anywhere: types, the walks and *)
(* the checkpoints, then that no value and no search key in use is lost.   *)
(***************************************************************************)
EXTENDS KeyRotation, TLAPS

-----------------------------------------------------------------------------
(* Types *)

LEMMA TypeInit ==
  ASSUME KeyAssumption, Init
  PROVE  TypeOK
<1>1. {Blank} \cup Legacy \subseteq Values
  BY DEF Blank, Legacy, Values, Tokens
<1>2. row \in [Rows -> Values] /\ wanted \in [Rows -> Texts \cup {NoText}]
  BY <1>1 DEF Init, Values
<1>3. Blank \in Values
  BY <1>1
<1>4. /\ checkpoint \in [{"rotate", "reindex"} -> [1..MaxVersion -> Nat]]
      /\ scope \in [Requests -> [data : Nat, search : Nat]]
      /\ plan \in Plans
  BY DEF Init, Plans, NoPlan
<1>5. /\ keys \in SUBSET (1..MaxVersion) /\ active \in keys
      /\ searchKeys \in SUBSET (1..MaxSearch) /\ activeSearch \in searchKeys
  BY DEF Init, KeyAssumption
<1> QED
  BY <1>2, <1>3, <1>4, <1>5 DEF Init, TypeOK, Phases

LEMMA ValueFacts ==
  ASSUME NEW v \in Values
  PROVE  /\ v.text \in Texts \cup {NoText} /\ v.label \in Nat /\ v.sealed \in Nat
         /\ v.token \in Tokens
         /\ v = [text |-> v.text, label |-> v.label, sealed |-> v.sealed, token |-> v.token]
BY DEF Values

LEMMA TokenType ==
  ASSUME KeyAssumption, NEW key \in Nat, NEW d \in {"merchant", "counterparty"}, NEW t \in Texts
  PROVE  Token(key, d, t) \in Tokens
BY DEF Token, Tokens

LEMMA StoreType ==
  ASSUME KeyAssumption, TypeOK, NEW q \in Requests, NEW r \in Rows, NEW text \in Texts,
         NEW token \in Tokens, Store(q, r, text, token)
  PROVE  row' \in [Rows -> Values] /\ wanted' \in [Rows -> Texts \cup {NoText}]
<1>1. scope[q].data \in Nat
  BY DEF TypeOK
<1>2. [text |-> text, label |-> UserVersion, sealed |-> scope[q].data, token |-> token] \in Values
  BY <1>1 DEF Values, UserVersion
<1> QED
  BY <1>2 DEF Store, TypeOK

LEMMA SearchKeyType ==
  ASSUME KeyAssumption, TypeOK, NEW q \in Requests
  PROVE  SearchKeyOf(q) \in Nat
BY DEF SearchKeyOf, TypeOK, KeyAssumption

LEMMA RewrittenType ==
  ASSUME KeyAssumption, TypeOK, Walking, NEW r \in Held
  PROVE  Rewritten(r, batch[r]) \in Values
<1> DEFINE v == batch[r]
<1>1. /\ r \in Rows /\ v \in Values /\ row[r] \in Values /\ v.text \in Texts
      /\ Domain[r] \in {"merchant", "counterparty"}
  BY DEF Held, TypeOK, KeyAssumption, Values
<1>2. plan.dataKey \in Nat /\ plan.searchKey \in Nat /\ plan.target \in Nat
  BY DEF TypeOK, Plans
<1>3. /\ Token(plan.searchKey, Domain[r], v.text) \in Tokens
      /\ Token(plan.searchKey, "merchant", v.text) \in Tokens
      /\ row[r].token \in Tokens
  BY <1>1, <1>2, TokenType DEF Values
<1> HIDE DEF v
<1>4. Rotated(r, v) \in Values
  BY <1>1, <1>2, <1>3 DEF Rotated, Values
<1>5. Reindexed(r, v) \in Values /\ Backfilled(r, v) \in Values
  BY <1>1, <1>2, <1>3 DEF Reindexed, Backfilled, Values
<1>6. Sealed(r, v) \in Values
  BY <1>1, <1>2, <1>3 DEF Sealed, Values, UserVersion
<1> QED
  BY <1>4, <1>5, <1>6 DEF Rewritten, Walking, Phases, v

\* The database columns and the scopes keep their types, whatever happens to the keys.
Stored == row \in [Rows -> Values] /\ wanted \in [Rows -> Texts \cup {NoText}]

LEMMA TypeApplication ==
  ASSUME KeyAssumption, TypeOK, Application
  PROVE  TypeOK'
<1> USE KeyAssumption DEF keyVars, commandVars
<1>1. ASSUME Stored', UNCHANGED <<keyVars, checkpoint, commandVars, broken>>,
             scope' \in [Requests -> [data : Nat, search : Nat]]
      PROVE  TypeOK'
  BY <1>1 DEF TypeOK, Stored
<1>2. ASSUME NEW q \in Requests, OpenScope(q) \/ CloseScope(q) PROVE TypeOK'
  <2>1. [data |-> active, search |-> 0] \in [data : Nat, search : Nat]
    BY DEF TypeOK
  <2>2. [data |-> 0, search |-> 0] \in [data : Nat, search : Nat]
    OBVIOUS
  <2>3. scope' \in [Requests -> [data : Nat, search : Nat]]
    BY <1>2, <2>1, <2>2 DEF OpenScope, CloseScope, TypeOK
  <2>4. Stored'
    BY <1>2 DEF OpenScope, CloseScope, TypeOK, Stored
  <2> QED BY <1>2, <2>3, <2>4, <1>1 DEF OpenScope, CloseScope
<1>3. ASSUME NEW q \in Requests, KeepSearchKey(q)
      PROVE  scope' \in [Requests -> [data : Nat, search : Nat]]
  <2>1. SearchKeyOf(q) \in Nat
    BY SearchKeyType
  <2>2. \A k \in Nat : [scope EXCEPT ![q].search = k] \in [Requests -> [data : Nat, search : Nat]]
    BY DEF TypeOK
  <2>3. scope' = [scope EXCEPT ![q].search = SearchKeyOf(q)]
    BY <1>3 DEF KeepSearchKey
  <2> QED BY <2>1, <2>2, <2>3
<1>4. ASSUME NEW q \in Requests, NEW r \in Rows, NEW text \in Texts
      PROVE  Token(SearchKeyOf(q), Domain[r], text) \in Tokens
  BY SearchKeyType, TokenType
<1>5. ASSUME NEW q \in Requests, NEW r \in Rows, NEW text \in Texts, Enter(q, r, text)
      PROVE  TypeOK'
  BY <1>5, <1>1, <1>3, <1>4, StoreType DEF Enter, Stored, Store
<1>6. ASSUME NEW q \in Requests, NEW r \in Rows, NEW text \in Texts, EditTransaction(q, r, text)
      PROVE  TypeOK'
  BY <1>6, <1>1, <1>3, <1>4, StoreType DEF EditTransaction, Stored, Store
<1>7. ASSUME NEW q \in Requests, NEW r \in Rows, NEW text \in Texts, CorrectObservation(q, r, text)
      PROVE  TypeOK'
  <2>1. row[r].token \in Tokens
    BY ValueFacts DEF TypeOK
  <2> QED BY <1>7, <2>1, <1>1, StoreType DEF CorrectObservation, Stored, Store, TypeOK
<1>8. ASSUME NEW q \in Requests, NEW o \in Rows, NEW r \in Rows, AcceptObservation(q, o, r)
      PROVE  TypeOK'
  <2>1. row[o].token \in Tokens /\ row[o].text \in Texts
    BY <1>8, ValueFacts DEF TypeOK, AcceptObservation, Present
  <2> QED BY <1>8, <2>1, <1>1, StoreType DEF AcceptObservation, Stored, Store, TypeOK
<1> QED BY <1>2, <1>5, <1>6, <1>7, <1>8 DEF Application

LEMMA BeginType ==
  ASSUME KeyAssumption, TypeOK, NEW p \in Phases, NEW how \in Plans, Begin(p, how),
         how.target \in 1..MaxVersion
  PROVE  /\ phase' \in Phases /\ plan' \in Plans /\ cursor' \in Nat
         /\ batch' \in [Rows -> Values] /\ clean' \in BOOLEAN
         /\ UNCHANGED <<row, wanted, checkpoint, broken, scope>>
<1>1. cursor' \in Nat
  BY DEF Begin, TypeOK
<1>2. Blank \in Values
  BY DEF Blank, Values, Tokens
<1> QED BY <1>1, <1>2 DEF Begin

LEMMA TypeOperator ==
  ASSUME KeyAssumption, TypeOK, Operator
  PROVE  TypeOK'
<1> USE KeyAssumption
<1>1. /\ active \in 1..MaxVersion /\ activeSearch \in 1..MaxSearch
      /\ activeSearch \in 1..MaxVersion
  BY DEF TypeOK
<1>2. ASSUME NEW retire \in BOOLEAN, StartRotation(retire) PROVE TypeOK'
  <2> DEFINE how == [dataKey |-> active, searchKey |-> activeSearch,
                     target |-> active + 1, retire |-> retire]
  <2>1. how \in Plans /\ how.target \in 1..MaxVersion
    BY <1>1, <1>2 DEF StartRotation, Plans
  <2>2. Begin("rotate", how)
    BY <1>2 DEF StartRotation
  <2>3. keys' \in SUBSET (1..MaxVersion) /\ active' \in keys'
    BY <1>1, <1>2 DEF StartRotation, TypeOK
  <2> HIDE DEF how
  <2> QED BY <1>2, <2>1, <2>2, <2>3, BeginType DEF StartRotation, TypeOK, Phases
<1>3. CASE StartReindex
  <2> DEFINE how == [dataKey |-> active, searchKey |-> activeSearch + 1,
                     target |-> activeSearch + 1, retire |-> FALSE]
  <2>1. how \in Plans /\ how.target \in 1..MaxVersion
    BY <1>1, <1>3 DEF StartReindex, Plans
  <2>2. Begin("reindex", how)
    BY <1>3 DEF StartReindex
  <2>3. searchKeys' \in SUBSET (1..MaxSearch) /\ activeSearch' \in searchKeys'
    BY <1>1, <1>3 DEF StartReindex, TypeOK
  <2> HIDE DEF how
  <2> QED BY <1>3, <2>1, <2>2, <2>3, BeginType DEF StartReindex, TypeOK, Phases
<1>4. ASSUME NEW p \in {"seal", "backfill"}, StartRepair(p) PROVE TypeOK'
  <2> DEFINE how == [dataKey |-> active, searchKey |-> activeSearch,
                     target |-> UserVersion, retire |-> FALSE]
  <2>1. how \in Plans /\ how.target \in 1..MaxVersion
    BY <1>1 DEF Plans, UserVersion
  <2>2. Begin(p, how)
    BY <1>4 DEF StartRepair
  <2>3. UNCHANGED keyVars /\ p \in Phases
    BY <1>4 DEF StartRepair, Phases
  <2> HIDE DEF how
  <2>4. /\ phase' \in Phases /\ plan' \in Plans /\ cursor' \in Nat
        /\ batch' \in [Rows -> Values] /\ clean' \in BOOLEAN
        /\ UNCHANGED <<row, wanted, checkpoint, broken, scope>>
    BY <2>1, <2>2, <2>3, BeginType
  <2> QED BY <2>3, <2>4 DEF TypeOK, keyVars
<1>5. CASE RetireSearchKeys
  <2>1. searchKeys' \in SUBSET (1..MaxSearch) /\ activeSearch' \in searchKeys'
    <3>1. searchKeys' = {k \in searchKeys : k >= activeSearch} /\ activeSearch' = activeSearch
      BY <1>5 DEF RetireSearchKeys
    <3>2. /\ searchKeys \subseteq 1..MaxSearch /\ activeSearch \in searchKeys
          /\ activeSearch >= activeSearch
      BY <1>1 DEF TypeOK
    <3> QED BY <3>1, <3>2
  <2> QED BY <1>5, <2>1 DEF RetireSearchKeys, TypeOK, commandVars
<1> QED BY <1>2, <1>3, <1>4, <1>5 DEF Operator

\* A command walks for the version that is active while it runs, with the data
\* key that was active when it began.
Driven ==
  /\ phase \in {"rotate", "verify"} => plan.target = active
  /\ phase = "reindex" => plan.target = activeSearch
  /\ phase \in {"seal", "backfill", "reindex"} => plan.dataKey = active
  /\ phase # "idle" => plan.searchKey = activeSearch

LEMMA TypeCommand ==
  ASSUME KeyAssumption, TypeOK, Driven, Command \/ Kill
  PROVE  TypeOK'
<1> USE KeyAssumption DEF keyVars
<1>1. Blank \in Values /\ NoPlan \in Plans
  BY DEF Blank, Values, Tokens, NoPlan, Plans
<1>2. ASSUME NEW last \in Rows, ReadBatch(last) PROVE TypeOK'
  BY <1>1, <1>2 DEF ReadBatch, TypeOK
<1>3. ASSUME NEW last \in Rows, VerifyBatch(last) PROVE TypeOK'
  <2>1. clean' \in BOOLEAN
    BY <1>3 DEF VerifyBatch
  <2> QED BY <1>3, <2>1 DEF VerifyBatch, TypeOK
<1>4. CASE SaveBatch
  <2>1. row' \in [Rows -> Values]
    BY <1>4, RewrittenType DEF SaveBatch, TypeOK, Held
  <2>2. cursor' \in Nat /\ checkpoint' \in [{"rotate", "reindex"} -> [1..MaxVersion -> Nat]]
    <3>1. PICK last \in Held : /\ cursor' = last
                               /\ checkpoint' = IF phase \in DOMAIN checkpoint
                                   THEN [checkpoint EXCEPT ![phase][plan.target] = last]
                                   ELSE checkpoint
      BY <1>4 DEF SaveBatch
    <3>2. last \in Nat
      BY DEF Held
    <3> QED BY <3>1, <3>2 DEF TypeOK
  <2> QED BY <1>1, <1>4, <2>1, <2>2 DEF SaveBatch, TypeOK
<1>5. CASE EndWalk
  BY <1>1, <1>5 DEF EndWalk, TypeOK, Phases
<1>6. CASE EndVerify
  <2>1. keys' \in SUBSET (1..MaxVersion) /\ active' \in keys'
    <3>1. active \in keys /\ keys \in SUBSET (1..MaxVersion) /\ active \in Nat
      BY DEF TypeOK
    <3>2. plan.target = active
      BY <1>6 DEF EndVerify, Driven
    <3>3. active \notin Superseded
      BY <3>1, <3>2 DEF Superseded
    <3> QED BY <1>6, <3>1, <3>3 DEF EndVerify
  <2> QED BY <1>1, <1>6, <2>1 DEF EndVerify, TypeOK, Phases
<1>7. CASE Kill
  BY <1>1, <1>7 DEF Kill, TypeOK, Phases
<1> QED BY <1>2, <1>3, <1>4, <1>5, <1>6, <1>7 DEF Command

LEMMA DrivenStep ==
  ASSUME KeyAssumption, TypeOK, Driven, [Next]_vars
  PROVE  Driven'
<1> USE DEF keyVars, commandVars
<1>1. CASE Application
  BY <1>1 DEF Application, OpenScope, CloseScope, Enter, EditTransaction, CorrectObservation,
     AcceptObservation, Store, Driven
<1>2. ASSUME NEW retire \in BOOLEAN, StartRotation(retire) PROVE Driven'
  BY <1>2 DEF StartRotation, Begin, Driven
<1>3. CASE StartReindex
  BY <1>3 DEF StartReindex, Begin, Driven
<1>4. ASSUME NEW p \in {"seal", "backfill"}, StartRepair(p) PROVE Driven'
  BY <1>4 DEF StartRepair, Begin, Driven
<1>5. CASE RetireSearchKeys
  BY <1>5 DEF RetireSearchKeys, Driven
<1>6. CASE Command
  BY <1>6 DEF Command, ReadBatch, VerifyBatch, SaveBatch, EndWalk, EndVerify, Driven, Walking
<1>7. CASE Kill
  BY <1>7 DEF Kill, Driven
<1>8. CASE UNCHANGED vars
  BY <1>8 DEF vars, Driven
<1> QED BY <1>1, <1>2, <1>3, <1>4, <1>5, <1>6, <1>7, <1>8 DEF Next, Operator

LEMMA TypeStep ==
  ASSUME KeyAssumption, TypeOK, Driven, [Next]_vars
  PROVE  TypeOK'
<1>1. CASE UNCHANGED vars
  BY <1>1 DEF vars, TypeOK
<1> QED BY <1>1, TypeApplication, TypeOperator, TypeCommand DEF Next

\* Every row, key, checkpoint and scope keeps its type; in particular the active
\* data key and the active search key always exist (rotate_encryption_keys.py
\* deletes only versions below the one it verified).
THEOREM TypeCorrect ==
  ASSUME KeyAssumption
  PROVE  Spec => []TypeOK
<1>1. Init => TypeOK /\ Driven
  BY TypeInit DEF Init, Driven
<1>2. TypeOK /\ Driven /\ [Next]_vars => (TypeOK /\ Driven)'
  BY TypeStep, DrivenStep
<1> QED BY <1>1, <1>2, PTL DEF Spec

-----------------------------------------------------------------------------
(* Checkpoints *)

\* No checkpoint is recorded for a version that does not exist yet.
Behind ==
  \A v \in 1..MaxVersion : /\ v > active => checkpoint["rotate"][v] = 0
                           /\ v > activeSearch => checkpoint["reindex"][v] = 0

LEMMA BehindStep ==
  ASSUME KeyAssumption, TypeOK, Driven, Behind, [Next]_vars
  PROVE  Behind'
<1> USE DEF keyVars, commandVars
<1>1. /\ active \in 1..MaxVersion /\ activeSearch \in 1..MaxVersion
      /\ checkpoint \in [{"rotate", "reindex"} -> [1..MaxVersion -> Nat]]
  BY DEF TypeOK, KeyAssumption
<1>2. ASSUME checkpoint' = checkpoint, active' \in {active, active + 1},
             activeSearch' \in {activeSearch, activeSearch + 1}
      PROVE  Behind'
  <2>1. active' >= active /\ activeSearch' >= activeSearch
    BY <1>1, <1>2
  <2>2. active' \in Nat /\ activeSearch' \in Nat
    BY <1>1, <1>2
  <2>3. \A v \in 1..MaxVersion : /\ v > active' => v > active
                                 /\ v > activeSearch' => v > activeSearch
    BY <1>1, <2>1, <2>2
  <2> QED BY <1>2, <2>3 DEF Behind
<1>3. CASE Application
  BY <1>2, <1>3 DEF Application, OpenScope, CloseScope, Enter, EditTransaction,
     CorrectObservation, AcceptObservation, Store
<1>4. CASE Operator
  BY <1>2, <1>4 DEF Operator, StartRotation, StartReindex, StartRepair, RetireSearchKeys, Begin
<1>5. ASSUME UNCHANGED <<active, activeSearch>>, phase \in {"rotate", "reindex"}, NEW n \in Nat,
             checkpoint' = [checkpoint EXCEPT ![phase][plan.target] = n]
      PROVE  Behind'
  <2>1. plan.target \in 1..MaxVersion
    BY <1>1, <1>5 DEF Driven
  <2>2. CASE phase = "rotate"
    <3>1. plan.target = active
      BY <2>2 DEF Driven
    <3> QED BY <1>1, <1>5, <2>1, <2>2, <3>1 DEF Behind
  <2>3. CASE phase = "reindex"
    <3>1. plan.target = activeSearch
      BY <2>3 DEF Driven
    <3> QED BY <1>1, <1>5, <2>1, <2>3, <3>1 DEF Behind
  <2> QED BY <1>5, <2>2, <2>3
<1>6. CASE SaveBatch
  <2>1. PICK last \in Held : checkpoint' = IF phase \in DOMAIN checkpoint
                                          THEN [checkpoint EXCEPT ![phase][plan.target] = last]
                                          ELSE checkpoint
    BY <1>6 DEF SaveBatch
  <2>2. last \in Nat /\ UNCHANGED <<active, activeSearch>>
    BY <1>6 DEF SaveBatch, Held, KeyAssumption
  <2> QED BY <1>1, <1>2, <1>5, <2>1, <2>2
<1>7. CASE EndWalk
  <2>1. /\ UNCHANGED <<active, activeSearch>>
        /\ checkpoint' = IF phase \in DOMAIN checkpoint
                         THEN [checkpoint EXCEPT ![phase][plan.target] = 0] ELSE checkpoint
    BY <1>7 DEF EndWalk
  <2> QED BY <1>1, <1>2, <1>5, <2>1
<1>8. CASE EndVerify \/ Kill \/ \E last \in Rows : ReadBatch(last) \/ VerifyBatch(last)
  BY <1>2, <1>8 DEF EndVerify, Kill, ReadBatch, VerifyBatch
<1>9. CASE UNCHANGED vars
  BY <1>2, <1>9 DEF vars
<1> QED BY <1>3, <1>4, <1>6, <1>7, <1>8, <1>9 DEF Next, Command

LEMMA StartsOver ==
  ASSUME KeyAssumption, TypeOK, Behind, [Next]_vars, phase = "idle", phase' # "idle"
  PROVE  cursor' = 0
<1> USE DEF keyVars, commandVars
<1>1. /\ active \in 1..MaxVersion /\ activeSearch \in 1..MaxVersion
      /\ MaxVersion \in Nat /\ MaxSearch \in 1..MaxVersion
      /\ DOMAIN checkpoint = {"rotate", "reindex"}
  BY DEF TypeOK, KeyAssumption
<1>2. ASSUME NEW retire \in BOOLEAN, StartRotation(retire) PROVE cursor' = 0
  <2>1. active + 1 \in 1..MaxVersion /\ active + 1 > active
    BY <1>1, <1>2 DEF StartRotation
  <2>2. checkpoint["rotate"][active + 1] = 0
    BY <2>1 DEF Behind
  <2> DEFINE how == [dataKey |-> active, searchKey |-> activeSearch,
                     target |-> active + 1, retire |-> retire]
  <2>3. Begin("rotate", how) /\ how.target = active + 1
    BY <1>2 DEF StartRotation
  <2> HIDE DEF how
  <2> QED BY <1>1, <2>2, <2>3 DEF Begin
<1>3. CASE StartReindex
  <2>1. activeSearch + 1 \in 1..MaxVersion /\ activeSearch + 1 > activeSearch
    BY <1>1, <1>3 DEF StartReindex
  <2>2. checkpoint["reindex"][activeSearch + 1] = 0
    BY <2>1 DEF Behind
  <2> DEFINE how == [dataKey |-> active, searchKey |-> activeSearch + 1,
                     target |-> activeSearch + 1, retire |-> FALSE]
  <2>3. Begin("reindex", how) /\ how.target = activeSearch + 1
    BY <1>3 DEF StartReindex
  <2> HIDE DEF how
  <2> QED BY <1>1, <2>2, <2>3 DEF Begin
<1>4. ASSUME NEW p \in {"seal", "backfill"}, StartRepair(p) PROVE cursor' = 0
  BY <1>1, <1>4 DEF StartRepair, Begin
<1>5. Application \/ RetireSearchKeys \/ UNCHANGED vars => phase' = phase
  BY DEF Application, OpenScope, CloseScope, Enter, EditTransaction, CorrectObservation,
     AcceptObservation, Store, RetireSearchKeys, vars
<1>6. Command \/ Kill => phase # "idle"
  BY DEF Command, ReadBatch, VerifyBatch, SaveBatch, EndWalk, EndVerify, Walking, Kill
<1> QED BY <1>2, <1>3, <1>4, <1>5, <1>6 DEF Next, Operator

\* resume_point never finds a checkpoint: a command provisions a new version each
\* time it is run, so no row is skipped and no interrupted walk is continued.
THEOREM WalksAlwaysStartOver ==
  ASSUME KeyAssumption
  PROVE  Spec => WalksStartOver
<1>1. Init => TypeOK /\ Driven /\ Behind
  <2>1. Init => Driven /\ Behind
    BY DEF Init, Driven, Behind
  <2> QED BY <2>1, TypeInit
<1>2. TypeOK /\ Driven /\ Behind /\ [Next]_vars => (TypeOK /\ Driven /\ Behind)'
  BY TypeStep, DrivenStep, BehindStep
<1>3. TypeOK /\ Driven /\ Behind /\ [Next]_vars =>
        [phase = "idle" /\ phase' # "idle" => cursor' = 0]_vars
  BY StartsOver
<1> QED BY <1>1, <1>2, <1>3, PTL DEF Spec, WalksStartOver

-----------------------------------------------------------------------------
(* With the application stopped while a command runs *)

\* A scope is open only between commands, and holds the keys that are active.
Quiet ==
  \A q \in Requests : Open(q) => /\ phase = "idle" /\ scope[q].data = active
                                 /\ scope[q].search \in {0, activeSearch}

LEMMA QuietStep ==
  ASSUME KeyAssumption, ~AppRunning, TypeOK, Quiet, [Next]_vars
  PROVE  Quiet'
<1> USE DEF keyVars, commandVars
<1>1. CASE UNCHANGED vars
  BY <1>1 DEF vars, Quiet, Open
<1>2. ASSUME NEW q \in Requests, OpenScope(q) PROVE Quiet'
  <2>1. phase' = "idle" /\ UNCHANGED <<active, activeSearch>>
        /\ scope' = [scope EXCEPT ![q] = [data |-> active, search |-> 0]]
    BY <1>2 DEF OpenScope
  <2> QED BY <2>1 DEF Quiet, Open, TypeOK
<1>3. ASSUME NEW q \in Requests, CloseScope(q) PROVE Quiet'
  <2>1. UNCHANGED <<phase, active, activeSearch>>
        /\ scope' = [scope EXCEPT ![q] = [data |-> 0, search |-> 0]]
    BY <1>3 DEF CloseScope
  <2> QED BY <2>1 DEF Quiet, Open, TypeOK
<1>4. ASSUME NEW q \in Requests, Open(q), UNCHANGED <<phase, active, activeSearch>>,
             KeepSearchKey(q) \/ UNCHANGED scope
      PROVE  Quiet'
  <2>1. SearchKeyOf(q) \in {0, activeSearch}
    BY <1>4 DEF SearchKeyOf, Quiet
  <2>2. CASE UNCHANGED scope
    BY <1>4, <2>2 DEF Quiet, Open
  <2>3. CASE scope' = [scope EXCEPT ![q].search = SearchKeyOf(q)]
    BY <1>4, <2>1, <2>3 DEF Quiet, Open, TypeOK
  <2> QED BY <1>4, <2>2, <2>3 DEF KeepSearchKey
<1>5. ASSUME NEW q \in Requests, NEW r \in Rows, NEW text \in Texts,
             Enter(q, r, text) \/ EditTransaction(q, r, text) \/ CorrectObservation(q, r, text)
      PROVE  Quiet'
  BY <1>4, <1>5 DEF Enter, EditTransaction, CorrectObservation, Store
<1>6. ASSUME NEW q \in Requests, NEW o \in Rows, NEW r \in Rows, AcceptObservation(q, o, r)
      PROVE  Quiet'
  BY <1>4, <1>6 DEF AcceptObservation, Store
<1>7. CASE Operator
  <2>1. (\A q \in Requests : ~Open(q)) /\ UNCHANGED scope
    BY <1>7 DEF Operator, StartRotation, StartReindex, StartRepair, RetireSearchKeys, Begin, MayStart
  <2> QED BY <2>1 DEF Quiet, Open
<1>8. CASE Command \/ Kill
  <2>1. phase # "idle" /\ UNCHANGED scope
    BY <1>8 DEF Command, ReadBatch, VerifyBatch, SaveBatch, EndWalk, EndVerify, Walking, Kill
  <2> QED BY <2>1 DEF Quiet, Open
<1> QED BY <1>1, <1>2, <1>3, <1>5, <1>6, <1>7, <1>8 DEF Next, Application

\* A write of the application is under the active keys.
LEMMA StoreIsLive ==
  ASSUME TypeOK, Quiet, NEW q \in Requests, Open(q)
  PROVE  scope[q].data \in keys /\ SearchKeyOf(q) \in searchKeys
BY DEF Quiet, TypeOK, SearchKeyOf

\* What a walking command has read is what the database holds.
HeldIsStored ==
  /\ phase \in {"idle", "verify"} => Held = {}
  /\ \A r \in Held : batch[r] = row[r]

LEMMA HeldStep ==
  ASSUME KeyAssumption, ~AppRunning, TypeOK, Quiet, HeldIsStored, [Next]_vars
  PROVE  HeldIsStored'
<1> USE DEF keyVars, commandVars
<1>1. CASE Application
  <2>1. \/ UNCHANGED row
        \/ phase = "idle"
    BY <1>1 DEF Application, OpenScope, CloseScope, Enter, EditTransaction, CorrectObservation,
       AcceptObservation, Quiet
  <2>2. UNCHANGED <<phase, batch>>
    BY <1>1 DEF Application, OpenScope, CloseScope, Enter, EditTransaction, CorrectObservation,
       AcceptObservation, Store
  <2> QED BY <2>1, <2>2 DEF HeldIsStored, Held
<1>2. ASSUME batch' = [r \in Rows |-> Blank] PROVE HeldIsStored'
  <2>1. Held' = {}
    BY <1>2 DEF Held, Blank
  <2> QED BY <2>1 DEF HeldIsStored
<1>3. CASE Operator
  BY <1>2, <1>3 DEF Operator, StartRotation, StartReindex, StartRepair, Begin, RetireSearchKeys,
     HeldIsStored, Held
<1>4. ASSUME NEW last \in Rows, ReadBatch(last) PROVE HeldIsStored'
  <2>1. /\ batch' = [r \in Rows |-> IF r \in Window(last) THEN row[r] ELSE Blank]
        /\ phase' \notin {"idle", "verify"} /\ row' = row
    BY <1>4 DEF ReadBatch, Walking
  <2> QED BY <2>1 DEF HeldIsStored, Held, Blank
<1>5. CASE SaveBatch \/ Kill
  BY <1>2, <1>5 DEF SaveBatch, Kill
<1>6. CASE EndWalk
  <2>1. Held = {} /\ UNCHANGED <<batch, row>>
    BY <1>6 DEF EndWalk
  <2> QED BY <2>1 DEF HeldIsStored, Held
<1>7. CASE EndVerify \/ \E last \in Rows : VerifyBatch(last)
  <2>1. phase = "verify" /\ UNCHANGED <<batch, row>>
    BY <1>7 DEF EndVerify, VerifyBatch
  <2> QED BY <2>1 DEF HeldIsStored, Held
<1>8. CASE UNCHANGED vars
  BY <1>8 DEF vars, HeldIsStored, Held
<1> QED BY <1>1, <1>3, <1>4, <1>5, <1>6, <1>7, <1>8 DEF Next, Command

\* Every row a clean verification has passed is sealed by the key it verifies.
VerifiedSoFar ==
  phase = "verify" /\ clean =>
    \A r \in Present : r <= cursor => row[r].sealed \in {0, plan.target}

LEMMA VerifiedStep ==
  ASSUME KeyAssumption, ~AppRunning, TypeOK, Quiet, VerifiedSoFar, [Next]_vars
  PROVE  VerifiedSoFar'
<1> USE DEF keyVars, commandVars
<1>1. CASE Application
  <2>1. \/ phase' = "idle"
        \/ UNCHANGED <<row, phase, plan, cursor, clean>>
    BY <1>1 DEF Application, OpenScope, CloseScope, Enter, EditTransaction, CorrectObservation,
       AcceptObservation, Store, Quiet
  <2> QED BY <2>1 DEF VerifiedSoFar, Present
<1>2. CASE Operator
  BY <1>2 DEF Operator, StartRotation, StartReindex, StartRepair, Begin, RetireSearchKeys,
     MayStart, VerifiedSoFar
<1>3. ASSUME NEW last \in Rows, ReadBatch(last) PROVE VerifiedSoFar'
  BY <1>3 DEF ReadBatch, Walking, VerifiedSoFar
<1>4. ASSUME NEW last \in Rows, VerifyBatch(last) PROVE VerifiedSoFar'
  <2>1. /\ phase = "verify" /\ cursor' = last /\ UNCHANGED <<row, plan>>
        /\ clean' => clean /\ \A r \in Window(last) :
                                row[r].label = plan.target /\ Opens(row[r], plan.target)
    BY <1>4 DEF VerifyBatch
  <2>2. SUFFICES ASSUME clean', NEW r \in Rows, row[r].text # NoText, r <= last
                 PROVE  row[r].sealed \in {0, plan.target}
    BY <2>1 DEF VerifiedSoFar, Present
  <2>3. r \in Present
    BY <2>2 DEF Present
  <2>4. CASE r <= cursor
    BY <2>1, <2>2, <2>3, <2>4 DEF VerifiedSoFar
  <2>5. CASE ~(r <= cursor)
    <3>1. r \in Window(last)
      BY <2>2, <2>3, <2>5 DEF Window, Ahead, TypeOK, KeyAssumption
    <3> QED BY <2>1, <2>2, <3>1 DEF Opens
  <2> QED BY <2>4, <2>5
<1>5. CASE SaveBatch \/ EndVerify \/ Kill
  BY <1>5 DEF SaveBatch, EndVerify, Kill, Walking, VerifiedSoFar
<1>6. CASE EndWalk
  <2>1. cursor' = 0 /\ \A r \in Rows : ~(r <= 0)
    BY <1>6 DEF EndWalk, KeyAssumption
  <2> QED BY <2>1 DEF VerifiedSoFar, Present
<1>7. CASE UNCHANGED vars
  BY <1>7 DEF vars, VerifiedSoFar, Present
<1> QED BY <1>1, <1>2, <1>3, <1>4, <1>5, <1>6, <1>7 DEF Next, Command

-----------------------------------------------------------------------------
(* Nothing is lost *)

LEMMA LostNever ==
  ASSUME KeyAssumption, ~AppRunning, TypeOK, Driven, Quiet, HeldIsStored, VerifiedSoFar,
         NothingLost, [Next]_vars
  PROVE  NothingLost'
<1> USE DEF keyVars, commandVars
<1>1. ASSUME UNCHANGED <<row, wanted>>, keys \subseteq keys' PROVE NothingLost'
  BY <1>1 DEF NothingLost, Present
<1>2. ASSUME NEW q \in Requests, NEW r \in Rows, NEW text \in Texts, NEW token \in Tokens,
             Open(q), Store(q, r, text, token)
      PROVE  NothingLost'
  <2>1. scope[q].data \in keys
    BY <1>2, StoreIsLive
  <2>2. keys' = keys
    BY <1>2 DEF Store
  <2>3. row' = [row EXCEPT ![r] = [text |-> text, label |-> UserVersion,
                                   sealed |-> scope[q].data, token |-> token]]
        /\ wanted' = [wanted EXCEPT ![r] = text]
    BY <1>2 DEF Store
  <2> QED BY <2>1, <2>2, <2>3 DEF NothingLost, Present, TypeOK
<1>3. CASE Application
  <2>1. ASSUME NEW q \in Requests, OpenScope(q) \/ CloseScope(q) PROVE NothingLost'
    BY <2>1, <1>1 DEF OpenScope, CloseScope
  <2>2. ASSUME NEW q \in Requests, NEW r \in Rows, NEW text \in Texts,
               Enter(q, r, text) \/ EditTransaction(q, r, text) \/ CorrectObservation(q, r, text)
        PROVE  NothingLost'
    <3>1. Token(SearchKeyOf(q), Domain[r], text) \in Tokens /\ row[r].token \in Tokens
      BY SearchKeyType, TokenType, ValueFacts DEF TypeOK, KeyAssumption
    <3> QED BY <2>2, <3>1, <1>2 DEF Enter, EditTransaction, CorrectObservation
  <2>3. ASSUME NEW q \in Requests, NEW o \in Rows, NEW r \in Rows, AcceptObservation(q, o, r)
        PROVE  NothingLost'
    <3>1. row[o].token \in Tokens /\ row[o].text \in Texts
      BY <2>3, ValueFacts DEF TypeOK, AcceptObservation, Present
    <3> QED BY <2>3, <3>1, <1>2 DEF AcceptObservation
  <2> QED BY <1>3, <2>1, <2>2, <2>3 DEF Application
<1>4. CASE Operator
  BY <1>1, <1>4 DEF Operator, StartRotation, StartReindex, StartRepair, Begin, RetireSearchKeys
<1>5. CASE SaveBatch
  <2>1. ASSUME NEW r \in Held
        PROVE  /\ Rewritten(r, batch[r]).text = row[r].text
               /\ Rewritten(r, batch[r]).sealed \in {0, row[r].sealed, active}
    <3> DEFINE v == batch[r]
    <3>1. r \in Rows /\ row[r] \in Values /\ v = row[r] /\ v.text = row[r].text
      BY DEF Held, HeldIsStored, TypeOK
    <3> HIDE DEF v
    <3>2. CASE phase = "rotate"
      <4>1. plan.target = active
        BY <3>2 DEF Driven
      <4> QED BY <3>1, <3>2, <4>1 DEF Rewritten, Rotated, v
    <3>3. CASE phase = "reindex"
      BY <3>1, <3>3 DEF Rewritten, Reindexed, Values, v
    <3>4. CASE phase = "seal"
      <4>1. plan.dataKey = active
        BY <3>4 DEF Driven
      <4> QED BY <3>1, <3>4, <4>1 DEF Rewritten, Sealed, Values, v
    <3>5. CASE phase = "backfill"
      BY <3>1, <3>5 DEF Rewritten, Backfilled, Values, v
    <3> QED BY <1>5, <3>2, <3>3, <3>4, <3>5 DEF SaveBatch, Walking, Phases
  <2>2. \A r \in Held : r \in Present
    BY DEF Held, HeldIsStored, Present
  <2>3. /\ row' = [r \in Rows |-> IF r \in Held THEN Rewritten(r, batch[r]) ELSE row[r]]
        /\ wanted' = wanted /\ keys' = keys
    BY <1>5 DEF SaveBatch
  <2>4. active \in keys
    BY DEF TypeOK
  <2>5. SUFFICES ASSUME NEW r \in Rows, row'[r].text # NoText
                 PROVE  row'[r].text = wanted[r] /\ row'[r].sealed \in keys \cup {0}
    BY <2>3 DEF NothingLost, Present
  <2>6. CASE r \in Held
    BY <2>1, <2>2, <2>3, <2>4, <2>6 DEF NothingLost
  <2>7. CASE r \notin Held
    BY <2>3, <2>5, <2>7 DEF NothingLost, Present
  <2> QED BY <2>6, <2>7
<1>6. CASE EndVerify
  <2>1. CASE clean /\ plan.retire
    <3>1. phase = "verify" /\ plan.target = active /\ active \in keys
          /\ active \in Nat /\ keys' = keys \ {k \in keys : k < active}
      BY <1>6, <2>1 DEF EndVerify, Superseded, Driven, TypeOK
    <3>2. \A r \in Present : r <= cursor
      BY <1>6 DEF EndVerify, Ahead, Present, TypeOK, KeyAssumption
    <3>3. \A r \in Present : row[r].sealed \in {0, active}
      BY <2>1, <3>1, <3>2 DEF VerifiedSoFar
    <3>4. active \in keys'
      BY <3>1
    <3> QED BY <1>6, <3>3, <3>4 DEF EndVerify, NothingLost, Present
  <2>2. CASE ~(clean /\ plan.retire)
    BY <1>1, <1>6, <2>2 DEF EndVerify, Superseded
  <2> QED BY <2>1, <2>2
<1>7. CASE EndWalk \/ Kill \/ \E last \in Rows : ReadBatch(last) \/ VerifyBatch(last)
  BY <1>1, <1>7 DEF EndWalk, Kill, ReadBatch, VerifyBatch
<1>8. CASE UNCHANGED vars
  BY <1>1, <1>8 DEF vars
<1> QED BY <1>3, <1>4, <1>5, <1>6, <1>7, <1>8 DEF Next, Command

Safe == TypeOK /\ Driven /\ Quiet /\ HeldIsStored /\ VerifiedSoFar

LEMMA SafeAlways ==
  ASSUME KeyAssumption, ~AppRunning
  PROVE  Spec => []Safe
<1>1. Init => Safe
  <2>1. Init => Driven /\ Quiet /\ VerifiedSoFar
    BY DEF Init, Driven, Quiet, Open, VerifiedSoFar
  <2>2. Init => HeldIsStored
    BY DEF Init, HeldIsStored, Held, Blank
  <2> QED BY <2>1, <2>2, TypeInit DEF Safe
<1>2. Safe /\ [Next]_vars => Safe'
  BY TypeStep, DrivenStep, QuietStep, HeldStep, VerifiedStep DEF Safe
<1> QED BY <1>1, <1>2, PTL DEF Spec

\* While the application is stopped for a command, as the runbook says, no
\* rotation, killed anywhere and run again any number of times, with or without
\* --retire, loses a value or the key that opens it.
THEOREM NothingIsLost ==
  ASSUME KeyAssumption, ~AppRunning
  PROVE  Spec => []NothingLost
<1>1. Init => NothingLost
  <2>1. Init => \A r \in Rows : row[r].sealed = 0 /\ wanted[r] = row[r].text
    BY DEF Init, Blank, Legacy
  <2> QED BY <2>1 DEF NothingLost, Present
<1>2. Safe /\ NothingLost /\ [Next]_vars => NothingLost'
  BY LostNever DEF Safe
<1> QED BY <1>1, <1>2, SafeAlways, PTL DEF Spec

LEMMA TokensStep ==
  ASSUME KeyAssumption, ~AppRunning, Safe, TokensUnderLiveKeys, [Next]_vars
  PROVE  TokensUnderLiveKeys'
<1> USE DEF keyVars, commandVars
<1>1. ASSUME UNCHANGED row, searchKeys \subseteq searchKeys' PROVE TokensUnderLiveKeys'
  BY <1>1 DEF TokensUnderLiveKeys, Present
<1>2. \A d, t : \A key \in searchKeys : Token(key, d, t).key \in searchKeys
  BY DEF Token
<1>3. ASSUME NEW q \in Requests, NEW r \in Rows, NEW text \in Texts, NEW token,
             Store(q, r, text, token), Indexed(r) /\ token # NoToken => token.key \in searchKeys
      PROVE  TokensUnderLiveKeys'
  <2>1. searchKeys' = searchKeys
    BY <1>3 DEF Store
  <2>2. row' = [row EXCEPT ![r] = [text |-> text, label |-> UserVersion,
                                   sealed |-> scope[q].data, token |-> token]]
    BY <1>3 DEF Store
  <2> QED BY <1>3, <2>1, <2>2 DEF TokensUnderLiveKeys, Present, Safe, TypeOK
<1>4. CASE Application
  <2>1. ASSUME NEW q \in Requests, OpenScope(q) \/ CloseScope(q) PROVE TokensUnderLiveKeys'
    BY <2>1, <1>1 DEF OpenScope, CloseScope
  <2>2. ASSUME NEW q \in Requests, NEW r \in Rows, NEW text \in Texts,
               Enter(q, r, text) \/ EditTransaction(q, r, text)
        PROVE  TokensUnderLiveKeys'
    <3>1. SearchKeyOf(q) \in searchKeys
      BY <2>2, StoreIsLive DEF Safe, Enter, EditTransaction
    <3> QED BY <2>2, <3>1, <1>2, <1>3 DEF Enter, EditTransaction
  <2>3. ASSUME NEW q \in Requests, NEW r \in Rows, NEW text \in Texts, CorrectObservation(q, r, text)
        PROVE  TokensUnderLiveKeys'
    BY <2>3, <1>3 DEF CorrectObservation, TokensUnderLiveKeys
  <2>4. ASSUME NEW q \in Requests, NEW o \in Rows, NEW r \in Rows, AcceptObservation(q, o, r)
        PROVE  TokensUnderLiveKeys'
    <3>1. Indexed(o) /\ o \in Present /\ row[o].text \in Texts
      BY <2>4, ValueFacts DEF AcceptObservation, Indexed, Present, Safe, TypeOK
    <3> QED BY <2>4, <3>1, <1>3 DEF AcceptObservation, TokensUnderLiveKeys
  <2> QED BY <1>4, <2>1, <2>2, <2>3, <2>4 DEF Application
<1>5. CASE RetireSearchKeys
  <2>1. /\ StaleTokens = {} /\ row' = row
        /\ searchKeys' = {k \in searchKeys : k >= activeSearch}
    BY <1>5 DEF RetireSearchKeys
  <2>2. activeSearch \in searchKeys'
    BY <2>1 DEF Safe, TypeOK, KeyAssumption
  <2>3. \A r \in Present : Indexed(r) /\ row[r].token # NoToken => row[r].token.key = activeSearch
    BY <2>1 DEF StaleTokens, TokenIsAt
  <2> QED BY <2>1, <2>2, <2>3 DEF TokensUnderLiveKeys, Present
<1>6. CASE StartReindex \/ (\E retire \in BOOLEAN : StartRotation(retire))
           \/ (\E p \in {"seal", "backfill"} : StartRepair(p))
  BY <1>1, <1>6 DEF StartReindex, StartRotation, StartRepair, Begin
<1>7. CASE SaveBatch
  <2>1. plan.searchKey \in searchKeys /\ phase \in {"rotate", "reindex", "seal", "backfill"}
    BY <1>7 DEF SaveBatch, Walking, Phases, Safe, Driven, TypeOK
  <2>2. ASSUME NEW r \in Held
        PROVE  \/ Rewritten(r, batch[r]).token = row[r].token
               \/ Rewritten(r, batch[r]).token.key \in searchKeys
    <3> DEFINE v == batch[r]
    <3>1. r \in Rows /\ row[r] \in Values
      BY DEF Held, Safe, TypeOK
    <3> HIDE DEF v
    <3>2. Rotated(r, v).token = row[r].token \/ Rotated(r, v).token.key \in searchKeys
      BY <2>1, <1>2 DEF Rotated
    <3>3. /\ Reindexed(r, v).token = row[r].token \/ Reindexed(r, v).token.key \in searchKeys
          /\ Backfilled(r, v).token = row[r].token \/ Backfilled(r, v).token.key \in searchKeys
      BY <2>1, <3>1, <1>2 DEF Reindexed, Backfilled, Values
    <3>4. Sealed(r, v).token = row[r].token
      BY <3>1 DEF Sealed, Values
    <3> QED BY <2>1, <3>2, <3>3, <3>4 DEF Rewritten, v
  <2>3. /\ row' = [r \in Rows |-> IF r \in Held THEN Rewritten(r, batch[r]) ELSE row[r]]
        /\ searchKeys' = searchKeys
    BY <1>7 DEF SaveBatch
  <2>4. \A r \in Held : r \in Present
    BY DEF Safe, Held, HeldIsStored, Present
  <2>5. SUFFICES ASSUME NEW r \in Rows, row'[r].text # NoText, Indexed(r), row'[r].token # NoToken
                 PROVE  row'[r].token.key \in searchKeys
    BY <2>3 DEF TokensUnderLiveKeys, Present
  <2>6. CASE r \in Held
    BY <2>2, <2>3, <2>4, <2>5, <2>6 DEF TokensUnderLiveKeys
  <2>7. CASE r \notin Held
    BY <2>3, <2>5, <2>7 DEF TokensUnderLiveKeys, Present
  <2> QED BY <2>6, <2>7
<1>8. CASE EndWalk \/ EndVerify \/ Kill \/ \E last \in Rows : ReadBatch(last) \/ VerifyBatch(last)
  BY <1>1, <1>8 DEF EndWalk, EndVerify, Kill, ReadBatch, VerifyBatch
<1>9. CASE UNCHANGED vars
  BY <1>1, <1>9 DEF vars
<1> QED BY <1>4, <1>5, <1>6, <1>7, <1>8, <1>9 DEF Next, Operator, Command

\* With the application stopped for a command, rotate_search_key --retire never
\* removes a key that a token of an indexed column was made with.
THEOREM TokensStayUnderLiveKeys ==
  ASSUME KeyAssumption, ~AppRunning
  PROVE  Spec => []TokensUnderLiveKeys
<1>1. ASSUME Init PROVE TokensUnderLiveKeys
  <2>1. \A r \in Rows : row[r].token = NoToken
    BY <1>1 DEF Init, Blank, Legacy
  <2> QED BY <2>1 DEF TokensUnderLiveKeys, Present
<1>2. Safe /\ TokensUnderLiveKeys /\ [Next]_vars => TokensUnderLiveKeys'
  BY TokensStep
<1> QED BY <1>1, <1>2, SafeAlways, PTL DEF Spec

-----------------------------------------------------------------------------
(* After an uninterrupted command, everything is under the active keys *)

\* What a request writes while the application runs: an envelope under the active
\* key, and a token it made itself or took from another value of the same domain.
Writes(r, v) ==
  /\ row' = [row EXCEPT ![r] = v]
  /\ v.label = UserVersion /\ v.sealed = active
  /\ Indexed(r) => \/ v.token = Token(activeSearch, Domain[r], v.text)
                   \/ \E o \in Present : Indexed(o) /\ Domain[o] = Domain[r]
                                          /\ v.token = row[o].token

LEMMA RequestWrites ==
  ASSUME KeyAssumption, ~AppRunning, Safe, Application
  PROVE  /\ UNCHANGED <<keyVars, commandVars, broken>>
         /\ \/ UNCHANGED row
            \/ phase = "idle" /\ \E r \in Rows, v \in Values : Writes(r, v)
<1>1. UNCHANGED <<keyVars, commandVars, broken>>
  BY DEF Application, OpenScope, CloseScope, Enter, EditTransaction, CorrectObservation,
     AcceptObservation, Store
<1>2. ASSUME NEW q \in Requests, NEW r \in Rows, NEW text \in Texts, NEW token \in Tokens,
             Open(q), Store(q, r, text, token),
             Indexed(r) => \/ token = Token(activeSearch, Domain[r], text)
                           \/ \E o \in Present : Indexed(o) /\ Domain[o] = Domain[r]
                                                  /\ token = row[o].token
      PROVE  phase = "idle" /\ \E x \in Rows, v \in Values : Writes(x, v)
  <2> DEFINE v == [text |-> text, label |-> UserVersion, sealed |-> scope[q].data, token |-> token]
  <2>1. phase = "idle" /\ scope[q].data = active /\ active \in Nat
    BY <1>2 DEF Safe, Quiet, TypeOK
  <2>2. /\ v \in Values /\ v.label = UserVersion /\ v.sealed = active /\ v.token = token
        /\ v.text = text
    BY <2>1 DEF Values, UserVersion
  <2>3. row' = [row EXCEPT ![r] = v]
    BY <1>2 DEF Store
  <2> HIDE DEF v
  <2>4. Writes(r, v)
    BY <1>2, <2>2, <2>3 DEF Writes
  <2> QED BY <2>1, <2>2, <2>4
<1>3. ASSUME NEW q \in Requests, Open(q) PROVE SearchKeyOf(q) = activeSearch
  BY <1>3 DEF Safe, Quiet, SearchKeyOf
<1>4. ASSUME NEW q \in Requests, NEW r \in Rows, NEW text \in Texts,
             Enter(q, r, text) \/ EditTransaction(q, r, text)
      PROVE  phase = "idle" /\ \E x \in Rows, v \in Values : Writes(x, v)
  <2>1. Token(SearchKeyOf(q), Domain[r], text) \in Tokens
    BY SearchKeyType, TokenType DEF Safe, KeyAssumption
  <2> QED BY <1>2, <1>3, <1>4, <2>1 DEF Enter, EditTransaction
<1>5. ASSUME NEW q \in Requests, NEW r \in Rows, NEW text \in Texts, CorrectObservation(q, r, text)
      PROVE  phase = "idle" /\ \E x \in Rows, v \in Values : Writes(x, v)
  <2>1. row[r].token \in Tokens
    BY ValueFacts DEF Safe, TypeOK
  <2> QED BY <1>2, <1>5, <2>1 DEF CorrectObservation
<1>6. ASSUME NEW q \in Requests, NEW o \in Rows, NEW r \in Rows, AcceptObservation(q, o, r)
      PROVE  phase = "idle" /\ \E x \in Rows, v \in Values : Writes(x, v)
  <2>1. row[o].token \in Tokens /\ row[o].text \in Texts /\ Indexed(o) /\ o \in Present
        /\ Domain[o] = Domain[r]
    BY <1>6, ValueFacts DEF Safe, TypeOK, AcceptObservation, Present, Indexed
  <2> QED BY <1>2, <1>6, <2>1 DEF AcceptObservation
<1>7. ASSUME NEW q \in Requests, OpenScope(q) \/ CloseScope(q) PROVE UNCHANGED row
  BY <1>7 DEF OpenScope, CloseScope
<1> QED BY <1>1, <1>4, <1>5, <1>6, <1>7 DEF Application

\* A batch is a stretch of rows: none behind the cursor, none left out.
Windowed == \A h \in Held : h \in Ahead /\ Window(h) \subseteq Held

LEMMA WindowedStep ==
  ASSUME KeyAssumption, ~AppRunning, Safe, Windowed, [Next]_vars
  PROVE  Windowed'
<1> USE DEF keyVars, commandVars
<1>1. ASSUME Held' = {} PROVE Windowed'
  BY <1>1 DEF Windowed
<1>2. ASSUME batch' = [r \in Rows |-> Blank] PROVE Windowed'
  BY <1>1, <1>2 DEF Held, Blank
<1>3. ASSUME Held = {}, UNCHANGED batch PROVE Windowed'
  BY <1>1, <1>3 DEF Held
<1>4. CASE Application
  <2>1. CASE UNCHANGED row
    BY <1>4, <2>1, RequestWrites DEF Windowed, Held, Ahead, Window, Present
  <2>2. CASE phase = "idle"
    BY <1>3, <1>4, <2>2, RequestWrites DEF Safe, HeldIsStored
  <2> QED BY <1>4, <2>1, <2>2, RequestWrites
<1>5. CASE Operator
  <2>1. CASE RetireSearchKeys
    BY <2>1 DEF RetireSearchKeys, Windowed, Held, Ahead, Window, Present
  <2> QED BY <1>2, <1>5, <2>1 DEF Operator, StartRotation, StartReindex, StartRepair, Begin
<1>6. ASSUME NEW last \in Rows, ReadBatch(last) PROVE Windowed'
  <2>1. /\ batch' = [r \in Rows |-> IF r \in Window(last) THEN row[r] ELSE Blank]
        /\ UNCHANGED <<row, cursor>> /\ last \in Rows
    BY <1>6 DEF ReadBatch
  <2>2. \A r \in Rows : r \in Window(last) => row[r].text # NoText
    BY DEF Window, Ahead, Present
  <2>3. Held' = Window(last) /\ Ahead' = Ahead
    BY <2>1, <2>2 DEF Held, Blank, Window, Ahead, Present
  <2>4. \A h \in Window(last), r \in Ahead : r <= h => r \in Window(last)
    BY DEF Window, Ahead, Present, KeyAssumption
  <2>5. \A h \in Held' : h \in Ahead'
    BY <2>3 DEF Window
  <2>6. \A h \in Held' : Window(h)' \subseteq Held'
    BY <2>3, <2>4 DEF Window
  <2> QED BY <2>5, <2>6 DEF Windowed
<1>7. CASE SaveBatch \/ Kill
  BY <1>2, <1>7 DEF SaveBatch, Kill
<1>8. CASE EndWalk
  BY <1>3, <1>8 DEF EndWalk
<1>9. CASE EndVerify \/ \E last \in Rows : VerifyBatch(last)
  BY <1>3, <1>9 DEF EndVerify, VerifyBatch, Safe, HeldIsStored
<1>10. CASE UNCHANGED vars
  BY <1>10 DEF vars, Windowed, Held, Ahead, Window, Present
<1> QED BY <1>4, <1>5, <1>6, <1>7, <1>8, <1>9, <1>10 DEF Next, Command

\* Saving a batch moves the cursor to its end: every row there is was in the
\* batch, or was dealt with before, or comes later.
LEMMA SavedBatch ==
  ASSUME KeyAssumption, Safe, Windowed, SaveBatch
  PROVE  /\ cursor' \in Nat /\ cursor < cursor' /\ Present' = Present
         /\ \A r \in Held : r > cursor /\ r <= cursor'
         /\ \A r \in Present \ Held : r <= cursor \/ r > cursor'
         /\ \A r \in Rows : row'[r] = IF r \in Held THEN Rewritten(r, row[r]) ELSE row[r]
<1>1. PICK last \in Held : (\A r \in Held : r <= last) /\ cursor' = last
  BY DEF SaveBatch
<1>2. cursor \in Nat /\ Rows \subseteq Nat /\ Held \subseteq Rows
  BY DEF Safe, TypeOK, KeyAssumption, Held
<1>3. last \in Ahead /\ Window(last) \subseteq Held /\ \A r \in Held : r \in Ahead
  BY DEF Windowed
<1>4. \A r \in Rows : row'[r] = IF r \in Held THEN Rewritten(r, row[r]) ELSE row[r]
  BY DEF SaveBatch, Safe, HeldIsStored
<1>5. \A r \in Present \ Held : r <= cursor \/ r > last
  BY <1>2, <1>3 DEF Window, Ahead, Present
<1>6. \A r \in Held : Rewritten(r, row[r]).text = row[r].text
  <2> SUFFICES ASSUME NEW r \in Held PROVE Rewritten(r, row[r]).text = row[r].text
    OBVIOUS
  <2>1. row[r] \in Values
    BY <1>2 DEF Safe, TypeOK
  <2>2. phase \in {"rotate", "reindex", "seal", "backfill"}
    BY DEF SaveBatch, Walking, Phases, Safe, TypeOK
  <2>3. Rotated(r, row[r]).text = row[r].text
    BY <2>1 DEF Rotated, Values
  <2>4. Reindexed(r, row[r]).text = row[r].text /\ Backfilled(r, row[r]).text = row[r].text
    BY <2>1 DEF Reindexed, Backfilled, Values
  <2>5. Sealed(r, row[r]).text = row[r].text
    BY <2>1 DEF Sealed, Values
  <2> QED BY <2>2, <2>3, <2>4, <2>5 DEF Rewritten
<1>7. Present' = Present
  BY <1>4, <1>6 DEF Present
<1>8. cursor' \in Nat /\ cursor < cursor' /\ \A r \in Held : r > cursor /\ r <= cursor'
  BY <1>1, <1>2, <1>3 DEF Ahead
<1> QED BY <1>1, <1>4, <1>5, <1>7, <1>8

\* Rows a rotation has not come to yet.
Waiting(r) == phase = "rotate" /\ r > cursor

\* No envelope states a version that does not exist, and those a rotation has
\* not come to state an older one than its own.
Labels == \A r \in Rows : row[r].label <= active /\ (Waiting(r) => row[r].label < active)

\* Every row is sealed by the active key or, if a rotation has still to come to
\* it, by the key that rotation holds.
SealedSoFar ==
  ~broken => \A r \in Present :
    row[r].sealed \in {0, IF Waiting(r) THEN plan.dataKey ELSE active}

\* Every token is in the domain of its column and, unless a reindexing has still
\* to come to it, under the active search key.
IndexedSoFar ==
  ~broken => \A r \in Present : Indexed(r) /\ row[r].token # NoToken =>
    /\ row[r].token.domain = Domain[r]
    /\ (phase = "reindex" /\ r > cursor) \/ row[r].token.key = activeSearch

LEMMA LabelsStep ==
  ASSUME KeyAssumption, ~AppRunning, Safe, Behind, Windowed, Labels, [Next]_vars
  PROVE  Labels'
<1> USE DEF keyVars, commandVars
<1>1. /\ active \in Nat /\ active >= 1 /\ cursor \in Nat /\ row \in [Rows -> Values]
      /\ Rows \subseteq Nat /\ \A r \in Rows : row[r].label \in Nat
  BY DEF Safe, TypeOK, KeyAssumption, Values
<1>2. ASSUME UNCHANGED <<row, active>>, phase' # "rotate" PROVE Labels'
  BY <1>2 DEF Labels, Waiting
<1>3. ASSUME UNCHANGED <<row, active, phase, cursor>> PROVE Labels'
  BY <1>3 DEF Labels, Waiting
<1>4. CASE Application
  <2>1. UNCHANGED <<active, phase, cursor>>
    BY <1>4, RequestWrites
  <2>2. ASSUME NEW r \in Rows, NEW v \in Values, Writes(r, v), phase = "idle" PROVE Labels'
    BY <1>1, <2>1, <2>2 DEF Labels, Waiting, Writes, UserVersion
  <2> QED BY <1>3, <1>4, <2>1, <2>2, RequestWrites
<1>5. ASSUME NEW retire \in BOOLEAN, StartRotation(retire) PROVE Labels'
  <2>1. active' = active + 1 /\ row' = row
    BY <1>5 DEF StartRotation, Begin
  <2> QED BY <1>1, <2>1 DEF Labels
<1>6. CASE StartReindex \/ RetireSearchKeys \/ \E p \in {"seal", "backfill"} : StartRepair(p)
  BY <1>2, <1>6 DEF StartReindex, RetireSearchKeys, StartRepair, Begin, MayStart
<1>7. ASSUME NEW last \in Rows, ReadBatch(last) \/ VerifyBatch(last) PROVE Labels'
  BY <1>2, <1>3, <1>7 DEF ReadBatch, VerifyBatch
<1>8. CASE SaveBatch
  <2>1. /\ active' = active /\ phase' = phase /\ plan' = plan
        /\ phase \in {"rotate", "reindex", "seal", "backfill"}
    BY <1>8 DEF SaveBatch, Walking, Phases, Safe, TypeOK
  <2>2. SUFFICES ASSUME NEW r \in Rows
                 PROVE  row'[r].label <= active /\ (Waiting(r)' => row'[r].label < active)
    BY <2>1 DEF Labels
  <2>3. Waiting(r)' => Waiting(r) /\ r \notin Held
    BY <1>1, <1>8, <2>1, SavedBatch DEF Waiting
  <2>4. CASE r \notin Held
    BY <1>8, <2>3, <2>4, SavedBatch DEF Labels
  <2>5. CASE r \in Held
    <3>1. row'[r] = Rewritten(r, row[r]) /\ row[r] \in Values /\ row[r].label <= active
      BY <1>1, <1>8, <2>5, SavedBatch DEF Labels
    <3>2. phase = "rotate" => plan.target = active
      BY DEF Safe, Driven
    <3>3. Rotated(r, row[r]).label \in {row[r].label, plan.target}
      BY <3>1 DEF Rotated, Values
    <3>4. /\ Reindexed(r, row[r]).label = row[r].label
          /\ Backfilled(r, row[r]).label = row[r].label
      BY <3>1 DEF Reindexed, Backfilled, Values
    <3>5. Sealed(r, row[r]).label \in {row[r].label, 1}
      BY <3>1 DEF Sealed, Values, UserVersion
    <3>6. row'[r].label \in {row[r].label, 1, active}
      BY <2>1, <3>1, <3>2, <3>3, <3>4, <3>5 DEF Rewritten
    <3> QED BY <1>1, <2>3, <2>5, <3>1, <3>6
  <2> QED BY <2>4, <2>5
<1>9. CASE EndWalk \/ EndVerify \/ Kill
  BY <1>2, <1>9 DEF EndWalk, EndVerify, Kill
<1>10. CASE UNCHANGED vars
  BY <1>3, <1>10 DEF vars
<1> QED BY <1>4, <1>5, <1>6, <1>7, <1>8, <1>9, <1>10 DEF Next, Operator, Command

\* What starts now starts at the first row.
LEMMA StartsAtFirst ==
  ASSUME KeyAssumption, Safe, Behind, [Next]_vars, phase = "idle", phase' # "idle"
  PROVE  \A r \in Rows : r > cursor'
<1>1. cursor' = 0
  BY StartsOver DEF Safe
<1> QED BY <1>1 DEF KeyAssumption

LEMMA SealedStep ==
  ASSUME KeyAssumption, ~AppRunning, Safe, Behind, Windowed, Labels, SealedSoFar, [Next]_vars
  PROVE  SealedSoFar'
<1> USE DEF keyVars, commandVars
<1>1. /\ active \in Nat /\ cursor \in Nat /\ row \in [Rows -> Values] /\ Rows \subseteq Nat
      /\ Present \subseteq Rows
  BY DEF Safe, TypeOK, KeyAssumption, Present
<1>2. ASSUME UNCHANGED <<row, active, phase, plan, cursor, broken>> PROVE SealedSoFar'
  BY <1>2 DEF SealedSoFar, Waiting, Present
<1>3. ASSUME UNCHANGED <<row, active, broken>>, phase' # "rotate",
             \A r \in Present : ~Waiting(r)
      PROVE  SealedSoFar'
  BY <1>3 DEF SealedSoFar, Waiting, Present
<1>4. CASE Application
  <2>1. UNCHANGED <<active, phase, plan, cursor, broken>>
    BY <1>4, RequestWrites
  <2>2. ASSUME NEW r \in Rows, NEW v \in Values, Writes(r, v), phase = "idle" PROVE SealedSoFar'
    BY <1>1, <2>1, <2>2 DEF SealedSoFar, Waiting, Writes, Present
  <2> QED BY <1>2, <1>4, <2>1, <2>2, RequestWrites
<1>5. ASSUME NEW retire \in BOOLEAN, StartRotation(retire) PROVE SealedSoFar'
  <2>1. /\ phase = "idle" /\ phase' = "rotate" /\ plan'.dataKey = active
        /\ UNCHANGED <<row, broken>>
    BY <1>5 DEF StartRotation, Begin, MayStart
  <2>2. \A r \in Rows : Waiting(r)' /\ ~Waiting(r)
    BY <2>1, StartsAtFirst DEF Waiting
  <2> QED BY <1>1, <2>1, <2>2 DEF SealedSoFar, Present
<1>6. CASE StartReindex \/ RetireSearchKeys \/ \E p \in {"seal", "backfill"} : StartRepair(p)
  <2>1. /\ phase = "idle" /\ UNCHANGED <<row, active, broken>> /\ phase' # "rotate"
    BY <1>6 DEF StartReindex, RetireSearchKeys, StartRepair, Begin, MayStart
  <2> QED BY <1>3, <2>1 DEF Waiting
<1>7. ASSUME NEW last \in Rows, ReadBatch(last) PROVE SealedSoFar'
  BY <1>2, <1>7 DEF ReadBatch
<1>8. CASE EndVerify \/ \E last \in Rows : VerifyBatch(last)
  <2>1. /\ phase = "verify" /\ phase' # "rotate" /\ UNCHANGED <<row, active, broken>>
    BY <1>8 DEF EndVerify, VerifyBatch
  <2> QED BY <1>3, <2>1 DEF Waiting
<1>9. CASE SaveBatch
  <2>1. /\ UNCHANGED <<active, phase, plan, broken>>
        /\ phase \in {"rotate", "reindex", "seal", "backfill"}
    BY <1>9 DEF SaveBatch, Walking, Phases, Safe, TypeOK
  <2>2. SUFFICES ASSUME ~broken, NEW r \in Present
                 PROVE  row'[r].sealed \in {0, IF Waiting(r)' THEN plan.dataKey ELSE active}
    BY <1>9, <2>1, SavedBatch DEF SealedSoFar
  <2>3. row[r].sealed \in {0, IF Waiting(r) THEN plan.dataKey ELSE active}
    BY <2>2 DEF SealedSoFar
  <2>4. CASE r \notin Held
    <3>1. Waiting(r)' <=> Waiting(r)
      BY <1>1, <1>9, <2>1, <2>4, SavedBatch DEF Waiting
    <3> QED BY <1>1, <1>9, <2>3, <2>4, <3>1, SavedBatch
  <2>5. CASE r \in Held
    <3>1. /\ row'[r] = Rewritten(r, row[r]) /\ row[r] \in Values
          /\ ~Waiting(r)' /\ (Waiting(r) <=> phase = "rotate")
      BY <1>1, <1>9, <2>1, <2>5, SavedBatch DEF Waiting
    <3>2. CASE phase = "rotate"
      <4>1. plan.target = active /\ row[r].label # active
        BY <1>1, <3>1, <3>2 DEF Safe, Driven, Labels, TypeOK, Values
      <4>2. Opens(row[r], plan.dataKey)
        BY <2>3, <3>1, <3>2 DEF Opens
      <4>3. Rewritten(r, row[r]).sealed = active
        BY <3>2, <4>1, <4>2 DEF Rewritten, Rotated
      <4> QED BY <3>1, <4>3
    <3>3. CASE phase = "seal"
      <4>1. plan.dataKey = active /\ row[r].sealed \in {0, active}
        BY <2>3, <3>1, <3>3 DEF Safe, Driven
      <4>2. Sealed(r, row[r]).sealed \in {row[r].sealed, plan.dataKey}
        BY <3>1 DEF Sealed, Values
      <4> QED BY <3>1, <3>3, <4>1, <4>2 DEF Rewritten
    <3>4. CASE phase \in {"reindex", "backfill"}
      <4>1. /\ Reindexed(r, row[r]).sealed = row[r].sealed
            /\ Backfilled(r, row[r]).sealed = row[r].sealed
        BY <3>1 DEF Reindexed, Backfilled, Values
      <4> QED BY <2>3, <3>1, <3>4, <4>1 DEF Rewritten
    <3> QED BY <2>1, <3>2, <3>3, <3>4
  <2> QED BY <2>4, <2>5
<1>10. CASE EndWalk
  <2>1. UNCHANGED <<row, active, broken>> /\ phase' # "rotate" /\ Ahead = {}
    BY <1>10 DEF EndWalk
  <2>2. \A r \in Present : ~Waiting(r)
    BY <2>1 DEF Ahead, Waiting
  <2> QED BY <1>3, <2>1, <2>2
<1>11. CASE Kill
  BY <1>11 DEF Kill, SealedSoFar
<1>12. CASE UNCHANGED vars
  BY <1>2, <1>12 DEF vars
<1> QED
  BY <1>4, <1>5, <1>6, <1>7, <1>8, <1>9, <1>10, <1>11, <1>12 DEF Next, Operator, Command

LEMMA IndexedStep ==
  ASSUME KeyAssumption, ~AppRunning, Safe, Behind, Windowed, SealedSoFar, IndexedSoFar,
         [Next]_vars
  PROVE  IndexedSoFar'
<1> USE DEF keyVars, commandVars
<1>1. /\ active \in Nat /\ cursor \in Nat /\ row \in [Rows -> Values] /\ Rows \subseteq Nat
      /\ Present \subseteq Rows
  BY DEF Safe, TypeOK, KeyAssumption, Present
<1>2. \A key, d, t : Token(key, d, t).key = key /\ Token(key, d, t).domain = d
  BY DEF Token
<1>3. ASSUME UNCHANGED <<row, activeSearch, phase, cursor, broken>> PROVE IndexedSoFar'
  BY <1>3 DEF IndexedSoFar, Present, Indexed
<1>4. ASSUME UNCHANGED <<row, activeSearch, broken>>,
             \A r \in Present : ~(phase = "reindex" /\ r > cursor)
      PROVE  IndexedSoFar'
  BY <1>4 DEF IndexedSoFar, Present, Indexed
<1>5. CASE Application
  <2>1. UNCHANGED <<activeSearch, phase, cursor, broken>>
    BY <1>5, RequestWrites
  <2>2. ASSUME NEW r \in Rows, NEW v \in Values, Writes(r, v), phase = "idle" PROVE IndexedSoFar'
    <3>1. SUFFICES ASSUME ~broken, NEW x \in Rows, row'[x].text # NoText, Indexed(x),
                          row'[x].token # NoToken
                   PROVE  row'[x].token.domain = Domain[x] /\ row'[x].token.key = activeSearch
      BY <2>1 DEF IndexedSoFar, Present, Indexed
    <3>2. \A o \in Present : Indexed(o) /\ row[o].token # NoToken =>
            row[o].token.domain = Domain[o] /\ row[o].token.key = activeSearch
      BY <2>2, <3>1 DEF IndexedSoFar
    <3>3. CASE x = r
      <4>1. row'[x] = v
        BY <1>1, <2>2, <3>3 DEF Writes
      <4>2. CASE v.token = Token(activeSearch, Domain[r], v.text)
        BY <1>2, <3>3, <4>1, <4>2
      <4>3. CASE \E o \in Present : Indexed(o) /\ Domain[o] = Domain[r] /\ v.token = row[o].token
        BY <3>1, <3>2, <3>3, <4>1, <4>3
      <4> QED BY <2>2, <3>1, <3>3, <4>2, <4>3 DEF Writes
    <3>4. CASE x # r
      <4>1. row'[x] = row[x]
        BY <1>1, <2>2, <3>4 DEF Writes
      <4> QED BY <3>1, <3>2, <4>1 DEF Present
    <3> QED BY <3>3, <3>4
  <2> QED BY <1>3, <1>5, <2>1, <2>2, RequestWrites
<1>6. CASE StartReindex
  <2>1. /\ phase = "idle" /\ phase' = "reindex" /\ UNCHANGED <<row, broken>>
    BY <1>6 DEF StartReindex, Begin, MayStart
  <2>2. \A r \in Rows : r > cursor'
    BY <2>1, StartsAtFirst
  <2> QED BY <1>1, <2>1, <2>2 DEF IndexedSoFar, Present, Indexed
<1>7. CASE RetireSearchKeys \/ (\E retire \in BOOLEAN : StartRotation(retire))
           \/ (\E p \in {"seal", "backfill"} : StartRepair(p))
  <2>1. phase = "idle" /\ UNCHANGED <<row, activeSearch, broken>>
    BY <1>7 DEF RetireSearchKeys, StartRotation, StartRepair, Begin, MayStart
  <2> QED BY <1>4, <2>1
<1>8. ASSUME NEW last \in Rows, ReadBatch(last) PROVE IndexedSoFar'
  BY <1>3, <1>8 DEF ReadBatch
<1>9. CASE EndVerify \/ \E last \in Rows : VerifyBatch(last)
  <2>1. phase = "verify" /\ UNCHANGED <<row, activeSearch, broken>>
    BY <1>9 DEF EndVerify, VerifyBatch
  <2> QED BY <1>4, <2>1
<1>10. CASE SaveBatch
  <2>1. /\ UNCHANGED <<activeSearch, phase, broken>>
        /\ phase \in {"rotate", "reindex", "seal", "backfill"}
        /\ plan.searchKey = activeSearch
    BY <1>10 DEF SaveBatch, Walking, Phases, Safe, TypeOK, Driven
  <2>2. SUFFICES ASSUME ~broken, NEW r \in Present, Indexed(r), row'[r].token # NoToken
                 PROVE  /\ row'[r].token.domain = Domain[r]
                        /\ (phase = "reindex" /\ r > cursor') \/ row'[r].token.key = activeSearch
    BY <1>10, <2>1, SavedBatch DEF IndexedSoFar, Indexed
  <2>3. row[r].token # NoToken =>
          /\ row[r].token.domain = Domain[r]
          /\ (phase = "reindex" /\ r > cursor) \/ row[r].token.key = activeSearch
    BY <2>2 DEF IndexedSoFar
  <2>4. CASE r \notin Held
    <3>1. row'[r] = row[r] /\ (r > cursor => r > cursor')
      BY <1>1, <1>10, <2>4, SavedBatch
    <3> QED BY <2>1, <2>2, <2>3, <3>1
  <2>5. CASE r \in Held
    <3>1. row'[r] = Rewritten(r, row[r]) /\ row[r] \in Values
      BY <1>1, <1>10, <2>5, SavedBatch
    <3>2. CASE phase = "rotate"
      <4>1. \/ Rotated(r, row[r]).token = row[r].token
            \/ /\ Domain[r] = "merchant"
               /\ Rotated(r, row[r]).token = Token(activeSearch, Domain[r], row[r].text)
        BY <2>1, <2>2, <3>1 DEF Rotated, RebuiltByRotation, Indexed
      <4>2. Rewritten(r, row[r]) = Rotated(r, row[r])
        BY <3>2 DEF Rewritten
      <4> QED BY <1>2, <2>2, <2>3, <3>1, <3>2, <4>1, <4>2
    <3>3. CASE phase = "reindex"
      <4>1. /\ plan.target = activeSearch /\ plan.dataKey = active
            /\ row[r].sealed \in {0, plan.dataKey}
        BY <2>2, <3>3 DEF Safe, Driven, SealedSoFar, Waiting
      <4>2. Opens(row[r], plan.dataKey)
        BY <4>1 DEF Opens
      <4>3. CASE TokenIsAt(row[r], activeSearch)
        <5>1. Rewritten(r, row[r]) = row[r]
          BY <3>3, <4>1, <4>3 DEF Rewritten, Reindexed
        <5> QED BY <2>3, <3>1, <4>3, <5>1 DEF TokenIsAt
      <4>4. CASE ~TokenIsAt(row[r], activeSearch)
        <5>1. Rewritten(r, row[r]).token = Token(activeSearch, Domain[r], row[r].text)
          BY <2>1, <2>2, <3>1, <3>3, <4>1, <4>2, <4>4 DEF Rewritten, Reindexed, Values
        <5> QED BY <1>2, <3>1, <5>1
      <4> QED BY <4>3, <4>4
    <3>4. CASE phase = "seal"
      <4>1. Rewritten(r, row[r]).token = row[r].token
        BY <3>1, <3>4 DEF Rewritten, Sealed, Values
      <4> QED BY <2>2, <2>3, <3>1, <3>4, <4>1
    <3>5. CASE phase = "backfill"
      <4>1. \/ Backfilled(r, row[r]).token = row[r].token
            \/ Backfilled(r, row[r]).token = Token(activeSearch, Domain[r], row[r].text)
        BY <2>1, <3>1 DEF Backfilled, Values
      <4>2. Rewritten(r, row[r]) = Backfilled(r, row[r])
        BY <3>5 DEF Rewritten
      <4> QED BY <1>2, <2>2, <2>3, <3>1, <3>5, <4>1, <4>2
    <3> QED BY <2>1, <3>2, <3>3, <3>4, <3>5
  <2> QED BY <2>4, <2>5
<1>11. CASE EndWalk
  <2>1. UNCHANGED <<row, activeSearch, broken>> /\ Ahead = {}
    BY <1>11 DEF EndWalk
  <2>2. \A r \in Present : ~(phase = "reindex" /\ r > cursor)
    BY <2>1 DEF Ahead
  <2> QED BY <1>4, <2>1, <2>2
<1>12. CASE Kill
  BY <1>12 DEF Kill, IndexedSoFar
<1>13. CASE UNCHANGED vars
  BY <1>3, <1>13 DEF vars
<1> QED
  BY <1>5, <1>6, <1>7, <1>8, <1>9, <1>10, <1>11, <1>12, <1>13 DEF Next, Operator, Command

InOrder == Safe /\ Behind /\ Windowed /\ Labels /\ SealedSoFar /\ IndexedSoFar

LEMMA InOrderAlways ==
  ASSUME KeyAssumption, ~AppRunning
  PROVE  Spec => []InOrder
<1>1. ASSUME Init PROVE Behind /\ Windowed /\ Labels /\ SealedSoFar /\ IndexedSoFar
  <2>1. Behind /\ Windowed
    BY <1>1 DEF Init, Behind, Windowed, Held, Blank
  <2>2. \A r \in Rows : row[r].label = 0 /\ row[r].sealed = 0 /\ row[r].token = NoToken
    BY <1>1 DEF Init, Blank, Legacy
  <2>3. Labels
    BY <1>1, <2>2 DEF Init, Labels, Waiting
  <2>4. SealedSoFar /\ IndexedSoFar
    BY <2>2 DEF SealedSoFar, IndexedSoFar, Present
  <2> QED BY <2>1, <2>3, <2>4
<1>2. Safe /\ Behind /\ [Next]_vars => Behind'
  BY BehindStep DEF Safe
<1>3. InOrder /\ Safe' /\ [Next]_vars => InOrder'
  BY <1>2, WindowedStep, LabelsStep, SealedStep, IndexedStep DEF InOrder
<1>4. Init => Behind /\ Windowed /\ Labels /\ SealedSoFar /\ IndexedSoFar
  BY <1>1
<1> QED BY <1>3, <1>4, SafeAlways, PTL DEF Spec, InOrder

\* With the application stopped for a command, any number of rotations, repairs
\* and reindexings that were each left to finish leave every value readable with
\* the active data key alone, whatever version its envelope states
\* (rotate_encryption_keys.py, step 3: "Every value is read back under the new key").
THEOREM RowsReadableAtRest ==
  ASSUME KeyAssumption, ~AppRunning
  PROVE  Spec => []ReadableAtRest
<1>1. InOrder => ReadableAtRest
  BY DEF InOrder, SealedSoFar, ReadableAtRest, Waiting, Opens
<1> QED BY <1>1, InOrderAlways, PTL

\* And every token of an indexed column is then under the active search key, in
\* the domain of its column: a lookup with one token finds every row, though only
\* rotate_search_key walks all of the columns.
THEOREM TokensStayCurrent ==
  ASSUME KeyAssumption, ~AppRunning
  PROVE  Spec => []TokensCurrent
<1>1. InOrder => TokensCurrent
  BY DEF InOrder, IndexedSoFar, TokensCurrent
<1> QED BY <1>1, InOrderAlways, PTL
=============================================================================
