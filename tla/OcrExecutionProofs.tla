-------------------------- MODULE OcrExecutionProofs --------------------------
(***************************************************************************)
(* For any number of engines, codes and faults: no child outlives its      *)
(* turn, no model is run again that failed, and every run is told.         *)
(***************************************************************************)
EXTENDS OcrExecution, FiniteSetTheorems, TLAPS

N == Cardinality(Plans)
Busy == parent \in {"fork", "waiting", "reaping", "joining"}
Attended == {"waiting", "reaping", "joining"}

LEMMA PlanCount == N \in Nat /\ N > 0 /\ Plans = 1 .. N
  BY OcrAssumption, FS_CardinalityType, FS_EmptySet DEF N

\* The worker at an engine that is there, with its images, and nothing told yet.
WorkerShape ==
  /\ parent \in Attended => plan \in Plans
  /\ parent = "joining" => channel \in Answers
  /\ Busy => variants /\ told = "none"

\* Of the engines before the current one there is a run, of the others none.
RunsSoFar == Busy => \A p \in Plans : runs[p] # "none" <=> p < plan

\* A model that failed is kept only when it could not be looked up any more,
\* and one that is being run is there.
Suspects ==
  /\ assets => \A p \in Cached : model[p] # "suspect"
  /\ child = "running" /\ plan \in Cached => model[plan] = "loaded"

Inv == TypeOK /\ WorkerShape /\ RunsSoFar /\ Suspects /\ ChildAttended /\ EveryRunTold

LEMMA InitInv == Init => Inv
  <1> SUFFICES ASSUME Init PROVE Inv
    OBVIOUS
  <1> USE PlanCount, OcrAssumption
  <1>1. TypeOK
    <2>1. plan \in 1 .. Cardinality(Plans) + 1
      BY DEF Init, N
    <2>2. attempt \in 0 .. MaxAttempts
      BY DEF Init
    <2>3. told \in {"none", "imported", "degraded", "unparsed", "retry", "failed", "escaped"}
      BY DEF Init
    <2>4. /\ model \in [Cached -> {"none", "loaded", "suspect"}]
          /\ runs \in [Plans -> Answers \cup {"none"}]
      BY DEF Init
    <2>5. /\ shutdown \in BOOLEAN /\ assets \in BOOLEAN /\ variants \in BOOLEAN
          /\ child \in {"none", "running", "leaving", "exited"}
          /\ parent \in {"idle", "fork", "waiting", "reaping", "joining", "stopped"}
          /\ channel \in Answers \cup {"empty"}
      BY DEF Init
    <2> QED
      BY <2>1, <2>2, <2>3, <2>4, <2>5 DEF TypeOK
  <1>2. WorkerShape /\ RunsSoFar /\ Suspects /\ ChildAttended /\ EveryRunTold
    BY DEF Init, WorkerShape, RunsSoFar, Suspects, ChildAttended, EveryRunTold, Busy, Attended,
           Alive
  <1> QED
    BY <1>1, <1>2 DEF Inv

\* Recording a run moves the worker on to the next engine.
LEMMA RecordStep ==
  ASSUME Inv, plan \in Plans, parent \in Attended \cup {"fork"},
         NEW run \in Answers, Record(plan, run)
  PROVE  /\ runs' \in [Plans -> Answers \cup {"none"}]
         /\ plan' \in 1 .. N + 1 /\ parent' = "fork"
         /\ variants' /\ told' = "none"
         /\ \A p \in Plans : runs'[p] # "none" <=> p < plan'
  <1> USE PlanCount, OcrAssumption
  <1>1. Busy /\ runs \in [Plans -> Answers \cup {"none"}] /\ plan \in 1 .. N
    BY DEF Inv, TypeOK, Busy, Attended
  <1>2. runs' = [runs EXCEPT ![plan] = run] /\ plan' = plan + 1 /\ parent' = "fork"
    BY DEF Record
  <1>3. variants' = variants /\ told' = told
    BY DEF Record
  <1>4. variants /\ told = "none"
    BY <1>1 DEF Inv, WorkerShape
  <1>5. run # "none"
    BY DEF Answers
  <1>6. ASSUME NEW p \in Plans PROVE runs'[p] # "none" <=> p < plan'
    <2>1. runs[p] # "none" <=> p < plan
      BY <1>1 DEF Inv, RunsSoFar
    <2>2. CASE p = plan
      BY <2>2, <1>1, <1>2, <1>5
    <2>3. CASE p # plan
      <3>1. p < plan <=> p < plan + 1
        BY <2>3, <1>1
      <3> QED
        BY <2>1, <2>3, <1>1, <1>2, <3>1
    <2> QED
      BY <2>2, <2>3
  <1> QED
    BY <1>1, <1>2, <1>3, <1>4, <1>6

LEMMA ResetModels ==
  ASSUME Inv, plan \in Plans
  PROVE  /\ ResetModel(plan) \in [Cached -> {"none", "loaded", "suspect"}]
         /\ Suspected \in [Cached -> {"none", "loaded", "suspect"}]
         /\ assets => \A p \in Cached : ResetModel(plan)[p] # "suspect"
  BY OcrAssumption DEF Inv, TypeOK, ResetModel, Suspected, Suspects

\* At the end of a document the job is told what the runs say.
LEMMA HandedOff ==
  ASSUME Inv, parent = "fork", parent' = "idle", variants' = FALSE, ~Alive, Failed' = Failed,
         UNCHANGED <<attempt, shutdown, plan, assets, child, channel, model, runs>>,
         \A p \in Plans : runs[p] # "none",
         told' \in {"imported", "degraded", "unparsed", "retry", "failed", "escaped"},
         told' # "escaped" => (told' \in {"retry", "failed"} <=> Failed = Plans),
         told' = "imported" => Failed = {} \/ ~(N > 1),
         told' = "degraded" => Failed # {}
  PROVE  Inv'
  <1> USE PlanCount, OcrAssumption
  <1>1. TypeOK'
    BY DEF Inv, TypeOK
  <1>2. WorkerShape' /\ RunsSoFar' /\ Suspects' /\ ChildAttended'
    BY DEF Inv, WorkerShape, RunsSoFar, Suspects, ChildAttended, Alive, Busy, Attended
  <1>3. EveryRunTold'
    BY DEF EveryRunTold, N
  <1> QED
    BY <1>1, <1>2, <1>3 DEF Inv

LEMMA NextInv == Inv /\ [Next]_vars => Inv'
  <1> SUFFICES ASSUME Inv, [Next]_vars PROVE Inv'
    OBVIOUS
  <1> USE PlanCount, OcrAssumption
  <1>0. TypeOK /\ WorkerShape /\ RunsSoFar /\ Suspects /\ ChildAttended /\ EveryRunTold
    BY DEF Inv
  <1>1. CASE ChildAnswers
    <2>1. channel' \in Answers /\ child = "running" /\ child' = "leaving"
      BY <1>1 DEF ChildAnswers
    <2>2. UNCHANGED <<attempt, parent, shutdown, plan, assets, variants, model, runs, told>>
      BY <1>1 DEF ChildAnswers
    <2>3. TypeOK'
      BY <1>0, <2>1, <2>2 DEF TypeOK
    <2>4. WorkerShape' /\ RunsSoFar' /\ Suspects' /\ ChildAttended'
      BY <1>0, <2>1, <2>2 DEF WorkerShape, RunsSoFar, Suspects, ChildAttended, Alive, Busy, Attended
    <2>5. EveryRunTold'
      BY <1>0, <2>2 DEF EveryRunTold, Failed
    <2> QED
      BY <2>3, <2>4, <2>5 DEF Inv
  <1>2. CASE ChildDies \/ ChildExits
    <2>1. Alive /\ child' = "exited"
      BY <1>2 DEF ChildDies, ChildExits, Alive
    <2>2. UNCHANGED <<attempt, parent, shutdown, plan, assets, variants, channel, model, runs, told>>
      BY <1>2 DEF ChildDies, ChildExits
    <2>3. TypeOK'
      BY <1>0, <2>1, <2>2 DEF TypeOK
    <2>4. WorkerShape' /\ RunsSoFar' /\ Suspects' /\ ChildAttended'
      BY <1>0, <2>1, <2>2 DEF WorkerShape, RunsSoFar, Suspects, ChildAttended, Alive, Busy, Attended
    <2>5. EveryRunTold'
      BY <1>0, <2>2 DEF EveryRunTold, Failed
    <2> QED
      BY <2>3, <2>4, <2>5 DEF Inv
  <1>3. CASE Begin
    <2>1. parent = "idle" /\ child' = child /\ channel' = channel /\ model' = model
          /\ assets' = assets /\ shutdown' = shutdown /\ plan' = 1
          /\ attempt' \in 0 .. MaxAttempts
          /\ runs' = [p \in Plans |-> "none"]
      BY <1>3, <1>0 DEF Begin, TypeOK
    <2>2. \/ parent' = "fork" /\ variants' = TRUE /\ told' = "none"
          \/ parent' = "idle" /\ variants' = FALSE /\ told' = "escaped"
      BY <1>3 DEF Begin
    <2>3. ~Alive
      BY <1>0, <2>1 DEF ChildAttended
    <2>4. TypeOK'
      <3>1. plan' \in 1 .. Cardinality(Plans) + 1
        BY <2>1 DEF N
      <3>2. variants' \in BOOLEAN /\ parent' \in {"fork", "idle"}
        BY <2>2
      <3> QED
        BY <1>0, <2>1, <2>2, <3>1, <3>2 DEF TypeOK
    <2>5. WorkerShape' /\ RunsSoFar' /\ Suspects' /\ ChildAttended' /\ EveryRunTold'
      BY <1>0, <2>1, <2>2, <2>3 DEF WorkerShape, RunsSoFar, Suspects, ChildAttended, EveryRunTold,
                                    Alive, Busy, Attended
    <2> QED
      BY <2>4, <2>5 DEF Inv
  <1>4. CASE Fork
    <2>1. parent = "fork" /\ plan # N + 1 /\ (plan \in Cached => assets)
          /\ model' = Prepared(plan) /\ child' = "running" /\ channel' = "empty"
          /\ parent' = "waiting"
      BY <1>4 DEF Fork, Done, N
    <2>2. UNCHANGED <<attempt, shutdown, plan, assets, variants, runs, told>>
      BY <1>4 DEF Fork
    <2>3. plan \in Plans
      BY <1>0, <2>1 DEF TypeOK, N
    <2>4. model' \in [Cached -> {"none", "loaded", "suspect"}]
      BY <1>0, <2>1 DEF TypeOK, Prepared
    <2>5. TypeOK'
      BY <1>0, <2>1, <2>2, <2>4 DEF TypeOK
    <2>6. Suspects'
      BY <1>0, <2>1, <2>2 DEF TypeOK, Suspects, Prepared
    <2>7. WorkerShape' /\ RunsSoFar' /\ ChildAttended'
      BY <1>0, <2>1, <2>2, <2>3 DEF WorkerShape, RunsSoFar, ChildAttended, Alive, Busy, Attended
    <2>8. EveryRunTold'
      BY <1>0, <2>2 DEF EveryRunTold, Failed
    <2> QED
      BY <2>5, <2>6, <2>7, <2>8 DEF Inv
  <1>5. CASE PrepareFails
    <2>1. PICK code \in Codes : Record(plan, code)
      BY <1>5 DEF PrepareFails
    <2>2. parent = "fork" /\ plan \in Cached /\ child' = child /\ channel' = channel
          /\ model' = model
      BY <1>5 DEF PrepareFails
    <2>3. UNCHANGED <<attempt, shutdown, assets>>
      BY <2>1 DEF Record
    <2>4. code \in Answers /\ plan \in Plans
      BY <2>2 DEF Answers
    <2>5. /\ runs' \in [Plans -> Answers \cup {"none"}]
          /\ plan' \in 1 .. N + 1 /\ parent' = "fork"
          /\ variants' /\ told' = "none"
          /\ \A p \in Plans : runs'[p] # "none" <=> p < plan'
      BY <2>1, <2>2, <2>4, RecordStep DEF Attended
    <2>6. ~Alive
      BY <1>0, <2>2 DEF ChildAttended
    <2>7. TypeOK'
      BY <1>0, <2>1, <2>2, <2>3, <2>5 DEF TypeOK, N, Record
    <2>8. WorkerShape' /\ RunsSoFar' /\ Suspects' /\ ChildAttended' /\ EveryRunTold'
      BY <1>0, <2>2, <2>3, <2>5, <2>6 DEF WorkerShape, RunsSoFar, Suspects, ChildAttended,
                           EveryRunTold, Alive, Busy, Attended
    <2> QED
      BY <2>7, <2>8 DEF Inv
  <1>6. CASE GetAnswer \/ TimesOut
    <2>1. /\ parent = "waiting"
          /\ (parent' = "joining" /\ channel \in Answers) \/ parent' = "reaping"
      BY <1>6 DEF GetAnswer, TimesOut
    <2>2. UNCHANGED <<attempt, shutdown, plan, assets, variants, child, channel, model, runs, told>>
      BY <1>6 DEF GetAnswer, TimesOut
    <2>3. TypeOK'
      BY <1>0, <2>1, <2>2 DEF TypeOK
    <2>4. WorkerShape' /\ RunsSoFar' /\ Suspects' /\ ChildAttended'
      BY <1>0, <2>1, <2>2 DEF WorkerShape, RunsSoFar, Suspects, ChildAttended, Alive, Busy, Attended
    <2>5. EveryRunTold'
      BY <1>0, <2>2 DEF EveryRunTold, Failed
    <2> QED
      BY <2>3, <2>4, <2>5 DEF Inv
  <1>7. CASE Reap \/ AnswerStored \/ AnswerFailed
    <2>1. parent \in Attended /\ plan \in Plans /\ child' = "exited" /\ channel' = channel
      BY <1>7, <1>0 DEF Reap, AnswerStored, AnswerFailed, Joined, Reaped, WorkerShape, Attended
    <2>2. \/ \E run \in Answers : Record(plan, run)
          \/ Escape
      BY <1>7, OcrAssumption DEF Reap, AnswerStored, AnswerFailed, Answers
    <2>3. UNCHANGED <<attempt, shutdown, assets>>
      BY <2>2 DEF Record, Escape
    <2>4. \/ CanReset(plan) /\ model' = ResetModel(plan)
          \/ ~CanReset(plan) /\ model' = Suspected
          \/ model' = model
      BY <1>7 DEF Reap, AnswerStored, AnswerFailed
    <2>5. /\ model' \in [Cached -> {"none", "loaded", "suspect"}]
          /\ assets => \A p \in Cached : model'[p] # "suspect"
      BY <1>0, <2>1, <2>4, ResetModels DEF TypeOK, Suspects, CanReset
    <2>6. CASE \E run \in Answers : Record(plan, run)
      <3>1. PICK run \in Answers : Record(plan, run)
        BY <2>6
      <3>2. /\ runs' \in [Plans -> Answers \cup {"none"}]
            /\ plan' \in 1 .. N + 1 /\ parent' = "fork"
            /\ variants' /\ told' = "none"
            /\ \A p \in Plans : runs'[p] # "none" <=> p < plan'
        BY <2>1, <3>1, RecordStep
      <3>3. TypeOK'
        BY <1>0, <2>1, <2>3, <2>5, <3>1, <3>2 DEF TypeOK, N, Record
      <3>4. WorkerShape' /\ RunsSoFar' /\ Suspects' /\ ChildAttended' /\ EveryRunTold'
        BY <1>0, <2>1, <2>3, <2>5, <3>2 DEF WorkerShape, RunsSoFar, Suspects, ChildAttended,
                             EveryRunTold, Alive, Busy, Attended
      <3> QED
        BY <3>3, <3>4 DEF Inv
    <2>7. CASE Escape
      <3>1. told' = "escaped" /\ variants' = FALSE /\ parent' = "idle" /\ plan' = plan /\ runs' = runs
        BY <2>7 DEF Escape
      <3>2. TypeOK'
        BY <1>0, <2>1, <2>3, <2>5, <3>1 DEF TypeOK
      <3>3. WorkerShape' /\ RunsSoFar' /\ Suspects' /\ ChildAttended' /\ EveryRunTold'
        BY <1>0, <2>1, <2>3, <2>5, <3>1 DEF WorkerShape, RunsSoFar, Suspects, ChildAttended,
                             EveryRunTold, Alive, Busy, Attended
      <3> QED
        BY <3>2, <3>3 DEF Inv
    <2> QED
      BY <2>2, <2>6, <2>7
  <1>8. CASE HandOff \/ AllFailed
    <2>1. parent = "fork" /\ plan = N + 1 /\ parent' = "idle" /\ variants' = FALSE
      BY <1>8 DEF HandOff, AllFailed, Done, N
    <2>2. UNCHANGED <<attempt, shutdown, plan, assets, child, channel, model, runs>>
      BY <1>8 DEF HandOff, AllFailed
    <2>3. \A p \in Plans : runs[p] # "none"
      BY <1>0, <2>1 DEF RunsSoFar, Busy
    <2>4. ~Alive
      BY <1>0, <2>1 DEF ChildAttended
    <2>5. Failed' = Failed
      BY <2>2 DEF Failed
    <2>6. CASE HandOff
      <3>1. PICK p \in Plans : runs[p] = "ok"
        BY <2>6 DEF HandOff
      <3>2. Failed # Plans
        BY <3>1, OcrAssumption DEF Failed
      <3>3. told' \in {"imported", "degraded", "unparsed", "escaped"}
        BY <2>6 DEF HandOff
      <3>4. told' = "imported" => Failed = {} \/ ~(N > 1)
        BY <2>6 DEF HandOff, Degraded, N
      <3>5. told' = "degraded" => Failed # {}
        BY <2>6 DEF HandOff, Degraded
      <3> QED
        BY <2>1, <2>2, <2>3, <2>4, <2>5, <3>2, <3>3, <3>4, <3>5, HandedOff
    <2>7. CASE AllFailed
      <3>1. Failed = Plans /\ told' \in {"retry", "failed"}
        BY <2>7 DEF AllFailed
      <3> QED
        BY <2>1, <2>2, <2>3, <2>4, <2>5, <3>1, HandedOff
    <2> QED
      BY <1>8, <2>6, <2>7
  <1>9. CASE Stop \/ RequestShutdown \/ AssetsLost
    <2>1. UNCHANGED <<attempt, plan, variants, child, channel, model, runs, told>>
      BY <1>9 DEF Stop, RequestShutdown, AssetsLost
    <2>2. /\ shutdown' \in BOOLEAN /\ assets' \in BOOLEAN /\ (assets' => assets)
          /\ parent' = parent \/ (parent = "idle" /\ parent' = "stopped")
      <3>1. CASE Stop
        BY <3>1, <1>0 DEF Stop, TypeOK
      <3>2. CASE RequestShutdown
        BY <3>2, <1>0 DEF RequestShutdown, TypeOK
      <3>3. CASE AssetsLost
        BY <3>3, <1>0 DEF AssetsLost, TypeOK
      <3> QED
        BY <1>9, <3>1, <3>2, <3>3
    <2>3. TypeOK'
      BY <1>0, <2>1, <2>2 DEF TypeOK
    <2>4. WorkerShape' /\ RunsSoFar' /\ Suspects' /\ ChildAttended'
      BY <1>0, <2>1, <2>2 DEF WorkerShape, RunsSoFar, Suspects, ChildAttended, Alive, Busy, Attended
    <2>5. EveryRunTold'
      BY <1>0, <2>1 DEF EveryRunTold, Failed
    <2> QED
      BY <2>3, <2>4, <2>5 DEF Inv
  <1>10. CASE UNCHANGED vars
    <2>1. UNCHANGED <<attempt, parent, shutdown, plan, assets, variants, child, channel, model,
                      runs, told>>
      BY <1>10 DEF vars
    <2>2. TypeOK'
      BY <1>0, <2>1 DEF TypeOK
    <2>3. WorkerShape' /\ RunsSoFar' /\ Suspects' /\ ChildAttended'
      BY <1>0, <2>1 DEF WorkerShape, RunsSoFar, Suspects, ChildAttended, Alive, Busy, Attended
    <2>4. EveryRunTold'
      BY <1>0, <2>1 DEF EveryRunTold, Failed
    <2> QED
      BY <2>2, <2>3, <2>4 DEF Inv
  <1> QED
    BY <1>1, <1>2, <1>3, <1>4, <1>5, <1>6, <1>7, <1>8, <1>9, <1>10 DEF Next, Worker

LEMMA InvAlways == Spec => []Inv
  BY InitInv, NextInv, PTL DEF Spec

\* Every variable keeps its type whatever the engines do.
THEOREM TypeCorrect == Spec => []TypeOK
  <1>1. Inv => TypeOK
    BY DEF Inv
  <1> QED
    BY <1>1, InvAlways, PTL

\* No child outlives its turn, and the image it reads is there as long as it
\* lives, for any number of engines and with any of the faults.
THEOREM ChildAlwaysAttended == Spec => []ChildAttended
  <1>1. Inv => ChildAttended
    BY DEF Inv
  <1> QED
    BY <1>1, InvAlways, PTL

\* No child runs a model with which one failed before.
THEOREM ModelAlwaysRebuilt == Spec => []ModelRebuilt
  <1>1. Inv => ModelRebuilt
    BY DEF Inv, Suspects, ModelRebuilt
  <1> QED
    BY <1>1, InvAlways, PTL

\* Every engine leaves a run behind, and the job is told what the runs say.
THEOREM EveryRunAlwaysTold == Spec => []EveryRunTold
  <1>1. Inv => EveryRunTold
    BY DEF Inv
  <1> QED
    BY <1>1, InvAlways, PTL

=============================================================================
