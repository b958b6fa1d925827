----------------------------- MODULE OcrExecution -----------------------------
(***************************************************************************)
(* How the worker reads a screenshot: for each engine it prepares a model, *)
(* forks a child to run the engine on its variant of the image, waits for  *)
(* the answer for a limited time, and records a run; what succeeded is     *)
(* parsed and imported.  The worker goes from document to document, and    *)
(* after a signal it stops between two.                                    *)
(***************************************************************************)
EXTENDS Naturals, FiniteSets

CONSTANTS
  Plans,       \* the engine plans: 1 .. n, in the order they run
  Cached,      \* plans whose engine keeps a model in the worker (prepare, reset)
  Codes,       \* error codes a failed engine may give
  Retryable,   \* the codes worth another attempt
  Inherited,   \* the child has the worker's SIGTERM handler
  Faults,      \* of "prepare", "image", "raise", "die", "store", "empty", "assets", "linger"
  MaxAttempts  \* bound: documents read

ASSUME OcrAssumption ==
  /\ Plans = 1 .. Cardinality(Plans) /\ Plans # {} /\ IsFiniteSet(Plans)
  /\ Cached \subseteq Plans
  /\ Retryable \subseteq Codes
  /\ {"timeout", "crash"} \subseteq Retryable
  /\ Codes \cap {"none", "ok", "empty"} = {}
  /\ Inherited \in BOOLEAN
  /\ MaxAttempts \in Nat

VARIABLES
  attempt,   \* documents begun
  parent,    \* where the worker is
  shutdown,  \* a signal asked it to stop
  plan,      \* the plan it is at
  assets,    \* the pinned models are on disk as the manifest says
  variants,  \* the preprocessed images are on disk
  child,     \* the child process
  channel,   \* the queue between them: an answer, or none
  model,     \* the model each engine keeps in the worker
  runs,      \* this document's OcrRun for each plan
  told       \* what the job is told

vars == <<attempt, parent, shutdown, plan, assets, variants, child, channel, model, runs, told>>

Answers == Codes \cup {"ok"}
Alive == child \in {"running", "leaving"}
Failed == {p \in Plans : runs[p] \in Codes}
Done == plan = Cardinality(Plans) + 1

TypeOK ==
  /\ attempt \in 0 .. MaxAttempts
  /\ parent \in {"idle", "fork", "waiting", "reaping", "joining", "stopped"}
  /\ shutdown \in BOOLEAN
  /\ plan \in 1 .. Cardinality(Plans) + 1
  /\ assets \in BOOLEAN /\ variants \in BOOLEAN
  /\ child \in {"none", "running", "leaving", "exited"}
  /\ channel \in Answers \cup {"empty"}
  /\ model \in [Cached -> {"none", "loaded", "suspect"}]
  /\ runs \in [Plans -> Answers \cup {"none"}]
  /\ told \in {"none", "imported", "degraded", "unparsed", "retry", "failed", "escaped"}

Init ==
  /\ attempt = 0 /\ parent = "idle" /\ shutdown = FALSE /\ plan = 1
  /\ assets = TRUE /\ variants = FALSE
  /\ child = "none" /\ channel = "empty"
  /\ model = [p \in Cached |-> "none"]
  /\ runs = [p \in Plans |-> "none"]
  /\ told = "none"

-----------------------------------------------------------------------------
(* The child *)

\* _run_child: the engine's result, or its failure classified.
ChildAnswers ==
  /\ child = "running"
  /\ \E answer \in Answers :
       /\ answer # "ok" => "raise" \in Faults
       /\ channel' = answer
  /\ child' = "leaving"
  /\ UNCHANGED <<attempt, parent, shutdown, plan, assets, variants, model, runs, told>>

\* The process ends without an answer: a crash, or the kernel short of memory.
ChildDies ==
  /\ "die" \in Faults
  /\ Alive
  /\ child' = "exited"
  /\ UNCHANGED <<attempt, parent, shutdown, plan, assets, variants, channel, model, runs, told>>

ChildExits ==
  /\ child = "leaving"
  /\ child' = "exited"
  /\ UNCHANGED <<attempt, parent, shutdown, plan, assets, variants, channel, model, runs, told>>

-----------------------------------------------------------------------------
(* The worker *)

\* Terminate: the worker's own handler, inherited, only takes note of the signal.
Terminated(process) ==
  IF Inherited /\ process \in {"running", "leaving"} THEN process ELSE "exited"

\* Mutant: a child that outlives terminate is left alone.
TerminatedOnly(process) == Terminated(process)

\* terminate, join, then kill: nothing survives.
Reaped(process) == "exited"

\* A child failed with this model, and it is still there.
Suspected == [p \in Cached |-> IF p = plan THEN "suspect" ELSE model[p]]

\* Mutant: the model of a child that raised is kept.
KeptModel(p) ==
  IF p \in Cached THEN IF channel \in Codes THEN Suspected ELSE [model EXCEPT ![p] = "none"]
  ELSE model

\* Mutant: every engine is given a model to reset.
ResetEvery(p) == [q \in Cached \cup {p} |-> IF q = p THEN "none" ELSE model[q]]

\* reset: the next run builds the model again.
ResetModel(p) == IF p \in Cached THEN [model EXCEPT ![p] = "none"] ELSE model

\* reset looks the model up under the options prepare would use.
CanReset(p) == p \in Cached => assets

\* prepare: before the fork, so that the child finds the model in memory.
Prepared(p) ==
  IF p \in Cached /\ model[p] = "none" THEN [model EXCEPT ![p] = "loaded"] ELSE model

\* An exception nobody classified leaves orchestrate_document_ocr: the variants
\* go, no run is recorded, and the job fails as UNHANDLED_ERROR.
Escape ==
  /\ told' = "escaped" /\ variants' = FALSE /\ parent' = "idle"
  /\ UNCHANGED <<attempt, shutdown, plan, assets, runs>>

\* record_successful_run or record_failed_run, and on to the next plan.
Record(p, run) ==
  /\ runs' = [runs EXCEPT ![p] = run]
  /\ plan' = p + 1
  /\ parent' = "fork"
  /\ UNCHANGED <<attempt, shutdown, assets, variants, told>>

\* The worker takes a job, and the image is preprocessed for every engine.
Begin ==
  /\ parent = "idle" /\ ~shutdown /\ attempt < MaxAttempts
  /\ attempt' = attempt + 1
  /\ plan' = 1
  /\ runs' = [p \in Plans |-> "none"]
  /\ \/ parent' = "fork" /\ variants' = TRUE /\ told' = "none"
     \/ "image" \in Faults /\ parent' = "idle" /\ variants' = FALSE /\ told' = "escaped"
  /\ UNCHANGED <<shutdown, assets, child, channel, model>>

Fork ==
  /\ parent = "fork" /\ ~Done
  /\ plan \in Cached => assets
  /\ model' = Prepared(plan)
  /\ child' = "running" /\ channel' = "empty" /\ parent' = "waiting"
  /\ UNCHANGED <<attempt, shutdown, plan, assets, variants, runs, told>>

PrepareFails ==
  /\ parent = "fork" /\ ~Done /\ plan \in Cached
  /\ ~assets \/ ("prepare" \in Faults /\ model[plan] = "none")
  /\ \E code \in Codes : Record(plan, code)
  /\ UNCHANGED <<child, channel, model>>

GetAnswer ==
  /\ parent = "waiting" /\ channel \in Answers
  /\ parent' = "joining"
  /\ UNCHANGED <<attempt, shutdown, plan, assets, variants, child, channel, model, runs, told>>

\* Mutant: the worker waits for as long as the child is alive.
ExitsInTime ==
  /\ parent = "waiting" /\ channel = "empty" /\ child = "exited"
  /\ parent' = "reaping"
  /\ UNCHANGED <<attempt, shutdown, plan, assets, variants, child, channel, model, runs, told>>

\* queue.Empty: the time is up, and an answer may still come.
TimesOut ==
  /\ parent = "waiting" /\ channel = "empty"
  /\ parent' = "reaping"
  /\ UNCHANGED <<attempt, shutdown, plan, assets, variants, child, channel, model, runs, told>>

\* What is still alive ran out of time, what is not had crashed.
Reap ==
  /\ parent = "reaping"
  /\ child' = Reaped(child)
  /\ \/ /\ CanReset(plan) /\ model' = ResetModel(plan)
        /\ Record(plan, IF Alive THEN "timeout" ELSE "crash")
     \/ ~CanReset(plan) /\ model' = Suspected /\ Escape
  /\ UNCHANGED channel

\* join(1), then terminate and join again, this time for as long as it takes.
Joined ==
  /\ parent = "joining"
  /\ Terminated(child) = "exited"
  /\ child' = "exited"

AnswerStored ==
  /\ Joined /\ channel = "ok"
  /\ Record(plan, "ok") \/ ("store" \in Faults /\ Escape)
  /\ UNCHANGED <<channel, model>>

AnswerFailed ==
  /\ Joined /\ channel \in Codes
  /\ \/ CanReset(plan) /\ model' = ResetModel(plan) /\ Record(plan, channel)
     \/ ~CanReset(plan) /\ model' = Suspected /\ Escape
  /\ UNCHANGED channel

\* Mutant: the rows are marked only when two engines failed.
DegradedByTwo == Cardinality(Failed) > 1 /\ Cardinality(Plans) > 1

Degraded == Failed # {} /\ Cardinality(Plans) > 1

\* The variants are gone; what succeeded is parsed and imported.
HandOff ==
  /\ parent = "fork" /\ Done
  /\ \E p \in Plans : runs[p] = "ok"
  /\ \/ told' = IF Degraded THEN "degraded" ELSE "imported"
     \/ "empty" \in Faults /\ told' = "unparsed"
     \/ "store" \in Faults /\ told' = "escaped"
  /\ parent' = "idle" /\ variants' = FALSE
  /\ UNCHANGED <<attempt, shutdown, plan, assets, child, channel, model, runs>>

\* mark_failed goes by the code of the OcrPipelineError alone: that of the engine when
\* there is but one, otherwise OCR_ALL_ENGINES_FAILED, which is worth another attempt.
AllFailed ==
  /\ parent = "fork" /\ Done
  /\ Failed = Plans
  /\ told' = IF Cardinality(Plans) > 1 \/ \E p \in Plans : runs[p] \in Retryable
             THEN "retry" ELSE "failed"
  /\ parent' = "idle" /\ variants' = FALSE
  /\ UNCHANGED <<attempt, shutdown, plan, assets, child, channel, model, runs>>

\* The directory of pinned models is damaged or goes while the worker runs.
AssetsLost ==
  /\ "assets" \in Faults /\ assets
  /\ assets' = FALSE
  /\ UNCHANGED <<attempt, parent, shutdown, plan, variants, child, channel, model, runs, told>>

\* The signal only sets an event; the loop looks at it between two jobs.
RequestShutdown ==
  /\ ~shutdown /\ parent # "stopped"
  /\ shutdown' = TRUE
  /\ UNCHANGED <<attempt, parent, plan, assets, variants, child, channel, model, runs, told>>

Stop ==
  /\ parent = "idle" /\ shutdown
  /\ parent' = "stopped"
  /\ UNCHANGED <<attempt, shutdown, plan, assets, variants, child, channel, model, runs, told>>

Worker ==
  \/ Begin \/ Fork \/ PrepareFails \/ GetAnswer \/ TimesOut \/ Reap
  \/ AnswerStored \/ AnswerFailed \/ HandOff \/ AllFailed \/ Stop

Next ==
  Worker \/ ChildAnswers \/ ChildDies \/ ChildExits \/ RequestShutdown \/ AssetsLost

\* The worker's code never waits but for the child, and for that only so long.
\* A child that answered comes to its end, unless something holds it there.
Fairness ==
  /\ WF_vars(Worker)
  /\ WF_vars("linger" \notin Faults /\ ChildExits)

Spec == Init /\ [][Next]_vars /\ Fairness

-----------------------------------------------------------------------------
(* What must hold *)

\* A child runs only while the worker waits for it, and the image it reads is
\* there as long as it does: no engine outlives its turn (execution.py kills
\* what terminate leaves, pipeline.py removes the variants after the last run).
ChildAttended ==
  Alive => parent \in {"waiting", "reaping", "joining"} /\ variants

\* No child runs a model with which one failed before: it was built again, or
\* with the models gone the engine is not started ("Discard a model after a
\* failed child run so the next run rebuilds it", paddle.py).
ModelRebuilt == child = "running" /\ plan \in Cached => model[plan] = "loaded"

\* Each engine leaves a run behind whatever became of the other, the rows of a
\* document that one engine could not read are marked, and the job is told that
\* text recognition failed exactly when every engine did.
EveryRunTold ==
  told \notin {"none", "escaped"} =>
    /\ \A p \in Plans : runs[p] # "none"
    /\ told \in {"retry", "failed"} <=> Failed = Plans
    /\ told = "imported" => Failed = {} \/ Cardinality(Plans) = 1
    /\ told = "degraded" => Failed # {}

\* A worker that is asked to stop finishes its document and stops, whatever
\* the engines do: their execution is bounded.
WorkerStops == shutdown ~> parent = "stopped"

=============================================================================
