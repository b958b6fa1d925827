--------------------------- MODULE DocumentQueue ---------------------------
(***************************************************************************)
(* The document pipeline of apps.processing: screenshots are uploaded,     *)
(* queued as ProcessingJob rows, claimed by workers, read stage by stage,  *)
(* and erased.  Every database transaction of the code is one action, and  *)
(* so is every step a worker takes between two of them; workers, uploads,  *)
(* reviewers, the recovery and retention timers and the file cleaner       *)
(* interleave freely, and workers may die between any two steps.           *)
(***************************************************************************)
EXTENDS Naturals, FiniteSets

CONSTANTS
  Docs,          \* SourceDocument ids
  Jobs,          \* ProcessingJob ids
  DocOf,         \* the document_id of each job row, fixed when it is created
  NoJob,         \* a worker without a job
  Workers,       \* processes running process_document_jobs
  MaxAttempts,   \* ProcessingJob.max_attempts (3 in the code)
  MaxMishaps,    \* bound: worker deaths plus premature recoveries
  SlowWorkers,   \* TRUE: recovery may take the job of a worker still at it
  KeysFail,      \* TRUE: the owner's data key may be unavailable to a worker
  DeletesFail    \* TRUE: delete_document may roll back after removing the file

ASSUME QueueAssumption ==
  /\ DocOf \in [Jobs -> Docs]
  /\ NoJob \notin Jobs
  /\ MaxAttempts \in Nat \ {0}
  /\ MaxMishaps \in Nat
  /\ SlowWorkers \in BOOLEAN /\ KeysFail \in BOOLEAN /\ DeletesFail \in BOOLEAN

VARIABLES
  status,      \* processing_status of each document; two extra values before it has a row
  file,        \* whether the document's private directory holds the screenshot
  imported,    \* whether observations of the document have been imported
  jobStatus,   \* status of each job row ("unused": not created yet)
  attempts,    \* attempt_count of each job row
  pc,          \* what each worker does next
  claim,       \* the job object each worker holds in memory
  tries,       \* the attempt_count in that object
  outcome,     \* how the held job's handler is ending
  candidates,  \* the directories the cleaner decided on and has not reached yet
  mishaps      \* worker deaths and premature recoveries so far

vars == <<status, file, imported, jobStatus, attempts, pc, claim, tries, outcome,
          candidates, mishaps>>
workerVars == <<pc, claim, tries, outcome>>
jobVars == <<jobStatus, attempts>>

-----------------------------------------------------------------------------
(* The document's state machine *)

DocStatus == {"pending", "validating", "queued", "preprocessing", "ocr_running",
              "parsing", "ready_for_review", "confirmed", "failed", "deleted"}

\* "absent": no row and no file; "uploading": the file is stored and the row is
\* in a transaction that has not committed.
NoRow == {"absent", "uploading"}

Allowed == [s \in DocStatus |->
  CASE s = "pending" -> {"validating", "deleted"}
    [] s = "validating" -> {"queued", "preprocessing", "failed", "deleted"}
    [] s = "queued" -> {"validating", "failed", "deleted"}
    [] s = "preprocessing" -> {"ocr_running", "failed", "deleted"}
    [] s = "ocr_running" -> {"parsing", "failed", "deleted"}
    [] s = "parsing" -> {"ready_for_review", "failed", "deleted"}
    [] s = "ready_for_review" -> {"confirmed", "failed", "deleted", "queued"}
    [] s = "confirmed" -> {"deleted", "queued"}
    [] s = "failed" -> {"queued", "deleted"}
    [] s = "deleted" -> {}]

CanBecome(d, s) == status[d] \in DocStatus /\ s \in Allowed[status[d]]

\* Statuses a worker's claim puts a document in; recovery takes it out of them.
BeingRead == {"validating", "preprocessing", "ocr_running", "parsing"}

InFlight == BeingRead \cup {"queued"}

\* Mutant: a queued document is not active yet.
ActiveOnceClaimed == BeingRead \cup {"pending"}

\* The cleaner leaves the directories of these documents alone.
Active == InFlight \cup {"pending"}

Reprocessable == {"ready_for_review", "failed", "confirmed"}

Expirable == {"ready_for_review", "confirmed", "failed"}

-----------------------------------------------------------------------------
(* The queue *)

ActiveJobs(d) == {j \in Jobs : DocOf[j] = d /\ jobStatus[j] \in {"queued", "running"}}

\* A worker process is alive and has not finished with this job.
Held(j) == \E w \in Workers : claim[w] = j

Stages == {"idle", "load", "validate", "file", "preprocess", "decode", "ocr", "read",
           "import", "parsing", "ready", "handle", "fail", "cleanup", "report"}

Doc(w) == DocOf[claim[w]]

TypeOK ==
  /\ status \in [Docs -> DocStatus \cup NoRow]
  /\ file \in [Docs -> BOOLEAN]
  /\ imported \in [Docs -> BOOLEAN]
  /\ jobStatus \in [Jobs -> {"unused", "queued", "running", "succeeded", "failed"}]
  /\ attempts \in [Jobs -> Nat]
  /\ pc \in [Workers -> Stages]
  /\ claim \in [Workers -> Jobs \cup {NoJob}]
  /\ tries \in [Workers -> Nat]
  /\ outcome \in [Workers -> {"ok", "retryable", "terminal"}]
  /\ candidates \in SUBSET Docs
  /\ mishaps \in 0..MaxMishaps
  /\ \A w \in Workers : (pc[w] = "idle") <=> (claim[w] = NoJob)

Init ==
  /\ status = [d \in Docs |-> "absent"]
  /\ file = [d \in Docs |-> FALSE]
  /\ imported = [d \in Docs |-> FALSE]
  /\ jobStatus = [j \in Jobs |-> "unused"]
  /\ attempts = [j \in Jobs |-> 0]
  /\ pc = [w \in Workers |-> "idle"]
  /\ claim = [w \in Workers |-> NoJob]
  /\ tries = [w \in Workers |-> 0]
  /\ outcome = [w \in Workers |-> "ok"]
  /\ candidates = {}
  /\ mishaps = 0

Mishap == mishaps < MaxMishaps /\ mishaps' = mishaps + 1

-----------------------------------------------------------------------------
(* Uploading: the file is written first, the rows are committed together *)

StoreUpload(d) ==
  /\ status[d] = "absent" /\ ~file[d]
  /\ status' = [status EXCEPT ![d] = "uploading"]
  /\ file' = [file EXCEPT ![d] = TRUE]
  /\ UNCHANGED <<imported, jobVars, workerVars, candidates, mishaps>>

NewJob(d, j) ==
  /\ DocOf[j] = d /\ jobStatus[j] = "unused"
  /\ jobStatus' = [jobStatus EXCEPT ![j] = "queued"]
  /\ UNCHANGED attempts

CommitUpload(d) ==
  /\ status[d] = "uploading"
  /\ status' = [status EXCEPT ![d] = "queued"]
  /\ \E j \in Jobs : NewJob(d, j)
  /\ UNCHANGED <<file, imported, workerVars, candidates, mishaps>>

\* A concurrent upload of the same bytes, or any other error: the file goes.
AbortUpload(d) ==
  /\ status[d] = "uploading"
  /\ status' = [status EXCEPT ![d] = "absent"]
  /\ file' = [file EXCEPT ![d] = FALSE]
  /\ UNCHANGED <<imported, jobVars, workerVars, candidates, mishaps>>

-----------------------------------------------------------------------------
(* claim_next: one transaction that first fails the jobs of documents that *)
(* are not waiting, and then claims one job or finds the queue empty       *)

Queued(j) == jobStatus[j] = "queued"

Claimable(j) == Queued(j) /\ status[DocOf[j]] \in {"queued", "failed", "deleted"}

Refused(j) == Queued(j) /\ ~Claimable(j)

\* available_at and created_at order the queue; the model lets any available
\* jobs come first, so "refused" are those the loop passed over.
FailRefused(refused) ==
  [j \in Jobs |-> IF j \in refused THEN "failed" ELSE jobStatus[j]]

Claim(w, j) ==
  /\ pc[w] = "idle" /\ Claimable(j)
  /\ \E refused \in SUBSET {k \in Jobs : Refused(k)} :
       jobStatus' = [FailRefused(refused) EXCEPT ![j] = "running"]
  /\ status' = [status EXCEPT ![DocOf[j]] = IF @ = "deleted" THEN @ ELSE "validating"]
  /\ attempts' = [attempts EXCEPT ![j] = @ + 1]
  /\ pc' = [pc EXCEPT ![w] = "load"]
  /\ claim' = [claim EXCEPT ![w] = j]
  /\ tries' = [tries EXCEPT ![w] = attempts[j] + 1]
  /\ UNCHANGED <<file, imported, outcome, candidates, mishaps>>

ClaimNothing(w) ==
  /\ pc[w] = "idle"
  /\ \E refused \in SUBSET {k \in Jobs : Refused(k)} :
       refused # {} /\ jobStatus' = FailRefused(refused)
  /\ UNCHANGED <<status, file, imported, attempts, workerVars, candidates, mishaps>>

-----------------------------------------------------------------------------
(* process_document: what a worker does with the job it claimed *)

Goto(w, stage) == pc' = [pc EXCEPT ![w] = stage]

End(w, o, stage) == outcome' = [outcome EXCEPT ![w] = o] /\ Goto(w, stage)

\* An exception reaches the handler of _process_document.
Raise(w, o) == End(w, o, "handle")

\* The document is read without a lock, and then its owner's key is unwrapped.
\* A failure to do so is raised outside _process_document: the document is not
\* failed and its directory is not removed.
LoadDocument(w) ==
  /\ pc[w] = "load"
  /\ \/ status[Doc(w)] = "deleted" /\ End(w, "ok", "report")
     \/ status[Doc(w)] # "deleted" /\ KeysFail /\ End(w, "retryable", "report")
     \/ /\ status[Doc(w)] # "deleted"
        /\ Goto(w, IF status[Doc(w)] = "validating" THEN "file" ELSE "validate")
        /\ UNCHANGED outcome
  /\ UNCHANGED <<status, file, imported, jobVars, claim, tries, candidates, mishaps>>

\* One call of transition_document; a refused transition is a ConflictError,
\* which no handler knows, so it ends as the retryable UNHANDLED_ERROR.
Transition(w, here, target, next) ==
  /\ pc[w] = here
  /\ IF CanBecome(Doc(w), target)
     THEN status' = [status EXCEPT ![Doc(w)] = target] /\ Goto(w, next) /\ UNCHANGED outcome
     ELSE Raise(w, "retryable") /\ UNCHANGED status
  /\ UNCHANGED <<file, imported, jobVars, claim, tries, candidates, mishaps>>

\* Only when the document had left "validating" before it was loaded.
Revalidate(w) == Transition(w, "validate", "validating", "file")
StartPreprocessing(w) == Transition(w, "preprocess", "preprocessing", "decode")
StartOcr(w) == Transition(w, "ocr", "ocr_running", "read")
StartParsing(w) == Transition(w, "parsing", "parsing", "ready")
BecomeReady(w) == Transition(w, "ready", "ready_for_review", "cleanup")

\* TEMP_FILE_MISSING is not retryable.
CheckFile(w) ==
  /\ pc[w] = "file"
  /\ IF file[Doc(w)] THEN Goto(w, "preprocess") /\ UNCHANGED outcome ELSE Raise(w, "terminal")
  /\ UNCHANGED <<status, file, imported, jobVars, claim, tries, candidates, mishaps>>

\* Mutant: the document moves on before its observations are imported.
RunEnginesThenParse(w) ==
  /\ pc[w] = "read" /\ file[Doc(w)]
  /\ Goto(w, "parsing")
  /\ UNCHANGED <<status, file, imported, jobVars, claim, tries, outcome, candidates, mishaps>>

\* A step that reads the image: it may fail with one of the given kinds of
\* error, and does if the file has gone.
UseFile(w, here, next, errors) ==
  /\ pc[w] = here
  /\ \/ file[Doc(w)] /\ Goto(w, next) /\ UNCHANGED outcome
     \/ \E o \in errors : Raise(w, o)
  /\ UNCHANGED <<status, file, imported, jobVars, claim, tries, candidates, mishaps>>

\* An image that does not decode is terminal; one that went since it was looked at
\* is an error nobody classified, which is worth another attempt.
DecodeImage(w) == UseFile(w, "decode", "ocr", {"retryable", "terminal"})

\* Both engines fail, or something nobody classified does: worth another attempt.
RunEngines(w) == UseFile(w, "read", "import", {"retryable"})

\* Parsing and importing is one transaction; nothing parsed is terminal, a
\* database error is retryable.
ImportObservations(w) ==
  /\ pc[w] = "import"
  /\ \/ /\ imported' = [imported EXCEPT ![Doc(w)] = TRUE]
        /\ Goto(w, "parsing") /\ UNCHANGED outcome
     \/ \E o \in {"retryable", "terminal"} : Raise(w, o) /\ UNCHANGED imported
  /\ UNCHANGED <<status, file, jobVars, claim, tries, candidates, mishaps>>

\* The except clauses read the document's status again, without a lock.
HandleError(w) ==
  /\ pc[w] = "handle"
  /\ CASE status[Doc(w)] = "deleted" -> End(w, "ok", "cleanup")
       [] status[Doc(w)] = "failed" -> Goto(w, "cleanup") /\ UNCHANGED outcome
       [] OTHER -> Goto(w, "fail") /\ UNCHANGED outcome
  /\ UNCHANGED <<status, file, imported, jobVars, claim, tries, candidates, mishaps>>

\* If the document moved meanwhile, the ConflictError replaces the first error.
FailDocument(w) ==
  /\ pc[w] = "fail"
  /\ IF CanBecome(Doc(w), "failed")
     THEN /\ status' = [status EXCEPT ![Doc(w)] = "failed"]
          /\ Goto(w, "cleanup") /\ UNCHANGED outcome
     ELSE End(w, "retryable", "cleanup") /\ UNCHANGED status
  /\ UNCHANGED <<file, imported, jobVars, claim, tries, candidates, mishaps>>

\* cleanup_document_storage swallows an OSError, leaving the file.
Removes(d) == file' \in {file, [file EXCEPT ![d] = FALSE]}

\* The finally clause: on success and on every kind of failure.
CleanUp(w) ==
  /\ pc[w] = "cleanup"
  /\ Removes(Doc(w))
  /\ Goto(w, "report")
  /\ UNCHANGED <<status, imported, jobVars, claim, tries, outcome, candidates, mishaps>>

-----------------------------------------------------------------------------
(* Ending a job *)

\* Mutant: the worker keeps the job object of its last turn.
RestWithClaim(w) == Goto(w, "idle") /\ UNCHANGED <<claim, tries, outcome>>

\* The worker's process is back in its loop, or has been restarted.
Rest(w) ==
  /\ Goto(w, "idle")
  /\ claim' = [claim EXCEPT ![w] = NoJob]
  /\ tries' = [tries EXCEPT ![w] = 0]
  /\ outcome' = [outcome EXCEPT ![w] = "ok"]

\* Both save the status whatever the row says by now.
SetJob(w, s) == jobStatus' = [jobStatus EXCEPT ![claim[w]] = s]

MarkSucceeded(w) ==
  /\ pc[w] = "report" /\ outcome[w] = "ok"
  /\ SetJob(w, "succeeded") /\ Rest(w)
  /\ UNCHANGED <<status, file, imported, attempts, candidates, mishaps>>

WillRetry(w) == outcome[w] = "retryable" /\ tries[w] < MaxAttempts

\* Mutant: nothing in the schema stops a second active job on a retry.
NeverOtherActive(j) == FALSE

\* The partial unique index: a second queued or running job for the document.
OtherActive(j) == ActiveJobs(DocOf[j]) \ {j} # {}

Requeue(w) ==
  /\ pc[w] = "report" /\ WillRetry(w)
  /\ ~OtherActive(claim[w])
  /\ SetJob(w, "queued")
  /\ status' = [status EXCEPT ![Doc(w)] = IF @ = "failed" THEN "queued" ELSE @]
  /\ Rest(w)
  /\ UNCHANGED <<file, imported, attempts, candidates, mishaps>>

\* The IntegrityError is caught by nobody: the worker process dies.
RequeueCollides(w) ==
  /\ pc[w] = "report" /\ WillRetry(w)
  /\ OtherActive(claim[w])
  /\ Rest(w)
  /\ UNCHANGED <<status, file, imported, jobVars, candidates, mishaps>>

MarkFailed(w) ==
  /\ pc[w] = "report" /\ outcome[w] # "ok" /\ ~WillRetry(w)
  /\ SetJob(w, "failed") /\ Rest(w)
  /\ UNCHANGED <<status, file, imported, attempts, candidates, mishaps>>

Work(w) ==
  \/ LoadDocument(w) \/ Revalidate(w) \/ CheckFile(w) \/ StartPreprocessing(w)
  \/ DecodeImage(w) \/ StartOcr(w) \/ RunEngines(w) \/ ImportObservations(w)
  \/ StartParsing(w) \/ BecomeReady(w) \/ HandleError(w) \/ FailDocument(w)
  \/ CleanUp(w) \/ MarkSucceeded(w) \/ Requeue(w) \/ RequeueCollides(w) \/ MarkFailed(w)

-----------------------------------------------------------------------------
(* Workers that die, and the recovery timer *)

\* Between any two steps: the open transaction rolls back, the job row stays.
Die(w) ==
  /\ pc[w] # "idle" /\ Mishap /\ Rest(w)
  /\ UNCHANGED <<status, file, imported, jobVars, candidates>>

\* Mutant: only the document goes back, the job keeps its claim.
RecoverDocumentOnly(stale) ==
  /\ stale # {} /\ \A j \in stale : jobStatus[j] = "running" /\ ~Held(j)
  /\ status' = [d \in Docs |->
       IF status[d] \in BeingRead /\ \E j \in stale : DocOf[j] = d
       THEN "queued" ELSE status[d]]
  /\ UNCHANGED <<file, imported, jobVars, workerVars, candidates, mishaps>>

\* Mutant: only the job goes back, the document stays where its worker left it.
RecoverJobOnly(stale) ==
  /\ stale # {} /\ \A j \in stale : jobStatus[j] = "running" /\ ~Held(j)
  /\ jobStatus' = [j \in Jobs |-> IF j \in stale THEN "queued" ELSE jobStatus[j]]
  /\ UNCHANGED <<status, file, imported, attempts, workerVars, candidates, mishaps>>

\* recover_stale takes every job whose claim is older than the cutoff.  An
\* abandoned job gets that old; with SlowWorkers so does one being worked on.
Recover(stale) ==
  /\ stale # {} /\ \A j \in stale : jobStatus[j] = "running"
  /\ IF \E j \in stale : Held(j) THEN SlowWorkers /\ Mishap ELSE UNCHANGED mishaps
  /\ jobStatus' = [j \in Jobs |-> IF j \in stale THEN "queued" ELSE jobStatus[j]]
  /\ status' = [d \in Docs |->
       IF status[d] \in BeingRead /\ \E j \in stale : DocOf[j] = d
       THEN "queued" ELSE status[d]]
  /\ UNCHANGED <<file, imported, attempts, workerVars, candidates>>

-----------------------------------------------------------------------------
(* Reviewers, retention and the file cleaner *)

\* delete_document removes the file and then moves the row, in one transaction.
Delete(d) ==
  /\ CanBecome(d, "deleted")
  /\ status' = [status EXCEPT ![d] = "deleted"]
  /\ Removes(d)
  /\ UNCHANGED <<imported, jobVars, workerVars, candidates, mishaps>>

\* The process dies in between: the row rolls back and the file does not.
DeleteRollsBack(d) ==
  /\ DeletesFail /\ CanBecome(d, "deleted") /\ Mishap
  /\ file' = [file EXCEPT ![d] = FALSE]
  /\ UNCHANGED <<status, imported, jobVars, workerVars, candidates>>

\* expire_documents: whichever documents at rest have passed their deadline.
Expire(due) ==
  /\ due # {} /\ \A d \in due : status[d] \in Expirable
  /\ status' = [d \in Docs |-> IF d \in due THEN "deleted" ELSE status[d]]
  /\ \E gone \in SUBSET due :
       file' = [d \in Docs |-> IF d \in gone THEN FALSE ELSE file[d]]
  /\ UNCHANGED <<imported, jobVars, workerVars, candidates, mishaps>>

\* Mutant: the document is queued and no job is created for it.
ReprocessWithoutJob(d) ==
  /\ status[d] \in Reprocessable
  /\ status' = [status EXCEPT ![d] = "queued"]
  /\ UNCHANGED <<file, imported, jobVars, workerVars, candidates, mishaps>>

\* Mutant: a job is created beside the one that is still running.
ReprocessBesideRunning(d) ==
  /\ status[d] \in Reprocessable
  /\ status' = [status EXCEPT ![d] = "queued"]
  /\ \E j \in Jobs : NewJob(d, j)
  /\ UNCHANGED <<file, imported, workerVars, candidates, mishaps>>

\* request_reprocess: an existing queued job is used; a running one makes the
\* insert fail on the unique index, and the whole request rolls back.
RequestReprocess(d) ==
  /\ status[d] \in Reprocessable
  /\ status' = [status EXCEPT ![d] = "queued"]
  /\ IF \E j \in ActiveJobs(d) : Queued(j)
     THEN UNCHANGED jobVars
     ELSE ActiveJobs(d) = {} /\ \E j \in Jobs : NewJob(d, j)
  /\ UNCHANGED <<file, imported, workerVars, candidates, mishaps>>

\* Mutant: only directories of documents without a row are looked at.
CollectOrphans(found) ==
  /\ candidates = {} /\ found # {}
  /\ \A d \in found : file[d] /\ status[d] \in NoRow
  /\ candidates' = found
  /\ UNCHANGED <<status, file, imported, jobVars, workerVars, mishaps>>

\* stale_document_candidates: directories of documents that have no row or are
\* not active; the cutoff decides how many of them.
CollectCandidates(found) ==
  /\ candidates = {} /\ found # {}
  /\ \A d \in found : file[d] /\ status[d] \notin Active
  /\ candidates' = found
  /\ UNCHANGED <<status, file, imported, jobVars, workerVars, mishaps>>

\* Mutant: the decision made without a lock is not looked at again.
StillStaleUnchecked(d) == TRUE

\* _remove_candidates decides again, with the job and the document locked.
StillStale(d) ==
  /\ status[d] \notin Active
  /\ \A j \in ActiveJobs(d) : jobStatus[j] # "running"

SkipCandidate(d) ==
  /\ d \in candidates
  /\ candidates' = candidates \ {d}
  /\ UNCHANGED <<status, file, imported, jobVars, workerVars, mishaps>>

RemoveCandidate(d) ==
  /\ d \in candidates /\ StillStale(d)
  /\ candidates' = candidates \ {d}
  /\ file' = [file EXCEPT ![d] = FALSE]
  /\ UNCHANGED <<status, imported, jobVars, workerVars, mishaps>>

-----------------------------------------------------------------------------

Next ==
  \/ \E d \in Docs :
       \/ StoreUpload(d) \/ CommitUpload(d) \/ AbortUpload(d)
       \/ Delete(d) \/ DeleteRollsBack(d) \/ RequestReprocess(d)
       \/ SkipCandidate(d) \/ RemoveCandidate(d)
  \/ \E w \in Workers : ClaimNothing(w) \/ Work(w) \/ Die(w) \/ \E j \in Jobs : Claim(w, j)
  \/ \E stale \in SUBSET Jobs : Recover(stale)
  \/ \E ds \in SUBSET Docs : Expire(ds) \/ CollectCandidates(ds)

Spec == Init /\ [][Next]_vars

\* Workers poll and take every step of a job they hold; the oldest job is
\* claimed first, so every queued job is reached in the end; the recovery and
\* cleaning timers fire again and again, and a directory that can be removed is
\* in the end.  Nobody is obliged to upload, delete or ask for another pass.
Serve(j) == Queued(j) /\ (\E w \in Workers : ClaimNothing(w) \/ \E k \in Jobs : Claim(w, k))
            /\ jobStatus'[j] # "queued"

Fairness ==
  /\ \A w \in Workers : WF_vars(Work(w))
  /\ \A j \in Jobs : SF_vars(Serve(j))
  /\ \A j \in Jobs : WF_vars(\E stale \in SUBSET Jobs :
                               j \in stale /\ ~Held(j) /\ Recover(stale))
  /\ \A d \in Docs : WF_vars(SkipCandidate(d) /\ ~StillStale(d))
  /\ \A d \in Docs : SF_vars(RemoveCandidate(d))
  /\ \A d \in Docs : SF_vars(\E ds \in SUBSET Docs : d \in ds /\ CollectCandidates(ds))

FairSpec == Spec /\ Fairness

-----------------------------------------------------------------------------
(* Properties *)

\* Two workers never hold jobs of the same document: claim_next, the unique
\* index, retries, recovery and reprocessing together keep a document with one
\* worker for as long as recovery only takes abandoned jobs.
ExclusiveWork ==
  \A v, w \in Workers :
    claim[v] # NoJob /\ claim[w] # NoJob /\ v # w => Doc(v) # Doc(w)

\* However claims, retries, recoveries and requests for another pass interleave,
\* a document never has two queued or running jobs.
OneActiveJob == \A d \in Docs : \A j, k \in ActiveJobs(d) : j = k

\* A document that is queued or being read has a job that will get it out of
\* there ("a queued document with no job would wait forever").
NeverStranded == \A d \in Docs : status[d] \in InFlight => ActiveJobs(d) # {}

\* A document offered for review has imported observations, whichever worker,
\* attempt or recovery brought it there.
ReviewHasRows == \A d \in Docs : status[d] = "ready_for_review" => imported[d]

\* Nobody removes the screenshot from under the worker that found it, except the
\* owner by deleting the document: the cleaner decides on a directory long before
\* it reaches it, and must notice that the document went back to work.
ScreenshotKept ==
  \A w \in Workers :
    pc[w] \in {"preprocess", "decode", "ocr", "read"} =>
      file[Doc(w)] \/ status[Doc(w)] = "deleted"

\* What the owner of a document sees of its status.
Phase(s) ==
  CASE s \in NoRow -> "none"
    [] s \in {"pending", "queued"} -> "waiting"
    [] s \in BeingRead -> "reading"
    [] s \in {"ready_for_review", "confirmed"} -> "finished"
    [] s = "failed" -> "failed"
    [] s = "deleted" -> "deleted"

\* The queue keeps the promise made to the owner of a screenshot.
Lifecycle ==
  INSTANCE DocumentLifecycle WITH
    screenshot <- file, phase <- [d \in Docs |-> Phase(status[d])]

KeepsPromise == Lifecycle!Spec

\* Every job ends, succeeded or failed for good: retries are limited and every
\* abandoned claim is recovered.
EveryJobEnds ==
  \A j \in Jobs : Queued(j) ~> jobStatus[j] \in {"succeeded", "failed"}

\* Every document that waits gets to its owner in the end, whatever becomes of
\* the workers reading it.
DocumentSettles ==
  \A d \in Docs : status[d] \in InFlight ~> status[d] \in Expirable \cup {"deleted"}

\* A screenshot does not stay on disk: once its document is at rest the file is
\* erased, if not by the worker or the deletion then by the cleaner.
ScreenshotErased ==
  \A d \in Docs : file[d] /\ status[d] \notin Active ~> ~file[d] \/ status[d] \in Active

(* Statements of the repository that the code does not keep *)

\* "Each job stops after its configured max_attempts": a recovered claim counts
\* as an attempt and is never refused.
AttemptsBounded == \A j \in Jobs : attempts[j] <= MaxAttempts

\* "Transient. Nothing. The worker retries with backoff": a job that is going to
\* be retried still has the screenshot to read.
RetryHasScreenshot ==
  \A w \in Workers :
    pc[w] = "report" /\ WillRetry(w) /\ status[Doc(w)] = "failed" => file[Doc(w)]

\* A request for another pass over a document is accepted only while there is an
\* image to read.
ReprocessHasScreenshot ==
  [][\A d \in Docs : RequestReprocess(d) => file[d]]_vars

\* The cleaner removes "screenshot files whose rows are gone", not those whose
\* rows are about to be committed: a queued document that no worker has claimed
\* yet has its screenshot.
UnreadHasScreenshot ==
  \A d \in Docs :
    status[d] = "queued" /\ (\A j \in ActiveJobs(d) : attempts[j] = 0) /\ ~imported[d]
      /\ (\A j \in Jobs : DocOf[j] = d /\ jobStatus[j] # "unused" => j \in ActiveJobs(d))
      => file[d]
=============================================================================
