------------------------ MODULE DocumentQueueProofs ------------------------
(***************************************************************************)
(* What holds of DocumentQueue for every number of documents, jobs and     *)
(* workers and every limit on attempts.                                    *)
(***************************************************************************)
EXTENDS DocumentQueue, TLAPS

-----------------------------------------------------------------------------
(* Types *)

LEMMA TypeInit == Init => TypeOK
  BY QueueAssumption DEF Init, TypeOK, NoRow, Stages

\* The environment's actions: uploads, deaths, recovery, deletion, retention,
\* reprocessing and cleaning.
LEMMA TypeEnvironment ==
  ASSUME TypeOK,
         \/ \E d \in Docs :
              \/ StoreUpload(d) \/ CommitUpload(d) \/ AbortUpload(d)
              \/ Delete(d) \/ DeleteRollsBack(d) \/ RequestReprocess(d)
              \/ SkipCandidate(d) \/ RemoveCandidate(d)
         \/ \E w \in Workers : Die(w)
         \/ \E stale \in SUBSET Jobs : Recover(stale)
         \/ \E ds \in SUBSET Docs : Expire(ds) \/ CollectCandidates(ds)
  PROVE  TypeOK'
<1> USE QueueAssumption DEF TypeOK, workerVars, jobVars, DocStatus, NoRow, Stages, Removes, NewJob
<1>1. ASSUME NEW d \in Docs, StoreUpload(d) PROVE TypeOK'
  BY <1>1 DEF StoreUpload
<1>2. ASSUME NEW d \in Docs, CommitUpload(d) PROVE TypeOK'
  BY <1>2 DEF CommitUpload
<1>3. ASSUME NEW d \in Docs, AbortUpload(d) PROVE TypeOK'
  BY <1>3 DEF AbortUpload
<1>4. ASSUME NEW d \in Docs, Delete(d) PROVE TypeOK'
  BY <1>4 DEF Delete
<1>5. ASSUME NEW d \in Docs, DeleteRollsBack(d) PROVE TypeOK'
  BY <1>5 DEF DeleteRollsBack, Mishap
<1>6. ASSUME NEW d \in Docs, RequestReprocess(d) PROVE TypeOK'
  BY <1>6 DEF RequestReprocess
<1>7. ASSUME NEW d \in Docs, SkipCandidate(d) \/ RemoveCandidate(d) PROVE TypeOK'
  BY <1>7 DEF SkipCandidate, RemoveCandidate
<1>8. ASSUME NEW w \in Workers, Die(w) PROVE TypeOK'
  BY <1>8 DEF Die, Mishap, Rest, Goto
<1>9. ASSUME NEW stale \in SUBSET Jobs, Recover(stale) PROVE TypeOK'
  BY <1>9 DEF Recover, Mishap
<1>10. ASSUME NEW ds \in SUBSET Docs, Expire(ds) PROVE TypeOK'
  <2>1. PICK gone \in SUBSET ds : file' = [d \in Docs |-> IF d \in gone THEN FALSE ELSE file[d]]
    BY <1>10 DEF Expire
  <2>2. file' \in [Docs -> BOOLEAN]
    BY <2>1
  <2>3. status' \in [Docs -> DocStatus \cup NoRow]
    BY <1>10 DEF Expire
  <2>4. QED
    BY <1>10, <2>2, <2>3 DEF Expire
<1>11. ASSUME NEW ds \in SUBSET Docs, CollectCandidates(ds) PROVE TypeOK'
  BY <1>11 DEF CollectCandidates
<1>12. QED
  BY <1>1, <1>2, <1>3, <1>4, <1>5, <1>6, <1>7, <1>8, <1>9, <1>10, <1>11

LEMMA TypeClaim ==
  ASSUME TypeOK, NEW w \in Workers, ClaimNothing(w) \/ \E j \in Jobs : Claim(w, j)
  PROVE  TypeOK'
<1> USE QueueAssumption DEF TypeOK, workerVars, jobVars, DocStatus, NoRow, Stages, FailRefused
<1>1. CASE ClaimNothing(w)
  BY <1>1 DEF ClaimNothing
<1>2. ASSUME NEW j \in Jobs, Claim(w, j) PROVE TypeOK'
  BY <1>2 DEF Claim
<1>3. QED
  BY <1>1, <1>2

LEMMA TypeWork == ASSUME TypeOK, NEW w \in Workers, Work(w) PROVE TypeOK'
<1> USE QueueAssumption DEF TypeOK, workerVars, jobVars, DocStatus, NoRow, Stages, Goto, End, Raise, Doc
<1>1. CASE LoadDocument(w)
  BY <1>1 DEF LoadDocument
<1>2. ASSUME NEW here \in Stages \ {"idle"}, NEW target \in DocStatus,
             NEW next \in Stages \ {"idle"}, Transition(w, here, target, next)
      PROVE  TypeOK'
  BY <1>2 DEF Transition
<1>3. CASE Revalidate(w) \/ StartPreprocessing(w) \/ StartOcr(w) \/ StartParsing(w) \/ BecomeReady(w)
  BY <1>2, <1>3 DEF Revalidate, StartPreprocessing, StartOcr, StartParsing, BecomeReady
<1>4. CASE CheckFile(w)
  BY <1>4 DEF CheckFile
<1>5. CASE DecodeImage(w) \/ RunEngines(w)
  BY <1>5 DEF DecodeImage, RunEngines, UseFile
<1>6. CASE ImportObservations(w)
  <2>1. CASE imported' = [imported EXCEPT ![Doc(w)] = TRUE] /\ Goto(w, "parsing") /\ UNCHANGED outcome
    BY <1>6, <2>1 DEF ImportObservations
  <2>2. ASSUME NEW o \in {"retryable", "terminal"}, Raise(w, o), UNCHANGED imported PROVE TypeOK'
    BY <1>6, <2>2 DEF ImportObservations
  <2>3. QED
    BY <1>6, <2>1, <2>2 DEF ImportObservations
<1>7. CASE HandleError(w)
  BY <1>7 DEF HandleError
<1>8. CASE FailDocument(w)
  BY <1>8 DEF FailDocument
<1>9. CASE CleanUp(w)
  BY <1>9 DEF CleanUp, Removes
<1>10. CASE MarkSucceeded(w) \/ Requeue(w) \/ RequeueCollides(w) \/ MarkFailed(w)
  BY <1>10 DEF MarkSucceeded, Requeue, RequeueCollides, MarkFailed, Rest, SetJob
<1>11. QED
  BY <1>1, <1>3, <1>4, <1>5, <1>6, <1>7, <1>8, <1>9, <1>10 DEF Work

\* TypeOK holds in every reachable state.
THEOREM TypeCorrect == Spec => []TypeOK
<1>1. TypeOK /\ [Next]_vars => TypeOK'
  <2> SUFFICES ASSUME TypeOK, [Next]_vars PROVE TypeOK'
    OBVIOUS
  <2>1. CASE UNCHANGED vars
    BY <2>1 DEF TypeOK, vars, workerVars, jobVars
  <2>2. CASE Next
    BY <2>2, TypeEnvironment, TypeClaim, TypeWork DEF Next
  <2>3. QED
    BY <2>1, <2>2
<1>2. QED
  BY TypeInit, <1>1, PTL DEF Spec

-----------------------------------------------------------------------------
(* A document has at most one queued or running job *)

IsActive(j) == jobStatus[j] \in {"queued", "running"}

\* Jobs are created with their document or after it.
RowsFirst ==
  \A j \in Jobs : status[DocOf[j]] \in NoRow => jobStatus[j] = "unused"

\* A worker holds only jobs that exist.
HeldCreated == \A w \in Workers : claim[w] # NoJob => jobStatus[claim[w]] # "unused"

JobsInv == RowsFirst /\ HeldCreated /\ OneActiveJob

\* No document row disappears.
RowsStay == \A d \in Docs : status'[d] \in NoRow => status[d] \in NoRow

\* A worker that holds a job after a step held it before, or it exists.
ClaimsStay ==
  \A w \in Workers : claim'[w] # NoJob =>
    claim'[w] = claim[w] \/ jobStatus'[claim'[w]] # "unused"

\* No job becomes active and none is created or disappears.
LEMMA NoNewWork ==
  ASSUME TypeOK, JobsInv, RowsStay, ClaimsStay,
         \A j \in Jobs : IsActive(j)' => IsActive(j),
         \A j \in Jobs : jobStatus[j] = "unused" <=> jobStatus'[j] = "unused"
  PROVE  JobsInv'
<1>1. RowsFirst' /\ OneActiveJob'
  BY QueueAssumption DEF JobsInv, RowsFirst, RowsStay, OneActiveJob, ActiveJobs, IsActive, TypeOK
<1>2. HeldCreated'
  BY DEF JobsInv, HeldCreated, ClaimsStay, TypeOK
<1>3. QED
  BY <1>1, <1>2 DEF JobsInv

\* One job becomes active, for a document that has a row and no other active job.
LEMMA NewWork ==
  ASSUME TypeOK, JobsInv, RowsStay, ClaimsStay, NEW j \in Jobs,
         ActiveJobs(DocOf[j]) \ {j} = {},
         status'[DocOf[j]] \notin NoRow,
         jobStatus' = [jobStatus EXCEPT ![j] = "queued"]
  PROVE  JobsInv'
<1>1. \A k \in Jobs : k # j => jobStatus'[k] = jobStatus[k]
  BY DEF TypeOK
<1>2. jobStatus'[j] = "queued"
  BY DEF TypeOK
<1>3. RowsFirst'
  BY <1>1, QueueAssumption DEF JobsInv, RowsFirst, RowsStay, TypeOK
<1>4. OneActiveJob'
  BY <1>1, QueueAssumption DEF JobsInv, OneActiveJob, ActiveJobs, TypeOK
<1>5. HeldCreated'
  BY <1>1, <1>2 DEF JobsInv, HeldCreated, ClaimsStay, TypeOK
<1>6. QED
  BY <1>3, <1>4, <1>5 DEF JobsInv

LEMMA JobsEnvironment ==
  ASSUME TypeOK, JobsInv,
         \/ \E d \in Docs :
              \/ StoreUpload(d) \/ CommitUpload(d) \/ AbortUpload(d)
              \/ Delete(d) \/ DeleteRollsBack(d) \/ RequestReprocess(d)
              \/ SkipCandidate(d) \/ RemoveCandidate(d)
         \/ \E w \in Workers : Die(w)
         \/ \E stale \in SUBSET Jobs : Recover(stale)
         \/ \E ds \in SUBSET Docs : Expire(ds) \/ CollectCandidates(ds)
  PROVE  JobsInv'
<1> USE DEF workerVars, jobVars, NoRow, IsActive
<1>1. ASSUME NEW d \in Docs,
             StoreUpload(d) \/ AbortUpload(d) \/ Delete(d) \/ DeleteRollsBack(d)
               \/ SkipCandidate(d) \/ RemoveCandidate(d)
      PROVE  JobsInv'
  <2>1. RowsStay
    BY <1>1 DEF RowsStay, StoreUpload, AbortUpload, Delete, DeleteRollsBack, SkipCandidate,
                RemoveCandidate, CanBecome, DocStatus, TypeOK
  <2>2. jobStatus' = jobStatus /\ claim' = claim
    BY <1>1 DEF StoreUpload, AbortUpload, Delete, DeleteRollsBack, SkipCandidate, RemoveCandidate
  <2>3. QED
    BY <2>1, <2>2, NoNewWork DEF ClaimsStay
<1>2. ASSUME NEW d \in Docs, CommitUpload(d) PROVE JobsInv'
  <2>1. PICK j \in Jobs : NewJob(d, j)
    BY <1>2 DEF CommitUpload
  <2>2. RowsStay /\ status'[DocOf[j]] \notin NoRow /\ claim' = claim
    BY <1>2, <2>1 DEF CommitUpload, NewJob, RowsStay, TypeOK
  <2>3. ActiveJobs(d) = {}
    BY <1>2 DEF JobsInv, RowsFirst, CommitUpload, ActiveJobs
  <2>4. QED
    BY <2>1, <2>2, <2>3, NewWork DEF NewJob, ClaimsStay
<1>3. ASSUME NEW d \in Docs, RequestReprocess(d) PROVE JobsInv'
  <2>1. /\ RowsStay /\ claim' = claim
        /\ status'[d] \notin NoRow
    BY <1>3 DEF RequestReprocess, RowsStay, TypeOK
  <2>2. CASE UNCHANGED jobVars
    BY <2>1, <2>2, NoNewWork DEF ClaimsStay
  <2>3. ASSUME ActiveJobs(d) = {}, NEW j \in Jobs, NewJob(d, j) PROVE JobsInv'
    BY <2>1, <2>3, NewWork DEF NewJob, ClaimsStay
  <2>4. QED
    BY <1>3, <2>2, <2>3 DEF RequestReprocess
<1>4. ASSUME NEW w \in Workers, Die(w) PROVE JobsInv'
  BY <1>4, NoNewWork DEF Die, Rest, RowsStay, ClaimsStay, TypeOK
<1>5. ASSUME NEW stale \in SUBSET Jobs, Recover(stale) PROVE JobsInv'
  <2>1. RowsStay
    BY <1>5 DEF Recover, RowsStay
  <2>2. QED
    BY <1>5, <2>1, NoNewWork DEF Recover, ClaimsStay, TypeOK
<1>6. ASSUME NEW ds \in SUBSET Docs, Expire(ds) PROVE JobsInv'
  BY <1>6, NoNewWork DEF Expire, RowsStay, ClaimsStay
<1>7. ASSUME NEW ds \in SUBSET Docs, CollectCandidates(ds) PROVE JobsInv'
  BY <1>7, NoNewWork DEF CollectCandidates, RowsStay, ClaimsStay
<1>8. QED
  BY <1>1, <1>2, <1>3, <1>4, <1>5, <1>6, <1>7

LEMMA JobsClaim ==
  ASSUME TypeOK, JobsInv, NEW w \in Workers, ClaimNothing(w) \/ \E j \in Jobs : Claim(w, j)
  PROVE  JobsInv'
<1> USE DEF workerVars, jobVars, NoRow, IsActive, FailRefused, Queued, Refused
<1>1. CASE ClaimNothing(w)
  BY <1>1, NoNewWork DEF ClaimNothing, RowsStay, ClaimsStay
<1>2. ASSUME NEW j \in Jobs, Claim(w, j) PROVE JobsInv'
  <2>1. PICK refused \in SUBSET {k \in Jobs : Refused(k)} :
          jobStatus' = [FailRefused(refused) EXCEPT ![j] = "running"]
    BY <1>2 DEF Claim
  <2>2. \A k \in Jobs :
          jobStatus'[k] = IF k = j THEN "running" ELSE IF k \in refused THEN "failed" ELSE jobStatus[k]
    BY <2>1
  <2>3. \A k \in refused : jobStatus[k] = "queued"
    OBVIOUS
  <2>4. jobStatus[j] = "queued"
    BY <1>2 DEF Claim, Claimable
  <2>5. RowsStay
    BY <1>2, QueueAssumption DEF Claim, RowsStay, TypeOK
  <2>6. ClaimsStay
    BY <1>2, <2>2 DEF Claim, ClaimsStay, TypeOK
  <2>7. QED
    BY <2>2, <2>3, <2>4, <2>5, <2>6, NoNewWork
<1>3. QED
  BY <1>1, <1>2

LEMMA JobsWork == ASSUME TypeOK, JobsInv, NEW w \in Workers, Work(w) PROVE JobsInv'
<1> USE DEF workerVars, jobVars, IsActive
<1> DEFINE Quiet == LoadDocument(w) \/ CheckFile(w) \/ DecodeImage(w) \/ RunEngines(w)
                      \/ ImportObservations(w) \/ HandleError(w) \/ CleanUp(w)
<1>1. CASE Quiet
  <2>1. jobStatus' = jobStatus /\ claim' = claim /\ status' = status
    BY <1>1 DEF LoadDocument, CheckFile, DecodeImage, RunEngines, UseFile, ImportObservations,
                HandleError, CleanUp
  <2>2. QED
    BY <2>1, NoNewWork DEF RowsStay, ClaimsStay
<1>2. ASSUME NEW here, NEW target \in DocStatus, NEW next, Transition(w, here, target, next)
      PROVE  JobsInv'
  <2>1. jobStatus' = jobStatus /\ claim' = claim
    BY <1>2 DEF Transition
  <2>2. RowsStay
    BY <1>2 DEF Transition, RowsStay, TypeOK, DocStatus, NoRow, CanBecome
  <2>3. QED
    BY <2>1, <2>2, NoNewWork DEF ClaimsStay
<1>3. CASE Revalidate(w) \/ StartPreprocessing(w) \/ StartOcr(w) \/ StartParsing(w) \/ BecomeReady(w)
  BY <1>2, <1>3
     DEF Revalidate, StartPreprocessing, StartOcr, StartParsing, BecomeReady, DocStatus
<1>4. CASE FailDocument(w)
  <2>1. jobStatus' = jobStatus /\ claim' = claim
    BY <1>4 DEF FailDocument
  <2>2. RowsStay
    BY <1>4 DEF FailDocument, RowsStay, TypeOK, DocStatus, NoRow
  <2>3. QED
    BY <2>1, <2>2, NoNewWork DEF ClaimsStay
<1>5. CASE MarkSucceeded(w) \/ MarkFailed(w)
  <2>1. status' = status /\ claim[w] \in Jobs /\ jobStatus[claim[w]] # "unused"
    BY <1>5 DEF MarkSucceeded, MarkFailed, TypeOK, JobsInv, HeldCreated
  <2>2. PICK s \in {"succeeded", "failed"} : jobStatus' = [jobStatus EXCEPT ![claim[w]] = s]
    BY <1>5 DEF MarkSucceeded, MarkFailed, SetJob
  <2>3. ClaimsStay
    BY <1>5 DEF MarkSucceeded, MarkFailed, Rest, ClaimsStay, TypeOK
  <2>4. QED
    BY <2>1, <2>2, <2>3, NoNewWork DEF RowsStay, TypeOK
<1>6. CASE Requeue(w)
  <2>1. claim[w] \in Jobs /\ jobStatus[claim[w]] # "unused"
    BY <1>6 DEF Requeue, TypeOK, JobsInv, HeldCreated
  <2>2. RowsStay /\ ClaimsStay
    BY <1>6 DEF Requeue, RowsStay, ClaimsStay, Rest, NoRow, Doc, TypeOK
  <2>3. status'[DocOf[claim[w]]] \notin NoRow
    BY <2>1, <2>2, QueueAssumption DEF RowsStay, JobsInv, RowsFirst
  <2>4. QED
    BY <1>6, <2>1, <2>2, <2>3, NewWork DEF Requeue, SetJob, OtherActive
<1>7. CASE RequeueCollides(w)
  BY <1>7, NoNewWork DEF RequeueCollides, Rest, RowsStay, ClaimsStay, TypeOK
<1>8. QED
  BY <1>1, <1>3, <1>4, <1>5, <1>6, <1>7 DEF Work

LEMMA JobsInvariant == Spec => []JobsInv
<1>1. Init => JobsInv
  BY QueueAssumption DEF Init, JobsInv, RowsFirst, HeldCreated, OneActiveJob, ActiveJobs
<1>2. TypeOK /\ JobsInv /\ [Next]_vars => JobsInv'
  <2> SUFFICES ASSUME TypeOK, JobsInv, [Next]_vars PROVE JobsInv'
    OBVIOUS
  <2>1. CASE UNCHANGED vars
    BY <2>1 DEF JobsInv, RowsFirst, HeldCreated, OneActiveJob, ActiveJobs, vars, workerVars, jobVars
  <2>2. CASE Next
    BY <2>2, JobsEnvironment, JobsClaim, JobsWork DEF Next
  <2>3. QED
    BY <2>1, <2>2
<1>3. QED
  BY <1>1, <1>2, TypeCorrect, PTL DEF Spec

\* However uploads, claims, retries, recoveries and requests for another pass
\* interleave, and whether or not claims expire under live workers, the code
\* never gives a document a second queued or running job.
THEOREM AtMostOneActiveJob == Spec => []OneActiveJob
BY JobsInvariant, PTL DEF JobsInv

-----------------------------------------------------------------------------
(* A document offered for review has rows *)

\* Whoever is past the import has imported.
ImportedFirst ==
  /\ ReviewHasRows
  /\ \A w \in Workers : pc[w] \in {"parsing", "ready"} => imported[Doc(w)]

\* Imported rows stay, no worker gets past the import and nothing becomes ready.
LEMMA NothingReady ==
  ASSUME TypeOK, TypeOK', ImportedFirst,
         \A d \in Docs : imported[d] => imported'[d],
         \A d \in Docs : status'[d] = "ready_for_review" => status[d] = "ready_for_review",
         \A w \in Workers : pc'[w] \in {"parsing", "ready"} =>
           pc[w] \in {"parsing", "ready"} /\ claim'[w] = claim[w]
  PROVE  ImportedFirst'
<1>1. ReviewHasRows'
  BY DEF ImportedFirst, ReviewHasRows
<1>2. ASSUME NEW w \in Workers, pc'[w] \in {"parsing", "ready"} PROVE imported'[Doc(w)']
  <2>1. pc[w] \in {"parsing", "ready"} /\ claim'[w] = claim[w] /\ claim[w] \in Jobs
    BY <1>2 DEF TypeOK
  <2>2. Doc(w)' = Doc(w) /\ Doc(w) \in Docs
    BY <2>1, QueueAssumption DEF Doc
  <2>3. QED
    BY <2>1, <2>2 DEF ImportedFirst
<1>3. QED
  BY <1>1, <1>2 DEF ImportedFirst

LEMMA ImportedStep == ASSUME TypeOK, TypeOK', ImportedFirst, Next PROVE ImportedFirst'
<1> USE DEF workerVars, jobVars, Goto, End, Raise
<1>1. ASSUME NEW d \in Docs,
             \/ StoreUpload(d) \/ CommitUpload(d) \/ AbortUpload(d)
             \/ Delete(d) \/ DeleteRollsBack(d) \/ RequestReprocess(d)
             \/ SkipCandidate(d) \/ RemoveCandidate(d)
      PROVE  ImportedFirst'
  <2>1. imported' = imported /\ pc' = pc /\ claim' = claim
    BY <1>1 DEF StoreUpload, CommitUpload, AbortUpload, Delete, DeleteRollsBack,
                RequestReprocess, SkipCandidate, RemoveCandidate
  <2>2. \E s \in {"uploading", "queued", "absent", "deleted", status[d]} :
          status' = [status EXCEPT ![d] = s]
    BY <1>1 DEF StoreUpload, CommitUpload, AbortUpload, Delete, DeleteRollsBack,
                RequestReprocess, SkipCandidate, RemoveCandidate, TypeOK
  <2>3. \A e \in Docs : status'[e] = "ready_for_review" => status[e] = "ready_for_review"
    BY <2>2 DEF TypeOK
  <2>4. QED
    BY <2>1, <2>3, NothingReady
<1>2. ASSUME NEW w \in Workers, Die(w) PROVE ImportedFirst'
  BY <1>2, NothingReady DEF Die, Rest, TypeOK
<1>3. ASSUME NEW stale \in SUBSET Jobs, Recover(stale) PROVE ImportedFirst'
  BY <1>3, NothingReady DEF Recover
<1>4. ASSUME NEW ds \in SUBSET Docs, Expire(ds) \/ CollectCandidates(ds) PROVE ImportedFirst'
  BY <1>4, NothingReady DEF Expire, CollectCandidates
<1>5. ASSUME NEW w \in Workers, NEW j \in Jobs, Claim(w, j) PROVE ImportedFirst'
  <2>1. \A d \in Docs : status'[d] = "ready_for_review" => status[d] = "ready_for_review"
    BY <1>5, QueueAssumption DEF Claim, TypeOK
  <2>2. QED
    BY <1>5, <2>1, NothingReady DEF Claim, TypeOK
<1>6. ASSUME NEW w \in Workers, ClaimNothing(w) PROVE ImportedFirst'
  BY <1>6, NothingReady DEF ClaimNothing
<1>7. ASSUME NEW w \in Workers, Work(w) PROVE ImportedFirst'
  <2>1. CASE LoadDocument(w) \/ CheckFile(w) \/ DecodeImage(w) \/ RunEngines(w)
              \/ HandleError(w) \/ CleanUp(w)
    <3>1. \E stage \in Stages \ {"parsing", "ready"} : pc' = [pc EXCEPT ![w] = stage]
      BY <2>1 DEF LoadDocument, CheckFile, DecodeImage, RunEngines, UseFile, HandleError,
                  CleanUp, Stages
    <3>2. imported' = imported /\ status' = status /\ claim' = claim
      BY <2>1 DEF LoadDocument, CheckFile, DecodeImage, RunEngines, UseFile, HandleError, CleanUp
    <3>3. QED
      BY <3>1, <3>2, NothingReady DEF TypeOK
  <2>2. CASE ImportObservations(w)
    <3>1. CASE imported' = [imported EXCEPT ![Doc(w)] = TRUE] /\ pc' = [pc EXCEPT ![w] = "parsing"]
      <4>1. status' = status /\ claim' = claim /\ claim[w] \in Jobs /\ Doc(w) \in Docs
        BY <2>2, QueueAssumption DEF ImportObservations, TypeOK, Doc
      <4>2. \A d \in Docs : imported[d] \/ d = Doc(w) => imported'[d]
        BY <3>1, <4>1 DEF TypeOK
      <4>3. ReviewHasRows'
        BY <4>1, <4>2 DEF ImportedFirst, ReviewHasRows
      <4>4. ASSUME NEW v \in Workers, pc'[v] \in {"parsing", "ready"} PROVE imported'[Doc(v)']
        <5>1. claim[v] \in Jobs /\ Doc(v)' = Doc(v) /\ Doc(v) \in Docs
          BY <4>1, <4>4, QueueAssumption DEF TypeOK, Doc
        <5>2. CASE v = w
          BY <4>2, <5>1, <5>2
        <5>3. CASE v # w
          <6>1. pc'[v] = pc[v]
            BY <3>1, <5>3 DEF TypeOK
          <6>2. QED
            BY <4>2, <4>4, <5>1, <6>1 DEF ImportedFirst
        <5>4. QED
          BY <5>2, <5>3
      <4>5. QED
        BY <4>3, <4>4 DEF ImportedFirst
    <3>2. CASE imported' = imported /\ pc' = [pc EXCEPT ![w] = "handle"]
      BY <2>2, <3>2, NothingReady DEF ImportObservations, TypeOK
    <3>3. QED
      BY <2>2, <3>1, <3>2 DEF ImportObservations
  <2>3. ASSUME NEW here, NEW target, NEW next \in Stages \ {"parsing"},
               target # "ready_for_review", next = "ready" => here = "parsing",
               Transition(w, here, target, next)
        PROVE  ImportedFirst'
    <3>1. imported' = imported /\ claim' = claim /\ pc[w] = here
      BY <2>3 DEF Transition
    <3>2. \A d \in Docs : status'[d] = "ready_for_review" => status[d] = "ready_for_review"
      BY <2>3 DEF Transition, TypeOK
    <3>3. \A v \in Workers : pc'[v] \in {"parsing", "ready"} => pc[v] \in {"parsing", "ready"}
      BY <2>3 DEF Transition, TypeOK
    <3>4. QED
      BY <3>1, <3>2, <3>3, NothingReady
  <2>4. CASE Revalidate(w) \/ StartPreprocessing(w) \/ StartOcr(w) \/ StartParsing(w)
    BY <2>3, <2>4 DEF Revalidate, StartPreprocessing, StartOcr, StartParsing, Stages
  <2>5. CASE BecomeReady(w)
    <3>1. /\ imported' = imported /\ claim' = claim /\ pc[w] = "ready" /\ claim[w] \in Jobs
          /\ Doc(w) \in Docs
      BY <2>5, QueueAssumption DEF BecomeReady, Transition, TypeOK, Doc
    <3>2. imported[Doc(w)]
      BY <3>1 DEF ImportedFirst
    <3>3. \A d \in Docs :
            status'[d] = "ready_for_review" => status[d] = "ready_for_review" \/ d = Doc(w)
      BY <2>5 DEF BecomeReady, Transition, TypeOK
    <3>4. ReviewHasRows'
      BY <3>1, <3>2, <3>3 DEF ImportedFirst, ReviewHasRows
    <3>5. \A v \in Workers : pc'[v] \in {"parsing", "ready"} => pc[v] \in {"parsing", "ready"}
      BY <2>5 DEF BecomeReady, Transition, TypeOK
    <3>6. QED
      BY <3>1, <3>4, <3>5 DEF ImportedFirst, Doc
  <2>6. CASE FailDocument(w)
    <3>1. imported' = imported /\ claim' = claim
      BY <2>6 DEF FailDocument
    <3>2. \A d \in Docs : status'[d] = "ready_for_review" => status[d] = "ready_for_review"
      BY <2>6 DEF FailDocument, TypeOK
    <3>3. \A v \in Workers : pc'[v] \in {"parsing", "ready"} => pc[v] \in {"parsing", "ready"}
      BY <2>6 DEF FailDocument, TypeOK
    <3>4. QED
      BY <3>1, <3>2, <3>3, NothingReady
  <2>7. CASE MarkSucceeded(w) \/ Requeue(w) \/ RequeueCollides(w) \/ MarkFailed(w)
    <3>1. imported' = imported /\ Rest(w)
      BY <2>7 DEF MarkSucceeded, Requeue, RequeueCollides, MarkFailed
    <3>2. \A d \in Docs : status'[d] = "ready_for_review" => status[d] = "ready_for_review"
      BY <2>7 DEF MarkSucceeded, Requeue, RequeueCollides, MarkFailed, TypeOK
    <3>3. \A v \in Workers : pc'[v] \in {"parsing", "ready"} =>
            pc[v] \in {"parsing", "ready"} /\ claim'[v] = claim[v]
      BY <3>1 DEF Rest, TypeOK
    <3>4. QED
      BY <3>1, <3>2, <3>3, NothingReady
  <2>8. QED
    BY <1>7, <2>1, <2>2, <2>4, <2>5, <2>6, <2>7 DEF Work
<1>8. QED
  BY <1>1, <1>2, <1>3, <1>4, <1>5, <1>6, <1>7 DEF Next

\* Nothing is offered for review without rows, even when a recovered claim sets
\* two workers on the same document.
THEOREM ReviewHasRowsHolds == Spec => []ReviewHasRows
<1>1. Init => ImportedFirst
  BY DEF Init, ImportedFirst, ReviewHasRows
<1>2. TypeOK /\ TypeOK' /\ ImportedFirst /\ [Next]_vars => ImportedFirst'
  <2> SUFFICES ASSUME TypeOK, TypeOK', ImportedFirst, [Next]_vars PROVE ImportedFirst'
    OBVIOUS
  <2>1. CASE UNCHANGED vars
    BY <2>1, NothingReady DEF vars, workerVars, jobVars
  <2>2. QED
    BY <2>1, ImportedStep
<1>3. QED
  BY <1>1, <1>2, TypeCorrect, PTL DEF Spec, ImportedFirst

-----------------------------------------------------------------------------
(* What holds while recovery takes only the jobs of workers that are gone: a *)
(* claim is then a lease that no second worker can hold (~SlowWorkers)       *)

\* A held job is running and is held once.
HeldJobs ==
  /\ \A w \in Workers : claim[w] # NoJob => jobStatus[claim[w]] = "running"
  /\ \A v, w \in Workers : v # w /\ claim[v] # NoJob => claim[v] # claim[w]

LeaseOK == TypeOK /\ JobsInv /\ HeldJobs

\* Held jobs stay held by whom they were, and running.
LEMMA HeldStay ==
  ASSUME TypeOK, TypeOK', HeldJobs,
         \A w \in Workers : claim'[w] # NoJob =>
           claim'[w] = claim[w] /\ jobStatus'[claim[w]] = jobStatus[claim[w]]
  PROVE  HeldJobs'
BY DEF HeldJobs, TypeOK

LEMMA HeldStep ==
  ASSUME ~SlowWorkers, TypeOK, TypeOK', HeldJobs, Next
  PROVE  HeldJobs'
<1> USE DEF workerVars, jobVars
<1>1. ASSUME NEW d \in Docs,
             \/ StoreUpload(d) \/ CommitUpload(d) \/ AbortUpload(d)
             \/ Delete(d) \/ DeleteRollsBack(d) \/ RequestReprocess(d)
             \/ SkipCandidate(d) \/ RemoveCandidate(d)
      PROVE  HeldJobs'
  <2>1. claim' = claim
    BY <1>1 DEF StoreUpload, CommitUpload, AbortUpload, Delete, DeleteRollsBack,
                RequestReprocess, SkipCandidate, RemoveCandidate
  <2>2. jobStatus' = jobStatus \/ \E j \in Jobs : NewJob(d, j)
    BY <1>1 DEF StoreUpload, CommitUpload, AbortUpload, Delete, DeleteRollsBack,
                RequestReprocess, SkipCandidate, RemoveCandidate
  <2>3. \A j \in Jobs : jobStatus[j] = "running" => jobStatus'[j] = "running"
    BY <2>2 DEF NewJob, TypeOK
  <2>4. QED
    BY <2>1, <2>3 DEF HeldJobs, TypeOK
<1>2. ASSUME NEW w \in Workers, Die(w) PROVE HeldJobs'
  BY <1>2, HeldStay DEF Die, Rest, TypeOK
<1>3. ASSUME NEW stale \in SUBSET Jobs, Recover(stale) PROVE HeldJobs'
  <2>1. \A w \in Workers : claim[w] \notin stale
    BY <1>3 DEF Recover, Held
  <2>2. QED
    BY <1>3, <2>1, HeldStay DEF Recover, TypeOK
<1>4. ASSUME NEW ds \in SUBSET Docs, Expire(ds) \/ CollectCandidates(ds) PROVE HeldJobs'
  BY <1>4, HeldStay DEF Expire, CollectCandidates
<1>5. ASSUME NEW w \in Workers, NEW j \in Jobs, Claim(w, j) PROVE HeldJobs'
  <2>1. PICK refused \in SUBSET {k \in Jobs : Refused(k)} :
          jobStatus' = [FailRefused(refused) EXCEPT ![j] = "running"]
    BY <1>5 DEF Claim
  <2>2. \A k \in Jobs : jobStatus[k] = "running" => k # j /\ k \notin refused
    BY <1>5 DEF Claim, Claimable, Refused, Queued
  <2>3. jobStatus'[j] = "running" /\ \A k \in Jobs : jobStatus[k] = "running" => jobStatus'[k] = "running"
    BY <2>1, <2>2 DEF FailRefused
  <2>4. \A v \in Workers : claim'[v] = IF v = w THEN j ELSE claim[v]
    BY <1>5 DEF Claim, TypeOK
  <2>5. jobStatus[j] # "running" /\ j # NoJob
    BY <1>5, QueueAssumption DEF Claim, Claimable, Queued
  <2>6. QED
    BY <2>3, <2>4, <2>5 DEF HeldJobs, TypeOK
<1>6. ASSUME NEW w \in Workers, ClaimNothing(w) PROVE HeldJobs'
  <2>1. \A k \in Jobs : jobStatus[k] = "running" => jobStatus'[k] = "running"
    BY <1>6 DEF ClaimNothing, FailRefused, Refused, Queued
  <2>2. QED
    BY <1>6, <2>1, HeldStay DEF ClaimNothing, HeldJobs, TypeOK
<1>7. ASSUME NEW w \in Workers, Work(w) PROVE HeldJobs'
  <2>1. CASE UNCHANGED <<claim, jobStatus>>
    BY <2>1, HeldStay
  <2>2. CASE Rest(w) /\ UNCHANGED jobStatus
    BY <2>2, HeldStay DEF Rest, TypeOK
  <2>3. ASSUME Rest(w), NEW s, SetJob(w, s) PROVE HeldJobs'
    <3>1. \A v \in Workers : claim'[v] = IF v = w THEN NoJob ELSE claim[v]
      BY <2>3 DEF Rest, TypeOK
    <3>2. \A j \in Jobs : j # claim[w] => jobStatus'[j] = jobStatus[j]
      BY <2>3 DEF SetJob, TypeOK
    <3>3. QED
      BY <3>1, <3>2 DEF HeldJobs, TypeOK
  <2>4. CASE LoadDocument(w) \/ CheckFile(w) \/ DecodeImage(w) \/ RunEngines(w) \/ ImportObservations(w)
              \/ HandleError(w) \/ FailDocument(w) \/ CleanUp(w)
    BY <2>1, <2>4 DEF LoadDocument, CheckFile, DecodeImage, RunEngines, UseFile, ImportObservations,
                      HandleError, FailDocument, CleanUp
  <2>5. CASE Revalidate(w) \/ StartPreprocessing(w) \/ StartOcr(w) \/ StartParsing(w) \/ BecomeReady(w)
    BY <2>1, <2>5 DEF Revalidate, StartPreprocessing, StartOcr, StartParsing, BecomeReady, Transition
  <2>6. CASE RequeueCollides(w)
    BY <2>2, <2>6 DEF RequeueCollides
  <2>7. CASE MarkSucceeded(w) \/ Requeue(w) \/ MarkFailed(w)
    BY <2>3, <2>7 DEF MarkSucceeded, Requeue, MarkFailed
  <2>8. QED
    BY <1>7, <2>4, <2>5, <2>6, <2>7 DEF Work
<1>8. QED
  BY <1>1, <1>2, <1>3, <1>4, <1>5, <1>6, <1>7 DEF Next

LEMMA LeaseInvariant == ASSUME ~SlowWorkers PROVE Spec => []LeaseOK
<1>1. Init => HeldJobs
  BY DEF Init, HeldJobs
<1>2. TypeOK /\ TypeOK' /\ HeldJobs /\ [Next]_vars => HeldJobs'
  <2> SUFFICES ASSUME TypeOK, TypeOK', HeldJobs, [Next]_vars PROVE HeldJobs'
    OBVIOUS
  <2>1. CASE UNCHANGED vars
    BY <2>1, HeldStay DEF vars, workerVars, jobVars
  <2>2. QED
    BY <2>1, HeldStep
<1>3. QED
  BY <1>1, <1>2, TypeCorrect, JobsInvariant, PTL DEF Spec, LeaseOK

\* Two workers never read the same document: the unique index leaves a document
\* one active job, and a job that is held is active and is held once.
LEMMA HeldApart ==
  ASSUME LeaseOK, NEW w \in Workers, NEW j \in Jobs,
         claim[w] # NoJob, j \in ActiveJobs(Doc(w))
  PROVE  j = claim[w]
<1>1. claim[w] \in Jobs /\ Doc(w) \in Docs /\ claim[w] \in ActiveJobs(Doc(w))
  BY QueueAssumption DEF LeaseOK, TypeOK, HeldJobs, ActiveJobs, Doc
<1>2. QED
  BY <1>1 DEF LeaseOK, JobsInv, OneActiveJob

THEOREM ExclusiveWorkHolds == ASSUME ~SlowWorkers PROVE Spec => []ExclusiveWork
<1>1. LeaseOK => ExclusiveWork
  <2> SUFFICES ASSUME LeaseOK, NEW v \in Workers, NEW w \in Workers,
                      claim[v] # NoJob, claim[w] # NoJob, v # w, Doc(v) = Doc(w)
               PROVE  FALSE
    BY DEF ExclusiveWork
  <2>1. claim[v] \in Jobs /\ claim[v] \in ActiveJobs(Doc(w))
    BY DEF LeaseOK, TypeOK, HeldJobs, ActiveJobs, Doc
  <2>2. claim[v] = claim[w]
    BY <2>1, HeldApart
  <2>3. QED
    BY <2>2 DEF LeaseOK, HeldJobs
<1>2. QED
  BY <1>1, LeaseInvariant, PTL

-----------------------------------------------------------------------------
(* The document is where its worker's next step expects it *)

\* A worker that could not open the owner's key reports with the document still
\* validating; nobody gets to revalidate.
Expected(stage) ==
  CASE stage \in {"load", "file", "preprocess"} -> {"validating"}
    [] stage \in {"decode", "ocr"} -> {"preprocessing"}
    [] stage \in {"read", "import", "parsing"} -> {"ocr_running"}
    [] stage = "ready" -> {"parsing"}
    [] stage \in {"handle", "fail"} -> BeingRead
    [] stage = "cleanup" -> {"ready_for_review", "failed"}
    [] stage = "report" -> {"ready_for_review", "failed"} \cup (IF KeysFail THEN {"validating"} ELSE {})
    [] OTHER -> {}

StageInv(w) == claim[w] # NoJob => status[Doc(w)] \in Expected(pc[w]) \cup {"deleted"}

StagesOK == LeaseOK /\ \A w \in Workers : StageInv(w)

\* A worker that takes no step keeps its place while its document keeps its
\* status or is deleted.
LEMMA StageStays ==
  ASSUME StagesOK, NEW v \in Workers,
         claim'[v] # NoJob => /\ claim'[v] = claim[v] /\ pc'[v] = pc[v]
                             /\ status'[Doc(v)] \in {status[Doc(v)], "deleted"}
  PROVE  StageInv(v)'
BY DEF StagesOK, StageInv, Doc, Expected

\* Only one worker moves, and only its own document: the others keep their place.
LEMMA OthersStay ==
  ASSUME StagesOK, NEW w \in Workers, NEW d \in Docs, NEW s,
         status' = [status EXCEPT ![d] = s],
         \E j \in ActiveJobs(d) : \A v \in Workers \ {w} : claim[v] # j,
         NEW v \in Workers, v # w, claim'[v] = claim[v], pc'[v] = pc[v]
  PROVE  StageInv(v)'
<1> SUFFICES ASSUME claim[v] # NoJob PROVE status'[Doc(v)] = status[Doc(v)]
  BY StageStays
<1>1. Doc(v) # d
  BY HeldApart DEF StagesOK, ActiveJobs
<1>2. QED
  BY <1>1, QueueAssumption DEF StagesOK, LeaseOK, TypeOK, Doc

\* The job a worker holds is active, and no other worker holds it.
LEMMA OwnJob ==
  ASSUME LeaseOK, NEW w \in Workers, claim[w] # NoJob
  PROVE  /\ claim[w] \in Jobs /\ Doc(w) \in Docs
         /\ claim[w] \in ActiveJobs(Doc(w))
         /\ \A v \in Workers \ {w} : claim[v] # claim[w]
BY QueueAssumption DEF LeaseOK, TypeOK, HeldJobs, ActiveJobs, Doc

\* None of these steps gives a worker that holds no job one.
LEMMA IdleStays ==
  ASSUME StagesOK, NEW v \in Workers, claim[v] = NoJob,
         \/ \E d \in Docs :
              \/ StoreUpload(d) \/ CommitUpload(d) \/ AbortUpload(d)
              \/ Delete(d) \/ DeleteRollsBack(d) \/ RequestReprocess(d)
              \/ SkipCandidate(d) \/ RemoveCandidate(d)
         \/ \E w \in Workers : Die(w) \/ ClaimNothing(w)
         \/ \E stale \in SUBSET Jobs : Recover(stale)
         \/ \E ds \in SUBSET Docs : Expire(ds) \/ CollectCandidates(ds)
  PROVE  StageInv(v)'
<1>1. claim'[v] = NoJob \/ UNCHANGED workerVars
  <2>1. CASE \E w \in Workers : Die(w)
    BY <2>1 DEF Die, Rest, StagesOK, LeaseOK, TypeOK
  <2>2. CASE ~\E w \in Workers : Die(w)
    BY <2>2 DEF StoreUpload, CommitUpload, AbortUpload, Delete, DeleteRollsBack, RequestReprocess,
         SkipCandidate, RemoveCandidate, ClaimNothing, Recover, Expire, CollectCandidates, workerVars
  <2> QED BY <2>1, <2>2
<1>2. claim'[v] = NoJob
  BY <1>1 DEF workerVars
<1> QED BY <1>2 DEF StageInv

LEMMA StageEnvironment ==
  ASSUME ~SlowWorkers, StagesOK, LeaseOK',
         \/ \E d \in Docs :
              \/ StoreUpload(d) \/ CommitUpload(d) \/ AbortUpload(d)
              \/ Delete(d) \/ DeleteRollsBack(d) \/ RequestReprocess(d)
              \/ SkipCandidate(d) \/ RemoveCandidate(d)
         \/ \E w \in Workers : Die(w) \/ ClaimNothing(w)
         \/ \E stale \in SUBSET Jobs : Recover(stale)
         \/ \E ds \in SUBSET Docs : Expire(ds) \/ CollectCandidates(ds),
         NEW v \in Workers
  PROVE  StageInv(v)'
<1> SUFFICES ASSUME claim[v] # NoJob PROVE StageInv(v)'
  BY IdleStays
<1>1. claim[v] \in Jobs /\ Doc(v) \in Docs /\ jobStatus[claim[v]] = "running" /\ claim[v] \in ActiveJobs(Doc(v))
  BY OwnJob DEF StagesOK, LeaseOK, HeldJobs
<1>2. status[Doc(v)] \notin NoRow
  BY <1>1 DEF StagesOK, LeaseOK, JobsInv, RowsFirst, Doc
<1>3. ASSUME NEW d \in Docs, StoreUpload(d) \/ CommitUpload(d) \/ AbortUpload(d)
      PROVE  StageInv(v)'
  <2>1. Doc(v) # d
    BY <1>2, <1>3 DEF StoreUpload, CommitUpload, AbortUpload, NoRow
  <2>2. QED
    BY <1>1, <1>3, <2>1, StageStays
       DEF StoreUpload, CommitUpload, AbortUpload, workerVars, StagesOK, LeaseOK, TypeOK
<1>4. ASSUME NEW d \in Docs,
             Delete(d) \/ DeleteRollsBack(d) \/ SkipCandidate(d) \/ RemoveCandidate(d)
      PROVE  StageInv(v)'
  BY <1>1, <1>4, StageStays
     DEF Delete, DeleteRollsBack, SkipCandidate, RemoveCandidate, workerVars, StagesOK, LeaseOK, TypeOK
<1>5. ASSUME NEW d \in Docs, RequestReprocess(d) PROVE StageInv(v)'
  <2>1. \A j \in ActiveJobs(Doc(v)) : jobStatus[j] = "running"
    BY <1>1, HeldApart DEF StagesOK, ActiveJobs
  <2>2. Doc(v) # d
    BY <1>1, <1>5, <2>1 DEF RequestReprocess, Queued
  <2>3. QED
    BY <1>1, <1>5, <2>2, StageStays DEF RequestReprocess, workerVars, StagesOK, LeaseOK, TypeOK
<1>6. ASSUME NEW w \in Workers, Die(w) PROVE StageInv(v)'
  BY <1>6, StageStays DEF Die, Rest, Goto, StagesOK, LeaseOK, TypeOK
<1>7. ASSUME NEW w \in Workers, ClaimNothing(w) PROVE StageInv(v)'
  BY <1>7, StageStays DEF ClaimNothing, workerVars
<1>8. ASSUME NEW stale \in SUBSET Jobs, Recover(stale) PROVE StageInv(v)'
  <2>1. claim[v] \notin stale
    BY <1>8 DEF Recover, Held
  <2>2. \A j \in stale : DocOf[j] # Doc(v)
    BY <1>8, <2>1, HeldApart DEF Recover, StagesOK, ActiveJobs
  <2>3. status'[Doc(v)] = status[Doc(v)]
    BY <1>1, <1>8, <2>2 DEF Recover
  <2>4. QED
    BY <1>8, <2>3, StageStays DEF Recover, workerVars
<1>9. ASSUME NEW ds \in SUBSET Docs, Expire(ds) \/ CollectCandidates(ds) PROVE StageInv(v)'
  BY <1>1, <1>9, StageStays DEF Expire, CollectCandidates, workerVars
<1>10. QED
  BY <1>3, <1>4, <1>5, <1>6, <1>7, <1>8, <1>9

LEMMA StageClaim ==
  ASSUME StagesOK, LeaseOK', NEW w \in Workers, NEW j \in Jobs, Claim(w, j), NEW v \in Workers
  PROVE  StageInv(v)'
<1>1. DocOf[j] \in Docs /\ jobStatus[j] = "queued" /\ j \in ActiveJobs(DocOf[j])
  BY QueueAssumption DEF Claim, Claimable, Queued, ActiveJobs
<1>2. \A u \in Workers : claim[u] # j
  BY <1>1, QueueAssumption DEF StagesOK, LeaseOK, HeldJobs
<1>3. CASE v = w
  <2>1. claim'[v] = j /\ pc'[v] = "load"
    BY <1>3 DEF Claim, StagesOK, LeaseOK, TypeOK
  <2>2. status' = [status EXCEPT ![DocOf[j]] =
                     IF status[DocOf[j]] = "deleted" THEN status[DocOf[j]] ELSE "validating"]
    BY DEF Claim
  <2>3. DOMAIN status = Docs
    BY DEF StagesOK, LeaseOK, TypeOK
  <2>4. status'[DocOf[j]] \in {"validating", "deleted"}
    BY <1>1, <2>2, <2>3
  <2>5. QED
    BY <2>1, <2>4 DEF StageInv, Doc, Expected
<1>4. CASE v # w
  <2>1. claim'[v] = claim[v] /\ pc'[v] = pc[v]
    BY <1>4 DEF Claim, StagesOK, LeaseOK, TypeOK
  <2>2. \E s : status' = [status EXCEPT ![DocOf[j]] = s]
    BY DEF Claim
  <2>3. \E k \in ActiveJobs(DocOf[j]) : \A u \in Workers \ {w} : claim[u] # k
    BY <1>1, <1>2
  <2>4. PICK s : status' = [status EXCEPT ![DocOf[j]] = s]
    BY <2>2
  <2>5. QED
    BY <1>1, <1>4, <2>1, <2>3, <2>4, OthersStay
<1>5. QED
  BY <1>3, <1>4

\* A worker's own step takes its document where the next stage expects it.
LEMMA StageOwn ==
  ASSUME StagesOK, LeaseOK', NEW w \in Workers, Work(w)
  PROVE  StageInv(w)' /\ \E s : status' = [status EXCEPT ![Doc(w)] = s]
<1> DEFINE Moved == \E s : status' = [status EXCEPT ![Doc(w)] = s]
<1> USE DEF Goto, End, Raise, Expected, BeingRead
<1>1. TypeOK
  BY DEF StagesOK, LeaseOK
<1>2. UNCHANGED status => Moved
  BY <1>1 DEF TypeOK
<1>3. ASSUME claim[w] # NoJob PROVE status[Doc(w)] \in Expected(pc[w]) \cup {"deleted"} /\ Doc(w) \in Docs
  BY <1>3, OwnJob DEF StagesOK, StageInv
<1>4. ASSUME pc[w] # "idle", claim' = claim,
             NEW stage \in Stages, pc' = [pc EXCEPT ![w] = stage],
             status' = status, status[Doc(w)] \in Expected(stage) \cup {"deleted"}
      PROVE  StageInv(w)'
  BY <1>1, <1>4 DEF StageInv, Doc, TypeOK
<1>5. CASE \/ LoadDocument(w) \/ CheckFile(w) \/ DecodeImage(w) \/ RunEngines(w)
           \/ ImportObservations(w) \/ HandleError(w) \/ CleanUp(w)
  <2>1. status' = status /\ claim' = claim /\ pc[w] # "idle" /\ claim[w] # NoJob
    BY <1>1, <1>5 DEF LoadDocument, CheckFile, DecodeImage, RunEngines, UseFile,
                      ImportObservations, HandleError, CleanUp, TypeOK
  <2>2. \E stage \in Stages :
          pc' = [pc EXCEPT ![w] = stage] /\ status[Doc(w)] \in Expected(stage) \cup {"deleted"}
    <3>1. CASE LoadDocument(w)
      BY <1>3, <2>1, <3>1 DEF LoadDocument, Stages
    <3>2. CASE CheckFile(w)
      BY <1>3, <2>1, <3>2 DEF CheckFile, Stages
    <3>3. CASE DecodeImage(w) \/ RunEngines(w)
      BY <1>3, <2>1, <3>3 DEF DecodeImage, RunEngines, UseFile, Stages
    <3>4. CASE ImportObservations(w)
      BY <1>3, <2>1, <3>4 DEF ImportObservations, Stages
    <3>5. CASE HandleError(w)
      BY <1>3, <2>1, <3>5 DEF HandleError, Stages
    <3>6. CASE CleanUp(w)
      BY <1>3, <2>1, <3>6 DEF CleanUp, Stages
    <3>7. QED
      BY <1>5, <3>1, <3>2, <3>3, <3>4, <3>5, <3>6
  <2>3. QED
    BY <1>2, <1>4, <2>1, <2>2
<1>6. ASSUME NEW here \in Stages \ {"idle"}, NEW target, NEW next \in Stages,
             Transition(w, here, target, next),
             Expected(here) \subseteq BeingRead, target \in Expected(next)
      PROVE  StageInv(w)' /\ Moved
  <2>1. claim' = claim /\ pc[w] = here /\ claim[w] # NoJob
    BY <1>1, <1>6 DEF Transition, TypeOK
  <2>2. status[Doc(w)] \in Expected(here) \cup {"deleted"} /\ Doc(w) \in Docs
    BY <1>3, <2>1
  <2>3. CASE status' = [status EXCEPT ![Doc(w)] = target] /\ pc' = [pc EXCEPT ![w] = next]
    <3>1. status'[Doc(w)] \in Expected(next) /\ pc'[w] = next /\ Doc(w)' = Doc(w)
      BY <1>1, <1>6, <2>1, <2>2, <2>3 DEF TypeOK, Doc
    <3>2. QED
      BY <2>3, <3>1 DEF StageInv
  <2>4. CASE status' = status /\ pc' = [pc EXCEPT ![w] = "handle"]
    <3>1. status[Doc(w)] \in Expected("handle") \cup {"deleted"}
      BY <1>6, <2>2
    <3>2. QED
      BY <1>2, <1>4, <2>1, <2>4, <3>1 DEF Stages
  <2>5. QED
    BY <1>6, <2>3, <2>4 DEF Transition
<1>7. CASE Revalidate(w)
  BY <1>6, <1>7 DEF Revalidate, Stages
<1>8. CASE StartPreprocessing(w)
  BY <1>6, <1>8 DEF StartPreprocessing, Stages
<1>9. CASE StartOcr(w)
  BY <1>6, <1>9 DEF StartOcr, Stages
<1>10. CASE StartParsing(w)
  BY <1>6, <1>10 DEF StartParsing, Stages
<1>11. CASE BecomeReady(w)
  BY <1>6, <1>11 DEF BecomeReady, Stages
<1>12. CASE FailDocument(w)
  <2>1. claim' = claim /\ pc[w] = "fail" /\ claim[w] # NoJob
    BY <1>1, <1>12 DEF FailDocument, TypeOK
  <2>2. status[Doc(w)] \in BeingRead \cup {"deleted"} /\ Doc(w) \in Docs
    BY <1>3, <2>1
  <2>3. CASE status' = [status EXCEPT ![Doc(w)] = "failed"] /\ pc' = [pc EXCEPT ![w] = "cleanup"]
    <3>1. status'[Doc(w)] = "failed" /\ pc'[w] = "cleanup" /\ Doc(w)' = Doc(w)
      BY <1>1, <2>1, <2>2, <2>3 DEF TypeOK, Doc
    <3>2. StageInv(w)'
      BY <3>1 DEF StageInv
    <3>3. QED
      BY <2>3, <3>2
  <2>4. CASE ~CanBecome(Doc(w), "failed") /\ status' = status /\ pc' = [pc EXCEPT ![w] = "cleanup"]
    <3>1. status[Doc(w)] = "deleted"
      BY <2>2, <2>4 DEF CanBecome, Allowed, DocStatus
    <3>2. QED
      BY <1>2, <1>4, <2>1, <2>4, <3>1 DEF Stages
  <2>5. QED
    BY <1>12, <2>3, <2>4 DEF FailDocument
<1>13. CASE MarkSucceeded(w) \/ Requeue(w) \/ RequeueCollides(w) \/ MarkFailed(w)
  <2>1. claim'[w] = NoJob
    BY <1>1, <1>13 DEF MarkSucceeded, Requeue, RequeueCollides, MarkFailed, Rest, TypeOK
  <2>2. Moved
    BY <1>2, <1>13 DEF MarkSucceeded, Requeue, RequeueCollides, MarkFailed
  <2>3. QED
    BY <2>1, <2>2 DEF StageInv
<1>14. QED
  BY <1>5, <1>7, <1>8, <1>9, <1>10, <1>11, <1>12, <1>13 DEF Work

LEMMA StageWork ==
  ASSUME StagesOK, LeaseOK', NEW w \in Workers, Work(w), NEW v \in Workers
  PROVE  StageInv(v)'
<1> SUFFICES ASSUME v # w PROVE StageInv(v)'
  BY StageOwn
<1>1. claim[w] # NoJob
  BY DEF StagesOK, LeaseOK, TypeOK, Work, LoadDocument, Revalidate, CheckFile, StartPreprocessing,
         DecodeImage, StartOcr, RunEngines, ImportObservations, StartParsing, BecomeReady,
         HandleError, FailDocument, CleanUp, MarkSucceeded, Requeue, RequeueCollides, MarkFailed,
         Transition, UseFile
<1>2. claim'[v] = claim[v] /\ pc'[v] = pc[v]
  <2> USE DEF StagesOK, LeaseOK, TypeOK, Goto, End, Raise
  <2>1. CASE \/ LoadDocument(w) \/ CheckFile(w) \/ DecodeImage(w) \/ RunEngines(w)
             \/ ImportObservations(w) \/ HandleError(w) \/ CleanUp(w) \/ FailDocument(w)
    BY <2>1 DEF LoadDocument, CheckFile, DecodeImage, RunEngines, UseFile, ImportObservations,
                HandleError, CleanUp, FailDocument
  <2>2. CASE Revalidate(w) \/ StartPreprocessing(w) \/ StartOcr(w) \/ StartParsing(w) \/ BecomeReady(w)
    BY <2>2 DEF Revalidate, StartPreprocessing, StartOcr, StartParsing, BecomeReady, Transition
  <2>3. CASE MarkSucceeded(w) \/ Requeue(w) \/ RequeueCollides(w) \/ MarkFailed(w)
    BY <2>3 DEF MarkSucceeded, Requeue, RequeueCollides, MarkFailed, Rest
  <2>4. QED
    BY <2>1, <2>2, <2>3 DEF Work
<1>3. PICK s : status' = [status EXCEPT ![Doc(w)] = s]
  BY StageOwn
<1>4. /\ Doc(w) \in Docs /\ claim[w] \in ActiveJobs(Doc(w))
      /\ \A u \in Workers \ {w} : claim[u] # claim[w]
  BY <1>1, OwnJob DEF StagesOK
<1>5. QED
  BY <1>2, <1>3, <1>4, OthersStay

LEMMA StageInvariant == ASSUME ~SlowWorkers PROVE Spec => []StagesOK
<1>1. Init => \A w \in Workers : StageInv(w)
  BY DEF Init, StageInv
<1>2. LeaseOK /\ LeaseOK' /\ StagesOK /\ [Next]_vars => StagesOK'
  <2> SUFFICES ASSUME LeaseOK', StagesOK, [Next]_vars, NEW v \in Workers PROVE StageInv(v)'
    BY DEF StagesOK
  <2>1. CASE UNCHANGED vars
    BY <2>1, StageStays DEF vars, workerVars
  <2>2. CASE Next
    BY <2>2, StageEnvironment, StageClaim, StageWork DEF Next
  <2>3. QED
    BY <2>1, <2>2
<1>3. QED
  BY <1>1, <1>2, LeaseInvariant, PTL DEF Spec, StagesOK

-----------------------------------------------------------------------------
(* Nobody is stranded *)

\* A job waits only for a document that nobody is reading.
QueuedRest == \A j \in Jobs : Queued(j) => status[DocOf[j]] \notin BeingRead

ServedInv == QueuedRest /\ NeverStranded

\* A step that touches one document d, which is given a queued job or is not in
\* flight afterwards, and leaves the jobs of all others alone.
LEMMA ServedOne ==
  ASSUME TypeOK, TypeOK', ServedInv, NEW d \in Docs,
         \A e \in Docs : e # d => status'[e] = status[e],
         \A j \in Jobs : DocOf[j] # d => jobStatus'[j] = jobStatus[j],
         \A j \in Jobs : DocOf[j] = d /\ jobStatus'[j] = "queued" => status'[d] \notin BeingRead,
         status'[d] \in InFlight => \E j \in ActiveJobs(d)' : TRUE
  PROVE  ServedInv'
<1>1. QueuedRest'
  BY QueueAssumption DEF ServedInv, QueuedRest, Queued, TypeOK
<1>2. NeverStranded'
  <2> SUFFICES ASSUME NEW e \in Docs, status'[e] \in InFlight PROVE ActiveJobs(e)' # {}
    BY DEF NeverStranded
  <2>1. CASE e = d
    BY <2>1
  <2>2. CASE e # d
    <3>1. PICK j \in ActiveJobs(e) : TRUE
      BY <2>2 DEF ServedInv, NeverStranded
    <3>2. j \in ActiveJobs(e)'
      BY <2>2, <3>1 DEF ActiveJobs
    <3>3. QED
      BY <3>2
  <2>3. QED
    BY <2>1, <2>2
<1>3. QED
  BY <1>1, <1>2 DEF ServedInv

\* A step that leaves the jobs alone and brings no document into flight.
LEMMA ServedStay ==
  ASSUME TypeOK, TypeOK', ServedInv, jobStatus' = jobStatus,
         \A d \in Docs : status'[d] \in InFlight => status'[d] = status[d]
  PROVE  ServedInv'
<1>1. QueuedRest'
  BY QueueAssumption DEF ServedInv, QueuedRest, Queued, TypeOK, InFlight
<1>2. NeverStranded'
  BY DEF ServedInv, NeverStranded, ActiveJobs
<1>3. QED
  BY <1>1, <1>2 DEF ServedInv

LEMMA ServedEnvironment ==
  ASSUME ~SlowWorkers, StagesOK, TypeOK', ServedInv,
         \/ \E d \in Docs :
              \/ StoreUpload(d) \/ CommitUpload(d) \/ AbortUpload(d)
              \/ Delete(d) \/ DeleteRollsBack(d) \/ RequestReprocess(d)
              \/ SkipCandidate(d) \/ RemoveCandidate(d)
         \/ \E w \in Workers : Die(w)
         \/ \E stale \in SUBSET Jobs : Recover(stale)
         \/ \E ds \in SUBSET Docs : Expire(ds) \/ CollectCandidates(ds)
  PROVE  ServedInv'
<1> USE DEF workerVars, jobVars, InFlight, BeingRead
<1>0. TypeOK
  BY DEF StagesOK, LeaseOK
<1>1. ASSUME NEW d \in Docs,
             StoreUpload(d) \/ AbortUpload(d) \/ Delete(d) \/ DeleteRollsBack(d)
               \/ SkipCandidate(d) \/ RemoveCandidate(d)
      PROVE  ServedInv'
  BY <1>0, <1>1, ServedStay
     DEF StoreUpload, AbortUpload, Delete, DeleteRollsBack, SkipCandidate, RemoveCandidate, TypeOK
<1>2. ASSUME NEW d \in Docs, NEW j \in Jobs, NewJob(d, j), status' = [status EXCEPT ![d] = "queued"]
      PROVE  ServedInv'
  <2>1. status'[d] = "queued" /\ \A e \in Docs : e # d => status'[e] = status[e]
    BY <1>0, <1>2 DEF TypeOK
  <2>2. jobStatus'[j] = "queued" /\ \A k \in Jobs : k # j => jobStatus'[k] = jobStatus[k]
    BY <1>0, <1>2 DEF TypeOK, NewJob
  <2>3. j \in ActiveJobs(d)'
    BY <1>2, <2>2 DEF ActiveJobs, NewJob
  <2>4. QED
    BY <1>0, <1>2, <2>1, <2>2, <2>3, ServedOne DEF NewJob
<1>3. ASSUME NEW d \in Docs, CommitUpload(d) PROVE ServedInv'
  BY <1>2, <1>3 DEF CommitUpload
<1>4. ASSUME NEW d \in Docs, RequestReprocess(d) PROVE ServedInv'
  <2>1. status' = [status EXCEPT ![d] = "queued"]
    BY <1>4 DEF RequestReprocess
  <2>2. ASSUME NEW j \in ActiveJobs(d), Queued(j), UNCHANGED jobVars PROVE ServedInv'
    <3>1. j \in ActiveJobs(d)'
      BY <2>2 DEF ActiveJobs
    <3>2. status'[d] = "queued" /\ \A e \in Docs : e # d => status'[e] = status[e]
      BY <1>0, <2>1 DEF TypeOK
    <3>3. QED
      BY <1>0, <2>2, <3>1, <3>2, ServedOne
  <2>3. QED
    BY <1>2, <1>4, <2>1, <2>2 DEF RequestReprocess
<1>5. ASSUME NEW w \in Workers, Die(w) PROVE ServedInv'
  BY <1>0, <1>5, ServedStay DEF Die
<1>6. ASSUME NEW stale \in SUBSET Jobs, Recover(stale) PROVE ServedInv'
  <2>1. \A j \in Jobs : jobStatus'[j] = IF j \in stale THEN "queued" ELSE jobStatus[j]
    BY <1>6 DEF Recover
  <2>2. \A d \in Docs : status'[d] = IF status[d] \in BeingRead /\ \E j \in stale : DocOf[j] = d
                                   THEN "queued" ELSE status[d]
    BY <1>6 DEF Recover
  <2>3. QueuedRest'
    <3> SUFFICES ASSUME NEW j \in Jobs, jobStatus'[j] = "queued" PROVE status'[DocOf[j]] \notin BeingRead
      BY DEF QueuedRest, Queued
    <3>1. DocOf[j] \in Docs
      BY QueueAssumption
    <3>2. CASE j \in stale
      BY <2>2, <3>1, <3>2
    <3>3. CASE j \notin stale
      BY <2>1, <2>2, <3>1, <3>3 DEF ServedInv, QueuedRest, Queued
    <3>4. QED
      BY <3>2, <3>3
  <2>4. NeverStranded'
    <3> SUFFICES ASSUME NEW d \in Docs, status'[d] \in InFlight PROVE ActiveJobs(d)' # {}
      BY DEF NeverStranded
    <3>1. PICK j \in ActiveJobs(d) : TRUE
      BY <2>2 DEF ServedInv, NeverStranded
    <3>2. j \in ActiveJobs(d)'
      BY <2>1, <3>1 DEF ActiveJobs
    <3>3. QED
      BY <3>2
  <2>5. QED
    BY <2>3, <2>4 DEF ServedInv
<1>7. ASSUME NEW ds \in SUBSET Docs, Expire(ds) \/ CollectCandidates(ds) PROVE ServedInv'
  BY <1>0, <1>7, ServedStay DEF Expire, CollectCandidates
<1>8. QED
  BY <1>1, <1>3, <1>4, <1>5, <1>6, <1>7

\* The jobs claim_next refuses are of documents that nobody waits for.
LEMMA RefusedRest ==
  ASSUME ServedInv, NEW k \in Jobs, Refused(k) PROVE status[DocOf[k]] \notin InFlight
BY DEF ServedInv, QueuedRest, Refused, Claimable, Queued, InFlight

LEMMA ServedClaim ==
  ASSUME StagesOK, TypeOK', ServedInv,
         NEW w \in Workers, ClaimNothing(w) \/ \E j \in Jobs : Claim(w, j)
  PROVE  ServedInv'
<1>0. TypeOK
  BY DEF StagesOK, LeaseOK
<1>1. ASSUME NEW refused \in SUBSET {k \in Jobs : Refused(k)},
             jobStatus' = FailRefused(refused), status' = status
      PROVE  ServedInv'
  <2>1. \A k \in Jobs : jobStatus'[k] = IF k \in refused THEN "failed" ELSE jobStatus[k]
    BY <1>1 DEF FailRefused
  <2>2. QueuedRest'
    BY <1>1, <2>1 DEF ServedInv, QueuedRest, Queued
  <2>3. NeverStranded'
    <3> SUFFICES ASSUME NEW d \in Docs, status[d] \in InFlight PROVE ActiveJobs(d)' # {}
      BY <1>1 DEF NeverStranded, InFlight
    <3>1. PICK j \in ActiveJobs(d) : TRUE
      BY DEF ServedInv, NeverStranded
    <3>2. j \notin refused
      BY <3>1, RefusedRest DEF ActiveJobs
    <3>3. QED
      BY <2>1, <3>1, <3>2 DEF ActiveJobs
  <2>4. QED
    BY <2>2, <2>3 DEF ServedInv
<1>2. CASE ClaimNothing(w)
  BY <1>1, <1>2 DEF ClaimNothing
<1>3. ASSUME NEW j \in Jobs, Claim(w, j) PROVE ServedInv'
  <2>1. PICK refused \in SUBSET {k \in Jobs : Refused(k)} :
          jobStatus' = [FailRefused(refused) EXCEPT ![j] = "running"]
    BY <1>3 DEF Claim
  <2>2. \A k \in Jobs : jobStatus'[k] =
          IF k = j THEN "running" ELSE IF k \in refused THEN "failed" ELSE jobStatus[k]
    BY <2>1 DEF FailRefused
  <2>3. DocOf[j] \in Docs /\ jobStatus[j] = "queued" /\ j \in ActiveJobs(DocOf[j])
    BY <1>3, QueueAssumption DEF Claim, Claimable, Queued, ActiveJobs
  <2>4. \A k \in ActiveJobs(DocOf[j]) : k = j
    BY <2>3 DEF StagesOK, LeaseOK, JobsInv, OneActiveJob
  <2>5. \A d \in Docs : d # DocOf[j] => status'[d] = status[d]
    BY <1>0, <1>3 DEF Claim, TypeOK
  <2>6. QueuedRest'
    <3> SUFFICES ASSUME NEW k \in Jobs, jobStatus'[k] = "queued" PROVE status'[DocOf[k]] \notin BeingRead
      BY DEF QueuedRest, Queued
    <3>1. k # j /\ jobStatus[k] = "queued" /\ DocOf[k] \in Docs
      BY <2>2, QueueAssumption
    <3>2. DocOf[k] # DocOf[j]
      BY <2>4, <3>1 DEF ActiveJobs
    <3>3. QED
      BY <2>5, <3>1, <3>2 DEF ServedInv, QueuedRest, Queued
  <2>7. NeverStranded'
    <3> SUFFICES ASSUME NEW d \in Docs, status'[d] \in InFlight PROVE ActiveJobs(d)' # {}
      BY DEF NeverStranded, InFlight, BeingRead
    <3>1. CASE d = DocOf[j]
      BY <2>2, <3>1 DEF ActiveJobs
    <3>2. CASE d # DocOf[j]
      <4>1. PICK k \in ActiveJobs(d) : TRUE
        BY <2>5, <3>2 DEF ServedInv, NeverStranded
      <4>2. k \notin refused
        BY <2>5, <3>2, <4>1, RefusedRest DEF ActiveJobs
      <4>3. QED
        BY <2>2, <4>1, <4>2 DEF ActiveJobs
    <3>3. QED
      BY <3>1, <3>2
  <2>8. QED
    BY <2>6, <2>7 DEF ServedInv
<1>4. QED
  BY <1>2, <1>3

LEMMA ServedWork ==
  ASSUME ~KeysFail, StagesOK, LeaseOK', ServedInv, NEW w \in Workers, Work(w)
  PROVE  ServedInv'
<1> DEFINE Ends == MarkSucceeded(w) \/ Requeue(w) \/ MarkFailed(w)
<1>0. TypeOK /\ TypeOK'
  BY DEF StagesOK, LeaseOK
<1>1. claim[w] # NoJob
  BY <1>0 DEF TypeOK, Work, LoadDocument, Revalidate, CheckFile, StartPreprocessing, DecodeImage,
         StartOcr, RunEngines, ImportObservations, StartParsing, BecomeReady, HandleError,
         FailDocument, CleanUp, MarkSucceeded, Requeue, RequeueCollides, MarkFailed,
         Transition, UseFile
<1>2. claim[w] \in Jobs /\ Doc(w) \in Docs /\ claim[w] \in ActiveJobs(Doc(w)) /\ jobStatus[claim[w]] = "running"
  BY <1>1, OwnJob DEF StagesOK, LeaseOK, HeldJobs
<1>3. \A j \in ActiveJobs(Doc(w)) : j = claim[w]
  BY <1>1, HeldApart DEF StagesOK, ActiveJobs
<1>4. \A e \in Docs : e # Doc(w) => status'[e] = status[e]
  BY <1>0, StageOwn DEF TypeOK
<1>5. CASE ~Ends
  <2>1. jobStatus' = jobStatus
    BY <1>5 DEF Work, LoadDocument, Revalidate, CheckFile, StartPreprocessing, DecodeImage,
         StartOcr, RunEngines, ImportObservations, StartParsing, BecomeReady, HandleError,
         FailDocument, CleanUp, RequeueCollides, Transition, UseFile, jobVars
  <2>2. \A d \in Docs : ActiveJobs(d)' = ActiveJobs(d)
    BY <2>1 DEF ActiveJobs
  <2>3. \A j \in Jobs : DocOf[j] = Doc(w) => jobStatus[j] # "queued"
    BY <1>2, <1>3 DEF ActiveJobs
  <2>4. PICK d \in Docs : d = Doc(w)
    BY <1>2
  <2>5. QED
    BY <1>0, <1>2, <1>4, <2>1, <2>2, <2>3, <2>4, ServedOne
<1>6. CASE Ends
  <2>1. pc[w] = "report"
    BY <1>6 DEF MarkSucceeded, Requeue, MarkFailed
  <2>2. status[Doc(w)] \in {"ready_for_review", "failed", "deleted"}
    BY <1>1, <2>1 DEF StagesOK, StageInv, Expected
  <2>3. PICK s \in {"succeeded", "failed", "queued"} : jobStatus' = [jobStatus EXCEPT ![claim[w]] = s]
    BY <1>6 DEF MarkSucceeded, Requeue, MarkFailed, SetJob
  <2>4. \A j \in Jobs : jobStatus'[j] = IF j = claim[w] THEN s ELSE jobStatus[j]
    BY <1>0, <2>3 DEF TypeOK
  <2>5. /\ status'[Doc(w)] \in {"ready_for_review", "failed", "queued", "deleted"}
        /\ status'[Doc(w)] = "queued" => s = "queued"
    <3>1. CASE MarkSucceeded(w) \/ MarkFailed(w)
      BY <2>2, <3>1 DEF MarkSucceeded, MarkFailed
    <3>2. CASE Requeue(w)
      <4>1. jobStatus'[claim[w]] = "queued"
        BY <1>0, <1>2, <3>2 DEF Requeue, SetJob, TypeOK
      <4>2. status'[Doc(w)] \in {"ready_for_review", "queued", "deleted"}
        BY <1>0, <1>2, <2>2, <3>2 DEF Requeue, TypeOK
      <4>3. QED
        BY <1>2, <2>4, <4>1, <4>2
    <3>3. QED
      BY <1>6, <3>1, <3>2
  <2>6. PICK d \in Docs : d = Doc(w)
    BY <1>2
  <2>7. \A j \in Jobs : DocOf[j] # d => jobStatus'[j] = jobStatus[j]
    BY <2>4, <2>6 DEF Doc
  <2>8. status'[d] \notin BeingRead
    BY <2>5, <2>6 DEF BeingRead
  <2>9. s = "queued" => claim[w] \in ActiveJobs(d)'
    BY <1>2, <2>4, <2>6 DEF ActiveJobs, Doc
  <2>10. status'[d] \in InFlight => s = "queued"
    BY <2>5, <2>6 DEF InFlight, BeingRead
  <2>11. QED
    BY <1>0, <1>4, <2>6, <2>7, <2>8, <2>9, <2>10, ServedOne
<1>7. QED
  BY <1>5, <1>6

\* A document that is waiting or being read has a job that will move it on, for
\* as long as recovery takes only abandoned jobs and owners' keys can be opened.
THEOREM NobodyStranded ==
  ASSUME ~SlowWorkers, ~KeysFail PROVE Spec => []NeverStranded
<1>1. Init => ServedInv
  BY DEF Init, ServedInv, QueuedRest, NeverStranded, Queued, InFlight, BeingRead
<1>2. StagesOK /\ StagesOK' /\ ServedInv /\ [Next]_vars => ServedInv'
  <2> SUFFICES ASSUME StagesOK, StagesOK', ServedInv, [Next]_vars PROVE ServedInv'
    OBVIOUS
  <2>1. TypeOK /\ TypeOK' /\ LeaseOK'
    BY DEF StagesOK, LeaseOK
  <2>2. CASE UNCHANGED vars
    BY <2>1, <2>2, ServedStay DEF vars, jobVars
  <2>3. CASE Next
    BY <2>1, <2>3, ServedEnvironment, ServedClaim, ServedWork DEF Next
  <2>4. QED
    BY <2>2, <2>3
<1>3. QED
  BY <1>1, <1>2, StageInvariant, PTL DEF Spec, ServedInv

-----------------------------------------------------------------------------
(* The owner's promise *)

\* What DocumentLifecycle lets a step do to one document.
Kept(d) ==
  LET before == Phase(status[d])
      after == Phase(status'[d])
      same == file'[d] = file[d]
  IN \/ before = after /\ same
     \/ before = "none" /\ after = "none" /\ file'[d]
     \/ before = "none" /\ after = "waiting" /\ same
     \/ before \in {"waiting", "failed"} /\ after = "reading" /\ same
     \/ before = "reading" /\ after \in {"finished", "failed"} /\ same
     \/ before \in {"reading", "finished", "failed"} /\ after = "waiting" /\ same
     \/ before \notin {"none", "deleted"} /\ after = "deleted" /\ (file'[d] => file[d])
     \/ before = after /\ before \in {"none", "finished", "failed", "deleted"} /\ ~file'[d]

LEMMA KeptIsNext ==
  ASSUME TypeOK', \A d \in Docs : Kept(d) PROVE Lifecycle!Next
<1>1. \A s \in DocStatus \cup NoRow : Phase(s) \in Lifecycle!Phases
  BY DEF Phase, DocStatus, NoRow, BeingRead, Lifecycle!Phases
<1>2. [d \in Docs |-> Phase(status'[d])] \in [Docs -> Lifecycle!Phases]
  BY <1>1 DEF TypeOK
<1>3. file' \in [Docs -> BOOLEAN]
  BY DEF TypeOK
<1>4. ASSUME NEW d \in Docs
      PROVE  \/ Lifecycle!Store(d) \/ Lifecycle!Accept(d) \/ Lifecycle!Begin(d) \/ Lifecycle!Finish(d)
             \/ Lifecycle!Fail(d) \/ Lifecycle!Requeue(d) \/ Lifecycle!Delete(d)
             \/ Lifecycle!Erase(d) \/ Lifecycle!Stay(d)
  <2>1. Kept(d)
    BY <1>4
  <2>2. QED
    BY <1>4, <2>1 DEF Kept, Lifecycle!Store, Lifecycle!Accept, Lifecycle!Begin, Lifecycle!Finish,
       Lifecycle!Fail, Lifecycle!Requeue, Lifecycle!Delete, Lifecycle!Erase, Lifecycle!Stay,
       Lifecycle!Goes, Lifecycle!AtRest
<1>5. QED
  BY <1>2, <1>3, <1>4 DEF Lifecycle!Next

LEMMA KeptEnvironment ==
  ASSUME ~DeletesFail, TypeOK,
         \/ \E d \in Docs :
              \/ StoreUpload(d) \/ CommitUpload(d) \/ AbortUpload(d)
              \/ Delete(d) \/ DeleteRollsBack(d) \/ RequestReprocess(d)
              \/ SkipCandidate(d) \/ RemoveCandidate(d)
         \/ \E w \in Workers : Die(w) \/ ClaimNothing(w) \/ \E j \in Jobs : Claim(w, j)
         \/ \E stale \in SUBSET Jobs : Recover(stale)
         \/ \E ds \in SUBSET Docs : Expire(ds) \/ CollectCandidates(ds),
         NEW e \in Docs
  PROVE  Kept(e)
<1> USE DEF Kept, Phase, BeingRead, NoRow, DocStatus, TypeOK, workerVars, jobVars
<1>1. ASSUME NEW d \in Docs, StoreUpload(d) \/ CommitUpload(d) \/ AbortUpload(d) PROVE Kept(e)
  BY <1>1 DEF StoreUpload, CommitUpload, AbortUpload
<1>2. ASSUME NEW d \in Docs, Delete(d) PROVE Kept(e)
  <2>1. status[d] \notin NoRow \cup {"deleted"}
    BY <1>2 DEF Delete, CanBecome, Allowed
  <2>2. /\ status' = [status EXCEPT ![d] = "deleted"]
        /\ \A c \in Docs : file'[c] = file[c] \/ (c = d /\ ~file'[c])
    BY <1>2 DEF Delete, Removes
  <2>3. QED
    BY <2>1, <2>2
<1>10. ASSUME NEW d \in Docs, DeleteRollsBack(d) PROVE Kept(e)
  BY <1>10 DEF DeleteRollsBack
<1>3. ASSUME NEW d \in Docs, RequestReprocess(d) PROVE Kept(e)
  BY <1>3 DEF RequestReprocess, Reprocessable
<1>4. ASSUME NEW d \in Docs, SkipCandidate(d) \/ RemoveCandidate(d) PROVE Kept(e)
  BY <1>4 DEF SkipCandidate, RemoveCandidate, StillStale, Active, InFlight
<1>5. ASSUME NEW w \in Workers, Die(w) \/ ClaimNothing(w) PROVE Kept(e)
  BY <1>5 DEF Die, ClaimNothing
<1>6. ASSUME NEW w \in Workers, NEW j \in Jobs, Claim(w, j) PROVE Kept(e)
  BY <1>6, QueueAssumption DEF Claim, Claimable
<1>7. ASSUME NEW stale \in SUBSET Jobs, Recover(stale) PROVE Kept(e)
  BY <1>7 DEF Recover
<1>8. ASSUME NEW ds \in SUBSET Docs, Expire(ds) PROVE Kept(e)
  <2>1. PICK gone \in SUBSET ds : file' = [d \in Docs |-> IF d \in gone THEN FALSE ELSE file[d]]
    BY <1>8 DEF Expire
  <2>2. CASE e \in ds
    <3>1. status[e] \in {"ready_for_review", "confirmed", "failed"} /\ status'[e] = "deleted"
      BY <1>8, <2>2 DEF Expire, Expirable
    <3>2. file'[e] => file[e]
      BY <2>1
    <3>3. QED
      BY <3>1, <3>2
  <2>3. CASE e \notin ds
    <3>1. status'[e] = status[e] /\ file'[e] = file[e]
      BY <1>8, <2>1, <2>3 DEF Expire
    <3>2. QED
      BY <3>1
  <2>4. QED
    BY <2>2, <2>3
<1>9. ASSUME NEW ds \in SUBSET Docs, CollectCandidates(ds) PROVE Kept(e)
  BY <1>9 DEF CollectCandidates
<1>11. QED
  BY <1>1, <1>2, <1>3, <1>4, <1>5, <1>6, <1>7, <1>8, <1>9, <1>10

LEMMA KeptWork ==
  ASSUME StagesOK, LeaseOK', NEW w \in Workers, Work(w), NEW e \in Docs PROVE Kept(e)
<1>0. TypeOK
  BY DEF StagesOK, LeaseOK
<1>1. claim[w] # NoJob
  BY <1>0 DEF TypeOK, Work, LoadDocument, Revalidate, CheckFile, StartPreprocessing, DecodeImage,
         StartOcr, RunEngines, ImportObservations, StartParsing, BecomeReady, HandleError,
         FailDocument, CleanUp, MarkSucceeded, Requeue, RequeueCollides, MarkFailed,
         Transition, UseFile
<1>2. Doc(w) \in Docs /\ status[Doc(w)] \in Expected(pc[w]) \cup {"deleted"}
  BY <1>1, OwnJob DEF StagesOK, StageInv
<1>3. CASE CleanUp(w)
  <2>1. status[Doc(w)] \in {"ready_for_review", "failed", "deleted"} /\ status' = status
    BY <1>2, <1>3 DEF CleanUp, Expected
  <2>2. QED
    BY <1>0, <1>2, <1>3, <2>1 DEF CleanUp, Removes, Kept, Phase, NoRow, BeingRead, TypeOK
<1>4. CASE ~CleanUp(w)
  <2>1. file' = file
    BY <1>4 DEF Work, LoadDocument, Revalidate, CheckFile, StartPreprocessing, DecodeImage,
         StartOcr, RunEngines, ImportObservations, StartParsing, BecomeReady, HandleError,
         FailDocument, MarkSucceeded, Requeue, RequeueCollides, MarkFailed, Transition, UseFile
  <2>2. CASE status'[e] = status[e]
    BY <2>1, <2>2 DEF Kept
  <2>3. CASE status'[e] # status[e]
    <3>1. e = Doc(w)
      BY <1>0, <2>3, StageOwn DEF TypeOK
    <3>2. \/ status[e] \in BeingRead /\ status'[e] \in BeingRead \cup {"ready_for_review", "failed"}
          \/ status[e] = "failed" /\ status'[e] = "queued"
      <4>1. CASE Revalidate(w) \/ StartPreprocessing(w) \/ StartOcr(w) \/ StartParsing(w) \/ BecomeReady(w)
        <5>1. /\ status[e] \in BeingRead \cup {"deleted"}
              /\ CanBecome(e, status'[e])
              /\ status'[e] \in BeingRead \cup {"ready_for_review"}
          BY <1>0, <1>2, <2>3, <3>1, <4>1 DEF Revalidate, StartPreprocessing, StartOcr, StartParsing,
             BecomeReady, Transition, Expected, BeingRead, TypeOK
        <5>2. status[e] # "deleted"
          BY <5>1 DEF CanBecome, Allowed, DocStatus
        <5>3. QED
          BY <5>1, <5>2
      <4>2. CASE FailDocument(w)
        <5>1. /\ status[e] \in BeingRead \cup {"deleted"}
              /\ CanBecome(e, "failed") /\ status'[e] = "failed"
          BY <1>0, <1>2, <2>3, <3>1, <4>2 DEF FailDocument, Expected, TypeOK
        <5>2. status[e] # "deleted"
          BY <5>1 DEF CanBecome, Allowed, DocStatus
        <5>3. QED
          BY <5>1, <5>2
      <4>3. CASE Requeue(w)
        BY <1>0, <1>2, <2>3, <3>1, <4>3 DEF Requeue, TypeOK
      <4>4. CASE status' = status
        BY <2>3, <4>4
      <4>5. QED
        BY <4>1, <4>2, <4>3, <4>4 DEF Work, LoadDocument, CheckFile, DecodeImage, RunEngines,
           ImportObservations, HandleError, CleanUp, MarkSucceeded, RequeueCollides, MarkFailed, UseFile
    <3>3. QED
      BY <2>1, <3>2 DEF Kept, Phase, BeingRead, NoRow
  <2>4. QED
    BY <2>2, <2>3
<1>5. QED
  BY <1>3, <1>4

LEMMA KeptStep ==
  ASSUME ~DeletesFail, StagesOK, LeaseOK', Next, NEW e \in Docs PROVE Kept(e)
BY KeptEnvironment, KeptWork DEF Next, StagesOK, LeaseOK

\* The queue implements DocumentLifecycle, whatever the number of documents, jobs
\* and workers, while recovery takes only abandoned jobs and a deletion is not
\* interrupted between the file and the row.
THEOREM PromiseKept ==
  ASSUME ~SlowWorkers, ~DeletesFail PROVE Spec => KeepsPromise
<1>1. Init => Lifecycle!Init
  <2> SUFFICES ASSUME Init PROVE Lifecycle!Init
    OBVIOUS
  <2>1. Phase("absent") = "none"
    BY DEF Phase, NoRow, BeingRead
  <2>2. [d \in Docs |-> Phase(status[d])] = [d \in Docs |-> "none"]
    BY <2>1 DEF Init
  <2>3. QED
    BY <2>2 DEF Init, Lifecycle!Init
<1>2. StagesOK /\ StagesOK' /\ [Next]_vars => [Lifecycle!Next]_(Lifecycle!vars)
  <2> SUFFICES ASSUME StagesOK, StagesOK', [Next]_vars PROVE [Lifecycle!Next]_(Lifecycle!vars)
    OBVIOUS
  <2>1. TypeOK' /\ LeaseOK'
    BY DEF StagesOK, LeaseOK
  <2>2. CASE UNCHANGED vars
    BY <2>2 DEF vars, Lifecycle!vars
  <2>3. CASE Next
    BY <2>1, <2>3, KeptStep, KeptIsNext
  <2>4. QED
    BY <2>2, <2>3
<1>3. QED
  BY <1>1, <1>2, StageInvariant, PTL DEF Spec, KeepsPromise, Lifecycle!Spec

\* The screenshot stays for the worker that found it: what the owner was promised
\* of a document being read, seen from the worker.
THEOREM ScreenshotStays ==
  ASSUME ~SlowWorkers, ~DeletesFail PROVE Spec => []ScreenshotKept
<1> DEFINE NeedsFile == {"preprocess", "decode", "ocr", "read"}
<1>1. Init => ScreenshotKept
  BY DEF Init, ScreenshotKept
<1>2. StagesOK /\ StagesOK' /\ ScreenshotKept /\ [Next]_vars => ScreenshotKept'
  <2> SUFFICES ASSUME StagesOK, StagesOK', ScreenshotKept, [Next]_vars,
                      NEW v \in Workers, pc'[v] \in NeedsFile
               PROVE  file'[Doc(v)'] \/ status'[Doc(v)'] = "deleted"
    BY DEF ScreenshotKept
  <2>1. TypeOK /\ LeaseOK' /\ TypeOK'
    BY DEF StagesOK, LeaseOK
  <2>2. CASE UNCHANGED vars
    BY <2>2 DEF vars, workerVars, ScreenshotKept, Doc
  <2>3. CASE Next
    <3>1. claim'[v] = claim[v] /\ (pc[v] \in NeedsFile \/ CheckFile(v))
      <4> USE <2>1 DEF TypeOK, workerVars, jobVars, Goto, End, Raise
      <4>1. ASSUME NEW d \in Docs,
                   \/ StoreUpload(d) \/ CommitUpload(d) \/ AbortUpload(d)
                   \/ Delete(d) \/ DeleteRollsBack(d) \/ RequestReprocess(d)
                   \/ SkipCandidate(d) \/ RemoveCandidate(d)
            PROVE  pc' = pc /\ claim' = claim
        BY <4>1 DEF StoreUpload, CommitUpload, AbortUpload, Delete, DeleteRollsBack,
                    RequestReprocess, SkipCandidate, RemoveCandidate
      <4>2. ASSUME NEW stale \in SUBSET Jobs, Recover(stale) PROVE pc' = pc /\ claim' = claim
        BY <4>2 DEF Recover
      <4>3. ASSUME NEW ds \in SUBSET Docs, Expire(ds) \/ CollectCandidates(ds)
            PROVE  pc' = pc /\ claim' = claim
        BY <4>3 DEF Expire, CollectCandidates
      <4>4. ASSUME NEW w \in Workers,
                   \/ ClaimNothing(w) \/ Die(w) \/ \E j \in Jobs : Claim(w, j)
                   \/ MarkSucceeded(w) \/ Requeue(w) \/ RequeueCollides(w) \/ MarkFailed(w)
            PROVE  pc'[v] = pc[v] /\ claim'[v] = claim[v]
        BY <4>4 DEF ClaimNothing, Die, Claim, MarkSucceeded, Requeue, RequeueCollides, MarkFailed, Rest
      <4>5. ASSUME NEW w \in Workers,
                   \/ Revalidate(w) \/ StartPreprocessing(w) \/ StartOcr(w) \/ StartParsing(w)
                   \/ BecomeReady(w)
            PROVE  claim' = claim /\ pc[v] \in NeedsFile
        BY <4>5 DEF Revalidate, StartPreprocessing, StartOcr, StartParsing, BecomeReady, Transition
      <4>6. ASSUME NEW w \in Workers,
                   \/ LoadDocument(w) \/ DecodeImage(w) \/ RunEngines(w) \/ ImportObservations(w)
                   \/ HandleError(w) \/ FailDocument(w) \/ CleanUp(w)
            PROVE  claim' = claim /\ pc[v] \in NeedsFile
        BY <4>6 DEF LoadDocument, DecodeImage, RunEngines, UseFile, ImportObservations, HandleError,
                    FailDocument, CleanUp
      <4>7. ASSUME NEW w \in Workers, CheckFile(w)
            PROVE  claim' = claim /\ (pc[v] \in NeedsFile \/ CheckFile(v))
        BY <4>7 DEF CheckFile
      <4>8. ASSUME NEW w \in Workers, Work(w)
            PROVE  claim'[v] = claim[v] /\ (pc[v] \in NeedsFile \/ CheckFile(v))
        BY <4>4, <4>5, <4>6, <4>7, <4>8 DEF Work
      <4>9. QED
        BY <2>3, <4>1, <4>2, <4>3, <4>4, <4>8 DEF Next
    <3>2. claim[v] # NoJob /\ Doc(v)' = Doc(v) /\ Doc(v) \in Docs
      BY <2>1, <3>1, QueueAssumption DEF TypeOK, Doc
    <3>3. status[Doc(v)] \in BeingRead \cup {"deleted"}
      BY <3>1, <3>2 DEF StagesOK, StageInv, Expected, BeingRead, CheckFile
    <3>4. file[Doc(v)] \/ status[Doc(v)] = "deleted"
      <4>1. CASE pc[v] \in NeedsFile
        BY <4>1 DEF ScreenshotKept
      <4>2. CASE CheckFile(v)
        BY <2>1, <4>2 DEF CheckFile, Raise, End, Goto, TypeOK
      <4>3. QED
        BY <3>1, <4>1, <4>2
    <3>5. Kept(Doc(v))
      BY <2>1, <2>3, <3>2, KeptStep
    <3>6. Phase(status[Doc(v)]) = IF status[Doc(v)] = "deleted" THEN "deleted" ELSE "reading"
      BY <3>3 DEF Phase, BeingRead, NoRow
    <3>7. status'[Doc(v)] \in BeingRead \cup {"deleted"}
      BY <2>1, <3>1, <3>2 DEF StagesOK, StageInv, Expected, BeingRead, Doc
    <3>8. Phase(status'[Doc(v)]) = IF status'[Doc(v)] = "deleted" THEN "deleted" ELSE "reading"
      BY <3>7 DEF Phase, BeingRead, NoRow
    <3>9. QED
      BY <3>2, <3>4, <3>5, <3>6, <3>8 DEF Kept
  <2>4. QED
    BY <2>2, <2>3
<1>3. QED
  BY <1>1, <1>2, StageInvariant, PTL DEF Spec
=============================================================================
