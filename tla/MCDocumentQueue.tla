-------------------------- MODULE MCDocumentQueue --------------------------
(* Small instances of DocumentQueue for TLC. *)
EXTENDS DocumentQueue, TLC

CONSTANTS d1, j1, j2, w1, w2

\* One document whose job can be followed by others (reprocessing).
OneDoc == {d1}
OneDocJobs == {j1, j2}
OneDocOf == [j \in {j1, j2} |-> d1]

\* One document whose only job can be recovered and retried.
OneJob == {j1}
OneJobOf == [j \in {j1} |-> d1]

\* Workers are interchangeable.
WorkerSymmetry == Permutations({w1, w2})
=============================================================================
