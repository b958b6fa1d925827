------------------------- MODULE DocumentLifecycle -------------------------
(***************************************************************************)
(* What the owner of an uploaded screenshot is promised, with no queue,    *)
(* worker, lease or cleaner in sight.  A document waits, is read, and      *)
(* either has rows to review or has failed; it can be sent round again;    *)
(* once deleted it stays deleted.  Its image is stored once, before the    *)
(* document exists, and is erased only while nobody is about to read it.   *)
(*                                                                         *)
(* DocumentQueue implements this specification: see Lifecycle there.       *)
(***************************************************************************)
CONSTANT Docs

VARIABLES phase,      \* where each document is, as its owner sees it
          screenshot  \* whether its image is on disk

vars == <<phase, screenshot>>

Phases == {"none", "waiting", "reading", "finished", "failed", "deleted"}

\* Nobody is about to read the image of a document in one of these phases.
AtRest == {"none", "finished", "failed", "deleted"}

Init ==
  /\ phase = [d \in Docs |-> "none"]
  /\ screenshot = [d \in Docs |-> FALSE]

\* The operations are stated for one document at a time, because one database
\* transaction (a recovery, a retention sweep) may move several of them.
Goes(d, from, to) ==
  phase[d] \in from /\ phase'[d] = to /\ screenshot'[d] = screenshot[d]

\* The image arrives while the document does not exist yet.
Store(d) == phase[d] = "none" /\ phase'[d] = "none" /\ screenshot'[d]

Accept(d) == Goes(d, {"none"}, "waiting")

\* A failed document may be picked up again without being seen to wait.
Begin(d) == Goes(d, {"waiting", "failed"}, "reading")

Finish(d) == Goes(d, {"reading"}, "finished")

Fail(d) == Goes(d, {"reading"}, "failed")

\* A retry, a recovery, or a reviewer's request for another pass.
Requeue(d) == Goes(d, {"reading", "finished", "failed"}, "waiting")

\* Deleting erases the image in the same step; a file that could not be removed
\* is left for a later Erase.
Delete(d) ==
  /\ phase[d] \notin {"none", "deleted"} /\ phase'[d] = "deleted"
  /\ screenshot'[d] => screenshot[d]

Erase(d) == phase[d] \in AtRest /\ phase'[d] = phase[d] /\ ~screenshot'[d]

Stay(d) == phase'[d] = phase[d] /\ screenshot'[d] = screenshot[d]

Next ==
  /\ phase' \in [Docs -> Phases]
  /\ screenshot' \in [Docs -> BOOLEAN]
  /\ \A d \in Docs :
       \/ Store(d) \/ Accept(d) \/ Begin(d) \/ Finish(d) \/ Fail(d)
       \/ Requeue(d) \/ Delete(d) \/ Erase(d) \/ Stay(d)

Spec == Init /\ [][Next]_vars
=============================================================================
