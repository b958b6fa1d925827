------------------------------ MODULE Exports ------------------------------
(***************************************************************************)
(* Export files and the rows that describe them.  A request commits a row  *)
(* whose path is a placeholder nobody writes to, renders and writes the    *)
(* file, and then records its path; other requests download or delete it   *)
(* under a lock of its row; the hourly purge and the cleanup script erase  *)
(* what has expired, without that lock until they save the row.  One       *)
(* user's exports: another user's cannot be found.                         *)
(***************************************************************************)
EXTENDS Integers

CONSTANTS
  Rows,      \* TransactionExport identifiers
  Sessions,  \* concurrent requests that download or delete
  Purge,     \* the scheduled purge_expired_exports, one at a time
  Script,    \* cleanup_temp_files.py, run by hand
  Nobody,    \* holds no lock, works on nothing
  Hasty,     \* whether an export may expire while it is still being written
  MaxFaults  \* bounds the requests and sweeps that die or fail

Sweepers == {Purge, Script}

ASSUME ExportsAssumption ==
  /\ Purge # Script
  /\ Nobody \notin Rows \cup Sessions \cup Sweepers
  /\ Hasty \in BOOLEAN /\ MaxFaults \in Nat

VARIABLES
  row,      \* deleted_at: no row yet, a live one, or a deleted one
  named,    \* whether file_path is the file's, and no more the placeholder
  expired,  \* whether expires_at has passed
  file,     \* what is on disk under the export's own name
  writer,   \* where create_export is
  lock,     \* who has the row selected for update
  session,  \* what each request is doing
  sweep,    \* what each sweeper is doing
  faults

vars == <<row, named, expired, file, writer, lock, session, sweep, faults>>

IdleSession == [at |-> "idle", of |-> Nobody, payload |-> "none"]
IdleSweep == [at |-> "idle", on |-> Nobody, todo |-> {}, paths |-> {}]

TypeOK ==
  /\ row \in [Rows -> {"absent", "live", "deleted"}]
  /\ named \in [Rows -> BOOLEAN] /\ expired \in [Rows -> BOOLEAN]
  /\ file \in [Rows -> {"none", "partial", "whole"}]
  /\ writer \in [Rows -> {"idle", "rendering", "writing", "written", "failed", "over"}]
  /\ lock \in [Rows -> Sessions \cup {Nobody}]
  /\ session \in [Sessions ->
       [at : {"idle", "look", "read", "send", "find", "unlink", "mark"},
        of : Rows \cup {Nobody}, payload : {"none", "partial", "whole"}]]
  /\ sweep \in [Sweepers ->
       [at : {"idle", "next", "unlink", "mark"}, on : Rows \cup {Nobody},
        todo : SUBSET Rows, paths : SUBSET Rows]]
  /\ faults \in 0..MaxFaults

-----------------------------------------------------------------------------
(* create_export *)

Create(e) ==
  /\ row[e] = "absent"
  /\ row' = [row EXCEPT ![e] = "live"]
  /\ writer' = [writer EXCEPT ![e] = "rendering"]
  /\ UNCHANGED <<named, expired, file, lock, session, sweep, faults>>

\* _render touches no disk; write_bytes creates the file and then fills it.
Write(e) ==
  /\ \/ writer[e] = "rendering" /\ file' = [file EXCEPT ![e] = "partial"]
     \/ writer[e] = "writing" /\ file[e] = "partial" /\ file' = [file EXCEPT ![e] = "whole"]
  /\ writer' = [writer EXCEPT ![e] = "writing"]
  /\ UNCHANGED <<row, named, expired, lock, session, sweep, faults>>

Chmod(e) ==
  /\ writer[e] = "writing" /\ file[e] = "whole"
  /\ writer' = [writer EXCEPT ![e] = "written"]
  /\ UNCHANGED <<row, named, expired, file, lock, session, sweep, faults>>

\* Mutant: the path is recorded while the file is being written.
PublishableEarly(e) == writer[e] \in {"writing", "written"}

Publishable(e) == writer[e] = "written"

\* The path is recorded, in a transaction of its own and whatever has become of
\* the row meanwhile.
Publish(e) ==
  /\ Publishable(e) /\ lock[e] = Nobody
  /\ named' = [named EXCEPT ![e] = TRUE]
  /\ writer' = [writer EXCEPT ![e] = "over"]
  /\ UNCHANGED <<row, expired, file, lock, session, sweep, faults>>

\* Rendering, writing or chmod raises.
WriteFails(e) ==
  /\ writer[e] \in {"rendering", "writing"} /\ faults < MaxFaults
  /\ writer' = [writer EXCEPT ![e] = "failed"]
  /\ faults' = faults + 1
  /\ UNCHANGED <<row, named, expired, file, lock, session, sweep>>

\* Its handler unlinks what the row names, which is the placeholder, and marks it.
HandleFailure(e) ==
  /\ writer[e] = "failed" /\ lock[e] = Nobody
  /\ row' = [row EXCEPT ![e] = "deleted"]
  /\ writer' = [writer EXCEPT ![e] = "over"]
  /\ UNCHANGED <<named, expired, file, lock, session, sweep, faults>>

\* The request dies, or its last transaction is rolled back, which no handler sees.
WriterDies(e) ==
  /\ writer[e] \in {"rendering", "writing", "written", "failed"} /\ faults < MaxFaults
  /\ writer' = [writer EXCEPT ![e] = "over"]
  /\ faults' = faults + 1
  /\ UNCHANGED <<row, named, expired, file, lock, session, sweep>>

\* is_expired from now on.
Expire(e) ==
  /\ row[e] # "absent" /\ ~expired[e]
  /\ Hasty \/ writer[e] = "over"
  /\ expired' = [expired EXCEPT ![e] = TRUE]
  /\ UNCHANGED <<row, named, file, writer, lock, session, sweep, faults>>

-----------------------------------------------------------------------------
(* Files *)

\* Mutant: the file is looked for under the name it was created with.
PlaceholderOnly(e) == FALSE

\* export_file: whether the stored path is the file's own.
NamesFile(e) == named[e]

Exists(e, path) == path /\ file[e] # "none"

-----------------------------------------------------------------------------
(* read_export and delete_export: each holds the row from here to its commit *)

Select(s, e, at) ==
  /\ session[s] = IdleSession
  /\ row[e] # "absent" /\ lock[e] = Nobody
  /\ lock' = [lock EXCEPT ![e] = s]
  /\ session' = [session EXCEPT ![s] = [at |-> at, of |-> e, payload |-> "none"]]

Leave(s) ==
  /\ lock' = [lock EXCEPT ![session[s].of] = Nobody]
  /\ session' = [session EXCEPT ![s] = IdleSession]

Step(s, at) == session' = [session EXCEPT ![s].at = at]

\* read_export up to its checks of the row.
Download(s, e) ==
  /\ row[e] = "live" /\ ~expired[e]
  /\ Select(s, e, "look")
  /\ UNCHANGED <<row, named, expired, file, writer, sweep, faults>>

Look(s) ==
  LET e == session[s].of IN
  /\ session[s].at = "look"
  /\ IF Exists(e, NamesFile(e)) THEN Step(s, "read") /\ UNCHANGED lock ELSE Leave(s)
  /\ UNCHANGED <<row, named, expired, file, writer, sweep, faults>>

\* read_bytes; a file erased since is an error.
Read(s) ==
  LET e == session[s].of IN
  /\ session[s].at = "read"
  /\ IF file[e] = "none" THEN Leave(s)
     ELSE /\ session' = [session EXCEPT ![s].at = "send", ![s].payload = file[e]]
          /\ UNCHANGED lock
  /\ UNCHANGED <<row, named, expired, file, writer, sweep, faults>>

\* downloaded_at, the audit event, the commit and the response.
Send(s) ==
  /\ session[s].at = "send"
  /\ Leave(s)
  /\ UNCHANGED <<row, named, expired, file, writer, sweep, faults>>

\* delete_export, which does not ask whether it is deleted already.
BeginDelete(s, e) ==
  /\ Select(s, e, "find")
  /\ UNCHANGED <<row, named, expired, file, writer, sweep, faults>>

Find(s) ==
  LET e == session[s].of IN
  /\ session[s].at = "find"
  /\ Step(s, IF Exists(e, NamesFile(e)) THEN "unlink" ELSE "mark")
  /\ UNCHANGED <<row, named, expired, file, writer, lock, sweep, faults>>

\* A file erased since it was found is an error, and the row stays as it was.
Unlink(s) ==
  LET e == session[s].of IN
  /\ session[s].at = "unlink"
  /\ IF file[e] = "none" THEN Leave(s) ELSE Step(s, "mark") /\ UNCHANGED lock
  /\ file' = [file EXCEPT ![e] = "none"]
  /\ UNCHANGED <<row, named, expired, writer, sweep, faults>>

Mark(s) ==
  /\ session[s].at = "mark"
  /\ row' = [row EXCEPT ![session[s].of] = "deleted"]
  /\ Leave(s)
  /\ UNCHANGED <<named, expired, file, writer, sweep, faults>>

SessionDies(s) ==
  /\ session[s] # IdleSession /\ faults < MaxFaults
  /\ Leave(s)
  /\ faults' = faults + 1
  /\ UNCHANGED <<row, named, expired, file, writer, sweep>>

-----------------------------------------------------------------------------
(* purge_expired_exports, and the export branch of _remove_candidates *)

\* Mutant: the comparison is the wrong way round.
Fresh(e) == row[e] = "live" /\ ~expired[e]

\* What either of them selects.
Stale(e) == row[e] = "live" /\ expired[e]

\* The rows are read at once, and their paths with them.
BeginSweep(w) ==
  /\ sweep[w] = IdleSweep
  /\ \E e \in Rows : Stale(e)
  /\ LET selected == {e \in Rows : Stale(e)} IN
     sweep' = [sweep EXCEPT ![w] = [at |-> "next", on |-> Nobody, todo |-> selected,
                                    paths |-> {e \in selected : NamesFile(e)}]]
  /\ UNCHANGED <<row, named, expired, file, writer, lock, session, faults>>

SweepNext(w) ==
  /\ sweep[w].at = "next"
  /\ \/ /\ sweep[w].todo = {}
        /\ sweep' = [sweep EXCEPT ![w] = IdleSweep]
     \/ \E e \in sweep[w].todo :
          sweep' = [sweep EXCEPT ![w] =
            [sweep[w] EXCEPT !.on = e, !.todo = @ \ {e},
                      !.at = IF Exists(e, e \in sweep[w].paths) THEN "unlink" ELSE "mark"]]
  /\ UNCHANGED <<row, named, expired, file, writer, lock, session, faults>>

\* A file that somebody else erased since stops the purge, and the script goes on
\* with the next row.
SweepUnlink(w) ==
  LET e == sweep[w].on IN
  /\ sweep[w].at = "unlink"
  /\ sweep' = [sweep EXCEPT ![w] =
       CASE file[e] # "none" -> [sweep[w] EXCEPT !.at = "mark"]
         [] file[e] = "none" /\ w = Purge -> IdleSweep
         [] file[e] = "none" /\ w = Script -> [sweep[w] EXCEPT !.at = "next", !.on = Nobody]]
  /\ file' = [file EXCEPT ![e] = "none"]
  /\ UNCHANGED <<row, named, expired, writer, lock, session, faults>>

\* The save waits for a request that has the row locked.
SweepMark(w) ==
  LET e == sweep[w].on IN
  /\ sweep[w].at = "mark" /\ lock[e] = Nobody
  /\ row' = [row EXCEPT ![e] = "deleted"]
  /\ sweep' = [sweep EXCEPT ![w] = [sweep[w] EXCEPT !.at = "next", !.on = Nobody]]
  /\ UNCHANGED <<named, expired, file, writer, lock, session, faults>>

SweeperDies(w) ==
  /\ sweep[w] # IdleSweep /\ faults < MaxFaults
  /\ sweep' = [sweep EXCEPT ![w] = IdleSweep]
  /\ faults' = faults + 1
  /\ UNCHANGED <<row, named, expired, file, writer, lock, session>>

-----------------------------------------------------------------------------
(* The system *)

Init ==
  /\ row = [e \in Rows |-> "absent"]
  /\ named = [e \in Rows |-> FALSE] /\ expired = [e \in Rows |-> FALSE]
  /\ file = [e \in Rows |-> "none"]
  /\ writer = [e \in Rows |-> "idle"]
  /\ lock = [e \in Rows |-> Nobody]
  /\ session = [s \in Sessions |-> IdleSession]
  /\ sweep = [w \in Sweepers |-> IdleSweep]
  /\ faults = 0

Creating(e) == Write(e) \/ Chmod(e) \/ Publish(e) \/ HandleFailure(e)
Serving(s) == Look(s) \/ Read(s) \/ Send(s) \/ Find(s) \/ Unlink(s) \/ Mark(s)
Sweeping(w) == SweepNext(w) \/ SweepUnlink(w) \/ SweepMark(w)

Next ==
  \/ \E e \in Rows : Create(e) \/ Creating(e) \/ WriteFails(e) \/ WriterDies(e) \/ Expire(e)
  \/ \E s \in Sessions :
       \/ Serving(s) \/ SessionDies(s)
       \/ \E e \in Rows : Download(s, e) \/ BeginDelete(s, e)
  \/ \E w \in Sweepers : BeginSweep(w) \/ Sweeping(w) \/ SweeperDies(w)

\* Requests and sweeps that have begun go on, time passes, and the purge is
\* scheduled every hour.  Strong fairness where a save waits for a row lock:
\* PostgreSQL grants it in the order it was asked for.  Nothing is assumed of
\* users or of the script being run.
Fairness ==
  /\ \A e \in Rows : SF_vars(Creating(e)) /\ WF_vars(Expire(e))
  /\ \A s \in Sessions : WF_vars(Serving(s))
  /\ \A w \in Sweepers : SF_vars(Sweeping(w))
  /\ WF_vars(BeginSweep(Purge))

Spec == Init /\ [][Next]_vars /\ Fairness

-----------------------------------------------------------------------------
(* What makes it correct *)

\* What is handed to a user is a whole file, whatever is still being written
\* ("Never leave a half-written export downloadable").
DownloadsWhole == \A s \in Sessions : session[s].at = "send" => session[s].payload = "whole"

\* A row that names its file is only marked deleted once the file is gone, by
\* whoever marks it and whoever else erases files meanwhile (_unlink).
MarkedWhenGone ==
  [][\A e \in Rows :
       row[e] = "live" /\ row'[e] = "deleted" /\ named[e] => file'[e] = "none"]_vars

\* An export that was published is erased after it expired, however often a
\* sweep is aborted, dies, or waits for a request ("it is deleted on a timer
\* whether or not anybody downloaded it").
ExpiredErased ==
  \A e \in Rows : row[e] = "live" /\ named[e] /\ expired[e] ~> file[e] = "none"

\* An export that failed leaves no file behind ("A failure in the middle marks
\* the row deleted and removes the partial file").
FailureRemovesFile ==
  \A e \in Rows :
    row[e] = "deleted" /\ ~named[e] /\ writer[e] = "over" => file[e] = "none"
=============================================================================
