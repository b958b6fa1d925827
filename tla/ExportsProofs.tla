--------------------------- MODULE ExportsProofs ---------------------------
(***************************************************************************)
(* For any exports and any number of requests: only whole files are handed *)
(* out, and, as long as no export expires while it is being written, no    *)
(* row is marked deleted while the file it names is there.                 *)
(***************************************************************************)
EXTENDS Exports, TLAPS

\* A request that is doing something has the row it works on locked.
Locked ==
  \A s \in Sessions :
    \/ session[s] = IdleSession
    \/ /\ session[s].at # "idle" /\ session[s].of \in Rows
       /\ lock[session[s].of] = s

\* A path is recorded last, and from then on nobody writes.
Written ==
  \A e \in Rows :
    /\ named[e] => writer[e] = "over"
    /\ named[e] \/ writer[e] = "written" => file[e] # "partial"
    /\ row[e] = "absent" => writer[e] = "idle"

\* What a download has looked at it may read, and what it has read is whole.
Reading ==
  \A s \in Sessions :
    /\ session[s].at = "read" => named[session[s].of]
    /\ session[s].at = "send" => session[s].payload = "whole"

Inv == TypeOK /\ Locked /\ Written /\ Reading

\* The actions by whom they disturb.
Request(s) == \/ Serving(s) \/ SessionDies(s)
              \/ \E e \in Rows : Download(s, e) \/ BeginDelete(s, e)
Sweep(w) == BeginSweep(w) \/ Sweeping(w) \/ SweeperDies(w)
Writer(e) == Create(e) \/ Creating(e) \/ WriteFails(e) \/ WriterDies(e) \/ Expire(e)

LEMMA InitInv == Init => Inv
<1> SUFFICES ASSUME Init PROVE Inv
  OBVIOUS
<1>1. TypeOK
  BY ExportsAssumption DEF Init, TypeOK, IdleSession, IdleSweep, Sweepers
<1>2. Locked /\ Written /\ Reading
  BY DEF Init, Locked, Written, Reading, IdleSession
<1> QED BY <1>1, <1>2 DEF Inv

LEMMA WriterType ==
  ASSUME TypeOK, NEW e \in Rows, Writer(e)
  PROVE  TypeOK'
<1> USE ExportsAssumption DEF TypeOK
<1>1. CASE Create(e)
  BY <1>1 DEF Create
<1>2. CASE Write(e)
  BY <1>2 DEF Write
<1>3. CASE Chmod(e)
  BY <1>3 DEF Chmod
<1>4. CASE Publish(e)
  BY <1>4 DEF Publish
<1>5. CASE HandleFailure(e)
  BY <1>5 DEF HandleFailure
<1>6. CASE WriteFails(e)
  BY <1>6 DEF WriteFails
<1>7. CASE WriterDies(e)
  BY <1>7 DEF WriterDies
<1>8. CASE Expire(e)
  BY <1>8 DEF Expire
<1> QED BY <1>1, <1>2, <1>3, <1>4, <1>5, <1>6, <1>7, <1>8 DEF Writer, Creating

\* The two ways a request changes its place: a stage further, or done.
LEMMA StepType ==
  ASSUME TypeOK, NEW s \in Sessions, NEW at \in {"read", "unlink", "mark"}, Step(s, at)
  PROVE  session' \in [Sessions ->
           [at : {"idle", "look", "read", "send", "find", "unlink", "mark"},
            of : Rows \cup {Nobody}, payload : {"none", "partial", "whole"}]]
<1> DEFINE Place == [at : {"idle", "look", "read", "send", "find", "unlink", "mark"},
                     of : Rows \cup {Nobody}, payload : {"none", "partial", "whole"}]
<1>1. session \in [Sessions -> Place]
  BY DEF TypeOK
<1>2. \A p \in Place : [p EXCEPT !.at = at] \in Place
  OBVIOUS
<1>3. session' = [session EXCEPT ![s] = [session[s] EXCEPT !.at = at]]
  BY DEF Step
<1> HIDE DEF Place
<1>4. session' \in [Sessions -> Place]
  BY <1>1, <1>2, <1>3
<1> QED BY <1>4 DEF Place

LEMMA LeaveType ==
  ASSUME TypeOK, NEW s \in Sessions, Leave(s)
  PROVE  /\ lock' \in [Rows -> Sessions \cup {Nobody}]
         /\ session' \in [Sessions ->
              [at : {"idle", "look", "read", "send", "find", "unlink", "mark"},
               of : Rows \cup {Nobody}, payload : {"none", "partial", "whole"}]]
  BY DEF TypeOK, Leave, IdleSession

LEMMA RequestType ==
  ASSUME TypeOK, Locked, NEW s \in Sessions, Request(s)
  PROVE  TypeOK'
<1> USE ExportsAssumption DEF TypeOK, IdleSession
<1>1. session[s] # IdleSession => session[s].of \in Rows
  BY DEF Locked
<1>2. CASE \E e \in Rows : Download(s, e) \/ BeginDelete(s, e)
  <2>1. PICK e \in Rows : Download(s, e) \/ BeginDelete(s, e)
    BY <1>2
  <2>2. UNCHANGED <<row, named, expired, file, writer, sweep, faults>>
    BY <2>1 DEF Download, BeginDelete
  <2>3. \E at \in {"look", "find"} : Select(s, e, at)
    BY <2>1 DEF Download, BeginDelete
  <2>4. /\ lock' \in [Rows -> Sessions \cup {Nobody}]
        /\ session' \in [Sessions ->
             [at : {"idle", "look", "read", "send", "find", "unlink", "mark"},
              of : Rows \cup {Nobody}, payload : {"none", "partial", "whole"}]]
    BY <2>3 DEF Select
  <2> QED BY <2>2, <2>4
<1>3. CASE Look(s)
  <2>1. UNCHANGED <<row, named, expired, file, writer, sweep, faults>>
    BY <1>3 DEF Look
  <2>2. Leave(s) \/ (Step(s, "read") /\ UNCHANGED lock)
    BY <1>3 DEF Look
  <2> QED BY <2>1, <2>2, LeaveType, StepType
<1>4. CASE Find(s)
  <2>1. UNCHANGED <<row, named, expired, file, writer, lock, sweep, faults>>
    BY <1>4 DEF Find
  <2>2. Step(s, "unlink") \/ Step(s, "mark")
    BY <1>4 DEF Find
  <2> QED BY <2>1, <2>2, StepType
<1>5. CASE Read(s)
  <2>1. UNCHANGED <<row, named, expired, file, writer, sweep, faults>>
    BY <1>5 DEF Read
  <2>2. CASE Leave(s)
    BY <2>1, <2>2, LeaveType
  <2>3. CASE UNCHANGED lock /\ file[session[s].of] # "none"
    <3>1. session[s].of \in Rows
      BY <1>1, <1>5 DEF Read
    <3>2. session' = [session EXCEPT ![s] = [at |-> "send", of |-> session[s].of,
                                             payload |-> file[session[s].of]]]
      BY <1>5, <2>3 DEF Read
    <3> QED BY <2>1, <2>3, <3>1, <3>2
  <2> QED BY <1>5, <2>2, <2>3 DEF Read
<1>6. CASE Send(s)
  BY <1>6, LeaveType DEF Send
<1>7. CASE Mark(s)
  <2>1. row' \in [Rows -> {"absent", "live", "deleted"}]
    BY <1>7 DEF Mark
  <2> QED BY <1>7, <2>1, LeaveType DEF Mark
<1>8. CASE Unlink(s)
  <2>1. UNCHANGED <<row, named, expired, writer, sweep, faults>>
    BY <1>8 DEF Unlink
  <2>2. file' \in [Rows -> {"none", "partial", "whole"}]
    BY <1>8 DEF Unlink
  <2>3. CASE Leave(s)
    BY <2>1, <2>2, <2>3, LeaveType
  <2>4. CASE Step(s, "mark") /\ UNCHANGED lock
    BY <2>1, <2>2, <2>4, StepType
  <2> QED BY <1>8, <2>3, <2>4 DEF Unlink
<1>9. CASE SessionDies(s)
  BY <1>9, LeaveType DEF SessionDies
<1> QED BY <1>2, <1>3, <1>5, <1>6, <1>8, <1>9, <1>4, <1>7 DEF Request, Serving

\* What a sweeper is doing, and what it does after a step.
Round == [at : {"idle", "next", "unlink", "mark"}, on : Rows \cup {Nobody},
          todo : SUBSET Rows, paths : SUBSET Rows]

LEMMA RoundNext ==
  ASSUME NEW r \in Round, NEW e \in Rows, NEW at \in {"unlink", "mark"}
  PROVE  [r EXCEPT !.on = e, !.todo = @ \ {e}, !.at = at] \in Round
  BY DEF Round

LEMMA RoundOver ==
  ASSUME NEW r \in Round
  PROVE  /\ [r EXCEPT !.at = "next", !.on = Nobody] \in Round
         /\ [r EXCEPT !.at = "mark"] \in Round
         /\ IdleSweep \in Round
  BY DEF Round, IdleSweep

LEMMA SweepType ==
  ASSUME TypeOK, NEW w \in Sweepers, Sweep(w)
  PROVE  TypeOK'
<1>1. sweep \in [Sweepers -> Round] /\ sweep[w] \in Round
  BY DEF TypeOK, Round
<1>2. CASE BeginSweep(w)
  BY <1>2 DEF BeginSweep, TypeOK
<1>3. CASE SweepNext(w)
  <2>1. UNCHANGED <<row, named, expired, file, writer, lock, session, faults>>
    BY <1>3 DEF SweepNext
  <2>2. \E r \in Round : sweep' = [sweep EXCEPT ![w] = r]
    <3>1. CASE sweep' = [sweep EXCEPT ![w] = IdleSweep]
      BY <3>1, <1>1, RoundOver
    <3>2. CASE \E e \in sweep[w].todo :
                 sweep' = [sweep EXCEPT ![w] =
                   [sweep[w] EXCEPT !.on = e, !.todo = @ \ {e},
                             !.at = IF Exists(e, e \in sweep[w].paths)
                                    THEN "unlink" ELSE "mark"]]
      <4>1. PICK e \in sweep[w].todo :
              sweep' = [sweep EXCEPT ![w] =
                [sweep[w] EXCEPT !.on = e, !.todo = @ \ {e},
                          !.at = IF Exists(e, e \in sweep[w].paths)
                                 THEN "unlink" ELSE "mark"]]
        BY <3>2
      <4>2. e \in Rows
        BY <1>1 DEF Round
      <4>3. (IF Exists(e, e \in sweep[w].paths) THEN "unlink" ELSE "mark")
              \in {"unlink", "mark"}
        OBVIOUS
      <4> HIDE DEF Round
      <4>4. [sweep[w] EXCEPT !.on = e, !.todo = @ \ {e},
                      !.at = IF Exists(e, e \in sweep[w].paths)
                             THEN "unlink" ELSE "mark"] \in Round
        BY <1>1, <4>2, <4>3, RoundNext
      <4> QED BY <4>1, <4>4
    <3> QED BY <1>3, <3>1, <3>2 DEF SweepNext
  <2> QED BY <1>1, <2>1, <2>2 DEF TypeOK, Round
<1>4. CASE SweepUnlink(w)
  <2>1. file' \in [Rows -> {"none", "partial", "whole"}]
    BY <1>4 DEF SweepUnlink, TypeOK
  <2>2. UNCHANGED <<row, named, expired, writer, lock, session, faults>>
    BY <1>4 DEF SweepUnlink
  <2>3. \E r \in Round : sweep' = [sweep EXCEPT ![w] = r]
    <3>1. \/ sweep' = [sweep EXCEPT ![w] = [sweep[w] EXCEPT !.at = "mark"]]
          \/ sweep' = [sweep EXCEPT ![w] = [sweep[w] EXCEPT !.at = "next", !.on = Nobody]]
          \/ sweep' = [sweep EXCEPT ![w] = IdleSweep]
      BY <1>4, ExportsAssumption DEF SweepUnlink, Sweepers
    <3> QED BY <1>1, <3>1, RoundOver
  <2> QED BY <1>1, <2>1, <2>2, <2>3 DEF TypeOK, Round
<1>5. CASE SweepMark(w)
  <2>1. row' \in [Rows -> {"absent", "live", "deleted"}]
    BY <1>5 DEF SweepMark, TypeOK
  <2>2. UNCHANGED <<named, expired, file, writer, lock, session, faults>>
    BY <1>5 DEF SweepMark
  <2>3. \E r \in Round : sweep' = [sweep EXCEPT ![w] = r]
    <3>1. sweep' = [sweep EXCEPT ![w] = [sweep[w] EXCEPT !.at = "next", !.on = Nobody]]
      BY <1>5 DEF SweepMark
    <3> QED BY <1>1, <3>1, RoundOver
  <2> QED BY <1>1, <2>1, <2>2, <2>3 DEF TypeOK, Round
<1>6. CASE SweeperDies(w)
  <2>1. sweep' = [sweep EXCEPT ![w] = IdleSweep] /\ faults' \in 0..MaxFaults
    BY <1>6, ExportsAssumption DEF SweeperDies, TypeOK
  <2>2. sweep' \in [Sweepers -> Round]
    BY <1>1, <2>1, RoundOver
  <2>3. UNCHANGED <<row, named, expired, file, writer, lock, session>>
    BY <1>6 DEF SweeperDies
  <2> QED BY <2>1, <2>2, <2>3 DEF TypeOK, Round
<1> QED BY <1>2, <1>3, <1>4, <1>5, <1>6 DEF Sweep, Sweeping

\* A step of a writer: only Write touches a file, and only of a row without a name.
LEMMA WriterStep ==
  ASSUME Inv, NEW e \in Rows, Writer(e)
  PROVE  Inv'
<1> USE DEF Inv
<1>1. TypeOK'
  BY WriterType
<1>2. UNCHANGED <<lock, session>>
  BY DEF Writer, Creating, Create, Write, Chmod, Publish, HandleFailure, WriteFails, WriterDies,
         Expire
<1>3. Locked'
  BY <1>2 DEF Locked
<1>4. \A x \in Rows : named[x] => named'[x]
  BY DEF Writer, Creating, Create, Write, Chmod, Publish, HandleFailure, WriteFails, WriterDies,
         Expire, TypeOK
<1>5. Reading'
  <2> SUFFICES ASSUME NEW s \in Sessions
               PROVE  /\ session'[s].at = "read" => named'[session'[s].of]
                      /\ session'[s].at = "send" => session'[s].payload = "whole"
    BY DEF Reading
  <2>1. session[s].at = "read" => session[s].of \in Rows
    BY DEF Locked, IdleSession
  <2> QED BY <1>2, <1>4, <2>1 DEF Reading
<1>6. Written'
  <2>1. CASE Write(e) \/ Chmod(e)
    BY <2>1 DEF Write, Chmod, Written, TypeOK
  <2>2. CASE Publish(e)
    BY <2>2 DEF Publish, Publishable, Written, TypeOK
  <2>3. CASE HandleFailure(e) \/ WriteFails(e) \/ WriterDies(e) \/ Expire(e)
    BY <2>3 DEF HandleFailure, WriteFails, WriterDies, Expire, Written, TypeOK
  <2>4. CASE Create(e)
    BY <2>4 DEF Create, Written, TypeOK
  <2> QED BY <2>1, <2>2, <2>3, <2>4 DEF Writer, Creating
<1> QED BY <1>1, <1>3, <1>5, <1>6

\* What a request does to rows and files, and to its own lock.
LEMMA RequestEffect ==
  ASSUME TypeOK, Locked, NEW s \in Sessions, Request(s)
  PROVE  /\ UNCHANGED <<named, expired, writer, sweep>>
         /\ \A e \in Rows : file'[e] = file[e] \/ file'[e] = "none"
         /\ \A e \in Rows : row'[e] = "absent" => row[e] = "absent"
         /\ \A t \in Sessions \ {s} : session'[t] = session[t]
         /\ \A e \in Rows : lock'[e] # lock[e] => lock[e] \in {s, Nobody}
<1> USE ExportsAssumption DEF TypeOK, IdleSession
<1>1. session[s] # IdleSession => session[s].of \in Rows /\ lock[session[s].of] = s
  BY DEF Locked
<1>2. CASE \E e \in Rows : Download(s, e) \/ BeginDelete(s, e)
  BY <1>2 DEF Download, BeginDelete, Select
<1>3. CASE Look(s) \/ Find(s)
  BY <1>1, <1>3 DEF Look, Find, Step, Leave
<1>4. CASE Read(s)
  BY <1>1, <1>4 DEF Read, Leave
<1>5. CASE Send(s) \/ Mark(s)
  BY <1>1, <1>5 DEF Send, Mark, Leave
<1>6. CASE Unlink(s)
  BY <1>1, <1>6 DEF Unlink, Step, Leave
<1>7. CASE SessionDies(s)
  BY <1>1, <1>7 DEF SessionDies, Leave
<1> QED BY <1>2, <1>3, <1>4, <1>5, <1>6, <1>7 DEF Request, Serving

\* Its own place: done, or still at the row it has locked.
LEMMA RequestPlace ==
  ASSUME TypeOK, Locked, NEW s \in Sessions, Request(s)
  PROVE  \/ session'[s] = IdleSession
         \/ /\ session'[s].at # "idle" /\ session'[s].of \in Rows
            /\ lock'[session'[s].of] = s
<1> USE ExportsAssumption DEF TypeOK
<1>1. session[s] # IdleSession => session[s].of \in Rows /\ lock[session[s].of] = s
  BY DEF Locked
<1>2. CASE \E e \in Rows : Download(s, e) \/ BeginDelete(s, e)
  BY <1>2 DEF Download, BeginDelete, Select
<1>3. CASE Look(s) \/ Find(s)
  BY <1>1, <1>3 DEF Look, Find, Step, Leave, IdleSession
<1>4. CASE Read(s)
  BY <1>1, <1>4 DEF Read, Leave, IdleSession
<1>5. CASE Send(s) \/ Mark(s) \/ SessionDies(s)
  BY <1>5 DEF Send, Mark, SessionDies, Leave
<1>6. CASE Unlink(s)
  BY <1>1, <1>6 DEF Unlink, Step, Leave, IdleSession
<1> QED BY <1>2, <1>3, <1>4, <1>5, <1>6 DEF Request, Serving

LEMMA RequestStep ==
  ASSUME Inv, NEW s \in Sessions, Request(s)
  PROVE  Inv'
<1> USE DEF Inv
<1>1. TypeOK'
  BY RequestType
<1>2. Locked'
  <2> SUFFICES ASSUME NEW t \in Sessions
               PROVE  \/ session'[t] = IdleSession
                      \/ /\ session'[t].at # "idle" /\ session'[t].of \in Rows
                         /\ lock'[session'[t].of] = t
    BY DEF Locked, IdleSession
  <2>1. CASE t = s
    BY <2>1, RequestPlace
  <2>2. CASE t # s
    <3>1. session'[t] = session[t]
      BY <2>2, RequestEffect
    <3>2. \A e \in Rows : lock[e] = t => lock'[e] = t
      BY <2>2, RequestEffect, ExportsAssumption
    <3> QED BY <3>1, <3>2 DEF Locked
  <2> QED BY <2>1, <2>2
<1>3. Written'
  BY RequestEffect DEF Written
<1>4. Reading'
  <2> SUFFICES ASSUME NEW t \in Sessions
               PROVE  /\ session'[t].at = "read" => named'[session'[t].of]
                      /\ session'[t].at = "send" => session'[t].payload = "whole"
    BY DEF Reading
  <2>0. named' = named
    BY RequestEffect
  <2>1. CASE t # s
    BY <2>0, <2>1, RequestEffect DEF Reading
  <2>2. CASE t = s /\ Look(s)
    <3>1. CASE Leave(s)
      BY <2>2, <3>1 DEF Leave, IdleSession, TypeOK
    <3>2. CASE Step(s, "read") /\ named[session[s].of]
      BY <2>0, <2>2, <3>2 DEF Step, TypeOK
    <3> QED BY <2>2, <3>1, <3>2 DEF Look, Exists, NamesFile
  <2>3. CASE t = s /\ Read(s)
    <3>1. session[s].of \in Rows
      BY <2>3 DEF Read, Locked, IdleSession
    <3> QED BY <2>3, <3>1 DEF Read, Leave, IdleSession, TypeOK, Reading, Written
  <2>4. CASE t = s /\ (Send(s) \/ Mark(s) \/ SessionDies(s))
    BY <2>4 DEF Send, Mark, SessionDies, Leave, IdleSession, TypeOK
  <2>5. CASE t = s /\ (Find(s) \/ Unlink(s))
    BY <2>5 DEF Find, Unlink, Step, Leave, IdleSession, TypeOK
  <2>6. CASE t = s /\ \E e \in Rows : Download(s, e) \/ BeginDelete(s, e)
    BY <2>6 DEF Download, BeginDelete, Select, TypeOK
  <2> QED BY <2>1, <2>2, <2>3, <2>4, <2>5, <2>6 DEF Request, Serving
<1> QED BY <1>1, <1>2, <1>3, <1>4

LEMMA SweepEffect ==
  ASSUME TypeOK, NEW w \in Sweepers, Sweep(w)
  PROVE  /\ UNCHANGED <<named, expired, writer, lock, session>>
         /\ \A e \in Rows : file'[e] = file[e] \/ file'[e] = "none"
         /\ \A e \in Rows : row'[e] = "absent" => row[e] = "absent"
         /\ \A v \in Sweepers \ {w} : sweep'[v] = sweep[v]
<1> USE DEF TypeOK
<1>1. CASE BeginSweep(w)
  BY <1>1 DEF BeginSweep
<1>2. CASE SweepNext(w)
  BY <1>2 DEF SweepNext
<1>3. CASE SweepUnlink(w)
  BY <1>3 DEF SweepUnlink
<1>4. CASE SweepMark(w)
  BY <1>4 DEF SweepMark
<1>5. CASE SweeperDies(w)
  BY <1>5 DEF SweeperDies
<1> QED BY <1>1, <1>2, <1>3, <1>4, <1>5 DEF Sweep, Sweeping

LEMMA SweepStep ==
  ASSUME Inv, NEW w \in Sweepers, Sweep(w)
  PROVE  Inv'
<1> USE DEF Inv
<1>1. TypeOK'
  BY SweepType
<1>2. Locked' /\ Written' /\ Reading'
  BY SweepEffect DEF Locked, Written, Reading
<1> QED BY <1>1, <1>2

LEMMA NextSplit ==
  Next <=> \/ \E e \in Rows : Writer(e)
           \/ \E s \in Sessions : Request(s)
           \/ \E w \in Sweepers : Sweep(w)
  BY DEF Next, Writer, Request, Sweep

LEMMA InvAlways == Spec => []Inv
<1>1. Inv /\ [Next]_vars => Inv'
  <2> SUFFICES ASSUME Inv, [Next]_vars PROVE Inv'
    OBVIOUS
  <2>1. CASE Next
    BY <2>1, NextSplit, WriterStep, RequestStep, SweepStep
  <2>2. CASE UNCHANGED vars
    BY <2>2 DEF vars, Inv, TypeOK, Locked, Written, Reading
  <2> QED BY <2>1, <2>2
<1> QED BY <1>1, InitInv, PTL DEF Spec

\* Every variable keeps its type, whatever fails and dies.
THEOREM TypeCorrect == Spec => []TypeOK
<1>1. Inv => TypeOK
  BY DEF Inv
<1> QED BY <1>1, InvAlways, PTL

\* read_export never hands out a file that is half written, for any exports and
\* requests, and even when an export expires while it is being written.
THEOREM DownloadsAlwaysWhole == Spec => []DownloadsWhole
<1>1. Inv => DownloadsWhole
  BY DEF Inv, Reading, DownloadsWhole
<1> QED BY <1>1, InvAlways, PTL

-----------------------------------------------------------------------------
(* Nothing is marked before it is gone *)

\* What has expired is no longer being written.
Expiry == \A e \in Rows : expired[e] => writer[e] = "over" /\ row[e] # "absent"

\* A request about to mark a row has seen its file gone.
Deleting ==
  \A s \in Sessions :
    session[s].at = "mark" /\ named[session[s].of] => file[session[s].of] = "none"

\* A sweeper works on expired rows, whose paths are what they were when it read
\* them, and has seen the file of a row gone when it is about to mark it.
Seeing(w) ==
  /\ \A e \in sweep[w].todo : expired[e] /\ (e \in sweep[w].paths <=> named[e])
  /\ sweep[w].at \in {"unlink", "mark"} => sweep[w].on \in Rows /\ expired[sweep[w].on]
  /\ sweep[w].at = "mark" /\ named[sweep[w].on] => file[sweep[w].on] = "none"

Gone == Expiry /\ Deleting /\ \A w \in Sweepers : Seeing(w)

LEMMA InitGone == Init => Gone
  BY DEF Init, Gone, Expiry, Deleting, Seeing, IdleSession, IdleSweep

\* What a writer leaves alone when nothing expires under it.
LEMMA WriterEffect ==
  ASSUME Inv, Expiry, ~Hasty, NEW e \in Rows, Writer(e)
  PROVE  /\ UNCHANGED <<session, sweep>>
         /\ \A x \in Rows : named[x] => named'[x] /\ file'[x] = file[x]
         /\ \A x \in Rows : named'[x] => named[x] \/ (lock[x] = Nobody /\ ~expired[x])
         /\ \A x \in Rows : expired[x] => expired'[x]
         /\ Expiry'
<1> USE DEF Inv, TypeOK, Written, Expiry
<1>1. CASE Create(e)
  BY <1>1 DEF Create
<1>2. CASE Write(e)
  BY <1>2 DEF Write
<1>3. CASE Chmod(e)
  BY <1>3 DEF Chmod
<1>4. CASE Publish(e)
  BY <1>4 DEF Publish, Publishable
<1>5. CASE HandleFailure(e)
  BY <1>5 DEF HandleFailure
<1>6. CASE WriteFails(e) \/ WriterDies(e)
  BY <1>6 DEF WriteFails, WriterDies
<1>7. CASE Expire(e)
  BY <1>7 DEF Expire
<1> QED BY <1>1, <1>2, <1>3, <1>4, <1>5, <1>6, <1>7 DEF Writer, Creating

LEMMA WriterGone ==
  ASSUME Inv, Gone, ~Hasty, NEW e \in Rows, Writer(e)
  PROVE  Gone'
<1>1. Expiry'
  BY WriterEffect DEF Gone
<1>2. Deleting'
  <2> SUFFICES ASSUME NEW s \in Sessions, session[s].at = "mark", named'[session[s].of]
               PROVE  file'[session[s].of] = "none"
    BY WriterEffect DEF Deleting, Gone
  <2>1. session[s].of \in Rows /\ lock[session[s].of] # Nobody
    BY ExportsAssumption DEF Inv, Locked, IdleSession
  <2> QED BY <2>1, WriterEffect DEF Gone, Deleting
<1>3. ASSUME NEW w \in Sweepers PROVE Seeing(w)'
  <2>1. Seeing(w) /\ sweep[w].todo \subseteq Rows
    BY DEF Gone, Inv, TypeOK
  <2> QED BY <2>1, WriterEffect DEF Gone, Seeing
<1> QED BY <1>1, <1>2, <1>3 DEF Gone

\* A request goes on to mark a row only when its file is gone.
LEMMA RequestMarks ==
  ASSUME TypeOK, Locked, NEW s \in Sessions, Request(s),
         session'[s].at = "mark", named[session'[s].of]
  PROVE  file'[session'[s].of] = "none"
<1> USE DEF TypeOK
<1>1. CASE \E e \in Rows : Download(s, e) \/ BeginDelete(s, e)
  BY <1>1 DEF Download, BeginDelete, Select
<1>2. CASE Look(s)
  BY <1>2 DEF Look, Step, Leave, IdleSession
<1>3. CASE Read(s)
  BY <1>3 DEF Read, Leave, IdleSession
<1>4. CASE Find(s)
  BY <1>4 DEF Find, Step, Exists, NamesFile
<1>5. CASE Unlink(s)
  <2>1. session[s].of \in Rows
    BY <1>5 DEF Unlink, Locked, IdleSession
  <2> QED BY <1>5, <2>1 DEF Unlink, Step, Leave, IdleSession
<1>6. CASE Send(s) \/ Mark(s) \/ SessionDies(s)
  BY <1>6 DEF Send, Mark, SessionDies, Leave, IdleSession
<1> QED BY <1>1, <1>2, <1>3, <1>4, <1>5, <1>6 DEF Request, Serving

LEMMA RequestGone ==
  ASSUME Inv, Gone, NEW s \in Sessions, Request(s)
  PROVE  Gone'
<1> USE DEF Inv
<1>1. Expiry'
  BY RequestEffect DEF Gone, Expiry
<1>2. Deleting'
  <2> SUFFICES ASSUME NEW t \in Sessions, session'[t].at = "mark", named'[session'[t].of]
               PROVE  file'[session'[t].of] = "none"
    BY DEF Deleting
  <2>0. named' = named
    BY RequestEffect
  <2>1. CASE t = s
    BY <2>0, <2>1, RequestMarks
  <2>2. CASE t # s
    <3>1. session[t].of \in Rows /\ session'[t] = session[t]
      BY <2>2, RequestEffect DEF Locked, IdleSession
    <3> QED BY <2>0, <3>1, RequestEffect DEF Gone, Deleting
  <2> QED BY <2>1, <2>2
<1>3. ASSUME NEW w \in Sweepers PROVE Seeing(w)'
  BY RequestEffect DEF Gone, Seeing
<1> QED BY <1>1, <1>2, <1>3 DEF Gone

\* A sweeper goes on with what it has seen.
LEMMA SweepSees ==
  ASSUME Inv, Gone, NEW w \in Sweepers, Sweep(w)
  PROVE  Seeing(w)'
<1> USE DEF Inv, TypeOK
<1>0. Seeing(w) /\ sweep[w].todo \subseteq Rows
  BY DEF Gone
<1>1. CASE BeginSweep(w)
  BY <1>1 DEF BeginSweep, Seeing, Stale, NamesFile
<1>2. CASE SweepNext(w)
  <2>1. UNCHANGED <<named, expired, file>>
    BY <1>2 DEF SweepNext
  <2>2. CASE sweep' = [sweep EXCEPT ![w] = IdleSweep]
    BY <2>1, <2>2 DEF Seeing, IdleSweep
  <2>3. ASSUME NEW e \in sweep[w].todo, NEW r,
               r = [sweep[w] EXCEPT !.on = e, !.todo = @ \ {e},
                          !.at = IF Exists(e, e \in sweep[w].paths) THEN "unlink" ELSE "mark"],
               sweep' = [sweep EXCEPT ![w] = r]
        PROVE  Seeing(w)'
    <3>1. /\ r.on = e /\ r.todo = sweep[w].todo \ {e} /\ r.paths = sweep[w].paths
          /\ r.at = IF Exists(e, e \in sweep[w].paths) THEN "unlink" ELSE "mark"
      BY <2>3
    <3>2. sweep'[w] = r
      BY <2>3
    <3>3. e \in Rows /\ expired'[e] /\ (e \in sweep[w].paths <=> named[e])
      BY <1>0, <2>1 DEF Seeing
    <3>4. \A x \in r.todo : expired'[x] /\ (x \in r.paths <=> named'[x])
      BY <1>0, <2>1, <3>1 DEF Seeing
    <3>5. r.at = "mark" /\ named'[e] => file'[e] = "none"
      BY <2>1, <3>1, <3>3 DEF Exists
    <3> QED BY <3>1, <3>2, <3>3, <3>4, <3>5 DEF Seeing
  <2> QED BY <1>2, <2>2, <2>3 DEF SweepNext
<1>3. CASE SweepUnlink(w)
  <2>1. sweep[w].on \in Rows /\ file'[sweep[w].on] = "none" /\ UNCHANGED <<named, expired>>
    BY <1>0, <1>3 DEF SweepUnlink, Seeing
  <2>2. /\ sweep'[w].todo \subseteq sweep[w].todo
        /\ \A e \in sweep'[w].todo : e \in sweep'[w].paths <=> e \in sweep[w].paths
        /\ sweep'[w].at \in {"unlink", "mark"} => sweep'[w].on = sweep[w].on
    BY <1>3, ExportsAssumption DEF SweepUnlink, IdleSweep, Sweepers
  <2>3. \A e \in sweep'[w].todo : expired'[e] /\ (e \in sweep'[w].paths <=> named'[e])
    BY <1>0, <2>1, <2>2 DEF Seeing
  <2>4. sweep'[w].at \in {"unlink", "mark"} =>
          /\ sweep'[w].on \in Rows /\ expired'[sweep'[w].on]
          /\ file'[sweep'[w].on] = "none"
    <3>1. expired[sweep[w].on]
      BY <1>0, <1>3 DEF SweepUnlink, Seeing
    <3> QED BY <2>1, <2>2, <3>1
  <2> QED BY <2>3, <2>4 DEF Seeing
<1>4. CASE SweepMark(w)
  <2>1. /\ sweep'[w].todo = sweep[w].todo /\ sweep'[w].paths = sweep[w].paths
        /\ sweep'[w].at = "next"
        /\ UNCHANGED <<named, expired>>
    BY <1>4 DEF SweepMark
  <2> QED BY <1>0, <2>1 DEF Seeing
<1>5. CASE SweeperDies(w)
  BY <1>5 DEF SweeperDies, Seeing, IdleSweep
<1> QED BY <1>1, <1>2, <1>3, <1>4, <1>5 DEF Sweep, Sweeping

LEMMA SweepGone ==
  ASSUME Inv, Gone, NEW w \in Sweepers, Sweep(w)
  PROVE  Gone'
<1> USE DEF Inv
<1>1. Expiry'
  BY SweepEffect DEF Gone, Expiry
<1>2. Deleting'
  <2>1. \A s \in Sessions : session[s].at = "mark" => session[s].of \in Rows
    BY DEF Locked, IdleSession
  <2> QED BY <2>1, SweepEffect DEF Gone, Deleting
<1>3. ASSUME NEW v \in Sweepers PROVE Seeing(v)'
  <2>1. CASE v = w
    BY <2>1, SweepSees
  <2>2. CASE v # w
    <3>1. sweep'[v] = sweep[v] /\ Seeing(v) /\ sweep[v].todo \subseteq Rows
      BY <2>2, SweepEffect DEF Gone, TypeOK
    <3> QED BY <3>1, SweepEffect DEF Seeing
  <2> QED BY <2>1, <2>2
<1> QED BY <1>1, <1>2, <1>3 DEF Gone

LEMMA GoneStep == ASSUME ~Hasty, Inv, Gone, [Next]_vars PROVE Gone'
<1>1. CASE Next
  BY <1>1, NextSplit, WriterGone, RequestGone, SweepGone
<1>2. CASE UNCHANGED vars
  BY <1>2 DEF vars, Gone, Expiry, Deleting, Seeing
<1> QED BY <1>1, <1>2

\* Who marks a live row that has its path: a request or a sweeper that saw the file gone.
LEMMA MarksGone ==
  ASSUME Inv, Gone, Next, NEW e \in Rows,
         row[e] = "live", row'[e] = "deleted", named[e]
  PROVE  file'[e] = "none"
<1> USE DEF Inv, TypeOK
<1>1. CASE \E x \in Rows : Writer(x)
  BY <1>1 DEF Writer, Creating, Create, Write, Chmod, Publish, HandleFailure, WriteFails,
              WriterDies, Expire, Written
<1>2. CASE \E s \in Sessions : Request(s)
  <2>1. PICK s \in Sessions : Request(s)
    BY <1>2
  <2>2. Mark(s)
    BY <2>1 DEF Request, Serving, Download, BeginDelete, Look, Read, Send, Find, Unlink,
                SessionDies
  <2> QED BY <2>2 DEF Mark, Gone, Deleting
<1>3. CASE \E w \in Sweepers : Sweep(w)
  <2>1. PICK w \in Sweepers : Sweep(w)
    BY <1>3
  <2>2. SweepMark(w)
    BY <2>1 DEF Sweep, Sweeping, BeginSweep, SweepNext, SweepUnlink, SweeperDies
  <2> QED BY <2>2 DEF SweepMark, Gone, Seeing
<1> QED BY <1>1, <1>2, <1>3, NextSplit

\* _unlink, purge_expired_exports and the script mark a published row only once its
\* file is gone, for any exports, requests and deaths, provided that no export
\* expires while it is being written (it would otherwise be published after the
\* sweep read its placeholder).
THEOREM NeverMarkedBefore == ASSUME ~Hasty PROVE Spec => MarkedWhenGone
<1>1. ASSUME Inv, Gone, [Next]_vars
      PROVE  [\A e \in Rows :
                row[e] = "live" /\ row'[e] = "deleted" /\ named[e] => file'[e] = "none"]_vars
  BY <1>1, MarksGone
<1>2. ASSUME Inv, Gone, [Next]_vars PROVE Gone'
  BY <1>2, GoneStep
<1> QED BY <1>1, <1>2, InitGone, InvAlways, PTL DEF Spec, MarkedWhenGone
=============================================================================
