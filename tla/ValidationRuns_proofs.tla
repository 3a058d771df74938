------------------------ MODULE ValidationRuns_proofs ------------------------
(***************************************************************************)
(* Proofs about ValidationRuns: its types, and that no interleaving of     *)
(* retries, kills, redeliveries, restarts and stale row writes lets a run  *)
(* pass without its scanners passing, end with a scanner unsettled, or     *)
(* show another verdict than was mailed; and that cancellations hold.      *)
(***************************************************************************)
EXTENDS ValidationRuns, TLAPS

(***************************************************************************)
(* Types.                                                                  *)
(***************************************************************************)
LEMMA InitTypes == Init => TypeOK
<1>. SUFFICES ASSUME Init PROVE TypeOK
  OBVIOUS
<1>1. NoRow \in RunRow
  BY DEF NoRow, RunRow
<1>2. /\ form \in [Runs -> Form]
      /\ eager \in BOOLEAN
      /\ start \in [Runs -> {"idle", "checked", "created", "dispatched", "lost"}]
      /\ run \in [Runs -> RunRow]
      /\ result \in [Runs -> [Scanners -> ResultStatus]]
      /\ taskId \in [Runs -> [Scanners -> BOOLEAN]]
  BY <1>1, ModesAssumption DEF Init, ResultStatus
<1>3. task \in [Runs -> [Scanners -> [pc : TaskPc, retries : Nat, out : Verdicts]]]
  BY DEF Init, TaskPc, Verdicts
<1>4. fin \in [Runs -> [pc : FinPc, seen : RunRow, verdict : Verdicts]]
  BY <1>1 DEF Init, FinPc, Verdicts
<1>5. req \in [Handlers -> [pc : ReqPc, op : AllOps, run : Runs, seen : RunRow]]
  <2>1. [pc : {"idle"}, op : {"cancel"}, run : Runs, seen : {NoRow}]
          \subseteq [pc : ReqPc, op : AllOps, run : Runs, seen : RunRow]
    BY <1>1 DEF ReqPc, AllOps
  <2>. QED  BY <2>1 DEF Init
<1>6. revoked \in SUBSET (Runs \X Scanners) /\ mail \in [Runs -> SUBSET Verdicts] /\ faults \in Nat
  BY DEF Init
<1>. QED  BY <1>2, <1>3, <1>4, <1>5, <1>6 DEF TypeOK

\* What saving a run row, or moving one process on, does to the types.
LEMMA RowSaved ==
  /\ \A row \in RunRow, st \in RunStatus : [row EXCEPT !.status = st] \in RunRow
  /\ \A row \in RunRow : [row EXCEPT !.pdf = TRUE] \in RunRow
  /\ \A row \in RunRow : [row EXCEPT !.live = TRUE] \in RunRow
  /\ NoRow \in RunRow
  BY DEF RunRow, NoRow

LEMMA RunSaved ==
  ASSUME TypeOK, NEW r \in Runs, NEW row \in RunRow, run' = [run EXCEPT ![r] = row]
  PROVE  run' \in [Runs -> RunRow]
  BY DEF TypeOK

LEMMA FinGoes ==
  ASSUME TypeOK, NEW r \in Runs, NEW pc \in FinPc, fin' = [fin EXCEPT ![r].pc = pc]
  PROVE  fin' \in [Runs -> [pc : FinPc, seen : RunRow, verdict : Verdicts]]
<1>. DEFINE T == [pc : FinPc, seen : RunRow, verdict : Verdicts]
<1>1. fin \in [Runs -> T] /\ fin[r] \in T
  BY DEF TypeOK
<1>2. [fin[r] EXCEPT !.pc = pc] \in T
  BY <1>1
<1>. QED  BY <1>1, <1>2

LEMMA ReqGoes ==
  ASSUME TypeOK, NEW h \in Handlers, NEW pc \in ReqPc, req' = [req EXCEPT ![h].pc = pc]
  PROVE  req' \in [Handlers -> [pc : ReqPc, op : AllOps, run : Runs, seen : RunRow]]
<1>. DEFINE T == [pc : ReqPc, op : AllOps, run : Runs, seen : RunRow]
<1>1. req \in [Handlers -> T] /\ req[h] \in T
  BY DEF TypeOK
<1>2. [req[h] EXCEPT !.pc = pc] \in T
  BY <1>1
<1>. QED  BY <1>1, <1>2

LEMMA VerdictType == \A r \in Runs : Verdict(r) \in Verdicts
  BY DEF Verdict, Verdicts

LEMMA StartTypes == ASSUME TypeOK, NEW r \in Runs, Start(r) PROVE TypeOK'
<1>1. CASE StartCheck(r)
  BY <1>1 DEF TypeOK, StartCheck, rowVars, taskVars
<1>2. CASE StartCreate(r)
  BY <1>2 DEF TypeOK, StartCreate, NoRow, RunRow, RunStatus, Unfinished, taskVars
<1>3. CASE StartDispatch(r)
  <2>1. result' \in [Runs -> [Scanners -> ResultStatus]]
    BY <1>3 DEF TypeOK, StartDispatch, ResultStatus, Unfinished
  <2>2. task' \in [Runs -> [Scanners -> [pc : TaskPc, retries : Nat, out : Verdicts]]]
    <3>. DEFINE T == [pc : TaskPc, retries : Nat, out : Verdicts]
    <3>. DEFINE q(s) == IF s \in Of(r) THEN [task[r][s] EXCEPT !.pc = "queued"] ELSE task[r][s]
    <3>1. task \in [Runs -> [Scanners -> T]]
      BY DEF TypeOK
    <3>2. ASSUME NEW s \in Scanners  PROVE q(s) \in T
      BY <3>1 DEF TaskPc
    <3>3. task' = [task EXCEPT ![r] = [s \in Scanners |-> q(s)]]
      BY <1>3, <3>1 DEF StartDispatch
    <3>. HIDE DEF q, T
    <3>. QED  BY <3>1, <3>2, <3>3 DEF T
  <2>. QED  BY <1>3, <2>1, <2>2 DEF TypeOK, StartDispatch
<1>. QED  BY <1>1, <1>2, <1>3 DEF Start

\* Every task step only moves one task, so its types are those of the record
\* it is moved to.
LEMMA TaskGoesType ==
  ASSUME TypeOK, NEW r \in Runs, NEW s \in Scanners,
         NEW rec \in [pc : TaskPc, retries : Nat, out : Verdicts], TaskGoes(r, s, rec)
  PROVE  task' \in [Runs -> [Scanners -> [pc : TaskPc, retries : Nat, out : Verdicts]]]
  BY DEF TypeOK, TaskGoes

LEMMA TaskTypes ==
  ASSUME TypeOK, NEW r \in Runs, NEW s \in Scanners, Task(r, s) \/ TaskRevoked(r, s)
  PROVE  TypeOK'
<1>. DEFINE T == [pc : TaskPc, retries : Nat, out : Verdicts]
<1>. DEFINE t == task[r][s]
<1>0. t \in T
  BY DEF TypeOK
<1>1. CASE TaskBegin(r, s)
  <2>1. task' \in [Runs -> [Scanners -> T]]
    BY <1>0, <1>1, TaskGoesType DEF TaskBegin, TaskPc, Verdicts
  <2>. QED  BY <1>1, <2>1 DEF TypeOK, TaskBegin, rowVars
<1>2. CASE TaskStarted(r, s)
  <2>1. task' \in [Runs -> [Scanners -> T]]
    BY <1>0, <1>2, TaskGoesType DEF TaskStarted, TaskPc
  <2>2. /\ result' \in [Runs -> [Scanners -> ResultStatus]]
        /\ taskId' \in [Runs -> [Scanners -> BOOLEAN]]
    BY <1>2 DEF TypeOK, TaskStarted, ResultStatus, Unfinished
  <2>. QED  BY <1>2, <2>1, <2>2 DEF TypeOK, TaskStarted
<1>3. CASE TaskScanned(r, s)
  <2>1. task' \in [Runs -> [Scanners -> T]]
    BY <1>0, <1>3, TaskGoesType DEF TaskScanned, TaskPc, Verdicts
  <2>. QED  BY <1>3, <2>1 DEF TypeOK, TaskScanned, rowVars
<1>4. CASE TaskTransient(r, s)
  <2>1. task' \in [Runs -> [Scanners -> T]]
    <3>1. /\ [t EXCEPT !.pc = "saving", !.out = "CANCELLED"] \in T
          /\ [t EXCEPT !.pc = "saving", !.out = "ERROR"] \in T
          /\ [t EXCEPT !.pc = "dead"] \in T
          /\ [t EXCEPT !.pc = "queued", !.retries = @ + 1] \in T
      <4>1. t.retries + 1 \in Nat
        BY <1>0
      <4>. HIDE DEF t
      <4>2. [t EXCEPT !.pc = "queued", !.retries = t.retries + 1] \in T
        BY <1>0, <4>1 DEF TaskPc
      <4>. QED  BY <1>0, <4>2 DEF TaskPc, Verdicts
    <3>2. \/ TaskGoes(r, s, [t EXCEPT !.pc = "saving", !.out = "CANCELLED"])
          \/ TaskGoes(r, s, [t EXCEPT !.pc = "saving", !.out = "ERROR"])
          \/ TaskGoes(r, s, [t EXCEPT !.pc = "dead"])
          \/ TaskGoes(r, s, [t EXCEPT !.pc = "queued", !.retries = @ + 1])
      BY <1>4, Zenon DEF TaskTransient
    <3>. HIDE DEF t
    <3>. QED  BY <3>1, <3>2, TaskGoesType
  <2>. QED  BY <1>4, <2>1 DEF TypeOK, TaskTransient, rowVars
<1>5. CASE TaskSave(r, s)
  <2>1. task' \in [Runs -> [Scanners -> T]]
    BY <1>0, <1>5, TaskGoesType DEF TaskSave, TaskPc
  <2>2. result' \in [Runs -> [Scanners -> ResultStatus]]
    BY <1>0, <1>5 DEF TypeOK, TaskSave, ResultStatus
  <2>. QED  BY <1>5, <2>1, <2>2 DEF TypeOK, TaskSave
<1>6. CASE TaskRevoked(r, s)
  <2>1. task' \in [Runs -> [Scanners -> T]]
    BY <1>0, <1>6, TaskGoesType DEF TaskRevoked, TaskPc
  <2>. QED  BY <1>6, <2>1 DEF TypeOK, TaskRevoked, rowVars
<1>. QED  BY <1>1, <1>2, <1>3, <1>4, <1>5, <1>6 DEF Task

LEMMA FinalizeTypes == ASSUME TypeOK, NEW r \in Runs, Finalize(r) PROVE TypeOK'
<1>1. CASE FinRead(r)
  <2>1. Verdict(r) \in Verdicts
    BY VerdictType
  <2>2. fin' \in [Runs -> [pc : FinPc, seen : RunRow, verdict : Verdicts]]
    BY <1>1, <2>1 DEF TypeOK, FinRead, FinPc
  <2>3. result' \in [Runs -> [Scanners -> ResultStatus]]
    BY <1>1, <2>1 DEF TypeOK, FinRead, ResultStatus
  <2>. QED  BY <1>1, <2>2, <2>3 DEF TypeOK, FinRead
<1>. fin[r] \in [pc : FinPc, seen : RunRow, verdict : Verdicts]
  BY DEF TypeOK
<1>2. CASE FinSave(r)
  <2>1. fin' \in [Runs -> [pc : FinPc, seen : RunRow, verdict : Verdicts]]
    BY <1>2, FinGoes DEF FinSave, FinPc
  <2>2. run' \in [Runs -> RunRow]
    BY <1>2, RowSaved, RunSaved DEF FinSave, RunStatus
  <2>. QED  BY <1>2, <2>1, <2>2 DEF TypeOK, FinSave
<1>3. CASE FinRender(r)
  <2>1. fin' \in [Runs -> [pc : FinPc, seen : RunRow, verdict : Verdicts]]
    BY <1>3, FinGoes DEF FinRender, FinPc
  <2>2. [fin[r].seen EXCEPT !.status = fin[r].verdict, !.pdf = TRUE] \in RunRow
    BY DEF RunRow, RunStatus
  <2>3. run' \in [Runs -> RunRow]
    BY <1>3, <2>2, RunSaved DEF FinRender, TypeOK
  <2>. QED  BY <1>3, <2>1, <2>3 DEF TypeOK, FinRender
<1>4. CASE FinMail(r)
  <2>1. fin' \in [Runs -> [pc : FinPc, seen : RunRow, verdict : Verdicts]]
    BY <1>4, FinGoes DEF FinMail, FinPc
  <2>. QED  BY <1>4, <2>1 DEF TypeOK, FinMail, rowVars
<1>. QED  BY <1>1, <1>2, <1>3, <1>4 DEF Finalize

LEMMA RequestTypes == ASSUME TypeOK, NEW h \in Handlers, Request(h) PROVE TypeOK'
<1>1. ASSUME NEW r \in Runs, NEW op \in AllOps, ReqReads(h, r, op)  PROVE TypeOK'
  BY <1>1 DEF TypeOK, ReqReads, ReqPc, rowVars, taskVars
<1>2. CASE \E r \in Runs : CancelRead(h, r) \/ PdfRead(h, r) \/ LiveRead(h, r)
  BY <1>1, <1>2 DEF CancelRead, PdfRead, LiveRead, AllOps
<1>. req[h] \in [pc : ReqPc, op : AllOps, run : Runs, seen : RunRow]
  BY DEF TypeOK
<1>. DEFINE R == [Handlers -> [pc : ReqPc, op : AllOps, run : Runs, seen : RunRow]]
<1>3. CASE CancelSave(h)
  <2>1. req' \in R
    BY <1>3, ReqGoes DEF CancelSave, ReqPc
  <2>2. run' \in [Runs -> RunRow]
    BY <1>3, RowSaved, RunSaved DEF CancelSave, RunStatus
  <2>. QED  BY <1>3, <2>1, <2>2 DEF TypeOK, CancelSave, taskVars
<1>4. CASE CancelRevoke(h)
  <2>1. req' \in R
    BY <1>4, ReqGoes DEF CancelRevoke, ReqPc
  <2>2. revoked' \in SUBSET (Runs \X Scanners)
    BY <1>4 DEF TypeOK, CancelRevoke
  <2>. QED  BY <1>4, <2>1, <2>2 DEF TypeOK, CancelRevoke, rowVars, taskVars
<1>5. CASE PdfSave(h)
  <2>1. req' \in R
    BY <1>5, ReqGoes DEF PdfSave, ReqPc
  <2>2. run' \in [Runs -> RunRow]
    BY <1>5, RowSaved, RunSaved DEF PdfSave
  <2>. QED  BY <1>5, <2>1, <2>2 DEF TypeOK, PdfSave, taskVars
<1>6. CASE LiveSave(h)
  <2>1. req' \in R
    BY <1>6, ReqGoes DEF LiveSave, ReqPc
  <2>2. run' = [run EXCEPT ![req[h].run] = [run[req[h].run] EXCEPT !.live = TRUE]]
    BY <1>6 DEF LiveSave
  <2>3. run' \in [Runs -> RunRow]
    BY <2>2, RowSaved, RunSaved DEF TypeOK
  <2>. QED  BY <1>6, <2>1, <2>3 DEF TypeOK, LiveSave, taskVars
<1>. QED  BY <1>2, <1>3, <1>4, <1>5, <1>6 DEF Request

LEMMA FaultTypes == ASSUME TypeOK, Faulty PROVE TypeOK'
<1>1. ASSUME NEW r \in Runs, NEW s \in Scanners, TaskAborts(r, s) \/ TaskRedelivered(r, s)
      PROVE  TypeOK'
  <2>0. task[r][s] \in [pc : TaskPc, retries : Nat, out : Verdicts]
    BY DEF TypeOK
  <2>1. task' \in [Runs -> [Scanners -> [pc : TaskPc, retries : Nat, out : Verdicts]]]
    BY <1>1, <2>0, TaskGoesType DEF TaskAborts, TaskRedelivered, TaskPc
  <2>. QED  BY <1>1, <2>1 DEF TypeOK, TaskAborts, TaskRedelivered, Fault, rowVars
<1>2. ASSUME NEW r \in Runs, FinAborts(r)  PROVE TypeOK'
  <2>1. fin' \in [Runs -> [pc : FinPc, seen : RunRow, verdict : Verdicts]]
    BY <1>2, FinGoes DEF FinAborts, FinPc
  <2>. QED  BY <1>2, <2>1 DEF TypeOK, FinAborts, Fault, rowVars
<1>3. CASE Restart
  <2>1. task' \in [Runs -> [Scanners -> [pc : TaskPc, retries : Nat, out : Verdicts]]]
    <3>. DEFINE T == [pc : TaskPc, retries : Nat, out : Verdicts]
    <3>. DEFINE killed(r, s) == IF TaskLive(r, s) \/ task[r][s].pc = "queued"
                                THEN [task[r][s] EXCEPT !.pc = "dead"] ELSE task[r][s]
    <3>1. task \in [Runs -> [Scanners -> T]]
      BY DEF TypeOK
    <3>2. ASSUME NEW r \in Runs, NEW s \in Scanners  PROVE killed(r, s) \in T
      BY <3>1 DEF TaskPc
    <3>3. \/ task' = [r \in Runs |-> [s \in Scanners |-> killed(r, s)]]
          \/ task' = task
      BY <1>3 DEF Restart, taskVars
    <3>. HIDE DEF killed, T
    <3>. QED  BY <3>1, <3>2, <3>3 DEF T
  <2>2. fin' \in [Runs -> [pc : FinPc, seen : RunRow, verdict : Verdicts]]
    <3>. DEFINE T == [pc : FinPc, seen : RunRow, verdict : Verdicts]
    <3>. DEFINE killed(r) == IF start[r] = "dispatched" /\ fin[r].pc # "done"
                             THEN [fin[r] EXCEPT !.pc = "dead"] ELSE fin[r]
    <3>1. fin \in [Runs -> T]
      BY DEF TypeOK
    <3>2. ASSUME NEW r \in Runs  PROVE killed(r) \in T
      BY <3>1 DEF FinPc
    <3>3. fin' = [r \in Runs |-> killed(r)] \/ fin' = fin
      BY <1>3 DEF Restart, taskVars
    <3>. HIDE DEF killed, T
    <3>. QED  BY <3>1, <3>2, <3>3 DEF T
  <2>3. /\ start' \in [Runs -> {"idle", "checked", "created", "dispatched", "lost"}]
        /\ req' \in [Handlers -> [pc : ReqPc, op : AllOps, run : Runs, seen : RunRow]]
    BY <1>3 DEF TypeOK, Restart, ReqPc
  <2>. QED  BY <1>3, <2>1, <2>2, <2>3 DEF TypeOK, Restart, Fault, rowVars
<1>. QED  BY <1>1, <1>2, <1>3 DEF Faulty

LEMMA TypesStutter == TypeOK /\ UNCHANGED vars => TypeOK'
  BY DEF TypeOK, vars

\* The rows and the processes of the validation pipeline keep their types.
THEOREM TypeCorrect == Spec => []TypeOK
<1>1. TypeOK /\ [Next]_vars => TypeOK'
  BY TypesStutter, StartTypes, TaskTypes, FinalizeTypes, RequestTypes, FaultTypes DEF Next
<1>. QED  BY <1>1, InitTypes, PTL DEF Spec

(***************************************************************************)
(* The verdicts.                                                           *)
(*                                                                         *)
(* PassedIsEarned is not inductive: PASSED may be written by a finalize    *)
(* task, by a web request holding a row it read earlier, or be mailed.  The *)
(* strengthening says that EVERY copy of a run row, stored or held, is     *)
(* honest about the scanner rows, and that once finalize has read them     *)
(* nobody is left to change them (Ended).                                  *)
(***************************************************************************)
Ended(r) ==
  start[r] = "dispatched" /\ \A s \in Of(r) : task[r][s].pc \in {"done", "dead"}

Judged(r) == Ended(r) /\ \A s \in Of(r) : result[r][s] \in Verdicts

Earned(r) == Ended(r) /\ Of(r) # {} /\ \A s \in Of(r) : result[r][s] = "PASSED"

Honest(r, status) ==
  /\ status \in Verdicts => Judged(r)
  /\ status = "PASSED" => Earned(r)

HonestRow(r) == Honest(r, run[r].status)

HonestFin(r) ==
  /\ fin[r].pc \in {"saving", "rendering", "mailing"} => Honest(r, fin[r].verdict)
  /\ Honest(r, fin[r].seen.status)

HonestReq(h) == Honest(req[h].run, req[h].seen.status)

HonestMail(r) == "PASSED" \in mail[r] => Earned(r)

RowsExist(r) ==
  start[r] = "dispatched" => \A s \in Of(r) : result[r][s] # "NONE"

HonestInv ==
  /\ TypeOK
  /\ \A r \in Runs : RowsExist(r)
  /\ \A r \in Runs : HonestRow(r) /\ HonestFin(r) /\ HonestMail(r)
  /\ \A h \in Handlers : HonestReq(h)

LEMMA OfScanners == ASSUME TypeOK, NEW r \in Runs PROVE Of(r) \subseteq Scanners
  BY ScannersAssumption DEF TypeOK, Of, Form

\* The rows of a judged run are never changed again.
StaysJudged(r) ==
  /\ Judged(r) => Judged(r)' /\ Of(r)' = Of(r) /\ \A s \in Of(r) : result'[r][s] = result[r][s]
  /\ Earned(r) => Earned(r)'

\* A step of one task leaves the rows of every run whose tasks have ended.
LEMMA StableTask ==
  ASSUME TypeOK, NEW r \in Runs, NEW q \in Runs, NEW s \in Scanners,
         task[q][s].pc \notin {"done", "dead"},
         NEW rec, task' = [task EXCEPT ![q][s] = rec],
         NEW st, result' = [result EXCEPT ![q][s] = st] \/ result' = result,
         UNCHANGED <<form, start>>
  PROVE  StaysJudged(r)
<1>. Of(r) \subseteq Scanners /\ Of(r)' = Of(r)
  BY OfScanners DEF Of
<1>1. ASSUME Ended(r), NEW x \in Of(r)
      PROVE  task'[r][x] = task[r][x] /\ result'[r][x] = result[r][x]
  <2>1. q # r \/ x # s
    BY <1>1 DEF Ended
  <2>. QED  BY <2>1, <1>1 DEF TypeOK
<1>. QED  BY <1>1 DEF StaysJudged, Judged, Earned, Ended

\* What finalize, a request or a scanner found out about a run stays true: no
\* step of anybody takes a judged or earned verdict back from the rows.
LEMMA Stable ==
  ASSUME TypeOK, [Next]_vars, NEW r \in Runs
  PROVE  StaysJudged(r)
<1>0. Of(r) \subseteq Scanners
  BY OfScanners
<1>1. CASE UNCHANGED <<form, start, task, result>>
  BY <1>1 DEF StaysJudged, Judged, Earned, Ended, Of
<1>2. ASSUME NEW q \in Runs, Start(q)
      PROVE  StaysJudged(r)
  <2>1. CASE StartCheck(q) \/ StartCreate(q)
    <3>1. /\ start' = [start EXCEPT ![q] = start'[q]] /\ start[q] # "dispatched"
          /\ UNCHANGED <<form, task, result>>
      BY <2>1 DEF StartCheck, StartCreate, taskVars, rowVars, TypeOK
    <3>. QED  BY <3>1 DEF StaysJudged, Judged, Earned, Ended, Of, TypeOK
  <2>2. CASE StartDispatch(q)
    <3>1. CASE q = r
      BY <2>2, <3>1 DEF StartDispatch, StaysJudged, Judged, Earned, Ended
    <3>2. CASE q # r
      BY <2>2, <3>2 DEF StartDispatch, StaysJudged, Judged, Earned, Ended, Of, TypeOK
    <3>. QED  BY <3>1, <3>2
  <2>. QED  BY <1>2, <2>1, <2>2 DEF Start
<1>3. ASSUME NEW q \in Runs, NEW s \in Scanners, Task(q, s) \/ TaskRevoked(q, s)
      PROVE  StaysJudged(r)
  <2>1. /\ task[q][s].pc \notin {"done", "dead"}
        /\ UNCHANGED <<form, start>>
        /\ \E rec : task' = [task EXCEPT ![q][s] = rec]
        /\ \E st : result' = [result EXCEPT ![q][s] = st] \/ result' = result
    <3>1. CASE TaskBegin(q, s)
      BY <3>1 DEF TaskBegin, TaskGoes, rowVars
    <3>2. CASE TaskStarted(q, s)
      BY <3>2 DEF TaskStarted, TaskGoes
    <3>3. CASE TaskScanned(q, s)
      BY <3>3 DEF TaskScanned, TaskGoes, rowVars
    <3>4. CASE TaskTransient(q, s)
      BY <3>4 DEF TaskTransient, TaskGoes, rowVars
    <3>5. CASE TaskSave(q, s)
      BY <3>5 DEF TaskSave, TaskGoes
    <3>6. CASE TaskRevoked(q, s)
      BY <3>6 DEF TaskRevoked, TaskGoes, TaskLive, rowVars
    <3>. QED  BY <1>3, <3>1, <3>2, <3>3, <3>4, <3>5, <3>6 DEF Task
  <2>. QED  BY <2>1, StableTask
<1>4. ASSUME NEW q \in Runs, Finalize(q)
      PROVE  StaysJudged(r)
  <2>1. CASE FinRead(q)
    <3>1. UNCHANGED <<form, start, task>>
      BY <2>1 DEF FinRead
    <3>2. ASSUME NEW x \in Of(r), result[r][x] \in Verdicts  PROVE result'[r][x] = result[r][x]
      BY <1>0, <2>1, <3>2 DEF FinRead, TypeOK, Verdicts, Unfinished
    <3>. QED  BY <3>1, <3>2 DEF StaysJudged, Judged, Earned, Ended, Of, Verdicts
  <2>2. CASE FinSave(q) \/ FinRender(q) \/ FinMail(q)
    BY <1>1, <2>2 DEF FinSave, FinRender, FinMail, rowVars
  <2>. QED  BY <1>4, <2>1, <2>2 DEF Finalize
<1>5. ASSUME NEW h \in Handlers, Request(h)  PROVE UNCHANGED <<form, start, task, result>>
  BY <1>5 DEF Request, CancelRead, PdfRead, LiveRead, ReqReads, CancelSave, CancelRevoke,
              PdfSave, LiveSave, rowVars, taskVars
<1>6. ASSUME Faulty  PROVE StaysJudged(r)
  <2>1. ASSUME NEW q \in Runs, NEW s \in Scanners, TaskAborts(q, s) \/ TaskRedelivered(q, s)
        PROVE  StaysJudged(r)
    <3>1. /\ task[q][s].pc \notin {"done", "dead"}
          /\ UNCHANGED <<form, start, result>>
          /\ \E rec : task' = [task EXCEPT ![q][s] = rec]
      BY <2>1 DEF TaskAborts, TaskRedelivered, TaskGoes, TaskLive, rowVars
    <3>. QED  BY <3>1, StableTask
  <2>2. ASSUME NEW q \in Runs, FinAborts(q)  PROVE UNCHANGED <<form, start, task, result>>
    BY <2>2 DEF FinAborts, rowVars
  <2>3. CASE Restart
    <3>1. UNCHANGED <<form, result>>
      BY <2>3 DEF Restart, rowVars
    <3>2. start[r] = "dispatched" => start'[r] = "dispatched"
      BY <2>3 DEF Restart
    <3>3. ASSUME NEW x \in Of(r), task[r][x].pc \in {"done", "dead"}
          PROVE  task'[r][x] = task[r][x]
      <4>1. task[r][x].pc \notin {"starting", "scanning", "saving", "queued"}
        BY <3>3
      <4>2. x \in Scanners
        BY <1>0
      <4>. QED  BY <2>3, <4>1, <4>2 DEF Restart, TaskLive, taskVars
    <3>. QED  BY <3>1, <3>2, <3>3 DEF StaysJudged, Judged, Earned, Ended, Of
  <2>. QED  BY <1>1, <1>6, <2>1, <2>2, <2>3 DEF Faulty
<1>. QED  BY <1>1, <1>2, <1>3, <1>4, <1>5, <1>6 DEF Next, vars

\* The rows StartDispatch creates are never taken away.
LEMMA RowsExistStable ==
  ASSUME TypeOK, [Next]_vars, NEW r \in Runs, RowsExist(r)
  PROVE  RowsExist(r)'
<1>0. Of(r) \subseteq Scanners
  BY OfScanners
<1>1. CASE UNCHANGED <<form, start, result>>
  BY <1>1 DEF RowsExist, Of
<1>2. ASSUME NEW q \in Runs, Start(q)  PROVE RowsExist(r)'
  <2>1. CASE StartCheck(q) \/ StartCreate(q)
    BY <2>1 DEF StartCheck, StartCreate, rowVars, RowsExist, Of, TypeOK
  <2>2. CASE StartDispatch(q)
    BY <1>0, <2>2 DEF StartDispatch, RowsExist, Of, TypeOK
  <2>. QED  BY <1>2, <2>1, <2>2 DEF Start
<1>3. ASSUME NEW q \in Runs, NEW s \in Scanners, Task(q, s) \/ TaskRevoked(q, s)
      PROVE  RowsExist(r)'
  <2>1. CASE TaskStarted(q, s)
    BY <1>0, <2>1 DEF TaskStarted, RowsExist, Of, TypeOK
  <2>2. CASE TaskSave(q, s)
    <3>0. task[q][s] \in [pc : TaskPc, retries : Nat, out : Verdicts]
      BY DEF TypeOK
    <3>1. task[q][s].out # "NONE"
      BY <3>0 DEF Verdicts
    <3>. QED  BY <1>0, <2>2, <3>1 DEF TaskSave, RowsExist, Of, TypeOK
  <2>3. CASE TaskBegin(q, s) \/ TaskScanned(q, s) \/ TaskTransient(q, s) \/ TaskRevoked(q, s)
    BY <1>1, <2>3 DEF TaskBegin, TaskScanned, TaskTransient, TaskRevoked, rowVars
  <2>. QED  BY <1>3, <2>1, <2>2, <2>3 DEF Task
<1>4. ASSUME NEW q \in Runs, Finalize(q)  PROVE RowsExist(r)'
  <2>1. CASE FinRead(q)
    <3>1. Verdict(q) # "NONE"
      BY VerdictType DEF Verdicts
    <3>. QED  BY <1>0, <2>1, <3>1 DEF FinRead, RowsExist, Of, TypeOK
  <2>2. CASE FinSave(q) \/ FinRender(q) \/ FinMail(q)
    BY <1>1, <2>2 DEF FinSave, FinRender, FinMail, rowVars
  <2>. QED  BY <1>4, <2>1, <2>2 DEF Finalize
<1>5. ASSUME NEW h \in Handlers, Request(h)  PROVE UNCHANGED <<form, start, result>>
  BY <1>5 DEF Request, CancelRead, PdfRead, LiveRead, ReqReads, CancelSave, CancelRevoke,
              PdfSave, LiveSave, rowVars
<1>6. ASSUME Faulty  PROVE RowsExist(r)'
  <2>1. UNCHANGED <<form, result>>
    BY <1>6 DEF Faulty, TaskAborts, TaskRedelivered, FinAborts, Restart, rowVars
  <2>2. start'[r] = "dispatched" => start[r] = "dispatched"
    BY <1>6 DEF Faulty, TaskAborts, TaskRedelivered, FinAborts, Restart
  <2>. QED  BY <2>1, <2>2 DEF RowsExist, Of
<1>. QED  BY <1>1, <1>2, <1>3, <1>4, <1>5, <1>6 DEF Next, vars

\* The verdict finalize computes is honest in the state its reading leaves.
LEMMA VerdictHonest ==
  ASSUME TypeOK, NEW r \in Runs, RowsExist(r), FinRead(r), NEW v, v = Verdict(r)
  PROVE  /\ Judged(r)'
         /\ v = "PASSED" => Earned(r)'
<1>. DEFINE statuses == {result[r][s] : s \in Of(r)}
<1>0. Of(r) \subseteq Scanners /\ Of(r)' = Of(r)
  BY OfScanners DEF FinRead, Of
<1>1. Ended(r)'
  BY <1>0 DEF FinRead, Ready, Ended
<1>2. \A s \in Of(r) : result'[r][s] = IF result[r][s] \in Unfinished THEN v ELSE result[r][s]
  BY <1>0 DEF FinRead, TypeOK
<1>3. v \in Verdicts
  BY VerdictType
<1>4. \A s \in Of(r) : result[r][s] \in Verdicts \union Unfinished
  BY <1>0 DEF FinRead, Ready, RowsExist, TypeOK, ResultStatus
<1>5. Judged(r)'
  BY <1>0, <1>1, <1>2, <1>3, <1>4 DEF Judged
<1>6. ASSUME v = "PASSED"  PROVE Earned(r)'
  <2>1. statuses # {} /\ statuses \subseteq {"PASSED"}
    BY <1>6 DEF Verdict
  <2>2. Of(r) # {} /\ \A s \in Of(r) : result[r][s] = "PASSED"
    BY <2>1
  <2>. QED  BY <1>0, <1>1, <1>2, <2>2 DEF Earned, Unfinished
<1>. QED  BY <1>5, <1>6

\* The conjuncts of HonestInv a step must keep, for the copies of a run's row it
\* leaves alone.
LEMMA HonestUnchanged ==
  ASSUME HonestInv, [Next]_vars
  PROVE  /\ \A r \in Runs : run'[r].status = run[r].status => HonestRow(r)'
         /\ \A r \in Runs : fin'[r] = fin[r] => HonestFin(r)'
         /\ \A r \in Runs : mail'[r] = mail[r] => HonestMail(r)'
         /\ \A h \in Handlers : req'[h].run = req[h].run /\ req'[h].seen = req[h].seen
                                  => HonestReq(h)'
  <1>1. \A h \in Handlers : req[h].run \in Runs
    BY DEF HonestInv, TypeOK
  <1>. QED  BY <1>1, Stable DEF HonestInv, HonestRow, HonestFin, HonestMail, HonestReq, Honest,
                                StaysJudged

LEMMA HonestFinalize ==
  ASSUME HonestInv, [Next]_vars, NEW q \in Runs, Finalize(q)
  PROVE  /\ \A r \in Runs : HonestRow(r)' /\ HonestFin(r)' /\ HonestMail(r)'
         /\ \A h \in Handlers : HonestReq(h)'
<1>. TypeOK
  BY DEF HonestInv
<1>0. \A r \in Runs : (Judged(r) => Judged(r)') /\ (Earned(r) => Earned(r)')
  BY Stable DEF StaysJudged
<1>1. CASE FinRead(q)
  <2>1. HonestFin(q)'
    <3>1. Judged(q)' /\ (Verdict(q) = "PASSED" => Earned(q)')
      BY <1>1, VerdictHonest DEF HonestInv
    <3>2. fin'[q].seen = run[q] /\ fin'[q].verdict = Verdict(q)
      BY <1>1 DEF FinRead, TypeOK
    <3>3. Honest(q, run[q].status)
      BY DEF HonestInv, HonestRow
    <3>. QED  BY <1>0, <3>1, <3>2, <3>3 DEF HonestFin, Honest
  <2>2. /\ UNCHANGED <<run, mail, req>>
        /\ \A r \in Runs : r # q => fin'[r] = fin[r]
    BY <1>1 DEF FinRead, TypeOK
  <2>. QED  BY <2>1, <2>2, HonestUnchanged
<1>2. CASE FinSave(q) \/ FinRender(q)
  <2>1. HonestRow(q)'
    <3>0. fin[q] \in [pc : FinPc, seen : RunRow, verdict : Verdicts]
      BY DEF TypeOK
    <3>1. run'[q].status = fin[q].verdict \/ run' = run
      <4>1. \A row \in RunRow : \A v : [row EXCEPT !.status = v].status = v
        BY DEF RunRow
      <4>2. \A row \in RunRow : \A v : [row EXCEPT !.status = v, !.pdf = TRUE].status = v
        BY DEF RunRow
      <4>3. \A row : run' = [run EXCEPT ![q] = row] => run'[q] = row
        BY DEF TypeOK
      <4>4. CASE FinSave(q)
        <5>. DEFINE row == [fin[q].seen EXCEPT !.status = fin[q].verdict]
        <5>1. fin[q].seen \in RunRow
          BY <3>0
        <5>2. row.status = fin[q].verdict
          BY <4>1, <5>1
        <5>3. run' = [run EXCEPT ![q] = row] \/ run' = run
          BY <4>4 DEF FinSave
        <5>. HIDE DEF row
        <5>. QED  BY <4>3, <5>2, <5>3
      <4>5. CASE FinRender(q)
        <5>. DEFINE row == [fin[q].seen EXCEPT !.status = fin[q].verdict, !.pdf = TRUE]
        <5>1. fin[q].seen \in RunRow
          BY <3>0
        <5>2. row.status = fin[q].verdict
          BY <4>2, <5>1
        <5>3. run' = [run EXCEPT ![q] = row] \/ run' = run
          BY <4>5 DEF FinRender
        <5>. HIDE DEF row
        <5>. QED  BY <4>3, <5>2, <5>3
      <4>. QED  BY <1>2, <4>4, <4>5
    <3>2. Honest(q, fin[q].verdict) /\ Honest(q, run[q].status)
      BY <1>2 DEF HonestInv, HonestFin, HonestRow, FinSave, FinRender
    <3>. QED  BY <1>0, <3>1, <3>2 DEF HonestRow, Honest
  <2>2. HonestFin(q)'
    <3>1. fin'[q].seen = fin[q].seen /\ fin'[q].verdict = fin[q].verdict
      BY <1>2 DEF FinSave, FinRender, TypeOK
    <3>2. Honest(q, fin[q].verdict) /\ Honest(q, fin[q].seen.status)
      BY <1>2 DEF HonestInv, HonestFin, FinSave, FinRender
    <3>. QED  BY <1>0, <3>1, <3>2 DEF HonestFin, Honest
  <2>3. /\ UNCHANGED <<mail, req>>
        /\ \A r \in Runs : r # q => fin'[r] = fin[r] /\ run'[r] = run[r]
    BY <1>2 DEF FinSave, FinRender, TypeOK
  <2>. QED  BY <2>1, <2>2, <2>3, HonestUnchanged
<1>3. CASE FinMail(q)
  <2>1. HonestMail(q)'
    <3>1. "PASSED" \in mail'[q] => "PASSED" \in mail[q] \/ fin[q].verdict = "PASSED"
      BY <1>3 DEF FinMail, TypeOK
    <3>2. Honest(q, fin[q].verdict) /\ HonestMail(q)
      BY <1>3 DEF HonestInv, HonestFin, FinMail
    <3>. QED  BY <1>0, <3>1, <3>2 DEF HonestMail, Honest
  <2>2. HonestFin(q)'
    <3>1. fin'[q].seen = fin[q].seen /\ fin'[q].pc = "done"
      BY <1>3 DEF FinMail, TypeOK
    <3>2. Honest(q, fin[q].seen.status)
      BY DEF HonestInv, HonestFin
    <3>. QED  BY <1>0, <3>1, <3>2 DEF HonestFin, Honest
  <2>3. /\ UNCHANGED <<run, req>>
        /\ \A r \in Runs : r # q => fin'[r] = fin[r] /\ mail'[r] = mail[r]
    BY <1>3 DEF FinMail, TypeOK, rowVars
  <2>. QED  BY <2>1, <2>2, <2>3, HonestUnchanged
<1>. QED  BY <1>1, <1>2, <1>3 DEF Finalize

LEMMA HonestRequest ==
  ASSUME HonestInv, [Next]_vars, NEW h \in Handlers, Request(h)
  PROVE  /\ \A r \in Runs : HonestRow(r)' /\ HonestFin(r)' /\ HonestMail(r)'
         /\ \A g \in Handlers : HonestReq(g)'
<1>. TypeOK
  BY DEF HonestInv
<1>0. \A r \in Runs : (Judged(r) => Judged(r)') /\ (Earned(r) => Earned(r)')
  BY Stable DEF StaysJudged
<1>1. ASSUME NEW r \in Runs, NEW op \in AllOps, ReqReads(h, r, op)
      PROVE  /\ \A x \in Runs : HonestRow(x)' /\ HonestFin(x)' /\ HonestMail(x)'
             /\ \A g \in Handlers : HonestReq(g)'
  <2>1. HonestReq(h)'
    <3>1. req'[h].run = r /\ req'[h].seen = run[r]
      BY <1>1 DEF ReqReads, TypeOK
    <3>2. Honest(r, run[r].status)
      BY DEF HonestInv, HonestRow
    <3>. QED  BY <1>0, <3>1, <3>2 DEF HonestReq, Honest
  <2>2. /\ UNCHANGED <<run, fin, mail>>
        /\ \A g \in Handlers : g # h => req'[g] = req[g]
    BY <1>1 DEF ReqReads, TypeOK, rowVars, taskVars
  <2>. QED  BY <2>1, <2>2, HonestUnchanged
<1>2. CASE \E r \in Runs : CancelRead(h, r) \/ PdfRead(h, r) \/ LiveRead(h, r)
  BY <1>1, <1>2 DEF CancelRead, PdfRead, LiveRead, AllOps
<1>3. ASSUME UNCHANGED <<fin, mail>>,
             \A g \in Handlers : req'[g].run = req[g].run /\ req'[g].seen = req[g].seen,
             \A r \in Runs : r # req[h].run => run'[r] = run[r],
             \/ run'[req[h].run].status \in {req[h].seen.status, "CANCELLING"}
             \/ run'[req[h].run].status = run[req[h].run].status
      PROVE  /\ \A x \in Runs : HonestRow(x)' /\ HonestFin(x)' /\ HonestMail(x)'
             /\ \A g \in Handlers : HonestReq(g)'
  <2>0. req[h].run \in Runs
    BY DEF TypeOK
  <2>1. Honest(req[h].run, req[h].seen.status) /\ Honest(req[h].run, run[req[h].run].status)
    BY <2>0 DEF HonestInv, HonestReq, HonestRow
  <2>2. \A r \in Runs : r = req[h].run => HonestRow(r)'
    BY <1>0, <1>3, <2>1 DEF HonestRow, Honest, Verdicts
  <2>. QED  BY <1>3, <2>2, HonestUnchanged
<1>4. CASE CancelSave(h)
  <2>1. \A r \in Runs : r # req[h].run => run'[r] = run[r]
    BY <1>4 DEF CancelSave, TypeOK
  <2>2. run'[req[h].run].status = "CANCELLING"
    BY <1>4 DEF CancelSave, TypeOK, RunRow
  <2>3. \A g \in Handlers : req'[g].run = req[g].run /\ req'[g].seen = req[g].seen
    BY <1>4 DEF CancelSave, TypeOK
  <2>. QED  BY <1>3, <1>4, <2>1, <2>2, <2>3 DEF CancelSave, taskVars
<1>5. CASE CancelRevoke(h)
  <2>1. \A g \in Handlers : req'[g].run = req[g].run /\ req'[g].seen = req[g].seen
    BY <1>5 DEF CancelRevoke, TypeOK
  <2>. QED  BY <1>3, <1>5, <2>1 DEF CancelRevoke, rowVars, taskVars
<1>6. CASE PdfSave(h)
  <2>1. \A r \in Runs : r # req[h].run => run'[r] = run[r]
    BY <1>6 DEF PdfSave, TypeOK
  <2>2. run'[req[h].run].status = req[h].seen.status
    BY <1>6 DEF PdfSave, TypeOK, RunRow
  <2>3. \A g \in Handlers : req'[g].run = req[g].run /\ req'[g].seen = req[g].seen
    BY <1>6 DEF PdfSave, TypeOK
  <2>. QED  BY <1>3, <1>6, <2>1, <2>2, <2>3 DEF PdfSave, taskVars
<1>7. CASE LiveSave(h)
  <2>1. \A r \in Runs : r # req[h].run => run'[r] = run[r]
    BY <1>7 DEF LiveSave, TypeOK
  <2>2. run'[req[h].run].status = run[req[h].run].status
    BY <1>7 DEF LiveSave, TypeOK, RunRow
  <2>3. \A g \in Handlers : req'[g].run = req[g].run /\ req'[g].seen = req[g].seen
    BY <1>7 DEF LiveSave, TypeOK
  <2>. QED  BY <1>3, <1>7, <2>1, <2>2, <2>3 DEF LiveSave, taskVars
<1>. QED  BY <1>2, <1>4, <1>5, <1>6, <1>7 DEF Request

LEMMA HonestOthers ==
  ASSUME HonestInv, [Next]_vars,
         \/ \E q \in Runs : Start(q)
         \/ \E q \in Runs, s \in Scanners : Task(q, s) \/ TaskRevoked(q, s)
         \/ Faulty
         \/ UNCHANGED vars
  PROVE  /\ \A r \in Runs : HonestRow(r)' /\ HonestFin(r)' /\ HonestMail(r)'
         /\ \A h \in Handlers : HonestReq(h)'
<1>. TypeOK
  BY DEF HonestInv
<1>1. ASSUME NEW q \in Runs, Start(q)
      PROVE  /\ UNCHANGED <<fin, mail, req>>
             /\ \A r \in Runs : run'[r].status = run[r].status \/ run'[r].status = "RUNNING"
  <2>1. CASE StartCheck(q) \/ StartDispatch(q)
    BY <2>1 DEF StartCheck, StartDispatch, rowVars, taskVars
  <2>2. CASE StartCreate(q)
    BY <2>2 DEF StartCreate, NoRow, taskVars, TypeOK
  <2>. QED  BY <1>1, <2>1, <2>2 DEF Start
<1>2. ASSUME NEW q \in Runs, NEW s \in Scanners, Task(q, s) \/ TaskRevoked(q, s)
      PROVE  UNCHANGED <<fin, mail, req, run>>
  BY <1>2 DEF Task, TaskBegin, TaskStarted, TaskScanned, TaskTransient, TaskSave, TaskRevoked, rowVars
<1>3. CASE \E q \in Runs : Start(q)
  <2>1. \A r \in Runs : run'[r].status = "RUNNING" => HonestRow(r)'
    BY DEF HonestRow, Honest, Verdicts
  <2>. QED  BY <1>1, <1>3, <2>1, HonestUnchanged
<1>4. CASE Faulty
  <2>1. UNCHANGED <<run, mail>>
    BY <1>4 DEF Faulty, TaskAborts, TaskRedelivered, FinAborts, Restart, rowVars
  <2>2. /\ \A h \in Handlers : req'[h].run = req[h].run /\ req'[h].seen = req[h].seen
        /\ \A r \in Runs : /\ fin'[r].seen = fin[r].seen
                           /\ fin'[r] = fin[r] \/ fin'[r].pc \in {"waiting", "dead"}
    <3>1. CASE \E r \in Runs, s \in Scanners : TaskAborts(r, s) \/ TaskRedelivered(r, s)
      BY <3>1 DEF TaskAborts, TaskRedelivered
    <3>2. CASE \E r \in Runs : FinAborts(r)
      BY <3>2 DEF FinAborts, TypeOK
    <3>3. CASE Restart
      <4>1. \A h \in Handlers : req'[h].run = req[h].run /\ req'[h].seen = req[h].seen
        BY <3>3 DEF Restart, TypeOK
      <4>2. CASE eager
        BY <3>3, <4>1, <4>2 DEF Restart, TypeOK
      <4>3. CASE ~eager
        BY <3>3, <4>1, <4>3 DEF Restart, taskVars
      <4>. QED  BY <4>2, <4>3
    <3>. QED  BY <1>4, <3>1, <3>2, <3>3 DEF Faulty
  <2>4. \A r \in Runs : HonestFin(r)'
    <3>. SUFFICES ASSUME NEW r \in Runs, fin'[r].pc \in {"waiting", "dead"}  PROVE HonestFin(r)'
      BY <2>2, HonestUnchanged
    <3>. QED  BY <2>2, Stable DEF HonestInv, HonestFin, Honest, StaysJudged
  <2>. QED  BY <2>1, <2>2, <2>4, HonestUnchanged
<1>5. CASE UNCHANGED vars
  BY <1>5, HonestUnchanged DEF vars
<1>. QED  BY <1>2, <1>3, <1>4, <1>5, HonestUnchanged

LEMMA HonestInitially == Init => HonestInv
<1>. SUFFICES ASSUME Init PROVE HonestInv
  OBVIOUS
<1>1. TypeOK
  BY InitTypes
<1>2. \A r \in Runs : RowsExist(r) /\ HonestRow(r) /\ HonestFin(r) /\ HonestMail(r)
  BY DEF Init, RowsExist, HonestRow, HonestFin, HonestMail, Honest, NoRow, Verdicts
<1>3. \A h \in Handlers : req[h].seen = NoRow
  BY DEF Init
<1>4. \A h \in Handlers : HonestReq(h)
  BY <1>3 DEF HonestReq, Honest, NoRow, Verdicts
<1>. QED  BY <1>1, <1>2, <1>4 DEF HonestInv

LEMMA HonestInductive == HonestInv /\ [Next]_vars => HonestInv'
<1>. SUFFICES ASSUME HonestInv, [Next]_vars PROVE HonestInv'
  OBVIOUS
<1>1. TypeOK'
  BY StartTypes, TaskTypes, FinalizeTypes, RequestTypes, FaultTypes, TypesStutter DEF Next, HonestInv
<1>2. \A r \in Runs : RowsExist(r)'
  BY RowsExistStable DEF HonestInv
<1>3. /\ \A r \in Runs : HonestRow(r)' /\ HonestFin(r)' /\ HonestMail(r)'
      /\ \A h \in Handlers : HonestReq(h)'
  BY HonestFinalize, HonestRequest, HonestOthers DEF Next
<1>. QED  BY <1>1, <1>2, <1>3 DEF HonestInv

THEOREM Honesty == Spec => []HonestInv
  BY HonestInitially, HonestInductive, PTL DEF Spec

\* FAIL-CLOSED: whatever is retried, killed, delivered again, restarted or
\* written back stale, a run is PASSED (or mailed as passed) only while it has
\* scanners and every one of their rows is PASSED.
THEOREM FailClosed == Spec => []PassedIsEarned
<1>1. HonestInv => PassedIsEarned
  BY DEF HonestInv, HonestRow, HonestMail, Honest, PassedIsEarned, Earned
<1>. QED  BY <1>1, Honesty, PTL

\* A run with a verdict has no scanner row left PENDING or RUNNING.
THEOREM Settled == Spec => []DoneRunsAreSettled
<1>1. HonestInv => DoneRunsAreSettled
  BY DEF HonestInv, HonestRow, Honest, DoneRunsAreSettled, Judged, IsDone
<1>. QED  BY <1>1, Honesty, PTL

(***************************************************************************)
(* The verdict mail.                                                       *)
(*                                                                         *)
(* A finalize task may decide twice, and a stale save may bring back the   *)
(* verdict of the first time.  So every copy of a run row with a verdict,  *)
(* other than CANCELLED, has the one that the rows alone give, and a copy  *)
(* with CANCELLED exists only once finalize has ended without a mail.      *)
(***************************************************************************)
\* Verdict, but for a cancellation of the run.
ByRows(r) ==
  LET statuses == {result[r][s] : s \in Of(r)} IN
  IF "CANCELLED" \in statuses THEN "CANCELLED"
  ELSE IF statuses = {} \/ \E st \in statuses : st \in Unfinished \union {"ERROR"} THEN "ERROR"
  ELSE IF "FAILED" \in statuses THEN "FAILED"
  ELSE IF statuses \subseteq {"PASSED"} THEN "PASSED"
  ELSE "ERROR"

Consistent(r, v) == v \in Verdicts \ {"CANCELLED"} => Judged(r) /\ v = ByRows(r)

Closed(r) == fin[r].pc = "done" /\ mail[r] = {}

Agrees(r, status) == Consistent(r, status) /\ (status = "CANCELLED" => Closed(r))

MailFollows(r) ==
  /\ fin[r].pc \in {"saving", "rendering", "mailing"} => Consistent(r, fin[r].verdict)
  /\ fin[r].pc \in {"rendering", "mailing"} => fin[r].verdict # "CANCELLED"
  /\ mail[r] # {} => /\ fin[r].pc = "done" /\ mail[r] = {fin[r].verdict}
                     /\ fin[r].verdict # "CANCELLED" /\ Consistent(r, fin[r].verdict)

MailInv ==
  /\ \A r \in Runs : Agrees(r, run[r].status) /\ Agrees(r, fin[r].seen.status) /\ MailFollows(r)
  /\ \A h \in Handlers : Agrees(req[h].run, req[h].seen.status)

\* What the rows of a judged run say stays what they say.
LEMMA ConsistentStays ==
  ASSUME TypeOK, [Next]_vars, NEW r \in Runs, NEW v, Consistent(r, v)
  PROVE  Consistent(r, v)'
<1>1. CASE v \notin Verdicts \ {"CANCELLED"}
  BY <1>1 DEF Consistent
<1>2. CASE v \in Verdicts \ {"CANCELLED"}
  <2>1. Judged(r)' /\ Of(r)' = Of(r) /\ \A s \in Of(r) : result'[r][s] = result[r][s]
    BY <1>2, Stable DEF Consistent, StaysJudged
  <2>2. {result'[r][s] : s \in Of(r)'} = {result[r][s] : s \in Of(r)}
    BY <2>1
  <2>3. ByRows(r)' = ByRows(r)
    BY <2>2 DEF ByRows
  <2>. QED  BY <1>2, <2>1, <2>3 DEF Consistent
<1>. QED  BY <1>1, <1>2

\* Nothing but finalize moves its task on or mails.
LEMMA FinKept ==
  ASSUME TypeOK, [Next]_vars, NEW r \in Runs,
         ~Finalize(r)
  PROVE  /\ mail'[r] = mail[r]
         /\ fin'[r].verdict = fin[r].verdict /\ fin'[r].seen = fin[r].seen
         /\ \/ fin'[r].pc = fin[r].pc
            \/ fin[r].pc # "done" /\ fin'[r].pc \in {"waiting", "dead"}
<1>1. ASSUME NEW q \in Runs, Finalize(q)  PROVE mail'[r] = mail[r] /\ fin'[r] = fin[r]
  <2>1. q # r
    BY <1>1
  <2>. QED  BY <1>1, <2>1 DEF Finalize, FinRead, FinSave, FinRender, FinMail, TypeOK
<1>2. ASSUME \/ \E q \in Runs : Start(q)
             \/ \E q \in Runs, s \in Scanners : Task(q, s) \/ TaskRevoked(q, s)
             \/ \E h \in Handlers : Request(h)
             \/ UNCHANGED vars
      PROVE  UNCHANGED <<mail, fin>>
  BY <1>2 DEF Start, StartCheck, StartCreate, StartDispatch, Task, TaskBegin, TaskStarted,
     TaskScanned, TaskTransient, TaskSave, TaskRevoked, Request, CancelRead, PdfRead, LiveRead,
     ReqReads, CancelSave, CancelRevoke, PdfSave, LiveSave, taskVars, vars
<1>3. ASSUME NEW q \in Runs, NEW s \in Scanners, TaskAborts(q, s) \/ TaskRedelivered(q, s)
      PROVE  UNCHANGED <<mail, fin>>
  BY <1>3 DEF TaskAborts, TaskRedelivered
<1>4. ASSUME NEW q \in Runs, FinAborts(q)
      PROVE  /\ mail' = mail
             /\ fin'[r].verdict = fin[r].verdict /\ fin'[r].seen = fin[r].seen
             /\ \/ fin'[r].pc = fin[r].pc
                \/ fin[r].pc # "done" /\ fin'[r].pc \in {"waiting", "dead"}
  <2>1. PICK pc \in {"waiting", "dead"} : fin' = [fin EXCEPT ![q].pc = pc]
    BY <1>4 DEF FinAborts
  <2>2. mail' = mail /\ fin[q].pc # "done"
    BY <1>4 DEF FinAborts, FinBusy
  <2>3. fin[q] \in [pc : FinPc, seen : RunRow, verdict : Verdicts]
    BY DEF TypeOK
  <2>4. q = r => /\ fin'[r].pc = pc
                 /\ fin'[r].verdict = fin[r].verdict /\ fin'[r].seen = fin[r].seen
    BY <2>1, <2>3 DEF TypeOK
  <2>5. q # r => fin'[r] = fin[r]
    BY <2>1 DEF TypeOK
  <2>. QED  BY <2>1, <2>2, <2>4, <2>5
<1>5. ASSUME Restart
      PROVE  /\ mail' = mail
             /\ fin'[r].verdict = fin[r].verdict /\ fin'[r].seen = fin[r].seen
             /\ \/ fin'[r].pc = fin[r].pc
                \/ fin[r].pc # "done" /\ fin'[r].pc \in {"waiting", "dead"}
  BY <1>5 DEF Restart, taskVars, TypeOK
<1>. QED  BY <1>1, <1>2, <1>3, <1>4, <1>5 DEF Next, Faulty

\* What finalize reads agrees with the rows it leaves.
LEMMA ReadAgrees ==
  ASSUME HonestInv, NEW r \in Runs, FinRead(r), NEW v, v = Verdict(r)
  PROVE  Consistent(r, v)'
<1>. DEFINE statuses == {result[r][s] : s \in Of(r)}
            after    == {result'[r][s] : s \in Of(r)}
<1>0. Of(r) \subseteq Scanners /\ Of(r)' = Of(r) /\ TypeOK
  BY OfScanners DEF FinRead, Of, HonestInv
<1>1. Judged(r)'
  BY VerdictHonest DEF HonestInv
<1>2. \A s \in Of(r) : result'[r][s] = IF result[r][s] \in Unfinished THEN v ELSE result[r][s]
  BY <1>0 DEF FinRead, TypeOK
<1>. SUFFICES ASSUME v # "CANCELLED"  PROVE v = ByRows(r)'
  BY <1>1 DEF Consistent
<1>3. v = ByRows(r) /\ "CANCELLED" \notin statuses
  BY DEF Verdict, ByRows
<1>4. CASE \A s \in Of(r) : result[r][s] \notin Unfinished
  <2>1. after = statuses
    BY <1>2, <1>4
  <2>. QED  BY <1>0, <1>3, <2>1 DEF ByRows
<1>5. CASE \E s \in Of(r) : result[r][s] \in Unfinished
  <2>1. v = "ERROR"
    BY <1>3, <1>5 DEF ByRows
  <2>2. "ERROR" \in after /\ "CANCELLED" \notin after
    BY <1>2, <1>3, <1>5, <2>1
  <2>. QED  BY <1>0, <2>1, <2>2 DEF ByRows
<1>. QED  BY <1>4, <1>5

\* A copy of a run's row that a step leaves alone still agrees, unless finalize
\* gave up a closed run.
LEMMA AgreesStays ==
  ASSUME TypeOK, [Next]_vars, NEW r \in Runs, NEW v, Agrees(r, v),
         Closed(r) => Closed(r)'
  PROVE  Agrees(r, v)'
  BY ConsistentStays DEF Agrees

LEMMA MailFinalize ==
  ASSUME HonestInv, MailInv, [Next]_vars, NEW r \in Runs, Finalize(r)
  PROVE  /\ Closed(r) => Closed(r)'
         /\ Agrees(r, run[r].status)' /\ Agrees(r, fin[r].seen.status)' /\ MailFollows(r)'
<1>. TypeOK
  BY DEF HonestInv
<1>0. /\ Agrees(r, run[r].status) /\ Agrees(r, fin[r].seen.status) /\ MailFollows(r)
      /\ fin[r] \in [pc : FinPc, seen : RunRow, verdict : Verdicts]
      /\ fin[r].pc # "done"
  BY DEF MailInv, TypeOK, Finalize, FinRead, FinSave, FinRender, FinMail
<1>1. mail[r] = {} /\ ~Closed(r)
  BY <1>0 DEF MailFollows, Closed
<1>2. CASE FinRead(r)
  <2>1. /\ fin'[r].pc = "saving" /\ fin'[r].seen = run[r] /\ fin'[r].verdict = Verdict(r)
        /\ run' = run /\ mail' = mail
    BY <1>2 DEF FinRead, TypeOK
  <2>2. Consistent(r, fin[r].verdict)'
    BY <1>2, <2>1, ReadAgrees DEF Consistent
  <2>3. Agrees(r, run[r].status)' /\ Agrees(r, fin[r].seen.status)'
    BY <1>0, <1>1, <2>1, AgreesStays DEF Agrees
  <2>. QED  BY <1>1, <2>1, <2>2, <2>3 DEF MailFollows
<1>3. ASSUME FinSave(r) \/ FinRender(r)
      PROVE  /\ run'[r].status = fin[r].verdict \/ run' = run
             /\ fin'[r].seen = fin[r].seen /\ fin'[r].verdict = fin[r].verdict /\ mail' = mail
             /\ fin[r].pc \in {"saving", "rendering"}
             /\ fin[r].verdict = "CANCELLED" => fin'[r].pc = "done"
             /\ fin[r].verdict # "CANCELLED" => fin'[r].pc # "done"
  <2>1. \A row \in RunRow, v \in Verdicts : [row EXCEPT !.status = v].status = v
    BY DEF RunRow
  <2>2. \A row \in RunRow, v \in Verdicts : [row EXCEPT !.status = v, !.pdf = TRUE].status = v
    BY DEF RunRow
  <2>3. \A row : run' = [run EXCEPT ![r] = row] => run'[r] = row
    BY DEF TypeOK
  <2>4. fin[r].seen \in RunRow /\ fin[r].verdict \in Verdicts
    BY <1>0
  <2>5. CASE FinSave(r)
    <3>1. run'[r].status = fin[r].verdict
      BY <2>1, <2>3, <2>4, <2>5 DEF FinSave
    <3>2. /\ fin'[r].seen = fin[r].seen /\ fin'[r].verdict = fin[r].verdict
          /\ fin'[r].pc = IF fin[r].verdict = "CANCELLED" THEN "done" ELSE "rendering"
      BY <1>0, <2>5 DEF FinSave, TypeOK
    <3>. QED  BY <2>5, <3>1, <3>2 DEF FinSave
  <2>6. CASE FinRender(r)
    <3>1. run'[r].status = fin[r].verdict \/ run' = run
      <4>. DEFINE row == [fin[r].seen EXCEPT !.status = fin[r].verdict, !.pdf = TRUE]
      <4>1. row.status = fin[r].verdict
        BY <2>2, <2>4
      <4>2. run' = [run EXCEPT ![r] = row] \/ run' = run
        BY <2>6 DEF FinRender
      <4>. HIDE DEF row
      <4>. QED  BY <2>3, <4>1, <4>2
    <3>2. /\ fin'[r].seen = fin[r].seen /\ fin'[r].verdict = fin[r].verdict
          /\ fin'[r].pc = "mailing" /\ fin[r].pc = "rendering"
      BY <1>0, <2>6 DEF FinRender, TypeOK
    <3>3. fin[r].verdict # "CANCELLED"
      BY <1>0, <3>2 DEF MailFollows
    <3>. QED  BY <2>6, <3>1, <3>2, <3>3 DEF FinRender
  <2>. QED  BY <1>3, <2>5, <2>6
<1>4. CASE FinSave(r) \/ FinRender(r)
  <2>1. Consistent(r, fin[r].verdict)
    BY <1>0, <1>3, <1>4 DEF MailFollows
  <2>2. Consistent(r, fin[r].verdict)'
    BY <1>3, <1>4, <2>1, ConsistentStays DEF Consistent
  <2>3. Agrees(r, run[r].status)
    BY <1>0
  <2>4. Agrees(r, fin[r].seen.status)'
    BY <1>0, <1>1, <1>3, <1>4, AgreesStays DEF Agrees
  <2>5. fin[r].verdict = "CANCELLED" => Closed(r)'
    BY <1>1, <1>3, <1>4 DEF Closed
  <2>6. Agrees(r, fin[r].verdict)'
    BY <1>3, <1>4, <2>2, <2>5 DEF Agrees
  <2>7. Agrees(r, run[r].status)'
    <3>1. CASE run'[r].status = fin[r].verdict
      BY <1>3, <1>4, <2>6, <3>1
    <3>2. CASE run' = run
      BY <1>1, <2>3, <3>2, AgreesStays DEF Agrees
    <3>. QED  BY <1>3, <1>4, <3>1, <3>2
  <2>8. MailFollows(r)'
    BY <1>1, <1>3, <1>4, <2>2 DEF MailFollows
  <2>. QED  BY <1>1, <2>4, <2>7, <2>8
<1>5. CASE FinMail(r)
  <2>1. /\ fin'[r].pc = "done" /\ fin[r].pc = "mailing" /\ mail'[r] = {fin[r].verdict}
        /\ fin'[r].seen = fin[r].seen /\ fin'[r].verdict = fin[r].verdict /\ run' = run
    BY <1>0, <1>1, <1>5 DEF FinMail, TypeOK, rowVars
  <2>2. Consistent(r, fin[r].verdict) /\ fin[r].verdict # "CANCELLED"
    BY <1>0, <2>1 DEF MailFollows
  <2>3. Consistent(r, fin[r].verdict)'
    BY <2>1, <2>2, ConsistentStays DEF Consistent
  <2>4. Agrees(r, run[r].status)' /\ Agrees(r, fin[r].seen.status)'
    BY <1>0, <1>1, <2>1, AgreesStays DEF Agrees
  <2>. QED  BY <1>1, <2>1, <2>2, <2>3, <2>4 DEF MailFollows
<1>. QED  BY <1>2, <1>4, <1>5 DEF Finalize

\* What a step may write in the rows of runs that finalize leaves alone.
LEMMA RunWritten ==
  ASSUME TypeOK, [Next]_vars, NEW r \in Runs, ~Finalize(r)
  PROVE  \/ run'[r].status \in {run[r].status, "RUNNING", "CANCELLING"}
         \/ \E h \in Handlers : req[h].run = r /\ run'[r].status = req[h].seen.status
<1>1. ASSUME NEW q \in Runs, Finalize(q)  PROVE run'[r] = run[r]
  <2>1. q # r
    BY <1>1
  <2>. QED  BY <1>1, <2>1 DEF Finalize, FinRead, FinSave, FinRender, FinMail, TypeOK, rowVars
<1>2. ASSUME NEW q \in Runs, Start(q)
      PROVE  run'[r].status = run[r].status \/ run'[r].status = "RUNNING"
  <2>1. CASE StartCheck(q) \/ StartDispatch(q)
    BY <2>1 DEF StartCheck, StartDispatch, rowVars, taskVars
  <2>2. CASE StartCreate(q)
    BY <2>2 DEF StartCreate, NoRow, taskVars, TypeOK
  <2>. QED  BY <1>2, <2>1, <2>2 DEF Start
<1>3. ASSUME NEW h \in Handlers, Request(h)
      PROVE  \/ run'[r].status \in {run[r].status, "CANCELLING"}
             \/ req[h].run = r /\ run'[r].status = req[h].seen.status
  <2>0. req[h].run \in Runs
    BY DEF TypeOK
  <2>1. CASE CancelSave(h)
    <3>1. run'[req[h].run].status = "CANCELLING"
      BY <2>0, <2>1 DEF CancelSave, TypeOK, RunRow
    <3>2. r # req[h].run => run'[r] = run[r]
      BY <2>1 DEF CancelSave, TypeOK
    <3>. QED  BY <3>1, <3>2
  <2>2. CASE PdfSave(h)
    <3>1. run'[req[h].run].status = req[h].seen.status
      BY <2>0, <2>2 DEF PdfSave, TypeOK, RunRow
    <3>2. r # req[h].run => run'[r] = run[r]
      BY <2>2 DEF PdfSave, TypeOK
    <3>. QED  BY <3>1, <3>2
  <2>3. CASE LiveSave(h)
    <3>1. run'[req[h].run].status = run[req[h].run].status
      BY <2>0, <2>3 DEF LiveSave, TypeOK, RunRow
    <3>2. r # req[h].run => run'[r] = run[r]
      BY <2>3 DEF LiveSave, TypeOK
    <3>. QED  BY <3>1, <3>2
  <2>4. CASE CancelRevoke(h) \/ \E q \in Runs : CancelRead(h, q) \/ PdfRead(h, q) \/ LiveRead(h, q)
    BY <2>4 DEF CancelRevoke, CancelRead, PdfRead, LiveRead, ReqReads, rowVars
  <2>. QED  BY <1>3, <2>1, <2>2, <2>3, <2>4 DEF Request
<1>4. ASSUME NEW q \in Runs, NEW s \in Scanners, Task(q, s) \/ TaskRevoked(q, s)
      PROVE  run' = run
  BY <1>4 DEF Task, TaskBegin, TaskStarted, TaskScanned, TaskTransient, TaskSave, TaskRevoked, rowVars
<1>5. ASSUME Faulty  PROVE run' = run
  BY <1>5 DEF Faulty, TaskAborts, TaskRedelivered, FinAborts, Restart, rowVars
<1>. QED  BY <1>1, <1>2, <1>3, <1>4, <1>5 DEF Next, vars

\* A web request only ever reads the row of a run as it is.
LEMMA RequestsRead ==
  ASSUME TypeOK, [Next]_vars, NEW h \in Handlers
  PROVE  \/ req'[h].run = req[h].run /\ req'[h].seen = req[h].seen
         \/ /\ req'[h].run \in Runs /\ req'[h].seen = run[req'[h].run]
            /\ UNCHANGED <<fin, mail, run>>
<1>1. ASSUME NEW g \in Handlers, NEW q \in Runs, NEW op \in AllOps, ReqReads(g, q, op)
      PROVE  \/ req'[h].run = req[h].run /\ req'[h].seen = req[h].seen
             \/ /\ req'[h].run \in Runs /\ req'[h].seen = run[req'[h].run]
                /\ UNCHANGED <<fin, mail, run>>
  <2>1. g = h => req'[h].run = q /\ req'[h].seen = run[q]
    BY <1>1 DEF ReqReads, TypeOK
  <2>2. g # h => req'[h] = req[h]
    BY <1>1 DEF ReqReads, TypeOK
  <2>. QED  BY <1>1, <2>1, <2>2 DEF ReqReads, rowVars, taskVars
<1>2. ASSUME NEW g \in Handlers,
             CancelSave(g) \/ CancelRevoke(g) \/ PdfSave(g) \/ LiveSave(g)
      PROVE  req'[h].run = req[h].run /\ req'[h].seen = req[h].seen
  <2>1. PICK pc : req' = [req EXCEPT ![g].pc = pc]
    BY <1>2 DEF CancelSave, CancelRevoke, PdfSave, LiveSave
  <2>. QED  BY <2>1 DEF TypeOK
<1>3. ASSUME Restart  PROVE req'[h].run = req[h].run /\ req'[h].seen = req[h].seen
  BY <1>3 DEF Restart, TypeOK
<1>4. ASSUME \/ \E q \in Runs : Start(q) \/ Finalize(q)
             \/ \E q \in Runs, s \in Scanners : Task(q, s) \/ TaskRevoked(q, s)
             \/ \E q \in Runs, s \in Scanners : TaskAborts(q, s) \/ TaskRedelivered(q, s)
             \/ \E q \in Runs : FinAborts(q)
             \/ UNCHANGED vars
      PROVE  req' = req
  BY <1>4 DEF Start, StartCheck, StartCreate, StartDispatch, Task, TaskBegin, TaskStarted,
     TaskScanned, TaskTransient, TaskSave, TaskRevoked, Finalize, FinRead, FinSave, FinRender,
     FinMail, TaskAborts, TaskRedelivered, FinAborts, vars
<1>. QED  BY <1>1, <1>2, <1>3, <1>4
     DEF Next, Request, Faulty, CancelRead, PdfRead, LiveRead, AllOps

LEMMA MailOthers ==
  ASSUME HonestInv, MailInv, [Next]_vars, NEW r \in Runs, ~Finalize(r)
  PROVE  /\ Closed(r) => Closed(r)'
         /\ Agrees(r, run[r].status)' /\ Agrees(r, fin[r].seen.status)' /\ MailFollows(r)'
<1>. TypeOK
  BY DEF HonestInv
<1>0. Agrees(r, run[r].status) /\ Agrees(r, fin[r].seen.status) /\ MailFollows(r)
  BY DEF MailInv
<1>1. Closed(r) => Closed(r)'
  BY FinKept DEF Closed
<1>2. Agrees(r, fin[r].seen.status)'
  BY <1>0, <1>1, FinKept, AgreesStays DEF Agrees
<1>3. Agrees(r, run[r].status)'
  <2>1. \A v : Agrees(r, v) => Agrees(r, v)'
    BY <1>1, AgreesStays
  <2>2. \A h \in Handlers : req[h].run = r => Agrees(r, req[h].seen.status)
    BY DEF MailInv
  <2>3. \A v \in {"RUNNING", "CANCELLING"} : Agrees(r, v)
    BY DEF Agrees, Consistent, Verdicts
  <2>4. Agrees(r, run'[r].status)
    BY <1>0, <2>2, <2>3, RunWritten
  <2>. QED  BY <2>1, <2>4
<1>4. MailFollows(r)'
  <2>1. Consistent(r, fin[r].verdict) => Consistent(r, fin[r].verdict)'
    BY FinKept, ConsistentStays
  <2>. QED  BY <1>0, <2>1, FinKept DEF MailFollows
<1>. QED  BY <1>1, <1>2, <1>3, <1>4

LEMMA MailInductive == HonestInv /\ MailInv /\ [Next]_vars => MailInv'
<1>. SUFFICES ASSUME HonestInv, MailInv, [Next]_vars  PROVE MailInv'
  OBVIOUS
<1>. TypeOK
  BY DEF HonestInv
<1>1. \A r \in Runs : /\ Closed(r) => Closed(r)'
                     /\ Agrees(r, run[r].status)' /\ Agrees(r, fin[r].seen.status)'
                     /\ MailFollows(r)'
  BY MailFinalize, MailOthers
<1>2. ASSUME NEW h \in Handlers  PROVE Agrees(req[h].run, req[h].seen.status)'
  <2>0. req[h].run \in Runs /\ Agrees(req[h].run, req[h].seen.status)
    BY DEF MailInv, TypeOK
  <2>1. CASE req'[h].run = req[h].run /\ req'[h].seen = req[h].seen
    <3>1. ASSUME NEW r \in Runs, NEW v, r = req[h].run, v = req[h].seen.status
          PROVE  Agrees(r, v)'
      BY <1>1, <2>0, <3>1, AgreesStays
    <3>. QED  BY <2>0, <2>1, <3>1
  <2>2. CASE /\ req'[h].run \in Runs /\ req'[h].seen = run[req'[h].run]
             /\ UNCHANGED <<fin, mail, run>>
    BY <1>1, <2>2
  <2>. QED  BY <2>1, <2>2, RequestsRead
<1>. QED  BY <1>1, <1>2 DEF MailInv

LEMMA MailInitially == Init => MailInv
<1>. SUFFICES ASSUME Init  PROVE MailInv
  OBVIOUS
<1>1. \A r \in Runs : Agrees(r, "NONE")
  BY DEF Agrees, Consistent, Verdicts
<1>2. \A r \in Runs : run[r].status = "NONE" /\ fin[r].seen.status = "NONE" /\ MailFollows(r)
  BY DEF Init, MailFollows, NoRow
<1>3. \A h \in Handlers : req[h].run \in Runs /\ req[h].seen.status = "NONE"
  BY DEF Init, NoRow
<1>. QED  BY <1>1, <1>2, <1>3 DEF MailInv

\* The mail and the dashboard agree: whenever a run shows a verdict and one was
\* mailed for it, they are the same, and a cancelled run mailed none, although
\* finalize may decide twice and report_pdf may bring an old row back.
THEOREM MailMatches == Spec => []MailAgreesWithRow
<1>1. Init => HonestInv /\ MailInv
  BY HonestInitially, MailInitially
<1>2. HonestInv /\ MailInv /\ [Next]_vars => (HonestInv /\ MailInv)'
  BY HonestInductive, MailInductive
<1>3. HonestInv /\ MailInv => MailAgreesWithRow
  <2>. SUFFICES ASSUME HonestInv, MailInv, NEW r \in Runs, IsDone(run[r])
                PROVE  mail[r] \subseteq {run[r].status} \ {"CANCELLED"}
    BY DEF MailAgreesWithRow
  <2>1. Agrees(r, run[r].status) /\ MailFollows(r)
    BY DEF MailInv
  <2>2. mail[r] # {} => fin[r].verdict \in Verdicts
    BY DEF HonestInv, TypeOK
  <2>. QED  BY <2>1, <2>2 DEF Agrees, Closed, MailFollows, Consistent, IsDone
<1>. QED  BY <1>1, <1>2, <1>3, PTL DEF Spec

(***************************************************************************)
(* Cancellation.                                                           *)
(***************************************************************************)
Begun(r) == start[r] \notin {"idle", "checked"}

\* A run has a row, a finalize task at work and requests only once it is
\* created, and requests do only what they may.
BegunInv ==
  /\ TypeOK
  /\ \A r \in Runs : run[r].status # "NONE" \/ fin[r].pc # "waiting" => Begun(r)
  /\ \A h \in Handlers : req[h].pc # "idle" => Begun(req[h].run)
  /\ \A h \in Handlers : req[h].pc = "held" => req[h].op \in Ops

LEMMA BegunStays ==
  ASSUME TypeOK, [Next]_vars, NEW r \in Runs, Begun(r)
  PROVE  Begun(r)'
<1>1. CASE UNCHANGED start
  BY <1>1 DEF Begun
<1>2. ASSUME NEW q \in Runs, Start(q)  PROVE Begun(r)'
  BY <1>2 DEF Begun, Start, StartCheck, StartCreate, StartDispatch, TypeOK
<1>3. ASSUME Restart  PROVE Begun(r)'
  BY <1>3 DEF Begun, Restart, TypeOK
<1>4. ASSUME \/ \E q \in Runs : Finalize(q) \/ FinAborts(q)
             \/ \E q \in Runs, s \in Scanners : Task(q, s) \/ TaskRevoked(q, s)
             \/ \E q \in Runs, s \in Scanners : TaskAborts(q, s) \/ TaskRedelivered(q, s)
             \/ \E h \in Handlers : Request(h)
             \/ UNCHANGED vars
      PROVE  UNCHANGED start
  BY <1>4 DEF Task, TaskBegin, TaskStarted, TaskScanned, TaskTransient, TaskSave, TaskRevoked,
     Finalize, FinRead, FinSave, FinRender, FinMail, TaskAborts, TaskRedelivered, FinAborts, vars,
     Request, CancelRead, PdfRead, LiveRead, ReqReads, CancelSave, CancelRevoke, PdfSave, LiveSave
<1>. QED  BY <1>1, <1>2, <1>3, <1>4 DEF Next, Faulty

\* How a request moves: it reads a row that exists, or goes on or is lost.
LEMMA RequestMoves ==
  ASSUME TypeOK, [Next]_vars, NEW h \in Handlers
  PROVE  \/ req'[h] = req[h]
         \/ /\ req'[h].run \in Runs /\ run[req'[h].run].status # "NONE" /\ req'[h].op \in Ops
         \/ /\ req[h].pc # "idle" /\ req'[h].pc # "held" /\ req'[h].run = req[h].run
<1>0. req[h] \in [pc : ReqPc, op : AllOps, run : Runs, seen : RunRow]
  BY DEF TypeOK
<1>1. ASSUME NEW g \in Handlers, NEW q \in Runs, NEW op \in AllOps, ReqReads(g, q, op)
      PROVE  \/ req'[h] = req[h]
             \/ /\ req'[h].run \in Runs /\ run[req'[h].run].status # "NONE" /\ req'[h].op \in Ops
  <2>1. g = h => req'[h].run = q /\ req'[h].op = op
    BY <1>1 DEF ReqReads, TypeOK
  <2>2. g # h => req'[h] = req[h]
    BY <1>1 DEF ReqReads, TypeOK
  <2>. QED  BY <1>1, <2>1, <2>2 DEF ReqReads
<1>2. ASSUME NEW g \in Handlers,
             CancelSave(g) \/ CancelRevoke(g) \/ PdfSave(g) \/ LiveSave(g)
      PROVE  \/ req'[h] = req[h]
             \/ /\ req[h].pc # "idle" /\ req'[h].pc # "held" /\ req'[h].run = req[h].run
  <2>1. PICK pc \in {"done", "revoking"} : req' = [req EXCEPT ![g].pc = pc]
    BY <1>2 DEF CancelSave, CancelRevoke, PdfSave, LiveSave
  <2>2. req[g].pc # "idle"
    BY <1>2 DEF CancelSave, CancelRevoke, PdfSave, LiveSave, ReqHolds
  <2>3. g = h => req'[h].pc = pc /\ req'[h].run = req[h].run
    BY <1>0, <2>1 DEF TypeOK
  <2>4. g # h => req'[h] = req[h]
    BY <2>1 DEF TypeOK
  <2>. QED  BY <2>1, <2>2, <2>3, <2>4
<1>3. ASSUME Restart
      PROVE  \/ req'[h] = req[h]
             \/ /\ req[h].pc # "idle" /\ req'[h].pc # "held" /\ req'[h].run = req[h].run
  BY <1>0, <1>3 DEF Restart, TypeOK
<1>4. ASSUME \/ \E q \in Runs : Start(q) \/ Finalize(q)
             \/ \E q \in Runs, s \in Scanners : Task(q, s) \/ TaskRevoked(q, s)
             \/ \E q \in Runs, s \in Scanners : TaskAborts(q, s) \/ TaskRedelivered(q, s)
             \/ \E q \in Runs : FinAborts(q)
             \/ UNCHANGED vars
      PROVE  req' = req
  BY <1>4 DEF Start, StartCheck, StartCreate, StartDispatch, Task, TaskBegin, TaskStarted,
     TaskScanned, TaskTransient, TaskSave, TaskRevoked, Finalize, FinRead, FinSave, FinRender,
     FinMail, TaskAborts, TaskRedelivered, FinAborts, vars
<1>. QED  BY <1>1, <1>2, <1>3, <1>4
     DEF Next, Request, Faulty, CancelRead, PdfRead, LiveRead, AllOps

\* A run's row is written, and its finalize task moves, for a run that is begun.
LEMMA WritesAreBegun ==
  ASSUME BegunInv, [Next]_vars, NEW r \in Runs
  PROVE  (run'[r].status # "NONE" \/ fin'[r].pc # "waiting") => Begun(r)'
<1>. TypeOK
  BY DEF BegunInv
<1>0. SUFFICES ASSUME ~Begun(r), ~Begun(r)'
              PROVE  run'[r].status = "NONE" /\ fin'[r].pc = "waiting"
  BY BegunStays
<1>1. run[r].status = "NONE" /\ fin[r].pc = "waiting"
  BY <1>0 DEF BegunInv
<1>2. ~Finalize(r)
  BY <1>0, <1>1 DEF Finalize, FinRead, FinSave, FinRender, FinMail, Ready, Begun
<1>3. \A h \in Handlers : req[h].run = r => req[h].pc = "idle"
  BY <1>0 DEF BegunInv
<1>4. fin'[r].pc = "waiting"
  <2>1. ASSUME Restart  PROVE fin'[r].pc = "waiting"
    BY <1>0, <1>1, <2>1 DEF Restart, Begun, taskVars, TypeOK
  <2>2. ASSUME NEW q \in Runs, FinAborts(q)  PROVE fin'[r].pc = "waiting"
    <3>1. q # r
      BY <1>1, <2>2 DEF FinAborts, FinBusy
    <3>. QED  BY <1>1, <2>2, <3>1 DEF FinAborts, TypeOK
  <2>3. ASSUME NEW q \in Runs, Finalize(q)  PROVE fin'[r].pc = "waiting"
    <3>1. q # r
      BY <1>2, <2>3
    <3>. QED  BY <1>1, <2>3, <3>1 DEF Finalize, FinRead, FinSave, FinRender, FinMail, TypeOK
  <2>4. ASSUME \/ \E q \in Runs : Start(q)
               \/ \E q \in Runs, s \in Scanners : Task(q, s) \/ TaskRevoked(q, s)
               \/ \E q \in Runs, s \in Scanners : TaskAborts(q, s) \/ TaskRedelivered(q, s)
               \/ \E h \in Handlers : Request(h)
               \/ UNCHANGED vars
        PROVE  fin' = fin
    BY <2>4 DEF Start, StartCheck, StartCreate, StartDispatch, Task, TaskBegin, TaskStarted,
       TaskScanned, TaskTransient, TaskSave, TaskRevoked, TaskAborts, TaskRedelivered, Request,
       CancelRead, PdfRead, LiveRead, ReqReads, CancelSave, CancelRevoke, PdfSave, LiveSave,
       taskVars, vars
  <2>. QED  BY <1>1, <2>1, <2>2, <2>3, <2>4 DEF Next, Faulty
<1>5. run'[r].status = "NONE"
  <2>1. ASSUME NEW q \in Runs, Start(q)  PROVE run'[r] = run[r]
    <3>1. CASE StartCreate(q)
      BY <1>0, <3>1 DEF StartCreate, Begun, TypeOK
    <3>. QED  BY <2>1, <3>1 DEF Start, StartCheck, StartDispatch, rowVars
  <2>2. ASSUME NEW q \in Runs, Finalize(q)  PROVE run'[r] = run[r]
    <3>1. q # r
      BY <1>2, <2>2
    <3>. QED  BY <2>2, <3>1 DEF Finalize, FinRead, FinSave, FinRender, FinMail, TypeOK, rowVars
  <2>3. ASSUME NEW h \in Handlers, Request(h)  PROVE run'[r] = run[r]
    <3>1. CASE CancelSave(h) \/ PdfSave(h) \/ LiveSave(h)
      <4>1. req[h].run # r
        BY <1>3, <3>1 DEF CancelSave, PdfSave, LiveSave, ReqHolds
      <4>. QED  BY <3>1, <4>1 DEF CancelSave, PdfSave, LiveSave, TypeOK
    <3>2. CASE CancelRevoke(h) \/ \E q \in Runs : CancelRead(h, q) \/ PdfRead(h, q) \/ LiveRead(h, q)
      BY <3>2 DEF CancelRevoke, CancelRead, PdfRead, LiveRead, ReqReads, rowVars
    <3>. QED  BY <2>3, <3>1, <3>2 DEF Request
  <2>4. ASSUME NEW q \in Runs, NEW s \in Scanners, Task(q, s) \/ TaskRevoked(q, s)
        PROVE  run' = run
    BY <2>4 DEF Task, TaskBegin, TaskStarted, TaskScanned, TaskTransient, TaskSave, TaskRevoked,
       rowVars
  <2>5. ASSUME Faulty  PROVE run' = run
    BY <2>5 DEF Faulty, TaskAborts, TaskRedelivered, FinAborts, Restart, rowVars
  <2>. QED  BY <1>1, <2>1, <2>2, <2>3, <2>4, <2>5 DEF Next, vars
<1>. QED  BY <1>4, <1>5

LEMMA BegunInductive == BegunInv /\ [Next]_vars => BegunInv'
<1>. SUFFICES ASSUME BegunInv, [Next]_vars  PROVE BegunInv'
  OBVIOUS
<1>. TypeOK
  BY DEF BegunInv
<1>1. TypeOK'
  BY StartTypes, TaskTypes, FinalizeTypes, RequestTypes, FaultTypes, TypesStutter DEF Next
<1>2. \A r \in Runs : run'[r].status # "NONE" \/ fin'[r].pc # "waiting" => Begun(r)'
  BY WritesAreBegun
<1>3. ASSUME NEW h \in Handlers
      PROVE  /\ req'[h].pc # "idle" => Begun(req[h].run)'
             /\ req'[h].pc = "held" => req'[h].op \in Ops
  <2>1. \A r \in Runs : Begun(r) => Begun(r)'
    BY BegunStays
  <2>2. req[h].run \in Runs
    BY DEF TypeOK
  <2>3. CASE req'[h] = req[h]
    BY <2>1, <2>2, <2>3 DEF BegunInv
  <2>4. CASE req'[h].run \in Runs /\ run[req'[h].run].status # "NONE" /\ req'[h].op \in Ops
    BY <2>1, <2>4 DEF BegunInv
  <2>5. CASE req[h].pc # "idle" /\ req'[h].pc # "held" /\ req'[h].run = req[h].run
    BY <2>1, <2>2, <2>5 DEF BegunInv
  <2>. QED  BY <2>3, <2>4, <2>5, RequestMoves
<1>. QED  BY <1>1, <1>2, <1>3 DEF BegunInv

LEMMA BegunAlways == Spec => []BegunInv
<1>1. Init => BegunInv
  <2>. SUFFICES ASSUME Init  PROVE BegunInv
    OBVIOUS
  <2>1. \A r \in Runs : run[r].status = "NONE" /\ fin[r].pc = "waiting"
    BY DEF Init, NoRow
  <2>2. \A h \in Handlers : req[h].pc = "idle"
    BY DEF Init
  <2>. QED  BY <2>1, <2>2, InitTypes DEF BegunInv
<1>. QED  BY <1>1, BegunInductive, PTL DEF Spec

\* A cancellation that finalize has seen, or will see when it reads the run.
Sealed(r) ==
  /\ run[r].status \in {"CANCELLING", "CANCELLED"}
  /\ fin[r].pc # "done" => run[r].status = "CANCELLING"
  /\ fin[r].pc = "saving" => fin[r].verdict = "CANCELLED"
  /\ fin[r].pc \notin {"rendering", "mailing"}

LEMMA SealedStays ==
  ASSUME BegunInv, [Next]_vars, "pdf" \notin Ops, NEW r \in Runs, Sealed(r)
  PROVE  Sealed(r)'
<1>. TypeOK
  BY DEF BegunInv
<1>0. fin[r] \in [pc : FinPc, seen : RunRow, verdict : Verdicts] /\ Begun(r)
  BY DEF BegunInv, TypeOK, Sealed
<1>1. CASE Finalize(r)
  <2>1. CASE FinRead(r)
    <3>1. /\ fin'[r].pc = "saving" /\ fin'[r].verdict = Verdict(r) /\ run' = run
          /\ fin[r].pc = "waiting"
      BY <2>1 DEF FinRead, TypeOK
    <3>2. Verdict(r) = "CANCELLED"
      BY <3>1 DEF Sealed, Verdict, IsCancelling
    <3>. QED  BY <3>1, <3>2 DEF Sealed
  <2>2. CASE FinSave(r)
    <3>1. fin[r].pc = "saving" /\ fin[r].verdict = "CANCELLED"
      BY <2>2 DEF FinSave, Sealed
    <3>2. fin'[r].pc = "done"
      BY <1>0, <2>2, <3>1 DEF FinSave, TypeOK
    <3>3. run'[r].status = "CANCELLED"
      <4>1. fin[r].seen \in RunRow
        BY <1>0
      <4>2. [fin[r].seen EXCEPT !.status = "CANCELLED"].status = "CANCELLED"
        BY <4>1 DEF RunRow
      <4>. QED  BY <2>2, <3>1, <4>2 DEF FinSave, TypeOK
    <3>. QED  BY <3>2, <3>3 DEF Sealed
  <2>. QED  BY <1>1, <2>1, <2>2 DEF Finalize, FinRender, FinMail, Sealed
<1>2. CASE ~Finalize(r)
  <2>1. run'[r].status \in {run[r].status, "CANCELLING"}
    <3>1. ASSUME NEW q \in Runs, Finalize(q)  PROVE run'[r] = run[r]
      <4>1. q # r
        BY <1>2, <3>1
      <4>. QED  BY <3>1, <4>1 DEF Finalize, FinRead, FinSave, FinRender, FinMail, TypeOK, rowVars
    <3>2. ASSUME NEW q \in Runs, Start(q)  PROVE run'[r] = run[r]
      <4>1. CASE StartCreate(q)
        BY <1>0, <4>1 DEF StartCreate, Begun, TypeOK
      <4>. QED  BY <3>2, <4>1 DEF Start, StartCheck, StartDispatch, rowVars
    <3>3. ASSUME NEW h \in Handlers, Request(h)
          PROVE  run'[r].status \in {run[r].status, "CANCELLING"}
      <4>1. ~PdfSave(h)
        BY DEF PdfSave, ReqHolds, BegunInv
      <4>2. CASE CancelSave(h)
        <5>1. run'[req[h].run].status = "CANCELLING"
          BY <4>2 DEF CancelSave, TypeOK, RunRow
        <5>2. r # req[h].run => run'[r] = run[r]
          BY <4>2 DEF CancelSave, TypeOK
        <5>. QED  BY <5>1, <5>2
      <4>3. CASE LiveSave(h)
        <5>1. run'[req[h].run].status = run[req[h].run].status
          BY <4>3 DEF LiveSave, TypeOK, RunRow
        <5>2. r # req[h].run => run'[r] = run[r]
          BY <4>3 DEF LiveSave, TypeOK
        <5>. QED  BY <5>1, <5>2
      <4>4. CASE CancelRevoke(h) \/ \E q \in Runs : CancelRead(h, q) \/ PdfRead(h, q) \/ LiveRead(h, q)
        BY <4>4 DEF CancelRevoke, CancelRead, PdfRead, LiveRead, ReqReads, rowVars
      <4>. QED  BY <3>3, <4>1, <4>2, <4>3, <4>4 DEF Request
    <3>4. ASSUME NEW q \in Runs, NEW s \in Scanners, Task(q, s) \/ TaskRevoked(q, s)
          PROVE  run' = run
      BY <3>4 DEF Task, TaskBegin, TaskStarted, TaskScanned, TaskTransient, TaskSave, TaskRevoked,
         rowVars
    <3>5. ASSUME Faulty  PROVE run' = run
      BY <3>5 DEF Faulty, TaskAborts, TaskRedelivered, FinAborts, Restart, rowVars
    <3>. QED  BY <3>1, <3>2, <3>3, <3>4, <3>5 DEF Next, vars
  <2>2. /\ fin'[r].verdict = fin[r].verdict
        /\ \/ fin'[r].pc = fin[r].pc
           \/ fin[r].pc # "done" /\ fin'[r].pc \in {"waiting", "dead"}
    BY <1>2, FinKept
  <2>. QED  BY <2>1, <2>2 DEF Sealed
<1>. QED  BY <1>1, <1>2

\* A cancellation stored before finalize reads the run is never undone: the run
\* stays CANCELLING or becomes CANCELLED, under every kind of fault, as long as
\* no report_pdf request is there to write an older row back.
THEOREM CancellationSticks ==
  ASSUME "pdf" \notin Ops
  PROVE  Spec => CancelBeforeVerdictSticks
<1>1. ASSUME NEW r \in Runs
      PROVE  Spec => [](IsCancelling(r) /\ fin[r].pc = "waiting"
                          => [](run[r].status \in {"CANCELLING", "CANCELLED"}))
  <2>1. BegunInv /\ Sealed(r) /\ [Next]_vars => Sealed(r)'
    BY SealedStays
  <2>2. IsCancelling(r) /\ fin[r].pc = "waiting" => Sealed(r)
    BY DEF IsCancelling, Sealed
  <2>3. Sealed(r) => run[r].status \in {"CANCELLING", "CANCELLED"}
    BY DEF Sealed
  <2>. QED  BY <2>1, <2>2, <2>3, BegunAlways, PTL DEF Spec
<1>. QED  BY <1>1 DEF CancelBeforeVerdictSticks
===============================================================================
