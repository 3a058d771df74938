--------------------------- MODULE ValidationRuns ---------------------------
(***************************************************************************)
(* The verification pipeline of EDCS-Gate (src/apps/validation): the rows  *)
(* of ValidationRun and ValidationResult, the start_run handler, one       *)
(* run_scanner task per run and scanner, the finalize_validation task that *)
(* turns the scanner rows into a verdict, and the web requests that read a *)
(* run row and write it back later (cancel, report_pdf, mark_doc_go_live). *)
(*                                                                         *)
(* No code path opens a transaction, so every database statement is a step *)
(* of its own.  Django's save() without update_fields rewrites EVERY       *)
(* column of the row from the object in memory: a step that saves a run    *)
(* writes back the whole row its process read earlier.                     *)
(*                                                                         *)
(* eager says which of the two dispatch modes of services._dispatch is     *)
(* configured: threads of the web process (the default) or a Celery chord. *)
(***************************************************************************)
EXTENDS Naturals, FiniteSets

CONSTANTS
  Runs,        \* ids of the runs that requests may create
  Jiras,       \* JIRA ids
  Tools,       \* keys of ToolConfig
  ScannersOf,  \* the scanners each tool is configured with
  Handlers,    \* web requests on an existing run, each serves one
  Ops,         \* what those requests do: a subset of AllOps
  MaxRetries,  \* run_scanner's max_retries
  Faults,      \* the kinds of fault that may happen: a subset of AllFaults
  MaxFaults,   \* bound on the number of faults in a behaviour
  Modes        \* the values CELERY_TASK_ALWAYS_EAGER may be set to

AllOps    == {"cancel", "pdf", "golive"}
AllFaults == {"abort", "worker", "web"}

Scanners == UNION {ScannersOf[t] : t \in Tools}

ASSUME ScannersAssumption == ScannersOf \in [Tools -> SUBSET Scanners]
ASSUME OpsAssumption == Ops \subseteq AllOps /\ Faults \subseteq AllFaults
ASSUME BoundsAssumption == MaxRetries \in Nat /\ MaxFaults \in Nat
ASSUME ModesAssumption == Modes \subseteq BOOLEAN

VARIABLES
  form,     \* what the start request of each run asks for; never changes
  eager,    \* CELERY_TASK_ALWAYS_EAGER; never changes
  start,    \* the progress of start_run for each run
  run,      \* ValidationRun rows: status, whether pdf_file is set, go_live_done
  result,   \* ValidationResult rows: the status, "NONE" before the row exists
  taskId,   \* whether the result row has a celery_task_id
  task,     \* the run_scanner task of each run and scanner
  fin,      \* the finalize_validation task of each run
  req,      \* the web requests, with the run row each has read
  revoked,  \* tasks a revoke(terminate=True) has been broadcast for
  mail,     \* verdicts announced by mail for each run
  faults    \* crashes so far

rowVars  == <<run, result, taskId>>
taskVars == <<task, fin>>
vars == <<form, eager, start, run, result, taskId, task, fin, req, revoked, mail, faults>>

(***************************************************************************)
(* Row and process types.                                                  *)
(***************************************************************************)
Verdicts  == {"PASSED", "FAILED", "ERROR", "CANCELLED"}
RunStatus == Verdicts \union {"PENDING", "RUNNING", "CANCELLING"}
Unfinished == {"PENDING", "RUNNING"}

Form   == [jira : Jiras, tool : Tools, docOnly : BOOLEAN]
RunRow == [status : RunStatus \union {"NONE"}, pdf : BOOLEAN, live : BOOLEAN]
ResultStatus == Verdicts \union Unfinished \union {"NONE"}

TaskPc == {"none", "queued", "starting", "scanning", "saving", "done", "dead"}
FinPc  == {"waiting", "saving", "rendering", "mailing", "done", "dead"}
ReqPc  == {"idle", "held", "revoking", "done"}

NoRow == [status |-> "NONE", pdf |-> FALSE, live |-> FALSE]

TypeOK ==
  /\ form \in [Runs -> Form]
  /\ eager \in BOOLEAN
  /\ start \in [Runs -> {"idle", "checked", "created", "dispatched", "lost"}]
  /\ run \in [Runs -> RunRow]
  /\ result \in [Runs -> [Scanners -> ResultStatus]]
  /\ taskId \in [Runs -> [Scanners -> BOOLEAN]]
  /\ task \in [Runs -> [Scanners -> [pc : TaskPc, retries : Nat, out : Verdicts]]]
  /\ fin \in [Runs -> [pc : FinPc, seen : RunRow, verdict : Verdicts]]
  /\ req \in [Handlers -> [pc : ReqPc, op : AllOps, run : Runs, seen : RunRow]]
  /\ revoked \in SUBSET (Runs \X Scanners)
  /\ mail \in [Runs -> SUBSET Verdicts]
  /\ faults \in Nat

Init ==
  /\ form \in [Runs -> Form]
  /\ eager \in Modes
  /\ start = [r \in Runs |-> "idle"]
  /\ run = [r \in Runs |-> NoRow]
  /\ result = [r \in Runs |-> [s \in Scanners |-> "NONE"]]
  /\ taskId = [r \in Runs |-> [s \in Scanners |-> FALSE]]
  /\ task = [r \in Runs |-> [s \in Scanners |->
                [pc |-> "none", retries |-> 0, out |-> "ERROR"]]]
  /\ fin = [r \in Runs |-> [pc |-> "waiting", seen |-> NoRow, verdict |-> "ERROR"]]
  /\ req \in [Handlers -> [pc : {"idle"}, op : {"cancel"}, run : Runs, seen : {NoRow}]]
  /\ revoked = {}
  /\ mail = [r \in Runs |-> {}]
  /\ faults = 0

(***************************************************************************)
(* Helpers.                                                                *)
(***************************************************************************)
\* The scanner set is resolved from the tool, never from the client.
Of(r) == ScannersOf[form[r].tool]

IsDone(row) == row.status \in Verdicts          \* ValidationRun.is_done

IsCancelling(r) == run[r].status = "CANCELLING" \* tasks._is_cancelling

\* Mutant of Ready: the finalize thread waits for every scanner to return.
ReadyWhenAllReturned(r) ==
  /\ start[r] = "dispatched"
  /\ \A s \in Of(r) : task[r][s].pc = "done"

\* finalize_validation runs: in eager mode once every thread has been joined
\* (it returned or died), under a chord once every header task RETURNED.  A
\* chord with a failed or revoked header task never calls its body.
Ready(r) ==
  /\ start[r] = "dispatched"
  /\ \A s \in Of(r) : task[r][s].pc \in IF eager THEN {"done", "dead"} ELSE {"done"}

Fault(kind) == kind \in Faults /\ faults < MaxFaults /\ faults' = faults + 1

(***************************************************************************)
(* start_run: the duplicate checks are reads, the row is created later,    *)
(* then one PENDING result row per scanner and the dispatch.               *)
(***************************************************************************)
AlreadyCompleted(r) ==
  \E q \in Runs : form[q] = form[r] /\ run[q].status = "PASSED"

InProgress(r) ==
  \E q \in Runs : form[q].jira = form[r].jira /\ run[q].status \in Unfinished

StartCheck(r) ==
  /\ start[r] = "idle"
  /\ form[r].docOnly => ~AlreadyCompleted(r)
  /\ ~InProgress(r)
  /\ start' = [start EXCEPT ![r] = "checked"]
  /\ UNCHANGED <<form, eager, rowVars, taskVars, req, revoked, mail, faults>>

StartCreate(r) ==
  /\ start[r] = "checked"
  /\ start' = [start EXCEPT ![r] = "created"]
  /\ run' = [run EXCEPT ![r] = [NoRow EXCEPT !.status = "RUNNING"]]
  /\ UNCHANGED <<form, eager, result, taskId, taskVars, req, revoked, mail, faults>>

StartDispatch(r) ==
  /\ start[r] = "created"
  /\ start' = [start EXCEPT ![r] = "dispatched"]
  /\ result' = [result EXCEPT ![r] =
                  [s \in Scanners |-> IF s \in Of(r) THEN "PENDING" ELSE @[s]]]
  /\ task' = [task EXCEPT ![r] =
                [s \in Scanners |-> IF s \in Of(r) THEN [@[s] EXCEPT !.pc = "queued"]
                                                   ELSE @[s]]]
  /\ UNCHANGED <<form, eager, run, taskId, fin, req, revoked, mail, faults>>

(***************************************************************************)
(* run_scanner.                                                            *)
(***************************************************************************)
TaskGoes(r, s, rec) == task' = [task EXCEPT ![r][s] = rec]

\* Checkpoint 1: a run already cancelling gets a CANCELLED row and no scan.
TaskBegin(r, s) ==
  /\ task[r][s].pc = "queued"
  /\ TaskGoes(r, s, IF IsCancelling(r)
                    THEN [task[r][s] EXCEPT !.pc = "saving", !.out = "CANCELLED"]
                    ELSE [task[r][s] EXCEPT !.pc = "starting"])
  /\ UNCHANGED <<form, eager, start, rowVars, fin, req, revoked, mail, faults>>

TaskStarted(r, s) ==
  /\ task[r][s].pc = "starting"
  /\ result' = [result EXCEPT ![r][s] = "RUNNING"]
  /\ taskId' = [taskId EXCEPT ![r][s] = TRUE]
  /\ TaskGoes(r, s, [task[r][s] EXCEPT !.pc = "scanning"])
  /\ UNCHANGED <<form, eager, start, run, fin, req, revoked, mail, faults>>

\* The adapter returned or raised a terminal exception; checkpoint 2 discards
\* what it returned when the run is cancelling, but an exception is an ERROR.
TaskScanned(r, s) ==
  /\ task[r][s].pc = "scanning"
  /\ \E o \in {"PASSED", "FAILED", "ERROR"} :
       TaskGoes(r, s, [task[r][s] EXCEPT !.pc = "saving",
                         !.out = IF IsCancelling(r) /\ o # "ERROR" THEN "CANCELLED" ELSE o])
  /\ UNCHANGED <<form, eager, start, rowVars, fin, req, revoked, mail, faults>>

\* TransientScannerError: cancelled, retried, or ERROR on the last attempt.
\* Under a chord self.retry puts the task back on the queue; an eager apply()
\* with CELERY_TASK_EAGER_PROPAGATES lets Retry escape and the thread dies.
TaskTransient(r, s) ==
  /\ task[r][s].pc = "scanning"
  /\ LET t == task[r][s] IN
       TaskGoes(r, s,
         IF IsCancelling(r) THEN [t EXCEPT !.pc = "saving", !.out = "CANCELLED"]
         ELSE IF t.retries = MaxRetries THEN [t EXCEPT !.pc = "saving", !.out = "ERROR"]
         ELSE IF eager THEN [t EXCEPT !.pc = "dead"]
         ELSE [t EXCEPT !.pc = "queued", !.retries = @ + 1])
  /\ UNCHANGED <<form, eager, start, rowVars, fin, req, revoked, mail, faults>>

TaskSave(r, s) ==
  /\ task[r][s].pc = "saving"
  /\ result' = [result EXCEPT ![r][s] = task[r][s].out]
  /\ TaskGoes(r, s, [task[r][s] EXCEPT !.pc = "done"])
  /\ UNCHANGED <<form, eager, start, run, taskId, fin, req, revoked, mail, faults>>

TaskLive(r, s) == task[r][s].pc \in {"starting", "scanning", "saving"}

\* The 600 s time limit, a killed pool child or an exception outside the try.
TaskAborts(r, s) ==
  /\ Fault("abort")
  /\ TaskLive(r, s)
  /\ TaskGoes(r, s, [task[r][s] EXCEPT !.pc = "dead"])
  /\ UNCHANGED <<form, eager, start, rowVars, fin, req, revoked, mail>>

\* The whole worker is lost: acks_late delivers the message again.
TaskRedelivered(r, s) ==
  /\ ~eager
  /\ Fault("worker")
  /\ TaskLive(r, s)
  /\ TaskGoes(r, s, [task[r][s] EXCEPT !.pc = "queued"])
  /\ UNCHANGED <<form, eager, start, rowVars, fin, req, revoked, mail>>

\* A worker obeys the revoke: it kills the task, or drops it from the queue.
TaskRevoked(r, s) ==
  /\ <<r, s>> \in revoked
  /\ TaskLive(r, s) \/ task[r][s].pc = "queued"
  /\ TaskGoes(r, s, [task[r][s] EXCEPT !.pc = "dead"])
  /\ UNCHANGED <<form, eager, start, rowVars, fin, req, revoked, mail, faults>>

(***************************************************************************)
(* finalize_validation.                                                    *)
(***************************************************************************)
\* Mutants of Verdict: whatever is not FAILED passes; a cancellation is not
\* looked for; the run keeps CANCELLING.
VerdictFailOpen(r) ==
  IF IsCancelling(r) THEN "CANCELLED"
  ELSE IF \E s \in Of(r) : result[r][s] = "FAILED" THEN "FAILED" ELSE "PASSED"

VerdictIgnoringCancel(r) ==
  IF \E s \in Of(r) : result[r][s] \in Unfinished \union {"ERROR"} THEN "ERROR"
  ELSE IF \E s \in Of(r) : result[r][s] = "FAILED" THEN "FAILED" ELSE "PASSED"

VerdictKeepsCancelling(r) ==
  IF IsCancelling(r) THEN "CANCELLING" ELSE VerdictIgnoringCancel(r)

Verdict(r) ==
  LET statuses == {result[r][s] : s \in Of(r)} IN
  IF IsCancelling(r) \/ "CANCELLED" \in statuses THEN "CANCELLED"
  ELSE IF statuses = {} \/ \E st \in statuses : st \in Unfinished \union {"ERROR"} THEN "ERROR"
  ELSE IF "FAILED" \in statuses THEN "FAILED"
  ELSE IF statuses \subseteq {"PASSED"} THEN "PASSED"
  ELSE "ERROR"

\* Reads the run and its rows, decides, and settles the rows left unfinished.
FinRead(r) ==
  /\ Ready(r)
  /\ fin[r].pc = "waiting"
  /\ fin' = [fin EXCEPT ![r] = [pc |-> "saving", seen |-> run[r], verdict |-> Verdict(r)]]
  /\ result' = [result EXCEPT ![r] =
                  [s \in Scanners |->
                     IF s \in Of(r) /\ @[s] \in Unfinished THEN Verdict(r) ELSE @[s]]]
  /\ UNCHANGED <<form, eager, start, run, taskId, task, req, revoked, mail, faults>>

\* Mutant of FinSave: a cancelled run goes on to the completion mail.
FinSaveMailsCancelled(r) ==
  /\ fin[r].pc = "saving"
  /\ run' = [run EXCEPT ![r] = [fin[r].seen EXCEPT !.status = fin[r].verdict]]
  /\ fin' = [fin EXCEPT ![r].pc = "rendering"]
  /\ UNCHANGED <<form, eager, start, result, taskId, task, req, revoked, mail, faults>>

FinSave(r) ==
  /\ fin[r].pc = "saving"
  /\ run' = [run EXCEPT ![r] = [fin[r].seen EXCEPT !.status = fin[r].verdict]]
  /\ fin' = [fin EXCEPT ![r].pc = IF fin[r].verdict = "CANCELLED" THEN "done" ELSE "rendering"]
  /\ UNCHANGED <<form, eager, start, result, taskId, task, req, revoked, mail, faults>>

\* render_run_pdf ends in pdf_file.save(save=True): the whole row once more.
\* A rendering error is swallowed and leaves the row alone.
FinRender(r) ==
  /\ fin[r].pc = "rendering"
  /\ \/ run' = [run EXCEPT ![r] = [fin[r].seen EXCEPT !.status = fin[r].verdict, !.pdf = TRUE]]
     \/ UNCHANGED run
  /\ fin' = [fin EXCEPT ![r].pc = "mailing"]
  /\ UNCHANGED <<form, eager, start, result, taskId, task, req, revoked, mail, faults>>

FinMail(r) ==
  /\ fin[r].pc = "mailing"
  /\ mail' = [mail EXCEPT ![r] = @ \union {fin[r].verdict}]
  /\ fin' = [fin EXCEPT ![r].pc = "done"]
  /\ UNCHANGED <<form, eager, start, rowVars, task, req, revoked, faults>>

FinBusy(r) == fin[r].pc \in {"saving", "rendering", "mailing"}

\* A lost worker has the message delivered again; a killed child does not.
FinAborts(r) ==
  /\ ~eager
  /\ FinBusy(r)
  /\ \/ Fault("worker") /\ fin' = [fin EXCEPT ![r].pc = "waiting"]
     \/ Fault("abort") /\ fin' = [fin EXCEPT ![r].pc = "dead"]
  /\ UNCHANGED <<form, eager, start, rowVars, task, req, revoked, mail>>

(***************************************************************************)
(* Web requests on an existing run: read the row, act on it later.         *)
(***************************************************************************)
ReqReads(h, r, op) ==
  /\ op \in Ops
  /\ req[h].pc = "idle"
  /\ run[r].status # "NONE"
  /\ req' = [req EXCEPT ![h] = [pc |-> "held", op |-> op, run |-> r, seen |-> run[r]]]
  /\ UNCHANGED <<form, eager, start, rowVars, taskVars, revoked, mail, faults>>

ReqHolds(h, op) == req[h].pc = "held" /\ req[h].op = op

\* cancel refuses a done run and has nothing to do on a cancelling one.
CancelRead(h, r) ==
  /\ ~IsDone(run[r]) /\ ~IsCancelling(r)
  /\ ReqReads(h, r, "cancel")

\* Mutant of CancelSave: the run is CANCELLED at once, not CANCELLING.
CancelSaveAtOnce(h) ==
  /\ ReqHolds(h, "cancel")
  /\ run' = [run EXCEPT ![req[h].run] = [req[h].seen EXCEPT !.status = "CANCELLED"]]
  /\ req' = [req EXCEPT ![h].pc = IF eager THEN "done" ELSE "revoking"]
  /\ UNCHANGED <<form, eager, start, result, taskId, taskVars, revoked, mail, faults>>

CancelSave(h) ==
  /\ ReqHolds(h, "cancel")
  /\ run' = [run EXCEPT ![req[h].run] = [req[h].seen EXCEPT !.status = "CANCELLING"]]
  /\ req' = [req EXCEPT ![h].pc = IF eager THEN "done" ELSE "revoking"]
  /\ UNCHANGED <<form, eager, start, result, taskId, taskVars, revoked, mail, faults>>

CancelRevoke(h) ==
  /\ req[h].pc = "revoking"
  /\ revoked' = revoked \union {<<req[h].run, s>> : s \in {s \in Scanners : taskId[req[h].run][s]}}
  /\ req' = [req EXCEPT ![h].pc = "done"]
  /\ UNCHANGED <<form, eager, start, rowVars, taskVars, mail, faults>>

\* report_pdf renders when no file is stored, whatever the run's status.
PdfRead(h, r) ==
  /\ ~run[r].pdf
  /\ ReqReads(h, r, "pdf")

PdfSave(h) ==
  /\ ReqHolds(h, "pdf")
  /\ run' = [run EXCEPT ![req[h].run] = [req[h].seen EXCEPT !.pdf = TRUE]]
  /\ req' = [req EXCEPT ![h].pc = "done"]
  /\ UNCHANGED <<form, eager, start, result, taskId, taskVars, revoked, mail, faults>>

\* mark_doc_go_live saves with update_fields: only its own column changes.
LiveRead(h, r) ==
  /\ form[r].docOnly /\ run[r].status = "PASSED" /\ ~run[r].live
  /\ ReqReads(h, r, "golive")

LiveSave(h) ==
  /\ ReqHolds(h, "golive")
  /\ run' = [run EXCEPT ![req[h].run].live = TRUE]
  /\ req' = [req EXCEPT ![h].pc = "done"]
  /\ UNCHANGED <<form, eager, start, result, taskId, taskVars, revoked, mail, faults>>

(***************************************************************************)
(* The web process restarts: requests in progress are lost, and in eager   *)
(* mode so are the scanner and finalize threads it was running.            *)
(***************************************************************************)
Restart ==
  /\ Fault("web")
  /\ start' = [r \in Runs |-> IF start[r] \in {"checked", "created"} THEN "lost" ELSE start[r]]
  /\ req' = [h \in Handlers |-> IF req[h].pc \in {"held", "revoking"}
                                THEN [req[h] EXCEPT !.pc = "done"] ELSE req[h]]
  /\ IF eager
     THEN /\ task' = [r \in Runs |-> [s \in Scanners |->
                        IF TaskLive(r, s) \/ task[r][s].pc = "queued"
                        THEN [task[r][s] EXCEPT !.pc = "dead"] ELSE task[r][s]]]
          /\ fin' = [r \in Runs |-> IF start[r] = "dispatched" /\ fin[r].pc # "done"
                                    THEN [fin[r] EXCEPT !.pc = "dead"] ELSE fin[r]]
     ELSE UNCHANGED taskVars
  /\ UNCHANGED <<form, eager, rowVars, revoked, mail>>

(***************************************************************************)
(* The specification.                                                      *)
(***************************************************************************)
Start(r) == StartCheck(r) \/ StartCreate(r) \/ StartDispatch(r)

Task(r, s) ==
  \/ TaskBegin(r, s) \/ TaskStarted(r, s) \/ TaskScanned(r, s)
  \/ TaskTransient(r, s) \/ TaskSave(r, s)

Finalize(r) == FinRead(r) \/ FinSave(r) \/ FinRender(r) \/ FinMail(r)

Request(h) ==
  \/ \E r \in Runs : CancelRead(h, r) \/ PdfRead(h, r) \/ LiveRead(h, r)
  \/ CancelSave(h) \/ CancelRevoke(h) \/ PdfSave(h) \/ LiveSave(h)

Faulty ==
  \/ \E r \in Runs, s \in Scanners : TaskAborts(r, s) \/ TaskRedelivered(r, s)
  \/ \E r \in Runs : FinAborts(r)
  \/ Restart

Next ==
  \/ \E r \in Runs : Start(r) \/ Finalize(r)
  \/ \E r \in Runs, s \in Scanners : Task(r, s) \/ TaskRevoked(r, s)
  \/ \E h \in Handlers : Request(h)
  \/ Faulty

Spec == Init /\ [][Next]_vars

\* A request that has begun, a thread and a queued task are run to their end;
\* nobody has to send a request, and a revoke may miss its task.
Fairness ==
  /\ \A r \in Runs : WF_vars(StartCreate(r) \/ StartDispatch(r)) /\ WF_vars(Finalize(r))
  /\ \A r \in Runs, s \in Scanners : WF_vars(Task(r, s))
  /\ \A h \in Handlers : WF_vars(CancelSave(h) \/ CancelRevoke(h) \/ PdfSave(h) \/ LiveSave(h))

FairSpec == Spec /\ Fairness

(***************************************************************************)
(* Properties.                                                             *)
(***************************************************************************)

\* FAIL-CLOSED (tasks.finalize_validation): a run that is PASSED, or was
\* announced as passed, has scanners and the row of every one of them PASSED,
\* whatever was retried, killed, delivered again or written back stale.
PassedIsEarned ==
  \A r \in Runs : run[r].status = "PASSED" \/ "PASSED" \in mail[r] =>
    /\ Of(r) # {}
    /\ \A s \in Of(r) : result[r][s] = "PASSED"

\* A run shown as done has no scanner card still PENDING or RUNNING: every row
\* is settled, also those of threads that died.
DoneRunsAreSettled ==
  \A r \in Runs : IsDone(run[r]) => \A s \in Of(r) : result[r][s] \in Verdicts

\* The mail and the dashboard agree: whenever a run shows a verdict and one was
\* mailed for it, they are the same, and a cancelled run mailed none.
MailAgreesWithRow ==
  \A r \in Runs : IsDone(run[r]) => mail[r] \subseteq {run[r].status} \ {"CANCELLED"}

\* A cancellation stored before finalize reads the run is never undone: the run
\* stays CANCELLING or becomes CANCELLED, and nothing else for ever.
CancelBeforeVerdictSticks ==
  \A r \in Runs :
    [](IsCancelling(r) /\ fin[r].pc = "waiting"
         => [](run[r].status \in {"CANCELLING", "CANCELLED"}))

\* A dispatched run gets a verdict and keeps it, and no scanner page polls for
\* ever: only a cancellation, or the killing of what the verdict waits for, can
\* prevent it.  A dead scanner thread does not, in eager mode.
Killed(r) == fin[r].pc = "dead" \/ (~eager /\ \E s \in Scanners : task[r][s].pc = "dead")

RunSettles ==
  \A r \in Runs :
    start[r] = "dispatched" ~> [](IsDone(run[r])) \/ [](IsCancelling(r)) \/ Killed(r)

\* What the documentation says of Terminate: a cancelled run shows Cancelled.
TerminateShowsCancelled ==
  \A r \in Runs : IsCancelling(r) ~> run[r].status = "CANCELLED"
=============================================================================
