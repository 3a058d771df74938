----------------------------- MODULE Followups ------------------------------
(***************************************************************************)
(* Post-handover follow-ups of EDCS-Gate (src/apps/scheduler): once a day  *)
(* dispatch_post_handover_followups reminds the team of every handover     *)
(* that is past and not marked GO-live, and escalates it to the managers.  *)
(* Meanwhile mark_go_live and cancel_booking save rows they read earlier,  *)
(* the former one column, the latter the whole row.                        *)
(*                                                                         *)
(* The task runs only where Celery beat and a worker run.  Elsewhere cron  *)
(* starts the command run_handover_followups, whose engine imports a       *)
(* second definition of the models HandoverFollowupConfig and              *)
(* EscalationPolicy; Django refuses it with a RuntimeError, before any     *)
(* meeting is looked at.  The 03:30 beat task runs the same engine.        *)
(***************************************************************************)
EXTENDS Naturals

CONSTANTS
  Meetings,
  HandoverDay,   \* Meeting.booking_date
  Configured,    \* meetings whose tool has an active HandoverFollowupConfig
  HasPolicy,     \* whether an EscalationPolicy is active
  ReminderDays, EscalationDays, \* days after the handover
  Handlers,      \* web requests served at the same time, each serves one
  Beat,          \* whether Celery beat runs, or cron starts the command
  LastDay,       \* bound on the days of a behaviour
  Faults,        \* the kinds of fault that may happen: a subset of AllFaults
  MaxFaults      \* bound on the number of faults in a behaviour

AllFaults == {"worker", "mail", "notice"}
Kinds == {"team", "escalation"}
Days  == 0 .. LastDay
Jobs  == IF Beat THEN {"task", "command"} ELSE {"command"}

ASSUME MeetingsAssumption == HandoverDay \in [Meetings -> Nat] /\ Configured \subseteq Meetings
ASSUME DaysAssumption ==
  LastDay \in Nat /\ ReminderDays \in Nat /\ EscalationDays \in Nat /\ MaxFaults \in Nat
ASSUME SettingsAssumption == HasPolicy \in BOOLEAN /\ Beat \in BOOLEAN

VARIABLES
  today,   \* timezone.localdate()
  row,     \* Meeting rows: status, go_live_done, the day of each *_sent_at
  req,     \* web requests with the row each has read
  ran,     \* the daily jobs started today
  scan,    \* the follow-up task: its day, what it has to send, the mail to stamp
  mails,   \* mails sent for each meeting, kind and day
  faults

vars == <<today, row, req, ran, scan, mails, faults>>

Never  == LastDay + 1
Nothing == << >>

Row == [status : {"REQUESTED", "CANCELLED"}, live : BOOLEAN, sent : [Kinds -> Days \union {Never}]]

TypeOK ==
  /\ today \in Days
  /\ row \in [Meetings -> Row]
  /\ req \in [Handlers -> [pc : {"idle", "held", "done"}, op : {"golive", "cancel"},
                           meeting : Meetings, seen : Row]]
  /\ ran \in SUBSET Jobs
  /\ scan \in [on : BOOLEAN, day : Days, todo : SUBSET (Meetings \X Kinds),
               stamp : (Meetings \X Kinds) \union {Nothing}]
  /\ mails \in [Meetings \X Kinds \X Days -> Nat]
  /\ faults \in Nat

FreshRow == [status |-> "REQUESTED", live |-> FALSE, sent |-> [k \in Kinds |-> Never]]
NoScan   == [on |-> FALSE, day |-> 0, todo |-> {}, stamp |-> Nothing]

Init ==
  /\ today = 0
  /\ row = [m \in Meetings |-> FreshRow]
  /\ req \in [Handlers -> [pc : {"idle"}, op : {"cancel"}, meeting : Meetings, seen : {FreshRow}]]
  /\ ran = {}
  /\ scan = NoScan
  /\ mails = [x \in Meetings \X Kinds \X Days |-> 0]
  /\ faults = 0

Fault(kind) == kind \in Faults /\ faults < MaxFaults /\ faults' = faults + 1

Active(r)  == r.status \in {"PENDING", "REQUESTED", "CONFIRMED"}
Stopped(r) == ~Active(r) \/ r.live

\* The threshold of each mail, counted from the handover date.
Due(m, k) ==
  /\ HandoverDay[m] < today
  /\ CASE k = "team"       -> m \in Configured /\ today - HandoverDay[m] >= ReminderDays
       [] k = "escalation" -> HasPolicy /\ today - HandoverDay[m] >= EscalationDays

\* What the scan has to send, on the rows as they are when it starts.
Owed(m, k) == ~Stopped(row[m]) /\ Due(m, k) /\ row[m].sent[k] # today

(***************************************************************************)
(* The daily task.                                                         *)
(***************************************************************************)
\* Mutants of ScanStart: the stamps are not looked at; only CONFIRMED meetings,
\* which nothing confirms, are followed up.
ScanStartUnstamped ==
  /\ Beat /\ "task" \notin ran /\ ~scan.on
  /\ scan' = [on |-> TRUE, day |-> today, stamp |-> Nothing,
              todo |-> {x \in Meetings \X Kinds : ~Stopped(row[x[1]]) /\ Due(x[1], x[2])}]
  /\ ran' = ran \union {"task"}
  /\ UNCHANGED <<today, row, req, mails, faults>>

ScanStartConfirmed ==
  /\ Beat /\ "task" \notin ran /\ ~scan.on
  /\ scan' = [on |-> TRUE, day |-> today, stamp |-> Nothing,
              todo |-> {x \in Meetings \X Kinds : /\ row[x[1]].status = "CONFIRMED"
                                             /\ ~row[x[1]].live /\ Due(x[1], x[2])}]
  /\ ran' = ran \union {"task"}
  /\ UNCHANGED <<today, row, req, mails, faults>>

\* The rows are read once: what is due, and not yet stamped today, is decided
\* on them, however long the mails take.
ScanStart ==
  /\ Beat /\ "task" \notin ran /\ ~scan.on
  /\ scan' = [on |-> TRUE, day |-> today, stamp |-> Nothing,
              todo |-> {x \in Meetings \X Kinds : Owed(x[1], x[2])}]
  /\ ran' = ran \union {"task"}
  /\ UNCHANGED <<today, row, req, mails, faults>>

ScanMail(m, k) ==
  /\ scan.on /\ scan.stamp = Nothing /\ <<m, k>> \in scan.todo
  /\ mails' = [mails EXCEPT ![<<m, k, scan.day>>] = @ + 1]
  /\ scan' = [scan EXCEPT !.stamp = <<m, k>>]
  /\ UNCHANGED <<today, row, req, ran, faults>>

\* _safe_send swallows the error of a mail server: the mail counts as sent.
ScanMailLost(m, k) ==
  /\ Fault("mail")
  /\ scan.on /\ scan.stamp = Nothing /\ <<m, k>> \in scan.todo
  /\ scan' = [scan EXCEPT !.stamp = <<m, k>>]
  /\ UNCHANGED <<today, row, req, ran, mails>>

\* The notice cannot be composed: the exception is dropped, nothing is stamped.
ScanSkips(m, k) ==
  /\ Fault("notice")
  /\ scan.on /\ scan.stamp = Nothing /\ <<m, k>> \in scan.todo
  /\ scan' = [scan EXCEPT !.todo = @ \ {<<m, k>>}]
  /\ UNCHANGED <<today, row, req, ran, mails>>

\* Mutant of ScanStamp: the whole row is saved, as the scan read it.
ScanStampRow(m, k) ==
  /\ scan.on /\ scan.stamp = <<m, k>>
  /\ row' = [row EXCEPT ![m] = [FreshRow EXCEPT !.sent[k] = scan.day]]
  /\ scan' = [scan EXCEPT !.stamp = Nothing, !.todo = @ \ {<<m, k>>}]
  /\ UNCHANGED <<today, req, ran, mails, faults>>

\* save(update_fields=[...]) writes the one column.
ScanStamp(m, k) ==
  /\ scan.on /\ scan.stamp = <<m, k>>
  /\ row' = [row EXCEPT ![m].sent[k] = scan.day]
  /\ scan' = [scan EXCEPT !.stamp = Nothing, !.todo = @ \ {<<m, k>>}]
  /\ UNCHANGED <<today, req, ran, mails, faults>>

ScanEnd ==
  /\ scan.on /\ scan.todo = {}
  /\ scan' = NoScan
  /\ UNCHANGED <<today, row, req, ran, mails, faults>>

\* acks_late: the task of a lost worker is delivered and run again.
WorkerLost ==
  /\ Fault("worker")
  /\ scan.on
  /\ scan' = NoScan
  /\ ran' = ran \ {"task"}
  /\ UNCHANGED <<today, row, req, mails>>

\* The command, or the 03:30 beat task: the engine ends in the RuntimeError of its import.
CommandFails ==
  /\ "command" \notin ran
  /\ ran' = ran \union {"command"}
  /\ UNCHANGED <<today, row, req, scan, mails, faults>>

\* The day's jobs are over by midnight.
DayPasses ==
  /\ today < LastDay
  /\ ran = Jobs /\ ~scan.on
  /\ today' = today + 1
  /\ ran' = {}
  /\ UNCHANGED <<row, req, scan, mails, faults>>

(***************************************************************************)
(* Web requests.                                                           *)
(***************************************************************************)
Reads(h, op, m) ==
  /\ req[h].pc = "idle"
  /\ req' = [req EXCEPT ![h] = [pc |-> "held", op |-> op, meeting |-> m, seen |-> row[m]]]
  /\ UNCHANGED <<today, row, ran, scan, mails, faults>>

GoLiveRead(h, m) ==
  /\ ~row[m].live /\ HandoverDay[m] < today
  /\ row[m].status \notin {"CANCELLED", "FAILED"}
  /\ Reads(h, "golive", m)

GoLiveSave(h) ==
  /\ req[h].pc = "held" /\ req[h].op = "golive"
  /\ row' = [row EXCEPT ![req[h].meeting].live = TRUE]
  /\ req' = [req EXCEPT ![h].pc = "done"]
  /\ UNCHANGED <<today, ran, scan, mails, faults>>

CancelRead(h, m) ==
  /\ row[m].status # "CANCELLED"
  /\ Reads(h, "cancel", m)

\* Mutant of CancelSave: the status of another model is stored.
CancelSaveCancelling(h) ==
  /\ req[h].pc = "held" /\ req[h].op = "cancel"
  /\ row' = [row EXCEPT ![req[h].meeting] = [req[h].seen EXCEPT !.status = "CANCELLING"]]
  /\ req' = [req EXCEPT ![h].pc = "done"]
  /\ UNCHANGED <<today, ran, scan, mails, faults>>

CancelSave(h) ==
  /\ req[h].pc = "held" /\ req[h].op = "cancel"
  /\ row' = [row EXCEPT ![req[h].meeting] = [req[h].seen EXCEPT !.status = "CANCELLED"]]
  /\ req' = [req EXCEPT ![h].pc = "done"]
  /\ UNCHANGED <<today, ran, scan, mails, faults>>

(***************************************************************************)
(* The specification.                                                      *)
(***************************************************************************)
Scan ==
  \/ ScanStart \/ ScanEnd
  \/ \E m \in Meetings, k \in Kinds : ScanMail(m, k) \/ ScanStamp(m, k)

ScanTroubles == \E m \in Meetings, k \in Kinds : ScanMailLost(m, k) \/ ScanSkips(m, k)

Request(h) ==
  \/ \E m \in Meetings : GoLiveRead(h, m) \/ CancelRead(h, m)
  \/ GoLiveSave(h) \/ CancelSave(h)

Next ==
  \/ Scan \/ ScanTroubles \/ WorkerLost \/ CommandFails \/ DayPasses
  \/ \E h \in Handlers : Request(h)

Spec == Init /\ [][Next]_vars

\* Days go by, and the daily jobs are started and run to their end.
FairSpec == Spec /\ WF_vars(DayPasses) /\ WF_vars(Scan) /\ WF_vars(CommandFails)

(***************************************************************************)
(* Properties.                                                             *)
(***************************************************************************)

\* "Marking GO-live stops the reminders": a row that is marked or cancelled is
\* never open again, although cancel_booking writes back the go_live_done it
\* read before the mark, and the scan writes its stamps all the while.
StoppedStaysStopped == [][\A m \in Meetings : Stopped(row[m]) => Stopped(row'[m])]_vars

\* A mail already stamped for a day is not sent again for that day, however
\* often the task is delivered again.
NoMailAfterStamp ==
  [][\A m \in Meetings, k \in Kinds, d \in Days :
       mails'[<<m, k, d>>] > mails[<<m, k, d>>] => row[m].sent[k] # d]_vars

\* A handover that is overdue has its team reminded, unless it is marked
\* GO-live or cancelled first; a mail that was lost is followed by the next day's.
Overdue(m) == m \in Configured /\ today > HandoverDay[m] /\ today - HandoverDay[m] >= ReminderDays

OverdueIsReminded ==
  \A m \in Meetings :
    Overdue(m) /\ today + MaxFaults <= LastDay ~>
      Stopped(row[m]) \/ \E d \in Days : mails[<<m, "team", d>>] > 0
=============================================================================
