------------------------------ MODULE Booking -------------------------------
(***************************************************************************)
(* Handover bookings of EDCS-Gate (src/apps/scheduler): the Meeting rows,  *)
(* the handlers book, cancel_booking and reschedule_booking, the reminder  *)
(* rows, the trigger mails to Power Automate and the calendar its two      *)
(* flows maintain.                                                         *)
(*                                                                         *)
(* The handlers run in several web processes without a transaction: each   *)
(* database statement and each mail is a step.  A handler holds the row it *)
(* read and saves the whole of it; tool, date and slot never change once   *)
(* the row exists and every save sets the status, so what a stale save can *)
(* overwrite here is the status.                                           *)
(***************************************************************************)
EXTENDS Availability, FiniteSets

CONSTANTS
  Meetings,     \* ids of meetings (UUIDs)
  Nobody,       \* no meeting
  Handlers,     \* web requests served at the same time
  Ops,          \* the operations they serve: a subset of AllOps
  Runs, Passed, \* validation runs, and those whose status is PASSED
  Jiras, Tools,
  JiraOf, ToolOf,
  FlowOrdered,  \* whether Power Automate handles the mails in order
  Faults,       \* the kinds of fault that may happen: a subset of AllFaults
  MaxFaults     \* bound on the number of faults in a behaviour

AllOps    == {"book", "cancel", "reschedule", "slots"}
AllFaults == {"book mail", "reschedule mail", "cancel mail", "reminders", "crash"}

ASSUME NobodyAssumption == Nobody \notin Meetings
ASSUME RunsAssumption ==
  Passed \subseteq Runs /\ JiraOf \in [Runs -> Jiras] /\ ToolOf \in [Runs -> Tools]
ASSUME FlowAssumption == FlowOrdered \in BOOLEAN /\ MaxFaults \in Nat

VARIABLES
  want,      \* the run, date and slot each meeting is (or would be) for
  status,    \* Meeting.status, "NONE" before the row exists, "GONE" once deleted
  reminder,  \* the Reminder rows of each meeting
  open,      \* the active DailySlot rows
  req,       \* the handlers
  inbox,     \* trigger mails Power Automate has not handled
  calendar,  \* meetings with a calendar event
  asked,     \* meetings whose request mail was sent
  undone,    \* meetings a reschedule rolled back
  faults     \* faults so far

rows == <<status, reminder>>
flow == <<inbox, calendar>>
vars == <<want, rows, open, req, flow, asked, undone, faults>>

Active == {"PENDING", "REQUESTED", "CONFIRMED"}

MeetingStatus == {"NONE", "GONE", "PENDING", "REQUESTED", "CANCELLED", "FAILED"}

Pc == {"idle", "checked", "sending", "storing", "reminding", "failing",
       "withdrawing", "closing", "silencing"}

Idle == [pc |-> "idle", op |-> "book", new |-> Nobody, old |-> Nobody]

TypeOK ==
  /\ want \in [Meetings -> [run : Runs, date : Dates, slot : Slots]]
  /\ status \in [Meetings -> MeetingStatus]
  /\ reminder \in [Meetings -> {"NONE", "SCHEDULED", "CANCELLED"}]
  /\ open \in SUBSET Slots
  /\ req \in [Handlers -> [pc : Pc, op : AllOps, new : Meetings \union {Nobody},
                           old : Meetings \union {Nobody}]]
  /\ inbox \in SUBSET ({"create", "cancel"} \X Meetings)
  /\ calendar \in SUBSET Meetings
  /\ asked \in SUBSET Meetings
  /\ undone \in SUBSET Meetings
  /\ faults \in Nat

Init ==
  /\ want \in [Meetings -> [run : Runs, date : Dates, slot : Slots]]
  /\ status = [m \in Meetings |-> "NONE"]
  /\ reminder = [m \in Meetings |-> "NONE"]
  /\ open = Slots
  /\ req = [h \in Handlers |-> Idle]
  /\ inbox = {} /\ calendar = {} /\ asked = {} /\ undone = {}
  /\ faults = 0

(***************************************************************************)
(* Helpers.                                                                *)
(***************************************************************************)
Jira(m) == JiraOf[want[m].run]
Tool(m) == ToolOf[want[m].run]
Place(m) == <<Tool(m), want[m].date, want[m].slot>>

IsActive(m) == status[m] \in Active

\* booked_slot_ids
Booked(t, d) ==
  {want[q].slot : q \in {q \in Meetings : IsActive(q) /\ Tool(q) = t /\ want[q].date = d}}

Free(m) == Offered(want[m].date, want[m].slot, open, Booked(Tool(m), want[m].date))

\* Mutant of Clash: the constraint without PENDING in its condition.
ClashOfRequested(m) ==
  \E q \in Meetings \ {m} : status[q] \in {"REQUESTED", "CONFIRMED"} /\ Place(q) = Place(m)

\* uniq_tool_date_slot: the database refuses a second active row.
Clash(m) == \E q \in Meetings \ {m} : IsActive(q) /\ Place(q) = Place(m)

Fault(kind) == kind \in Faults /\ faults < MaxFaults /\ faults' = faults + 1

At(h, pc) == req[h].pc = pc

Goto(h, pc) == req' = [req EXCEPT ![h].pc = pc]
Done(h)     == req' = [req EXCEPT ![h] = Idle]

\* uuid4: an id that no row and no handler has.
Fresh(m) == status[m] = "NONE" /\ \A g \in Handlers : req[g].new # m

(***************************************************************************)
(* book: the availability and JIRA checks are reads, made before the row.  *)
(***************************************************************************)
\* Mutant of Book: the JIRA check looks at the tool's own meetings only.
BookPerTool(h, m) ==
  /\ "book" \in Ops
  /\ At(h, "idle") /\ Fresh(m)
  /\ want[m].run \in Passed
  /\ Free(m)
  /\ ~\E q \in Meetings : IsActive(q) /\ Jira(q) = Jira(m) /\ Tool(q) = Tool(m)
  /\ req' = [req EXCEPT ![h] = [pc |-> "checked", op |-> "book", new |-> m, old |-> Nobody]]
  /\ UNCHANGED <<want, rows, open, flow, asked, undone, faults>>

Book(h, m) ==
  /\ "book" \in Ops
  /\ At(h, "idle") /\ Fresh(m)
  /\ want[m].run \in Passed
  /\ Free(m)
  /\ ~\E q \in Meetings : IsActive(q) /\ Jira(q) = Jira(m)
  /\ req' = [req EXCEPT ![h] = [pc |-> "checked", op |-> "book", new |-> m, old |-> Nobody]]
  /\ UNCHANGED <<want, rows, open, flow, asked, undone, faults>>

(***************************************************************************)
(* reschedule_booking: a new meeting of the same run, then the original is *)
(* cancelled.                                                              *)
(***************************************************************************)
Reschedule(h, old, m) ==
  /\ "reschedule" \in Ops
  /\ At(h, "idle") /\ Fresh(m)
  /\ status[old] \notin {"NONE", "GONE", "CANCELLED"}
  /\ want[m].run = want[old].run
  /\ Place(m) # Place(old)
  /\ Free(m)
  /\ req' = [req EXCEPT ![h] = [pc |-> "checked", op |-> "reschedule", new |-> m, old |-> old]]
  /\ UNCHANGED <<want, rows, open, flow, asked, undone, faults>>

(***************************************************************************)
(* The new meeting of book and of reschedule_booking.                      *)
(***************************************************************************)
\* An IntegrityError of create() escapes both views: no row, an error page.
Create(h) ==
  /\ At(h, "checked")
  /\ IF Clash(req[h].new)
     THEN Done(h) /\ UNCHANGED status
     ELSE /\ status' = [status EXCEPT ![req[h].new] = "PENDING"]
          /\ Goto(h, "sending")
  /\ UNCHANGED <<want, reminder, open, flow, asked, undone, faults>>

\* send_meeting_request
Send(h) ==
  /\ At(h, "sending")
  /\ inbox' = inbox \union {<<"create", req[h].new>>}
  /\ asked' = asked \union {req[h].new}
  /\ Goto(h, "storing")
  /\ UNCHANGED <<want, rows, open, calendar, undone, faults>>

RequestMail(h) == IF req[h].op = "book" THEN "book mail" ELSE "reschedule mail"

\* Mutants of SendFails: the mail error is ignored; it escapes the view.
SendFailsSilently(h) ==
  /\ Fault(RequestMail(h))
  /\ At(h, "sending")
  /\ Goto(h, "storing")
  /\ UNCHANGED <<want, rows, open, flow, asked, undone>>

SendFailsUnhandled(h) ==
  /\ Fault(RequestMail(h))
  /\ At(h, "sending")
  /\ Done(h)
  /\ UNCHANGED <<want, rows, open, flow, asked, undone>>

SendFails(h) ==
  /\ Fault(RequestMail(h))
  /\ At(h, "sending")
  /\ Goto(h, "failing")
  /\ UNCHANGED <<want, rows, open, flow, asked, undone>>

\* The REQUESTED save, which the constraint may refuse.
Store(h) ==
  /\ At(h, "storing")
  /\ IF Clash(req[h].new)
     THEN Goto(h, "failing") /\ UNCHANGED status
     ELSE /\ status' = [status EXCEPT ![req[h].new] = "REQUESTED"]
          /\ Goto(h, "reminding")
  /\ UNCHANGED <<want, reminder, open, flow, asked, undone, faults>>

\* schedule_reminders_for; book ends here, reschedule_booking turns to the
\* original.
Remind(h) ==
  /\ At(h, "reminding")
  /\ reminder' = [reminder EXCEPT ![req[h].new] = "SCHEDULED"]
  /\ IF req[h].op = "book" THEN Done(h) ELSE Goto(h, "withdrawing")
  /\ UNCHANGED <<want, status, open, flow, asked, undone, faults>>

RemindFails(h) ==
  /\ Fault("reminders")
  /\ At(h, "reminding")
  /\ Goto(h, "failing")
  /\ UNCHANGED <<want, rows, open, flow, asked, undone>>

\* Mutant of Fail: reschedule_booking goes on after the rollback.
FailGoesOn(h) ==
  /\ At(h, "failing")
  /\ status' = [status EXCEPT ![req[h].new] = IF req[h].op = "book" THEN "FAILED" ELSE "GONE"]
  /\ IF req[h].op = "book" THEN Done(h) ELSE Goto(h, "withdrawing")
  /\ UNCHANGED <<want, reminder, open, flow, asked, undone, faults>>

\* The except blocks: book marks the row FAILED, reschedule_booking deletes it
\* and its reminders and says that nothing was rescheduled.
Fail(h) ==
  /\ At(h, "failing")
  /\ IF req[h].op = "book"
     THEN /\ status' = [status EXCEPT ![req[h].new] = "FAILED"]
          /\ UNCHANGED <<reminder, undone>>
     ELSE /\ status' = [status EXCEPT ![req[h].new] = "GONE"]
          /\ reminder' = [reminder EXCEPT ![req[h].new] = "NONE"]
          /\ undone' = undone \union {req[h].new}
  /\ Done(h)
  /\ UNCHANGED <<want, open, flow, asked, faults>>

(***************************************************************************)
(* cancel_booking, and the same tail in reschedule_booking: only a row     *)
(* that was read as REQUESTED has a cancel mail sent by cancel_booking.    *)
(***************************************************************************)
\* Mutant of Cancel: no cancel mail is sent, as for a PENDING row.
CancelQuietly(h, m) ==
  /\ "cancel" \in Ops
  /\ At(h, "idle")
  /\ status[m] \notin {"NONE", "GONE", "CANCELLED"}
  /\ req' = [req EXCEPT ![h] =
               [pc |-> "closing", op |-> "cancel", new |-> Nobody, old |-> m]]
  /\ UNCHANGED <<want, rows, open, flow, asked, undone, faults>>

Cancel(h, m) ==
  /\ "cancel" \in Ops
  /\ At(h, "idle")
  /\ status[m] \notin {"NONE", "GONE", "CANCELLED"}
  /\ req' = [req EXCEPT ![h] =
               [pc |-> IF status[m] = "REQUESTED" THEN "withdrawing" ELSE "closing",
                op |-> "cancel", new |-> Nobody, old |-> m]]
  /\ UNCHANGED <<want, rows, open, flow, asked, undone, faults>>

\* Mutant of Withdraw: the cancel mail names the wrong meeting.
WithdrawNew(h) ==
  /\ At(h, "withdrawing")
  /\ inbox' = inbox \union {<<"cancel", req[h].new>>}
  /\ Goto(h, "closing")
  /\ UNCHANGED <<want, rows, open, calendar, asked, undone, faults>>

\* send_meeting_cancel; a failure is swallowed.
Withdraw(h) ==
  /\ At(h, "withdrawing")
  /\ inbox' = inbox \union {<<"cancel", req[h].old>>}
  /\ Goto(h, "closing")
  /\ UNCHANGED <<want, rows, open, calendar, asked, undone, faults>>

WithdrawFails(h) ==
  /\ Fault("cancel mail")
  /\ At(h, "withdrawing")
  /\ Goto(h, "closing")
  /\ UNCHANGED <<want, rows, open, flow, asked, undone>>

Close(h) ==
  /\ At(h, "closing")
  /\ status' = [status EXCEPT ![req[h].old] = "CANCELLED"]
  /\ Goto(h, "silencing")
  /\ UNCHANGED <<want, reminder, open, flow, asked, undone, faults>>

Silence(h) ==
  /\ At(h, "silencing")
  /\ reminder' = [reminder EXCEPT ![req[h].old] = IF @ = "NONE" THEN @ ELSE "CANCELLED"]
  /\ Done(h)
  /\ UNCHANGED <<want, status, open, flow, asked, undone, faults>>

(***************************************************************************)
(* The surroundings: a web process dies, an administrator deactivates or   *)
(* reactivates a slot, and the two Power Automate flows.                  *)
(***************************************************************************)
Crash(h) ==
  /\ Fault("crash")
  /\ ~At(h, "idle")
  /\ Done(h)
  /\ UNCHANGED <<want, rows, open, flow, asked, undone>>

ToggleSlot(s) ==
  /\ "slots" \in Ops
  /\ open' = IF s \in open THEN open \ {s} ELSE open \union {s}
  /\ UNCHANGED <<want, rows, req, flow, asked, undone, faults>>

FlowCreates(m) ==
  /\ <<"create", m>> \in inbox
  /\ inbox' = inbox \ {<<"create", m>>}
  /\ calendar' = calendar \union {m}
  /\ UNCHANGED <<want, rows, open, req, asked, undone, faults>>

\* The cancel flow deletes the event it finds under the meeting's reference.
FlowCancels(m) ==
  /\ <<"cancel", m>> \in inbox
  /\ FlowOrdered => <<"create", m>> \notin inbox
  /\ inbox' = inbox \ {<<"cancel", m>>}
  /\ calendar' = calendar \ {m}
  /\ UNCHANGED <<want, rows, open, req, asked, undone, faults>>

(***************************************************************************)
(* The specification.                                                      *)
(***************************************************************************)
Begin(h) ==
  \/ \E m \in Meetings : Book(h, m) \/ Cancel(h, m)
  \/ \E old, m \in Meetings : Reschedule(h, old, m)

Proceed(h) ==
  \/ Create(h) \/ Send(h) \/ Store(h) \/ Remind(h) \/ Fail(h)
  \/ Withdraw(h) \/ Close(h) \/ Silence(h)

Break(h) == SendFails(h) \/ RemindFails(h) \/ WithdrawFails(h) \/ Crash(h)

Flow == \E m \in Meetings : FlowCreates(m) \/ FlowCancels(m)

Next ==
  \/ \E h \in Handlers : Begin(h) \/ Proceed(h) \/ Break(h)
  \/ \E s \in Slots : ToggleSlot(s)
  \/ Flow

Spec == Init /\ [][Next]_vars

(***************************************************************************)
(* Properties.                                                             *)
(***************************************************************************)

\* One active booking per tool, date and slot, across all users, whatever
\* stale saves bring a cancelled meeting back.
SlotExclusive ==
  \A m, q \in Meetings : IsActive(m) /\ IsActive(q) /\ Place(m) = Place(q) => m = q

\* Who holds a place, as SlotLedger sees it.
Places == Tools \X Dates \X Slots
Holds(m, p) == IsActive(m) /\ Place(m) = p
Holder(p) ==
  IF \E m \in Meetings : Holds(m, p) THEN CHOOSE m \in Meetings : Holds(m, p) ELSE Nobody

Ledger == INSTANCE SlotLedger WITH holder <- [p \in Places |-> Holder(p)]

\* The handlers implement the ledger: in every interleaving, and with saves of
\* rows cancelled meanwhile, a slot is taken only while it is free and goes from
\* one meeting to another only by being released.
KeepsLedger == Ledger!Spec

\* A meeting shown as REQUESTED had its request mailed: no row claims an
\* invitation that was never asked for.
RequestedWasAsked == \A m \in Meetings : status[m] = "REQUESTED" => m \in asked

\* reschedule_booking: before it withdraws the original, the replacement was
\* asked for and its row was stored; nothing but a later cancellation of the
\* replacement itself can leave the JIRA without a meeting.
ReplacementFirst ==
  \A h \in Handlers :
    req[h].op = "reschedule" /\ req[h].pc \in {"withdrawing", "closing", "silencing"} =>
      /\ req[h].new \in asked
      /\ status[req[h].new] \in {"REQUESTED", "CANCELLED"}

\* A PENDING booking, which blocks its slot and its JIRA, has a request at work
\* on it that will settle it: whatever mail or reminder fails, only the death of
\* the web process leaves one behind.
PendingIsServed ==
  \A m \in Meetings : status[m] = "PENDING" =>
    \E h \in Handlers : req[h].new = m /\ req[h].pc \in {"sending", "storing", "failing"}

\* The calendar grid tells the truth: a day it shows as bookable has a slot the
\* booking form accepts, and no other day has one.
CalendarTellsTruth ==
  \A t \in Tools, d \in Dates :
    DateStatus(d, open, Booked(t, d)) = "bookable"
      <=> \E s \in Slots : Offered(d, s, open, Booked(t, d))

AtRest == inbox = {} /\ \A h \in Handlers : At(h, "idle")

\* Requests served one at a time keep the calendar in step: at rest, the events
\* are those of the REQUESTED meetings, whatever mails of reschedulings failed.
CalendarMatchesRows == AtRest => calendar = {m \in Meetings : status[m] = "REQUESTED"}

\* One active meeting per JIRA, globally across all tools (README, and the
\* comment on the check in book).
OneMeetingPerJira ==
  AtRest => \A m, q \in Meetings :
              IsActive(m) /\ IsActive(q) /\ Jira(m) = Jira(q) => m = q

\* cancel_booking: "... so the real Teams/Outlook meeting is cancelled".
CancelledLeavesCalendar ==
  AtRest => \A m \in Meetings : status[m] = "CANCELLED" => m \notin calendar
=============================================================================
