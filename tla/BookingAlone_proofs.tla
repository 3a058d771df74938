------------------------- MODULE BookingAlone_proofs -------------------------
(***************************************************************************)
(* Proofs about Booking when one web request is served at a time: what the *)
(* handlers promise as long as none reads between two steps of another.    *)
(* Which faults they survive even then is a hypothesis of each theorem.    *)
(***************************************************************************)
EXTENDS Booking_proofs

\* Every step of the only handler, but for the faults that are ruled out.
LEMMA OneHandler ==
  ASSUME NEW h, Handlers = {h}, [Next]_vars
  PROVE  \/ Begin(h) \/ Proceed(h) \/ Break(h)
         \/ Flow
         \/ (\E s \in Slots : ToggleSlot(s)) \/ UNCHANGED vars
  BY DEF Next

\* The mails may fail, but no process dies and the reminder rows are stored.
OnlyMailsFail == Faults \cap {"crash", "reminders"} = {}

(***************************************************************************)
(* The handler and the rows: a PENDING row is the one it is working on.    *)
(***************************************************************************)
RowsFollow(h) ==
  /\ At(h, "checked") => status[req[h].new] = "NONE"
  /\ AtWork(h) => status[req[h].new] = "PENDING"
  /\ \A m \in Meetings : status[m] = "PENDING" => req[h].new = m /\ AtWork(h)
  /\ req[h].old \in Meetings => status[req[h].old] \notin {"NONE", "PENDING"}

LEMMA RowsFollowStep ==
  ASSUME Typed, NEW h, Handlers = {h}, OnlyMailsFail, RowsFollow(h), [Next]_vars
  PROVE  RowsFollow(h)'
<1>0. /\ status \in [Meetings -> MeetingStatus] /\ req \in [Handlers -> Req]
      /\ h \in Handlers /\ HasMeeting(h) /\ req[h] \in Req
  BY DEF Typed, TypeOK, Req, HaveMeetings
<1>1. CASE Begin(h)
  <2>1. status' = status /\ At(h, "idle")
    BY <1>1 DEF Begin, Book, Cancel, Reschedule, rows
  <2>2. \A m \in Meetings : status[m] # "PENDING"
    BY <2>1 DEF RowsFollow, AtWork, At
  <2>3. ASSUME NEW m \in Meetings, Book(h, m)  PROVE RowsFollow(h)'
    <3>1. req'[h] = [pc |-> "checked", op |-> "book", new |-> m, old |-> Nobody]
      BY <1>0, <2>3 DEF Book
    <3>2. status[m] = "NONE"
      BY <2>3 DEF Book, Fresh
    <3>. QED  BY <2>1, <2>2, <3>1, <3>2, NobodyAssumption DEF RowsFollow, At, AtWork
  <2>4. ASSUME NEW m \in Meetings, Cancel(h, m)  PROVE RowsFollow(h)'
    <3>1. req'[h].pc \in {"withdrawing", "closing"} /\ req'[h].old = m
      BY <1>0, <2>4 DEF Cancel
    <3>2. status[m] \notin {"NONE", "PENDING"}
      BY <2>2, <2>4 DEF Cancel
    <3>. QED  BY <2>1, <2>2, <3>1, <3>2 DEF RowsFollow, At, AtWork
  <2>5. ASSUME NEW old \in Meetings, NEW m \in Meetings, Reschedule(h, old, m)
        PROVE  RowsFollow(h)'
    <3>1. req'[h] = [pc |-> "checked", op |-> "reschedule", new |-> m, old |-> old]
      BY <1>0, <2>5 DEF Reschedule
    <3>2. status[m] = "NONE" /\ status[old] \notin {"NONE", "PENDING"}
      BY <2>2, <2>5 DEF Reschedule, Fresh
    <3>. QED  BY <2>1, <2>2, <3>1, <3>2 DEF RowsFollow, At, AtWork
  <2>. QED  BY <1>1, <2>3, <2>4, <2>5 DEF Begin
\* A handler that is done, or moves on outside the work on its new row.
<1>d. ASSUME Done(h), \A m \in Meetings : status'[m] # "PENDING"  PROVE RowsFollow(h)'
  BY <1>0, <1>d, NobodyAssumption DEF Done, Idle, RowsFollow, At, AtWork
<1>g. ASSUME NEW pc, Goto(h, pc)
      PROVE  req'[h].pc = pc /\ req'[h].new = req[h].new /\ req'[h].old = req[h].old
  BY <1>0, <1>g DEF Goto, Req
<1>2. CASE Create(h)
  <2>1. req[h].new \in Meetings /\ \A m \in Meetings : status[m] # "PENDING"
    BY <1>0, <1>2 DEF Create, HasMeeting, RowsFollow, AtWork, At
  <2>2. CASE Clash(req[h].new)
    BY <1>2, <1>d, <2>1, <2>2 DEF Create
  <2>3. CASE ~Clash(req[h].new)
    <3>1. status' = [status EXCEPT ![req[h].new] = "PENDING"] /\ Goto(h, "sending")
      BY <1>2, <2>3 DEF Create
    <3>2. status[req[h].new] = "NONE"
      BY <1>2 DEF Create, RowsFollow
    <3>. QED  BY <1>0, <1>g, <2>1, <3>1, <3>2 DEF RowsFollow, AtWork, At
  <2>. QED  BY <2>2, <2>3
<1>3. CASE Send(h) \/ SendFails(h)
  <2>1. /\ status' = status /\ AtWork(h)
        /\ \E pc \in {"storing", "failing"} : Goto(h, pc)
    BY <1>3 DEF Send, SendFails, rows, AtWork, At
  <2>. QED  BY <1>g, <2>1 DEF RowsFollow, AtWork, At
<1>4. CASE Store(h)
  <2>1. AtWork(h) /\ req[h].new \in Meetings
    BY <1>0, <1>4 DEF Store, AtWork, At, HasMeeting
  <2>2. CASE Clash(req[h].new)
    BY <1>4, <1>g, <2>1, <2>2 DEF Store, RowsFollow, AtWork, At
  <2>3. CASE ~Clash(req[h].new)
    <3>1. status' = [status EXCEPT ![req[h].new] = "REQUESTED"] /\ Goto(h, "reminding")
      BY <1>4, <2>3 DEF Store
    <3>. QED  BY <1>0, <1>g, <2>1, <3>1 DEF RowsFollow, AtWork, At
  <2>. QED  BY <2>2, <2>3
<1>5. CASE Fail(h)
  <2>1. AtWork(h) /\ req[h].new \in Meetings /\ Done(h)
    BY <1>0, <1>5 DEF Fail, AtWork, At, HasMeeting
  <2>2. PICK st \in {"FAILED", "GONE"} : status' = [status EXCEPT ![req[h].new] = st]
    BY <1>5 DEF Fail
  <2>3. \A m \in Meetings : status'[m] # "PENDING"
    BY <1>0, <2>1, <2>2 DEF RowsFollow
  <2>. QED  BY <1>d, <2>1, <2>3
<1>6. CASE Remind(h) \/ Silence(h)
  <2>1. status' = status /\ \A m \in Meetings : status[m] # "PENDING"
    BY <1>6 DEF Remind, Silence, RowsFollow, AtWork, At
  <2>2. Done(h) \/ Goto(h, "withdrawing")
    BY <1>6 DEF Remind, Silence
  <2>. QED  BY <1>d, <1>g, <2>1, <2>2 DEF RowsFollow, AtWork, At
<1>7. CASE Withdraw(h) \/ WithdrawFails(h)
  <2>1. status' = status /\ Goto(h, "closing") /\ At(h, "withdrawing")
    BY <1>7 DEF Withdraw, WithdrawFails, rows
  <2>. QED  BY <1>g, <2>1 DEF RowsFollow, AtWork, At
<1>8. CASE Close(h)
  <2>1. /\ status' = [status EXCEPT ![req[h].old] = "CANCELLED"] /\ Goto(h, "silencing")
        /\ At(h, "closing") /\ req[h].old \in Meetings
    BY <1>0, <1>8 DEF Close, HasMeeting, At
  <2>2. \A m \in Meetings : status[m] # "PENDING"
    BY <2>1 DEF RowsFollow, AtWork, At
  <2>. QED  BY <1>0, <1>g, <2>1, <2>2 DEF RowsFollow, AtWork, At
<1>9. ASSUME Flow \/ (\E s \in Slots : ToggleSlot(s)) \/ UNCHANGED vars
      PROVE  UNCHANGED <<status, req>>
  BY <1>9 DEF Flow, FlowCreates, FlowCancels, ToggleSlot, vars, rows
<1>10. ~RemindFails(h) /\ ~Crash(h)
  BY DEF RemindFails, Crash, Fault, OnlyMailsFail
<1>11. UNCHANGED <<status, req>> => RowsFollow(h)'
  BY DEF RowsFollow, AtWork, At
<1>. QED  BY <1>1, <1>2, <1>3, <1>4, <1>5, <1>6, <1>7, <1>8, <1>9, <1>10, <1>11, OneHandler
          DEF Proceed, Break

(***************************************************************************)
(* The mails and the calendar: a meeting is in step with its REQUESTED row *)
(* when its event exists, or will, and nothing is on its way to remove it. *)
(***************************************************************************)
InStep(m) ==
  (m \in calendar \/ <<"create", m>> \in inbox) /\ <<"cancel", m>> \notin inbox

Unknown(m) == m \notin calendar /\ <<"create", m>> \notin inbox /\ <<"cancel", m>> \notin inbox

EventFollows(h, m) ==
  /\ status[m] = "NONE" => Unknown(m)
  /\ status[m] = "PENDING" /\ At(h, "storing") => InStep(m)
  /\ status[m] = "PENDING" /\ ~At(h, "storing") => Unknown(m)
  /\ status[m] = "REQUESTED" => InStep(m) \/ (At(h, "closing") /\ req[h].old = m)
  /\ status[m] \in {"GONE", "FAILED", "CANCELLED"} => ~InStep(m)
  /\ At(h, "closing") /\ req[h].old = m => ~InStep(m)

EventsFollow(h) == \A m \in Meetings : EventFollows(h, m)

\* What the two flows do to a meeting changes nothing of this.
LEMMA FlowsKeepStep ==
  ASSUME Typed, Flow, FlowOrdered, NEW m \in Meetings
  PROVE  InStep(m)' = InStep(m) /\ (Unknown(m) => Unknown(m)')
<1>1. ASSUME NEW q \in Meetings, FlowCreates(q)
      PROVE  InStep(m)' = InStep(m) /\ (Unknown(m) => Unknown(m)')
  BY <1>1 DEF FlowCreates, InStep, Unknown
<1>2. ASSUME NEW q \in Meetings, FlowCancels(q)
      PROVE  InStep(m)' = InStep(m) /\ (Unknown(m) => Unknown(m)')
  BY <1>2 DEF FlowCancels, InStep, Unknown
<1>. QED  BY <1>1, <1>2 DEF Flow

LEMMA EventsFollowStep ==
  ASSUME Typed, SlotExclusive, NEW h, Handlers = {h}, FlowOrdered,
         OnlyMailsFail, "cancel mail" \notin Faults,
         RowsFollow(h), EventsFollow(h), [Next]_vars
  PROVE  EventsFollow(h)'
<1>0. /\ status \in [Meetings -> MeetingStatus] /\ req \in [Handlers -> Req]
      /\ h \in Handlers /\ HasMeeting(h) /\ req[h] \in Req
  BY DEF Typed, TypeOK, Req, HaveMeetings
<1>. SUFFICES ASSUME NEW m \in Meetings  PROVE EventFollows(h, m)'
  BY DEF EventsFollow
<1>m. EventFollows(h, m)
  BY DEF EventsFollow
<1>g. ASSUME NEW pc, Goto(h, pc)
      PROVE  req'[h].pc = pc /\ req'[h].new = req[h].new /\ req'[h].old = req[h].old
  BY <1>0, <1>g DEF Goto, Req
<1>d. ASSUME Done(h)  PROVE req'[h].pc = "idle"
  BY <1>0, <1>d DEF Done, Idle
\* Nothing is sent and nothing is stored on m.
<1>u. ASSUME UNCHANGED flow  PROVE InStep(m)' = InStep(m) /\ Unknown(m)' = Unknown(m)
  BY <1>u DEF flow, InStep, Unknown
<1>1. CASE Begin(h)
  <2>1. UNCHANGED <<status, flow>> /\ At(h, "idle")
    BY <1>1 DEF Begin, Book, Cancel, Reschedule, rows
  <2>2. status[m] # "PENDING"
    BY <2>1 DEF RowsFollow, AtWork, At
  <2>3. CASE ~At(h, "closing")'
    BY <1>m, <1>u, <2>1, <2>2, <2>3 DEF EventFollows, At
  <2>4. CASE At(h, "closing")'
    <3>0. req'[h].pc = "closing"
      BY <2>4 DEF At
    <3>1. PICK q \in Meetings : Cancel(h, q)
      <4>1. ASSUME NEW q \in Meetings, Book(h, q)  PROVE FALSE
        BY <1>0, <3>0, <4>1 DEF Book
      <4>2. ASSUME NEW old \in Meetings, NEW q \in Meetings, Reschedule(h, old, q)  PROVE FALSE
        BY <1>0, <3>0, <4>2 DEF Reschedule
      <4>. QED  BY <1>1, <4>1, <4>2 DEF Begin
    <3>2. req'[h].old = q /\ status[q] \notin {"NONE", "GONE", "CANCELLED", "REQUESTED"}
      BY <1>0, <2>4, <3>1 DEF Cancel, At
    <3>3. status[q] = "FAILED"
      BY <1>0, <2>1, <3>2 DEF MeetingStatus, RowsFollow, AtWork, At
    <3>. QED  BY <1>m, <1>u, <2>1, <2>2, <2>4, <3>2, <3>3 DEF EventFollows, At
  <2>. QED  BY <2>3, <2>4
<1>2. CASE Create(h)
  <2>1. req[h].new \in Meetings /\ status[m] # "PENDING" /\ UNCHANGED flow /\ At(h, "checked")
    BY <1>0, <1>2 DEF Create, HasMeeting, RowsFollow, AtWork, At
  <2>2. CASE Clash(req[h].new)
    BY <1>2, <1>d, <1>m, <1>u, <2>1, <2>2 DEF Create, EventFollows, At
  <2>3. CASE ~Clash(req[h].new)
    <3>1. status' = [status EXCEPT ![req[h].new] = "PENDING"] /\ Goto(h, "sending")
      BY <1>2, <2>3 DEF Create
    <3>2. status[req[h].new] = "NONE" /\ req'[h].pc = "sending"
      BY <1>g, <2>1, <3>1 DEF RowsFollow
    <3>3. CASE m = req[h].new
      BY <1>0, <1>m, <1>u, <2>1, <3>1, <3>2, <3>3 DEF EventFollows, At
    <3>4. CASE m # req[h].new
      BY <1>0, <1>m, <1>u, <2>1, <3>1, <3>2, <3>4 DEF EventFollows, At
    <3>. QED  BY <3>3, <3>4
  <2>. QED  BY <2>2, <2>3
<1>3. CASE Send(h)
  <2>1. /\ status' = status /\ At(h, "sending") /\ req'[h].pc = "storing"
        /\ req[h].new \in Meetings /\ status[req[h].new] = "PENDING"
        /\ inbox' = inbox \union {<<"create", req[h].new>>} /\ calendar' = calendar
    BY <1>0, <1>3, <1>g DEF Send, rows, AtWork, At, HasMeeting, RowsFollow
  <2>2. CASE m = req[h].new
    BY <1>m, <2>1, <2>2 DEF EventFollows, At, InStep, Unknown
  <2>3. CASE m # req[h].new
    <3>1. status[m] # "PENDING"
      BY <2>3 DEF RowsFollow
    <3>2. InStep(m)' = InStep(m) /\ Unknown(m)' = Unknown(m)
      BY <2>1, <2>3 DEF InStep, Unknown
    <3>. QED  BY <1>m, <2>1, <3>1, <3>2 DEF EventFollows, At
  <2>. QED  BY <2>2, <2>3
<1>4. CASE SendFails(h)
  <2>1. /\ UNCHANGED <<status, flow>> /\ At(h, "sending") /\ req'[h].pc = "failing"
    BY <1>0, <1>4, <1>g DEF SendFails, rows
  <2>. QED  BY <1>m, <1>u, <2>1 DEF EventFollows, At
<1>5. CASE Store(h)
  <2>1. /\ At(h, "storing") /\ req[h].new \in Meetings /\ status[req[h].new] = "PENDING"
        /\ UNCHANGED flow
    BY <1>0, <1>5 DEF Store, AtWork, At, HasMeeting, RowsFollow
  <2>2. ~Clash(req[h].new)
    BY <2>1 DEF SlotExclusive, Clash, IsActive, Active
  <2>3. status' = [status EXCEPT ![req[h].new] = "REQUESTED"] /\ req'[h].pc = "reminding"
    BY <1>5, <1>g, <2>2 DEF Store
  <2>4. CASE m = req[h].new
    BY <1>0, <1>m, <1>u, <2>1, <2>3, <2>4 DEF EventFollows, At
  <2>5. CASE m # req[h].new
    <3>1. status[m] # "PENDING" /\ status'[m] = status[m]
      BY <1>0, <2>3, <2>5 DEF RowsFollow
    <3>. QED  BY <1>m, <1>u, <2>1, <2>3, <3>1 DEF EventFollows, At
  <2>. QED  BY <2>4, <2>5
<1>6. CASE Fail(h)
  <2>1. /\ At(h, "failing") /\ req[h].new \in Meetings /\ status[req[h].new] = "PENDING"
        /\ UNCHANGED flow /\ req'[h].pc = "idle"
    BY <1>0, <1>6, <1>d DEF Fail, AtWork, At, HasMeeting, RowsFollow
  <2>2. PICK st \in {"FAILED", "GONE"} : status' = [status EXCEPT ![req[h].new] = st]
    BY <1>6 DEF Fail
  <2>3. CASE m = req[h].new
    <3>1. Unknown(m) /\ status'[m] = st
      BY <1>0, <1>m, <2>1, <2>2, <2>3 DEF EventFollows, At
    <3>2. ~InStep(m)
      BY <3>1 DEF Unknown, InStep
    <3>. QED  BY <1>u, <2>1, <2>2, <3>1, <3>2 DEF EventFollows, At
  <2>4. CASE m # req[h].new
    <3>1. status[m] # "PENDING" /\ status'[m] = status[m]
      BY <1>0, <2>2, <2>4 DEF RowsFollow
    <3>. QED  BY <1>m, <1>u, <2>1, <3>1 DEF EventFollows, At
  <2>. QED  BY <2>3, <2>4
<1>7. CASE Remind(h) \/ Silence(h)
  <2>1. /\ UNCHANGED <<status, flow>> /\ status[m] # "PENDING"
        /\ At(h, "reminding") \/ At(h, "silencing")
    BY <1>7 DEF Remind, Silence, RowsFollow, AtWork, At
  <2>2. req'[h].pc \in {"idle", "withdrawing"}
    BY <1>7, <1>d, <1>g DEF Remind, Silence
  <2>. QED  BY <1>m, <1>u, <2>1, <2>2 DEF EventFollows, At
<1>8. CASE Withdraw(h)
  <2>1. /\ status' = status /\ At(h, "withdrawing")
        /\ req'[h].pc = "closing" /\ req'[h].old = req[h].old
        /\ req[h].old \in Meetings /\ status[req[h].old] \notin {"NONE", "PENDING"}
        /\ inbox' = inbox \union {<<"cancel", req[h].old>>} /\ calendar' = calendar
    BY <1>0, <1>8, <1>g DEF Withdraw, rows, HasMeeting, RowsFollow, At
  <2>2. CASE m = req[h].old
    <3>1. ~InStep(m)'
      BY <2>1, <2>2 DEF InStep
    <3>. QED  BY <2>1, <2>2, <3>1 DEF EventFollows, At
  <2>3. CASE m # req[h].old
    <3>1. status[m] # "PENDING"
      BY <2>1 DEF RowsFollow, AtWork, At
    <3>2. InStep(m)' = InStep(m) /\ Unknown(m)' = Unknown(m)
      BY <2>1, <2>3 DEF InStep, Unknown
    <3>. QED  BY <1>m, <2>1, <2>3, <3>1, <3>2 DEF EventFollows, At
  <2>. QED  BY <2>2, <2>3
<1>9. CASE Close(h)
  <2>1. /\ At(h, "closing") /\ req[h].old \in Meetings /\ UNCHANGED flow
        /\ status' = [status EXCEPT ![req[h].old] = "CANCELLED"] /\ req'[h].pc = "silencing"
    BY <1>0, <1>9, <1>g DEF Close, HasMeeting, At
  <2>2. CASE m = req[h].old
    BY <1>0, <1>m, <1>u, <2>1, <2>2 DEF EventFollows, At
  <2>3. CASE m # req[h].old
    <3>1. status[m] # "PENDING" /\ status'[m] = status[m]
      BY <1>0, <2>1, <2>3 DEF RowsFollow, AtWork, At
    <3>. QED  BY <1>m, <1>u, <2>1, <2>3, <3>1 DEF EventFollows, At
  <2>. QED  BY <2>2, <2>3
<1>10. CASE Flow
  <2>1. UNCHANGED <<status, req>>
    BY <1>10 DEF Flow, FlowCreates, FlowCancels, rows
  <2>. QED  BY <1>10, <1>m, <2>1, FlowsKeepStep DEF EventFollows, At
<1>11. ASSUME (\E s \in Slots : ToggleSlot(s)) \/ UNCHANGED vars
       PROVE  UNCHANGED <<status, req, flow>>
  BY <1>11 DEF ToggleSlot, vars, rows
<1>12. UNCHANGED <<status, req, flow>> => EventFollows(h, m)'
  BY <1>m, <1>u DEF EventFollows, At
<1>13. ~RemindFails(h) /\ ~Crash(h) /\ ~WithdrawFails(h)
  BY DEF RemindFails, Crash, WithdrawFails, Fault, OnlyMailsFail
<1>. QED  BY <1>1, <1>2, <1>3, <1>4, <1>5, <1>6, <1>7, <1>8, <1>9, <1>10, <1>11, <1>12, <1>13,
             OneHandler DEF Proceed, Break

\* Requests served one at a time keep the calendar in step: at rest the events
\* are those of the REQUESTED meetings, for any number of meetings, tools and
\* slots, as long as the flows handle the mails in order, no process dies, the
\* reminders are stored and no cancel mail is lost.  Request mails may fail.
THEOREM CalendarInStep ==
  ASSUME NEW h, Handlers = {h}, FlowOrdered,
         Faults \subseteq {"book mail", "reschedule mail"}
  PROVE  Spec => []CalendarMatchesRows
<1>0. OnlyMailsFail /\ "cancel mail" \notin Faults
  BY DEF OnlyMailsFail
<1>1. Init => RowsFollow(h) /\ EventsFollow(h)
  <2>. SUFFICES ASSUME Init  PROVE RowsFollow(h) /\ EventsFollow(h)
    OBVIOUS
  <2>1. req[h].pc = "idle" /\ req[h].old = Nobody
    BY DEF Init, Idle
  <2>2. \A m \in Meetings : status[m] = "NONE" /\ Unknown(m)
    BY DEF Init, Unknown
  <2>. QED  BY <2>1, <2>2, NobodyAssumption
            DEF RowsFollow, EventsFollow, EventFollows, At, AtWork
<1>2. Working /\ SlotExclusive /\ RowsFollow(h) /\ EventsFollow(h) /\ [Next]_vars
        => (RowsFollow(h) /\ EventsFollow(h))'
  BY <1>0, RowsFollowStep, EventsFollowStep DEF Working
<1>3. Working /\ RowsFollow(h) /\ EventsFollow(h) => CalendarMatchesRows
  <2>. SUFFICES ASSUME Working, RowsFollow(h), EventsFollow(h), AtRest
                PROVE  calendar = {m \in Meetings : status[m] = "REQUESTED"}
    BY DEF CalendarMatchesRows
  <2>1. calendar \subseteq Meetings /\ status \in [Meetings -> MeetingStatus]
    BY DEF Working, Typed, TypeOK
  <2>2. inbox = {} /\ At(h, "idle")
    BY DEF AtRest
  <2>3. \A m \in Meetings : m \in calendar <=> InStep(m)
    BY <2>2 DEF InStep
  <2>4. ASSUME NEW m \in Meetings  PROVE status[m] = "REQUESTED" <=> InStep(m)
    <3>1. EventFollows(h, m)
      BY DEF EventsFollow
    <3>2. status[m] # "PENDING"
      BY <2>2 DEF RowsFollow, AtWork, At
    <3>3. Unknown(m) => ~InStep(m)
      BY DEF Unknown, InStep
    <3>. QED  BY <2>1, <2>2, <3>1, <3>2, <3>3 DEF EventFollows, At, MeetingStatus
  <2>. QED  BY <2>1, <2>3, <2>4
<1>. QED  BY <1>1, <1>2, <1>3, WorkingAlways, Exclusive, PTL DEF Spec

(***************************************************************************)
(* One meeting per JIRA: only the replacement at work shares its JIRA with *)
(* another active meeting, the original it is about to cancel.  That needs *)
(* no FAILED row, the one kind of inactive meeting that can be rescheduled.*)
(***************************************************************************)
Rescheduling(h) ==
  req[h].op = "reschedule" /\ req[h].pc \notin {"idle", "checked", "silencing"}

JirasFollow(h) ==
  /\ At(h, "checked") /\ req[h].op = "book"
       => \A q \in Meetings : IsActive(q) => Jira(q) # Jira(req[h].new)
  /\ req[h].op = "reschedule" /\ req[h].pc \notin {"idle", "silencing"}
       => Jira(req[h].new) = Jira(req[h].old) /\ status[req[h].old] = "REQUESTED"
  /\ At(h, "failing") => req[h].op = "reschedule"
  /\ \A m \in Meetings : status[m] # "FAILED"
  /\ \A m, q \in Meetings : IsActive(m) /\ IsActive(q) /\ Jira(m) = Jira(q) /\ m # q
       => /\ Rescheduling(h)
          /\ \/ m = req[h].new /\ q = req[h].old
             \/ q = req[h].new /\ m = req[h].old

LEMMA JirasFollowStep ==
  ASSUME Typed, SlotExclusive, NEW h, Handlers = {h}, OnlyMailsFail, "book mail" \notin Faults,
         RowsFollow(h), JirasFollow(h), [Next]_vars
  PROVE  JirasFollow(h)'
<1>0. /\ status \in [Meetings -> MeetingStatus] /\ req \in [Handlers -> Req]
      /\ h \in Handlers /\ HasMeeting(h) /\ req[h] \in Req
  BY DEF Typed, TypeOK, Req, HaveMeetings
<1>j. want' = want
  BY StatusStep DEF Typed
<1>. USE DEF Jira
<1>a. \A m \in Meetings : status'[m] = status[m] => (IsActive(m)' <=> IsActive(m))
  BY DEF IsActive
<1>f. \A m \in Meetings : status[m] # "FAILED"
  BY DEF JirasFollow
<1>g. ASSUME NEW pc, Goto(h, pc)
      PROVE  /\ req'[h].pc = pc /\ req'[h].op = req[h].op
             /\ req'[h].new = req[h].new /\ req'[h].old = req[h].old
  BY <1>0, <1>g DEF Goto, Req
<1>d. ASSUME Done(h)  PROVE req'[h] = Idle
  BY <1>0, <1>d DEF Done
<1>i. Idle.pc = "idle" /\ Idle.op = "book"
  BY DEF Idle
\* The rows stay, and the handler stays where it may or stops replacing.
<1>s. ASSUME status' = status, At(h, "idle")' \/ At(h, "silencing")', ~Rescheduling(h)
      PROVE  JirasFollow(h)'
  BY <1>a, <1>j, <1>s DEF JirasFollow, Rescheduling, At
<1>r. ASSUME status' = status, NEW pc, Goto(h, pc), ~At(h, "checked"),
             pc \notin {"idle", "checked", "silencing"},
             req[h].pc \notin {"idle", "silencing"},
             pc = "failing" => req[h].op = "reschedule"
      PROVE  JirasFollow(h)'
  <2>1. Rescheduling(h)' <=> Rescheduling(h)
    BY <1>g, <1>r DEF Rescheduling, At
  <2>. QED  BY <1>a, <1>g, <1>j, <1>r, <2>1 DEF JirasFollow, At
<1>1. CASE Begin(h)
  <2>1. status' = status /\ At(h, "idle") /\ ~Rescheduling(h)
    BY <1>1 DEF Begin, Book, Cancel, Reschedule, rows, At, Rescheduling
  <2>2. \A m, q \in Meetings : IsActive(m) /\ IsActive(q) /\ Jira(m) = Jira(q) => m = q
    BY <2>1 DEF JirasFollow
  <2>3. \A m, q \in Meetings : (IsActive(m) /\ IsActive(q) /\ Jira(m) = Jira(q))' => m = q
    BY <1>a, <1>j, <2>1, <2>2
  <2>4. \A m \in Meetings : status'[m] # "FAILED"
    BY <2>1 DEF JirasFollow
  <2>5. ASSUME NEW m \in Meetings, Book(h, m)  PROVE JirasFollow(h)'
    <3>2. \A q \in Meetings : IsActive(q)' => Jira(q)' # Jira(m)'
      BY <1>a, <1>j, <2>1, <2>5 DEF Book
    <3>3. req'[h].pc = "checked" /\ req'[h].op = "book" /\ req'[h].new = m
      BY <1>0, <2>5 DEF Book
    <3>. QED  BY <2>3, <2>4, <3>2, <3>3 DEF JirasFollow, Rescheduling, At
  <2>6. ASSUME NEW m \in Meetings, Cancel(h, m)  PROVE JirasFollow(h)'
    <3>1. req'[h].pc \in {"withdrawing", "closing"} /\ req'[h].op = "cancel"
      BY <1>0, <2>6 DEF Cancel
    <3>. QED  BY <2>3, <2>4, <3>1 DEF JirasFollow, Rescheduling, At
  <2>7. ASSUME NEW old \in Meetings, NEW m \in Meetings, Reschedule(h, old, m)
        PROVE  JirasFollow(h)'
    <3>2. Jira(m)' = Jira(old)'
      BY <1>j, <2>7 DEF Reschedule, Jira
    <3>3. status'[old] = "REQUESTED"
      BY <1>0, <2>1, <2>4, <2>7 DEF Reschedule, MeetingStatus, RowsFollow, AtWork, At
    <3>4. /\ req'[h].pc = "checked" /\ req'[h].op = "reschedule"
          /\ req'[h].new = m /\ req'[h].old = old
      BY <1>0, <2>7 DEF Reschedule
    <3>. QED  BY <2>3, <2>4, <3>2, <3>3, <3>4 DEF JirasFollow, Rescheduling, At
  <2>. QED  BY <1>1, <2>5, <2>6, <2>7 DEF Begin
<1>2. CASE Create(h)
  <2>1. req[h].new \in Meetings /\ At(h, "checked") /\ ~Rescheduling(h)
    BY <1>0, <1>2 DEF Create, HasMeeting, At, Rescheduling
  <2>2. CASE Clash(req[h].new)
    <3>1. status' = status /\ At(h, "idle")'
      BY <1>2, <1>d, <1>i, <2>2 DEF Create, At
    <3>. QED  BY <1>s, <2>1, <3>1
  <2>3. CASE ~Clash(req[h].new)
    <3>1. status' = [status EXCEPT ![req[h].new] = "PENDING"] /\ Goto(h, "sending")
      BY <1>2, <2>3 DEF Create
    <3>2. \A m \in Meetings \ {req[h].new} : status'[m] = status[m]
      BY <1>0, <3>1
    <3>3. status'[req[h].new] = "PENDING"
      BY <1>0, <2>1, <3>1
    <3>4. \A m, q \in Meetings : IsActive(m) /\ IsActive(q) /\ Jira(m) = Jira(q) => m = q
      BY <2>1 DEF JirasFollow
    <3>5. CASE req[h].op = "book"
      <4>0. /\ req'[h].pc = "sending" /\ req'[h].op = "book"
        BY <1>g, <3>1, <3>5
      <4>1. \A q \in Meetings : IsActive(q) => Jira(q) # Jira(req[h].new)
        BY <2>1, <3>5 DEF JirasFollow
      <4>2. \A m \in Meetings \ {req[h].new} : IsActive(m)' <=> IsActive(m)
        BY <1>a, <3>2
      <4>3. \A m, q \in Meetings : (IsActive(m) /\ IsActive(q) /\ Jira(m) = Jira(q))' => m = q
        <5>. SUFFICES ASSUME NEW m \in Meetings, NEW q \in Meetings, m # q,
                             (IsActive(m) /\ IsActive(q))'
                      PROVE  Jira(m) # Jira(q)
          BY <1>j
        <5>1. CASE m = req[h].new \/ q = req[h].new
          BY <4>1, <4>2, <5>1
        <5>2. CASE m # req[h].new /\ q # req[h].new
          BY <3>4, <4>2, <5>2
        <5>. QED  BY <5>1, <5>2
      <4>4. \A m \in Meetings : status'[m] # "FAILED"
        BY <1>f, <3>2, <3>3
      <4>. QED  BY <4>0, <4>3, <4>4 DEF JirasFollow, Rescheduling, At
    <3>6. CASE req[h].op = "reschedule"
      <4>1. /\ Jira(req[h].new) = Jira(req[h].old) /\ status[req[h].old] = "REQUESTED"
            /\ status[req[h].new] = "NONE" /\ req[h].old \in Meetings
        BY <1>0, <2>1, <3>6 DEF JirasFollow, RowsFollow, HasMeeting, At
      <4>2. /\ req'[h].new = req[h].new /\ req'[h].old = req[h].old
            /\ req'[h].pc = "sending" /\ req'[h].op = "reschedule"
        BY <1>g, <3>1, <3>6
      <4>3. status'[req[h].old] = "REQUESTED" /\ IsActive(req[h].old)
        BY <3>2, <4>1 DEF IsActive, Active
      <4>4. ASSUME NEW m \in Meetings, NEW q \in Meetings, m # q,
                   (IsActive(m) /\ IsActive(q) /\ Jira(m) = Jira(q))'
            PROVE  \/ m = req[h].new /\ q = req[h].old
                   \/ q = req[h].new /\ m = req[h].old
        <5>1. CASE m = req[h].new
          BY <1>a, <1>j, <3>2, <3>4, <4>1, <4>3, <4>4, <5>1
        <5>2. CASE q = req[h].new
          BY <1>a, <1>j, <3>2, <3>4, <4>1, <4>3, <4>4, <5>2
        <5>3. CASE m # req[h].new /\ q # req[h].new
          BY <1>a, <1>j, <3>2, <3>4, <4>4, <5>3
        <5>. QED  BY <5>1, <5>2, <5>3
      <4>5. \A m \in Meetings : status'[m] # "FAILED"
        BY <1>f, <3>2, <3>3
      <4>. QED  BY <1>j, <4>1, <4>2, <4>3, <4>4, <4>5 DEF JirasFollow, Rescheduling, At
    <3>. QED  BY <1>0, <2>1, <3>5, <3>6 DEF HasMeeting, At
  <2>. QED  BY <2>2, <2>3
<1>3. CASE Send(h)
  BY <1>3, <1>r DEF Send, rows, At
<1>4. CASE SendFails(h)
  <2>1. req[h].op = "reschedule"
    BY <1>0, <1>4 DEF SendFails, Fault, RequestMail, HasMeeting, At
  <2>. QED  BY <1>4, <1>r, <2>1 DEF SendFails, rows, At
<1>5. CASE Store(h)
  <2>1. /\ At(h, "storing") /\ req[h].new \in Meetings /\ status[req[h].new] = "PENDING"
    BY <1>0, <1>5 DEF Store, AtWork, At, HasMeeting, RowsFollow
  <2>2. ~Clash(req[h].new)
    BY <2>1 DEF SlotExclusive, Clash, IsActive, Active
  <2>3. status' = [status EXCEPT ![req[h].new] = "REQUESTED"] /\ Goto(h, "reminding")
    BY <1>5, <2>2 DEF Store
  <2>4. /\ \A m \in Meetings : IsActive(m)' <=> IsActive(m)
        /\ \A m \in Meetings : status'[m] # "FAILED"
        /\ \A m \in Meetings : status[m] = "REQUESTED" => status'[m] = "REQUESTED"
    <3>1. status'[req[h].new] = "REQUESTED"
      BY <1>0, <2>1, <2>3
    <3>2. \A m \in Meetings : m # req[h].new => status'[m] = status[m]
      BY <1>0, <2>3
    <3>. QED  BY <1>f, <2>1, <3>1, <3>2 DEF IsActive, Active
  <2>5. Rescheduling(h)' <=> Rescheduling(h)
    <3>1. req'[h].pc = "reminding" /\ req'[h].op = req[h].op
      BY <1>g, <2>3
    <3>2. req[h].pc = "storing"
      BY <2>1 DEF At
    <3>. QED  BY <3>1, <3>2 DEF Rescheduling
  <2>6. req[h].op = "reschedule" => req[h].old \in Meetings
    BY <1>0, <2>1 DEF At, HasMeeting
  <2>7. /\ req'[h].pc = "reminding" /\ req'[h].op = req[h].op
        /\ req'[h].new = req[h].new /\ req'[h].old = req[h].old /\ req[h].pc = "storing"
    BY <1>g, <2>1, <2>3 DEF At
  <2>. QED  BY <1>j, <2>4, <2>5, <2>6, <2>7 DEF JirasFollow, At
<1>6. CASE Fail(h)
  <2>1. /\ At(h, "failing") /\ req[h].new \in Meetings /\ req[h].op = "reschedule"
        /\ req'[h] = Idle
    BY <1>0, <1>6, <1>d DEF Fail, At, HasMeeting, JirasFollow
  <2>2. status' = [status EXCEPT ![req[h].new] = "GONE"]
    BY <1>6, <2>1 DEF Fail
  <2>3. /\ \A m \in Meetings : IsActive(m)' => IsActive(m) /\ m # req[h].new
        /\ \A m \in Meetings : status'[m] # "FAILED"
    BY <1>0, <2>1, <2>2 DEF IsActive, Active, JirasFollow
  <2>4. \A m, q \in Meetings : (IsActive(m) /\ IsActive(q) /\ Jira(m) = Jira(q))' => m = q
    BY <1>j, <2>3 DEF JirasFollow
  <2>5. req'[h].pc = "idle" /\ req'[h].op = "book"
    BY <1>i, <2>1
  <2>. QED  BY <2>3, <2>4, <2>5 DEF JirasFollow, At, Rescheduling
<1>7. CASE Remind(h)
  <2>1. CASE req[h].op = "book"
    <3>1. status' = status /\ At(h, "idle")' /\ ~Rescheduling(h)
      BY <1>7, <1>d, <1>i, <2>1 DEF Remind, At, Rescheduling
    <3>. QED  BY <1>s, <3>1
  <2>2. CASE req[h].op # "book"
    BY <1>7, <1>r, <2>2 DEF Remind, At
  <2>. QED  BY <2>1, <2>2
<1>8. CASE Silence(h)
  <2>1. status' = status /\ At(h, "idle")' /\ ~Rescheduling(h)
    BY <1>8, <1>d, <1>i DEF Silence, At, Rescheduling
  <2>. QED  BY <1>s, <2>1
<1>9. CASE Withdraw(h) \/ WithdrawFails(h)
  BY <1>9, <1>r DEF Withdraw, WithdrawFails, rows, At
<1>10. CASE Close(h)
  <2>1. /\ status' = [status EXCEPT ![req[h].old] = "CANCELLED"] /\ Goto(h, "silencing")
        /\ At(h, "closing") /\ req[h].old \in Meetings
    BY <1>0, <1>10 DEF Close, HasMeeting, At
  <2>2. /\ \A m \in Meetings : IsActive(m)' => IsActive(m) /\ m # req[h].old
        /\ \A m \in Meetings : status'[m] # "FAILED"
    BY <1>0, <2>1 DEF IsActive, Active, JirasFollow
  <2>3. \A m, q \in Meetings : (IsActive(m) /\ IsActive(q) /\ Jira(m) = Jira(q))' => m = q
    BY <1>j, <2>2 DEF JirasFollow
  <2>. QED  BY <1>g, <2>1, <2>2, <2>3 DEF JirasFollow, At, Rescheduling
<1>11. ASSUME Flow \/ (\E s \in Slots : ToggleSlot(s)) \/ UNCHANGED vars
       PROVE  UNCHANGED <<status, req>>
  BY <1>11 DEF Flow, FlowCreates, FlowCancels, ToggleSlot, vars, rows
<1>12. UNCHANGED <<status, req>> => JirasFollow(h)'
  BY <1>a, <1>j DEF JirasFollow, Rescheduling, At
<1>13. ~RemindFails(h) /\ ~Crash(h)
  BY DEF RemindFails, Crash, Fault, OnlyMailsFail
<1>. QED  BY <1>1, <1>2, <1>3, <1>4, <1>5, <1>6, <1>7, <1>8, <1>9, <1>10, <1>11, <1>12, <1>13,
             OneHandler DEF Proceed, Break

\* Served one at a time, the requests leave a JIRA one active meeting across
\* all tools whenever nothing is under way, as long as no booking fails
\* half-way: the mails of reschedulings and cancellations may fail.
THEOREM OnePerJira ==
  ASSUME NEW h, Handlers = {h}, Faults \subseteq {"reschedule mail", "cancel mail"}
  PROVE  Spec => []OneMeetingPerJira
<1>0. OnlyMailsFail /\ "book mail" \notin Faults
  BY DEF OnlyMailsFail
<1>1. Init => RowsFollow(h) /\ JirasFollow(h)
  <2>. SUFFICES ASSUME Init  PROVE RowsFollow(h) /\ JirasFollow(h)
    OBVIOUS
  <2>1. req[h].pc = "idle" /\ req[h].old = Nobody
    BY DEF Init, Idle
  <2>2. \A m \in Meetings : status[m] = "NONE" /\ ~IsActive(m)
    BY DEF Init, IsActive, Active
  <2>. QED  BY <2>1, <2>2, NobodyAssumption DEF RowsFollow, JirasFollow, Rescheduling, At, AtWork
<1>2. Working /\ SlotExclusive /\ RowsFollow(h) /\ JirasFollow(h) /\ [Next]_vars
        => (RowsFollow(h) /\ JirasFollow(h))'
  BY <1>0, RowsFollowStep, JirasFollowStep DEF Working
<1>3. JirasFollow(h) => OneMeetingPerJira
  BY DEF JirasFollow, OneMeetingPerJira, AtRest, At, Rescheduling
<1>. QED  BY <1>1, <1>2, <1>3, WorkingAlways, Exclusive, PTL DEF Spec
=============================================================================
