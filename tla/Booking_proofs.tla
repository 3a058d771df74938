--------------------------- MODULE Booking_proofs ---------------------------
(***************************************************************************)
(* Proofs about Booking: its types, the exclusivity of slots, that it      *)
(* implements SlotLedger, what a handler at work may rely on, and that the *)
(* calendar grid offers what the booking form accepts.                     *)
(***************************************************************************)
EXTENDS Booking, TLAPS

(***************************************************************************)
(* Types.                                                                  *)
(***************************************************************************)
Req == [pc : Pc, op : AllOps, new : Meetings \union {Nobody}, old : Meetings \union {Nobody}]

LEMMA InitTypes == Init => TypeOK
  BY DEF Init, TypeOK, Idle, Pc, AllOps, MeetingStatus

\* Moving a handler on, or ending it, keeps the type of req.
LEMMA ReqMoves ==
  ASSUME TypeOK, NEW h \in Handlers,
         Done(h) \/ \E pc \in Pc : Goto(h, pc)
  PROVE  req' \in [Handlers -> Req]
<1>0. req \in [Handlers -> Req] /\ req[h] \in Req
  BY DEF TypeOK, Req
<1>1. CASE Done(h)
  <2>1. Idle \in Req
    BY DEF Idle, Req, Pc, AllOps
  <2>. QED  BY <1>0, <1>1, <2>1 DEF Done
<1>2. ASSUME NEW pc \in Pc, Goto(h, pc)  PROVE req' \in [Handlers -> Req]
  <2>1. [req[h] EXCEPT !.pc = pc] \in Req
    BY <1>0 DEF Req
  <2>. QED  BY <1>0, <1>2, <2>1 DEF Goto
<1>. QED  BY <1>1, <1>2

LEMMA BeginTypes == ASSUME TypeOK, NEW h \in Handlers, Begin(h) PROVE TypeOK'
<1>0. req \in [Handlers -> Req]
  BY DEF TypeOK, Req
<1>1. ASSUME NEW m \in Meetings, Book(h, m)  PROVE TypeOK'
  <2>1. [pc |-> "checked", op |-> "book", new |-> m, old |-> Nobody] \in Req
    BY DEF Req, Pc, AllOps
  <2>2. req' \in [Handlers -> Req]
    BY <1>0, <1>1, <2>1 DEF Book
  <2>. QED  BY <1>1, <2>2 DEF TypeOK, Req, Book, rows, flow
<1>2. ASSUME NEW m \in Meetings, Cancel(h, m)  PROVE TypeOK'
  <2>1. ASSUME NEW pc \in {"withdrawing", "closing"}
        PROVE  [pc |-> pc, op |-> "cancel", new |-> Nobody, old |-> m] \in Req
    BY DEF Req, Pc, AllOps
  <2>2. req' \in [Handlers -> Req]
    <3>1. CASE status[m] = "REQUESTED"
      BY <1>0, <1>2, <2>1, <3>1 DEF Cancel
    <3>2. CASE status[m] # "REQUESTED"
      BY <1>0, <1>2, <2>1, <3>2 DEF Cancel
    <3>. QED  BY <3>1, <3>2
  <2>. QED  BY <1>2, <2>2 DEF TypeOK, Req, Cancel, rows, flow
<1>3. ASSUME NEW old \in Meetings, NEW m \in Meetings, Reschedule(h, old, m)  PROVE TypeOK'
  <2>1. [pc |-> "checked", op |-> "reschedule", new |-> m, old |-> old] \in Req
    BY DEF Req, Pc, AllOps
  <2>2. req' \in [Handlers -> Req]
    BY <1>0, <1>3, <2>1 DEF Reschedule
  <2>. QED  BY <1>3, <2>2 DEF TypeOK, Req, Reschedule, rows, flow
<1>. QED  BY <1>1, <1>2, <1>3 DEF Begin

\* The steps a handler takes on the new meeting or on the original have one.
HasMeeting(h) ==
  /\ req[h].pc \in {"checked", "sending", "storing", "reminding", "failing"}
       => req[h].new \in Meetings /\ req[h].op \in {"book", "reschedule"}
  /\ req[h].pc \in {"withdrawing", "closing", "silencing"} => req[h].old \in Meetings
  /\ req[h].op = "reschedule" /\ req[h].pc # "idle" => req[h].new \in Meetings /\ req[h].old \in Meetings

HaveMeetings == \A h \in Handlers : HasMeeting(h)

LEMMA ProceedTypes ==
  ASSUME TypeOK, HaveMeetings, NEW h \in Handlers, Proceed(h)
  PROVE  TypeOK'
<1>0. HasMeeting(h)
  BY DEF HaveMeetings
<1>. USE DEF rows, flow
<1>1. CASE Create(h)
  <2>1. req' \in [Handlers -> Req]
    BY <1>1, ReqMoves DEF Create, Pc
  <2>. QED  BY <1>1, <2>1 DEF TypeOK, Req, Create, MeetingStatus
<1>2. CASE Send(h)
  <2>1. req' \in [Handlers -> Req]
    BY <1>2, ReqMoves DEF Send, Pc
  <2>. QED  BY <1>0, <1>2, <2>1 DEF TypeOK, Req, Send, HasMeeting, At
<1>3. CASE Store(h)
  <2>1. req' \in [Handlers -> Req]
    BY <1>3, ReqMoves DEF Store, Pc
  <2>. QED  BY <1>3, <2>1 DEF TypeOK, Req, Store, MeetingStatus
<1>4. CASE Remind(h)
  <2>1. req' \in [Handlers -> Req]
    BY <1>4, ReqMoves DEF Remind, Pc
  <2>. QED  BY <1>4, <2>1 DEF TypeOK, Req, Remind
<1>5. CASE Fail(h)
  <2>1. req' \in [Handlers -> Req]
    BY <1>5, ReqMoves DEF Fail
  <2>2. status' \in [Meetings -> MeetingStatus]
    BY <1>5 DEF TypeOK, Fail, MeetingStatus
  <2>3. reminder' \in [Meetings -> {"NONE", "SCHEDULED", "CANCELLED"}]
    BY <1>5 DEF TypeOK, Fail
  <2>4. undone' \in SUBSET Meetings
    BY <1>0, <1>5 DEF TypeOK, Fail, HasMeeting, At
  <2>. QED  BY <1>5, <2>1, <2>2, <2>3, <2>4 DEF TypeOK, Req, Fail
<1>6. CASE Withdraw(h)
  <2>1. req' \in [Handlers -> Req]
    BY <1>6, ReqMoves DEF Withdraw, Pc
  <2>. QED  BY <1>0, <1>6, <2>1 DEF TypeOK, Req, Withdraw, HasMeeting, At
<1>7. CASE Close(h)
  <2>1. req' \in [Handlers -> Req]
    BY <1>7, ReqMoves DEF Close, Pc
  <2>. QED  BY <1>7, <2>1 DEF TypeOK, Req, Close, MeetingStatus
<1>8. CASE Silence(h)
  <2>1. req' \in [Handlers -> Req]
    BY <1>8, ReqMoves DEF Silence
  <2>. QED  BY <1>8, <2>1 DEF TypeOK, Req, Silence
<1>. QED  BY <1>1, <1>2, <1>3, <1>4, <1>5, <1>6, <1>7, <1>8 DEF Proceed

LEMMA BreakTypes == ASSUME TypeOK, NEW h \in Handlers, Break(h) PROVE TypeOK'
<1>1. req' \in [Handlers -> Req]
  BY ReqMoves DEF Break, SendFails, RemindFails, WithdrawFails, Crash, Pc
<1>2. UNCHANGED <<want, rows, open, flow, asked, undone>> /\ faults' = faults + 1
  BY DEF Break, SendFails, RemindFails, WithdrawFails, Crash, Fault
<1>. QED  BY <1>1, <1>2 DEF TypeOK, Req, rows, flow

LEMMA NextTypes == ASSUME TypeOK, HaveMeetings, [Next]_vars PROVE TypeOK'
<1>1. ASSUME NEW h \in Handlers, Begin(h) \/ Proceed(h) \/ Break(h)  PROVE TypeOK'
  BY <1>1, BeginTypes, ProceedTypes, BreakTypes
<1>2. ASSUME NEW s \in Slots, ToggleSlot(s)  PROVE TypeOK'
  BY <1>2 DEF TypeOK, ToggleSlot, rows, flow
<1>3. CASE Flow
  BY <1>3 DEF TypeOK, Flow, FlowCreates, FlowCancels, rows
<1>4. CASE UNCHANGED vars
  BY <1>4 DEF TypeOK, vars, rows, flow
<1>. QED  BY <1>1, <1>2, <1>3, <1>4 DEF Next

(***************************************************************************)
(* What a step does to the handlers and to the rows.                       *)
(***************************************************************************)
\* A step moves one handler; the new meeting it works on stays, is dropped or
\* was fresh.
LEMMA HandlerStep ==
  ASSUME TypeOK, [Next]_vars
  PROVE  \/ req' = req
         \/ \E h \in Handlers :
              /\ \A g \in Handlers \ {h} : req'[g] = req[g]
              /\ \/ req'[h].new \in {req[h].new, Nobody}
                 \/ req[h].pc = "idle" /\ req'[h].new \in Meetings /\ Fresh(req'[h].new)
<1>0. req \in [Handlers -> Req]
  BY DEF TypeOK, Req
<1>1. ASSUME NEW h \in Handlers, Done(h) \/ \E pc \in Pc : Goto(h, pc)
      PROVE  /\ \A g \in Handlers \ {h} : req'[g] = req[g]
             /\ req'[h].new \in {req[h].new, Nobody}
  BY <1>0, <1>1 DEF Done, Goto, Idle, Req
<1>2. ASSUME NEW h \in Handlers, Proceed(h) \/ Break(h)
      PROVE  Done(h) \/ \E pc \in Pc : Goto(h, pc)
  <2>1. CASE Proceed(h)
    BY <2>1 DEF Proceed, Create, Send, Store, Remind, Fail, Withdraw, Close, Silence, Pc
  <2>2. CASE Break(h)
    BY <2>2 DEF Break, SendFails, RemindFails, WithdrawFails, Crash, Pc
  <2>. QED  BY <1>2, <2>1, <2>2
<1>3. ASSUME NEW h \in Handlers, Begin(h)
      PROVE  /\ \A g \in Handlers \ {h} : req'[g] = req[g]
             /\ \/ req'[h].new = Nobody
                \/ req[h].pc = "idle" /\ req'[h].new \in Meetings /\ Fresh(req'[h].new)
  BY <1>0, <1>3 DEF Begin, Book, Cancel, Reschedule, At
<1>4. CASE Flow \/ (\E s \in Slots : ToggleSlot(s)) \/ UNCHANGED vars
  BY <1>4 DEF Flow, FlowCreates, FlowCancels, ToggleSlot, vars
<1>. QED  BY <1>1, <1>2, <1>3, <1>4 DEF Next

\* A row is activated only where the constraint lets it.
LEMMA StatusStep ==
  ASSUME TypeOK, HaveMeetings, [Next]_vars
  PROVE  /\ want' = want
         /\ \/ status' = status
            \/ \E m \in Meetings, st \in {"PENDING", "REQUESTED"} :
                 ~Clash(m) /\ status' = [status EXCEPT ![m] = st]
            \/ \E m \in Meetings, st \in {"FAILED", "GONE", "CANCELLED"} :
                 status' = [status EXCEPT ![m] = st]
<1>1. ASSUME NEW h \in Handlers, Begin(h)  PROVE want' = want /\ status' = status
  BY <1>1 DEF Begin, Book, Cancel, Reschedule, rows
<1>2. ASSUME NEW h \in Handlers, Break(h)  PROVE want' = want /\ status' = status
  BY <1>2 DEF Break, SendFails, RemindFails, WithdrawFails, Crash, rows
<1>3. CASE Flow \/ (\E s \in Slots : ToggleSlot(s)) \/ UNCHANGED vars
  BY <1>3 DEF Flow, FlowCreates, FlowCancels, ToggleSlot, vars, rows
<1>4. ASSUME NEW h \in Handlers, Proceed(h)
      PROVE  /\ want' = want
             /\ \/ status' = status
                \/ \E m \in Meetings, st \in {"PENDING", "REQUESTED"} :
                     ~Clash(m) /\ status' = [status EXCEPT ![m] = st]
                \/ \E m \in Meetings, st \in {"FAILED", "GONE", "CANCELLED"} :
                     status' = [status EXCEPT ![m] = st]
  <2>0. HasMeeting(h)
    BY DEF HaveMeetings
  <2>1. CASE Create(h)
    BY <2>0, <2>1 DEF Create, HasMeeting, At
  <2>2. CASE Store(h)
    BY <2>0, <2>2 DEF Store, HasMeeting, At
  <2>3. CASE Fail(h)
    BY <2>0, <2>3 DEF Fail, HasMeeting, At
  <2>4. CASE Close(h)
    BY <2>0, <2>4 DEF Close, HasMeeting, At
  <2>5. CASE Send(h) \/ Remind(h) \/ Withdraw(h) \/ Silence(h)
    BY <2>5 DEF Send, Remind, Withdraw, Silence, rows
  <2>. QED  BY <1>4, <2>1, <2>2, <2>3, <2>4, <2>5 DEF Proceed
<1>. QED  BY <1>1, <1>2, <1>3, <1>4 DEF Next

(***************************************************************************)
(* The inductive invariant of the types.                                   *)
(***************************************************************************)
LEMMA HaveMeetingsStep ==
  ASSUME TypeOK, HaveMeetings, [Next]_vars
  PROVE  HaveMeetings'
<1>0. req \in [Handlers -> Req]
  BY DEF TypeOK, Req
<1>. USE DEF HaveMeetings, HasMeeting
<1>1. ASSUME NEW h \in Handlers, Begin(h)  PROVE HaveMeetings'
  BY <1>0, <1>1 DEF Begin, Book, Cancel, Reschedule, Req
<1>2. ASSUME NEW h \in Handlers, Done(h)  PROVE HaveMeetings'
  BY <1>0, <1>2 DEF Done, Idle, Req
<1>3. ASSUME NEW h \in Handlers, Proceed(h)  PROVE HaveMeetings'
  <2>1. CASE Create(h)
    BY <1>0, <1>2, <2>1 DEF Create, At, Goto, Req
  <2>2. CASE Send(h)
    BY <1>0, <2>2 DEF Send, At, Goto, Req
  <2>3. CASE Store(h)
    BY <1>0, <2>3 DEF Store, At, Goto, Req
  <2>4. CASE Remind(h)
    <3>1. CASE req[h].op = "book"
      BY <1>2, <2>4, <3>1 DEF Remind
    <3>2. CASE req[h].op # "book"
      BY <1>0, <2>4, <3>2 DEF Remind, At, Goto, Req
    <3>. QED  BY <3>1, <3>2
  <2>5. CASE Fail(h) \/ Silence(h)
    BY <1>2, <2>5 DEF Fail, Silence
  <2>6. CASE Withdraw(h)
    BY <1>0, <2>6 DEF Withdraw, At, Goto, Req
  <2>7. CASE Close(h)
    BY <1>0, <2>7 DEF Close, At, Goto, Req
  <2>. QED  BY <1>3, <2>1, <2>2, <2>3, <2>4, <2>5, <2>6, <2>7 DEF Proceed
<1>4. ASSUME NEW h \in Handlers, Break(h)  PROVE HaveMeetings'
  <2>1. CASE SendFails(h)
    BY <1>0, <2>1 DEF SendFails, At, Goto, Req
  <2>2. CASE RemindFails(h)
    BY <1>0, <2>2 DEF RemindFails, At, Goto, Req
  <2>3. CASE WithdrawFails(h)
    BY <1>0, <2>3 DEF WithdrawFails, At, Goto, Req
  <2>4. CASE Crash(h)
    BY <1>2, <2>4 DEF Crash
  <2>. QED  BY <1>4, <2>1, <2>2, <2>3, <2>4 DEF Break
<1>5. CASE Flow \/ (\E s \in Slots : ToggleSlot(s)) \/ UNCHANGED vars
  BY <1>5 DEF Flow, FlowCreates, FlowCancels, ToggleSlot, vars
<1>. QED  BY <1>1, <1>3, <1>4, <1>5 DEF Next

LEMMA InitHaveMeetings == Init => HaveMeetings
  BY DEF Init, HaveMeetings, HasMeeting, Idle

\* Every variable keeps its type, and a request at work has the meetings its
\* next steps read, whatever the interleaving and the faults.
THEOREM TypeCorrect == Spec => [](TypeOK /\ HaveMeetings)
<1>1. TypeOK /\ HaveMeetings /\ [Next]_vars => (TypeOK /\ HaveMeetings)'
  BY NextTypes, HaveMeetingsStep
<1>. QED  BY <1>1, InitTypes, InitHaveMeetings, PTL DEF Spec

(***************************************************************************)
(* Slots are exclusive, and the handlers implement the ledger.             *)
(***************************************************************************)
LEMMA ExclusiveStep ==
  ASSUME TypeOK, HaveMeetings, SlotExclusive, [Next]_vars
  PROVE  SlotExclusive'
<1>0. status \in [Meetings -> MeetingStatus] /\ want' = want
  BY StatusStep DEF TypeOK
<1>1. \A m \in Meetings : Place(m)' = Place(m)
  BY <1>0 DEF Place, Tool
<1>2. CASE status' = status
  BY <1>1, <1>2 DEF SlotExclusive, IsActive
<1>3. ASSUME NEW m \in Meetings, NEW st \in {"PENDING", "REQUESTED"},
             ~Clash(m), status' = [status EXCEPT ![m] = st]
      PROVE  SlotExclusive'
  <2>1. \A q \in Meetings \ {m} : IsActive(q)' = IsActive(q)
    BY <1>0, <1>3 DEF IsActive
  <2>2. \A q \in Meetings \ {m} : IsActive(q) => Place(q) # Place(m)
    BY <1>3 DEF Clash
  <2>. QED  BY <1>1, <2>1, <2>2 DEF SlotExclusive
<1>4. ASSUME NEW m \in Meetings, NEW st \in {"FAILED", "GONE", "CANCELLED"},
             status' = [status EXCEPT ![m] = st]
      PROVE  SlotExclusive'
  <2>1. \A q \in Meetings : IsActive(q)' => IsActive(q)
    BY <1>0, <1>4 DEF IsActive, Active
  <2>. QED  BY <1>1, <2>1 DEF SlotExclusive
<1>. QED  BY <1>2, <1>3, <1>4, StatusStep

LEMMA InitExclusive == Init => SlotExclusive
  BY DEF Init, SlotExclusive, IsActive, Active

\* One active booking per tool, date and slot, for any number of meetings,
\* handlers, tools and slots, with stale saves and crashes anywhere.
THEOREM Exclusive == Spec => []SlotExclusive
<1>1. TypeOK /\ HaveMeetings /\ SlotExclusive /\ [Next]_vars => SlotExclusive'
  BY ExclusiveStep
<1>. QED  BY <1>1, InitExclusive, TypeCorrect, PTL DEF Spec

\* Under exclusivity the holder of a place is the meeting that holds it.
LEMMA HolderIs ==
  ASSUME SlotExclusive, NEW p \in Places
  PROVE  /\ \A m \in Meetings : Holds(m, p) => Holder(p) = m
         /\ (\A m \in Meetings : ~Holds(m, p)) => Holder(p) = Nobody
         /\ Holder(p) # Nobody => Holder(p) \in Meetings /\ Holds(Holder(p), p)
<1>1. ASSUME NEW m \in Meetings, Holds(m, p)  PROVE Holder(p) = m
  <2>1. \A q \in Meetings : Holds(q, p) => q = m
    BY <1>1 DEF SlotExclusive, Holds
  <2>. QED  BY <1>1, <2>1 DEF Holder
<1>2. (\A m \in Meetings : ~Holds(m, p)) => Holder(p) = Nobody
  BY DEF Holder
<1>. QED  BY <1>1, <1>2

LEMMA PlaceTypes == TypeOK => \A m \in Meetings : Place(m) \in Places
  BY RunsAssumption DEF TypeOK, Place, Places, Tool

LEMMA InitLedger == Init => Ledger!Init
<1>1. Init => \A p \in Places : Holder(p) = Nobody
  BY DEF Init, Holder, Holds, IsActive, Active
<1>. QED  BY <1>1 DEF Ledger!Init

LEMMA LedgerStep ==
  ASSUME TypeOK, TypeOK', HaveMeetings, SlotExclusive, SlotExclusive', [Next]_vars
  PROVE  [Ledger!Next]_([p \in Places |-> Holder(p)])
<1>0. status \in [Meetings -> MeetingStatus] /\ want' = want
  BY StatusStep DEF TypeOK
<1>1. \A m \in Meetings : Place(m)' = Place(m) /\ Place(m) \in Places
  BY <1>0, PlaceTypes DEF Place, Tool
<1>h. \A p \in Places : /\ \A m \in Meetings : Holds(m, p) => Holder(p) = m
                        /\ (\A m \in Meetings : ~Holds(m, p)) => Holder(p) = Nobody
                        /\ Holder(p) # Nobody => Holder(p) \in Meetings /\ Holds(Holder(p), p)
  BY HolderIs
<1>i. \A p \in Places : /\ \A m \in Meetings : Holds(m, p)' => Holder(p)' = m
                        /\ (\A m \in Meetings : ~Holds(m, p)') => Holder(p)' = Nobody
  <2>1. ASSUME NEW p \in Places
        PROVE  /\ \A m \in Meetings : Holds(m, p)' => Holder(p)' = m
               /\ (\A m \in Meetings : ~Holds(m, p)') => Holder(p)' = Nobody
    <3>1. ASSUME NEW m \in Meetings, Holds(m, p)'  PROVE Holder(p)' = m
      <4>1. \A q \in Meetings : Holds(q, p)' => q = m
        BY <3>1 DEF SlotExclusive, Holds
      <4>. QED  BY <3>1, <4>1 DEF Holder
    <3>2. (\A m \in Meetings : ~Holds(m, p)') => Holder(p)' = Nobody
      BY DEF Holder
    <3>. QED  BY <3>1, <3>2
  <2>. QED  BY <2>1
\* The same meetings hold the same places.
<1>2. ASSUME \A q \in Meetings : IsActive(q)' = IsActive(q)
      PROVE  [p \in Places |-> Holder(p)]' = [p \in Places |-> Holder(p)]
  <2>1. ASSUME NEW p \in Places  PROVE Holder(p)' = Holder(p)
    <3>1. \A q \in Meetings : Holds(q, p)' = Holds(q, p)
      BY <1>1, <1>2 DEF Holds
    <3>. QED  BY <1>h, <1>i, <3>1
  <2>. QED  BY <2>1
\* A meeting that held no place takes its own.
<1>3. ASSUME NEW m \in Meetings, ~IsActive(m), IsActive(m)', ~Clash(m),
             \A q \in Meetings \ {m} : IsActive(q)' = IsActive(q)
      PROVE  Ledger!Take(Place(m), m)
  <2>1. Holder(Place(m)) = Nobody
    <3>1. \A q \in Meetings : ~Holds(q, Place(m))
      BY <1>3 DEF Holds, Clash
    <3>. QED  BY <1>1, <1>h, <3>1
  <2>2. \A p \in Places : Holder(p) # m
    BY <1>3, <1>h, NobodyAssumption DEF Holds
  <2>3. ASSUME NEW p \in Places
        PROVE  Holder(p)' = IF p = Place(m) THEN m ELSE Holder(p)
    <3>1. CASE p = Place(m)
      <4>1. Holds(m, p)'
        BY <1>1, <1>3, <3>1 DEF Holds
      <4>. QED  BY <1>i, <3>1, <4>1
    <3>2. CASE p # Place(m)
      <4>1. \A q \in Meetings : Holds(q, p)' = Holds(q, p)
        BY <1>1, <1>3, <3>2 DEF Holds
      <4>. QED  BY <1>h, <1>i, <3>2, <4>1
    <3>. QED  BY <3>1, <3>2
  <2>. QED  BY <1>1, <2>1, <2>2, <2>3 DEF Ledger!Take
\* A meeting that held its place releases it.
<1>4. ASSUME NEW m \in Meetings, IsActive(m), ~IsActive(m)',
             \A q \in Meetings \ {m} : IsActive(q)' = IsActive(q)
      PROVE  Ledger!Release(Place(m))
  <2>1. Holder(Place(m)) = m
    BY <1>1, <1>4, <1>h DEF Holds
  <2>2. ASSUME NEW p \in Places
        PROVE  Holder(p)' = IF p = Place(m) THEN Nobody ELSE Holder(p)
    <3>1. CASE p = Place(m)
      <4>1. \A q \in Meetings : ~Holds(q, p)'
        BY <1>1, <1>4, <3>1 DEF Holds, SlotExclusive
      <4>. QED  BY <1>i, <3>1, <4>1
    <3>2. CASE p # Place(m)
      <4>1. \A q \in Meetings : Holds(q, p)' = Holds(q, p)
        BY <1>1, <1>4, <3>2 DEF Holds
      <4>. QED  BY <1>h, <1>i, <3>2, <4>1
    <3>. QED  BY <3>1, <3>2
  <2>. QED  BY <1>1, <2>1, <2>2, NobodyAssumption DEF Ledger!Release
<1>5. ASSUME NEW m \in Meetings, NEW st \in {"PENDING", "REQUESTED"},
             ~Clash(m), status' = [status EXCEPT ![m] = st]
      PROVE  [Ledger!Next]_([p \in Places |-> Holder(p)])
  <2>1. (\A q \in Meetings \ {m} : IsActive(q)' = IsActive(q)) /\ IsActive(m)'
    BY <1>0, <1>5 DEF IsActive, Active
  <2>2. CASE IsActive(m)
    <3>1. \A q \in Meetings : IsActive(q)' = IsActive(q)
      BY <2>1, <2>2 DEF IsActive
    <3>. QED  BY <1>2, <3>1
  <2>3. CASE ~IsActive(m)
    BY <1>1, <1>3, <1>5, <2>1, <2>3 DEF Ledger!Next
  <2>. QED  BY <2>2, <2>3
<1>6. ASSUME NEW m \in Meetings, NEW st \in {"FAILED", "GONE", "CANCELLED"},
             status' = [status EXCEPT ![m] = st]
      PROVE  [Ledger!Next]_([p \in Places |-> Holder(p)])
  <2>1. (\A q \in Meetings \ {m} : IsActive(q)' = IsActive(q)) /\ ~IsActive(m)'
    BY <1>0, <1>6 DEF IsActive, Active
  <2>2. CASE ~IsActive(m)
    <3>1. \A q \in Meetings : IsActive(q)' = IsActive(q)
      BY <2>1, <2>2 DEF IsActive
    <3>. QED  BY <1>2, <3>1
  <2>3. CASE IsActive(m)
    BY <1>1, <1>4, <2>1, <2>3 DEF Ledger!Next
  <2>. QED  BY <2>2, <2>3
<1>7. CASE status' = status
  BY <1>2, <1>7 DEF IsActive
<1>. QED  BY <1>5, <1>6, <1>7, StatusStep

\* The handlers implement SlotLedger: a slot is taken only while it is free, by
\* a meeting that holds none, and changes hands only by being released.
THEOREM Refinement == Spec => KeepsLedger
<1>1. TypeOK /\ TypeOK' /\ HaveMeetings /\ SlotExclusive /\ SlotExclusive' /\ [Next]_vars
        => [Ledger!Next]_([p \in Places |-> Holder(p)])
  BY LedgerStep
<1>. QED  BY <1>1, InitLedger, TypeCorrect, Exclusive, PTL DEF Spec, KeepsLedger, Ledger!Spec

(***************************************************************************)
(* What a handler at work may rely on.  No two work on the same new        *)
(* meeting, so between its own steps the only thing others do to that row  *)
(* is to cancel it.                                                        *)
(***************************************************************************)
Replacing(h) ==
  req[h].op = "reschedule" /\ req[h].pc \in {"withdrawing", "closing", "silencing"}

NewIsOwn ==
  \A g, h \in Handlers : g # h => req[g].new # req[h].new \/ req[h].new = Nobody

AskedFirst ==
  \A h \in Handlers :
    At(h, "storing") \/ At(h, "reminding") \/ Replacing(h) => req[h].new \in asked

StoredFirst ==
  \A h \in Handlers :
    At(h, "reminding") \/ Replacing(h) => status[req[h].new] \in {"REQUESTED", "CANCELLED"}

Typed == TypeOK /\ HaveMeetings

LEMMA OwnStep == ASSUME Typed, NewIsOwn, [Next]_vars PROVE NewIsOwn'
<1>1. CASE req' = req
  BY <1>1 DEF NewIsOwn
<1>2. ASSUME NEW h \in Handlers,
             \A g \in Handlers \ {h} : req'[g] = req[g],
             \/ req'[h].new \in {req[h].new, Nobody}
             \/ req[h].pc = "idle" /\ req'[h].new \in Meetings /\ Fresh(req'[h].new)
      PROVE  NewIsOwn'
  <2>1. \A g \in Handlers \ {h} : req'[h].new # req[g].new \/ req'[h].new = Nobody
    BY <1>2 DEF NewIsOwn, Fresh
  <2>. QED  BY <1>2, <2>1 DEF NewIsOwn
<1>. QED  BY <1>1, <1>2, HandlerStep DEF Typed

\* Requests that are mailed stay mailed.
LEMMA AskedGrows == [Next]_vars => asked \subseteq asked'
<1>1. ASSUME NEW h \in Handlers, Proceed(h)  PROVE asked \subseteq asked'
  BY <1>1 DEF Proceed, Create, Send, Store, Remind, Fail, Withdraw, Close, Silence
<1>2. ASSUME NEW h \in Handlers, Begin(h) \/ Break(h)  PROVE asked' = asked
  BY <1>2 DEF Begin, Book, Cancel, Reschedule, Break, SendFails, RemindFails, WithdrawFails, Crash
<1>3. CASE Flow \/ (\E s \in Slots : ToggleSlot(s)) \/ UNCHANGED vars
  BY <1>3 DEF Flow, FlowCreates, FlowCancels, ToggleSlot, vars
<1>. QED  BY <1>1, <1>2, <1>3 DEF Next

\* Where a handler that will need its mail or its row may come from.
LEMMA ArriveStep ==
  ASSUME Typed, [Next]_vars, NEW h \in Handlers
  PROVE  /\ At(h, "storing")' => \/ At(h, "storing") /\ req'[h].new = req[h].new
                                 \/ req'[h].new \in asked'
         /\ At(h, "reminding")' => \/ At(h, "reminding") /\ req'[h].new = req[h].new
                                   \/ /\ At(h, "storing") /\ req'[h].new = req[h].new
                                      /\ status'[req[h].new] = "REQUESTED"
         /\ Replacing(h)' => /\ At(h, "reminding") \/ Replacing(h)
                             /\ req'[h].new = req[h].new
<1>0. req \in [Handlers -> Req] /\ status \in [Meetings -> MeetingStatus] /\ HasMeeting(h)
  BY DEF Typed, TypeOK, Req, HaveMeetings
<1>. DEFINE Arrives ==
         /\ At(h, "storing")' => \/ At(h, "storing") /\ req'[h].new = req[h].new
                                 \/ req'[h].new \in asked'
         /\ At(h, "reminding")' => \/ At(h, "reminding") /\ req'[h].new = req[h].new
                                   \/ /\ At(h, "storing") /\ req'[h].new = req[h].new
                                      /\ status'[req[h].new] = "REQUESTED"
         /\ Replacing(h)' => /\ At(h, "reminding") \/ Replacing(h)
                             /\ req'[h].new = req[h].new
<1>s. ASSUME req'[h] = req[h]  PROVE Arrives
  BY <1>s DEF At, Replacing
<1>d. ASSUME Done(h)  PROVE Arrives
  BY <1>0, <1>d DEF Done, Idle, At, Replacing
<1>1. CASE Begin(h)
  BY <1>0, <1>1 DEF Begin, Book, Cancel, Reschedule, At, Replacing
<1>2. CASE Proceed(h)
  <2>1. CASE Create(h)
    BY <1>0, <1>d, <2>1 DEF Create, Goto, At, Replacing, Req
  <2>2. CASE Send(h)
    BY <1>0, <2>2 DEF Send, Goto, At, Replacing, Req
  <2>3. CASE Store(h)
    BY <1>0, <2>3 DEF Store, Goto, At, Replacing, Req, HasMeeting
  <2>4. CASE Remind(h)
    <3>1. CASE req[h].op = "book"
      BY <1>d, <2>4, <3>1 DEF Remind
    <3>2. CASE req[h].op # "book"
      BY <1>0, <2>4, <3>2 DEF Remind, Goto, At, Replacing, Req
    <3>. QED  BY <3>1, <3>2
  <2>5. CASE Fail(h) \/ Silence(h)
    BY <1>d, <2>5 DEF Fail, Silence
  <2>6. CASE Withdraw(h)
    BY <1>0, <2>6 DEF Withdraw, Goto, At, Replacing, Req
  <2>7. CASE Close(h)
    BY <1>0, <2>7 DEF Close, Goto, At, Replacing, Req
  <2>. QED  BY <1>2, <2>1, <2>2, <2>3, <2>4, <2>5, <2>6, <2>7 DEF Proceed
<1>3. CASE Break(h)
  <2>1. CASE SendFails(h)
    BY <1>0, <2>1 DEF SendFails, Goto, At, Replacing, Req
  <2>2. CASE RemindFails(h)
    BY <1>0, <2>2 DEF RemindFails, Goto, At, Replacing, Req
  <2>3. CASE WithdrawFails(h)
    BY <1>0, <2>3 DEF WithdrawFails, Goto, At, Replacing, Req
  <2>4. CASE Crash(h)
    BY <1>d, <2>4 DEF Crash
  <2>. QED  BY <1>3, <2>1, <2>2, <2>3, <2>4 DEF Break
<1>4. ASSUME NEW g \in Handlers \ {h}, Begin(g) \/ Proceed(g) \/ Break(g)
      PROVE  Arrives
  <2>1. req'[h] = req[h]
    <3>1. CASE Begin(g)
      BY <1>0, <3>1 DEF Begin, Book, Cancel, Reschedule
    <3>2. CASE Proceed(g)
      BY <1>0, <3>2 DEF Proceed, Create, Send, Store, Remind, Fail, Withdraw, Close, Silence,
                        Goto, Done
    <3>3. CASE Break(g)
      BY <1>0, <3>3 DEF Break, SendFails, RemindFails, WithdrawFails, Crash, Goto, Done
    <3>. QED  BY <1>4, <3>1, <3>2, <3>3
  <2>. QED  BY <1>s, <2>1
<1>5. CASE Flow \/ (\E s \in Slots : ToggleSlot(s)) \/ UNCHANGED vars
  BY <1>5, <1>s DEF Flow, FlowCreates, FlowCancels, ToggleSlot, vars
<1>6. Arrives
  BY <1>1, <1>2, <1>3, <1>4, <1>5 DEF Next
<1>. QED  BY <1>6

LEMMA AskedFirstStep ==
  ASSUME Typed, AskedFirst, [Next]_vars
  PROVE  AskedFirst'
<1>. SUFFICES ASSUME NEW h \in Handlers,
                     At(h, "storing")' \/ At(h, "reminding")' \/ Replacing(h)'
              PROVE  req'[h].new \in asked'
  BY DEF AskedFirst
<1>. QED  BY ArriveStep, AskedGrows DEF AskedFirst

\* While a handler replaces a meeting, others can only cancel its new row.
LEMMA RowStays ==
  ASSUME Typed, NewIsOwn, [Next]_vars, NEW h \in Handlers, At(h, "reminding") \/ Replacing(h)
  PROVE  status'[req[h].new] \in {status[req[h].new], "CANCELLED"}
<1>0. /\ status \in [Meetings -> MeetingStatus]
      /\ req[h].new \in Meetings
  BY DEF Typed, TypeOK, HaveMeetings, HasMeeting, At, Replacing
<1>1. ASSUME NEW g \in Handlers, Create(g) \/ Store(g) \/ Fail(g)
      PROVE  status'[req[h].new] = status[req[h].new]
  <2>1. g # h
    BY <1>1 DEF Create, Store, Fail, At, Replacing
  <2>2. req[g].new # req[h].new
    BY <1>0, <2>1, NobodyAssumption DEF NewIsOwn
  <2>3. CASE Create(g)
    BY <1>0, <2>2, <2>3 DEF Create
  <2>4. CASE Store(g)
    BY <1>0, <2>2, <2>4 DEF Store
  <2>5. CASE Fail(g)
    BY <1>0, <2>2, <2>5 DEF Fail
  <2>. QED  BY <1>1, <2>3, <2>4, <2>5
<1>2. ASSUME NEW g \in Handlers, Proceed(g)
      PROVE  status'[req[h].new] \in {status[req[h].new], "CANCELLED"}
  <2>1. CASE Close(g)
    BY <1>0, <2>1 DEF Close
  <2>2. CASE Send(g) \/ Remind(g) \/ Withdraw(g) \/ Silence(g)
    BY <2>2 DEF Send, Remind, Withdraw, Silence, rows
  <2>. QED  BY <1>1, <1>2, <2>1, <2>2 DEF Proceed
<1>3. ASSUME NEW g \in Handlers, Begin(g) \/ Break(g)  PROVE status' = status
  BY <1>3 DEF Begin, Book, Cancel, Reschedule, Break, SendFails, RemindFails, WithdrawFails,
              Crash, rows
<1>4. CASE Flow \/ (\E s \in Slots : ToggleSlot(s)) \/ UNCHANGED vars
  BY <1>4 DEF Flow, FlowCreates, FlowCancels, ToggleSlot, vars, rows
<1>. QED  BY <1>2, <1>3, <1>4 DEF Next

LEMMA StoredFirstStep ==
  ASSUME Typed, NewIsOwn, StoredFirst, [Next]_vars
  PROVE  StoredFirst'
<1>. SUFFICES ASSUME NEW h \in Handlers, At(h, "reminding")' \/ Replacing(h)'
              PROVE  status'[req'[h].new] \in {"REQUESTED", "CANCELLED"}
  BY DEF StoredFirst
<1>1. CASE (At(h, "reminding") \/ Replacing(h)) /\ req'[h].new = req[h].new
  BY <1>1, RowStays DEF StoredFirst
<1>. QED  BY <1>1, ArriveStep

LEMMA RequestedStep ==
  ASSUME Typed, AskedFirst, RequestedWasAsked, [Next]_vars
  PROVE  RequestedWasAsked'
<1>0. status \in [Meetings -> MeetingStatus]
  BY DEF Typed, TypeOK
<1>1. ASSUME NEW m \in Meetings, status'[m] = "REQUESTED", status[m] # "REQUESTED"
      PROVE  m \in asked
  <2>1. PICK h \in Handlers : Proceed(h)
    BY <1>1 DEF Next, Begin, Book, Cancel, Reschedule, Break, SendFails, RemindFails,
                WithdrawFails, Crash, Flow, FlowCreates, FlowCancels, ToggleSlot, vars, rows
  <2>2. CASE Store(h)
    BY <1>0, <1>1, <2>2 DEF Store, AskedFirst
  <2>3. CASE Create(h) \/ Fail(h) \/ Close(h)
    BY <1>0, <1>1, <2>3 DEF Create, Fail, Close
  <2>4. CASE Send(h) \/ Remind(h) \/ Withdraw(h) \/ Silence(h)
    BY <1>1, <2>4 DEF Send, Remind, Withdraw, Silence, rows
  <2>. QED  BY <2>1, <2>2, <2>3, <2>4 DEF Proceed
<1>. QED  BY <1>1, AskedGrows DEF RequestedWasAsked

Working == Typed /\ NewIsOwn /\ AskedFirst /\ StoredFirst /\ RequestedWasAsked

LEMMA WorkingAlways == Spec => []Working
<1>1. Init => Working
  BY InitTypes, InitHaveMeetings
     DEF Init, Working, Typed, NewIsOwn, AskedFirst, StoredFirst, RequestedWasAsked, At,
         Replacing, Idle
<1>2. Working /\ [Next]_vars => Working'
  BY NextTypes, HaveMeetingsStep, OwnStep, AskedFirstStep, StoredFirstStep, RequestedStep
     DEF Working, Typed
<1>. QED  BY <1>1, <1>2, PTL DEF Spec

\* No row is shown as REQUESTED whose invitation was never asked for.
THEOREM Asked == Spec => []RequestedWasAsked
<1>. QED  BY WorkingAlways, PTL DEF Working

\* A reschedule withdraws the original only when its replacement was asked for
\* and stored: a failure on the way leaves the original alone.
THEOREM Replacement == Spec => []ReplacementFirst
<1>1. Working => ReplacementFirst
  BY DEF Working, AskedFirst, StoredFirst, ReplacementFirst, Replacing
<1>. QED  BY <1>1, WorkingAlways, PTL

(***************************************************************************)
(* No PENDING row is abandoned while no web process dies.                  *)
(***************************************************************************)
AtWork(h) == req[h].pc \in {"sending", "storing", "failing"}

LEMMA ServedStep ==
  ASSUME Typed, "crash" \notin Faults, PendingIsServed, [Next]_vars
  PROVE  PendingIsServed'
<1>0. status \in [Meetings -> MeetingStatus] /\ req \in [Handlers -> Req]
  BY DEF Typed, TypeOK, Req
<1>. SUFFICES ASSUME NEW m \in Meetings, status'[m] = "PENDING"
              PROVE  \E h \in Handlers : req'[h].new = m /\ AtWork(h)'
  BY DEF PendingIsServed, AtWork
<1>. DEFINE Served == \E h \in Handlers : req'[h].new = m /\ AtWork(h)'
\* A handler on the row either goes on with it or settles it.
<1>1. ASSUME NEW h \in Handlers, Proceed(h), req[h].new = m, AtWork(h)
      PROVE  Served
  <2>1. CASE Send(h)
    BY <1>0, <1>1, <2>1 DEF Send, Goto, AtWork, Req
  <2>2. CASE Store(h)
    BY <1>0, <1>1, <2>2 DEF Store, Goto, AtWork, Req
  <2>3. CASE Fail(h)
    BY <1>0, <1>1, <2>3 DEF Fail
  <2>. QED  BY <1>1, <2>1, <2>2, <2>3
            DEF Proceed, AtWork, Create, Remind, Withdraw, Close, Silence, At
<1>2. ASSUME NEW h \in Handlers, Break(h), req[h].new = m, AtWork(h)
      PROVE  Served
  <2>1. SendFails(h)
    BY <1>2 DEF Break, AtWork, SendFails, RemindFails, WithdrawFails, Crash, Fault, At
  <2>. QED  BY <1>0, <1>2, <2>1 DEF SendFails, Goto, AtWork, Req
<1>3. ASSUME NEW h \in Handlers, Create(h), status[m] # "PENDING"
      PROVE  Served
  <2>1. ~Clash(req[h].new) /\ req[h].new = m /\ Goto(h, "sending")
    BY <1>0, <1>3 DEF Create
  <2>. QED  BY <1>0, <2>1 DEF Goto, AtWork, Req
<1>4. CASE status[m] # "PENDING"
  <2>1. PICK h \in Handlers : Proceed(h)
    BY <1>4 DEF Next, Begin, Book, Cancel, Reschedule, Break, SendFails, RemindFails,
                WithdrawFails, Crash, Flow, FlowCreates, FlowCancels, ToggleSlot, vars, rows
  <2>2. CASE Store(h) \/ Fail(h) \/ Close(h)
    BY <1>0, <1>4, <2>2 DEF Store, Fail, Close
  <2>3. CASE Send(h) \/ Remind(h) \/ Withdraw(h) \/ Silence(h)
    BY <1>4, <2>3 DEF Send, Remind, Withdraw, Silence, rows
  <2>. QED  BY <1>3, <1>4, <2>1, <2>2, <2>3 DEF Proceed
<1>5. CASE status[m] = "PENDING"
  <2>1. PICK h \in Handlers : req[h].new = m /\ AtWork(h)
    BY <1>5 DEF PendingIsServed, AtWork
  <2>2. CASE req'[h] = req[h]
    BY <2>1, <2>2 DEF AtWork
  <2>3. CASE Begin(h)
    BY <2>1, <2>3 DEF Begin, Book, Cancel, Reschedule, At, AtWork
  <2>4. ASSUME NEW g \in Handlers \ {h}, Begin(g) \/ Proceed(g) \/ Break(g)
        PROVE  req'[h] = req[h]
    <3>1. CASE Begin(g)
      BY <1>0, <3>1 DEF Begin, Book, Cancel, Reschedule
    <3>2. CASE Proceed(g)
      BY <1>0, <3>2 DEF Proceed, Create, Send, Store, Remind, Fail, Withdraw, Close, Silence,
                        Goto, Done
    <3>3. CASE Break(g)
      BY <1>0, <3>3 DEF Break, SendFails, RemindFails, WithdrawFails, Crash, Goto, Done
    <3>. QED  BY <2>4, <3>1, <3>2, <3>3
  <2>5. CASE Flow \/ (\E s \in Slots : ToggleSlot(s)) \/ UNCHANGED vars
    BY <2>2, <2>5 DEF Flow, FlowCreates, FlowCancels, ToggleSlot, vars
  <2>. QED  BY <1>1, <1>2, <2>1, <2>2, <2>3, <2>4, <2>5 DEF Next
<1>. QED  BY <1>4, <1>5

\* While no web process dies, a PENDING booking has a request at work on it:
\* no mail, reminder or database failure strands one.
THEOREM PendingServed == "crash" \notin Faults /\ Spec => []PendingIsServed
<1>1. Init => PendingIsServed
  BY DEF Init, PendingIsServed
<1>2. "crash" \notin Faults /\ Typed /\ PendingIsServed /\ [Next]_vars => PendingIsServed'
  BY ServedStep
<1>3. Spec => []Typed
  BY TypeCorrect, PTL DEF Typed
<1>4. CASE "crash" \in Faults
  BY <1>4
<1>5. CASE "crash" \notin Faults
  <2>1. Typed /\ PendingIsServed /\ [Next]_vars => PendingIsServed'
    BY <1>2, <1>5
  <2>. QED  BY <1>1, <1>3, <2>1, PTL DEF Spec
<1>. QED  BY <1>4, <1>5

(***************************************************************************)
(* The calendar grid and the booking form read the same availability.      *)
(***************************************************************************)
LEMMA BookableHasSlot ==
  ASSUME NEW d \in Dates, NEW on \in SUBSET Slots, NEW booked
  PROVE  DateStatus(d, on, booked) = "bookable" <=> \E s \in Slots : Offered(d, s, on, booked)
  BY DEF DateStatus, Offered, FreeSlots

\* A day the grid shows as bookable has a slot the form accepts, and no other
\* day has one, also when a booked slot was deactivated meanwhile.
THEOREM CalendarTruthful == Spec => []CalendarTellsTruth
<1>1. TypeOK => CalendarTellsTruth
  BY BookableHasSlot DEF TypeOK, CalendarTellsTruth
<1>. QED  BY <1>1, TypeCorrect, PTL
=============================================================================
