-------------------------- MODULE Followups_proofs --------------------------
(***************************************************************************)
(* Proofs about Followups: its types, that a stopped handover stays        *)
(* stopped, and that a stamped mail is not repeated on its day.            *)
(***************************************************************************)
EXTENDS Followups, TLAPS

ReqType == [pc : {"idle", "held", "done"}, op : {"golive", "cancel"}, meeting : Meetings, seen : Row]

ScanType == [on : BOOLEAN, day : Days, todo : SUBSET (Meetings \X Kinds),
          stamp : (Meetings \X Kinds) \union {Nothing}]

LEMMA DaysAre == 0 \in Days /\ Days \subseteq Nat
  BY DaysAssumption DEF Days

(***************************************************************************)
(* Types.                                                                  *)
(***************************************************************************)
LEMMA InitTypes == Init => TypeOK
<1>1. FreshRow \in Row
  BY DEF FreshRow, Row
<1>. QED  BY <1>1, DaysAre DEF Init, TypeOK, NoScan

LEMMA ScanTypes ==
  ASSUME TypeOK, Scan \/ ScanTroubles \/ WorkerLost
  PROVE  TypeOK'
<1>0. scan \in ScanType /\ row \in [Meetings -> Row] /\ today \in Days
  BY DEF TypeOK, ScanType
<1>1. CASE ScanStart
  <2>1. ran' \in SUBSET Jobs
    BY <1>1 DEF ScanStart, TypeOK, Jobs
  <2>. QED  BY <1>1, <2>1 DEF ScanStart, TypeOK
<1>2. CASE ScanEnd
  BY <1>2, DaysAre DEF ScanEnd, TypeOK, NoScan
<1>3. ASSUME NEW m \in Meetings, NEW k \in Kinds, ScanMail(m, k)  PROVE TypeOK'
  <2>1. scan' \in ScanType
    BY <1>0, <1>3 DEF ScanMail, ScanType
  <2>2. mails' \in [Meetings \X Kinds \X Days -> Nat]
    <3>1. <<m, k, scan.day>> \in Meetings \X Kinds \X Days
      BY <1>0 DEF ScanType
    <3>. QED  BY <1>3, <3>1 DEF ScanMail, TypeOK
  <2>. QED  BY <1>3, <2>1, <2>2 DEF ScanMail, TypeOK, ScanType
<1>4. ASSUME NEW m \in Meetings, NEW k \in Kinds, ScanStamp(m, k)  PROVE TypeOK'
  <2>1. scan' \in ScanType
    BY <1>0, <1>4 DEF ScanStamp, ScanType
  <2>2. row' \in [Meetings -> Row]
    BY <1>0, <1>4 DEF ScanStamp, Row, ScanType
  <2>. QED  BY <1>4, <2>1, <2>2 DEF ScanStamp, TypeOK, ScanType
<1>5. ASSUME NEW m \in Meetings, NEW k \in Kinds, ScanMailLost(m, k) \/ ScanSkips(m, k)
      PROVE  TypeOK'
  <2>1. scan' \in ScanType
    BY <1>0, <1>5 DEF ScanMailLost, ScanSkips, ScanType
  <2>. QED  BY <1>5, <2>1 DEF ScanMailLost, ScanSkips, Fault, TypeOK, ScanType
<1>6. CASE WorkerLost
  BY <1>6, DaysAre DEF WorkerLost, Fault, TypeOK, NoScan
<1>. QED  BY <1>1, <1>2, <1>3, <1>4, <1>5, <1>6 DEF Scan, ScanTroubles

LEMMA RequestTypes ==
  ASSUME TypeOK, NEW h \in Handlers, Request(h)
  PROVE  TypeOK'
<1>0. req \in [Handlers -> ReqType] /\ row \in [Meetings -> Row]
  BY DEF TypeOK, ReqType
<1>1. ASSUME NEW m \in Meetings, NEW op \in {"golive", "cancel"}, Reads(h, op, m)
      PROVE  TypeOK'
  <2>1. [pc |-> "held", op |-> op, meeting |-> m, seen |-> row[m]] \in ReqType
    BY <1>0 DEF ReqType
  <2>2. req' \in [Handlers -> ReqType]
    BY <1>0, <1>1, <2>1 DEF Reads
  <2>. QED  BY <1>1, <2>2 DEF Reads, TypeOK, ReqType
<1>2. ASSUME NEW r \in Row, req' = [req EXCEPT ![h].pc = "done"],
             row' = [row EXCEPT ![req[h].meeting] = r],
             UNCHANGED <<today, ran, scan, mails, faults>>
      PROVE  TypeOK'
  <2>1. [req[h] EXCEPT !.pc = "done"] \in ReqType
    BY <1>0 DEF ReqType
  <2>2. req' \in [Handlers -> ReqType]
    BY <1>0, <1>2, <2>1
  <2>3. row' \in [Meetings -> Row]
    BY <1>0, <1>2
  <2>. QED  BY <1>2, <2>2, <2>3 DEF TypeOK, ReqType
<1>3. CASE GoLiveSave(h)
  <2>0. row[req[h].meeting] \in Row
    BY <1>0 DEF ReqType
  <2>1. [row[req[h].meeting] EXCEPT !.live = TRUE] \in Row
    BY <2>0 DEF Row
  <2>. QED  BY <1>2, <1>3, <2>1 DEF GoLiveSave
<1>4. CASE CancelSave(h)
  <2>1. [req[h].seen EXCEPT !.status = "CANCELLED"] \in Row
    BY <1>0 DEF ReqType, Row
  <2>. QED  BY <1>2, <1>4, <2>1 DEF CancelSave
<1>. QED  BY <1>1, <1>3, <1>4 DEF Request, GoLiveRead, CancelRead

LEMMA NextTypes == TypeOK /\ [Next]_vars => TypeOK'
<1>. SUFFICES ASSUME TypeOK, [Next]_vars  PROVE TypeOK'
  OBVIOUS
<1>1. CASE CommandFails
  BY <1>1 DEF CommandFails, TypeOK, Jobs
<1>2. CASE DayPasses
  BY <1>2, DaysAssumption DEF DayPasses, TypeOK, Days
<1>3. CASE UNCHANGED vars
  BY <1>3 DEF TypeOK, vars
<1>. QED  BY <1>1, <1>2, <1>3, ScanTypes, RequestTypes DEF Next

\* Every variable keeps its type, whatever fails and whoever saves stale rows.
THEOREM TypeCorrect == Spec => []TypeOK
<1>. QED  BY InitTypes, NextTypes, PTL DEF Spec

(***************************************************************************)
(* Stopped handovers.                                                      *)
(***************************************************************************)
LEMMA StoppedStep ==
  ASSUME TypeOK, [Next]_vars, NEW m \in Meetings, Stopped(row[m])
  PROVE  Stopped(row'[m])
<1>0. row \in [Meetings -> Row] /\ req \in [Handlers -> ReqType]
  BY DEF TypeOK, ReqType
<1>. USE DEF Stopped, Active
<1>1. CASE UNCHANGED row
  BY <1>1
<1>2. ASSUME NEW q \in Meetings, NEW k \in Kinds, ScanStamp(q, k)  PROVE Stopped(row'[m])
  BY <1>0, <1>2 DEF ScanStamp, Row
<1>3. ASSUME NEW h \in Handlers, GoLiveSave(h)  PROVE Stopped(row'[m])
  BY <1>0, <1>3 DEF GoLiveSave, Row
<1>4. ASSUME NEW h \in Handlers, CancelSave(h)  PROVE Stopped(row'[m])
  <2>1. req[h].seen \in Row
    BY <1>0 DEF ReqType
  <2>. QED  BY <1>0, <1>4, <2>1 DEF CancelSave, Row
<1>5. CASE \/ ScanTroubles \/ WorkerLost \/ CommandFails \/ DayPasses \/ ScanStart \/ ScanEnd
           \/ UNCHANGED vars
  BY <1>1, <1>5 DEF ScanTroubles, ScanMailLost, ScanSkips, WorkerLost, CommandFails, DayPasses,
                    ScanStart, ScanEnd, vars
<1>6. CASE Scan
  BY <1>1, <1>2, <1>5, <1>6 DEF Scan, ScanMail
<1>7. ASSUME NEW h \in Handlers, Request(h)  PROVE Stopped(row'[m])
  BY <1>1, <1>3, <1>4, <1>7 DEF Request, GoLiveRead, CancelRead, Reads
<1>. QED  BY <1>5, <1>6, <1>7 DEF Next

\* A handover marked GO-live or cancelled is never open for follow-ups again.
THEOREM StaysStopped == Spec => StoppedStaysStopped
<1>1. TypeOK /\ [Next]_vars => [\A m \in Meetings : Stopped(row[m]) => Stopped(row'[m])]_vars
  BY StoppedStep
<1>. QED  BY <1>1, TypeCorrect, PTL DEF Spec, StoppedStaysStopped

(***************************************************************************)
(* Stamps.  cancel_booking may take a stamp of today back, to the stamp it *)
(* read; but then the row is stopped, and no scan of the day that has the  *)
(* mail to send is running.                                                *)
(***************************************************************************)
NotAhead(r) == \A k \in Kinds : r.sent[k] = Never \/ r.sent[k] <= today

Held(h) == req[h].pc = "held"

Dated ==
  /\ scan.on => scan.day = today
  /\ \A m \in Meetings : NotAhead(row[m])
  /\ \A h \in Handlers : Held(h) => NotAhead(req[h].seen)

Backed ==
  \A h \in Handlers, k \in Kinds : Held(h) /\ req[h].seen.sent[k] = today =>
    row[req[h].meeting].sent[k] = today \/ Stopped(row[req[h].meeting])

Owing ==
  scan.on => \A m \in Meetings, k \in Kinds : <<m, k>> \in scan.todo =>
    /\ row[m].sent[k] # today
    /\ \A h \in Handlers : Held(h) /\ req[h].meeting = m => req[h].seen.sent[k] # today

Stamps == TypeOK /\ Dated /\ Backed /\ Owing

LEMMA StampsInit == Init => Stamps
<1>. SUFFICES ASSUME Init  PROVE Stamps
  OBVIOUS
<1>1. Dated
  BY DEF Init, Dated, NoScan, NotAhead, FreshRow, Held
<1>2. Backed /\ Owing
  BY DEF Init, Backed, Owing, NoScan, Held
<1>. QED  BY <1>1, <1>2, InitTypes DEF Stamps

LEMMA StampsScan ==
  ASSUME Stamps, Scan \/ ScanTroubles \/ WorkerLost
  PROVE  (Dated /\ Backed /\ Owing)'
<1>0. /\ row \in [Meetings -> Row] /\ req \in [Handlers -> ReqType]
      /\ scan \in ScanType /\ today \in Days
  BY DEF Stamps, TypeOK, ReqType, ScanType
<1>. USE DEF Stamps, NotAhead, Held, Stopped, Active
<1>1. CASE ScanStart
  <2>1. Dated' /\ Backed'
    BY <1>0, <1>1 DEF ScanStart, Dated, Backed
  <2>2. Owing'
    BY <1>0, <1>1 DEF ScanStart, Backed, Owing, Owed
  <2>. QED  BY <2>1, <2>2
<1>2. CASE ScanEnd \/ WorkerLost
  BY <1>2 DEF ScanEnd, WorkerLost, NoScan, Dated, Backed, Owing
<1>3. ASSUME NEW m \in Meetings, NEW k \in Kinds, ScanMail(m, k) \/ ScanMailLost(m, k) \/ ScanSkips(m, k)
      PROVE  (Dated /\ Backed /\ Owing)'
  <2>1. /\ UNCHANGED <<today, row, req>>
        /\ scan'.on = scan.on /\ scan'.day = scan.day /\ scan'.todo \subseteq scan.todo
    BY <1>0, <1>3 DEF ScanMail, ScanMailLost, ScanSkips, ScanType
  <2>. QED  BY <2>1 DEF Dated, Backed, Owing
<1>4. ASSUME NEW m \in Meetings, NEW k \in Kinds, ScanStamp(m, k)
      PROVE  (Dated /\ Backed /\ Owing)'
  <2>1. /\ UNCHANGED <<today, req>> /\ scan.on /\ scan.day = today
        /\ scan' = [scan EXCEPT !.stamp = Nothing, !.todo = @ \ {<<m, k>>}]
        /\ row' = [row EXCEPT ![m].sent[k] = today]
    BY <1>4 DEF ScanStamp, Dated
  <2>2. \A q \in Meetings : row'[q].status = row[q].status /\ row'[q].live = row[q].live
    BY <1>0, <2>1 DEF Row
  <2>3. \A q \in Meetings, j \in Kinds :
          row'[q].sent[j] = IF q = m /\ j = k THEN today ELSE row[q].sent[j]
    BY <1>0, <2>1 DEF Row
  <2>4. /\ scan'.on = scan.on /\ scan'.day = scan.day
        /\ scan'.todo = scan.todo \ {<<m, k>>}
    BY <1>0, <2>1 DEF ScanType
  <2>5. Dated'
    BY <1>0, <2>1, <2>3, <2>4, DaysAre DEF Dated
  <2>6. Backed'
    BY <1>0, <2>1, <2>2, <2>3 DEF Backed, ReqType
  <2>7. Owing'
    BY <2>1, <2>3, <2>4 DEF Owing
  <2>. QED  BY <2>5, <2>6, <2>7
<1>. QED  BY <1>1, <1>2, <1>3, <1>4 DEF Scan, ScanTroubles

LEMMA StampsRequest ==
  ASSUME Stamps, NEW h \in Handlers, Request(h)
  PROVE  (Dated /\ Backed /\ Owing)'
<1>0. /\ row \in [Meetings -> Row] /\ req \in [Handlers -> ReqType]
      /\ scan \in ScanType /\ today \in Days
  BY DEF Stamps, TypeOK, ReqType, ScanType
<1>. USE DEF Stamps, NotAhead, Held
<1>1. ASSUME NEW m \in Meetings, NEW op \in {"golive", "cancel"}, Reads(h, op, m)
      PROVE  (Dated /\ Backed /\ Owing)'
  BY <1>0, <1>1 DEF Reads, Dated, Backed, Owing, Stopped, Active
<1>2. CASE GoLiveSave(h)
  <2>1. \A m \in Meetings : /\ row'[m].sent = row[m].sent
                            /\ Stopped(row[m]) => Stopped(row'[m])
    BY <1>0, <1>2 DEF GoLiveSave, Row, Stopped, Active
  <2>2. /\ UNCHANGED <<today, scan>>
        /\ \A g \in Handlers : /\ Held(g)' => Held(g)
                               /\ req'[g].meeting = req[g].meeting
                               /\ req'[g].seen = req[g].seen
    BY <1>0, <1>2 DEF GoLiveSave, ReqType
  <2>. QED  BY <1>0, <2>1, <2>2 DEF Dated, Backed, Owing, ReqType
<1>3. CASE CancelSave(h)
  <2>0. Held(h) /\ req[h].seen \in Row /\ req[h].meeting \in Meetings
    BY <1>0, <1>3 DEF CancelSave, ReqType
  <2>1. \A m \in Meetings :
          row'[m] = IF m = req[h].meeting THEN [req[h].seen EXCEPT !.status = "CANCELLED"] ELSE row[m]
    BY <1>0, <1>3 DEF CancelSave
  <2>2. /\ row'[req[h].meeting].sent = req[h].seen.sent
        /\ Stopped(row'[req[h].meeting])
    BY <2>0, <2>1 DEF Row, Stopped, Active
  <2>3. /\ UNCHANGED <<today, scan>>
        /\ \A g \in Handlers : /\ Held(g)' => Held(g)
                               /\ req'[g].meeting = req[g].meeting
                               /\ req'[g].seen = req[g].seen
    BY <1>0, <1>3 DEF CancelSave, ReqType
  <2>4. Dated'
    BY <1>0, <2>0, <2>1, <2>2, <2>3 DEF Dated
  <2>5. Backed'
    BY <1>0, <2>1, <2>2, <2>3 DEF Backed, ReqType
  <2>6. Owing'
    BY <1>0, <2>0, <2>1, <2>2, <2>3 DEF Owing
  <2>. QED  BY <2>4, <2>5, <2>6
<1>. QED  BY <1>1, <1>2, <1>3 DEF Request, GoLiveRead, CancelRead

LEMMA StampsDay == ASSUME Stamps, DayPasses PROVE (Dated /\ Backed /\ Owing)'
<1>0. /\ row \in [Meetings -> Row] /\ req \in [Handlers -> ReqType]
      /\ today \in Nat /\ today < LastDay /\ LastDay \in Nat /\ ~scan.on
      /\ today' = today + 1 /\ UNCHANGED <<row, req, scan>>
  BY DaysAssumption DEF Stamps, TypeOK, ReqType, DayPasses, Days
<1>1. \A r \in Row, k \in Kinds : r.sent[k] \in Days \union {Never}
  BY DEF Row
<1>2. \A r \in Row : NotAhead(r) => NotAhead(r)' /\ \A k \in Kinds : r.sent[k] # today'
  BY <1>0, <1>1 DEF NotAhead, Never, Days
<1>3. \A h \in Handlers : req[h].seen \in Row
  BY <1>0 DEF ReqType
<1>4. Dated'
  BY <1>0, <1>2, <1>3 DEF Stamps, Dated, NotAhead, Held
<1>5. Backed'
  BY <1>0, <1>2, <1>3 DEF Stamps, Dated, Backed, Held
<1>6. Owing'
  BY <1>0 DEF Owing
<1>. QED  BY <1>4, <1>5, <1>6

LEMMA StampsStep == Stamps /\ [Next]_vars => Stamps'
<1>. SUFFICES ASSUME Stamps, [Next]_vars  PROVE (Dated /\ Backed /\ Owing)'
  BY NextTypes DEF Stamps
<1>1. CASE CommandFails \/ UNCHANGED vars
  BY <1>1 DEF CommandFails, vars, Stamps, Dated, Backed, Owing, NotAhead, Held
<1>. QED  BY <1>1, StampsScan, StampsRequest, StampsDay DEF Next

LEMMA MailStep ==
  ASSUME Stamps, [Next]_vars,
         NEW m \in Meetings, NEW k \in Kinds, NEW d \in Days, mails'[<<m, k, d>>] > mails[<<m, k, d>>]
  PROVE  row[m].sent[k] # d
<1>0. mails \in [Meetings \X Kinds \X Days -> Nat] /\ scan \in ScanType
  BY DEF Stamps, TypeOK, ScanType
<1>1. CASE UNCHANGED mails
  BY <1>0, <1>1
<1>2. ASSUME NEW q \in Meetings, NEW j \in Kinds, ScanMail(q, j)  PROVE row[m].sent[k] # d
  <2>1. ASSUME <<q, j, scan.day>> # <<m, k, d>>  PROVE FALSE
    <3>1. <<m, k, d>> \in Meetings \X Kinds \X Days
      OBVIOUS
    <3>2. mails'[<<m, k, d>>] = mails[<<m, k, d>>]
      BY <1>0, <1>2, <2>1, <3>1 DEF ScanMail
    <3>3. mails[<<m, k, d>>] \in Nat
      BY <1>0, <3>1
    <3>. QED  BY <3>2, <3>3
  <2>2. q = m /\ j = k /\ scan.day = d
    BY <2>1
  <2>3. scan.on /\ <<m, k>> \in scan.todo /\ scan.day = today
    BY <1>2, <2>2 DEF ScanMail, Stamps, Dated
  <2>. QED  BY <2>2, <2>3 DEF Stamps, Owing
<1>3. CASE UNCHANGED vars \/ ScanTroubles \/ WorkerLost \/ CommandFails \/ DayPasses
           \/ ScanStart \/ ScanEnd \/ \E h \in Handlers : Request(h)
  BY <1>1, <1>3 DEF vars, ScanTroubles, ScanMailLost, ScanSkips, WorkerLost, CommandFails, DayPasses,
                    ScanStart, ScanEnd, Request, GoLiveRead, CancelRead, Reads, GoLiveSave, CancelSave
<1>4. CASE Scan
  BY <1>1, <1>2, <1>3, <1>4 DEF Scan, ScanStamp
<1>. QED  BY <1>3, <1>4 DEF Next

\* A mail stamped for a day is not sent again that day, however often the task
\* is delivered again and whatever row a cancellation writes back.
THEOREM NotRepeated == Spec => NoMailAfterStamp
<1>1. Stamps /\ [Next]_vars =>
        [\A m \in Meetings, k \in Kinds, d \in Days :
           mails'[<<m, k, d>>] > mails[<<m, k, d>>] => row[m].sent[k] # d]_vars
  BY MailStep
<1>2. Spec => []Stamps
  BY StampsInit, StampsStep, PTL DEF Spec
<1>. QED  BY <1>1, <1>2, PTL DEF Spec, NoMailAfterStamp
=============================================================================
