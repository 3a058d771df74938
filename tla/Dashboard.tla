----------------------------- MODULE Dashboard ------------------------------
(***************************************************************************)
(* The handover dashboard of EDCS-Gate and its Excel export                *)
(* (src/apps/accounts/views.py and src/apps/scheduler/services.py), on top *)
(* of the bookings they report: what a page or a workbook shows in a state *)
(* of the tables.  Its reads are taken as one: a page whose four reads     *)
(* fall around a change shows tables and cards of different states.        *)
(* Bookings are made on Today; a page may be opened later.  A text filter  *)
(* stands for what it matches: a person or a tool, and in the status       *)
(* column a set of statuses (all of them: there is no such filter).        *)
(***************************************************************************)
EXTENDS Booking

CONSTANTS
  Days,         \* days a page may be opened on
  People,
  AttendeesOf,  \* the attendees of the meetings of each run: person and type
  Reporters,    \* people with the permission reports.view
  DocRuns,      \* doc-only verifications, numbered as they were started
  DocOf,        \* their tool, date and requester
  Cut,          \* how many of them the page reads
  Views         \* requests: who asks, for what, with which filters

Anything == "any"
Types    == {"SCRUM_MASTER", "DEVELOPER", "CC"}
Statuses == {"scheduled", "completed", "cancelled", "failed"}
Filter   == [text : People \union Tools \union {Anything}, tool : Tools \union {Anything},
             status : Statuses \union {Anything}, from : Dates, to : Dates,
             column : SUBSET Statuses]
Unfiltered == [text |-> Anything, tool |-> Anything, status |-> Anything,
               from |-> CHOOSE d \in Dates : \A e \in Dates : d <= e,
               to |-> CHOOSE d \in Dates : \A e \in Dates : d >= e, column |-> Statuses]
View     == [by : People, all : BOOLEAN, filter : Filter]

ASSUME PeopleAssumption ==
  AttendeesOf \in [Runs -> SUBSET (People \X Types)] /\ Reporters \subseteq People
ASSUME DocRunsAssumption ==
  /\ DocRuns \subseteq Nat /\ IsFiniteSet(DocRuns) /\ Cut \in Nat
  /\ DocOf \in [DocRuns -> [tool : Tools, date : Dates, by : People]]
ASSUME ViewsAssumption ==
  Days \subseteq Nat /\ Dates \subseteq Nat /\ Views \subseteq View
ASSUME TablesAssumption == IsFiniteSet(Meetings) /\ IsFiniteSet(Dates)

(***************************************************************************)
(* services.py: rows and cards.                                            *)
(***************************************************************************)
Rows == {m \in Meetings : status[m] \notin {"NONE", "GONE"}}

\* Mutant of DisplayStatus: a meeting is over on its own day.
DisplayStatusEarly(m, today) ==
  CASE status[m] = "CANCELLED" -> "cancelled"
    [] status[m] = "FAILED"    -> "failed"
    [] OTHER -> IF want[m].date <= today THEN "completed" ELSE "scheduled"

\* Mutant of DisplayStatus: a booking whose request is not out has no status.
DisplayStatusPending(m, today) ==
  CASE status[m] = "CANCELLED" -> "cancelled"
    [] status[m] = "FAILED"    -> "failed"
    [] status[m] = "PENDING"   -> "pending"
    [] OTHER -> IF want[m].date < today THEN "completed" ELSE "scheduled"

\* _display_status
DisplayStatus(m, today) ==
  CASE status[m] = "CANCELLED" -> "cancelled"
    [] status[m] = "FAILED"    -> "failed"
    [] OTHER -> IF want[m].date < today THEN "completed" ELSE "scheduled"

Attends(m, p, t) == <<p, t>> \in AttendeesOf[want[m].run]

Searched(m, text) ==
  text \in {Anything, Tool(m)} \/ \E t \in Types : Attends(m, text, t)

\* Mutant of InScope: two filter() calls, each satisfied by another attendee.
InScopeTwice(m, p) ==
  p = Anything \/ ((\E t \in Types : Attends(m, p, t))
                   /\ \E o \in People : Attends(m, o, "SCRUM_MASTER"))

InScope(m, p) == p = Anything \/ Attends(m, p, "SCRUM_MASTER")

\* filtered_bookings and _filter_booking_rows
FilteredBookings(f, scope, today) ==
  {m \in Rows :
     /\ Searched(m, f.text) /\ f.tool \in {Anything, Tool(m)} /\ InScope(m, scope)
     /\ f.from <= want[m].date /\ want[m].date <= f.to
     /\ f.status \in {Anything, DisplayStatus(m, today)}
     /\ f.column = Statuses \/ DisplayStatus(m, today) \in f.column}

\* booking_stats
BookingStats(today) ==
  [total     |-> Cardinality(Rows),
   upcoming  |-> Cardinality({m \in Rows : IsActive(m) /\ want[m].date >= today}),
   completed |-> Cardinality({m \in Rows : IsActive(m) /\ want[m].date < today}),
   cancelled |-> Cardinality({m \in Rows : status[m] = "CANCELLED"})]

\* The newest PASSED runs, cut before they are filtered.
Newest(passed) == {r \in passed : Cardinality({s \in passed : s > r}) < Cut}

\* _filter_no_meeting_runs; their status is shown as completed.
FilteredRuns(f, passed) ==
  {r \in Newest(passed) :
     /\ f.text \in {Anything, DocOf[r].tool, DocOf[r].by} /\ f.tool \in {Anything, DocOf[r].tool}
     /\ f.from <= DocOf[r].date /\ DocOf[r].date <= f.to
     /\ f.status \in {Anything, "completed"} /\ "completed" \in f.column}

(***************************************************************************)
(* accounts/views.py: dashboard and dashboard_export.                      *)
(***************************************************************************)
\* Without reports.view a user sees the meetings he is scrum master of, unless
\* he asks for all of them.
Scope(v) == IF v.by \in Reporters \/ v.all THEN Anything ELSE v.by

Table(v, today) ==
  {[meeting |-> m, status |-> DisplayStatus(m, today)] :
     m \in FilteredBookings(v.filter, Scope(v), today)}

Page(v, today, passed) ==
  [table |-> Table(v, today), runs |-> FilteredRuns(v.filter, passed),
   cards |-> [BookingStats(today) EXCEPT !.total     = @ + Cardinality(passed),
                                         !.completed = @ + Cardinality(passed)]]

\* bookings_workbook: a row of each sheet for each row it is given.
Workbook(v, today, passed) ==
  [bookings |-> Table(v, today),
   noMeeting |-> {[run |-> r, status |-> "PASSED"] : r \in FilteredRuns(v.filter, passed)}]

(***************************************************************************)
(* Properties.                                                             *)
(***************************************************************************)
\* dashboard: the cards are computed from the rows by other definitions of
\* upcoming and completed than the table.  On a page without filters they add
\* up: each card counts the rows of that status and, for completed and total,
\* the doc-only runs, of which the second table lists the newest.
PageAddsUp ==
  \A p \in Reporters, today \in Days, passed \in SUBSET DocRuns :
    LET page     == Page([by |-> p, all |-> FALSE, filter |-> Unfiltered], today, passed)
        Shown(s) == Cardinality({row \in page.table : row.status = s})
        n        == Cardinality(passed)
    IN  /\ page.cards.upcoming  = Shown("scheduled")
        /\ page.cards.completed = Shown("completed") + n
        /\ page.cards.cancelled = Shown("cancelled")
        /\ page.cards.total     = Cardinality(page.table) + n
        /\ Cardinality(page.runs) = IF n < Cut THEN n ELSE Cut

\* dashboard_export: a user who is limited to his own meetings is given none of
\* which somebody else is the scrum master, whatever he filters by and also
\* where he attends in another role.
ScopedRowsAreTheirs ==
  \A v \in Views, today \in Days :
    Scope(v) # Anything =>
      \A row \in Workbook(v, today, {}).bookings : Attends(row.meeting, v.by, "SCRUM_MASTER")

\* filtered_bookings: whatever else is filtered by, and on any day, every
\* booking is found under exactly one of the statuses the page offers.
StatusFiltersPartition ==
  \A v \in Views, today \in Days :
    LET With(s) == FilteredBookings([v.filter EXCEPT !.status = s, !.column = Statuses],
                                    Scope(v), today)
    IN  \A m \in With(Anything) : Cardinality({s \in Statuses : m \in With(s)}) = 1
=============================================================================
