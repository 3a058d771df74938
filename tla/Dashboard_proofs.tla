-------------------------- MODULE Dashboard_proofs --------------------------
(***************************************************************************)
(* Proofs about Dashboard: what a page and a workbook show, in every       *)
(* reachable state of the bookings and for every table, filter and day.    *)
(* The rows of the first table are counted through the bijection with the  *)
(* bookings they show; that the second table is cut to the newest is an    *)
(* induction over the runs, made by taking a smallest counterexample.      *)
(***************************************************************************)
EXTENDS Dashboard, Booking_proofs, NumberSets

(***************************************************************************)
(* The scope and the statuses.                                             *)
(***************************************************************************)
\* Dashboard.ScopedRowsAreTheirs: a user limited to his own meetings is given
\* none of which somebody else is the scrum master.
THEOREM ScopeHolds == Spec => []ScopedRowsAreTheirs
<1>1. ScopedRowsAreTheirs
  <2>1. SUFFICES ASSUME NEW v \in Views, NEW today \in Days, Scope(v) # Anything,
                        NEW row \in Workbook(v, today, {}).bookings
                 PROVE  Attends(row.meeting, v.by, "SCRUM_MASTER")
    BY DEF ScopedRowsAreTheirs
  <2>2. Scope(v) = v.by
    BY <2>1 DEF Scope
  <2>3. PICK m \in FilteredBookings(v.filter, Scope(v), today) :
              row = [meeting |-> m, status |-> DisplayStatus(m, today)]
    BY DEF Workbook, Table
  <2>4. InScope(m, Scope(v))
    BY DEF FilteredBookings
  <2> QED BY <2>1, <2>2, <2>3, <2>4 DEF InScope
<1> QED BY <1>1, PTL

\* _display_status: every booking has one of the four statuses of the page.
LEMMA DisplayStatusTypes ==
  ASSUME NEW m, NEW today
  PROVE  DisplayStatus(m, today) \in Statuses
BY DEF DisplayStatus, Statuses

\* Dashboard.StatusFiltersPartition: whatever else is filtered by, every booking
\* is found under exactly one of the statuses the page offers.
THEOREM StatusesPartition == Spec => []StatusFiltersPartition
<1>1. StatusFiltersPartition
  <2> SUFFICES ASSUME NEW v \in Views, NEW today \in Days
               PROVE  LET With(s) == FilteredBookings([v.filter EXCEPT !.status = s,
                                                                       !.column = Statuses],
                                                      Scope(v), today)
                      IN  \A m \in With(Anything) :
                            Cardinality({s \in Statuses : m \in With(s)}) = 1
    BY DEF StatusFiltersPartition
  <2> DEFINE With(s) == FilteredBookings([v.filter EXCEPT !.status = s, !.column = Statuses],
                                         Scope(v), today)
  <2> SUFFICES ASSUME NEW m \in With(Anything)
               PROVE  Cardinality({s \in Statuses : m \in With(s)}) = 1
    OBVIOUS
  <2>1. v.filter \in Filter
    BY ViewsAssumption DEF View
  <2>2. ASSUME NEW s \in Statuses
        PROVE  m \in With(s) <=> s = DisplayStatus(m, today)
    <3> DEFINE f == [v.filter EXCEPT !.status = s, !.column = Statuses]
               g == [v.filter EXCEPT !.status = Anything, !.column = Statuses]
    <3>1. /\ f.text = g.text /\ f.tool = g.tool /\ f.from = g.from /\ f.to = g.to
          /\ f.column = Statuses /\ f.status = s
      BY <2>1 DEF Filter
    <3>2. s # Anything
      BY <2>2 DEF Statuses, Anything
    <3> HIDE DEF f, g
    <3>3. m \in FilteredBookings(g, Scope(v), today)
      BY DEF g
    <3>4. m \in FilteredBookings(f, Scope(v), today) <=> s = DisplayStatus(m, today)
      BY <3>1, <3>2, <3>3 DEF FilteredBookings
    <3> QED BY <3>4 DEF f
  <2>3. {s \in Statuses : m \in With(s)} = {DisplayStatus(m, today)}
    BY <2>2, DisplayStatusTypes
  <2> QED BY <2>3, FS_Singleton
<1> QED BY <1>1, PTL

(***************************************************************************)
(* The first table.                                                        *)
(***************************************************************************)
\* Without filters, for a user with reports.view, the table shows every booking.
LEMMA UnfilteredShowsAll ==
  ASSUME TypeOK, NEW today \in Days
  PROVE  FilteredBookings(Unfiltered, Anything, today) = Rows
<1> SUFFICES ASSUME NEW m \in Rows
             PROVE  m \in FilteredBookings(Unfiltered, Anything, today)
  BY DEF FilteredBookings
<1>1. m \in Meetings /\ want[m].date \in Dates
  BY DEF Rows, TypeOK
<1>2. \E d \in Dates : \A e \in Dates : d <= e
  BY <1>1, HasLeast, ViewsAssumption
<1>3. \E d \in Dates : \A e \in Dates : d >= e
  BY <1>1, HasGreatest, ViewsAssumption, TablesAssumption
<1>4. Unfiltered.from <= want[m].date /\ want[m].date <= Unfiltered.to
  BY <1>1, <1>2, <1>3, ViewsAssumption DEF Unfiltered
<1> QED BY <1>4 DEF FilteredBookings, Searched, InScope, Unfiltered

\* A set of bookings and the rows that show them are of one size.
LEMMA RowsCounted ==
  ASSUME NEW S, IsFiniteSet(S), NEW today
  PROVE  LET shown == {[meeting |-> m, status |-> DisplayStatus(m, today)] : m \in S}
         IN  IsFiniteSet(shown) /\ Cardinality(shown) = Cardinality(S)
<1> DEFINE row(m) == [meeting |-> m, status |-> DisplayStatus(m, today)]
           shown  == {row(m) : m \in S}
           f      == [m \in S |-> row(m)]
<1>1. \A m \in S : row(m).meeting = m
  OBVIOUS
<1> HIDE DEF row
<1>2. f \in Injection(S, shown)
  BY <1>1 DEF Injection, IsInjective
<1>3. f \in Surjection(S, shown)
  BY DEF Surjection
<1>4. ExistsBijection(S, shown)
  BY <1>2, <1>3 DEF ExistsBijection, Bijection
<1>5. IsFiniteSet(shown) /\ Cardinality(shown) = Cardinality(S)
  BY <1>4, FS_Bijection
<1> QED BY <1>5 DEF row

(***************************************************************************)
(* The second table, and the cards.                                        *)
(***************************************************************************)
CutTo(n) == IF n < Cut THEN n ELSE Cut

\* What the oldest of some runs adds to the newest of them.
LEMMA NewestWithout ==
  ASSUME NEW S, S \subseteq DocRuns, NEW x \in S, \A y \in S : x <= y
  PROVE  Newest(S) = Newest(S \ {x}) \union IF Cardinality(S \ {x}) < Cut THEN {x} ELSE {}
<1> DEFINE T == S \ {x}
<1>1. S \subseteq Nat
  BY DocRunsAssumption
<1>2. {s \in S : s > x} = T
  <2>1. \A s \in S : s > x <=> s # x
    BY <1>1
  <2> QED BY <2>1
<1>3. \A r \in T : {s \in S : s > r} = {s \in T : s > r}
  BY <1>1
<1>4. \A r \in S : r \in Newest(S) <=> Cardinality({s \in S : s > r}) < Cut
  BY DEF Newest
<1>5. \A r \in T : r \in Newest(T) <=> Cardinality({s \in T : s > r}) < Cut
  BY DEF Newest
<1>6. Newest(S) \subseteq S /\ Newest(T) \subseteq T
  BY DEF Newest
<1>7. x \in Newest(S) <=> Cardinality(T) < Cut
  BY <1>2, <1>4
<1>8. \A r \in T : r \in Newest(S) <=> r \in Newest(T)
  BY <1>3, <1>4, <1>5
<1> QED BY <1>6, <1>7, <1>8

\* The page lists every run, or as many as it reads.
LEMMA NewestCounted ==
  ASSUME NEW passed \in SUBSET DocRuns
  PROVE  Cardinality(Newest(passed)) = CutTo(Cardinality(passed))
<1> DEFINE Bad   == {S \in SUBSET DocRuns : Cardinality(Newest(S)) # CutTo(Cardinality(S))}
           Sizes == {Cardinality(S) : S \in Bad}
<1>0. \A S \in SUBSET DocRuns : IsFiniteSet(S) /\ Cardinality(S) \in Nat
  BY DocRunsAssumption, FS_Subset, FS_CardinalityType
<1> SUFFICES ASSUME passed \in Bad
             PROVE  FALSE
  OBVIOUS
<1>1. Sizes \subseteq Nat /\ Sizes # {}
  BY <1>0
<1>2. PICK n \in Sizes : \A k \in Sizes : n <= k
  <2> HIDE DEF Sizes
  <2> QED BY <1>1, HasLeast
<1>3. PICK S \in Bad : n = Cardinality(S)
  OBVIOUS
<1>4. S \subseteq DocRuns /\ S \subseteq Nat /\ IsFiniteSet(S) /\ n \in Nat
  BY <1>0, <1>3, DocRunsAssumption
<1>5. S # {}
  <2> SUFFICES ASSUME S = {}
               PROVE  FALSE
    OBVIOUS
  <2>1. Newest(S) = {} /\ Cardinality({}) = 0
    BY FS_EmptySet DEF Newest
  <2> QED BY <1>3, <2>1, DocRunsAssumption DEF CutTo
<1>6. PICK x \in S : \A y \in S : x <= y
  BY <1>4, <1>5, HasLeast
<1> DEFINE T == S \ {x}
<1>7. T \in SUBSET DocRuns /\ Cardinality(T) = n - 1 /\ Cardinality(T) \in Nat
  BY <1>0, <1>3, <1>4, <1>6, FS_RemoveElement
<1>8. Cardinality(Newest(T)) = CutTo(Cardinality(T))
  <2> SUFFICES ASSUME T \in Bad
               PROVE  FALSE
    BY <1>7
  <2>1. n <= Cardinality(T)
    <3>1. Cardinality(T) \in Sizes
      OBVIOUS
    <3> HIDE DEF Sizes, T
    <3> QED BY <1>2, <3>1
  <2> QED BY <1>4, <1>7, <2>1
<1>9. Newest(S) = Newest(T) \union IF Cardinality(T) < Cut THEN {x} ELSE {}
  BY <1>4, <1>6, NewestWithout
<1>10. IsFiniteSet(Newest(T)) /\ x \notin Newest(T)
  BY <1>0, <1>7, FS_Subset DEF Newest
<1>11. Cardinality(Newest(S)) =
         IF Cardinality(T) < Cut THEN Cardinality(Newest(T)) + 1 ELSE Cardinality(Newest(T))
  <2> HIDE DEF T
  <2> QED BY <1>9, <1>10, FS_AddElement
<1>12. Cardinality(Newest(S)) = CutTo(n)
  <2> HIDE DEF T
  <2> QED BY <1>4, <1>7, <1>8, <1>11, DocRunsAssumption DEF CutTo
<1> QED BY <1>3, <1>12

\* The statuses of a page tell the bookings apart as the cards do.
LEMMA StatusesTellApart ==
  ASSUME TypeOK, NEW today \in Days, NEW m \in Rows
  PROVE  /\ DisplayStatus(m, today) = "scheduled" <=> IsActive(m) /\ want[m].date >= today
         /\ DisplayStatus(m, today) = "completed" <=> IsActive(m) /\ want[m].date < today
         /\ DisplayStatus(m, today) = "cancelled" <=> status[m] = "CANCELLED"
<1>1. m \in Meetings /\ want[m].date \in Nat /\ today \in Nat
  BY ViewsAssumption DEF Rows, TypeOK
<1>2. status[m] \in {"PENDING", "REQUESTED", "CANCELLED", "FAILED"}
  BY <1>1 DEF Rows, TypeOK, MeetingStatus
<1> QED BY <1>1, <1>2 DEF DisplayStatus, IsActive, Active

\* Dashboard.PageAddsUp: on a page without filters the cards, which are computed
\* by other definitions than the tables, count what the tables show, and the
\* second table lists as many doc-only runs as the page reads.
THEOREM CardsAddUp == Spec => []PageAddsUp
<1>1. TypeOK => PageAddsUp
  <2> SUFFICES ASSUME TypeOK, NEW p \in Reporters, NEW today \in Days,
                      NEW passed \in SUBSET DocRuns
               PROVE  LET page     == Page([by |-> p, all |-> FALSE, filter |-> Unfiltered],
                                           today, passed)
                          Shown(s) == Cardinality({row \in page.table : row.status = s})
                          n        == Cardinality(passed)
                      IN  /\ page.cards.upcoming  = Shown("scheduled")
                          /\ page.cards.completed = Shown("completed") + n
                          /\ page.cards.cancelled = Shown("cancelled")
                          /\ page.cards.total     = Cardinality(page.table) + n
                          /\ Cardinality(page.runs) = IF n < Cut THEN n ELSE Cut
    BY DEF PageAddsUp
  <2> DEFINE v        == [by |-> p, all |-> FALSE, filter |-> Unfiltered]
             page     == Page(v, today, passed)
             n        == Cardinality(passed)
             Of(s)    == {m \in Rows : DisplayStatus(m, today) = s}
             Shown(s) == Cardinality({row \in page.table : row.status = s})
             Seen(m)  == [meeting |-> m, status |-> DisplayStatus(m, today)]
  <2>1. v.by = p /\ v.filter = Unfiltered /\ Scope(v) = Anything
    BY DEF Scope
  <2>2. page.table = {Seen(m) : m \in Rows}
    <3>1. page.table = Table(v, today)
      BY DEF Page
    <3> HIDE DEF v, page
    <3> QED BY <2>1, <3>1, UnfilteredShowsAll DEF Table
  <2>3. IsFiniteSet(Rows)
    BY TablesAssumption, FS_Subset DEF Rows
  <2>4. Cardinality(page.table) = Cardinality(Rows)
    BY <2>2, <2>3, RowsCounted
  <2>5. ASSUME NEW s
        PROVE  Shown(s) = Cardinality(Of(s))
    <3>1. {row \in page.table : row.status = s} = {Seen(m) : m \in Of(s)}
      <4> HIDE DEF page
      <4> QED BY <2>2
    <3>2. IsFiniteSet(Of(s))
      BY <2>3, FS_Subset
    <3> HIDE DEF page, Of
    <3> QED BY <3>1, <3>2, RowsCounted
  <2>6. /\ BookingStats(today).upcoming = Cardinality(Of("scheduled"))
        /\ BookingStats(today).completed = Cardinality(Of("completed"))
        /\ BookingStats(today).cancelled = Cardinality(Of("cancelled"))
        /\ BookingStats(today).total = Cardinality(Rows)
    <3>1. /\ {m \in Rows : IsActive(m) /\ want[m].date >= today} = Of("scheduled")
          /\ {m \in Rows : IsActive(m) /\ want[m].date < today} = Of("completed")
          /\ {m \in Rows : status[m] = "CANCELLED"} = Of("cancelled")
      BY StatusesTellApart
    <3> HIDE DEF Of
    <3> QED BY <3>1 DEF BookingStats
  <2>7. /\ page.cards.upcoming  = BookingStats(today).upcoming
        /\ page.cards.completed = BookingStats(today).completed + n
        /\ page.cards.cancelled = BookingStats(today).cancelled
        /\ page.cards.total     = BookingStats(today).total + n
    BY DEF Page, BookingStats
  <2>8. page.runs = Newest(passed)
    <3>1. page.runs = FilteredRuns(Unfiltered, passed)
      BY DEF Page
    <3>2. ASSUME NEW r \in Newest(passed)
          PROVE  Unfiltered.from <= DocOf[r].date /\ DocOf[r].date <= Unfiltered.to
      <4>1. DocOf[r].date \in Dates
        BY <3>2, DocRunsAssumption DEF Newest
      <4>2. \E d \in Dates : \A e \in Dates : d <= e
        BY <4>1, HasLeast, ViewsAssumption
      <4>3. \E d \in Dates : \A e \in Dates : d >= e
        BY <4>1, HasGreatest, ViewsAssumption, TablesAssumption
      <4> QED BY <4>1, <4>2, <4>3, ViewsAssumption DEF Unfiltered
    <3>3. /\ Unfiltered.text = Anything /\ Unfiltered.tool = Anything
          /\ Unfiltered.status = Anything /\ "completed" \in Unfiltered.column
      BY DEF Unfiltered, Statuses
    <3> QED BY <3>1, <3>2, <3>3 DEF FilteredRuns
  <2>9. Cardinality(page.runs) = IF n < Cut THEN n ELSE Cut
    BY <2>8, NewestCounted DEF CutTo
  <2> HIDE DEF v, page, Of, Shown
  <2>10. /\ page.cards.upcoming  = Shown("scheduled")
         /\ page.cards.completed = Shown("completed") + n
         /\ page.cards.cancelled = Shown("cancelled")
         /\ page.cards.total     = Cardinality(page.table) + n
    BY <2>4, <2>5, <2>6, <2>7
  <2> QED BY <2>9, <2>10 DEF v, page, Shown
<1> QED BY <1>1, TypeCorrect, PTL
=============================================================================
