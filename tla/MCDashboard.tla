---------------------------- MODULE MCDashboard -----------------------------
(* The instance of MCBooking with a dashboard. *)
EXTENDS MCBooking, Dashboard

CONSTANTS ann, bob

\* bob is the scrum master of the meetings of v2 and attends those of v1.
Invited == [v \in Runs |-> IF v = v1 THEN {<<ann, "SCRUM_MASTER">>, <<bob, "DEVELOPER">>}
                           ELSE {<<bob, "SCRUM_MASTER">>, <<ann, "CC">>}]

\* ann has reports.view; bob looks at his meetings, at his meetings with ann, at
\* those of the second day on one tool, and at all.
Requested ==
  {[by |-> ann, all |-> FALSE, filter |-> Unfiltered]}
  \union {[by |-> bob, all |-> FALSE, filter |-> f] :
            f \in {Unfiltered, [Unfiltered EXCEPT !.text = ann],
                   [Unfiltered EXCEPT !.from = 2, !.tool = ee]}}
  \union {[by |-> bob, all |-> TRUE, filter |-> [Unfiltered EXCEPT !.text = bob, !.to = 1]]}
DocOnly == [r \in DocRuns |-> [tool |-> rpa, date |-> 1, by |-> ann]]
=============================================================================
