----------------------------- MODULE MCBooking ------------------------------
(* Small instances of Booking for TLC. *)
EXTENDS Booking, TLC

CONSTANTS m1, m2, m3, m4, h1, h2, v1, v2, j1, j2, rpa, ee, s1, s2

\* Runs of one JIRA, or of two; on one tool, or on two (a JIRA may be verified
\* again under another tool).
SameJira == [v \in Runs |-> j1]
TwoJiras == [v \in Runs |-> IF v = v1 THEN j1 ELSE j2]
SameTool == [v \in Runs |-> rpa]
TwoTools == [v \in Runs |-> IF v = v1 THEN rpa ELSE ee]

Anyone == Permutations(Meetings) \union Permutations(Handlers)
=============================================================================
