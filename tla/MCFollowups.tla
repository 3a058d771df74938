---------------------------- MODULE MCFollowups -----------------------------
(* Small instances of Followups for TLC. *)
EXTENDS Followups, TLC

CONSTANTS a1, a2, h1, h2

\* a1 was held on the first day, a2 a day later.
Held == [m \in Meetings |-> IF m = a1 THEN 0 ELSE 1]
=============================================================================
