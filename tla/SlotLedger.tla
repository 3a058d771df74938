----------------------------- MODULE SlotLedger -----------------------------
(***************************************************************************)
(* What the booking calendar promises, without its handlers: every place   *)
(* (a tool, a date and a slot) is free or held by one meeting, is taken    *)
(* only when free, and changes hands only by being released first.         *)
(***************************************************************************)
CONSTANTS Places, Meetings, Nobody

VARIABLE holder

Init == holder = [p \in Places |-> Nobody]

Take(p, m) ==
  /\ holder[p] = Nobody
  /\ \A q \in Places : holder[q] # m
  /\ holder' = [holder EXCEPT ![p] = m]

Release(p) ==
  /\ holder[p] # Nobody
  /\ holder' = [holder EXCEPT ![p] = Nobody]

Next == \E p \in Places : Release(p) \/ \E m \in Meetings : Take(p, m)

Spec == Init /\ [][Next]_holder
=============================================================================
