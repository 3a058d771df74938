---------------------------- MODULE Availability ----------------------------
(***************************************************************************)
(* The tool-exclusive calendar of EDCS-Gate (src/apps/scheduler/           *)
(* availability.py) as operators.  A day is a number.  booked is what      *)
(* booked_slot_ids returns for a tool and a date, open the active slots.   *)
(* A slot an administrator has deactivated keeps its bookings, so booked   *)
(* need not be a subset of open.                                           *)
(***************************************************************************)
EXTENDS Naturals

CONSTANTS
  Dates,          \* the days the calendar shows
  Slots,          \* ids of DailySlot rows
  Today,          \* date.today()
  Closed,         \* weekends, holidays and blocked dates
  MaxAdvanceDays  \* how far ahead a handover can be booked

ASSUME DatesAssumption == Dates \subseteq Nat /\ Today \in Nat /\ MaxAdvanceDays \in Nat

Blocked(d, open) ==
  \/ d < Today \/ d > Today + MaxAdvanceDays
  \/ d \in Closed
  \/ open = {}

\* Mutant of DateStatus: a day is full when its bookings are the active slots.
DateStatusWhenEqual(d, open, booked) ==
  IF Blocked(d, open) THEN "blocked"
  ELSE IF booked = open THEN "booked" ELSE "bookable"

DateStatus(d, open, booked) ==
  IF Blocked(d, open) THEN "blocked"
  ELSE IF open \subseteq booked THEN "booked" ELSE "bookable"

FreeSlots(d, open, booked) ==
  IF DateStatus(d, open, booked) = "blocked" THEN {} ELSE open \ booked

\* What book and reschedule_booking require of a requested date and slot.
Offered(d, s, open, booked) ==
  /\ s \in open
  /\ DateStatus(d, open, booked) = "bookable"
  /\ s \in FreeSlots(d, open, booked)
=============================================================================
