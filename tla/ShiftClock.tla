----------------------------- MODULE ShiftClock -----------------------------
(***************************************************************************)
(* The times of one shift of the rota planner: recording lateness moves    *)
(* its start, overtime and an early finish move its end, on a clock that   *)
(* wraps at midnight, and hours are always derived from the two times that *)
(* result (frontend/lib/rota-shifts-utils.ts and the attendance and        *)
(* adjustment dialogs of components/rota/rota-calendar-client.tsx).        *)
(*                                                                         *)
(* Where a shift sits and which slot an answer reaches is RotaGrid's.      *)
(***************************************************************************)
EXTENDS Integers

CONSTANTS
  DayLen,   \* 24 * 60 in the code: times are 0 .. DayLen - 1
  Breaks,   \* bound: the break lengths a shift may have
  MaxLate,  \* bound: the longest lateness typed in
  Agreed    \* the hours agreed for a paid cancellation

ASSUME ClockAssumption ==
  /\ DayLen \in Nat \ {0, 1}
  /\ Breaks \subseteq Nat
  /\ MaxLate \in 1 .. DayLen - 1
  /\ Agreed \in Nat

VARIABLES
  shift,   \* start, end, scheduledStart, scheduledEnd, break and adjustments
  status,  \* the attendance recorded, if any
  plan,    \* ghost: the start and end the user last typed
  lateBy,  \* ghost: the lateness the start carries
  until,   \* ghost: how long after the planned start the shift ends
  mixed    \* ghost: times were typed over while lateness or an adjustment was recorded

clockVars == <<shift, status, plan, lateBy, until, mixed>>

Times == 0 .. DayLen - 1
Unset == -1
AdjustmentKinds == {"overtime", "early_finish"}
Worked == {"on_time", "late"}
Unworked == {"absent", "no_show", "cancelled", "cancelled_paid"}
NoShift == [start |-> Unset]
Shift == [start : Times, end : Times, scheduledStart : Times \cup {Unset},
          scheduledEnd : Times \cup {Unset}, brk : Breaks, adjustments : SUBSET AdjustmentKinds]

Larger(a, b) == IF a > b THEN a ELSE b

----------------------------------------------------------------------------
(* Arithmetic of the clock.                                                *)

MinutesBetween(from, to) == (to - from) % DayLen

\* A scheduled end that equals the start is a whole day.
ElapsedFromStart(start, t, fullDayOnZero) ==
  LET d == MinutesBetween(start, t) IN IF d = 0 /\ fullDayOnZero THEN DayLen ELSE d

\* Mutant: the clock runs past midnight.
AddMinutes_Past(t, mins) == t + mins

AddMinutes(t, mins) == (t + mins) % DayLen

CalcHours(s) ==
  LET span == s.end - s.start
  IN Larger(0, (IF span <= 0 THEN span + DayLen ELSE span) - s.brk)

\* The hours of the totals, and those of the payroll lines saved with the plan.
CountedHours(s, st) ==
  IF st = "cancelled_paid" THEN Agreed ELSE IF st \in Unworked THEN 0 ELSE CalcHours(s)

PayableHours(s, st) ==
  IF st = "cancelled_paid" THEN Agreed ELSE IF st \in Worked THEN CalcHours(s) ELSE 0

\* x if it is set, the current time otherwise (scheduledStart || start).
Or(x, current) == IF x = Unset THEN current ELSE x

ScheduledStart(s) == Or(s.scheduledStart, s.start)
ScheduledEnd(s) == Or(s.scheduledEnd, s.end)

----------------------------------------------------------------------------
(* Operations.                                                             *)

Type(start, end, brk) ==
  /\ shift = NoShift
  /\ shift' = [start |-> start, end |-> end, scheduledStart |-> Unset,
               scheduledEnd |-> Unset, brk |-> brk, adjustments |-> {}]
  /\ plan' = [start |-> start, end |-> end]
  /\ until' = ElapsedFromStart(start, end, TRUE)
  /\ UNCHANGED <<status, lateBy, mixed>>

\* The shift dialog replaces the times and keeps the rest of the shift, what
\* lateness and adjustments left in it too: then it is no longer told which of its
\* times were typed.
EditTimes(start, end, brk) ==
  LET retyped == <<start, end>> # <<shift.start, shift.end>> IN
  /\ shift # NoShift
  /\ shift' = [shift EXCEPT !.start = start, !.end = end, !.brk = brk]
  /\ \/ ~retyped /\ UNCHANGED <<plan, lateBy, until, mixed>>
     \/ /\ retyped /\ shift.scheduledStart = Unset /\ shift.adjustments = {}
        /\ plan' = [start |-> start, end |-> end]
        /\ until' = ElapsedFromStart(start, end, TRUE)
        /\ UNCHANGED <<lateBy, mixed>>
     \/ /\ retyped /\ (shift.scheduledStart # Unset \/ shift.adjustments # {})
        /\ mixed' = TRUE /\ plan' = NoShift /\ until' = 0 /\ lateBy' = 0
  /\ UNCHANGED status

\* Mutant: lateness is added to a start that already carries it.
Late_Again(s, mins) ==
  [s EXCEPT !.scheduledStart = ScheduledStart(s), !.start = AddMinutes(@, mins)]

Late(s, mins) ==
  [s EXCEPT !.scheduledStart = ScheduledStart(s), !.start = AddMinutes(ScheduledStart(s), mins)]

\* Late by nothing changes no time; any other status takes lateness back.  The server
\* may refuse the record of a published shift, whose times are changed by then.
SaveAttendance(st, mins) ==
  /\ shift # NoShift
  /\ status' \in {st, status}
  /\ \/ /\ st = "late" /\ mins > 0
        /\ shift' = Late(shift, mins)
        /\ lateBy' = mins
     \/ /\ st # "late" /\ shift.scheduledStart # Unset
        /\ shift' = [shift EXCEPT !.start = shift.scheduledStart, !.scheduledStart = Unset]
        /\ lateBy' = 0
     \/ /\ IF st = "late" THEN mins = 0 ELSE shift.scheduledStart = Unset
        /\ UNCHANGED <<shift, lateBy>>
  /\ UNCHANGED <<plan, until, mixed>>

\* The record goes; a start moved by lateness stays where it is.
ClearAttendance ==
  /\ status # "none"
  /\ status' = "none"
  /\ UNCHANGED <<shift, plan, lateBy, until, mixed>>

Adjusted(s, kind, actualEnd) ==
  [s EXCEPT !.scheduledEnd = ScheduledEnd(s), !.end = actualEnd, !.adjustments = @ \cup {kind}]

Adjust(kind, actualEnd) ==
  /\ shift' = Adjusted(shift, kind, actualEnd)
  /\ until' = ElapsedFromStart(plan.start, actualEnd, TRUE)
  /\ UNCHANGED <<status, plan, lateBy, mixed>>

SaveOvertime(newEnd) ==
  LET start == ScheduledStart(shift) IN
  /\ shift # NoShift
  /\ "early_finish" \notin shift.adjustments
  /\ ElapsedFromStart(start, newEnd, FALSE) > ElapsedFromStart(start, ScheduledEnd(shift), TRUE)
  /\ Adjust("overtime", newEnd)

SaveEarlyFinish(actualEnd) ==
  LET start == ScheduledStart(shift)
      elapsed == ElapsedFromStart(start, actualEnd, FALSE) IN
  /\ shift # NoShift
  /\ "overtime" \notin shift.adjustments
  /\ elapsed # 0
  /\ elapsed < ElapsedFromStart(start, ScheduledEnd(shift), TRUE)
  /\ Adjust("early_finish", actualEnd)

\* Mutant: the end stays where the adjustment put it.
RemoveAdjustment_Stays(kind) ==
  /\ shift # NoShift /\ kind \in shift.adjustments
  /\ shift' = [shift EXCEPT !.adjustments = @ \ {kind}, !.scheduledEnd = Unset]
  /\ until' = ElapsedFromStart(plan.start, plan.end, TRUE)
  /\ UNCHANGED <<status, plan, lateBy, mixed>>

\* No other kind is recorded on the shift, so none remains and the scheduled end
\* goes with it.
RemoveAdjustment(kind) ==
  /\ shift # NoShift /\ kind \in shift.adjustments
  /\ shift' = [shift EXCEPT !.end = ScheduledEnd(shift), !.adjustments = @ \ {kind},
                 !.scheduledEnd = IF shift.adjustments = {kind} THEN Unset ELSE @]
  /\ until' = ElapsedFromStart(plan.start, plan.end, TRUE)
  /\ UNCHANGED <<status, plan, lateBy, mixed>>

----------------------------------------------------------------------------
ClockInit ==
  /\ shift = NoShift
  /\ status = "none"
  /\ plan = NoShift
  /\ lateBy = 0
  /\ until = 0
  /\ mixed = FALSE

\* Behaviours are followed up to the first time typed over lateness or an adjustment.
ClockNext == ~mixed /\ (
  \/ \E s, e \in Times, b \in Breaks : Type(s, e, b) \/ EditTimes(s, e, b)
  \/ \E st \in Worked \cup Unworked, m \in 0 .. MaxLate : SaveAttendance(st, m)
  \/ ClearAttendance
  \/ \E t \in Times : SaveOvertime(t) \/ SaveEarlyFinish(t)
  \/ \E kind \in AdjustmentKinds : RemoveAdjustment(kind) )

ClockSpec == ClockInit /\ [][ClockNext]_clockVars

----------------------------------------------------------------------------
(* Properties.                                                             *)

ClockTypeOK ==
  /\ shift \in Shift \cup {NoShift}
  /\ status \in {"none"} \cup Worked \cup Unworked
  /\ lateBy \in 0 .. MaxLate /\ until \in 0 .. DayLen
  /\ mixed \in BOOLEAN

\* Whatever order lateness, overtime, an early finish and their removal were
\* recorded in, and across midnight, the hours counted and paid are the planned
\* start to the actual end, less the lateness and the break.  It takes a lateness
\* shorter than the shift and times not typed over meanwhile.
HoursAdd ==
  shift # NoShift /\ ~mixed /\ lateBy < until =>
    LET worked == Larger(0, until - lateBy - shift.brk) IN
    /\ status \in Worked \cup {"none"} => CountedHours(shift, status) = worked
    /\ PayableHours(shift, status) = (CASE status \in Worked -> worked
                                        [] status = "cancelled_paid" -> Agreed
                                        [] OTHER -> 0)

\* Taking back lateness and adjustments, in any order, leaves the times the user
\* typed; a scheduled end is kept exactly as long as an adjustment is.
TimesRestored ==
  shift # NoShift =>
    /\ ~mixed /\ lateBy = 0 => shift.start = plan.start /\ shift.scheduledStart = Unset
    /\ ~mixed /\ shift.adjustments = {} => shift.end = plan.end
    /\ (shift.scheduledEnd # Unset) <=> (shift.adjustments # {})

=============================================================================
