---------------------------- MODULE ShiftProofs ----------------------------
(***************************************************************************)
(* Proofs about the shifts of the calendar, one (ShiftClock) and many      *)
(* (ShiftConflicts), for a day of any length.                              *)
(*                                                                         *)
(* One, with any breaks and any lateness shorter than a day: what was      *)
(* typed comes back when lateness and adjustments are taken back           *)
(* (TimesRestored), and hours add up (HoursAdd).  These speak of the times *)
(* after everything was taken back, or of the hours alone.  Coupled        *)
(* strengthens them to every moment in between: what the shift keeps of    *)
(* the schedule is what was typed, and its times are the schedule's moved  *)
(* by the lateness and the adjustment.                                     *)
(*                                                                         *)
(* Many, in plans of any size: the two computations of clashing shifts     *)
(* agree, with each other and with the moments shifts share.               *)
(***************************************************************************)
EXTENDS ShiftClock, ShiftConflicts, SequenceTheorems, TLAPS

Plans == [start : Times, end : Times]

\* While no time was typed over lateness or an adjustment, the shift remembers the
\* plan, and its times are the plan's moved by what is recorded.
Coupled ==
  /\ plan \in Plans
  /\ (shift.scheduledStart = Unset) <=> (lateBy = 0)
  /\ ScheduledStart(shift) = plan.start
  /\ ScheduledEnd(shift) = plan.end
  /\ shift.start = AddMinutes(plan.start, lateBy)
  /\ until = ElapsedFromStart(plan.start, shift.end, TRUE)

\* A scheduled end is kept just as long as an adjustment is.
EndKept == (shift.scheduledEnd # Unset) <=> (shift.adjustments # {})

IInv ==
  /\ ClockTypeOK
  /\ shift = NoShift => lateBy = 0
  /\ shift # NoShift => EndKept
  /\ shift # NoShift /\ ~mixed => Coupled

----------------------------------------------------------------------------
(* The clock.                                                              *)

\* A remainder is smaller than the divisor.
LEMMA ModRange ==
  ASSUME NEW a \in Int, NEW n \in Nat \ {0}
  PROVE  a % n \in 0 .. n - 1
  BY SMT

\* Within one turn either way, the remainder is found by going one turn back.
LEMMA ModTurn ==
  ASSUME NEW n \in Nat \ {0}, NEW a \in 0 .. 2 * n - 1
  PROVE  a % n = IF a < n THEN a ELSE a - n
  BY SMT

LEMMA ModBelow ==
  ASSUME NEW n \in Nat \ {0}, NEW a \in 1 - n .. n - 1
  PROVE  a % n = IF a < 0 THEN a + n ELSE a
  BY SMT

\* A day has at least two moments, and lateness is shorter than a day.
LEMMA DayLonger ==
  /\ DayLen \in Nat \ {0}
  /\ MaxLate \in Nat /\ MaxLate < DayLen
  /\ 0 \in 0 .. MaxLate /\ 0 \in 0 .. DayLen
  /\ \A b \in Breaks : b \in Nat
  <1>1. DayLen \in Nat \ {0} /\ MaxLate \in 1 .. DayLen - 1 /\ Breaks \subseteq Nat
    BY ClockAssumption
  <1> QED BY <1>1, SMT

\* A time of day stays one, an elapsed time is at most a day.
LEMMA AddTyped ==
  ASSUME NEW t \in Times, NEW m \in 0 .. MaxLate
  PROVE  AddMinutes(t, m) \in Times
  <1>1. t + m \in Int
    BY DayLonger, SMT DEF Times
  <1>2. (t + m) % DayLen \in 0 .. DayLen - 1
    BY <1>1, DayLonger, ModRange
  <1> QED BY <1>2 DEF Times, AddMinutes

LEMMA ElapsedTyped ==
  ASSUME NEW t \in Times, NEW u \in Times
  PROVE  ElapsedFromStart(t, u, TRUE) \in 0 .. DayLen
  <1> DEFINE d == (u - t) % DayLen
  <1>1. u - t \in Int
    BY DayLonger, SMT DEF Times
  <1>2. d \in 0 .. DayLen - 1
    BY <1>1, DayLonger, ModRange
  <1>3. ElapsedFromStart(t, u, TRUE) = IF d = 0 THEN DayLen ELSE d
    BY DEF ElapsedFromStart, MinutesBetween
  <1> HIDE DEF d
  <1>4. (IF d = 0 THEN DayLen ELSE d) \in 0 .. DayLen
    BY <1>2, DayLonger, SMT
  <1> QED BY <1>3, <1>4

\* Late by nothing is the time itself.
LEMMA AddNothing ==
  ASSUME NEW t \in Times
  PROVE  AddMinutes(t, 0) = t
  BY DayLonger, ModTurn, SMT DEF AddMinutes, Times

\* A shift and the absence of one are told apart by their times.
LEMMA NoShiftIsNone ==
  /\ NoShift \notin Shift
  /\ Unset \notin Times
  BY ClockAssumption, SMT DEF NoShift, Shift, Times, Unset

\* The clock's arithmetic, with the turns written out: st is the start moved by l from
\* ps, and u the time from ps to e.
LEMMA SpanIsLeft ==
  ASSUME NEW D \in Nat \ {0}, NEW ps \in 0 .. D - 1, NEW e \in 0 .. D - 1,
         NEW l \in 0 .. D - 1, NEW st \in Int, NEW u \in Int,
         st = (IF ps + l < D THEN ps + l ELSE ps + l - D),
         u = (IF e <= ps THEN e - ps + D ELSE e - ps),
         l < u
  PROVE  (IF e - st <= 0 THEN e - st + D ELSE e - st) = u - l
  BY SMT

LEMMA AddTurns ==
  ASSUME NEW D \in Nat \ {0}, NEW ps \in 0 .. D - 1, NEW l \in 0 .. D - 1
  PROVE  (ps + l) % D = IF ps + l < D THEN ps + l ELSE ps + l - D
  BY SMT

LEMMA ElapsedTurns ==
  ASSUME NEW D \in Nat \ {0}, NEW ps \in 0 .. D - 1, NEW e \in 0 .. D - 1
  PROVE  (IF (e - ps) % D = 0 THEN D ELSE (e - ps) % D)
           = IF e <= ps THEN e - ps + D ELSE e - ps
  <1>1. (e - ps) % D = IF e - ps < 0 THEN e - ps + D ELSE e - ps
    <2>1. e - ps \in 1 - D .. D - 1
      BY SMT
    <2> QED BY <2>1, ModBelow
  <1> DEFINE d == (e - ps) % D
  <1> HIDE DEF d
  <1>2. d = IF e - ps < 0 THEN e - ps + D ELSE e - ps
    BY <1>1 DEF d
  <1>3. (IF d = 0 THEN D ELSE d) = IF e <= ps THEN e - ps + D ELSE e - ps
    BY <1>2, SMT
  <1> QED BY <1>3 DEF d

\* From the planned start to the actual end is the lateness and what the clock shows
\* between the times of the shift.
LEMMA HoursFromLateness ==
  ASSUME NEW s \in Shift, NEW ps \in Times, NEW l \in 0 .. MaxLate, NEW u \in 0 .. DayLen,
         s.start = AddMinutes(ps, l),
         u = (IF MinutesBetween(ps, s.end) = 0 THEN DayLen ELSE MinutesBetween(ps, s.end)),
         l < u
  PROVE  CalcHours(s) = Larger(0, u - l - s.brk)
  <1>1. /\ ps \in 0 .. DayLen - 1 /\ s.end \in 0 .. DayLen - 1
        /\ s.start \in Int /\ u \in Int
    BY DayLonger, SMT DEF Times, Shift
  <1>2. l \in 0 .. DayLen - 1
    BY DayLonger, SMT
  <1>3. s.start = IF ps + l < DayLen THEN ps + l ELSE ps + l - DayLen
    BY <1>1, <1>2, DayLonger, AddTurns DEF AddMinutes
  <1>4. u = IF s.end <= ps THEN s.end - ps + DayLen ELSE s.end - ps
    BY <1>1, DayLonger, ElapsedTurns DEF MinutesBetween
  <1>5. (IF s.end - s.start <= 0 THEN s.end - s.start + DayLen ELSE s.end - s.start) = u - l
    BY <1>1, <1>2, <1>3, <1>4, DayLonger, SpanIsLeft
  <1> QED BY <1>5 DEF CalcHours

----------------------------------------------------------------------------
(* The inductive invariant.                                                *)

LEMMA InitIInv == ClockInit => IInv
  <1> SUFFICES ASSUME ClockInit PROVE IInv
    OBVIOUS
  <1>1. ClockTypeOK
    BY DayLonger DEF ClockInit, ClockTypeOK
  <1> QED BY <1>1 DEF ClockInit, IInv

\* What a step on a shift that exists starts from.
LEMMA Recorded ==
  ASSUME IInv, ~mixed, shift # NoShift
  PROVE  /\ shift \in Shift /\ EndKept /\ Coupled
         /\ ScheduledStart(shift) \in Times /\ ScheduledEnd(shift) \in Times
         /\ plan.start \in Times /\ plan.end \in Times
         /\ lateBy \in 0 .. MaxLate
  <1>1. shift \in Shift /\ EndKept /\ Coupled /\ lateBy \in 0 .. MaxLate
    BY DEF IInv, ClockTypeOK
  <1> QED BY <1>1 DEF Coupled, Plans

\* What a step on it has to end in.
LEMMA Kept ==
  ASSUME shift' \in Shift, ClockTypeOK', EndKept', Coupled' \/ mixed'
  PROVE  IInv'
  <1>1. shift' # NoShift
    BY NoShiftIsNone
  <1> QED BY <1>1 DEF IInv, NoShift

LEMMA TypeStep ==
  ASSUME NEW start \in Times, NEW end \in Times, NEW brk \in Breaks,
         IInv, ~mixed, Type(start, end, brk)
  PROVE  IInv'
  <1>1. /\ shift' = [start |-> start, end |-> end, scheduledStart |-> Unset,
                     scheduledEnd |-> Unset, brk |-> brk, adjustments |-> {}]
        /\ plan' = [start |-> start, end |-> end]
        /\ until' = ElapsedFromStart(start, end, TRUE)
        /\ status' = status /\ mixed' = mixed
    BY DEF Type
  <1>2. lateBy = 0 /\ lateBy' = 0
    BY DEF IInv, Type
  <1>3. shift' \in Shift
    BY <1>1 DEF Shift
  <1>4. until' \in 0 .. DayLen
    BY <1>1, ElapsedTyped
  <1>5. ClockTypeOK'
    BY <1>1, <1>2, <1>3, <1>4, DayLonger DEF IInv, ClockTypeOK
  <1>6. EndKept'
    BY <1>1 DEF EndKept
  <1>7. Coupled'
    <2>1. plan' \in Plans
      BY <1>1 DEF Plans
    <2>2. ScheduledStart(shift') = start /\ ScheduledEnd(shift') = end
      BY <1>1 DEF ScheduledStart, ScheduledEnd, Or
    <2> QED BY <1>1, <1>2, <2>1, <2>2, AddNothing DEF Coupled
  <1> QED BY <1>3, <1>5, <1>6, <1>7, Kept

LEMMA EditStep ==
  ASSUME NEW start \in Times, NEW end \in Times, NEW brk \in Breaks,
         IInv, ~mixed, EditTimes(start, end, brk)
  PROVE  IInv'
  <1> DEFINE retyped == <<start, end>> # <<shift.start, shift.end>>
  <1>1. shift # NoShift /\ shift \in Shift /\ EndKept /\ Coupled /\ lateBy \in 0 .. MaxLate
    BY Recorded DEF EditTimes
  <1>2. /\ shift' = [shift EXCEPT !.start = start, !.end = end, !.brk = brk]
        /\ status' = status
    BY DEF EditTimes
  <1>3. /\ shift' \in Shift
        /\ shift'.start = start /\ shift'.end = end
        /\ shift'.scheduledStart = shift.scheduledStart
        /\ shift'.scheduledEnd = shift.scheduledEnd
        /\ shift'.adjustments = shift.adjustments
    BY <1>1, <1>2 DEF Shift
  <1>4. EndKept'
    BY <1>1, <1>3 DEF EndKept
  <1>5. CASE ~retyped
    <2>1. /\ plan' = plan /\ lateBy' = lateBy /\ until' = until /\ mixed' = mixed
          /\ shift'.start = shift.start /\ shift'.end = shift.end
      BY <1>3, <1>5 DEF EditTimes
    <2>2. ClockTypeOK'
      BY <1>2, <1>3, <2>1 DEF IInv, ClockTypeOK
    <2>3. Coupled'
      BY <1>1, <1>3, <2>1 DEF Coupled, ScheduledStart, ScheduledEnd, Or
    <2> QED BY <1>3, <1>4, <2>2, <2>3, Kept
  <1>6. CASE retyped /\ shift.scheduledStart = Unset /\ shift.adjustments = {}
    <2>1. /\ plan' = [start |-> start, end |-> end]
          /\ until' = ElapsedFromStart(start, end, TRUE)
          /\ lateBy' = lateBy /\ mixed' = mixed
      BY <1>6 DEF EditTimes
    <2>2. lateBy = 0 /\ shift.scheduledEnd = Unset
      BY <1>1, <1>6 DEF Coupled, EndKept
    <2>3. until' \in 0 .. DayLen
      BY <2>1, ElapsedTyped
    <2>4. ClockTypeOK'
      BY <1>2, <1>3, <2>1, <2>3 DEF IInv, ClockTypeOK
    <2>5. plan' \in Plans
      BY <2>1 DEF Plans
    <2>6. Coupled'
      BY <1>3, <1>6, <2>1, <2>2, <2>5, AddNothing DEF Coupled, ScheduledStart, ScheduledEnd, Or
    <2> QED BY <1>3, <1>4, <2>4, <2>6, Kept
  <1>7. CASE retyped /\ ~(shift.scheduledStart = Unset /\ shift.adjustments = {})
    <2>1. mixed' = TRUE /\ lateBy' = 0 /\ until' = 0
      BY <1>7 DEF EditTimes
    <2>2. ClockTypeOK'
      BY <1>2, <1>3, <2>1, DayLonger DEF IInv, ClockTypeOK
    <2> QED BY <1>3, <1>4, <2>1, <2>2, Kept
  <1> QED BY <1>5, <1>6, <1>7

LEMMA SaveAttendanceStep ==
  ASSUME NEW st \in Worked \cup Unworked, NEW mins \in 0 .. MaxLate,
         IInv, ~mixed, SaveAttendance(st, mins)
  PROVE  IInv'
  <1>1. /\ shift # NoShift /\ shift \in Shift /\ EndKept /\ Coupled /\ lateBy \in 0 .. MaxLate
        /\ ScheduledStart(shift) \in Times
        /\ plan.start \in Times
    BY Recorded DEF SaveAttendance
  <1>2. status' \in {st, status} /\ plan' = plan /\ until' = until /\ mixed' = mixed
    BY DEF SaveAttendance
  <1>3. CASE st = "late" /\ mins > 0
    <2>1. /\ lateBy' = mins
          /\ shift' = [shift EXCEPT !.scheduledStart = ScheduledStart(shift),
                                    !.start = AddMinutes(ScheduledStart(shift), mins)]
      BY <1>3, SMT DEF SaveAttendance, Late
    <2>2. AddMinutes(ScheduledStart(shift), mins) \in Times
      BY <1>1, AddTyped
    <2>3. /\ shift' \in Shift
          /\ shift'.start = AddMinutes(ScheduledStart(shift), mins)
          /\ shift'.scheduledStart = ScheduledStart(shift)
          /\ shift'.end = shift.end
          /\ shift'.scheduledEnd = shift.scheduledEnd
          /\ shift'.adjustments = shift.adjustments
      BY <1>1, <2>1, <2>2 DEF Shift
    <2>4. ClockTypeOK'
      BY <1>2, <2>1, <2>3 DEF IInv, ClockTypeOK
    <2>5. EndKept'
      BY <1>1, <2>3 DEF EndKept
    <2>6. shift'.scheduledStart # Unset /\ lateBy' # 0
      BY <1>1, <1>3, <2>1, <2>3, NoShiftIsNone, SMT
    <2>7. Coupled'
      BY <1>1, <1>2, <2>1, <2>3, <2>6 DEF Coupled, ScheduledStart, ScheduledEnd, Or
    <2> QED BY <2>3, <2>4, <2>5, <2>7, Kept
  <1>4. CASE st # "late" /\ shift.scheduledStart # Unset
    <2>1. /\ lateBy' = 0
          /\ shift' = [shift EXCEPT !.start = shift.scheduledStart, !.scheduledStart = Unset]
      BY <1>4 DEF SaveAttendance
    <2>2. shift.scheduledStart = plan.start
      BY <1>1, <1>4 DEF Coupled, ScheduledStart, Or
    <2>3. /\ shift' \in Shift
          /\ shift'.start = plan.start
          /\ shift'.scheduledStart = Unset
          /\ shift'.end = shift.end
          /\ shift'.scheduledEnd = shift.scheduledEnd
          /\ shift'.adjustments = shift.adjustments
      BY <1>1, <2>1, <2>2 DEF Shift
    <2>4. ClockTypeOK'
      BY <1>2, <2>1, <2>3, DayLonger DEF IInv, ClockTypeOK, Worked, Unworked
    <2>5. EndKept'
      BY <1>1, <2>3 DEF EndKept
    <2>6. Coupled'
      BY <1>1, <1>2, <2>1, <2>3, AddNothing DEF Coupled, ScheduledStart, ScheduledEnd, Or
    <2> QED BY <2>3, <2>4, <2>5, <2>6, Kept
  <1>5. CASE IF st = "late" THEN ~(mins > 0) ELSE shift.scheduledStart = Unset
    <2>1. shift' = shift /\ lateBy' = lateBy
      BY <1>5, SMT DEF SaveAttendance
    <2>2. ClockTypeOK'
      BY <1>2, <2>1 DEF IInv, ClockTypeOK
    <2>3. EndKept' /\ Coupled'
      BY <1>1, <1>2, <2>1 DEF EndKept, Coupled
    <2> QED BY <1>1, <2>1, <2>2, <2>3, Kept
  <1> QED BY <1>3, <1>4, <1>5

LEMMA ClearAttendanceStep ==
  ASSUME IInv, ~mixed, ClearAttendance
  PROVE  IInv'
  <1>1. /\ status' = "none"
        /\ shift' = shift /\ plan' = plan /\ lateBy' = lateBy /\ until' = until /\ mixed' = mixed
    BY DEF ClearAttendance
  <1>2. ClockTypeOK'
    BY <1>1 DEF IInv, ClockTypeOK
  <1> QED BY <1>1, <1>2 DEF IInv, EndKept, Coupled

\* Overtime and an early finish differ in their guards only.
LEMMA AdjustStep ==
  ASSUME NEW kind \in AdjustmentKinds, NEW t \in Times,
         IInv, ~mixed, shift # NoShift, Adjust(kind, t)
  PROVE  IInv'
  <1>1. /\ shift \in Shift /\ EndKept /\ Coupled
        /\ ScheduledEnd(shift) \in Times
        /\ plan.start \in Times
    BY Recorded
  <1>2. /\ shift' = [shift EXCEPT !.scheduledEnd = ScheduledEnd(shift), !.end = t,
                                  !.adjustments = @ \cup {kind}]
        /\ until' = ElapsedFromStart(plan.start, t, TRUE)
        /\ status' = status /\ plan' = plan /\ lateBy' = lateBy /\ mixed' = mixed
    BY DEF Adjust, Adjusted
  <1>3. /\ shift' \in Shift
        /\ shift'.start = shift.start
        /\ shift'.scheduledStart = shift.scheduledStart
        /\ shift'.end = t
        /\ shift'.scheduledEnd = ScheduledEnd(shift)
        /\ shift'.adjustments = shift.adjustments \cup {kind}
    BY <1>1, <1>2 DEF Shift
  <1>4. until' \in 0 .. DayLen
    BY <1>1, <1>2, ElapsedTyped
  <1>5. ClockTypeOK'
    BY <1>2, <1>3, <1>4 DEF IInv, ClockTypeOK
  <1>6. shift'.scheduledEnd # Unset
    BY <1>1, <1>3, NoShiftIsNone
  <1>7. EndKept'
    BY <1>3, <1>6 DEF EndKept
  <1>8. Coupled'
    BY <1>1, <1>2, <1>3, <1>6 DEF Coupled, ScheduledStart, ScheduledEnd, Or
  <1> QED BY <1>3, <1>5, <1>7, <1>8, Kept

LEMMA RemoveAdjustmentStep ==
  ASSUME NEW kind \in AdjustmentKinds, IInv, ~mixed, RemoveAdjustment(kind)
  PROVE  IInv'
  <1>1. /\ shift \in Shift /\ EndKept /\ Coupled
        /\ ScheduledEnd(shift) \in Times
        /\ plan.start \in Times /\ plan.end \in Times
        /\ kind \in shift.adjustments
    BY Recorded DEF RemoveAdjustment
  <1> DEFINE kept == IF shift.adjustments = {kind} THEN Unset ELSE shift.scheduledEnd
  <1>2. /\ shift' = [shift EXCEPT !.end = ScheduledEnd(shift), !.adjustments = @ \ {kind},
                                  !.scheduledEnd = kept]
        /\ until' = ElapsedFromStart(plan.start, plan.end, TRUE)
        /\ status' = status /\ plan' = plan /\ lateBy' = lateBy /\ mixed' = mixed
    BY DEF RemoveAdjustment
  <1>3. /\ shift' \in Shift
        /\ shift'.start = shift.start
        /\ shift'.scheduledStart = shift.scheduledStart
        /\ shift'.end = ScheduledEnd(shift)
        /\ shift'.scheduledEnd = kept
        /\ shift'.adjustments = shift.adjustments \ {kind}
    BY <1>1, <1>2 DEF Shift
  <1>4. until' \in 0 .. DayLen
    BY <1>1, <1>2, ElapsedTyped
  <1>5. ClockTypeOK'
    BY <1>2, <1>3, <1>4 DEF IInv, ClockTypeOK
  <1>6. EndKept'
    BY <1>1, <1>3 DEF EndKept
  <1>7. ScheduledEnd(shift) = plan.end
    BY <1>1 DEF Coupled
  <1>8. ScheduledEnd(shift') = plan.end
    BY <1>1, <1>3, <1>7 DEF ScheduledEnd, Or
  <1>9. Coupled'
    BY <1>1, <1>2, <1>3, <1>7, <1>8 DEF Coupled, ScheduledStart, Or
  <1> QED BY <1>3, <1>5, <1>6, <1>9, Kept

\* The inductive invariant holds in every state, whatever the length of the day, the
\* breaks and the lateness that can be typed.
THEOREM ClockInductive == ClockSpec => []IInv
  <1>1. ClockInit => IInv
    BY InitIInv
  <1>2. IInv /\ [ClockNext]_clockVars => IInv'
    <2> SUFFICES ASSUME IInv, [ClockNext]_clockVars PROVE IInv'
      OBVIOUS
    <2>1. CASE ClockNext
      <3>0. ~mixed
        BY <2>1 DEF ClockNext
      <3>1. ASSUME NEW s \in Times, NEW e \in Times, NEW b \in Breaks, Type(s, e, b) PROVE IInv'
        BY <3>0, <3>1, TypeStep
      <3>2. ASSUME NEW s \in Times, NEW e \in Times, NEW b \in Breaks, EditTimes(s, e, b) PROVE IInv'
        BY <3>0, <3>2, EditStep
      <3>3. ASSUME NEW st \in Worked \cup Unworked, NEW m \in 0 .. MaxLate, SaveAttendance(st, m)
            PROVE  IInv'
        BY <3>0, <3>3, SaveAttendanceStep
      <3>4. CASE ClearAttendance
        BY <3>0, <3>4, ClearAttendanceStep
      <3>5. ASSUME NEW t \in Times, SaveOvertime(t) PROVE IInv'
        BY <3>0, <3>5, AdjustStep DEF SaveOvertime, AdjustmentKinds
      <3>6. ASSUME NEW t \in Times, SaveEarlyFinish(t) PROVE IInv'
        BY <3>0, <3>6, AdjustStep DEF SaveEarlyFinish, AdjustmentKinds
      <3>7. ASSUME NEW kind \in AdjustmentKinds, RemoveAdjustment(kind) PROVE IInv'
        BY <3>0, <3>7, RemoveAdjustmentStep
      <3> QED BY <2>1, <3>1, <3>2, <3>3, <3>4, <3>5, <3>6, <3>7 DEF ClockNext
    <2>2. CASE UNCHANGED clockVars
      BY <2>2 DEF clockVars, IInv, ClockTypeOK, EndKept, Coupled
    <2> QED BY <2>1, <2>2
  <1> QED BY <1>1, <1>2, PTL DEF ClockSpec

\* The types of the clock's variables, lateness and elapsed times included.
THEOREM ClockTyping == ClockSpec => []ClockTypeOK
  <1>1. IInv => ClockTypeOK
    BY DEF IInv
  <1> QED BY <1>1, ClockInductive, PTL

\* Taking back lateness and adjustments, in any order and across midnight, leaves the
\* times that were typed (removeShiftAdjustment, saveAtt).
THEOREM TypedTimesComeBack == ClockSpec => []TimesRestored
  <1>1. IInv => TimesRestored
    <2> SUFFICES ASSUME IInv, shift # NoShift
                 PROVE  /\ ~mixed /\ lateBy = 0 =>
                             shift.start = plan.start /\ shift.scheduledStart = Unset
                        /\ ~mixed /\ shift.adjustments = {} => shift.end = plan.end
                        /\ EndKept
      BY DEF TimesRestored, EndKept
    <2>1. EndKept
      BY DEF IInv
    <2>2. ASSUME ~mixed, lateBy = 0
          PROVE  shift.start = plan.start /\ shift.scheduledStart = Unset
      BY <2>2 DEF IInv, Coupled, ScheduledStart, Or
    <2>3. ASSUME ~mixed, shift.adjustments = {} PROVE shift.end = plan.end
      BY <2>1, <2>3 DEF IInv, Coupled, EndKept, ScheduledEnd, Or
    <2> QED BY <2>1, <2>2, <2>3
  <1> QED BY <1>1, ClockInductive, PTL

\* Hours counted and paid are the planned start to the actual end less lateness and
\* break, on every clock (calcHours, countedHoursForAttendance).
THEOREM HoursAlwaysAdd == ClockSpec => []HoursAdd
  <1>1. IInv => HoursAdd
    <2> SUFFICES ASSUME IInv, shift # NoShift, ~mixed, lateBy < until
                 PROVE  LET worked == Larger(0, until - lateBy - shift.brk) IN
                        /\ status \in Worked \cup {"none"} => CountedHours(shift, status) = worked
                        /\ PayableHours(shift, status) = (CASE status \in Worked -> worked
                                                            [] status = "cancelled_paid" -> Agreed
                                                            [] OTHER -> 0)
      BY DEF HoursAdd
    <2>1. /\ shift \in Shift /\ Coupled
          /\ plan.start \in Times
          /\ lateBy \in 0 .. MaxLate
      BY Recorded
    <2>2. until \in 0 .. DayLen
      BY DEF IInv, ClockTypeOK
    <2>3. until = IF MinutesBetween(plan.start, shift.end) = 0
                    THEN DayLen ELSE MinutesBetween(plan.start, shift.end)
      BY <2>1 DEF Coupled, ElapsedFromStart
    <2>4. CalcHours(shift) = Larger(0, until - lateBy - shift.brk)
      BY <2>1, <2>2, <2>3, HoursFromLateness DEF Coupled
    <2> QED BY <2>4 DEF CountedHours, PayableHours, Worked, Unworked
  <1> QED BY <1>1, ClockInductive, PTL

-----------------------------------------------------------------------------
\* Shifts that clash.

\* The plan has a list of shifts for every day.
BookOK == book \in [Days -> Seq(Shifts)]

ConflictsInv == BookOK /\ WarnedIsMarked

-----------------------------------------------------------------------------
\* Moments.

\* The clash of two ranges of integers, end points included, is a common point.
LEMMA RangesMeet ==
  ASSUME NEW a \in Int, NEW b \in Int, NEW c \in Int, NEW d \in Int, a <= b, c <= d
  PROVE  (a <= d /\ c <= b) <=> (a .. b) \cap (c .. d) # {}
<1>1. ASSUME a <= d, c <= b
      PROVE  (a .. b) \cap (c .. d) # {}
  <2>1. a \in (a .. b) \cap (c .. d) \/ c \in (a .. b) \cap (c .. d)
    BY <1>1
  <2>2. QED
    BY <2>1
<1>2. ASSUME NEW x \in (a .. b) \cap (c .. d)
      PROVE  a <= d /\ c <= b
  OBVIOUS
<1>3. QED
  BY <1>1, <1>2

\* The moments of a shift that was filled in are those of its absolute range: the
\* remainder turns an overnight shift's end into the next day's.
LEMMA MomentsAreRange ==
  ASSUME DayMinutes \in Nat, NEW d \in Days, NEW sh \in Shifts, sh.start # sh.end
  PROVE  LET range == AbsoluteRange(d, sh)
         IN  /\ range.from \in Int /\ range.to \in Int /\ range.from <= range.to
             /\ Moments(d, sh) = range.from .. range.to
<1> DEFINE from == d * DayMinutes + sh.start
           span == (sh.end - sh.start) % DayMinutes
<1>1. /\ DayMinutes \in Nat \ {0} /\ d * DayMinutes \in Int
      /\ sh.start \in 0 .. DayMinutes - 1 /\ sh.end \in 0 .. DayMinutes - 1
  BY DEF Shifts, Minutes, Days
<1>2. span = IF sh.end - sh.start < 0 THEN sh.end - sh.start + DayMinutes ELSE sh.end - sh.start
  <2>1. ASSUME NEW n \in Nat \ {0}, NEW a \in 1 - n .. n - 1
        PROVE  a % n = IF a < 0 THEN a + n ELSE a
    BY SMT
  <2>2. sh.end - sh.start \in 1 - DayMinutes .. DayMinutes - 1
    BY <1>1
  <2>3. QED
    BY <1>1, <2>1, <2>2
<1>3. span \in Nat /\ AbsoluteRange(d, sh) = [from |-> from, to |-> from + span]
  <2>1. span \in Nat
    BY <1>1, <1>2
  <2>2. PICK m \in Int : m = d * DayMinutes
    BY <1>1
  <2>3. (IF m + sh.end <= m + sh.start THEN m + sh.end + DayMinutes ELSE m + sh.end)
          = m + sh.start + span
    <3> HIDE DEF from, span
    <3>1. CASE sh.end < sh.start
      <4>1. span = sh.end - sh.start + DayMinutes
        BY <1>1, <1>2, <3>1
      <4>2. m + sh.end <= m + sh.start
        BY <1>1, <3>1
      <4>3. QED
        BY <1>1, <4>1, <4>2
    <3>2. CASE sh.start < sh.end
      <4>1. span = sh.end - sh.start
        BY <1>1, <1>2, <3>2
      <4>2. ~(m + sh.end <= m + sh.start)
        BY <1>1, <3>2
      <4>3. QED
        BY <1>1, <4>1, <4>2
    <3>3. QED
      BY <1>1, <3>1, <3>2
  <2>4. QED
    BY <2>1, <2>2, <2>3 DEF AbsoluteRange
<1>4. {from + k : k \in 0 .. span} = from .. from + span
  <2>1. from \in Int /\ span \in Nat
    BY <1>1, <1>3
  <2> HIDE DEF from, span
  <2>2. \A x \in from .. from + span : x - from \in 0 .. span /\ x = from + (x - from)
    BY <2>1
  <2>3. \A k \in 0 .. span : from + k \in from .. from + span
    BY <2>1
  <2>4. QED
    BY <2>2, <2>3
<1>5. Moments(d, sh) = {from + k : k \in 0 .. span}
  BY DEF Moments
<1> HIDE DEF span, from
<1>6. from \in Int /\ from + span \in Int /\ from <= from + span
  BY <1>1, <1>3 DEF from
<1>7. QED
  BY <1>3, <1>4, <1>5, <1>6

\* Two shifts touch or overlap just when they share a moment.
LEMMA ClashIsShared ==
  ASSUME DayMinutes \in Nat, NEW d \in Days, NEW x \in Days, NEW a \in Shifts, NEW b \in Shifts,
         a.start # a.end, b.start # b.end
  PROVE  TouchOrOverlap(AbsoluteRange(d, a), AbsoluteRange(x, b))
           <=> Moments(d, a) \cap Moments(x, b) # {}
<1> DEFINE r == AbsoluteRange(d, a)
           q == AbsoluteRange(x, b)
<1>1. r.from \in Int /\ r.to \in Int /\ r.from <= r.to /\ Moments(d, a) = r.from .. r.to
  BY MomentsAreRange
<1>2. q.from \in Int /\ q.to \in Int /\ q.from <= q.to /\ Moments(x, b) = q.from .. q.to
  BY MomentsAreRange
<1> HIDE DEF r, q
<1>3. (r.from <= q.to /\ q.from <= r.to) <=> (r.from .. r.to) \cap (q.from .. q.to) # {}
  BY <1>1, <1>2, RangesMeet
<1>4. QED
  BY <1>1, <1>2, <1>3 DEF TouchOrOverlap, r, q

\* A slot of the plan holds a shift of its day.
LEMMA SlotShape ==
  ASSUME BookOK, NEW s \in Slots(book)
  PROVE  s[1] \in Days /\ At(book, s) \in Shifts
<1>1. PICK d \in Days : s \in {d} \X DOMAIN book[d]
  BY DEF Slots
<1>2. s[1] = d /\ s[2] \in DOMAIN book[d]
  BY <1>1
<1>3. book[d] \in Seq(Shifts)
  BY DEF BookOK
<1>4. book[d][s[2]] \in Shifts
  BY <1>2, <1>3
<1>5. QED
  BY <1>2, <1>4 DEF At

\* Whatever the plan, its marks are the pairs that share a moment.
LEMMA MarksAreShared ==
  ASSUME DayMinutes \in Nat, BookOK
  PROVE  MarkedIffShared
<1>1. ASSUME NEW s \in Slots(book), NEW t \in Slots(book)
      PROVE  Clashing(book, s, t) <=> ShareMoment(s, t)
  BY SlotShape, ClashIsShared DEF Clashing, ShareMoment, Timed
<1>2. QED
  BY <1>1 DEF MarkedIffShared, ConflictMap

-----------------------------------------------------------------------------
\* The plan keeps its shape.

\* A list without its i-th element: the later ones move one place down.
LEMMA Removed ==
  ASSUME NEW S, NEW s \in Seq(S), NEW i \in DOMAIN s
  PROVE  /\ RemoveAt(s, i) \in Seq(S)
         /\ Len(RemoveAt(s, i)) = Len(s) - 1
         /\ \A j \in 1 .. Len(s) - 1 : RemoveAt(s, i)[j] = IF j < i THEN s[j] ELSE s[j + 1]
<1> DEFINE before == SubSeq(s, 1, i - 1)
           after == SubSeq(s, i + 1, Len(s))
<1>1. /\ Len(s) \in Nat /\ i \in 1 .. Len(s)
      /\ \A j \in 1 .. Len(s) : s[j] \in S
  BY LenProperties, ElementOfSeq
<1>2. /\ before \in Seq(S) /\ Len(before) = i - 1
      /\ \A j \in 1 .. i - 1 : before[j] = s[j]
  <2>1. \A j \in 1 .. i - 1 : s[j] \in S
    BY <1>1
  <2>2. /\ before \in Seq(S) /\ Len(before) = IF 1 <= i - 1 THEN i - 1 - 1 + 1 ELSE 0
        /\ \A j \in 1 .. i - 1 - 1 + 1 : before[j] = s[1 + j - 1]
    <3> HIDE DEF before
    <3>1. 1 \in Int /\ i - 1 \in Int
      BY <1>1
    <3>2. QED
      BY <2>1, <3>1, SubSeqProperties DEF before
  <2> HIDE DEF before
  <2>3. QED
    BY <1>1, <2>2
<1>3. /\ after \in Seq(S) /\ Len(after) = Len(s) - i
      /\ \A j \in 1 .. Len(s) - i : after[j] = s[i + j]
  <2>1. \A j \in i + 1 .. Len(s) : s[j] \in S
    BY <1>1
  <2>2. /\ after \in Seq(S) /\ Len(after) = IF i + 1 <= Len(s) THEN Len(s) - (i + 1) + 1 ELSE 0
        /\ \A j \in 1 .. Len(s) - (i + 1) + 1 : after[j] = s[i + 1 + j - 1]
    <3> HIDE DEF after
    <3>1. i + 1 \in Int /\ Len(s) \in Int
      BY <1>1
    <3>2. QED
      BY <2>1, <3>1, SubSeqProperties DEF after
  <2> HIDE DEF after
  <2>3. QED
    BY <1>1, <2>2
<1>4. RemoveAt(s, i) = before \o after
  BY DEF RemoveAt
<1> HIDE DEF before, after
<1>5. /\ before \o after \in Seq(S)
      /\ Len(before \o after) = Len(before) + Len(after)
      /\ \A j \in 1 .. Len(before) + Len(after) :
           (before \o after)[j] = IF j <= Len(before) THEN before[j] ELSE after[j - Len(before)]
  BY <1>2, <1>3, ConcatProperties
<1>6. ASSUME NEW j \in 1 .. Len(s) - 1
      PROVE  (before \o after)[j] = IF j < i THEN s[j] ELSE s[j + 1]
  <2>1. CASE j < i
    <3>1. j \in 1 .. i - 1 /\ j \in 1 .. Len(before) + Len(after) /\ j <= Len(before)
      BY <1>1, <1>2, <1>3, <2>1
    <3>2. (before \o after)[j] = before[j]
      BY <1>5, <3>1
    <3>3. QED
      BY <1>2, <2>1, <3>1, <3>2
  <2>2. CASE j >= i
    <3>1. j - (i - 1) \in 1 .. Len(s) - i /\ i + (j - (i - 1)) = j + 1
      BY <1>1, <2>2
    <3>2. j \in 1 .. Len(before) + Len(after) /\ ~(j <= Len(before)) /\ Len(before) = i - 1
      BY <1>1, <1>2, <1>3, <2>2
    <3>3. (before \o after)[j] = after[j - (i - 1)]
      BY <1>5, <3>2
    <3>4. ~(j < i)
      BY <1>1, <2>2
    <3>5. QED
      BY <1>3, <3>1, <3>3, <3>4
  <2>3. j < i \/ j >= i
    BY <1>1
  <2>4. QED
    BY <2>1, <2>2, <2>3
<1>7. Len(before) + Len(after) = Len(s) - 1
  BY <1>1, <1>2, <1>3
<1>8. QED
  BY <1>4, <1>5, <1>6, <1>7

\* A list with an element more, in the last place.
LEMMA Appended ==
  ASSUME NEW S, NEW s \in Seq(S), NEW e \in S
  PROVE  /\ DOMAIN Append(s, e) = DOMAIN s \cup {Len(s) + 1} /\ Len(s) + 1 \notin DOMAIN s
         /\ Append(s, e)[Len(s) + 1] = e
         /\ \A j \in DOMAIN s : Append(s, e)[j] = s[j]
<1>1. Len(s) \in Nat /\ DOMAIN s = 1 .. Len(s)
  BY LenProperties
<1>2. Append(s, e) \in Seq(S) /\ Len(Append(s, e)) = Len(s) + 1
  OBVIOUS
<1>3. DOMAIN Append(s, e) = 1 .. Len(s) + 1
  BY <1>2, LenProperties
<1>4. Append(s, e)[Len(s) + 1] = e /\ \A j \in 1 .. Len(s) : Append(s, e)[j] = s[j]
  OBVIOUS
<1>5. QED
  BY <1>1, <1>3, <1>4

\* A slot is a day and a place in the day's list.
LEMMA SlotIs ==
  ASSUME NEW bk, NEW d, NEW i
  PROVE  <<d, i>> \in Slots(bk) <=> d \in Days /\ i \in DOMAIN bk[d]
BY DEF Slots

\* Every dialog leaves a list of shifts for every day.
LEMMA BookKept ==
  ASSUME BookOK, [ConflictsNext]_conflictsVars
  PROVE  BookOK'
<1>1. ASSUME NEW d \in Days, NEW sh \in Shifts, NewShift(d, sh)
      PROVE  BookOK'
  <2>1. Append(book[d], sh) \in Seq(Shifts)
    BY DEF BookOK
  <2>2. QED
    BY <1>1, <2>1 DEF BookOK, NewShift
<1>2. ASSUME NEW d \in Days, NEW i \in 1 .. MaxShifts, NEW x \in Days, NEW sh \in Shifts,
             EditShift(<<d, i>>, x, sh)
      PROVE  BookOK'
  <2>1. i \in DOMAIN book[d] /\ book[d] \in Seq(Shifts) /\ book[x] \in Seq(Shifts)
    BY <1>2, SlotIs DEF EditShift, BookOK
  <2>2. CASE x = d
    <3>1. book' = [book EXCEPT ![d] = [book[d] EXCEPT ![i] = sh]]
      BY <1>2, <2>2 DEF EditShift, BookOK
    <3>2. [book[d] EXCEPT ![i] = sh] \in Seq(Shifts)
      BY <2>1, ExceptSeq, LenProperties
    <3>3. QED
      BY <3>1, <3>2 DEF BookOK
  <2>3. CASE x # d
    <3>1. book' = [book EXCEPT ![d] = RemoveAt(book[d], i), ![x] = Append(book[x], sh)]
      BY <1>2, <2>3 DEF EditShift, BookOK
    <3>2. RemoveAt(book[d], i) \in Seq(Shifts) /\ Append(book[x], sh) \in Seq(Shifts)
      BY <2>1, Removed
    <3>3. QED
      BY <3>1, <3>2 DEF BookOK
  <2>4. QED
    BY <2>2, <2>3
<1>3. ASSUME NEW d \in Days, NEW i \in 1 .. MaxShifts, DeleteShift(<<d, i>>)
      PROVE  BookOK'
  <2>1. i \in DOMAIN book[d] /\ book[d] \in Seq(Shifts)
    BY <1>3, SlotIs DEF DeleteShift, BookOK
  <2>2. book' = [book EXCEPT ![d] = RemoveAt(book[d], i)]
    BY <1>3 DEF DeleteShift, BookOK
  <2>3. RemoveAt(book[d], i) \in Seq(Shifts)
    BY <2>1, Removed
  <2>4. QED
    BY <2>2, <2>3 DEF BookOK
<1>4. CASE UNCHANGED conflictsVars
  BY <1>4 DEF BookOK, conflictsVars
<1>5. QED
  BY <1>1, <1>2, <1>3, <1>4 DEF ConflictsNext

LEMMA BookStarts ==
  ASSUME ConflictsInit
  PROVE  BookOK
<1>1. <<>> \in Seq(Shifts)
  BY EmptySeq
<1>2. QED
  BY <1>1 DEF ConflictsInit, BookOK

\* However long the day, however many shifts: the calendar marks two shifts just when
\* they share a moment (buildShiftConflictMap).
THEOREM SharedIsMarked ==
  ASSUME DayMinutes \in Nat
  PROVE  ConflictsSpec => []MarkedIffShared
<1>1. ConflictsInit => BookOK
  BY BookStarts
<1>2. BookOK /\ [ConflictsNext]_conflictsVars => BookOK'
  BY BookKept
<1>3. BookOK => MarkedIffShared
  BY MarksAreShared
<1>4. QED
  BY <1>1, <1>2, <1>3, PTL DEF ConflictsSpec

-----------------------------------------------------------------------------
\* What the dialog warned of and what the calendar marks.

\* What a plan says of its shifts, but for the one in slot out.
Others(bk, out) == {LabelOf(bk, s) : s \in Slots(bk) \ {out}}

\* Whether a shift sh of day d clashes with the shift of a label.
Against(d, sh, label) ==
  /\ Timed(label[2])
  /\ TouchOrOverlap(AbsoluteRange(d, sh), AbsoluteRange(label[1], label[2]))

LEMMA OthersAre ==
  ASSUME NEW bk, NEW d, NEW i, NEW label
  PROVE  label \in Others(bk, <<d, i>>) <=>
           \E x \in Days : \E j \in DOMAIN bk[x] : <<x, j>> # <<d, i>> /\ label = <<x, bk[x][j]>>
<1>1. ASSUME NEW s \in Slots(bk) \ {<<d, i>>}, label = LabelOf(bk, s)
      PROVE  \E x \in Days : \E j \in DOMAIN bk[x] :
               <<x, j>> # <<d, i>> /\ label = <<x, bk[x][j]>>
  <2>1. PICK x \in Days : s \in {x} \X DOMAIN bk[x]
    BY DEF Slots
  <2>2. PICK j \in DOMAIN bk[x] : s = <<x, j>>
    BY <2>1
  <2>3. <<x, j>> # <<d, i>> /\ label = <<x, bk[x][j]>>
    BY <1>1, <2>2 DEF LabelOf, At
  <2>4. QED
    BY <2>3
<1>2. ASSUME NEW x \in Days, NEW j \in DOMAIN bk[x],
             <<x, j>> # <<d, i>>, label = <<x, bk[x][j]>>
      PROVE  label \in Others(bk, <<d, i>>)
  <2>1. <<x, j>> \in Slots(bk) \ {<<d, i>>} /\ label = LabelOf(bk, <<x, j>>)
    BY <1>2, SlotIs DEF LabelOf, At
  <2>2. QED
    BY <2>1 DEF Others
<1>3. QED
  BY <1>1, <1>2 DEF Others

\* A dialog warns of what clashes among the others.
LEMMA WarningsAre ==
  ASSUME NEW bk, NEW d, NEW sh, NEW out
  PROVE  FindConflictsForDraft(bk, d, sh, out)
           = IF Timed(sh) THEN {l \in Others(bk, out) : Against(d, sh, l)} ELSE {}
<1>1. ASSUME NEW s \in Slots(bk)
      PROVE  Against(d, sh, LabelOf(bk, s)) <=>
               Timed(At(bk, s)) /\ TouchOrOverlap(AbsoluteRange(d, sh), AbsoluteRange(s[1], At(bk, s)))
  BY DEF Against, LabelOf
<1>2. QED
  BY <1>1 DEF FindConflictsForDraft, Others

\* The calendar marks, on a shift, what clashes among the others.
LEMMA MarksAre ==
  ASSUME NEW bk, NEW slot \in Slots(bk)
  PROVE  {LabelOf(bk, p[2]) : p \in {p \in ConflictMap(bk) : p[1] = slot}}
           = IF Timed(At(bk, slot)) THEN {l \in Others(bk, slot) : Against(slot[1], At(bk, slot), l)}
             ELSE {}
<1> DEFINE marked == {LabelOf(bk, p[2]) : p \in {p \in ConflictMap(bk) : p[1] = slot}}
<1>1. ASSUME NEW l
      PROVE  l \in marked <=> \E t \in Slots(bk) : Clashing(bk, slot, t) /\ l = LabelOf(bk, t)
  <2>1. ASSUME NEW p \in ConflictMap(bk), p[1] = slot, l = LabelOf(bk, p[2])
        PROVE  \E t \in Slots(bk) : Clashing(bk, slot, t) /\ l = LabelOf(bk, t)
    BY <2>1 DEF ConflictMap
  <2>2. ASSUME NEW t \in Slots(bk), Clashing(bk, slot, t), l = LabelOf(bk, t)
        PROVE  l \in marked
    <3>1. <<slot, t>> \in ConflictMap(bk)
      BY <2>2 DEF ConflictMap
    <3>2. QED
      BY <2>2, <3>1
  <2>3. QED
    BY <2>1, <2>2
<1>2. ASSUME NEW t \in Slots(bk)
      PROVE  Clashing(bk, slot, t) <=>
               Timed(At(bk, slot)) /\ t # slot /\ Against(slot[1], At(bk, slot), LabelOf(bk, t))
  BY DEF Clashing, Against, LabelOf
<1>3. ASSUME NEW l
      PROVE  l \in marked <=>
               Timed(At(bk, slot)) /\ l \in Others(bk, slot) /\ Against(slot[1], At(bk, slot), l)
  BY <1>1, <1>2 DEF Others
<1> HIDE DEF marked
<1>4. CASE Timed(At(bk, slot))
  BY <1>3, <1>4 DEF marked
<1>5. CASE ~Timed(At(bk, slot))
  BY <1>3, <1>5 DEF marked
<1>6. QED
  BY <1>4, <1>5

\* The dialog's shift sh is saved in a slot of day d of the new plan: it has been warned
\* of all its clashes when the others of the new plan were others of the old one, and of
\* no more when those of the old one, but for where the shift was, are in the new one.
LEMMA WarnedOfOthers ==
  ASSUME NEW d, NEW sh, NEW out, saved' \in Slots(book'),
         saved'[1] = d, At(book', saved') = sh,
         warned' = FindConflictsForDraft(book, d, sh, out),
         Others(book', saved') \subseteq Others(book, out),
         Others(book, out) \subseteq Others(book', saved') \cup own'
  PROVE  WarnedIsMarked'
<1> DEFINE marked == {LabelOf(book', p[2]) : p \in {p \in ConflictMap(book') : p[1] = saved'}}
<1>1. marked = IF Timed(sh) THEN {l \in Others(book', saved') : Against(d, sh, l)} ELSE {}
  BY MarksAre
<1>2. warned' = IF Timed(sh) THEN {l \in Others(book, out) : Against(d, sh, l)} ELSE {}
  BY WarningsAre
<1> HIDE DEF marked
<1>3. marked \subseteq warned' /\ warned' \subseteq marked \cup own'
  BY <1>1, <1>2
<1>4. QED
  BY <1>3 DEF WarnedIsMarked, marked

\* No slot is nowhere.
LEMMA NotNowhere ==
  ASSUME NEW d \in Days, NEW i
  PROVE  <<d, i>> # Nowhere
BY DEF Days, Nowhere

\* A new shift comes last on its day and is nobody's other.
LEMMA NewIsWarned ==
  ASSUME BookOK, NEW d \in Days, NEW sh \in Shifts, NewShift(d, sh)
  PROVE  WarnedIsMarked'
<1> DEFINE n == Len(book[d]) + 1
<1>1. book[d] \in Seq(Shifts) /\ n \in Nat
  BY DEF BookOK
<1>2. \A x \in Days : book'[x] = IF x = d THEN Append(book[d], sh) ELSE book[x]
  BY DEF NewShift, BookOK
<1>3. /\ DOMAIN book'[d] = DOMAIN book[d] \cup {n} /\ n \notin DOMAIN book[d]
      /\ book'[d][n] = sh
      /\ \A j \in DOMAIN book[d] : book'[d][j] = book[d][j]
  <2>1. book'[d] = Append(book[d], sh)
    BY <1>2
  <2>2. /\ DOMAIN Append(book[d], sh) = DOMAIN book[d] \cup {n} /\ n \notin DOMAIN book[d]
        /\ Append(book[d], sh)[n] = sh
        /\ \A j \in DOMAIN book[d] : Append(book[d], sh)[j] = book[d][j]
    BY <1>1, Appended
  <2>3. QED
    BY <2>1, <2>2
<1>4. warned' = FindConflictsForDraft(book, d, sh, <<0, 0>>) /\ saved' = <<d, n>>
  BY DEF NewShift, Shown, Nowhere
<1> HIDE DEF n
<1>5. saved' \in Slots(book') /\ saved'[1] = d /\ At(book', saved') = sh
  BY <1>3, <1>4, SlotIs DEF At
<1>6. ASSUME NEW label
      PROVE  label \in Others(book', <<d, n>>) <=> label \in Others(book, <<0, 0>>)
  <2>1. ASSUME NEW x \in Days, NEW j \in DOMAIN book'[x], <<x, j>> # <<d, n>>
        PROVE  j \in DOMAIN book[x] /\ <<x, j>> # <<0, 0>> /\ book'[x][j] = book[x][j]
    BY <1>2, <1>3, <2>1 DEF Days
  <2>2. ASSUME NEW x \in Days, NEW j \in DOMAIN book[x]
        PROVE  j \in DOMAIN book'[x] /\ <<x, j>> # <<d, n>> /\ book'[x][j] = book[x][j]
    BY <1>2, <1>3
  <2>3. QED
    BY <2>1, <2>2, OthersAre
<1>7. QED
  BY <1>4, <1>5, <1>6, WarnedOfOthers

\* A shift edited on its day stays where it was.
LEMMA EditedIsWarned ==
  ASSUME BookOK, NEW d \in Days, NEW i, NEW sh \in Shifts, EditShift(<<d, i>>, d, sh)
  PROVE  WarnedIsMarked'
<1>1. i \in DOMAIN book[d] /\ book[d] \in Seq(Shifts)
  BY SlotIs DEF EditShift, BookOK
<1>2. book' = [book EXCEPT ![d] = [book[d] EXCEPT ![i] = sh]]
  BY DEF EditShift, BookOK
<1>3. /\ \A x \in Days : DOMAIN book'[x] = DOMAIN book[x]
      /\ book'[d][i] = sh
      /\ \A x \in Days : \A j \in DOMAIN book[x] :
           <<x, j>> # <<d, i>> => book'[x][j] = book[x][j]
  BY <1>1, <1>2 DEF BookOK
<1>4. warned' = FindConflictsForDraft(book, d, sh, <<d, i>>) /\ saved' = <<d, i>>
  BY DEF EditShift, Shown, Excluded
<1>5. saved' \in Slots(book') /\ saved'[1] = d /\ At(book', saved') = sh
  BY <1>1, <1>3, <1>4, SlotIs DEF At
<1>6. \A label : label \in Others(book', <<d, i>>) <=> label \in Others(book, <<d, i>>)
  BY <1>3, OthersAre
<1>7. QED
  BY <1>4, <1>5, <1>6, WarnedOfOthers

\* A shift moved to another day is still in the old one's list while the dialog is open:
\* that place alone it warns of in vain.
LEMMA MovedIsWarned ==
  ASSUME BookOK, NEW d \in Days, NEW i, NEW e \in Days \ {d}, NEW sh \in Shifts,
         EditShift(<<d, i>>, e, sh)
  PROVE  WarnedIsMarked'
<1> DEFINE n == Len(book[e]) + 1
           m == Len(book[d])
<1>1. /\ i \in DOMAIN book[d] /\ book[d] \in Seq(Shifts) /\ book[e] \in Seq(Shifts)
      /\ n \in Nat /\ m \in Nat /\ i \in 1 .. m /\ DOMAIN book[d] = 1 .. m
  BY SlotIs DEF EditShift, BookOK
<1>2. \A x \in Days :
        book'[x] = IF x = e THEN Append(book[e], sh)
                   ELSE IF x = d THEN RemoveAt(book[d], i) ELSE book[x]
  BY DEF EditShift, BookOK
<1>3. /\ DOMAIN book'[e] = DOMAIN book[e] \cup {n} /\ n \notin DOMAIN book[e]
      /\ book'[e][n] = sh
      /\ \A j \in DOMAIN book[e] : book'[e][j] = book[e][j]
  <2>1. book'[e] = Append(book[e], sh)
    BY <1>2
  <2>2. /\ DOMAIN Append(book[e], sh) = DOMAIN book[e] \cup {n} /\ n \notin DOMAIN book[e]
        /\ Append(book[e], sh)[n] = sh
        /\ \A j \in DOMAIN book[e] : Append(book[e], sh)[j] = book[e][j]
    BY <1>1, Appended
  <2>3. QED
    BY <2>1, <2>2
<1>4. /\ DOMAIN book'[d] = 1 .. m - 1
      /\ \A j \in 1 .. m - 1 : book'[d][j] = IF j < i THEN book[d][j] ELSE book[d][j + 1]
  <2>1. book'[d] = RemoveAt(book[d], i)
    BY <1>2
  <2>2. /\ book'[d] \in Seq(Shifts) /\ Len(book'[d]) = m - 1
        /\ \A j \in 1 .. m - 1 : book'[d][j] = IF j < i THEN book[d][j] ELSE book[d][j + 1]
    BY <1>1, <2>1, Removed
  <2>3. QED
    BY <2>2, LenProperties
<1>5. /\ warned' = FindConflictsForDraft(book, e, sh, <<0, 0>>)
      /\ saved' = <<e, n>> /\ own' = {<<d, book[d][i]>>}
  <2>1. <<d, i>> # Nowhere
    BY NotNowhere
  <2>2. Excluded(<<d, i>>, e) = Nowhere
    BY DEF Excluded
  <2>3. own' = {LabelOf(book, x) : x \in {<<d, i>>} \ {Nowhere, Nowhere}}
    BY <2>2 DEF EditShift, Shown
  <2>4. own' = {LabelOf(book, <<d, i>>)}
    BY <2>1, <2>3
  <2>5. QED
    BY <2>2, <2>4 DEF EditShift, Shown, LabelOf, At, Nowhere
<1> HIDE DEF n, m
<1>6. saved' \in Slots(book') /\ saved'[1] = e /\ At(book', saved') = sh
  BY <1>3, <1>5, SlotIs DEF At
<1>7. ASSUME NEW x \in Days, NEW j \in DOMAIN book'[x], <<x, j>> # <<e, n>>
      PROVE  \E k \in DOMAIN book[x] : <<x, k>> # <<0, 0>> /\ book'[x][j] = book[x][k]
  <2>1. \A k : <<x, k>> # <<0, 0>>
    BY DEF Days
  <2>2. CASE x = e
    BY <1>3, <1>7, <2>1, <2>2
  <2>3. CASE x = d
    <3>1. j \in 1 .. m - 1
      BY <1>4, <2>3
    <3>2. j \in 1 .. m /\ j + 1 \in 1 .. m
      BY <1>1, <3>1
    <3>3. book'[x][j] = book[x][j] \/ book'[x][j] = book[x][j + 1]
      BY <1>4, <2>3, <3>1
    <3>4. QED
      BY <1>1, <2>1, <2>3, <3>2, <3>3
  <2>4. CASE x \notin {d, e}
    BY <1>2, <2>1, <2>4
  <2>5. QED
    BY <2>2, <2>3, <2>4
<1>8. ASSUME NEW x \in Days, NEW j \in DOMAIN book[x], <<x, j>> # <<d, i>>
      PROVE  \E k \in DOMAIN book'[x] : <<x, k>> # <<e, n>> /\ book'[x][k] = book[x][j]
  <2>1. CASE x = e
    BY <1>3, <2>1
  <2>2. CASE x = d
    <3>1. j \in 1 .. m /\ j # i
      BY <1>1, <1>8, <2>2
    <3>2. CASE j < i
      <4>1. j \in 1 .. m - 1
        BY <1>1, <3>1, <3>2
      <4>2. QED
        BY <1>4, <2>2, <3>2, <4>1
    <3>3. CASE j > i
      <4>1. j - 1 \in 1 .. m - 1 /\ ~(j - 1 < i) /\ j - 1 + 1 = j
        BY <1>1, <3>1, <3>3
      <4>2. QED
        BY <1>4, <2>2, <4>1
    <3>4. QED
      BY <1>1, <3>1, <3>2, <3>3
  <2>3. CASE x \notin {d, e}
    BY <1>2, <2>3
  <2>4. QED
    BY <2>1, <2>2, <2>3
<1>9. Others(book', <<e, n>>) \subseteq Others(book, <<0, 0>>)
  BY <1>7, OthersAre
<1>10. Others(book, <<0, 0>>) \subseteq Others(book', <<e, n>>) \cup own'
  <2>1. ASSUME NEW x \in Days, NEW j \in DOMAIN book[x], <<x, j>> = <<d, i>>
        PROVE  <<x, book[x][j]>> \in own'
    BY <1>5, <2>1
  <2>2. QED
    BY <1>8, <2>1, OthersAre
<1>11. QED
  BY <1>5, <1>6, <1>9, <1>10, WarnedOfOthers

\* Through every dialog, the plan keeps its shape and the warnings agree with the marks.
LEMMA ConflictsKept ==
  ASSUME ConflictsInv, [ConflictsNext]_conflictsVars
  PROVE  ConflictsInv'
<1>1. BookOK'
  BY BookKept DEF ConflictsInv
<1>2. WarnedIsMarked'
  <2>1. CASE \E d \in Days, sh \in Shifts : NewShift(d, sh)
    BY <2>1, NewIsWarned DEF ConflictsInv
  <2>2. CASE \E d \in Days, i \in 1 .. MaxShifts, x \in Days, sh \in Shifts :
               EditShift(<<d, i>>, x, sh)
    BY <2>2, EditedIsWarned, MovedIsWarned DEF ConflictsInv
  <2>3. CASE \E d \in Days, i \in 1 .. MaxShifts : DeleteShift(<<d, i>>)
    BY <2>3 DEF DeleteShift, WarnedIsMarked
  <2>4. CASE UNCHANGED conflictsVars
    BY <2>4 DEF ConflictsInv, WarnedIsMarked, conflictsVars
  <2>5. QED
    BY <2>1, <2>2, <2>3, <2>4 DEF ConflictsNext
<1>3. QED
  BY <1>1, <1>2 DEF ConflictsInv

\* The dialog's warnings (findConflictsForDraft) and the calendar's marks
\* (buildShiftConflictMap) agree on the shift just saved, whatever the plan.
THEOREM DialogAgrees == ConflictsSpec => []WarnedIsMarked
<1>1. ConflictsInit => ConflictsInv
  BY BookStarts DEF ConflictsInit, ConflictsInv, WarnedIsMarked
<1>2. ConflictsInv /\ [ConflictsNext]_conflictsVars => ConflictsInv'
  BY ConflictsKept
<1>3. ConflictsInv => WarnedIsMarked
  BY DEF ConflictsInv
<1>4. QED
  BY <1>1, <1>2, <1>3, PTL DEF ConflictsSpec

-----------------------------------------------------------------------------
\* The types.

LEMMA LabelTyped ==
  ASSUME NEW bk \in [Days -> Seq(Shifts)], NEW slot \in Slots(bk)
  PROVE  LabelOf(bk, slot) \in Days \X Shifts
<1>1. PICK d \in Days : slot \in {d} \X DOMAIN bk[d]
  BY DEF Slots
<1>2. PICK i \in DOMAIN bk[d] : slot = <<d, i>>
  BY <1>1
<1>3. bk[d] \in Seq(Shifts)
  OBVIOUS
<1>4. bk[d][i] \in Shifts
  BY <1>2, <1>3, ElementOfSeq, LenProperties
<1>5. QED
  BY <1>2, <1>4 DEF LabelOf, At

\* What a dialog shows are labels of shifts of the plan.
LEMMA ShownTyped ==
  ASSUME BookOK, NEW d, NEW sh, NEW exclude, NEW edited \in Slots(book) \cup {Nowhere},
         NEW slot, Shown(d, sh, exclude, edited, slot)
  PROVE  warned' \subseteq Days \X Shifts /\ own' \subseteq Days \X Shifts
<1>1. \A s \in Slots(book) : LabelOf(book, s) \in Days \X Shifts
  BY LabelTyped DEF BookOK
<1>2. warned' \subseteq {LabelOf(book, s) : s \in Slots(book)}
  BY DEF Shown, FindConflictsForDraft
<1>3. own' \subseteq {LabelOf(book, s) : s \in Slots(book)}
  BY DEF Shown
<1>4. QED
  BY <1>1, <1>2, <1>3

\* The slot a dialog leaves its shift in is one of the plan.
LEMMA SavedTyped ==
  ASSUME BookOK, [ConflictsNext]_conflictsVars, saved \in Slots(book) \cup {Nowhere}
  PROVE  saved' \in Slots(book') \cup {Nowhere}
<1>1. ASSUME NEW d \in Days, NEW sh \in Shifts, NewShift(d, sh)
      PROVE  saved' \in Slots(book')
  <2>1. book[d] \in Seq(Shifts) /\ book'[d] = Append(book[d], sh)
    BY <1>1 DEF BookOK, NewShift
  <2>2. saved' = <<d, Len(book[d]) + 1>>
    BY <1>1 DEF NewShift, Shown
  <2>3. Len(book[d]) + 1 \in DOMAIN book'[d]
    BY <2>1, Appended
  <2>4. QED
    BY <2>2, <2>3, SlotIs
<1>2. ASSUME NEW d \in Days, NEW i \in 1 .. MaxShifts, NEW x \in Days, NEW sh \in Shifts,
             EditShift(<<d, i>>, x, sh)
      PROVE  saved' \in Slots(book')
  <2>1. i \in DOMAIN book[d] /\ book[d] \in Seq(Shifts) /\ book[x] \in Seq(Shifts)
    BY <1>2, SlotIs DEF EditShift, BookOK
  <2>2. CASE x = d
    <3>1. book'[d] = [book[d] EXCEPT ![i] = sh] /\ saved' = <<d, i>>
      BY <1>2, <2>2 DEF EditShift, Shown, BookOK
    <3>2. i \in DOMAIN book'[d]
      BY <2>1, <3>1
    <3>3. QED
      BY <3>1, <3>2, SlotIs
  <2>3. CASE x # d
    <3>1. book'[x] = Append(book[x], sh) /\ saved' = <<x, Len(book[x]) + 1>>
      BY <1>2, <2>3 DEF EditShift, Shown, BookOK
    <3>2. Len(book[x]) + 1 \in DOMAIN book'[x]
      BY <2>1, <3>1, Appended
    <3>3. QED
      BY <3>1, <3>2, SlotIs
  <2>4. QED
    BY <2>2, <2>3
<1>3. ASSUME NEW slot, DeleteShift(slot)
      PROVE  saved' = Nowhere
  BY <1>3 DEF DeleteShift
<1>4. CASE UNCHANGED conflictsVars
  BY <1>4 DEF conflictsVars
<1>5. QED
  BY <1>1, <1>2, <1>3, <1>4 DEF ConflictsNext

\* The plan, the slot of the shift just saved and the labels shown keep their types, for
\* any number of days, minutes and shifts.
THEOREM ConflictsTyping == ConflictsSpec => []ConflictsTypeOK
<1>1. ConflictsInit => ConflictsTypeOK
  BY BookStarts DEF ConflictsInit, ConflictsTypeOK, BookOK
<1>2. ConflictsTypeOK /\ [ConflictsNext]_conflictsVars => ConflictsTypeOK'
  <2>1. ASSUME ConflictsTypeOK, [ConflictsNext]_conflictsVars
        PROVE  ConflictsTypeOK'
    <3>1. BookOK
      BY <2>1 DEF ConflictsTypeOK, BookOK
    <3>2. BookOK'
      BY <2>1, <3>1, BookKept
    <3>3. saved' \in Slots(book') \cup {Nowhere}
      BY <2>1, <3>1, SavedTyped DEF ConflictsTypeOK
    <3>4. warned' \subseteq Days \X Shifts /\ own' \subseteq Days \X Shifts
      <4>1. ASSUME NEW d \in Days, NEW sh \in Shifts, NewShift(d, sh)
            PROVE  warned' \subseteq Days \X Shifts /\ own' \subseteq Days \X Shifts
        BY <3>1, <4>1, ShownTyped DEF NewShift
      <4>2. ASSUME NEW d, NEW i, NEW x, NEW sh, EditShift(<<d, i>>, x, sh)
            PROVE  warned' \subseteq Days \X Shifts /\ own' \subseteq Days \X Shifts
        BY <3>1, <4>2, ShownTyped DEF EditShift
      <4>3. ASSUME NEW slot, DeleteShift(slot)
            PROVE  warned' \subseteq Days \X Shifts /\ own' \subseteq Days \X Shifts
        BY <4>3 DEF DeleteShift
      <4>4. CASE UNCHANGED conflictsVars
        BY <2>1, <4>4 DEF ConflictsTypeOK, conflictsVars
      <4>5. QED
        BY <2>1, <4>1, <4>2, <4>3, <4>4 DEF ConflictsNext
    <3>5. QED
      BY <3>2, <3>3, <3>4 DEF ConflictsTypeOK, BookOK
  <2>2. QED
    BY <2>1
<1>3. QED
  BY <1>1, <1>2, PTL DEF ConflictsSpec

=============================================================================
