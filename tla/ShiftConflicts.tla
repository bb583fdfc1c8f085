--------------------------- MODULE ShiftConflicts ---------------------------
(***************************************************************************)
(* Clashes between the shifts of one employee in the rota planner.  The    *)
(* shift dialog warns about the shift being typed (findConflictsForDraft), *)
(* the calendar marks the shifts of the plan (buildShiftConflictMap): two  *)
(* computations of frontend/lib/rota-shifts-utils.ts over the same lists,  *)
(* one before the shift is in them and one after.                          *)
(***************************************************************************)
EXTENDS Integers, SequencesExt

CONSTANTS
  DayMinutes,     \* times are 0 .. DayMinutes - 1; an overnight shift ends on the next day
  LastDay,    \* bound: days are 1 .. LastDay
  MaxShifts   \* bound: shifts in the plan

VARIABLES
  book,    \* of each day, its list of shifts
  saved,   \* ghost: the slot the last dialog left its shift in, if it is still there
  warned,  \* ghost: the clashes that dialog showed
  own      \* ghost: the place it moved its shift from, to another day

conflictsVars == <<book, saved, warned, own>>

Days == 1 .. LastDay
Minutes == 0 .. DayMinutes - 1
Shifts == [start : Minutes, end : Minutes]
Nowhere == <<0, 0>>

Slots(bk) == UNION {{d} \X DOMAIN bk[d] : d \in Days}
At(bk, slot) == bk[slot[1]][slot[2]]

----------------------------------------------------------------------------
\* Equal times mean a shift not filled in yet.
Timed(sh) == sh.start # sh.end

\* The absolute start and end of a shift on a day.
AbsoluteRange(d, sh) ==
  LET from == d * DayMinutes + sh.start
      to == d * DayMinutes + sh.end
  IN [from |-> from, to |-> IF to <= from THEN to + DayMinutes ELSE to]

\* Mutant: shifts that only abut are no conflict.
TouchOrOverlap_Strict(a, b) == a.from < b.to /\ b.from < a.to

TouchOrOverlap(a, b) == a.from <= b.to /\ b.from <= a.to

\* What a warning or a mark says of the other shift.
LabelOf(bk, slot) == <<slot[1], At(bk, slot)>>

\* Warnings about sh typed for day d; the shift being edited is left out of its own.
FindConflictsForDraft(bk, d, sh, exclude) ==
  LET range == AbsoluteRange(d, sh)
      Clashes(s) == Timed(At(bk, s)) /\ TouchOrOverlap(range, AbsoluteRange(s[1], At(bk, s)))
  IN IF Timed(sh) THEN {LabelOf(bk, s) : s \in {s \in Slots(bk) \ {exclude} : Clashes(s)}} ELSE {}

\* The calendar compares filled-in shifts two by two.
Clashing(bk, s, t) ==
  /\ s # t
  /\ Timed(At(bk, s)) /\ Timed(At(bk, t))
  /\ TouchOrOverlap(AbsoluteRange(s[1], At(bk, s)), AbsoluteRange(t[1], At(bk, t)))

\* Marks: each clashing pair, both ways round.
ConflictMap(bk) == {p \in Slots(bk) \X Slots(bk) : Clashing(bk, p[1], p[2])}

----------------------------------------------------------------------------
Shown(d, sh, exclude, edited, slot) ==
  /\ warned' = FindConflictsForDraft(book, d, sh, exclude)
  /\ saved' = slot
  /\ own' = {LabelOf(book, x) : x \in {edited} \ {Nowhere, exclude}}

NewShift(d, sh) ==
  /\ Cardinality(Slots(book)) < MaxShifts
  /\ book' = [book EXCEPT ![d] = Append(@, sh)]
  /\ Shown(d, sh, Nowhere, Nowhere, <<d, Len(book[d]) + 1>>)

\* Mutant: the edited shift is excluded on the day it is moved to.
Excluded_Day(slot, d) == <<d, slot[2]>>

\* Only on its own day is a shift left out of its warnings; moved to another
\* day, it is still in the old one while the dialog is open.
Excluded(slot, d) == IF slot[1] = d THEN slot ELSE Nowhere

\* A shift edited on its day is overwritten, one moved to another day is
\* deleted there and appended here.
EditShift(slot, d, sh) ==
  /\ slot \in Slots(book)
  /\ book' = IF slot[1] = d THEN [book EXCEPT ![d][slot[2]] = sh]
             ELSE [book EXCEPT ![slot[1]] = RemoveAt(@, slot[2]), ![d] = Append(@, sh)]
  /\ Shown(d, sh, Excluded(slot, d), slot,
           IF slot[1] = d THEN slot ELSE <<d, Len(book[d]) + 1>>)

DeleteShift(slot) ==
  /\ slot \in Slots(book)
  /\ book' = [book EXCEPT ![slot[1]] = RemoveAt(@, slot[2])]
  /\ saved' = Nowhere /\ warned' = {} /\ own' = {}

ConflictsInit ==
  /\ book = [d \in Days |-> <<>>]
  /\ saved = Nowhere
  /\ warned = {}
  /\ own = {}

ConflictsNext ==
  \/ \E d \in Days, sh \in Shifts : NewShift(d, sh)
  \/ \E d \in Days, i \in 1 .. MaxShifts, x \in Days, sh \in Shifts : EditShift(<<d, i>>, x, sh)
  \/ \E d \in Days, i \in 1 .. MaxShifts : DeleteShift(<<d, i>>)

ConflictsSpec == ConflictsInit /\ [][ConflictsNext]_conflictsVars

----------------------------------------------------------------------------
ConflictsTypeOK ==
  /\ book \in [Days -> Seq(Shifts)]
  /\ saved \in Slots(book) \cup {Nowhere}
  /\ warned \subseteq Days \X Shifts /\ own \subseteq Days \X Shifts

\* Whatever the calendar marks on a shift just saved, the dialog warned of; and it
\* warned of nothing else but the place the shift itself was moved from.
WarnedIsMarked ==
  saved # Nowhere =>
    LET marked == {LabelOf(book, p[2]) : p \in {p \in ConflictMap(book) : p[1] = saved}}
    IN marked \subseteq warned /\ warned \subseteq marked \cup own

\* The moments of a shift, both ends included, from the day's first midnight on.
Moments(d, sh) == {d * DayMinutes + sh.start + k : k \in 0 .. (sh.end - sh.start) % DayMinutes}

\* Two filled-in shifts of the plan share a moment.
ShareMoment(s, t) ==
  /\ s # t
  /\ At(book, s).start # At(book, s).end /\ At(book, t).start # At(book, t).end
  /\ Moments(s[1], At(book, s)) \cap Moments(t[1], At(book, t)) # {}

\* Two shifts are marked, both ways, just when they share a moment, overnight
\* shifts with the next day's too; a shift not filled in yet is never marked.
MarkedIffShared ==
  ConflictMap(book) = {p \in Slots(book) \X Slots(book) : ShareMoment(p[1], p[2])}

=============================================================================
