------------------------------ MODULE RotaGrid ------------------------------
(***************************************************************************)
(* The rota planner's grid in one browser tab: the reducers of             *)
(* frontend/contexts/rota-shifts-context.tsx and the dialogs, menus and    *)
(* confirmations of components/rota/rota-calendar-client.tsx that call     *)
(* them.                                                                   *)
(*                                                                         *)
(* A shift has no identity in the code: attendance, dialogs and pending    *)
(* answers name it by employee, day and index in that day's list.  Here    *)
(* every shift carries a ghost id, and each of those records the shift the *)
(* user meant, so that the two can be compared.                            *)
(*                                                                         *)
(* A menu choice is one step; a dialog and a confirmation are two, with    *)
(* others in between.  A shift keeps its adjustments and nothing else of   *)
(* its content; hours and pay are in ShiftClock.                           *)
(***************************************************************************)
EXTENDS Integers, FiniteSets, SequencesExt

CONSTANTS
  Emps,       \* the staff pool
  LastDate,   \* bound: dates are 1 .. LastDate
  Published,  \* employees whose shifts are published: their saves wait for the server
  MaxShifts,  \* bound: the largest of the bounds on shifts made
  Mixes,      \* bounds: the dialogs and confirmations one behaviour uses, how many
              \* shifts it makes, and the days its plan has
  InitCell    \* where the plan loaded has its one shift

ASSUME GridAssumption ==
  /\ IsFiniteSet(Emps) /\ Published \subseteq Emps
  /\ LastDate \in Nat \ {0} /\ MaxShifts \in Nat \ {0}
  /\ InitCell \in Emps \X (1 .. LastDate)
  /\ \A m \in Mixes :
       /\ m.made \in 1 .. MaxShifts
       /\ \E a, b \in 1 .. LastDate : m.days = a .. b /\ InitCell[2] \in m.days

VARIABLES
  days,        \* the days shown
  employees,   \* the rows; their order is layout
  shifts,      \* of each employee and date, the list of that day
  attendance,  \* from <<employee, date, index>> to the shift it was recorded for
  nextId,      \* ghost: the next shift's identity
  dialog,      \* the dialog open, and what it captured
  pending,     \* bound: one confirmation shown or request in flight
  stale,       \* ghost: an answer was applied to a grid that had moved on
  mix          \* the bounds this behaviour keeps to

vars == <<days, employees, shifts, attendance, nextId, dialog, pending, stale, mix>>
grid == <<days, employees, shifts, attendance, nextId>>

Dates == 1 .. LastDate
Adjustments == {"overtime", "early_finish"}
Other(kind) == CHOOSE k \in Adjustments : k # kind
Hole == [id |-> 0, adj |-> {}]  \* what JavaScript leaves in a list written past its end
Shifts == [id : 0 .. MaxShifts, adj : SUBSET Adjustments]
Slots == Emps \X Dates \X (1 .. MaxShifts)

NoDialog == [kind |-> "none"]
NoPending == [kind |-> "none"]

Grid == [shifts |-> shifts, attendance |-> attendance]
Cell(e, d) == shifts[e][d]
Has(e, d, i) == i \in 1 .. Len(Cell(e, d)) /\ Cell(e, d)[i] # Hole
OfEmp(e) == {s \in DOMAIN attendance : s[1] = e}

\* The shift a dialog or a pending answer was opened for is still in its slot,
\* as it was then.
Meant(c) ==
  /\ c.emp \in employees
  /\ Has(c.emp, c.day, c.idx)
  /\ Cell(c.emp, c.day)[c.idx] = c.sh

----------------------------------------------------------------------------
(* List and index arithmetic.                                              *)

\* Mutant: the marks above the removed index stay where they are.
Renumbered_Left(att, e, d, i, n) == Restrict(att, DOMAIN att \ {<<e, d, i>>})

\* Attendance after shift i of n leaves a day: later marks move down one.
Renumbered(att, e, d, i, n) ==
  LET from(s) == IF s[1] = e /\ s[2] = d /\ s[3] \in i .. n - 1
                   THEN <<e, d, s[3] + 1>> ELSE s
  IN [s \in {s \in Slots \ {<<e, d, n>>} : from(s) \in DOMAIN att} |-> att[from(s)]]

Deleted(g, e, d, i) ==
  LET list == g.shifts[e][d] IN
  IF i \notin 1 .. Len(list) THEN g ELSE
  [ shifts |-> [g.shifts EXCEPT ![e][d] = RemoveAt(@, i)],
    attendance |-> Renumbered(g.attendance, e, d, i, Len(list)) ]

\* A slot's mark is set, if there is one to set.
Marked(att, slot, mark) ==
  [s \in DOMAIN att \cup {slot : m \in mark} |->
     IF s = slot /\ mark # {} THEN CHOOSE m \in mark : TRUE ELSE att[s]]

\* Mutant: the mark goes one past the new shift.
EndOf_Past(list) == Len(list) + 2

\* Where the next shift of a day goes.
EndOf(list) == Len(list) + 1

\* A shift at the end of a day, with the mark it brings, if any.
Added(g, e, d, sh, mark) ==
  [ shifts |-> [g.shifts EXCEPT ![e][d] = Append(@, sh)],
    attendance |-> Marked(g.attendance, <<e, d, EndOf(g.shifts[e][d])>>, mark) ]

\* list[i] = sh, which past the end leaves holes.
Written(list, i, sh) ==
  [j \in 1 .. IF i > Len(list) THEN i ELSE Len(list) |->
     IF j = i THEN sh ELSE IF j \in DOMAIN list THEN list[j] ELSE Hole]

\* The mark of a slot, as a set of at most one.
MarkAt(e, d, i) == {attendance[s] : s \in DOMAIN attendance \cap {<<e, d, i>>}}

\* Identities for the elements of a set, in some order.
NewIds(S) ==
  CHOOSE id \in [S -> nextId .. nextId + Cardinality(S) - 1] : IsInjective(id)

Show(g, n) ==
  /\ nextId' = nextId + n
  /\ nextId' <= mix.made + 1     \* bound
  /\ shifts' = g.shifts
  /\ attendance' = g.attendance

WriteShift(e, d, i, sh) ==
  /\ shifts' = [shifts EXCEPT ![e][d] = Written(@, i, sh)]
  /\ UNCHANGED <<attendance, nextId>>

----------------------------------------------------------------------------
(* The reducers, as conditions on the next grid.                           *)

\* Mutant: attendance is not carried to the shift's new slot.
MoveShift_Bare(e, d, i, toEmp, toDay) ==
  Show(Added(Deleted(Grid, e, d, i), toEmp, toDay, Cell(e, d)[i], {}), 0)

MoveShift(e, d, i, toEmp, toDay) ==
  IF <<e, d>> # <<toEmp, toDay>> /\ Has(e, d, i)
    THEN Show(Added(Deleted(Grid, e, d, i), toEmp, toDay, Cell(e, d)[i], MarkAt(e, d, i)), 0)
    ELSE Show(Grid, 0)

\* c.idx is 0 for a new shift.  Of the people assigned, the first one ticked keeps the
\* shift edited, and its attendance; the others get copies.
ApplyShiftChange(c, first, people, day) ==
  LET edit == c.idx # 0
      keeps == edit /\ Has(c.emp, c.day, c.idx)
      rest == people \ (IF keeps THEN {first} ELSE {})
      id == NewIds(rest)
      made(e) == IF e \in rest THEN [id |-> id[e], adj |-> c.sh.adj] ELSE c.sh
      cleared == IF edit THEN Deleted(Grid, c.emp, c.day, c.idx) ELSE Grid
      kept == IF edit THEN MarkAt(c.emp, c.day, c.idx) ELSE {}
  IN IF edit /\ people = {c.emp} /\ day = c.day
       THEN IF keeps THEN WriteShift(c.emp, c.day, c.idx, c.sh) ELSE Show(Grid, 0)
       ELSE Show([ shifts |-> [e \in Emps |-> [d \in Dates |->
                     IF e \in people /\ d = day THEN Append(cleared.shifts[e][d], made(e))
                                               ELSE cleared.shifts[e][d]]],
                   attendance |-> Marked(cleared.attendance,
                                    <<first, day, EndOf(cleared.shifts[first][day])>>, kept) ],
                 Cardinality(rest))

DeleteShift(e, d, i) == Show(Deleted(Grid, e, d, i), 0)

\* Delete all of one day: deleteShift from the last to the first.
DeleteDay(e, d) ==
  Show([ shifts |-> [shifts EXCEPT ![e][d] = <<>>],
         attendance |-> Restrict(attendance, {s \in DOMAIN attendance :
                          ~(s[1] = e /\ s[2] = d /\ s[3] \in DOMAIN Cell(e, d))}) ], 0)

ClearEmployee(e) ==
  Show([ shifts |-> [shifts EXCEPT ![e] = [d \in Dates |-> <<>>]],
         attendance |-> Restrict(attendance, DOMAIN attendance \ OfEmp(e)) ], 0)

\* Copies of shift i, to every pair of the targets but the source's own cell.
CopyShift(c, emps, dates) ==
  LET to == {x \in (IF emps = {} THEN {c.emp} ELSE emps)
                    \X ((IF dates = {} THEN {c.day} ELSE dates) \cap days) :
               x # <<c.emp, c.day>>}
      id == NewIds(to)
  IN IF Has(c.emp, c.day, c.idx)
       THEN Show([ shifts |-> [e \in Emps |-> [d \in Dates |->
                     IF <<e, d>> \in to
                       THEN Append(Cell(e, d),
                              [id |-> id[<<e, d>>], adj |-> Cell(c.emp, c.day)[c.idx].adj])
                       ELSE Cell(e, d)]],
                   attendance |-> attendance ], Cardinality(to))
       ELSE Show(Grid, 0)

\* Every shift of one employee copied to another, on hidden days too.
CopyAll(from, to) ==
  LET source == UNION {{d} \X DOMAIN Cell(from, d) : d \in Dates}
      id == NewIds(source)
  IN Show([ shifts |-> [shifts EXCEPT ![to] = [d \in Dates |->
              @[d] \o [i \in DOMAIN Cell(from, d) |->
                        [id |-> id[<<d, i>>], adj |-> Cell(from, d)[i].adj]]]],
            attendance |-> attendance ], Cardinality(source))

\* Mutant: the row goes, the shifts stay.
RemoveEmployees_Rows(gone) ==
  /\ employees' = employees \ gone
  /\ UNCHANGED <<shifts, attendance, nextId>>

RemoveEmployees(gone) ==
  /\ employees' = employees \ gone
  /\ Show([ shifts |-> [e \in Emps |-> IF e \in gone THEN [d \in Dates |-> <<>>] ELSE shifts[e]],
            attendance |-> Restrict(attendance, DOMAIN attendance \ UNION {OfEmp(e) : e \in gone}) ],
          0)

\* The days after a change of count at one edge.
Window(count, edge) ==
  LET first == CHOOSE d \in days : \A x \in days : d <= x
      last == CHOOSE d \in days : \A x \in days : x <= d
  IN IF edge = "end" THEN first .. first + count - 1 ELSE last - count + 1 .. last

\* Fewer days prune every shift and mark outside them; more days prune nothing.
SetDayCount(count, edge) ==
  LET show == Window(count, edge) IN
  /\ show \subseteq Dates
  /\ days' = show
  /\ IF count < Cardinality(days)
       THEN Show([ shifts |-> [e \in Emps |-> [d \in Dates |->
                                IF d \in show THEN Cell(e, d) ELSE <<>>]],
                   attendance |-> Restrict(attendance, {s \in DOMAIN attendance : s[2] \in show}) ],
                 0)
       ELSE Show(Grid, 0)

SetAttendance(e, d, i, id) ==
  /\ attendance' = Marked(attendance, <<e, d, i>>, {id})
  /\ UNCHANGED <<shifts, nextId>>

ClearAttendance(e, d, i) ==
  /\ attendance' = Restrict(attendance, DOMAIN attendance \ {<<e, d, i>>})
  /\ UNCHANGED <<shifts, nextId>>

----------------------------------------------------------------------------
(* Dialogs.  They are modal: nothing else of the grid can be clicked, but  *)
(* the toasts can, and answers arrive.                                     *)

ShiftOf(e, d, i) == IF i = 0 THEN Hole ELSE Cell(e, d)[i]

Context(kind, e, d, i) ==
  [kind |-> kind, emp |-> e, day |-> d, idx |-> i, sh |-> ShiftOf(e, d, i), seen |-> employees]

Open(kind, e, d, i) ==
  /\ dialog = NoDialog /\ kind \in mix.kinds
  /\ e \in employees /\ d \in days
  /\ (kind = "shift" /\ i = 0) \/ Has(e, d, i)
  /\ kind \in Adjustments => Other(kind) \notin Cell(e, d)[i].adj  \* else see AskSwap
  /\ dialog' = Context(kind, e, d, i)
  /\ UNCHANGED <<grid, pending, stale>>

Close ==
  /\ dialog # NoDialog
  /\ dialog' = NoDialog
  /\ UNCHANGED <<grid, pending, stale>>

\* A dialog's answer applies to c, captured when it opened; people it names may
\* have left the rota since.
Answered(c, people) ==
  stale' = (~(c.idx = 0 \/ Meant(c)) \/ ~(people \subseteq employees))

SubmitShift(first, people, day) ==
  /\ dialog.kind = "shift"
  /\ first \in people /\ people \subseteq dialog.seen
  /\ ApplyShiftChange(dialog, first, people, day)
  /\ Answered(dialog, people)
  /\ dialog' = NoDialog
  /\ UNCHANGED <<days, employees, pending>>

\* The site is new: the dialog first waits for it to be created (bound: for a
\* shift of one person).
SubmitNewSite(e, day) ==
  /\ dialog.kind = "shift"
  /\ pending = NoPending
  /\ e \in dialog.seen
  /\ pending' = [kind |-> "shift", c |-> dialog, emp |-> e, day |-> day]
  /\ UNCHANGED <<grid, dialog, stale>>

SubmitMove(toEmp, toDay) ==
  /\ dialog.kind = "move"
  /\ toEmp \in dialog.seen \ {dialog.emp} /\ toDay \in days
  /\ MoveShift(dialog.emp, dialog.day, dialog.idx, toEmp, toDay)
  /\ Answered(dialog, {toEmp})
  /\ dialog' = NoDialog
  /\ UNCHANGED <<days, employees, pending>>

SubmitCopy(emps, dates) ==
  /\ dialog.kind = "copy"
  /\ emps \subseteq dialog.seen \ {dialog.emp} /\ dates \subseteq days
  /\ emps # {} \/ ~(dates \subseteq {dialog.day})
  /\ CopyShift(dialog, emps, dates)
  /\ Answered(dialog, emps)
  /\ dialog' = NoDialog
  /\ UNCHANGED <<days, employees, pending>>

\* The dialog looks its shift up again and does nothing if the slot is empty.
SubmitAttendance ==
  LET c == dialog IN
  /\ c.kind = "attendance"
  /\ Has(c.emp, c.day, c.idx)
  /\ IF c.emp \in Published
       THEN /\ pending = NoPending
            /\ pending' = [kind |-> "attendance", c |-> c]
            /\ UNCHANGED <<grid, dialog, stale>>
       ELSE /\ SetAttendance(c.emp, c.day, c.idx, c.sh.id)
            /\ Answered(c, {})
            /\ dialog' = NoDialog
            /\ UNCHANGED <<days, employees, pending>>

\* Mutant: no check that the other adjustment is absent.
Adjustable_Any(c) == Has(c.emp, c.day, c.idx)

Adjustable(c) ==
  /\ Has(c.emp, c.day, c.idx)
  /\ Other(c.kind) \notin Cell(c.emp, c.day)[c.idx].adj

\* {...sh, adjustments: [...sh.adjustments, adj]}, with sh as captured
Adjust(c, sh) == WriteShift(c.emp, c.day, c.idx, [sh EXCEPT !.adj = @ \cup {c.kind}])

SubmitAdjustment ==
  LET c == dialog IN
  /\ c.kind \in Adjustments
  /\ Adjustable(c)
  /\ IF c.emp \in Published
       THEN /\ pending = NoPending
            /\ pending' = [kind |-> "adjust", c |-> [c EXCEPT !.sh = Cell(c.emp, c.day)[c.idx]]]
            /\ UNCHANGED <<grid, dialog, stale>>
       ELSE /\ Adjust(c, Cell(c.emp, c.day)[c.idx])
            /\ Answered(c, {})
            /\ dialog' = NoDialog
            /\ UNCHANGED <<days, employees, pending>>

----------------------------------------------------------------------------
(* Menu choices, drags and the delete dialog, which shows live rows.       *)

Free == dialog = NoDialog /\ UNCHANGED <<dialog, pending, stale>>
Rows == Free /\ UNCHANGED <<days, employees>>

Drag(e, d, i, toEmp, toDay) ==
  /\ Rows
  /\ {e, toEmp} \subseteq employees /\ {d, toDay} \subseteq days
  /\ Has(e, d, i) /\ <<e, d>> # <<toEmp, toDay>>
  /\ MoveShift(e, d, i, toEmp, toDay)

Delete(e, d, i) == Rows /\ e \in employees /\ d \in days /\ Has(e, d, i) /\ DeleteShift(e, d, i)
DeleteAll(e) == Rows /\ e \in employees /\ ClearEmployee(e)
DeleteAllOfDay(e, d) == Rows /\ e \in employees /\ d \in days /\ DeleteDay(e, d)
CopyEmployee(from, to) == Rows /\ {from, to} \subseteq employees /\ from # to /\ CopyAll(from, to)

AddEmployees(S) ==
  /\ Free
  /\ employees' = employees \cup S
  /\ UNCHANGED <<days, shifts, attendance, nextId>>

\* Days that hold no listed employee's shift go without a question.
Doomed(count, edge) ==
  \E d \in days \ Window(count, edge), e \in employees : Cell(e, d) # <<>>

ChangeDays(count, edge) ==
  /\ Free /\ "days" \in mix.kinds
  /\ count # Cardinality(days) /\ ~Doomed(count, edge)
  /\ SetDayCount(count, edge)
  /\ UNCHANGED employees

----------------------------------------------------------------------------
(* Confirmations, which stay on screen while the user works on.            *)

Ask(kind, c) ==
  /\ dialog = NoDialog /\ pending = NoPending /\ kind \in mix.kinds
  /\ pending' = [kind |-> kind, c |-> c]
  /\ UNCHANGED <<grid, dialog, stale>>

AskUnmark(e, d, i) ==
  /\ e \in employees /\ d \in days /\ Has(e, d, i)
  /\ <<e, d, i>> \in DOMAIN attendance
  /\ Ask("unmark", Context("unmark", e, d, i))

\* Remove an adjustment, or remove it to record the other one.
AskUnadjust(e, d, i, kind) ==
  /\ e \in employees /\ d \in days /\ Has(e, d, i)
  /\ kind \in Cell(e, d)[i].adj
  /\ \E then \in {"unadjust", "swap"} : Ask(then, Context(kind, e, d, i))

AskRemoveEmployees(gone) ==
  gone # {} /\ gone \subseteq employees /\ Ask("remove", [gone |-> gone])

AskChangeDays(count, edge) ==
  /\ count < Cardinality(days) /\ Doomed(count, edge)
  /\ Ask("days", [count |-> count, edge |-> edge, days |-> days])

\* Cancelled or timed out, or the server refused.  A site that cannot be made
\* does not stop its shift: see Land.
Drop ==
  /\ pending.kind \notin {"none", "shift"}
  /\ pending' = NoPending
  /\ UNCHANGED <<grid, dialog, stale>>

\* removeShiftAdjustment, in the closure of the render that asked.
Unadjusted(c) == [c.sh EXCEPT !.adj = @ \ {c.kind}]

\* setOpen(false) closes that dialog, whichever shift it shows by now.
Shut(kind) == IF dialog.kind = kind THEN NoDialog ELSE dialog

\* A deferred write that names its shift by the slot it had.
LandOnSlot ==
  LET p == pending c == pending.c IN
  /\ \/ /\ p.kind = "attendance"
        /\ SetAttendance(c.emp, c.day, c.idx, c.sh.id)
        /\ dialog' = Shut("attendance")
     \/ /\ p.kind = "unmark"
        /\ ClearAttendance(c.emp, c.day, c.idx)
        /\ UNCHANGED dialog
     \/ /\ p.kind = "adjust"
        /\ Adjust(c, c.sh)
        /\ dialog' = Shut(c.kind)
     \/ /\ p.kind = "unadjust"
        /\ WriteShift(c.emp, c.day, c.idx, Unadjusted(c))
        /\ UNCHANGED dialog
     \/ /\ p.kind = "swap" /\ dialog = NoDialog  \* bound: one dialog at a time
        /\ WriteShift(c.emp, c.day, c.idx, Unadjusted(c))
        /\ dialog' = [c EXCEPT !.kind = Other(@), !.sh = Unadjusted(c)]
  /\ stale' = ~Meant(c)
  /\ UNCHANGED <<days, employees>>

Land ==
  LET p == pending IN
  /\ pending' = NoPending
  /\ \/ LandOnSlot
     \/ /\ p.kind = "shift"
        /\ ApplyShiftChange(p.c, p.emp, {p.emp}, p.day)
        /\ Answered(p.c, {p.emp})
        /\ dialog' = Shut("shift")
        /\ UNCHANGED <<days, employees>>
     \/ /\ p.kind = "remove"
        /\ RemoveEmployees(p.c.gone)
        /\ UNCHANGED <<days, dialog, stale>>
     \/ /\ p.kind = "days"
        /\ SetDayCount(p.c.count, p.c.edge)
        /\ stale' = (days # p.c.days)
        /\ UNCHANGED <<employees, dialog>>

----------------------------------------------------------------------------
Init ==
  /\ mix \in Mixes
  /\ days = mix.days
  /\ employees = Emps
  /\ shifts = [e \in Emps |-> [d \in Dates |->
                 IF <<e, d>> = InitCell THEN <<[id |-> 1, adj |-> {}]>> ELSE <<>>]]
  /\ attendance = <<>>
  /\ nextId = 2
  /\ dialog = NoDialog
  /\ pending = NoPending
  /\ stale = FALSE

DialogStep ==
  \/ \E e \in Emps, d \in Dates, i \in 0 .. MaxShifts :
       \E kind \in {"shift", "move", "copy", "attendance"} \cup Adjustments : Open(kind, e, d, i)
  \/ Close
  \/ \E e \in Emps, S \in SUBSET Emps, d \in Dates : SubmitShift(e, S, d)
  \/ \E e \in Emps, d \in Dates : SubmitNewSite(e, d) \/ SubmitMove(e, d)
  \/ \E S \in SUBSET Emps, D \in SUBSET Dates : SubmitCopy(S, D)
  \/ SubmitAttendance
  \/ SubmitAdjustment

GridStep ==
  \/ \E e, f \in Emps, d, x \in Dates, i \in 1 .. MaxShifts : Drag(e, d, i, f, x)
  \/ \E e \in Emps, d \in Dates, i \in 1 .. MaxShifts : Delete(e, d, i)
  \/ \E e \in Emps : DeleteAll(e)
  \/ \E e \in Emps, d \in Dates : DeleteAllOfDay(e, d)
  \/ \E e, f \in Emps : CopyEmployee(e, f)
  \/ \E S \in SUBSET Emps : AddEmployees(S)
  \/ \E n \in Dates, edge \in {"start", "end"} : ChangeDays(n, edge)

AskStep ==
  \/ \E e \in Emps, d \in Dates, i \in 1 .. MaxShifts : AskUnmark(e, d, i)
  \/ \E e \in Emps, d \in Dates, i \in 1 .. MaxShifts, k \in Adjustments : AskUnadjust(e, d, i, k)
  \/ \E S \in SUBSET Emps : AskRemoveEmployees(S)
  \/ \E n \in Dates, edge \in {"start", "end"} : AskChangeDays(n, edge)
  \/ Drop
  \/ Land

\* Behaviours are followed up to the first answer applied to a grid that moved on.
Next == ~stale /\ mix' = mix /\ (DialogStep \/ GridStep \/ AskStep)

Spec == Init /\ [][Next]_vars

----------------------------------------------------------------------------
(* Properties.                                                             *)

Placed == {s \in Slots : Has(s[1], s[2], s[3])}
IdAt(s) == Cell(s[1], s[2])[s[3]].id

\* The variables have their types.
TypeOK ==
  /\ days \in SUBSET Dates /\ days # {}
  /\ employees \in SUBSET Emps
  /\ shifts \in [Emps -> [Dates -> Seq(Shifts)]]
  /\ DOMAIN attendance \subseteq Slots
  /\ Range(attendance) \subseteq 1 .. MaxShifts
  /\ nextId \in 1 .. MaxShifts + 1
  /\ stale \in BOOLEAN

\* Each shift is in the grid once, and an attendance record sits in the slot of
\* the shift it was made for, through every move, copy, deletion, reassignment
\* and pruning (rota-shifts-context.tsx keys attendance by list index).
AttendanceFollows ==
  ~stale =>
    /\ \A s, t \in Placed : IdAt(s) = IdAt(t) => s = t
    /\ \A s \in DOMAIN attendance : s \in Placed /\ attendance[s] = IdAt(s)

\* Every shift belongs to an employee with a row in the planner: totals, the
\* publish count and the delete dialog go by rows, the autosave by shifts.
RowsCover == ~stale => \A s \in Placed : s[1] \in employees

\* No shift has overtime and an early finish at once, whatever answers come
\* late ("Overtime and early finish cannot apply to the same shift.").
AdjustmentsExclusive ==
  \A e \in Emps, d \in Dates : \A i \in DOMAIN Cell(e, d) :
    Cell(e, d)[i].adj # Adjustments

Book == INSTANCE ShiftBook WITH
  Cells <- Emps \X Dates,
  used <- 1 .. nextId - 1,
  place <- {<<IdAt(s), <<s[1], s[2]>>>> : s \in Placed},
  marked <- Range(attendance),
  trusted <- ~stale

\* The lists and indexes implement the book of shifts: a step makes shifts, moves
\* one with its mark, removes some with theirs, or marks or unmarks one.
ImplementsShiftBook == Book!Spec

=============================================================================
