----------------------------- MODULE ShiftBook -----------------------------
(***************************************************************************)
(* What the rota planner promises about shifts, whatever lists and indexes *)
(* it keeps them in: a shift is made once, sits in one cell, and is moved  *)
(* or removed only on its own account; a mark belongs to one shift and     *)
(* goes where that shift goes.                                             *)
(***************************************************************************)
EXTENDS Integers

CONSTANT Cells

VARIABLES
  used,     \* shifts made so far
  place,    \* pairs of a shift that still exists and its cell
  marked,   \* shifts with attendance
  trusted   \* FALSE once an answer was applied to a grid that had moved on

vars == <<used, place, marked, trusted>>

Init ==
  /\ place \in SUBSET (used \X Cells)
  /\ marked = {}
  /\ trusted = TRUE

ShiftsOf(P) == {p[1] : p \in P}
Made == used' \ used
Left == place \ place'
Came == place' \ place

\* Shifts are made; every other stays where it is, marked as it was.
Make == Left = {} /\ ShiftsOf(Came) = Made /\ marked' = marked

\* One shift changes cell, taking its mark, and may be given to more people.
Reassign ==
  /\ \E id \in used : ShiftsOf(Left) = {id} /\ ShiftsOf(Came) = Made \cup {id}
  /\ marked' = marked

\* Shifts go, and their marks with them.
Remove == Made = {} /\ Came = {} /\ marked' = marked \ ShiftsOf(Left)

Mark ==
  /\ \E p \in place : marked' = marked \cup {p[1]}
  /\ UNCHANGED <<used, place>>

Unmark ==
  /\ \E id \in marked : marked' = marked \ {id}
  /\ UNCHANGED <<used, place>>

\* A shift never sits in two cells.
OneCell == \A p, q \in Came : p[1] = q[1] => p = q

\* Nothing is promised about what an answer that came too late leaves behind.
GiveUp == trusted' = FALSE

Next ==
  /\ trusted
  /\ \/ GiveUp
     \/ /\ trusted' /\ used \subseteq used' /\ OneCell
        /\ Make \/ Reassign \/ Remove \/ Mark \/ Unmark

Spec == Init /\ [][Next]_vars

=============================================================================
