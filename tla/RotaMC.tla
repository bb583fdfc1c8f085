------------------------------- MODULE RotaMC -------------------------------
(***************************************************************************)
(* Constants and one next-state relation for a rota plan's two halves,     *)
(* which share no state: the grid in the browser (RotaGrid), and the plan, *)
(* its assignments and their attendance on the server (RotaPublish).  A    *)
(* behaviour moves one of them, area.                                      *)
(***************************************************************************)
EXTENDS RotaGrid, RotaPublish

CONSTANTS e1, e2, g1, g2

VARIABLE area

\* Two employees, one published, two days and a plan with one shift in it.
FirstCell == <<e1, 1>>

Mix(kinds, most, shown) == [kinds |-> kinds, made |-> most, days |-> shown]

Work == {
  Mix({"attendance", "unmark", "remove"}, 2, {1, 2}),
  Mix({"shift", "remove"}, 2, {1, 2}),
  Mix({"shift", "attendance"}, 2, {1}),
  Mix({"move", "attendance"}, 2, {1, 2}),
  Mix({"copy", "attendance", "days"}, 2, {1, 2}),
  Mix(Adjustments \cup {"unadjust", "swap"}, 2, {1}),
  \* three shifts in a day, for the indexes
  Mix({"attendance"}, 3, {1}) }

Base == [guards |-> {g1}, late |-> FALSE, kills |-> 0, pages |-> 1, shifts |-> 2, times |-> 3,
         marks |-> {"absent"}]

\* Two shifts of one guard; of two guards at one time; and one shift with saves killed and
\* answers lost, or late by a unit.
Disturbed ==
  {[Base EXCEPT !.times = 2],
   [Base EXCEPT !.guards = {g1, g2}, !.times = 1, !.marks = {}],
   [Base EXCEPT !.shifts = 1, !.kills = 1, !.marks = {"absent", "on_time"}],
   [Base EXCEPT !.shifts = 1, !.kills = 1, !.late = TRUE, !.marks = {"absent", "late"}]}

RotaInit ==
  /\ area \in {"grid", "server"}
  /\ Init /\ PublicationInit
  /\ area = "grid" => mode = CHOOSE m \in Disturbed : TRUE
  /\ area = "server" => mix = CHOOSE m \in Work : TRUE

RotaNext ==
  \/ area = "grid" /\ Next /\ UNCHANGED <<area, planVars>>
  \/ area = "server" /\ PublicationNext /\ UNCHANGED <<area, vars>>

RotaSpec == RotaInit /\ [][RotaNext]_<<area, vars, planVars>>

----------------------------------------------------------------------------
(* The properties checked are those of the two modules.                    *)

\* The variables of the half that moves have their types.
RotaTypeOK == IF area = "grid" THEN TypeOK ELSE PublicationTypeOK

=============================================================================
