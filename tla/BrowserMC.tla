----------------------------- MODULE BrowserMC -----------------------------
(***************************************************************************)
(* Constants and one next-state relation for the parts of the browser that *)
(* share no state: the times of a shift (ShiftClock), the clashes of an    *)
(* employee's shifts (ShiftConflicts), a plan against the server           *)
(* (RotaSync) and the session of several tabs (Session).  A behaviour      *)
(* moves one of them, area, and leaves the others in their initial state.  *)
(***************************************************************************)
EXTENDS ShiftClock, ShiftConflicts, RotaSync, Session

CONSTANTS p1, p2, t1, t2

VARIABLE area

\* Of pool changes, jumps and failures, a behaviour has two kinds, with a user who
\* waits and requests in order; or it has out-of-order requests, or plans never saved.
Bounded(p, j, f) == [pools |-> p, jumps |-> j, fails |-> f]
PlanModes ==
  [ordered : {TRUE}, careful : {TRUE}, bare : {FALSE},
   left : {Bounded(1, 1, 0), Bounded(1, 0, 1), Bounded(0, 1, 1)}]
  \cup [ordered : {FALSE}, careful : {TRUE}, bare : {FALSE}, left : {Bounded(0, 1, 1)}]
  \cup [ordered : {TRUE}, careful : {TRUE}, bare : {TRUE}, left : {Bounded(0, 1, 0)}]

BrowserInit ==
  /\ area \in {"clock", "conflicts", "sync", "tabs"}
  /\ ClockInit /\ ConflictsInit /\ SyncInit /\ SessionInit

BrowserNext ==
  \/ area = "clock" /\ ClockNext /\ UNCHANGED <<area, conflictsVars, syncVars, sessionVars>>
  \/ area = "conflicts" /\ ConflictsNext /\ UNCHANGED <<area, clockVars, syncVars, sessionVars>>
  \/ area = "sync" /\ SyncNext /\ UNCHANGED <<area, clockVars, conflictsVars, sessionVars>>
  \/ area = "tabs" /\ SessionNext /\ UNCHANGED <<area, clockVars, conflictsVars, syncVars>>

\* The properties checked are those of the four modules.
BrowserSpec ==
  /\ BrowserInit /\ [][BrowserNext]_<<area, clockVars, conflictsVars, syncVars, sessionVars>>
  /\ SyncFairness /\ SessionFairness

\* Every variable of the four has its type.
BrowserTypeOK == ClockTypeOK /\ ConflictsTypeOK /\ SyncTypeOK /\ SessionTypeOK

=============================================================================
