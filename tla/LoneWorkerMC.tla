--------------------------- MODULE LoneWorkerMC ---------------------------
(***************************************************************************)
(* Constants for model checking LoneWorker: short timing rules, so that a  *)
(* check comes due, its grace expires and the ladder climbs within the     *)
(* bounded clock.                                                          *)
(***************************************************************************)
EXTENDS LoneWorker

\* Check every minute, reminder a minute before, no grace, climb every minute.
Brisk == [checkIn |-> 1, reminder |-> 1, grace |-> 0, interval |-> 1]

\* As Brisk, with a minute of grace.
Patient == [checkIn |-> 1, reminder |-> 0, grace |-> 1, interval |-> 2]

BriskOnly == {Brisk}
BriskAndPatient == {Brisk, Patient}

===========================================================================
