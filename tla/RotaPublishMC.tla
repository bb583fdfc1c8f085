---------------------------- MODULE RotaPublishMC ----------------------------
(***************************************************************************)
(* Constants for RotaPublish alone: one guard, one shift that may be late  *)
(* by a unit, and one record changed on another page.                      *)
(***************************************************************************)
EXTENDS RotaPublish

CONSTANT g1

Late ==
  {[guards |-> {g1}, late |-> TRUE, kills |-> 0, pages |-> 1, shifts |-> 1, times |-> 3,
    marks |-> {"absent", "late"}]}

=============================================================================
