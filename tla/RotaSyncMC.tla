----------------------------- MODULE RotaSyncMC -----------------------------
(***************************************************************************)
(* Constants for RotaSync alone: requests in order, no failures, no moves  *)
(* by the browser's buttons and a staff pool that stays; but a user who    *)
(* goes on editing while the page waits for a save.                        *)
(***************************************************************************)
EXTENDS RotaSync

EditingOn ==
  {[ordered |-> TRUE, careful |-> FALSE, bare |-> FALSE,
    left |-> [pools |-> 0, jumps |-> 0, fails |-> 0]]}

=============================================================================
