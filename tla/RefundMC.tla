------------------------------ MODULE RefundMC ------------------------------
(***************************************************************************)
(* Constants for model checking Refund alone: every operation a client can *)
(* ask for.                                                                *)
(***************************************************************************)
EXTENDS Refund

AllOps == {"create", "approve", "reject", "cancel", "process", "consume"}

===========================================================================
