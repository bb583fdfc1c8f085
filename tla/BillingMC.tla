----------------------------- MODULE BillingMC -----------------------------
(***************************************************************************)
(* What the payments of a tenant are checked on, in three areas of which a *)
(* behaviour moves one: refunds of handlers one at a time, with every      *)
(* operation, overrides, idempotency keys and two refunds at Stripe;       *)
(* refunds of handlers that overlap and with answers of Stripe lost; and   *)
(* the subscription.  A payment of two units has full, partial and second  *)
(* refunds.                                                                *)
(***************************************************************************)
EXTENDS Refund, Subscription

CONSTANTS q1, q2, h1

VARIABLES
  area,
  rRefunds, rAmountPaid, rRefunded, rCredit, rSpent, rStripe, rRequests, rCrashes

\* One handler at a time: what Refund is extended with.
AloneOps == {"create", "approve", "reject", "cancel", "process", "consume"}

\* Operations that race on money without taking a refund back.
Racing == INSTANCE Refund WITH
  RefundIds <- 1 .. 5, StripeIds <- {1}, Requests <- {q1, q2}, Hooks <- {h1}, Keys <- {},
  Methods <- {"stripe", "credit"}, Paid <- 2, InvoiceBased <- FALSE,
  Ops <- {"create", "approve", "process"}, Overrides <- FALSE,
  MayFail <- TRUE, MaxCrashes <- 1, Overlap <- {"create", "webhook"},
  refunds <- rRefunds, amountPaid <- rAmountPaid, refunded <- rRefunded, credit <- rCredit,
  spent <- rSpent, stripe <- rStripe, requests <- rRequests, crashes <- rCrashes

\* Of a subscription: a trial reopened by an administrator; refusals, a second purchase
\* and one fault; the request, the sweep and the webhook overlapping; events in any order.
Undisturbed ==
  [serial |-> TRUE, prompt |-> TRUE, declines |-> FALSE, eager |-> FALSE, extends |-> FALSE,
   faults |-> 0, last |-> 2, subs |-> 2]

Disturbed ==
  {[Undisturbed EXCEPT !.extends = TRUE],
   [Undisturbed EXCEPT !.declines = TRUE, !.eager = TRUE, !.faults = 1],
   [Undisturbed EXCEPT !.serial = FALSE, !.last = 1, !.subs = 1],
   [Undisturbed EXCEPT !.prompt = FALSE, !.last = 1, !.subs = 1]}

racingVars ==
  <<rRefunds, rAmountPaid, rRefunded, rCredit, rSpent, rStripe, rRequests, rCrashes>>

BillingInit ==
  /\ area \in {"alone", "racing", "subscription"}
  /\ Init /\ Racing!Init /\ SubscriptionInit
  /\ area # "subscription" => mode = CHOOSE m \in Disturbed : TRUE

BillingNext ==
  \/ area = "alone" /\ Next /\ UNCHANGED <<area, racingVars, subVars>>
  \/ area = "racing" /\ Racing!Next /\ UNCHANGED <<area, vars, subVars>>
  \/ area = "subscription" /\ SubscriptionNext /\ UNCHANGED <<area, vars, racingVars>>

BillingSpec ==
  /\ BillingInit /\ [][BillingNext]_<<area, vars, racingVars, subVars>>
  /\ WF_racingVars(area = "racing" /\ Racing!Deliver(h1))
  /\ WF_racingVars(area = "racing" /\ Racing!CommitWebhook(h1))
  /\ WF_subVars(area = "subscription" /\ Tick)
  /\ WF_subVars(area = "subscription" /\ SweepBegin)
  /\ \A k \in {"request", "sweep"} : WF_subVars(area = "subscription" /\ TaskStep(k))
  /\ WF_subVars(area = "subscription" /\ HookBegin(1))
  /\ WF_subVars(area = "subscription" /\ HookStep)
  /\ WF_subVars(area = "subscription" /\ HookEnd)

----------------------------------------------------------------------------
(* The properties of Refund for handlers one at a time, and those of       *)
(* Subscription, are the modules' own; here are those of refunds whose     *)
(* handlers overlap.                                                       *)

\* Rows, balances and what is in flight have their types.
BillingTypeOK == TypeOK /\ Racing!TypeOK /\ SubscriptionTypeOK

\* However handlers overlap, over-refunding takes a refund Stripe paid and the code forgot.
RacingOnlyForgets == Racing!OnlyForgettingOverRefunds

\* However handlers overlap, what Stripe paid ends up on exactly one refund.
RacingIsRecorded == rStripe[1].st = "refunded" ~> Racing!RecordedOnce(1)

=============================================================================
