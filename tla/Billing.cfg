SPECIFICATION BillingSpec
CONSTANTS
  q1 = q1
  q2 = q2
  h1 = h1
  RefundIds = {1,2,3,4}
  StripeIds = {1,2}
  Requests = {q1}
  Hooks = {h1}
  Keys = {1}
  Methods = {"stripe", "credit"}
  Paid = 2
  InvoiceBased = FALSE
  Ops <- AloneOps
  Overrides = TRUE
  MayFail = FALSE
  MaxCrashes = 1
  Overlap = {}
  Modes <- Disturbed
INVARIANT BillingTypeOK
INVARIANT NoOverRefund
INVARIANT BalancesAddUp
 
INVARIANT RacingOnlyForgets
INVARIANT ChargedOnce
INVARIANT SettledBooks
PROPERTY CompletedIsFinal
PROPERTY RacingIsRecorded
PROPERTY TrialEnds
CHECK_DEADLOCK FALSE
