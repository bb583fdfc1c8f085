SPECIFICATION Spec
CONSTANTS
  RefundIds = {1,2,3,4}
  StripeIds = {1}
  Requests = {q1}
  Hooks = {h1}
  Keys = {}
  Methods = {"manual"}
  Paid = 2
  InvoiceBased = TRUE
  Ops <- AllOps
  Overrides = FALSE
  MayFail = FALSE
  MaxCrashes = 0
  Overlap = {}
INVARIANT RemainingIsExact
CHECK_DEADLOCK FALSE
