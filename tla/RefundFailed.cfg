SPECIFICATION Spec
CONSTANTS
  RefundIds = {1,2,3,4}
  StripeIds = {1}
  Requests = {q1}
  Hooks = {h1}
  Keys = {}
  Methods = {"stripe", "credit"}
  Paid = 2
  InvoiceBased = FALSE
  Ops <- AllOps
  Overrides = FALSE
  MayFail = TRUE
  MaxCrashes = 0
  Overlap = {}
INVARIANT NoOverRefund
CHECK_DEADLOCK FALSE
