------------------------------- MODULE Refund -------------------------------
(***************************************************************************)
(* Refunds of one payment (backend/app/services/refund_service.py): the    *)
(* admin creates, approves, rejects, cancels and processes them, Stripe    *)
(* pays them and its charge.refunded webhook records them.                 *)
(*                                                                         *)
(* Handlers read without a lock and write later, so each is a read step,   *)
(* which keeps what it read in requests[r], and a commit step.  Processing *)
(* commits "processing", calls Stripe, and applies the money last.         *)
(***************************************************************************)
EXTENDS Integers, FiniteSets, FiniteSetsExt

CONSTANTS
  RefundIds,      \* primary keys of PaymentRefund, as many as the bound allows
  StripeIds,      \* Stripe's refunds
  Requests,       \* admin handlers that can be in flight at once
  Hooks,          \* webhook deliveries that can be in flight at once
  Keys,           \* idempotency keys clients send
  Methods,        \* refund methods asked for
  Paid,           \* what the customer paid, in the smallest unit modelled
  InvoiceBased,   \* the payment is a SubscriptionInvoice, else a BillingReceipt
  Ops,            \* operations the run lets clients ask for
  Overrides,      \* an admin may override the limits
  MayFail,        \* Stripe's answer can be lost and the last commit of process_refund raise
  MaxCrashes,     \* bound: handlers killed
  Overlap         \* operations whose handlers may begin while others are in flight

VARIABLES
  refunds,    \* the PaymentRefund table
  amountPaid, \* SubscriptionInvoice.amount_paid, or BillingReceipt.amount
  refunded,   \* BillingReceipt.amount_refunded
  credit,     \* Company.account_credit_balance
  spent,      \* credit the company's invoices have used
  stripe,     \* what Stripe refunded, and for which row
  requests, crashes

vars == <<refunds, amountPaid, refunded, credit, spent, stripe, requests, crashes>>
money == <<amountPaid, refunded, credit, spent>>

NoRow == [st |-> "none"]
Idle == [op |-> "idle"]

\* Mutant: a completed refund no longer counts against the payment.
Committed_Open == {"pending_approval", "approved", "processing"}

Committed == {"pending_approval", "approved", "processing", "completed"}  \* ACTIVE_STATUSES

Rows == {r \in RefundIds : refunds[r].st # "none"}
\* processed_amount or approved_amount or amount
Counted(row) == IF row.processed # 0 THEN row.processed ELSE row.amount
\* What the rows in S count for: their units of money, row by row.
Total(S) == Cardinality({u \in S \X (1 .. Paid) : u[2] <= Counted(refunds[u[1]])})

\* Mutant: no cap at the amount of the receipt.
AtMost_Uncapped(n, cap) == n

AtMost(n, cap) == IF n < cap THEN n ELSE cap
NotBelowZero(n) == IF n > 0 THEN n ELSE 0
Fresh(rows, n) == rows[n].st = "none" /\ \A m \in DOMAIN rows : m < n => rows[m].st # "none"

\* _committed_refund_total without the refunds in skip.
CommittedTotal(skip) == Total({r \in Rows \ skip : refunds[r].st \in Committed})

\* _resolve_payment_context: what can still be refunded.
Remaining == NotBelowZero(amountPaid - CommittedTotal({}))

\* What approve and process find left for row r.
Left(r) == NotBelowZero(refunds[r].paid - CommittedTotal({r}))

-----------------------------------------------------------------------------
Slots == Requests \cup Hooks
MayBegin(op) == op \in Overlap \/ \A q \in Slots : requests[q] = Idle

\* bound: every create in flight and every Stripe refund finds a row to insert
RoomForRefund == Cardinality(RefundIds \ Rows) >= Cardinality(Requests) + Cardinality(StripeIds)

Begin(q, req) ==
  /\ MayBegin(req.op)
  /\ requests[q] = Idle
  /\ requests' = [requests EXCEPT ![q] = req]
  /\ UNCHANGED <<refunds, money, stripe, crashes>>

Finish(q) == requests' = [requests EXCEPT ![q] = Idle]
Goto(q, op) == requests' = [requests EXCEPT ![q].op = op]

SetStatus(q, st) ==
  /\ refunds' = [refunds EXCEPT ![requests[q].r].st = st]
  /\ Finish(q)
  /\ UNCHANGED <<money, stripe, crashes>>

\* create_refund: without an override at most what remains; small amounts and
\* skip_approval need no approval.
BeginCreate(q, method, amount, override) ==
  /\ RoomForRefund
  /\ override \/ amount <= Remaining
  /\ \E key \in Keys \cup {0}, st \in {"pending_approval", "approved"} :
       /\ key # 0 => \A r \in Rows : refunds[r].key # key
       /\ Begin(q, [op |-> "create",
                    row |-> [st |-> st, amount |-> amount, paid |-> amountPaid, key |-> key,
                             override |-> override, method |-> method, stripe |-> 0,
                             processed |-> 0]])

\* idempotency_key is unique: the insert of a key taken meanwhile fails.
CommitCreate(q) ==
  LET row == requests[q].row IN
  /\ requests[q].op = "create"
  /\ IF row.key # 0 /\ \E r \in Rows : refunds[r].key = row.key
     THEN UNCHANGED refunds
     ELSE \E r \in RefundIds : Fresh(refunds, r) /\ refunds' = [refunds EXCEPT ![r] = row]
  /\ Finish(q)
  /\ UNCHANGED <<money, stripe, crashes>>

BeginApprove(q, r, amount) ==
  /\ refunds[r].st = "pending_approval"
  /\ amount <= Left(r)
  /\ Begin(q, [op |-> "approve", r |-> r, amount |-> amount])

CommitApprove(q) ==
  /\ requests[q].op = "approve"
  /\ refunds' = [refunds EXCEPT ![requests[q].r].st = "approved",
                                ![requests[q].r].amount = requests[q].amount]
  /\ Finish(q)
  /\ UNCHANGED <<money, stripe, crashes>>

BeginReject(q, r) ==
  /\ refunds[r].st \in {"pending_approval", "approved"}
  /\ Begin(q, [op |-> "reject", r |-> r])

CommitReject(q) == requests[q].op = "reject" /\ SetStatus(q, "rejected")

\* Mutant: a completed refund can be cancelled.
BeginCancel_Completed(q, r) ==
  /\ refunds[r].st \notin {"none", "processing", "cancelled"}
  /\ Begin(q, [op |-> "cancel", r |-> r])

BeginCancel(q, r) ==
  /\ refunds[r].st \notin {"none", "completed", "processing", "cancelled"}
  /\ Begin(q, [op |-> "cancel", r |-> r])

CommitCancel(q) == requests[q].op = "cancel" /\ SetStatus(q, "cancelled")

-----------------------------------------------------------------------------
\* process_refund

\* Mutant: a refund stuck in processing can be processed again.
BeginProcess_Retry(q, r) ==
  /\ refunds[r].st \in {"approved", "processing"}
  /\ refunds[r].amount <= Left(r) \/ refunds[r].override
  /\ refunds[r].stripe = 0
  /\ Begin(q, [op |-> "process", r |-> r])

BeginProcess(q, r) ==
  /\ refunds[r].st = "approved"
  /\ refunds[r].amount <= Left(r) \/ refunds[r].override
  /\ refunds[r].stripe = 0
  /\ Begin(q, [op |-> "process", r |-> r])

CommitProcessing(q) ==
  LET r == requests[q].r IN
  /\ requests[q].op = "process"
  /\ refunds' = [refunds EXCEPT ![r].st = "processing"]
  /\ requests' = [requests EXCEPT ![q] =
       [op |-> IF refunds[r].method = "stripe" THEN "charge" ELSE "apply", r |-> r, sid |-> 0,
        amount |-> refunds[r].amount]]
  /\ UNCHANGED <<money, stripe, crashes>>

StripeTotal ==
  MapThenSumSet(LAMBDA x : stripe[x].amount, {x \in StripeIds : stripe[x].st = "refunded"})

\* Stripe pays refund x, unless it would refund more than the charge or finds no charge.
StripePays(p, x) ==
  /\ ~InvoiceBased
  /\ StripeTotal + p.amount <= Paid
  /\ Fresh(stripe, x)
  /\ stripe' = [stripe EXCEPT ![x] = [st |-> "refunded", amount |-> p.amount, r |-> p.r]]

\* _stripe_refund succeeds.
Charge(q) ==
  /\ requests[q].op = "charge"
  /\ \E x \in StripeIds :
       /\ StripePays(requests[q], x)
       /\ requests' = [requests EXCEPT ![q].op = "apply", ![q].sid = x]
  /\ UNCHANGED <<refunds, money, crashes>>

\* It raises: no charge, more than the charge, or Stripe is unreachable, before it paid or
\* after.
ChargeFails(q) ==
  LET r == requests[q].r IN
  /\ requests[q].op = "charge"
  /\ \/ UNCHANGED stripe
     \/ MayFail /\ \E x \in StripeIds : StripePays(requests[q], x)
  /\ refunds' = [refunds EXCEPT ![r].st = "failed"]
  /\ Finish(q)
  /\ UNCHANGED <<money, crashes>>

\* _apply_financials reads the rows it adds to.
ReadFinancials(q) ==
  LET p == requests[q] IN
  /\ p.op = "apply"
  /\ requests' = [requests EXCEPT ![q] =
       [op |-> "complete", r |-> p.r, sid |-> p.sid, amount |-> p.amount,
        amountPaid |-> amountPaid, refunded |-> refunded, credit |-> credit]]
  /\ UNCHANGED <<refunds, money, stripe, crashes>>

\* Mutant: a refund we asked for counts as recorded, whatever became of its row.
Recorded_Asked(x) == stripe[x].st = "refunded" /\ stripe[x].r \in Rows

Recorded(x) == \E r \in Rows : refunds[r].stripe = x

\* stripe_refund_id is unique.
SidTaken(p) == p.sid # 0 /\ \E r \in Rows \ {p.r} : refunds[r].stripe = p.sid

\* What _apply_financials makes of the balances it read.
NewRefunded(p) == IF InvoiceBased THEN refunded ELSE AtMost(p.refunded + p.amount, Paid)

\* Mutant: the balance is replaced, not increased.
NewCredit_Replaced(p) == IF refunds[p.r].method = "credit" THEN p.amount ELSE credit

NewCredit(p) == IF refunds[p.r].method = "credit" THEN p.credit + p.amount ELSE credit

Complete(q) ==
  LET p == requests[q] IN
  /\ p.op = "complete"
  /\ ~SidTaken(p)
  /\ refunds' = [refunds EXCEPT ![p.r].st = "completed", ![p.r].processed = p.amount,
                                ![p.r].stripe = IF p.sid = 0 THEN @ ELSE p.sid]
  /\ amountPaid' = IF InvoiceBased THEN NotBelowZero(p.amountPaid - p.amount) ELSE amountPaid
  /\ refunded' = NewRefunded(p)
  /\ credit' = NewCredit(p)
  /\ Finish(q)
  /\ UNCHANGED <<spent, stripe, crashes>>

\* The commit raises: everything is rolled back, the Stripe id with it, and only the
\* failure is recorded.
CompleteFails(q) ==
  /\ requests[q].op = "complete"
  /\ MayFail \/ SidTaken(requests[q])
  /\ SetStatus(q, "failed")

-----------------------------------------------------------------------------
\* sync_stripe_refund_event: Stripe delivers each refund, again and again, to be recorded
\* unless a row has its id.
BeginWebhook(q, x) ==
  /\ stripe[x].st # "none"
  /\ ~Recorded(x)
  /\ Begin(q, [op |-> "webhook", x |-> x, refunded |-> refunded])

\* Mutant: the webhook records the refund but not on its receipt.
CommitWebhook_NoReceipt(q) ==
  LET x == requests[q].x IN
  /\ requests[q].op = "webhook"
  /\ IF Recorded(x)
     THEN UNCHANGED refunds
     ELSE \E r \in RefundIds :
            /\ Fresh(refunds, r)
            /\ refunds' = [refunds EXCEPT ![r] =
                 [st |-> "completed", amount |-> stripe[x].amount, paid |-> Paid, key |-> 0,
                  override |-> FALSE, method |-> "stripe", stripe |-> x,
                  processed |-> stripe[x].amount]]
  /\ Finish(q)
  /\ UNCHANGED <<money, stripe, crashes>>

CommitWebhook(q) ==
  LET x == requests[q].x IN
  /\ requests[q].op = "webhook"
  /\ IF Recorded(x)
     THEN UNCHANGED <<refunds, refunded>>
     ELSE /\ \E r \in RefundIds :
               /\ Fresh(refunds, r)
               /\ refunds' = [refunds EXCEPT ![r] =
                    [st |-> "completed", amount |-> stripe[x].amount, paid |-> Paid, key |-> 0,
                     override |-> FALSE, method |-> "stripe", stripe |-> x,
                     processed |-> stripe[x].amount]]
          /\ refunded' = AtMost(requests[q].refunded + stripe[x].amount, Paid)
  /\ Finish(q)
  /\ UNCHANGED <<amountPaid, credit, spent, stripe, crashes>>

\* consume_account_credit, called when an invoice is marked paid.
BeginConsume(q, upTo) ==
  /\ credit > 0
  /\ Begin(q, [op |-> "consume", used |-> AtMost(upTo, credit), credit |-> credit])

CommitConsume(q) ==
  LET p == requests[q] IN
  /\ p.op = "consume"
  /\ credit' = p.credit - p.used
  /\ spent' = spent + p.used
  /\ Finish(q)
  /\ UNCHANGED <<refunds, amountPaid, refunded, stripe, crashes>>

Crash(q) ==
  /\ crashes < MaxCrashes
  /\ requests[q] # Idle
  /\ crashes' = crashes + 1
  /\ Finish(q)
  /\ UNCHANGED <<refunds, money, stripe>>

-----------------------------------------------------------------------------
Init ==
  /\ refunds = [r \in RefundIds |-> NoRow]
  /\ amountPaid = Paid
  /\ refunded = 0
  /\ credit = 0
  /\ spent = 0
  /\ stripe = [x \in StripeIds |-> NoRow]
  /\ requests = [q \in Slots |-> Idle]
  /\ crashes = 0

Ask(q) ==
  \/ \E method \in Methods, amount \in 1..Paid, override \in {FALSE, Overrides} :
       "create" \in Ops /\ BeginCreate(q, method, amount, override)
  \/ \E r \in RefundIds, amount \in 1..Paid : "approve" \in Ops /\ BeginApprove(q, r, amount)
  \/ \E r \in RefundIds : "reject" \in Ops /\ BeginReject(q, r)
  \/ \E r \in RefundIds : "cancel" \in Ops /\ BeginCancel(q, r)
  \/ \E r \in RefundIds : "process" \in Ops /\ BeginProcess(q, r)
  \/ \E upTo \in 1..Paid : "consume" \in Ops /\ BeginConsume(q, upTo)

Deliver(q) == \E x \in StripeIds : BeginWebhook(q, x)

Commit(q) ==
  \/ CommitCreate(q) \/ CommitApprove(q) \/ CommitReject(q) \/ CommitCancel(q)
  \/ CommitProcessing(q) \/ Charge(q) \/ ChargeFails(q) \/ ReadFinancials(q) \/ Complete(q)
  \/ CompleteFails(q) \/ CommitWebhook(q) \/ CommitConsume(q)

Next ==
  \/ \E q \in Requests : Ask(q)
  \/ \E h \in Hooks : Deliver(h)
  \/ \E q \in Slots : Commit(q) \/ Crash(q)

Spec == Init /\ [][Next]_vars

\* Stripe delivers an event again until it is acknowledged, and a handler that runs ends.
Fairness == \A h \in Hooks : WF_vars(Deliver(h)) /\ WF_vars(CommitWebhook(h))

FairSpec == Spec /\ Fairness

-----------------------------------------------------------------------------
\* Properties.

Row == [st : Committed \cup {"rejected", "cancelled", "failed"}, amount : 1..Paid,
        processed : 0..Paid, paid : 0..Paid, key : Keys \cup {0}, override : BOOLEAN,
        method : Methods \cup {"stripe"}, stripe : StripeIds \cup {0}]

\* Rows have the shape of the schema and balances stay within what was paid.
TypeOK ==
  /\ refunds \in [RefundIds -> Row \cup {NoRow}]
  /\ amountPaid \in 0..Paid /\ refunded \in 0..Paid
  /\ credit \in Nat /\ spent \in Nat
  /\ stripe \in [StripeIds ->
       [st : {"refunded"}, amount : 1..Paid, r : RefundIds] \cup {NoRow}]
  /\ crashes \in 0..MaxCrashes

PaidOut == {r \in Rows : refunds[r].processed # 0}

\* No more is paid back than was paid, unless an admin overrode the limits.
NoOverRefund == (\E r \in Rows : refunds[r].override) \/ Total(PaidOut) <= Paid

\* A refund Stripe paid that process_refund recorded as failed.
Forgotten ==
  \E x \in StripeIds : stripe[x].st = "refunded" /\ refunds[stripe[x].r].st \notin Committed

\* However creates, processing, crashes and webhooks overlap, more than was paid is paid
\* back only after process_refund forgot a refund Stripe paid.
OnlyForgettingOverRefunds == NoOverRefund \/ Forgotten

\* amount_refunded of the receipt is the sum of the refunds paid out of it.
RefundedMatches == ~InvoiceBased => refunded = AtMost(Total(PaidOut), Paid)

\* Credit granted by refunds is the balance plus what invoices used.
CreditConserved == credit + spent = Total({r \in PaidOut : refunds[r].method = "credit"})

\* The receipt and the credit account agree with the refunds that were paid out.
BalancesAddUp == RefundedMatches /\ CreditConserved

\* process_refund asks Stripe at most once for each refund ("Duplicate Stripe prevention").
StripeOnce ==
  \A x, y \in StripeIds :
    stripe[x].st = "refunded" /\ stripe[y].st = "refunded" /\ stripe[x].r = stripe[y].r => x = y

\* A refund paid out keeps its status and its amount.
KeepsCompleted ==
  \A r \in RefundIds : refunds[r].st = "completed" => refunds'[r] = refunds[r]

CompletedIsFinal == [][KeepsCompleted]_vars

\* What Stripe paid is on exactly one refund.
RecordedOnce(x) == Cardinality({r \in Rows : refunds[r].stripe = x}) = 1

\* What Stripe paid ends up on exactly one refund, whoever records it first.
StripeIsRecorded == \A x \in StripeIds : (stripe[x].st = "refunded") ~> RecordedOnce(x)

\* "Refund 100% of remaining paid amount": what remains is what was paid less what is
\* committed to refunds.
RemainingIsExact == Remaining = NotBelowZero(Paid - CommittedTotal({}))

=============================================================================
