---------------------------- MODULE Subscription ----------------------------
(***************************************************************************)
(* Trials and the paid subscription of one company                         *)
(* (backend/app/services/trial_service.py and                              *)
(* stripe_subscription_service.py): a request of the tenant and the sweep  *)
(* of the worker end a trial and charge at Stripe, Stripe ends trials by   *)
(* itself, and its webhooks bring the company row up to date.              *)
(*                                                                         *)
(* Handlers read without a lock and commit several times.  What one of     *)
(* them has still to do is a list of steps, each ending in a commit or in  *)
(* a call of Stripe; a process killed forgets the list.                    *)
(*                                                                         *)
(* Plans, prices, cycles and periods are left out, and so are changes of   *)
(* status by an administrator other than those of trials.                  *)
(***************************************************************************)
EXTENDS Integers, SequencesExt

CONSTANT
  Modes \* what may happen in a behaviour, and its bounds: records as in mode

VARIABLES
  \* What may happen.  serial: handlers and purchases do not overlap; prompt: events
  \* arrive in order and before anything else is begun; declines: payments may be
  \* refused; eager: the customer may buy while subscribed; extends: an administrator
  \* may extend one trial; faults: processes killed, answers or acknowledgements lost.
  \* Bounds: time is 0 .. last, a trial lasting one unit, and Stripe makes at most subs
  \* subscriptions.
  mode,
  now,
  company,   \* subscription_status, subscription_end and stripe_subscription_id
  trials,    \* TrialPeriod rows, by primary key
  receipt,   \* the SubscriptionReceipt of the signup: pending or paid
  card,      \* the customer has a payment method at Stripe
  checkout,  \* the checkout session open at Stripe: none, or with or without a trial
  subs,      \* Stripe's subscriptions
  events,    \* Stripe's events not yet acknowledged
  invoices,  \* payments Stripe took: 1 .. invoices
  billed,    \* those with a BillingReceipt
  hook,      \* the webhook in flight: the route handles one at a time
  tasks,     \* a request of the tenant and the worker's sweep
  extended,  \* bound: an administrator extended a trial, once
  faults     \* what is left of mode.faults

subVars == <<mode, now, company, trials, receipt, card, checkout, subs, events, invoices, billed,
          hook, tasks, extended, faults>>
rows == <<company, trials, receipt, billed>>
remote == <<card, checkout, subs, events, invoices>>

Far == 99  \* the end of a paid period
NoHook == [todo |-> <<>>]
NoTask == [todo |-> <<>>]
NoSnap == [sub |-> 0, status |-> "none"]
Kinds == {"request", "sweep"}
Open == {"active", "extended"}
Live == {"trialing", "active", "past_due"}

LiveSubs == {s \in DOMAIN subs : subs[s].status \in Live}

Quiet == hook = NoHook /\ \A k \in Kinds : tasks[k] = NoTask
MayHook == mode.serial => Quiet
MayStart == MayHook /\ (mode.prompt => events = <<>>)
MayBuy == mode.eager \/ LiveSubs = {}

----------------------------------------------------------------------------
(* Trial rows.                                                             *)

Latest(S) == CHOOSE i \in S \cup {0} : \A j \in S : j <= i

\* active_trial_for_company: a key, or 0.
ActiveTrial(tr) == Latest({i \in DOMAIN tr : tr[i].status \in Open})

\* The trial mark_trial_converted picks: the active one, else the latest expired.
Convertible(tr) ==
  IF ActiveTrial(tr) # 0 THEN ActiveTrial(tr)
  ELSE Latest({i \in DOMAIN tr : tr[i].status = "expired"})

SetTrial(tr, i, status) == IF i = 0 THEN tr ELSE [tr EXCEPT ![i].status = status]

NewTrial(tr, ends) == Append(tr, [status |-> "active", ends |-> ends])

----------------------------------------------------------------------------
(* _sync_company_subscription, from a snapshot of subscription s.          *)

\* The trial t is the one the caller has expired without a commit, or 0.
Synced(s, status, t) ==
  /\ company' = [status |-> status, sub |-> s,
                 end |-> IF status = "trialing" THEN subs[s].trialEnd ELSE Far]
  /\ trials' = CASE status = "active" ->
                      SetTrial(SetTrial(trials, t, "expired"), Convertible(trials), "converted")
                 [] status = "trialing" /\ ActiveTrial(trials) = 0 -> NewTrial(trials, subs[s].trialEnd)
                 [] OTHER -> SetTrial(trials, t, "expired")

----------------------------------------------------------------------------
(* Stripe.                                                                 *)

SubEvent(s, status) == [kind |-> "subscription", sub |-> s, status |-> status]
\* Each paid invoice is told twice: invoice.paid and invoice.payment_succeeded.
InvoiceEvents(s, n) == [i \in 1 .. 2 |-> [kind |-> "invoice", sub |-> s, inv |-> n]]
Event(kind, s) == [kind |-> kind, sub |-> s]

Pays(s) ==
  /\ invoices' = invoices + 1
  /\ subs' = [subs EXCEPT ![s].status = "active"]
  /\ events' = events \o <<SubEvent(s, "active")>> \o InvoiceEvents(s, invoices')

Declines(s) ==
  /\ mode.declines
  /\ subs' = [subs EXCEPT ![s].status = "past_due"]
  /\ events' = events \o <<SubEvent(s, "past_due"), Event("failed", s)>>
  /\ UNCHANGED invoices

\* Subscription.create with a card that pays.
Creates ==
  /\ Len(subs) < mode.subs
  /\ invoices' = invoices + 1
  /\ subs' = Append(subs, [status |-> "active", trialEnd |-> now, ref |-> FALSE])
  /\ events' = events \o <<SubEvent(Len(subs'), "active")>> \o InvoiceEvents(Len(subs'), invoices')

TrialEndsAtStripe(s) ==
  /\ subs[s].status = "trialing" /\ now >= subs[s].trialEnd
  /\ Pays(s) \/ Declines(s)
  /\ UNCHANGED <<mode, now, rows, card, checkout, hook, tasks, extended, faults>>

\* A later attempt at a payment that was refused.
Retries(s) ==
  /\ subs[s].status = "past_due"
  /\ Pays(s)
  /\ UNCHANGED <<mode, now, rows, card, checkout, hook, tasks, extended, faults>>

\* At the end of the period, by the customer or after the last attempt.
Ends(s) ==
  /\ subs[s].status \in {"active", "past_due"}
  /\ subs' = [subs EXCEPT ![s].status = "canceled"]
  /\ events' = Append(events, Event("deleted", s))
  /\ UNCHANGED <<mode, now, rows, card, checkout, invoices, hook, tasks, extended, faults>>

\* The customer completes the checkout: a trial, or a first payment.
Buy ==
  LET trial == checkout = "trial" s == Len(subs) + 1 IN
  /\ checkout # "none" /\ checkout' = "none"
  /\ MayStart /\ MayBuy
  /\ s <= mode.subs                                             \* bound
  /\ invoices' = IF trial THEN invoices ELSE invoices + 1
  /\ card' = TRUE
  /\ subs' = Append(subs, [status |-> IF trial THEN "trialing" ELSE "active",
                           trialEnd |-> now + 1, ref |-> TRUE])
  /\ events' = events \o <<SubEvent(s, subs'[s].status), Event("completed", s)>>
                      \o InvoiceEvents(s, IF trial THEN 0 ELSE invoices')
  /\ UNCHANGED <<mode, now, rows, hook, tasks, extended, faults>>

AttachCard ==
  /\ ~card /\ card' = TRUE
  /\ UNCHANGED <<mode, now, rows, checkout, subs, events, invoices, hook, tasks, extended, faults>>

----------------------------------------------------------------------------
(* Handlers of the customer and of administrators with one commit.         *)

\* create_checkout_session asks only whether the receipt was paid.
CreateCheckout ==
  /\ receipt = "pending" /\ MayStart
  /\ checkout = "none"                                        \* bound
  /\ MayBuy
  /\ checkout' = IF company.status = "pending" /\ trials = <<>> THEN "trial" ELSE "paid"
  /\ UNCHANGED <<mode, now, rows, card, subs, events, invoices, hook, tasks, extended, faults>>

\* start_trial without force.
StartTrial ==
  /\ MayStart
  /\ company.status # "active" /\ trials = <<>> /\ card
  /\ now < mode.last                                           \* bound
  /\ trials' = NewTrial(trials, now + 1)
  /\ company' = [company EXCEPT !.status = "trialing", !.end = now + 1]
  /\ UNCHANGED <<mode, now, receipt, billed, remote, hook, tasks, extended, faults>>

\* In whatever status the trial is; nothing is told to Stripe.
ExtendTrial(i) ==
  LET ends == 1 + IF trials[i].ends > now THEN trials[i].ends ELSE now IN
  /\ MayStart
  /\ mode.extends /\ ~extended /\ ends <= mode.last            \* bound: once
  /\ extended' = TRUE
  /\ trials' = [trials EXCEPT ![i] = [status |-> "extended", ends |-> ends]]
  /\ company' = [company EXCEPT !.status = "trialing", !.end = ends]
  /\ UNCHANGED <<mode, now, receipt, billed, remote, hook, tasks, faults>>

----------------------------------------------------------------------------
(* Ending a trial: a request (sync_if_needed, expire_trial) or the sweep   *)
(* (sync_expired_trials), which commits at its end.                        *)

Due(end) == end <= now

\* A request reads the company, commits the end and charges.
RequestBegin ==
  /\ MayStart /\ tasks["request"] = NoTask
  /\ company.status = "trialing" /\ Due(company.end)
  /\ tasks' = [tasks EXCEPT !["request"] =
       [todo |-> IF ActiveTrial(trials) = 0 THEN <<"expire">> ELSE <<"expire", "charge">>,
        trial |-> ActiveTrial(trials), seen |-> company, orphan |-> FALSE, snap |-> NoSnap]]
  /\ UNCHANGED <<mode, now, rows, remote, hook, extended, faults>>

\* The sweep reads the trial that is due, if any (active trials are one at a time).
SweepBegin ==
  LET t == Latest({i \in DOMAIN trials : trials[i].status \in Open /\ Due(trials[i].ends)}) IN
  /\ MayStart /\ tasks["sweep"] = NoTask
  /\ tasks' = [tasks EXCEPT !["sweep"] =
       [todo |-> IF t = 0 THEN <<"orphans">> ELSE <<"charge", "orphans">>,
        trial |-> t, seen |-> company, orphan |-> FALSE, snap |-> NoSnap]]
  /\ UNCHANGED <<mode, now, rows, remote, hook, extended, faults>>

Step(k) == IF tasks[k].todo = <<>> THEN "none" ELSE Head(tasks[k].todo)
\* The step is done, and what follows is t.
Then(k, t) == tasks' = [tasks EXCEPT ![k] = IF t.todo = <<>> THEN NoTask ELSE t]
Rest(k) == [tasks[k] EXCEPT !.todo = Tail(@)]

\* Written over whatever the rows hold by now; the company is read again after it.
Expire ==
  LET t == tasks["request"] IN
  /\ Step("request") = "expire"
  /\ trials' = SetTrial(trials, t.trial, "expired")
  /\ company' = [company EXCEPT !.status = "trial_expired"]
  /\ Then("request", [Rest("request") EXCEPT !.seen = company'])
  /\ UNCHANGED <<mode, now, receipt, billed, remote, hook, extended, faults>>

\* What Stripe says of the subscription the company row names.
Known(c) == IF c.sub = 0 THEN "none" ELSE subs[c.sub].status

\* Mutant: a subscription already active at Stripe is no reason not to charge.
NothingToCharge_Unasked(c) == c.status = "active" \/ (Known(c) # "trialing" /\ ~card)

NothingToCharge(c) == c.status = "active" \/ Known(c) = "active" \/ (Known(c) # "trialing" /\ ~card)

\* A commit within the charge takes the sweep's pending changes with it.
Pending(k) == IF k = "sweep" THEN tasks[k].trial ELSE 0
Reloaded(k) == [Rest(k) EXCEPT !.trial = 0, !.orphan = FALSE]

\* Step "sync" is _sync_company_subscription with the answer just received.
Sync(k, s, status) ==
  [Rest(k) EXCEPT !.todo = <<"sync">> \o @, !.snap = [sub |-> s, status |-> status]]

ChargeNothing(k) ==
  /\ Step(k) = "charge" /\ NothingToCharge(tasks[k].seen)
  /\ Then(k, Rest(k))
  /\ UNCHANGED <<mode, now, rows, remote, hook, extended, faults>>

\* trial_end="now"
ChargeTrial(k) ==
  LET c == tasks[k].seen IN
  /\ Step(k) = "charge" /\ ~NothingToCharge(c) /\ Known(c) = "trialing"
  /\ Pays(c.sub) \/ Declines(c.sub)
  /\ \/ /\ Then(k, Sync(k, c.sub, subs'[c.sub].status))
        /\ UNCHANGED faults
     \* changed, but the answer is lost: it goes on as if there were no subscription
     \/ /\ faults > 0 /\ faults' = faults - 1 /\ card
        /\ Then(k, [tasks[k] EXCEPT !.todo = <<"create">> \o Tail(@)])
  /\ UNCHANGED <<mode, now, rows, card, checkout, hook, extended>>

\* The subscription cannot be asked for: it goes on as if there were none.
RetrieveFails(k) ==
  LET c == tasks[k].seen IN
  /\ Step(k) = "charge" /\ c.status # "active" /\ c.sub # 0 /\ card
  /\ faults > 0 /\ faults' = faults - 1
  /\ Then(k, [tasks[k] EXCEPT !.todo = <<"create">> \o Tail(@)])
  /\ UNCHANGED <<mode, now, rows, remote, hook, extended>>

\* A subscription that is neither trialing nor active, or none: another is made.
ChargeNew(k) ==
  LET c == tasks[k].seen IN
  /\ \/ Step(k) = "create"
     \/ Step(k) = "charge" /\ ~NothingToCharge(c) /\ Known(c) # "trialing"
  /\ \/ /\ Creates
        /\ \/ Then(k, Sync(k, Len(subs'), "active")) /\ UNCHANGED faults
           \/ faults > 0 /\ faults' = faults - 1 /\ Then(k, Rest(k))  \* the answer is lost
        /\ UNCHANGED <<company, trials>>
     \/ /\ Len(subs) = mode.subs                                \* bound: Stripe errs
        /\ Then(k, Rest(k))
        /\ UNCHANGED <<company, trials, subs, events, invoices, faults>>
     \/ /\ mode.declines
        /\ company' = [company EXCEPT !.status = "past_due"]
        /\ trials' = SetTrial(trials, Pending(k), "expired")
        /\ Then(k, Reloaded(k))
        /\ UNCHANGED <<subs, events, invoices, faults>>
  /\ UNCHANGED <<mode, now, receipt, billed, card, checkout, hook, extended>>

SyncStep(k) ==
  LET t == tasks[k] IN
  /\ Step(k) = "sync"
  /\ Synced(t.snap.sub, t.snap.status, Pending(k))
  /\ Then(k, Reloaded(k))
  /\ UNCHANGED <<mode, now, receipt, billed, remote, hook, extended, faults>>

\* Mutant: the sweep ends with the trials it found.
Orphans_None ==
  /\ Step("sweep") = "orphans"
  /\ Then("sweep", [tasks["sweep"] EXCEPT !.todo = <<"final">>])
  /\ UNCHANGED <<mode, now, rows, remote, hook, extended, faults>>

\* Companies still on trial in the database and due, this one among them if the first
\* charge left it so: autoflush is off, and the refresh took the change of status back.
Orphans ==
  LET t == tasks["sweep"] due == company.status = "trialing" /\ Due(company.end) IN
  /\ Step("sweep") = "orphans"
  /\ Then("sweep", [t EXCEPT !.todo = IF due THEN <<"charge", "final">> ELSE <<"final">>,
                      !.seen = company, !.orphan = due])
  /\ UNCHANGED <<mode, now, rows, remote, hook, extended, faults>>

\* The sweep's own commit: what no commit before has written.
Final ==
  LET t == tasks["sweep"] IN
  /\ Step("sweep") = "final"
  /\ trials' = SetTrial(trials, t.trial, "expired")
  /\ company' = IF t.orphan THEN [company EXCEPT !.status = "trial_expired"] ELSE company
  /\ Then("sweep", Rest("sweep"))
  /\ UNCHANGED <<mode, now, receipt, billed, remote, hook, extended, faults>>

TaskStep(k) ==
  \/ k = "request" /\ Expire
  \/ ChargeNothing(k) \/ ChargeTrial(k) \/ RetrieveFails(k) \/ ChargeNew(k) \/ SyncStep(k)
  \/ k = "sweep" /\ (Orphans \/ Final)

Dies(k) ==
  /\ tasks[k] # NoTask
  /\ faults > 0 /\ faults' = faults - 1
  /\ tasks' = [tasks EXCEPT ![k] = NoTask]
  /\ UNCHANGED <<mode, now, rows, remote, hook, extended>>

----------------------------------------------------------------------------
(* Webhooks.                                                               *)

\* Mutant: a first payment ends with the receipt of the signup.
Work_SignupOnly(e) ==
  CASE e.kind = "subscription" -> <<"sync", "settle">>
    [] e.kind = "completed" -> <<"receipt", "sync">>
    [] e.kind = "invoice" ->
         IF e.inv = 0 /\ subs[e.sub].status = "trialing" THEN <<"sync">>
         ELSE <<"sync", "active">> \o (IF subs[e.sub].ref THEN <<"receipt">> ELSE <<"bill">>)
    [] e.kind = "failed" -> <<"failed">>
    [] e.kind = "deleted" -> <<"deleted">>

\* What a handler of each event commits, in order.  completed and invoice retrieve the
\* subscription first; an updated subscription is the snapshot in the event.
Work(e) ==
  CASE e.kind = "subscription" -> <<"sync", "settle">>
    [] e.kind = "completed" -> <<"receipt", "sync">>
    [] e.kind = "invoice" ->
         IF e.inv = 0 /\ subs[e.sub].status = "trialing" THEN <<"sync">>
         ELSE <<"sync", "active">> \o (IF subs[e.sub].ref THEN <<"receipt", "bill">> ELSE <<"bill">>)
    [] e.kind = "failed" -> <<"failed">>
    [] e.kind = "deleted" -> <<"deleted">>

HookBegin(i) ==
  /\ MayHook /\ hook = NoHook
  /\ i \in DOMAIN events /\ (mode.prompt => i = 1)
  /\ LET e == events[i]
         status == IF e.kind = "subscription" THEN e.status ELSE subs[e.sub].status
     IN hook' = [at |-> i, event |-> e, status |-> status, todo |-> Work(e)]
  /\ UNCHANGED <<mode, now, rows, remote, tasks, extended, faults>>

At(step) == hook.todo # <<>> /\ Head(hook.todo) = step

HookSync ==
  /\ At("sync")
  /\ Synced(hook.event.sub, IF hook.status = "canceled" THEN "cancelled" ELSE hook.status, 0)
  /\ UNCHANGED <<receipt, billed>>

\* After an update: the status once more, and another trial converted if there is one.
HookSettle ==
  /\ At("settle")
  /\ company' = [company EXCEPT !.status = hook.status]
  /\ trials' = IF hook.status = "active" THEN SetTrial(trials, Convertible(trials), "converted")
                ELSE trials
  /\ UNCHANGED <<receipt, billed>>

HookActive ==
  /\ At("active")
  /\ company' = [company EXCEPT !.status = "active"]
  /\ UNCHANGED <<trials, receipt, billed>>

\* mark_receipt_paid, which leaves a paid receipt alone.
HookReceipt ==
  /\ At("receipt")
  /\ receipt' = "paid"
  /\ company' = IF receipt = "paid" THEN company
                 ELSE [company EXCEPT !.status = "active", !.end = Far]
  /\ UNCHANGED <<trials, billed>>

\* Unless the invoice has its BillingReceipt.
HookBill ==
  /\ At("bill")
  /\ billed' = billed \cup {hook.event.inv}
  /\ UNCHANGED <<company, trials, receipt>>

\* Mutant: Stripe's word for a subscription that was not paid.
HookFailed_Unpaid ==
  /\ At("failed")
  /\ \E status \in {"past_due", "unpaid"} : company' = [company EXCEPT !.status = status]
  /\ UNCHANGED <<trials, receipt, billed>>

\* A failed payment locks the company after some attempts.
HookFailed ==
  /\ At("failed")
  /\ \E status \in {"past_due", "locked"} : company' = [company EXCEPT !.status = status]
  /\ UNCHANGED <<trials, receipt, billed>>

HookDeleted ==
  /\ At("deleted")
  /\ company' = [company EXCEPT !.status = "cancelled"]
  /\ UNCHANGED <<trials, receipt, billed>>

HookStep ==
  /\ HookSync \/ HookSettle \/ HookActive \/ HookReceipt \/ HookBill \/ HookFailed \/ HookDeleted
  /\ hook' = [hook EXCEPT !.todo = Tail(@)]
  /\ UNCHANGED <<mode, now, remote, tasks, extended, faults>>

\* Acknowledged; a lost acknowledgement brings the event again.
HookEnd ==
  /\ hook # NoHook /\ hook.todo = <<>>
  /\ hook' = NoHook
  /\ \/ events' = RemoveAt(events, hook.at) /\ UNCHANGED faults
     \/ faults > 0 /\ faults' = faults - 1 /\ UNCHANGED events
  /\ UNCHANGED <<mode, now, rows, card, checkout, subs, invoices, tasks, extended>>

HookDies ==
  /\ hook # NoHook
  /\ faults > 0 /\ faults' = faults - 1
  /\ hook' = NoHook
  /\ UNCHANGED <<mode, now, rows, remote, tasks, extended>>

----------------------------------------------------------------------------
SubscriptionInit ==
  /\ mode \in Modes
  /\ now = 0
  /\ company = [status |-> "pending", end |-> Far, sub |-> 0]
  /\ trials = <<>>
  /\ receipt = "pending"
  /\ card = FALSE
  /\ checkout = "none"
  /\ subs = <<>>
  /\ events = <<>>
  /\ invoices = 0
  /\ billed = {}
  /\ hook = NoHook
  /\ tasks = [k \in Kinds |-> NoTask]
  /\ extended = FALSE
  /\ faults = mode.faults

Tick ==
  /\ now < mode.last /\ now' = now + 1
  /\ UNCHANGED <<mode, rows, remote, hook, tasks, extended, faults>>

SubscriptionNext ==
  \/ Tick
  \/ \E s \in DOMAIN subs : TrialEndsAtStripe(s) \/ Retries(s) \/ Ends(s)
  \/ Buy \/ AttachCard
  \/ CreateCheckout \/ StartTrial \/ \E i \in DOMAIN trials : ExtendTrial(i)
  \/ RequestBegin \/ SweepBegin
  \/ \E k \in Kinds : TaskStep(k) \/ Dies(k)
  \/ \E i \in DOMAIN events : HookBegin(i)
  \/ HookStep \/ HookEnd \/ HookDies

\* Time passes, cron starts the sweep, handlers go on and Stripe delivers.
SubscriptionFairness ==
  /\ WF_subVars(Tick) /\ WF_subVars(SweepBegin)
  /\ \A k \in Kinds : WF_subVars(TaskStep(k))
  /\ WF_subVars(HookBegin(1)) /\ WF_subVars(HookStep) /\ WF_subVars(HookEnd)

SubscriptionSpec == SubscriptionInit /\ [][SubscriptionNext]_subVars /\ SubscriptionFairness

----------------------------------------------------------------------------
Statuses == {"pending", "trialing", "trial_expired", "active", "past_due", "locked", "cancelled"}

\* The rows and Stripe's objects have the shapes the code gives them.
SubscriptionTypeOK ==
  /\ company.status \in Statuses /\ company.sub \in 0 .. Len(subs)
  /\ company.end \in (0 .. mode.last + 1) \cup {Far}
  /\ \A i \in DOMAIN trials : trials[i].status \in Open \cup {"expired", "converted"}
  /\ \A s \in DOMAIN subs : subs[s].status \in Live \cup {"canceled"}
  /\ billed \subseteq 0 .. invoices

Calm == mode.serial /\ mode.prompt /\ ~mode.eager /\ ~mode.declines /\ mode.faults = 0

\* A customer never has two subscriptions at Stripe that charge, whether the trial came
\* from the checkout or an administrator and whether the request, the sweep or Stripe
\* ends it, also when an administrator reopens it: charge_trial_end asks Stripe before it
\* creates one.  Without overlaps, late events, refusals and losses, none of which it
\* guards against.
ChargedOnce == Calm => Cardinality(LiveSubs) <= 1

\* When nothing is in flight, every payment Stripe took has its BillingReceipt, however
\* often, in whatever order and past whichever crash its events were delivered; and a
\* company is active just when its subscription at Stripe is, although the checkout,
\* the sweep, a request and five kinds of events write the status.  The second part is
\* for a first subscription, handlers that do not overlap and events in order: an old
\* subscription's deletion event cancels the company of a new one.
SettledBooks ==
  Quiet /\ events = <<>> =>
    /\ 1 .. invoices \subseteq billed
    /\ mode.serial /\ mode.prompt /\ ~mode.extends /\ Len(subs) <= 1 =>
         (company.status = "active" <=> \E s \in LiveSubs : subs[s].status = "active")

\* No tenant stays on a trial that is over, whatever overlaps, is lost or is killed: the
\* sweep ends it, although the refresh within expire_trial takes its change of status
\* back, and although nobody signs in.
TrialEnds ==
  (company.status = "trialing" /\ Due(company.end)) ~>
    (company.status # "trialing" \/ ~Due(company.end))

=============================================================================
