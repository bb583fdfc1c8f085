# Verification of the workforce platform

TLA+ models, TLC runs and TLAPS proofs for the FastAPI backend under
`src/backend/app` and the rota planner and sessions of the Next.js client under
`src/frontend`. Paths below are relative to `src/`.

## The system

A multi-tenant platform for security companies: staff, rotas, attendance, patrols, lone worker
protection, invoicing, payroll, and the platform's own subscriptions, trials and refunds.

- **API** (`backend/app/main.py`, `routers/`, `services/`). Handlers are synchronous and run on a
  thread pool, in one or more processes. Each has its own database session; most commit once, at
  their end, those modelled here often several times. No handler takes a lock or a version column.
- **Database** (`database.py`, `models.py`). SQLite in WAL mode, or another SQL database. Sessions are
  made with `autoflush=False`, reads run outside the write transaction, and a flush updates only the
  columns that changed, by primary key. A handler is therefore a *read* of rows and, any time later,
  a *write* of the columns it decided to change.
- **Worker** (`worker_settings.py`, `worker_jobs.py`). arq on Redis runs `sweep_lone_worker` every
  minute, `check_missed_patrols` every 15, `sweep_trials` hourly and `scheduled_maintenance` at
  03:00. Nothing stops a run that takes longer than its period from overlapping the next one.
- **Stripe** takes payments, ends trials, pays refunds, and calls a webhook, at least once and in any
  order. The webhook route is `async` and calls its handler without awaiting: a process handles one
  event at a time.
- **Frontend** (`frontend/`). A Next.js client: one context per concern, React state replaced by
  pure reducers, requests in parallel over HTTP, several tabs that share `localStorage`. Most pages
  load rows, show a form and send one row back; the rota planner keeps a plan of its own between
  the user, a debounced autosave and the server.

There are no tests in the repository.

| Component | State | Operations | What makes it hard | What makes it correct |
|---|---|---|---|---|
| Lone worker monitoring | policy, sessions, checks, incidents | start, check in, alarm, end; acknowledge, escalate, resolve; the sweep | handlers against the sweep, which commits at each notification; crashes; policy edits during sessions | nobody is missed in silence or too early; monitoring has no gap; what was recorded stays |
| Refunds | refund rows, balances of receipt and invoice, credit, Stripe's refunds | create, approve, reject, cancel, process, webhook, use of credit | check-then-act on the remaining amount; crash or lost answer around Stripe; repeated webhooks | no more is paid back than was paid; balances add up; Stripe's refunds are recorded once |
| Trials, Stripe subscriptions | company status and end, trial rows, subscriptions, receipts | checkout, trial expiry in requests and cron, webhooks, admin actions | three parties end one trial and may charge; events late, repeated, out of order | one subscription that charges; status follows Stripe; one receipt per paid invoice; no trial outlives its end |
| Rota planner: grid (browser) | days, rows, lists of shifts, attendance by list index | dialogs, menus, confirmations, answers that arrive later | a shift has no identity: every list operation renumbers what others captured | attendance stays with its shift; no shift is lost, doubled or hidden |
| Rota planner: times and clashes (browser) | start, end, what they were scheduled to be; lists per day | lateness, overtime, early finish and their removal | clocks that wrap at midnight; equal times read three ways | hours add up; taking an entry back restores the typed times; warnings and marks agree |
| Rota planner: saves and loads (browser) | address, plan shown, its content, timer, requests in flight | edit, autosave, switch, publish, reload | closures of old renders; loads over edits; requests overtaking each other | no edit goes to another plan or is lost by switching |
| Browser sessions | one stored token, the user each tab shows | sign in and out, 401, news between tabs | answers in flight while another tab signs out | tabs agree on whether somebody is signed in |
| Rota publication, attendance (server) | the plan's JSON, assignments, attendance, late logs | save, publish, unpublish, load, attendance by shift, by record, booking on | assignments are deleted and made anew; attendance is kept twice; a commit per guard | the record of a shift survives republication; assignments match the plan |
| Patrols | sessions, scans, alerts | start, scan, detection | alerts deduplicated by time | every missed checkpoint has an alert, once a period |
| Tenant payments | invoices, payments | create, edit, delete payments, status | check-then-insert | payments stay within the total |
| Login guard, recycle bin | rows | counters, archive and restore | races on single rows | lockout after N failures, no dangling rows |

Everything else (leads, tasks and reports, permissions, PDF and mail, most pages) edits single rows or
only computes output; `PROJECT.json` lists each part.

## Plan

Done: `LoneWorker` with `Monitoring`; `Refund`; `Subscription`; the rota planner in the browser
(`RotaGrid` with `ShiftBook`, `ShiftClock`, `ShiftConflicts`, `RotaSync`); `Session`; the plan on the
server (`RotaPublish`). Proved: every safety and action property of `LoneWorker`, with and without
overlap, and its refinement of `Monitoring`; the safety properties of `Refund`, `Subscription`,
`ShiftClock`, `ShiftConflicts`, `RotaSync`, `Session` and `RotaPublish`; the invariants of `RotaGrid` and
its refinement of `ShiftBook`.

Left, in this order:

1. An abstract specification of a refund (requested, paid at most once), which `Refund` implements.
2. `Ledger`: payments of a tenant invoice. `Patrol`: detection of missed checkpoints.

## Modules

### LoneWorker

Models `services/lone_worker_service.py` over the tables of `models.py` 1849-1992. `sessions`,
`checks` and `incidents` map primary keys to rows, `NoRow` where no row exists. A handler is a pair
`BeginX`, `CommitX`: the first evaluates the guards on what it reads and leaves in `requests[r]` what
the code keeps in local variables, the second writes the columns the code changes, to the rows as
they are by then. `CommitEscalate` writes the status only if it differs from the one that was read,
as SQLAlchemy does. Names follow the code: `OpenCheck` is `open_check`, `Climb` is `escalate`, and
so on; `PROJECT.json` has the lines.

The sweep (`SweepBegin` to `SweepEnd`) keeps one `now`, visits the active sessions it loaded in any
order, and then the escalating incidents. It is not one transaction: notifying a contact goes
through `send_sms` and the email log, which call `db.commit()` within `db.begin_nested()`, so the
outer transaction is committed and the exception that follows is swallowed by `_try_send`. The model
commits at each escalation. After a commit SQLAlchemy reloads rows, which is `fresh` and `Loaded`:
the ladder's level and time are those of the first load until then.

Abstracted: locations, audit events, the names of responders and the wording; `incident` and
`emergency` resolutions are one value, `unsafe`; the site has one policy row; acknowledging an
acknowledged incident changes nothing that is modelled. Sending always succeeds or fails without an
effect on the tables.

### Monitoring

The promise, without tables or requests: a session is not started, watched, helped, dismissed or
ended, and the six actions are the only ways between them. A watched session does not fall out of
monitoring, a helped one does not end, and nothing follows the end. `LoneWorker` implements it under
the mapping `Phase`: ended is a completed session, helped an active one with an open incident,
watched one with a pending check and none, dismissed what is left. Reads, reminders, escalations and
policy edits are stutters; a check-in that closes one check and schedules the next is one too. The
mapping holds for handlers that do not overlap; `lone_worker_end_race` shows how overlap breaks it.

### Refund

Models `services/refund_service.py` for one payment, and the use of credit by
`subscription_invoice_service.record_payment`. `refunds` is the table, `amountPaid`, `refunded` and
`credit` the balances it changes, `stripe` what Stripe did. `process_refund` is five steps: the guard
(`BeginProcess`), the commit of `processing`, the call of Stripe (`Charge` or `ChargeFails`), the
read of the balances (`ReadFinancials`) and the last commit (`Complete` or `CompleteFails`).
`auto_process` is a create followed by a process. The calculation of a policy is any amount within
the limits; `amount`, `calculated_amount` and `approved_amount` are one column; Stripe refuses to
refund more than the charge, and every refund of a `SubscriptionInvoice`, which has no charge. A sum
of amounts (`Total`) is the number of units of money in them, which is a set one can reason about. The
webhook route is `async` and calls its handler without awaiting, so one process runs one webhook at a
time, to its end: `Hooks` has one member. Requests on the thread pool still interleave with it.

### Subscription

Models one company in `services/trial_service.py` and `services/stripe_subscription_service.py`:
`company`, `trials`, `receipt` and `billed` are rows, `card`, `checkout`, `subs`, `events` and
`invoices` are Stripe's. A handler in flight is a list of steps in `tasks` or `hook`, each of which
ends in a commit or a call of Stripe: a request that finds its trial over runs *expire*, *charge*,
*sync*; the sweep *charge*, *orphans*, *final*; a webhook the steps of its event. A process killed
forgets the list, and Stripe delivers the event again.

The sweep's own change of status is not in the database while it runs: sessions do not flush by
themselves, and the `refresh` within `expire_trial` takes the change back, so the query for companies
still on trial finds the same one again (`Orphans`). A commit inside the charge takes along what the
sweep has pending (`Pending`, `Committed`). `charge_trial_end` creates a subscription when it could
not ask Stripe for the one there is (`RetrieveFails`) and sends no idempotency key (`ChargeNew`).

Abstracted: plans, prices, cycles, mails, audit; "canceled" and "cancelled" are one value. A paid
period ends at `Far`.

### RotaGrid and ShiftBook

`RotaGrid` models the reducers of `frontend/contexts/rota-shifts-context.tsx` and what calls them in
`components/rota/rota-calendar-client.tsx`. `shifts[e][d]` is the list of a day, `attendance` maps
`<<employee, day, index>>`, as in the code; but each shift carries a ghost id, and attendance the id
of the shift it was recorded for. A menu choice is one step. A dialog captures a slot when it opens and
writes when it is confirmed, a toast keeps what its action was made for, a request of a published
employee's dialog comes back later: between the two, other steps happen. One confirmation or request
is waiting at a time. Once an answer is applied to a grid that has moved on, `stale` is set: the code
then writes to whichever shift has the slot, and the promises end.

`ShiftBook` is the same planner without lists: shifts that are made, moved, given away, removed, marked
and unmarked, each on its own account. `RotaGrid` implements it with `used` the ids given out, `place`
the pairs of an id and its cell, `marked` the ids in `attendance`, `trusted` the negation of `stale`.

### ShiftClock

The times of one shift, from `frontend/lib/rota-shifts-utils.ts` and the attendance, overtime and early
finish dialogs. `AddMinutes`, `MinutesBetween`, `ElapsedFromStart` and `CalcHours` are the code's, with
their different readings of equal times; `Late`, `Adjusted` and `RemoveAdjustment` move `start` and
`end` and keep what was scheduled. Ghosts remember what the user typed, the lateness the start
carries and the planned length. A behaviour is followed until times are typed over an entry (`mixed`).

### ShiftConflicts

`findConflictsForDraft`, which warns in the dialog before a shift is in its list, against
`buildShiftConflictMap`, which marks shifts once they are. `MarkedIffShared` compares the second with
sets of moments.

### RotaSync

One planner against the server. The content of a plan is the set of edits it includes, which is all
that saves, loads and switches tell apart; `owner` is the ghost list of the plans edits were made on,
an edit being its place in it. `url` and `rotaPlanId` are the plan of the address and the one in state; a save on the `wire` carries the plan of the render that asked for it and the content
of the moment it was sent; `leaving` and `chain` are the functions awaiting one: a switch, or the two
saves before publishing. `mode` fixes at the start whether requests arrive in order, whether the user
is careful (does not edit while the page waits), and whether plans may never have been saved (`bare`).

### Session

`contexts/auth-context.tsx`, `lib/session-sync.ts`, and `lib/api.ts` where it handles a 401. Tabs
share `token`; each has `user` in memory, one `request` in flight, and news of sign-outs in `inbox`,
by storage event, broadcast or both. `late` holds tabs signed in by an answer that a sign-out overtook.

### RotaPublish

`rota_plan_service.py`, `attendance_service.py` and `shift_adjustment_service.py` for one plan, with
the rota screen that saves it and an attendance page that does not know of plans. `planner` is the
stored JSON with shifts by guard and marks by slot; `assignments` are rows whose keys SQLite reuses
after a deletion; `recorded`, the attendance, and `lateLogs` refer to those keys, the second also after
the row has gone. `job` is the request the screen waits for, as a list of commits: *rebuild* publishes again one
guard at a time while fingerprints differ, *lateness* and *attendance* write through, *heal* lays what
assignments say over the plan, then *publish*, *late* and *upsert* where the attendance dialog asks
for them. Ghosts: `accepted`, the statuses a shift may rightly have; `behind`, shifts whose record
changed on another page since the screen was loaded; `torn`, a save was killed and none ended since.

Times are unique per guard and a time is free again once the plan is saved without it, so it is of no
account in which order rows and slots are matched. Edits during a request are `RotaSync`'s matter
and left out here.

### Compositions

The parts of the browser share no state, nor do refunds and the subscription, nor the grid and the
publication once `RotaSync` stands between them. `BrowserMC`, `BillingMC` and `RotaMC` each put such
modules side by side: `area` picks the one that moves, and the others stay in an initial state.
What is checked is the modules' own properties, the ones the theorems are about: the composition extends
them, and the `Init`, `Next` and `Spec` of `Subscription`, of `RotaPublish` and of the parts of the
browser bear the module's name for that reason. `BillingMC` extends `Refund` for handlers one at a time and
instantiates it a second time, over variables of their own, for those that overlap; what is checked of
that copy is restated under a name of its own.

### Proofs

`LoneWorkerProofs`, `RefundProofs`, `SubscriptionProofs`, `RotaGridProofs`, `RotaPublishProofs`,
`RotaSyncProofs` and `SessionProofs` each extend the module they are about, `ShiftProofs` extends
`ShiftClock` and `ShiftConflicts`. See below.

## Runs

| Run | Question |
|---|---|
| `lone_worker_serial` | Do the promises of monitoring hold when handlers and sweeps do not overlap, and do they implement `Monitoring`? Two sessions of one worker, two checks, three incidents, two timing rules, clock to 2, policies created, edited and deleted. |
| `lone_worker_racing` | What survives every overlap of a handler and the sweep and a killed process? One session. With liveness. |
| `lone_worker_named_check` | Finding: is there exactly one pending check? Not when a check-in names an answered one. |
| `lone_worker_end_race` | Finding: can a worker walk away from an incident? Yes, when the alarm comes between the read and the commit of `end_session`. |
| `lone_worker_acknowledged` | Finding: does acknowledgement stop the ladder? Not for an incident the loop has already loaded. |
| `billing` | Refunds: do balances and refunds agree one handler at a time, and what survives overlapping creates and webhooks, lost answers and a kill? The subscription: is there one that charges, do receipts and status settle, and does every trial end? With liveness. |
| `refund_invoice` | Finding: the refund of an invoice is subtracted twice. |
| `refund_failed` | Finding: a refund Stripe paid but the code recorded as failed can be paid again. |
| `rota` | Does the grid implement `ShiftBook`, up to the first late answer? Do a shift's record and the assignments survive republication, kills and records made on another page? |
| `browser` | Do hours add up, warnings and marks agree, edits reach their own plan, and tabs agree? With liveness of saves and sign-outs. |
| `rota_sync_switch` | Finding: a switch drops an edit made while its save is in flight. |
| `rota_publish_late` | Finding: what is recorded elsewhere on a late shift is written over by the plan's old mark. |

**What the serial parts mean.** `Serial` and `Overlap` restrict which handlers begin while another is
in flight. The code does not restrict it. `OneActivePerGuard`, `OnePendingCheck`, `RecordedIsFinal`,
`MonitoringKept`, `ResolvedIsFinal`, `LadderPaced` and `BalancesAddUp` are promises the handlers keep
alone and lose when two of them interleave: two starts, a check-in against a miss, two resolves, an
escalation by hand against the ladder, or a credit granted while another is used.
`ImplementsMonitoring` ends no session over an open incident, which
`lone_worker_end_race` shows broken by overlap. `NoOverRefund` needs the creates not to overlap a
process, and no answer lost; without that, `OnlyForgettingOverRefunds` says what is left of it.
`MissedIsAlarmed`, `NeverMissedEarly`, `RacingIsRecorded` and `TrialEnds` need no such restriction.

**Bounds.** Every bound is a constant or marked `bound:` in a guard.

- Lone worker: timing rules are scaled to minutes 0 to 2, so a clock that ends at 2 sees a check
  scheduled, reminded, missed and escalated twice, and answered late. Two keys per table let a session
  be succeeded by another and a missed check by the next.
- Refunds: a payment of 2 has full, partial and second refunds. One crash suffices: the state it
  leaves is that of the tables alone, from which everything else starts again. Once a table is full
  the handlers that insert do not begin; a handler in flight always finds a key.
- Subscription: a trial lasts one unit and time ends at 1 or 2, so a trial ends, is extended once and
  ends again; two subscriptions are the least that can both charge. Four mixes: an administrator
  who reopens a trial; refusals, a second purchase and one fault; overlapping request, sweep and
  webhook; events in any order. The last two have one subscription.
- Grid: two employees, one published, two days, the loaded shift and a second one, and three in one
  day for the renumbering. `Work` names the dialogs and confirmations that meet in one behaviour:
  attendance with removals, edits, moves, copies or pruning of days, and adjustments; drags and
  deletions are in all of them.
- Publication: two shifts of one guard; two guards at one time; one shift with three times and a
  kill, or a lost answer, and a change on the other page; the same with lateness. Three rows: a
  rebuilt guard of two shifts, and a key above what is left.
- Browser: days of 6 units for hours, and of 3 for clashes of two shifts over three days, have every
  order of times, abutting and wrapping ones included; two plans, two edits, two saves in flight; two
  tabs, and two tokens, so that an old one can be refused when a new one is stored.

**Fairness.** `LoneWorker` assumes weak fairness of the clock and of the steps of the sweep: cron
starts it every minute, the worker is restarted, and a step only waits for the database. `Refund`
assumes that Stripe delivers an event until it is acknowledged and that a webhook in flight ends.
`Subscription`: time passes, cron starts the sweep, handlers in flight go on and Stripe delivers its
oldest event. `RotaSync`: timers fire and requests are answered. `Session`: a tab handles its events.
Nothing is assumed of people. `CHECK_DEADLOCK FALSE` in the billing, refund, rota and browser
configurations: all refunds may be final, all edits made, all shifts and tokens used.

## Where the code stops keeping its promises

Seven runs are findings, with the sentence of the repository they refute. The passing properties
also name conditions; each stands for something the models reach without it.

- *`LadderPaced`.* `escalate` by hand commits the level it read. When the sweep has climbed in between,
  the level goes back, `last_escalated_at` too, and the next sweep climbs again before the interval.
- *Refunds.* Overlapping consumption and grant of credit lose one of the two (`BalancesAddUp`).
- *`ChargedOnce`.* A company whose payment was refused is charged through a second subscription, which
  `charge_trial_end` makes beside the `past_due` one. `create_checkout_session` asks only whether the
  receipt is paid. A crash or a lost answer after `Subscription.create`, a failing `retrieve`, and a
  request overlapping the sweep each end in two subscriptions.
- *`SettledBooks`.* The deletion event of an old subscription cancels the company of a new one; a
  snapshot applied late takes the status back; `extend_trial` of a converted trial tells Stripe
  nothing; a request that overlaps a charge writes `trial_expired` over its result.
- *`HoursAdd`, `TimesRestored`.* Lateness of the shift's length or more wraps to nearly a whole day.
  Clearing attendance, or setting lateness to 0, keeps the late start. Times typed over an adjustment
  are lost when it is removed.
- *`WarnedIsMarked`.* Moved to another day, a shift is warned of a clash with its own old place.
- *Rota grid.* An answer of the server that arrives late is applied to the shift that has the slot by
  then (`stale`). Attendance the server refused leaves the times moved.
- *Rota saves.* A plan that was never saved shows the content of the plan before and saves it as its
  own (`bare`). A change of the staff pool reloads over unsaved edits, and back or a link drops what
  is younger than the debounce (`dropped`). Saves that overtake each other leave the older content.
  A failed load shows the old plan under the new address. The second save before publishing sends
  what is on screen by then to the plan it began with (`chain`).
- *Sessions.* News of a sign-out handled late, or the 401 of an old token, removes a newer token; an
  answer that a remote sign-out overtook signs the tab in again in memory (`late`); another user's
  sign-in in another tab goes unnoticed.
- *Publication.* Records on late shifts are never healed (`rota_publish_late`). A plan loaded before
  a record was changed elsewhere overrules it (`Overruled`), and a deleted record comes back at the
  next save. A mark cleared on a published shift comes back at the next load. A late log stays with a
  key that SQLite gives to another shift, whose lateness it then is: `find_assignment` can take that
  shift's assignment for the late one's, and the next record of lateness moves it to the wrong start.
  TLC finds `ActualStarts` violated so with one guard, three shifts, four times and the mark *late*, which
  is why `PublishedMatches` leaves late shifts out. Two shifts of one time are one to
  the fingerprint.

## What is proved

In `LoneWorkerProofs`, for any sets of workers, keys, requests and sweeps, any rules and bounds, with
or without overlap (the only assumption is `LoneWorkerAssumption`, the types of the constants):

- `Inductive`: `Spec => []IInv`. `IInv` adds to `TypeOK` and `MissedIsAlarmed` what makes them
  inductive: the rows a request or sweep in flight refers to exist, and belong to the session they
  were read for (`RequestRefs`, `SweepRefs`); every incident was escalated in the commit that opened
  it (`Escalated`). Without `SweepRefs` the sweep could climb an incident of another session and
  leave a missed check without one.
- `TypeCorrect`: `TypeOK`.
- `MissedNeverSilent`: `MissedIsAlarmed`. It needs no lock: rows are never deleted, and the commit
  that marks a check missed also opens or climbs the incident.
- `NeverEarly`: `NeverMissedEarly`, from `TimedInv` (`TimedInductive`): the check a sweep is about to declare missed was
  overdue at the sweep's own time, which is not ahead of the clock, by the rules its session copied,
  and neither the due time nor the rules ever change.

The argument: each commit is shown to be a `GoodCommit` (tables typed, rows kept, newly missed checks
alarmed), each read to record a request about rows that exist, and rows kept means that what others
hold in flight stays valid. TLC checked `IInv` as an invariant before it was proved.

Also in `LoneWorkerProofs`, for the same constants under `OneAtATime`: handlers and sweeps do not
overlap (`Serial`, which the code does not enforce, see above) and no check-in names a check
(`~NamedChecks`, as the mobile page calls it).

- `SerialInductive`: `SerialInv` adds to `IInv` that what the one handler or sweep in flight read is
  still so when it commits (`Alone`, `Current`, `SweepCurrent`) and that the books are `Tidy`. The first
  is what overlap takes away, and what every promise below rests on.
- `GuardsOnce`, `ChecksOnce`, `EndedClean`: `OneActivePerGuard`, `OnePendingCheck`, `EndedHasNoPending`.
- `RecordFinal`, `ResolvedFinal`, `WatchKept`: the action properties `RecordedIsFinal`,
  `ResolvedIsFinal`, `MonitoringKept`, each from what a commit may do to a row (`StatusKept`).
- `LadderKeepsPace`: `LadderPaced`, together with `TimedInv`. The attempt to prove it with overlap
  failed, for the reason given above under `LadderPaced`.
- `Implements`: `ImplementsMonitoring`. Initial states map to initial states; then one lemma per action
  says which of the six actions of `Monitoring` it is for the phase of its session, or that it is a
  stutter, and that no other session's phase moves.

In `ShiftProofs`, about `ShiftClock`, for a day of any length, any breaks, any bound on lateness below a day
(`ClockAssumption`):

- `ClockInductive`: `ClockSpec => []IInv`, `IInv` being `ClockTypeOK`, no lateness without a shift, `EndKept` (a
  scheduled end is kept just while an adjustment is) and `Coupled` (the start is the planned one plus
  the lateness, the end the planned length after it unless adjusted). `Coupled` is what makes it
  inductive: `HoursAdd` alone says nothing of what removing an adjustment brings back.
- `TypedTimesComeBack`: `TimesRestored`. `HoursAlwaysAdd`: `HoursAdd`, from `Coupled` and facts about
  remainders that the module proves first, since the solver knows none about a variable divisor.

Also in `ShiftProofs`, about `ShiftConflicts`:

- `SharedIsMarked`: `MarkedIffShared`, for days of any length (`DayMinutes \in Nat`), from `BookOK` (every
  day has a list of shifts). Two spans of minutes overlap by the code's comparisons just if they share a
  moment; the cases are the two wraps and the day before.
- `DialogAgrees`: `WarnedIsMarked`, with no assumption, for each way a shift can be added, moved, copied
  or changed: the pairs that the map's loops compare and those the dialog's compares are the same
  after the list has been renumbered.
- `ConflictsTyping`: `ConflictsTypeOK`, with no assumption.

In `RotaSyncProofs`, for any plans, edits and saves in flight. `SyncAssumption` says that the plan
opened first is a plan, and that the marks for no plan and no mode are not one.

- `SyncInductive`: `SyncInv`, in parts. `Owned`: whatever is some plan's content, on the server, on
  screen, in a save or in an answer, holds edits of that plan only. `Waiting`: while a careful user
  waits, the page stays on the plan being saved. `Kept`, for requests in order: the content on screen has
  every edit of its plan, a later save of a plan includes the earlier ones (`Growing`), the save of a
  switch has them all (`LeavingAll`), and until the next plan is loaded the one left is saved in full
  and nothing of the next is in flight (`Switching`).
- `StoredEditsBelong`: `NoForeign`, from `Owned`. `SwitchesLoseNothing`: `LeftIsSaved`, from `Kept`.
- `SyncTypes`: `SyncTypeOK`, from `Shape`, the part of `SyncInv` that holds in every mode.

In `SessionProofs`, for any tabs and any number of tokens (`MaxTokens \in Nat`):

- `SessionInductive`: `SessionInv` adds to `TabsAgree` that a tab about to be signed in by an answer,
  while no token is stored, was overtaken by the sign-out or has news of it waiting (`AnswerHears`): a
  401 or a sign-out in another tab reaches requests as well as pages.
- `TypeCorrect`, and `OpenTabsAgree`: `TabsAgree`.

In `RefundProofs`, for any payment, any finite set of refunds, any requests and kills (`Sizes`).

- `RefundInductive`, `TypeCorrect`, `ChargesOnce` (`StripeOnce`) and `PaidOutStays` (`CompletedIsFinal`),
  under `RowsOneAtATime`: handlers that act on a refund there is run one at a time, as one administrator
  does; creates, webhooks and the use of credit overlap them and each other. `RefundInv` says that the
  handler in flight holds its row's status and amount and has charged what it says (`Held`), that each
  refund at Stripe is of a row that went through processing, with its amount (`StripeTells`), and that
  no two rows name one (`OneRowPerSid`).
- `OverRefundsAreForgotten`: `OnlyForgettingOverRefunds` (`RacingOnlyForgets` in the run), under the same
  hypothesis, with answers lost.
  Invariant `Within`: what was delivered, and what is being processed and not yet delivered, fit in the
  payment, unless a row was overridden or a paid one recorded as failed.
- `NeverOverRefunds`: `NoOverRefund`, under `AllOneAtATime` and `~MayFail` (no call of Stripe fails after
  Stripe has paid). Invariant `Remembered`: each refund at Stripe is still counted.
- `BooksAgree`: `BalancesAddUp`, under `AllOneAtATime`: the balances a handler read are still those it
  adds to (`ReadsHold`).

Sums of money are cardinalities of sets of units, so that adding a row, raising it or taking it out of a
sum are facts about finite sets; the library proves those, and no induction over rows is needed. TLC
checked `RefundInv`, `Within`, `Remembered` and the invariant of the books on four configurations, with
and without overlap, before they were proved; and so it did `SerialInv`, `SyncInv` and the others on
the configurations of the runs.

In `SubscriptionProofs`, for any modes, and any number of trials, subscriptions and events:

- `SubscriptionInductive`: `SubscriptionSpec => []Inv`. Its parts each say how much order they need. `Shapes`: the
  rows, Stripe's objects, and the steps a handler may have left, which are finitely many lists.
  `Recorded`, always: a payment is billed, or an event of it waits, and the handler of that event ends
  with the receipt. `Alone` and `InOrder`: who is in flight with whom, where nothing overlaps and where
  events are handled in order. `Single`, in a calm mode (neither overlaps, nor late events, refusals, a
  second purchase or faults): only the subscription made last charges, and the company row names it or
  an event that waits will have it so (`Follows`). `Concluded`, for a first subscription and events in
  order: the last event tells how the subscription is, and its handler, or the row, has that.
- `NeverTwice`: `ChargedOnce`. `BooksSettle`: `SettledBooks`.
- `SubscriptionTypes`: `SubscriptionTypeOK`, if the clock's bound is a natural number in every mode (`Timed`).

`ChargedOnce` alone is not inductive: whether `charge_trial_end` asks Stripe before it creates a
subscription hangs on the company row naming the one there is, and that row is written by webhooks yet
to come. The argument therefore follows what Stripe does (`Moved`: it changes its last subscription
or makes a new one, and tells of it last), and each commit of a request, the sweep or a webhook
is shown to keep what the others hold. TLC checked `Inv` on two sets of modes first.

In `RotaGridProofs`, for any finite staff pool, any days, any number of shifts and any mix of dialogs
(`GridAssumption`; that the days of a plan are an interval is what `setDayCount` keeps):

- `GridInvariant`: `Spec => []GridInv`. Its first part, `Shape`, always holds: lists of shifts (or
  of holes, after a late answer), none with both adjustments, marks in slots, and in every dialog,
  confirmation and request in flight a slot and a shift there may be (`DialogOK`, `PendingOK`). The
  second holds until an answer is applied to a grid that has moved on: `Whole` (every id was given out and is in one place,
  `Once`; each mark has the id of the shift in its slot, `Attached`) and `Covered` (a row that is not
  shown has no shift). `RowsCover` alone is not inductive: nothing but `Shape` says that an answer names
  shifts and rows there are, and nothing but `PendingOK` that an overtime still to be saved is for a
  shift without early finish.
- `GridTypes`: `TypeOK`. `MarksFollow`: `AttendanceFollows`, from `Whole`. `RowsHaveShifts`:
  `RowsCover`. `NotBothAdjustments`: `AdjustmentsExclusive`, from `Shape`, so with late answers too.
- `BookKept`: `ImplementsShiftBook`, every initial state and every step, `GiveUp` for an answer that comes
  too late and one of the book's five others before.

The argument: one lemma for each reducer (a shift deleted and the later ones renumbered, added, written
in place, moved, copied, a row or a date emptied) says that it leaves a whole grid whole and where it
writes. Assigning one shift to several employees, copying a row and changing the days are then steps that
empty some cells and append to others, of which it is enough that the new ids are fresh and differ.

The same lemmas say which ids each cell holds before and after (`Held`) and which are marked, and so that
the step is one of the book's (`InBook`). Three facts about sets of ids do the rest, whatever the lists
are: `HandsBooked`, a shift changes cell and others are made; `MakesBooked`, the same with none handed on;
`DropsBooked`, cells lose some, and the marks of those go with them. The book counts
a shift as made once its id is used up, so a step must leave none of the ids it used up out of the grid:
`IdsAreNew` says that `NewIds` takes each of its range.

TLC checked `GridInv` with the constants of the run `rota` before it was proved.

In `RotaPublishProofs`, for any finite set of guards, any number of rows, and modes of any numbers of
shifts, times, killed saves and records changed elsewhere (`PublicationAssumption`, the types of the
constants):

- `PublicationInductive`: `PublicationSpec => []Inv`. Two parts hold in every mode. `Shapes`: tables, plans
  and requests, and that a request for one shift names a slot there is. `Stored`: edits and requests
  exclude each other, the stored plan lists the shifts on screen unless there are edits, and a guard
  that has rows is shown as published. `Plain` holds where no shift is late by minutes: no trace
  of lateness anywhere (`Punctual`); a guard's time, on screen, in store or published, is one shift's and
  a shift one guard's (`Distinct`); a plan lists a shift once and a shift has one row (`Listed`); the
  rows of every published guard are its shifts of the stored plan, but while a save may still have
  to publish some again or after it was killed (`Followed`); what the plans show of a shift, unless
  another page changed it since, and what its row records, is accepted (`Accepted`).
- `PublicationTypes`: `PublicationTypeOK`, from `Shapes`, so with lateness too.
- `AssignmentsFollow`: `PublishedMatches`, from `Followed`. `RecordsSurvive`: `RecordKept`, from `Accepted`.

Neither property is inductive. `PublishedMatches` says nothing while a request is under way, and `RecordKept`
nothing before all is saved; but a record sent by shift reaches the row that `find_assignment` takes for
it, which is the shift's own only if rows follow the plan by then, and a row made again has its
status from the plan, which must have been right when it was stored. `Distinct` is what makes matching by guard
and time a matching by shift (`RowOfSlot`): without it a row made again could carry another shift's status.
That a save ends with rows that follow the plan is `NothingChanged`: equal fingerprints, of distinct times,
are equal shifts, whatever was left by a save killed before. Publishing in any order comes to the same (`Republished`: new keys,
one for each slot of the guards published), so nothing is proved about the order. TLC checked `Inv` on
the four modes of the run `rota` first. With lateness `Plain` fails, and so do both properties
(`rota_publish_late`, and `ActualStarts` as told above).

Only model-checked:

- all liveness (`OverdueIsFound`, `LadderClimbs`, `RacingIsRecorded`, `TrialEnds`, `EventuallySaved`,
  `SignOutSpreads`), which is out of the prover's reach, as is `ENABLED`;
- `BillingTypeOK`, `RotaTypeOK` and `BrowserTypeOK`, conjunctions of the type invariants that the theorems
  state of the parts, each by itself (`TypeCorrect`, `GridTypes` and the rest); only that the parts
  which do not move keep theirs is left to TLC.

## Not modelled

- *Within modelled parts.* Subscription: `verify_checkout_session` (the webhook's handler called from
  the browser), changes of plan, cancelling and reactivating by the customer, status set by an
  administrator, reminders, renewals, two sweeps at once. Publication: assignments made by hand,
  overtime and early finish on the server, booking off, copies of plans, two rota screens on one plan
  (the last save wins). Grid: budget, rates, colours, printing. Session: support sessions, which keep
  a second token aside.
- *Payments, patrols, login guard, booking on.* Handlers that look for a row and insert one. Nothing
  in the code guards them, so what holds is what one request at a time does.
- *Recycle bin, tenants, roles, records, mail, reports.* They keep no state that two operations
  contend for beyond a single row, or only compute output.
- *Most of the frontend.* Nearly all of the implementation's lines are pages, types, one-call
  wrappers of the API and help text: layout and forms over a single request, with no state to
  model. The map covers the contexts, the rota planner's logic and the session; the share of lines it
  can cover stays low for that reason, and because the Python services that the server modules
  translate are not counted in it.
