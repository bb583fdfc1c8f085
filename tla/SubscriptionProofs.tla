------------------------- MODULE SubscriptionProofs -------------------------
(***************************************************************************)
(* What Subscription promises, for every mode: the rows and Stripe's       *)
(* objects have their shapes, every payment is billed or will be, nobody   *)
(* without disturbance has two subscriptions that charge, and the books    *)
(* are settled when nothing is in flight.                                  *)
(***************************************************************************)
EXTENDS Subscription, FiniteSetTheorems, SequenceTheorems, TLAPS

-----------------------------------------------------------------------------
(* Shapes.                                                                 *)

\* The status of a subscription, of a trial, and the rows and objects with their fields.
SubStatuses == Live \cup {"canceled"}
TrialStatuses == Open \cup {"expired", "converted"}
Companies == [status : Statuses, end : Nat, sub : Nat]
Trials == [status : TrialStatuses, ends : Nat]
Subs == [status : SubStatuses, trialEnd : Nat, ref : BOOLEAN]
Others == {"completed", "failed", "deleted"}
Events == [kind : {"subscription"}, sub : Nat, status : Live]
            \cup [kind : {"invoice"}, sub : Nat, inv : Nat]
            \cup [kind : Others, sub : Nat]

\* What the handler of a payment has still to commit before the receipt is written.
Billing == {<<"sync", "active", "receipt", "bill">>, <<"sync", "active", "bill">>,
            <<"active", "receipt", "bill">>, <<"active", "bill">>, <<"receipt", "bill">>,
            <<"bill">>}

\* What the handler of an event may have still to commit.
HookTodos(e) ==
  {<<>>} \cup
  CASE e.kind = "subscription" -> {<<"sync", "settle">>, <<"settle">>}
    [] e.kind = "completed" -> {<<"receipt", "sync">>, <<"sync">>}
    [] e.kind = "invoice" -> Billing \cup (IF e.inv = 0 THEN {<<"sync">>} ELSE {})
    [] e.kind = "failed" -> {<<"failed">>}
    [] e.kind = "deleted" -> {<<"deleted">>}

HookFields == {"at", "event", "status", "todo"}

\* Of the webhook in flight: its place in the events, its event and what is left to do.
HookShape ==
  hook = NoHook \/
    /\ hook = [f \in HookFields |-> hook[f]]
    /\ hook.at \in DOMAIN events /\ hook.event = events[hook.at]
    /\ hook.status \in SubStatuses
    /\ hook.event.kind = "subscription" => hook.status \in Live
    /\ hook.todo \in HookTodos(hook.event)

\* What a request and the sweep may have still to do.
Charging == {"charge", "create", "sync"}
TaskTodos(k) ==
  IF k = "request" THEN {<<"expire">>, <<"expire", "charge">>} \cup {<<c>> : c \in Charging}
  ELSE {<<"orphans">>, <<"final">>} \cup {<<c, n>> : c \in Charging, n \in {"orphans", "final"}}

TaskFields == {"todo", "trial", "seen", "orphan", "snap"}

\* Of a request or the sweep that is under way, when Stripe has n subscriptions.
TaskRow(k, t, n) ==
  /\ t = [f \in TaskFields |-> t[f]]
  /\ t.todo \in TaskTodos(k)
  /\ t.seen \in Companies /\ t.seen.sub <= n
  /\ Head(t.todo) = "sync" => t.snap.sub \in 1 .. n /\ t.snap.status \in {"active", "past_due"}

\* A request and the sweep are under way or not.
TasksShape ==
  /\ DOMAIN tasks = Kinds
  /\ \A k \in Kinds : tasks[k] = NoTask \/ TaskRow(k, tasks[k], Len(subs))

\* The company and trial rows, and the clock.
RowsShape ==
  /\ now \in Nat
  /\ company \in Companies /\ company.sub <= Len(subs)
  /\ trials \in Seq(Trials)

\* Stripe's objects, and what its events are about.
StripeShape ==
  /\ subs \in Seq(Subs)
  /\ invoices \in Nat
  /\ events \in Seq(Events)
  /\ \A i \in DOMAIN events :
       /\ events[i].sub \in DOMAIN subs
       /\ events[i].kind = "invoice" => events[i].inv <= invoices

\* Receipts are of payments, or of an invoice of nothing.
BilledShape == billed \subseteq 0 .. invoices

Shapes == RowsShape /\ StripeShape /\ BilledShape /\ HookShape /\ TasksShape

-----------------------------------------------------------------------------
(* What serial and prompt behaviours keep.                                 *)

\* The request or the sweep is under way.
Busy(k) == tasks[k] # NoTask

\* Serial: a webhook runs alone, and so does a request or a sweep.
Alone ==
  mode.serial =>
    /\ hook # NoHook => \A k \in Kinds : ~Busy(k)
    /\ \A k, l \in Kinds : Busy(k) /\ Busy(l) => k = l

\* Prompt: the webhook in flight is that of the first event.
InOrder == mode.prompt /\ hook # NoHook => hook.at = 1

-----------------------------------------------------------------------------
(* Every payment has its receipt, or an event that will write it.          *)

\* An event of payment n waits.
Told(n) == \E i \in DOMAIN events : events[i].kind = "invoice" /\ events[i].inv = n

\* A payment is billed or told of, and its handler ends with the receipt.
Recorded ==
  /\ \A n \in 1 .. invoices : n \in billed \/ Told(n)
  /\ hook # NoHook /\ hook.event.kind = "invoice" /\ hook.event.inv # 0 =>
       hook.todo \in Billing \/ hook.event.inv \in billed

-----------------------------------------------------------------------------
(* Undisturbed, only the last subscription charges, and the company row    *)
(* names it or is about to.                                                *)

\* The subscription Stripe made last.
LastSub == Len(subs)

\* From event i on, all are about the last subscription, and the first of them will have
\* the company name it.
Announced(i) ==
  /\ events[i].kind = "subscription"
  /\ \A j \in DOMAIN events : j >= i => events[j].sub = LastSub
  /\ i = 1 /\ hook # NoHook => At("sync")

\* The company row names the last subscription, or an event that waits will have it so.
Follows ==
  \/ company.sub = LastSub /\ \A i \in DOMAIN events : events[i].sub = LastSub
  \/ \E i \in DOMAIN events : Announced(i)

\* So does what a request or the sweep has read or been told.
TaskFollows(k) ==
  LET t == tasks[k] IN
  /\ Step(k) # "create"
  /\ Step(k) = "sync" => t.snap.sub = LastSub
  /\ Step(k) \in {"expire", "charge"} => t.seen.sub = LastSub
  /\ Step(k) \notin {"sync", "none"} => company.sub = LastSub

\* Only the last subscription may charge.
Sole ==
  \A s \in DOMAIN subs : subs[s].status # "past_due" /\ (subs[s].status \in Live => s = LastSub)

\* Undisturbed, nothing else charges, and whoever is about to charge asks about it.
Single ==
  Calm =>
    /\ faults = 0
    /\ Sole
    /\ Follows
    /\ \A k \in Kinds : TaskFollows(k)

-----------------------------------------------------------------------------
(* In order and alone, the company's status is that of its first           *)
(* subscription once the last event is handled.                            *)

\* The hypothesis of the second part of SettledBooks.
Orderly == mode.serial /\ mode.prompt /\ ~mode.extends /\ Len(subs) <= 1

\* Stripe has the first subscription active; and the company agrees with that.
ActiveSub == subs # <<>> /\ subs[1].status = "active"
Agrees(c) == c.status = "active" <=> ActiveSub

\* The last event tells how the subscription is.
Tells(e) ==
  \/ e.kind = "invoice" /\ subs[1].status = IF e.inv = 0 THEN "trialing" ELSE "active"
  \/ e.kind = "failed" /\ subs[1].status = "past_due"
  \/ e.kind = "deleted" /\ subs[1].status = "canceled"

\* The handler of the last event has what it tells, and once it has written it, so has
\* the company.
Concludes ==
  /\ hook.status = subs[1].status
  /\ At("sync") \/ At("failed") \/ At("deleted") \/ Agrees(company)
  /\ hook.event.kind = "invoice" /\ hook.event.inv = 0 => hook.todo \notin Billing

\* With no event waiting, the request or the sweep has read what the company is.
TaskAgrees(k) ==
  LET t == tasks[k] IN
  Busy(k) /\ events = <<>> =>
    /\ Agrees(t.seen)
    /\ Step(k) # "sync"
    /\ Step(k) \in {"expire", "create"} \/ t.orphan => t.seen.status # "active"

\* In order and alone, the last event tells, and nothing waiting means settled.
Concluded ==
  Orderly =>
    /\ events # <<>> => Tells(events[Len(events)])
    /\ events = <<>> => Agrees(company)
    /\ Len(events) = 1 /\ hook # NoHook => Concludes
    /\ \A k \in Kinds : TaskAgrees(k)

\* The inductive invariant.
Inv == Shapes /\ Alone /\ InOrder /\ Recorded /\ Single /\ Concluded

-----------------------------------------------------------------------------
(* Lists of steps.                                                         *)

\* Of a payment's handler the last step is the receipt.
LEMMA BillingSteps ==
  ASSUME NEW t \in Billing
  PROVE  /\ t # <<>>
         /\ Head(t) \in {"sync", "active", "receipt", "bill"}
         /\ Head(t) = "bill" \/ Tail(t) \in Billing
         /\ Tail(t) \in Billing \cup {<<>>}
<1>1. CASE t = <<"sync", "active", "receipt", "bill">>
  BY <1>1 DEF Billing
<1>2. CASE t = <<"sync", "active", "bill">>
  BY <1>2 DEF Billing
<1>3. CASE t = <<"active", "receipt", "bill">>
  BY <1>3 DEF Billing
<1>4. CASE t = <<"active", "bill">>
  BY <1>4 DEF Billing
<1>5. CASE t = <<"receipt", "bill">>
  BY <1>5 DEF Billing
<1>6. CASE t = <<"bill">>
  BY <1>6 DEF Billing
<1>7. QED BY <1>1, <1>2, <1>3, <1>4, <1>5, <1>6 DEF Billing

\* What is left of a handler's steps after one is one of its lists again.
LEMMA HookTodoTail ==
  ASSUME NEW e \in Events, NEW t \in HookTodos(e), t # <<>>
  PROVE  Tail(t) \in HookTodos(e)
<1>1. CASE e.kind = "subscription"
  <2>1. t = <<"sync", "settle">> => Tail(t) = <<"settle">>
    OBVIOUS
  <2>2. t = <<"settle">> => Tail(t) = <<>>
    OBVIOUS
  <2>3. QED BY <1>1, <2>1, <2>2 DEF HookTodos
<1>2. CASE e.kind = "completed"
  <2>1. t = <<"receipt", "sync">> => Tail(t) = <<"sync">>
    OBVIOUS
  <2>2. t = <<"sync">> => Tail(t) = <<>>
    OBVIOUS
  <2>3. QED BY <1>2, <2>1, <2>2 DEF HookTodos
<1>3. CASE e.kind = "failed"
  <2>1. t = <<"failed">> => Tail(t) = <<>>
    OBVIOUS
  <2>2. QED BY <1>3, <2>1 DEF HookTodos
<1>4. CASE e.kind = "deleted"
  <2>1. t = <<"deleted">> => Tail(t) = <<>>
    OBVIOUS
  <2>2. QED BY <1>4, <2>1 DEF HookTodos
<1>5. CASE e.kind = "invoice"
  <2>1. CASE t \in Billing
    BY <1>5, <2>1, BillingSteps DEF HookTodos
  <2>2. CASE t = <<"sync">>
    <3>1. Tail(t) = <<>>
      BY <2>2
    <3>2. QED BY <1>5, <3>1 DEF HookTodos
  <2>3. QED BY <1>5, <2>1, <2>2 DEF HookTodos
<1>6. QED BY <1>1, <1>2, <1>3, <1>4, <1>5 DEF Events, Others

\* A step put before the rest, of one step or none.
LEMMA ConsOne ==
  ASSUME NEW a, NEW b
  PROVE  <<a>> \o <<b>> = <<a, b>> /\ <<a>> \o <<>> = <<a>>
<1> DEFINE S == {a, b}
<1>1. <<a>> \in Seq(S) /\ <<b>> \in Seq(S) /\ <<a, b>> \in Seq(S)
  OBVIOUS
<1>2. <<a>> \o <<>> = <<a>>
  BY <1>1, ConcatEmptySeq
<1>3. /\ <<a>> \o <<b>> \in Seq(S) /\ Len(<<a>> \o <<b>>) = 2
      /\ (<<a>> \o <<b>>)[1] = a /\ (<<a>> \o <<b>>)[2] = b
  BY <1>1, ConcatProperties
<1>4. \A i \in 1 .. 2 : (<<a>> \o <<b>>)[i] = <<a, b>>[i]
  BY <1>3
<1>5. <<a>> \o <<b>> = <<a, b>>
  BY <1>1, <1>3, <1>4, SeqEqual
<1>6. QED BY <1>2, <1>5

\* Two steps put before the rest.
LEMMA ConsTwo ==
  ASSUME NEW a, NEW b, NEW c, NEW d
  PROVE  <<a, b>> \o <<c>> = <<a, b, c>> /\ <<a, b>> \o <<c, d>> = <<a, b, c, d>>
<1> DEFINE S == {a, b, c, d}
<1>1. /\ <<a, b>> \in Seq(S) /\ <<c>> \in Seq(S) /\ <<c, d>> \in Seq(S)
      /\ <<a, b, c>> \in Seq(S) /\ <<a, b, c, d>> \in Seq(S)
  OBVIOUS
<1>2. <<a, b>> \o <<c>> = <<a, b, c>>
  <2>1. /\ <<a, b>> \o <<c>> \in Seq(S) /\ Len(<<a, b>> \o <<c>>) = 3
        /\ (<<a, b>> \o <<c>>)[1] = a /\ (<<a, b>> \o <<c>>)[2] = b /\ (<<a, b>> \o <<c>>)[3] = c
    BY <1>1, ConcatProperties
  <2>2. \A i \in 1 .. 3 : (<<a, b>> \o <<c>>)[i] = <<a, b, c>>[i]
    BY <2>1
  <2>3. QED BY <1>1, <2>1, <2>2, SeqEqual
<1>3. <<a, b>> \o <<c, d>> = <<a, b, c, d>>
  <2>1. /\ <<a, b>> \o <<c, d>> \in Seq(S) /\ Len(<<a, b>> \o <<c, d>>) = 4
        /\ (<<a, b>> \o <<c, d>>)[1] = a /\ (<<a, b>> \o <<c, d>>)[2] = b
        /\ (<<a, b>> \o <<c, d>>)[3] = c /\ (<<a, b>> \o <<c, d>>)[4] = d
    BY <1>1, ConcatProperties
  <2>2. \A i \in 1 .. 4 : (<<a, b>> \o <<c, d>>)[i] = <<a, b, c, d>>[i]
    BY <2>1
  <2>3. QED BY <1>1, <2>1, <2>2, SeqEqual
<1>4. QED BY <1>2, <1>3

\* The steps of a request or the sweep, and what a charge puts in front of the rest.
LEMMA TaskTodoSteps ==
  ASSUME NEW k \in Kinds, NEW t \in TaskTodos(k)
  PROVE  /\ t # <<>>
         /\ Tail(t) \in TaskTodos(k) \cup {<<>>}
         /\ Head(t) \in Charging =>
              /\ <<"sync">> \o Tail(t) \in TaskTodos(k)
              /\ <<"create">> \o Tail(t) \in TaskTodos(k)
              /\ Head(<<"sync">> \o Tail(t)) = "sync" /\ Head(<<"create">> \o Tail(t)) = "create"
         /\ Head(t) = "final" => Tail(t) = <<>>
         /\ Tail(t) # <<>> =>
              /\ Head(Tail(t)) \in {"charge", "orphans", "final"}
              /\ Head(t) = "expire" <=> Head(Tail(t)) = "charge"
<1> DEFINE sync == <<"sync">> \o Tail(t)
           create == <<"create">> \o Tail(t)
<1>1. CASE t = <<"expire">>
  BY <1>1 DEF TaskTodos, Kinds, Charging
<1>2. CASE t = <<"expire", "charge">>
  <2>1. t # <<>> /\ Head(t) = "expire" /\ Tail(t) = <<"charge">>
    BY <1>2
  <2>2. k = "request"
    BY <1>2 DEF TaskTodos, Kinds
  <2>3. QED BY <2>1, <2>2 DEF TaskTodos, Charging
<1>3. ASSUME NEW c \in Charging, t = <<c>>
      PROVE  /\ t # <<>> /\ Head(t) = c /\ Tail(t) = <<>>
             /\ sync = <<"sync">> /\ create = <<"create">>
             /\ Head(sync) = "sync" /\ Head(create) = "create"
  BY <1>3, ConsOne
<1>4. CASE k = "request" /\ \E c \in Charging : t = <<c>>
  <2>1. PICK c \in Charging : t = <<c>>
    BY <1>4
  <2>2. \A d \in Charging : <<d>> \in TaskTodos(k)
    BY <1>4 DEF TaskTodos
  <2>3. QED BY <2>1, <2>2, <1>3 DEF Charging
<1>5. CASE t = <<"orphans">> \/ t = <<"final">>
  <2>1. ASSUME NEW n, t = <<n>>
        PROVE  t # <<>> /\ Head(t) = n /\ Tail(t) = <<>>
    BY <2>1
  <2>2. QED BY <1>5, <2>1 DEF Charging
<1>6. ASSUME NEW c \in Charging, NEW n \in {"orphans", "final"}, t = <<c, n>>
      PROVE  /\ t # <<>> /\ Head(t) = c /\ Tail(t) = <<n>> /\ Head(Tail(t)) = n
             /\ sync = <<"sync", n>> /\ create = <<"create", n>>
             /\ Head(sync) = "sync" /\ Head(create) = "create"
  BY <1>6, ConsOne
<1>7. CASE k # "request" /\ \E c \in Charging, n \in {"orphans", "final"} : t = <<c, n>>
  <2>1. PICK c \in Charging, n \in {"orphans", "final"} : t = <<c, n>>
    BY <1>7
  <2>2. /\ \A d \in Charging : <<d, n>> \in TaskTodos(k)
        /\ <<n>> \in TaskTodos(k)
    BY <1>7 DEF TaskTodos
  <2>3. QED BY <2>1, <2>2, <1>6 DEF Charging
<1>8. QED BY <1>1, <1>2, <1>4, <1>5, <1>7 DEF TaskTodos

-----------------------------------------------------------------------------
(* What Stripe does to one subscription, and tells of it.                  *)

\* Stripe moves s, its last subscription or a new one, and appends events about it: the
\* first tells of a new subscription, the last how it is.
SubsMoved(s) ==
  /\ s \in 1 .. Len(subs) + 1
  /\ subs' \in Seq(Subs) /\ Len(subs') = IF s <= Len(subs) THEN Len(subs) ELSE s
  /\ \A j \in DOMAIN subs : j # s => subs'[j] = subs[j]
  /\ s <= Len(subs) => subs[s].status \in Live
  /\ ~mode.declines => subs'[s].status # "past_due"

\* That, and what is told of it.
Moved(s) ==
  /\ SubsMoved(s)
  /\ invoices' \in {invoices, invoices + 1}
  /\ events' \in Seq(Events) /\ Len(events) < Len(events')
  /\ \A i \in DOMAIN events : events'[i] = events[i]
  /\ \A i \in DOMAIN events' : i > Len(events) =>
       /\ events'[i].sub = s
       /\ events'[i].kind = "invoice" => events'[i].inv <= invoices'
  /\ s > Len(subs) => events'[Len(events) + 1].kind = "subscription"
  /\ invoices' # invoices => Told(invoices)'
  /\ s = 1 => Tells(events[Len(events)])'

\* Both events of an invoice are about it.
LEMMA InvoiceSeq ==
  ASSUME NEW s \in Nat, NEW n \in Nat
  PROVE  /\ InvoiceEvents(s, n) \in Seq(Events) /\ Len(InvoiceEvents(s, n)) = 2
         /\ \A i \in 1 .. 2 : InvoiceEvents(s, n)[i] = [kind |-> "invoice", sub |-> s, inv |-> n]
<1> DEFINE e == [kind |-> "invoice", sub |-> s, inv |-> n]
<1>1. e \in Events
  BY DEF Events
<1>2. [i \in 1 .. 2 |-> e] \in Seq(Events) /\ Len([i \in 1 .. 2 |-> e]) = 2
  BY <1>1
<1>3. QED BY <1>2 DEF InvoiceEvents

\* The list new is old and then more.
Extends(new, old, more) ==
  /\ new \in Seq(Events) /\ Len(new) = Len(old) + Len(more)
  /\ \A i \in 1 .. Len(old) : new[i] = old[i]
  /\ \A i \in 1 .. Len(more) : new[Len(old) + i] = more[i]

\* What is appended to the events leaves those there are in place.
LEMMA EventsJoined ==
  ASSUME NEW old \in Seq(Events), NEW more \in Seq(Events)
  PROVE  Extends(old \o more, old, more)
<1>1. /\ old \o more \in Seq(Events)
      /\ Len(old \o more) = Len(old) + Len(more)
      /\ \A i \in 1 .. Len(old) + Len(more) :
           (old \o more)[i] = IF i <= Len(old) THEN old[i] ELSE more[i - Len(old)]
  BY ConcatProperties
<1>2. Len(old) \in Nat /\ Len(more) \in Nat
  OBVIOUS
<1>3. \A i \in 1 .. Len(old) : (old \o more)[i] = old[i]
  BY <1>1, <1>2
<1>4. \A i \in 1 .. Len(more) : (old \o more)[Len(old) + i] = more[i]
  BY <1>1, <1>2
<1>5. QED BY <1>1, <1>3, <1>4 DEF Extends

\* The list new is old, then head, then the events of an invoice.
Invoiced(new, old, head, s, n) ==
  /\ new \in Seq(Events) /\ Len(new) = Len(old) + Len(head) + 2
  /\ \A i \in 1 .. Len(old) : new[i] = old[i]
  /\ \A i \in 1 .. Len(head) : new[Len(old) + i] = head[i]
  /\ \A i \in 1 .. 2 :
       new[Len(old) + Len(head) + i] = [kind |-> "invoice", sub |-> s, inv |-> n]

\* The same with the events of an invoice at the end.
LEMMA InvoiceJoined ==
  ASSUME NEW old \in Seq(Events), NEW head \in Seq(Events), NEW s \in Nat, NEW n \in Nat
  PROVE  Invoiced(old \o head \o InvoiceEvents(s, n), old, head, s, n)
<1> DEFINE mid == old \o head
           tail == InvoiceEvents(s, n)
           new == mid \o tail
<1>1. Extends(mid, old, head)
  BY EventsJoined
<1>2. Len(old) \in Nat /\ Len(head) \in Nat
  OBVIOUS
<1>3. tail \in Seq(Events) /\ Len(tail) = 2
  BY InvoiceSeq
<1>4. \A i \in 1 .. 2 : tail[i] = [kind |-> "invoice", sub |-> s, inv |-> n]
  BY InvoiceSeq
<1>5. mid \in Seq(Events)
  BY <1>1 DEF Extends
<1> HIDE DEF mid, tail
<1>6. Extends(new, mid, tail)
  BY <1>3, <1>5, EventsJoined
<1> HIDE DEF new
<1>7. Len(mid) = Len(old) + Len(head) /\ Len(new) = Len(mid) + 2 /\ new \in Seq(Events)
  BY <1>1, <1>3, <1>6 DEF Extends
<1>8. \A i \in 1 .. Len(old) : new[i] = old[i]
  BY <1>1, <1>2, <1>6, <1>7 DEF Extends
<1>9. \A i \in 1 .. Len(head) : new[Len(old) + i] = head[i]
  <2>1. TAKE i \in 1 .. Len(head)
  <2>2. Len(old) + i \in 1 .. Len(mid)
    BY <1>2, <1>7
  <2>3. QED BY <2>2, <1>1, <1>6 DEF Extends
<1>10. \A i \in 1 .. 2 : new[Len(mid) + i] = [kind |-> "invoice", sub |-> s, inv |-> n]
  BY <1>3, <1>4, <1>6 DEF Extends
<1>11. QED BY <1>2, <1>7, <1>8, <1>9, <1>10 DEF mid, tail, new, Invoiced

\* The list new is old with another status of s.
Becomes(new, old, s, status) ==
  /\ new \in Seq(Subs) /\ Len(new) = Len(old) /\ new[s].status = status
  /\ \A j \in 1 .. Len(old) : j # s => new[j] = old[j]

\* A change of status leaves everything else of the subscriptions alone.
LEMMA SubMoves ==
  ASSUME NEW list \in Seq(Subs), NEW s \in 1 .. Len(list), NEW status \in SubStatuses
  PROVE  Becomes([list EXCEPT ![s].status = status], list, s, status)
<1> DEFINE row == [list[s] EXCEPT !.status = status]
<1>1. list[s] \in Subs
  OBVIOUS
<1>2. row \in Subs /\ row.status = status
  BY <1>1 DEF Subs
<1> HIDE DEF row
<1>3. /\ [list EXCEPT ![s] = row] \in Seq(Subs) /\ Len([list EXCEPT ![s] = row]) = Len(list)
      /\ \A j \in 1 .. Len(list) : [list EXCEPT ![s] = row][j] = IF j = s THEN row ELSE list[j]
  BY <1>2, ExceptSeq
<1>4. QED BY <1>2, <1>3 DEF row, Becomes

\* Stripe tells of a trial or of a payment: the events end with those of an invoice.
LEMMA InvoicedMoves ==
  ASSUME Shapes, NEW s \in Nat, SubsMoved(s),
         NEW head \in Seq(Events), Len(head) > 0, head[1].kind = "subscription",
         \A i \in 1 .. Len(head) : head[i].sub = s /\ head[i].kind # "invoice",
         NEW n \in Nat, n <= invoices', invoices' \in {invoices, invoices + 1},
         invoices' # invoices => n = invoices',
         subs'[s].status = IF n = 0 THEN "trialing" ELSE "active",
         Invoiced(events', events, head, s, n)
  PROVE  Moved(s)
<1> DEFINE L == Len(events)
           H == Len(head)
           inv == [kind |-> "invoice", sub |-> s, inv |-> n]
<1>1. events \in Seq(Events) /\ L \in Nat /\ H \in Nat /\ H > 0 /\ invoices \in Nat
  BY DEF Shapes, RowsShape, StripeShape
<1>2. inv.kind = "invoice" /\ inv.sub = s /\ inv.inv = n
  OBVIOUS
<1>3. /\ events' \in Seq(Events) /\ Len(events') = L + H + 2
      /\ \A i \in 1 .. L : events'[i] = events[i]
      /\ \A i \in 1 .. H : events'[L + i] = head[i]
      /\ \A i \in 1 .. 2 : events'[L + H + i] = inv
  BY DEF Invoiced
<1>4. DOMAIN events = 1 .. L /\ DOMAIN events' = 1 .. L + H + 2
  BY <1>1, <1>3
<1> HIDE DEF L, H, inv
<1>5. L + H + 2 \in DOMAIN events' /\ events'[L + H + 2] = inv
  BY <1>1, <1>3, <1>4
<1>6. invoices' # invoices => Told(invoices)'
  BY <1>2, <1>5 DEF Told
<1>7. s = 1 => Tells(events[Len(events)])'
  BY <1>2, <1>3, <1>5 DEF Tells
<1>8. events'[L + 1].kind = "subscription"
  <2>1. 1 \in 1 .. H
    BY <1>1
  <2>2. events'[L + 1] = head[1]
    BY <1>3, <2>1
  <2>3. QED BY <2>2
<1>9. \A i \in DOMAIN events' : i > L =>
        events'[i].sub = s /\ (events'[i].kind = "invoice" => events'[i].inv <= invoices')
  <2>1. TAKE i \in DOMAIN events'
  <2>2. CASE i > L /\ i <= L + H
    <3>1. i - L \in 1 .. H /\ i = L + (i - L)
      BY <1>1, <1>4, <2>2
    <3>2. events'[i] = head[i - L]
      BY <1>3, <3>1
    <3>3. QED BY <3>1, <3>2 DEF H
  <2>3. CASE i > L + H
    <3>1. i - L - H \in 1 .. 2 /\ i = L + H + (i - L - H)
      BY <1>1, <1>4, <2>3
    <3>2. events'[i] = inv
      BY <1>3, <3>1
    <3>3. QED BY <1>2, <3>2
  <2>4. QED BY <1>1, <1>4, <2>2, <2>3
<1>10. Len(events) < Len(events')
  BY <1>1, <1>3 DEF L
<1>11. \A i \in DOMAIN events : events'[i] = events[i]
  BY <1>3, <1>4
<1>12. QED BY <1>3, <1>6, <1>7, <1>8, <1>9, <1>10, <1>11 DEF Moved, L

\* The events of a move are otherwise a list of one or two.
LEMMA ToldMoves ==
  ASSUME Shapes, NEW s \in DOMAIN subs, SubsMoved(s), UNCHANGED invoices,
         NEW more \in Seq(Events), Len(more) > 0, Extends(events', events, more),
         \A i \in 1 .. Len(more) : more[i].sub = s /\ more[i].kind # "invoice",
         \/ more[Len(more)].kind = "failed" /\ subs'[s].status = "past_due"
         \/ more[Len(more)].kind = "deleted" /\ subs'[s].status = "canceled"
  PROVE  Moved(s)
<1> DEFINE L == Len(events)
           H == Len(more)
<1>1. events \in Seq(Events) /\ L \in Nat /\ H \in Nat /\ H > 0 /\ invoices \in Nat
  BY DEF Shapes, RowsShape, StripeShape
<1>2. /\ events' \in Seq(Events) /\ Len(events') = L + H
      /\ \A i \in 1 .. L : events'[i] = events[i]
      /\ \A i \in 1 .. H : events'[L + i] = more[i]
  BY DEF Extends
<1>3. DOMAIN events = 1 .. L /\ DOMAIN events' = 1 .. L + H
  BY <1>1, <1>2
<1>4. \A i \in 1 .. H : more[i].sub = s /\ more[i].kind # "invoice"
  OBVIOUS
<1>5. /\ s \in 1 .. Len(subs) /\ Len(subs) \in Nat
      /\ events'[L + H] = more[H]
  BY <1>1, <1>2 DEF Shapes, RowsShape, StripeShape
<1>6. s = 1 => Tells(events[Len(events)])'
  BY <1>2, <1>5 DEF Tells
<1> HIDE DEF L, H
<1>7. \A i \in DOMAIN events' : i > L => events'[i].sub = s /\ events'[i].kind # "invoice"
  <2>1. TAKE i \in DOMAIN events'
  <2>2. HAVE i > L
  <2>3. i - L \in 1 .. H /\ i = L + (i - L)
    BY <1>1, <1>3, <2>2
  <2>4. events'[i] = more[i - L]
    BY <1>2, <2>3
  <2>5. QED BY <1>4, <2>3, <2>4
<1>8. Len(events) < Len(events')
  BY <1>1, <1>2 DEF L
<1>9. \A i \in DOMAIN events : events'[i] = events[i]
  BY <1>2, <1>3
<1>10. ~(s > Len(subs))
  BY <1>5
<1>11. QED BY <1>2, <1>6, <1>7, <1>8, <1>9, <1>10 DEF Moved, L

\* A payment moves its subscription, and is told of last.
LEMMA PaysMoves ==
  ASSUME Shapes, NEW s \in DOMAIN subs, subs[s].status \in Live, Pays(s)
  PROVE  Moved(s)
<1> DEFINE head == <<SubEvent(s, "active")>>
<1>1. /\ subs \in Seq(Subs) /\ events \in Seq(Events) /\ invoices \in Nat
      /\ s \in 1 .. Len(subs) /\ Len(subs) \in Nat /\ s \in Nat
  BY DEF Shapes, RowsShape, StripeShape
<1>2. /\ invoices' = invoices + 1 /\ invoices' \in Nat /\ invoices' # 0
      /\ subs' = [subs EXCEPT ![s].status = "active"]
      /\ events' = events \o head \o InvoiceEvents(s, invoices')
  BY <1>1 DEF Pays
<1>3. SubEvent(s, "active") \in Events
  BY <1>1 DEF SubEvent, Events, Live
<1>4. head \in Seq(Events) /\ Len(head) = 1 /\ head[1] = SubEvent(s, "active")
  BY <1>3
<1>5. "active" \in SubStatuses
  BY DEF SubStatuses, Live
<1>6. Becomes(subs', subs, s, "active")
  BY <1>1, <1>2, <1>5, SubMoves
<1>7. SubsMoved(s) /\ subs'[s].status = "active"
  BY <1>1, <1>6 DEF SubsMoved, Becomes
<1> HIDE DEF head
<1>8. Invoiced(events', events, head, s, invoices')
  BY <1>1, <1>2, <1>4, InvoiceJoined
<1>9. \A i \in 1 .. Len(head) : head[i].sub = s /\ head[i].kind # "invoice"
  BY <1>4 DEF SubEvent
<1>10. Len(head) > 0 /\ head[1].kind = "subscription"
  BY <1>4 DEF SubEvent
<1>11. /\ invoices' <= invoices' /\ invoices' \in {invoices, invoices + 1}
       /\ subs'[s].status = IF invoices' = 0 THEN "trialing" ELSE "active"
  BY <1>2, <1>7
<1>12. QED BY <1>1, <1>2, <1>11, <1>4, <1>7, <1>8, <1>9, <1>10, InvoicedMoves

\* A refused payment moves its subscription, and is told of last.
LEMMA DeclinesMoves ==
  ASSUME Shapes, NEW s \in DOMAIN subs, subs[s].status \in Live, Declines(s)
  PROVE  Moved(s)
<1> DEFINE more == <<SubEvent(s, "past_due"), Event("failed", s)>>
<1>1. /\ subs \in Seq(Subs) /\ events \in Seq(Events)
      /\ s \in 1 .. Len(subs) /\ Len(subs) \in Nat /\ s \in Nat
  BY DEF Shapes, RowsShape, StripeShape
<1>2. /\ mode.declines /\ UNCHANGED invoices
      /\ subs' = [subs EXCEPT ![s].status = "past_due"] /\ events' = events \o more
  BY DEF Declines
<1>3. SubEvent(s, "past_due") \in Events /\ Event("failed", s) \in Events
  BY <1>1 DEF SubEvent, Event, Events, Live, Others
<1>4. /\ more \in Seq(Events) /\ Len(more) = 2
      /\ more[1] = SubEvent(s, "past_due") /\ more[2] = Event("failed", s)
  BY <1>3
<1>5. "past_due" \in SubStatuses
  BY DEF SubStatuses, Live
<1>6. Becomes(subs', subs, s, "past_due")
  BY <1>1, <1>2, <1>5, SubMoves
<1>7. SubsMoved(s) /\ subs'[s].status = "past_due"
  BY <1>1, <1>2, <1>6 DEF SubsMoved, Becomes
<1> HIDE DEF more
<1>8. Extends(events', events, more)
  BY <1>1, <1>2, <1>4, EventsJoined
<1>9. \A i \in 1 .. Len(more) : more[i].sub = s /\ more[i].kind # "invoice"
  BY <1>4 DEF SubEvent, Event
<1>10. Len(more) > 0 /\ more[Len(more)].kind = "failed"
  BY <1>4 DEF Event
<1>11. QED BY <1>2, <1>4, <1>7, <1>8, <1>9, <1>10, ToldMoves

\* The end of a subscription moves it, and is told of last.
LEMMA EndsMoves ==
  ASSUME Shapes, NEW s \in DOMAIN subs, Ends(s)
  PROVE  Moved(s)
<1> DEFINE e == Event("deleted", s)
           more == <<e>>
<1>1. /\ subs \in Seq(Subs) /\ events \in Seq(Events)
      /\ s \in 1 .. Len(subs) /\ Len(subs) \in Nat /\ s \in Nat
  BY DEF Shapes, RowsShape, StripeShape
<1>2. /\ UNCHANGED invoices /\ subs[s].status \in Live
      /\ subs' = [subs EXCEPT ![s].status = "canceled"] /\ events' = Append(events, e)
  BY DEF Ends, Live
<1>3. e \in Events
  BY <1>1 DEF Event, Events, Others
<1>4. more \in Seq(Events) /\ Len(more) = 1 /\ more[1] = e
  BY <1>3
<1>5. "canceled" \in SubStatuses
  BY DEF SubStatuses
<1>6. Becomes(subs', subs, s, "canceled")
  BY <1>1, <1>2, <1>5, SubMoves
<1>7. SubsMoved(s) /\ subs'[s].status = "canceled"
  BY <1>1, <1>2, <1>6 DEF SubsMoved, Becomes
<1>8. Extends(events', events, more)
  <2>1. events' = events \o more
    BY <1>1, <1>2, <1>3, AppendIsConcat
  <2>2. QED BY <1>1, <1>4, <2>1, EventsJoined
<1> HIDE DEF more
<1>9. \A i \in 1 .. Len(more) : more[i].sub = s /\ more[i].kind # "invoice"
  BY <1>4 DEF Event
<1>10. Len(more) > 0 /\ more[Len(more)].kind = "deleted"
  BY <1>4 DEF Event
<1>11. QED BY <1>2, <1>4, <1>7, <1>8, <1>9, <1>10, ToldMoves

\* A subscription appended to Stripe's.
LEMMA SubAppended ==
  ASSUME NEW list \in Seq(Subs), NEW r \in Subs
  PROVE  /\ Append(list, r) \in Seq(Subs) /\ Len(Append(list, r)) = Len(list) + 1
         /\ Append(list, r)[Len(list) + 1] = r
         /\ \A j \in 1 .. Len(list) : Append(list, r)[j] = list[j]
  OBVIOUS

\* A subscription made by a charge is new, told of first and paid last.
LEMMA CreatesMoves ==
  ASSUME Shapes, Creates
  PROVE  Moved(Len(subs) + 1)
<1> DEFINE s == Len(subs) + 1
           r == [status |-> "active", trialEnd |-> now, ref |-> FALSE]
           head == <<SubEvent(s, "active")>>
<1>1. /\ subs \in Seq(Subs) /\ events \in Seq(Events) /\ invoices \in Nat /\ now \in Nat
      /\ Len(subs) \in Nat /\ s \in Nat
  BY DEF Shapes, RowsShape, StripeShape
<1>2. r \in Subs /\ r.status = "active"
  BY <1>1 DEF Subs, SubStatuses, Live
<1>3. subs' = Append(subs, r) /\ invoices' = invoices + 1 /\ invoices' \in Nat /\ invoices' # 0
  BY <1>1 DEF Creates
<1> HIDE DEF r
<1>4. /\ subs' \in Seq(Subs) /\ Len(subs') = s /\ subs'[s] = r
      /\ \A j \in 1 .. Len(subs) : subs'[j] = subs[j]
  BY <1>1, <1>2, <1>3, SubAppended
<1>5. SubsMoved(s) /\ subs'[s].status = "active"
  BY <1>1, <1>2, <1>4 DEF SubsMoved
<1>6. events' = events \o head \o InvoiceEvents(s, invoices')
  BY <1>4 DEF Creates
<1>7. SubEvent(s, "active") \in Events
  BY <1>1 DEF SubEvent, Events, Live
<1>8. head \in Seq(Events) /\ Len(head) = 1 /\ head[1] = SubEvent(s, "active")
  BY <1>7
<1> HIDE DEF s, head
<1>9. Invoiced(events', events, head, s, invoices')
  BY <1>1, <1>3, <1>6, <1>8, InvoiceJoined
<1>10. \A i \in 1 .. Len(head) : head[i].sub = s /\ head[i].kind # "invoice"
  BY <1>8 DEF SubEvent
<1>11. Len(head) > 0 /\ head[1].kind = "subscription"
  BY <1>8 DEF SubEvent
<1>12. /\ invoices' <= invoices' /\ invoices' \in {invoices, invoices + 1}
       /\ subs'[s].status = IF invoices' = 0 THEN "trialing" ELSE "active"
  BY <1>3, <1>5
<1>13. Moved(s)
  BY <1>1, <1>3, <1>12, <1>5, <1>8, <1>9, <1>10, <1>11, InvoicedMoves
<1>14. QED BY <1>13 DEF s

\* So is one bought at the checkout, paid or on trial.
LEMMA CompleteMoves ==
  ASSUME Shapes, Buy
  PROVE  Moved(Len(subs) + 1)
<1> DEFINE s == Len(subs) + 1
           trial == checkout = "trial"
           status == IF trial THEN "trialing" ELSE "active"
           n == IF trial THEN 0 ELSE invoices'
           r == [status |-> status, trialEnd |-> now + 1, ref |-> TRUE]
           head == <<SubEvent(s, status), Event("completed", s)>>
<1>1. /\ subs \in Seq(Subs) /\ events \in Seq(Events) /\ invoices \in Nat /\ now \in Nat
      /\ Len(subs) \in Nat /\ s \in Nat
  BY DEF Shapes, RowsShape, StripeShape
<1>2. status \in Live /\ status # "past_due"
  BY DEF Live
<1>3. r \in Subs /\ r.status = status
  BY <1>1, <1>2 DEF Subs, SubStatuses
<1>4. subs' = Append(subs, r) /\ invoices' = IF trial THEN invoices ELSE invoices + 1
  BY DEF Buy
<1>5. n \in Nat /\ n <= invoices' /\ (invoices' # invoices => n = invoices')
  BY <1>1, <1>4
<1>6. status = IF n = 0 THEN "trialing" ELSE "active"
  BY <1>1, <1>4
<1> HIDE DEF r, status
<1>7. /\ subs' \in Seq(Subs) /\ Len(subs') = s /\ subs'[s] = r
      /\ \A j \in 1 .. Len(subs) : subs'[j] = subs[j]
  BY <1>1, <1>3, <1>4, SubAppended
<1>8. SubsMoved(s) /\ subs'[s].status = status
  BY <1>1, <1>2, <1>3, <1>7 DEF SubsMoved
<1>9. events' = events \o head \o InvoiceEvents(s, n)
  BY <1>7, <1>8 DEF Buy
<1>10. SubEvent(s, status) \in Events /\ Event("completed", s) \in Events
  BY <1>1, <1>2 DEF SubEvent, Event, Events, Others
<1>11. /\ head \in Seq(Events) /\ Len(head) = 2
       /\ head[1] = SubEvent(s, status) /\ head[2] = Event("completed", s)
  BY <1>10
<1> HIDE DEF s, head
<1>12. Invoiced(events', events, head, s, n)
  BY <1>1, <1>5, <1>9, <1>11, InvoiceJoined
<1>13. \A i \in 1 .. Len(head) : head[i].sub = s /\ head[i].kind # "invoice"
  BY <1>11 DEF SubEvent, Event
<1>14. Len(head) > 0 /\ head[1].kind = "subscription"
  BY <1>11 DEF SubEvent
<1>15. invoices' \in {invoices, invoices + 1}
  BY <1>4
<1> HIDE DEF n
<1>16. Moved(s)
  BY <1>1, <1>5, <1>6, <1>8, <1>11, <1>12, <1>13, <1>14, <1>15, InvoicedMoves
<1>17. QED BY <1>16 DEF s

-----------------------------------------------------------------------------
(* Every step keeps the shapes.                                            *)

\* A trial marked leaves the trials and their ends.
LEMMA TrialMarked ==
  ASSUME NEW tr \in Seq(Trials), NEW i, NEW status \in TrialStatuses
  PROVE  /\ SetTrial(tr, i, status) \in Seq(Trials)
         /\ Len(SetTrial(tr, i, status)) = Len(tr)
         /\ \A j \in 1 .. Len(tr) : SetTrial(tr, i, status)[j].ends = tr[j].ends
<1> DEFINE new == [tr EXCEPT ![i].status = status]
<1>1. \A j \in 1 .. Len(tr) : tr[j] \in Trials
  OBVIOUS
<1>2. \A j \in 1 .. Len(tr) : new[j] = IF j = i THEN [tr[j] EXCEPT !.status = status] ELSE tr[j]
  OBVIOUS
<1>3. \A j \in 1 .. Len(tr) : new[j] \in Trials /\ new[j].ends = tr[j].ends
  BY <1>1, <1>2 DEF Trials
<1>4. new \in Seq(Trials) /\ Len(new) = Len(tr)
  <2>1. CASE i \in 1 .. Len(tr)
    <3>1. [tr[i] EXCEPT !.status = status] \in Trials
      BY <1>1, <2>1 DEF Trials
    <3>2. QED BY <2>1, <3>1, ExceptSeq
  <2>2. CASE i \notin 1 .. Len(tr)
    <3>1. new = tr
      BY <2>2
    <3>2. QED BY <3>1
  <2>3. QED BY <2>1, <2>2
<1>5. QED BY <1>3, <1>4 DEF SetTrial

\* A trial made is a trial.
LEMMA TrialMade ==
  ASSUME NEW tr \in Seq(Trials), NEW ends \in Nat
  PROVE  NewTrial(tr, ends) \in Seq(Trials)
<1>1. [status |-> "active", ends |-> ends] \in Trials
  BY DEF Trials, TrialStatuses, Open
<1>2. QED BY <1>1 DEF NewTrial

\* What _sync_company_subscription leaves.
LEMMA SyncedShape ==
  ASSUME RowsShape, StripeShape, UNCHANGED <<now, subs>>,
         NEW s \in DOMAIN subs, NEW status \in Statuses, NEW t, Synced(s, status, t)
  PROVE  RowsShape'
<1>1. s \in Nat /\ s <= Len(subs) /\ subs[s].trialEnd \in Nat
  <2>1. subs[s] \in Subs /\ s \in 1 .. Len(subs)
    BY DEF StripeShape
  <2>2. QED BY <2>1 DEF Subs
<1>2. company' \in Companies /\ company'.sub <= Len(subs)
  BY <1>1 DEF Synced, Companies, Far
<1>3. trials' \in Seq(Trials)
  <2>1. "expired" \in TrialStatuses /\ "converted" \in TrialStatuses
    BY DEF TrialStatuses
  <2>2. trials \in Seq(Trials)
    BY DEF RowsShape
  <2>3. CASE status = "active"
    <3>1. trials' = SetTrial(SetTrial(trials, t, "expired"), Convertible(trials), "converted")
      BY <2>3 DEF Synced
    <3>2. SetTrial(trials, t, "expired") \in Seq(Trials)
      BY <2>1, <2>2, TrialMarked
    <3>3. QED BY <2>1, <3>1, <3>2, TrialMarked
  <2>4. CASE status = "trialing" /\ ActiveTrial(trials) = 0
    <3>1. trials' = NewTrial(trials, subs[s].trialEnd)
      BY <2>4 DEF Synced
    <3>2. QED BY <1>1, <2>2, <3>1, TrialMade
  <2>5. CASE ~(status = "active") /\ ~(status = "trialing" /\ ActiveTrial(trials) = 0)
    <3>1. trials' = SetTrial(trials, t, "expired")
      BY <2>5 DEF Synced
    <3>2. QED BY <2>1, <2>2, <3>1, TrialMarked
  <2>6. QED BY <2>3, <2>4, <2>5
<1>4. QED BY <1>2, <1>3 DEF RowsShape

\* A company given another status, or status and end.
LEMMA CompanyMarked ==
  ASSUME NEW c \in Companies, NEW status \in Statuses
  PROVE  /\ [c EXCEPT !.status = status] \in Companies
         /\ [c EXCEPT !.status = status].sub = c.sub
         /\ [c EXCEPT !.status = status].status = status
  BY DEF Companies

\* The webhook goes on as events are appended.
LEMMA HookKept ==
  ASSUME HookShape, StripeShape, UNCHANGED hook,
         \A i \in DOMAIN events : i \in DOMAIN events' /\ events'[i] = events[i]
  PROVE  HookShape'
  BY DEF HookShape

\* A move of Stripe keeps the shapes of what it does not write.
LEMMA MovedShape ==
  ASSUME Shapes, NEW s, Moved(s)
  PROVE  /\ StripeShape'
         /\ Len(subs) <= Len(subs')
         /\ \A i \in DOMAIN events : i \in DOMAIN events' /\ events'[i] = events[i]
         /\ UNCHANGED <<now, company, trials>> => RowsShape'
         /\ UNCHANGED billed => BilledShape'
         /\ UNCHANGED hook => HookShape'
<1>1. /\ subs \in Seq(Subs) /\ Len(subs) \in Nat /\ invoices \in Nat /\ events \in Seq(Events)
      /\ DOMAIN subs = 1 .. Len(subs) /\ DOMAIN events = 1 .. Len(events) /\ Len(events) \in Nat
  BY DEF Shapes, StripeShape
<1>2. /\ subs' \in Seq(Subs) /\ Len(subs) <= Len(subs') /\ s \in DOMAIN subs'
      /\ DOMAIN subs' = 1 .. Len(subs') /\ Len(subs') \in Nat
  BY <1>1 DEF Moved, SubsMoved
<1>3. /\ invoices' \in Nat /\ invoices <= invoices'
      /\ events' \in Seq(Events) /\ Len(events) < Len(events')
      /\ DOMAIN events' = 1 .. Len(events') /\ Len(events') \in Nat
  BY <1>1 DEF Moved
<1>4. \A i \in DOMAIN events : i \in DOMAIN events' /\ events'[i] = events[i]
  BY <1>1, <1>3 DEF Moved
<1>5. ASSUME NEW i \in DOMAIN events'
      PROVE  /\ events'[i].sub \in DOMAIN subs'
             /\ events'[i].kind = "invoice" => events'[i].inv <= invoices'
  <2>1. CASE i > Len(events)
    BY <1>2, <2>1 DEF Moved
  <2>2. CASE ~(i > Len(events))
    <3>1. i \in DOMAIN events
      BY <1>1, <1>3, <2>2
    <3>2. /\ events'[i] = events[i] /\ events[i].sub \in DOMAIN subs
          /\ events[i].kind = "invoice" => events[i].inv <= invoices
      BY <1>4, <3>1 DEF Shapes, StripeShape
    <3>3. events[i].kind = "invoice" => events[i].inv \in Nat
      BY <1>1, <3>1 DEF Events, Others
    <3>4. QED BY <1>1, <1>2, <1>3, <3>2, <3>3
  <2>3. QED BY <2>1, <2>2
<1>6. StripeShape'
  BY <1>2, <1>3, <1>5 DEF StripeShape
<1>7. UNCHANGED <<now, company, trials>> => RowsShape'
  <2>1. company \in Companies => company.sub \in Nat
    BY DEF Companies
  <2>2. QED BY <1>1, <1>2, <2>1 DEF Shapes, RowsShape
<1>8. UNCHANGED billed => BilledShape'
  BY <1>1, <1>3 DEF Shapes, BilledShape
<1>9. UNCHANGED hook => HookShape'
  BY <1>4, HookKept DEF Shapes
<1>10. QED BY <1>2, <1>4, <1>6, <1>7, <1>8, <1>9

\* What is under way goes on as subscriptions are appended.
LEMMA RowGrows ==
  ASSUME NEW k, NEW t, NEW n \in Nat, NEW m \in Nat, n <= m, TaskRow(k, t, n)
  PROVE  TaskRow(k, t, m)
<1>1. t.seen.sub \in Nat
  BY DEF TaskRow, Companies
<1>2. QED BY <1>1 DEF TaskRow

\* One task goes on as t.
LEMMA ThenShape ==
  ASSUME TasksShape, subs \in Seq(Subs), subs' \in Seq(Subs), Len(subs) <= Len(subs'),
         NEW k \in Kinds, NEW t, t.todo = <<>> \/ TaskRow(k, t, Len(subs')), Then(k, t)
  PROVE  TasksShape'
<1>1. tasks' = [tasks EXCEPT ![k] = IF t.todo = <<>> THEN NoTask ELSE t]
  BY DEF Then
<1>2. DOMAIN tasks' = Kinds
  BY <1>1 DEF TasksShape
<1>3. ASSUME NEW j \in Kinds
      PROVE  tasks'[j] = NoTask \/ TaskRow(j, tasks'[j], Len(subs'))
  <2>1. CASE j = k
    BY <1>1, <2>1 DEF TasksShape
  <2>2. CASE j # k
    <3>1. tasks'[j] = tasks[j]
      BY <1>1, <2>2 DEF TasksShape
    <3>2. Len(subs) \in Nat /\ Len(subs') \in Nat
      OBVIOUS
    <3>3. tasks[j] = NoTask \/ TaskRow(j, tasks[j], Len(subs))
      BY DEF TasksShape
    <3>4. QED BY <3>1, <3>2, <3>3, RowGrows
  <2>3. QED BY <2>1, <2>2
<1>4. QED BY <1>2, <1>3 DEF TasksShape

\* The step that is next, and the row it is in.
LEMMA BusyRow ==
  ASSUME TasksShape, NEW k \in Kinds, Step(k) # "none"
  PROVE  /\ TaskRow(k, tasks[k], Len(subs)) /\ Busy(k)
         /\ Step(k) = Head(tasks[k].todo)
<1>1. tasks[k].todo # <<>>
  BY DEF Step
<1>2. NoTask.todo = <<>>
  BY DEF NoTask
<1>3. tasks[k] # NoTask
  BY <1>1, <1>2
<1>4. QED BY <1>1, <1>3 DEF TasksShape, Step, Busy

\* After one step.
LEMMA RestRow ==
  ASSUME NEW k \in Kinds, NEW n, TaskRow(k, tasks[k], n), NEW r, r = Rest(k)
  PROVE  /\ r = [f \in TaskFields |-> r[f]]
         /\ r.todo = Tail(tasks[k].todo) /\ r.trial = tasks[k].trial /\ r.seen = tasks[k].seen
         /\ r.orphan = tasks[k].orphan /\ r.snap = tasks[k].snap
         /\ r.todo # <<>> => TaskRow(k, r, n) /\ Head(r.todo) \in {"charge", "orphans", "final"}
<1> DEFINE t == tasks[k]
<1>1. /\ t = [f \in TaskFields |-> t[f]]
      /\ t.todo \in TaskTodos(k) /\ t.seen \in Companies /\ t.seen.sub <= n
  BY DEF TaskRow
<1>2. r = [t EXCEPT !.todo = Tail(t.todo)]
  BY DEF Rest
<1>3. \/ Tail(t.todo) = <<>>
      \/ Tail(t.todo) \in TaskTodos(k) /\ Head(Tail(t.todo)) \in {"charge", "orphans", "final"}
  <2> DEFINE todo == t.todo
  <2>1. todo \in TaskTodos(k)
    BY <1>1
  <2> HIDE DEF todo
  <2>2. Tail(todo) \in TaskTodos(k) \cup {<<>>}
    BY <2>1, TaskTodoSteps
  <2>3. Tail(todo) # <<>> => Head(Tail(todo)) \in {"charge", "orphans", "final"}
    BY <2>1, TaskTodoSteps
  <2>4. Tail(todo) = <<>> \/ Tail(todo) \in TaskTodos(k)
    BY <2>2
  <2>5. QED BY <2>3, <2>4 DEF todo
<1> HIDE DEF t
<1>4. /\ r = [f \in TaskFields |-> r[f]]
      /\ r.todo = Tail(t.todo) /\ r.trial = t.trial /\ r.seen = t.seen
      /\ r.orphan = t.orphan /\ r.snap = t.snap
  BY <1>1, <1>2 DEF TaskFields
<1>5. r.todo # <<>> => TaskRow(k, r, n) /\ Head(r.todo) \in {"charge", "orphans", "final"}
  BY <1>1, <1>3, <1>4 DEF TaskRow
<1>6. QED BY <1>4, <1>5 DEF t

\* After a commit within a charge.
LEMMA CommittedRow ==
  ASSUME NEW k \in Kinds, NEW n, TaskRow(k, tasks[k], n), NEW c, c = Reloaded(k)
  PROVE  /\ c.todo # <<>> => TaskRow(k, c, n) /\ Head(c.todo) \in {"charge", "orphans", "final"}
         /\ c.todo = Tail(tasks[k].todo) /\ c.seen = tasks[k].seen /\ c.orphan = FALSE
<1>1. PICK r : r = Rest(k)
  OBVIOUS
<1>2. /\ r = [f \in TaskFields |-> r[f]]
      /\ r.todo = Tail(tasks[k].todo) /\ r.seen = tasks[k].seen /\ r.snap = tasks[k].snap
      /\ r.todo # <<>> => TaskRow(k, r, n) /\ Head(r.todo) \in {"charge", "orphans", "final"}
  BY <1>1, RestRow
<1>3. c = [r EXCEPT !.trial = 0, !.orphan = FALSE]
  BY <1>1 DEF Reloaded
<1>4. /\ c = [f \in TaskFields |-> c[f]]
      /\ c.todo = r.todo /\ c.trial = 0 /\ c.seen = r.seen /\ c.orphan = FALSE /\ c.snap = r.snap
  BY <1>2, <1>3 DEF TaskFields
<1>5. c.todo # <<>> => TaskRow(k, c, n) /\ Head(c.todo) \in {"charge", "orphans", "final"}
  BY <1>2, <1>4 DEF TaskRow
<1>6. QED BY <1>2, <1>4, <1>5

\* A charge is to be synced.
LEMMA SyncRow ==
  ASSUME NEW k \in Kinds, NEW n \in Nat, NEW m \in Nat, n <= m, TaskRow(k, tasks[k], n),
         Head(tasks[k].todo) \in Charging,
         NEW s \in 1 .. m, NEW status \in {"active", "past_due"}, NEW c, c = Sync(k, s, status)
  PROVE  /\ TaskRow(k, c, m)
         /\ Head(c.todo) = "sync" /\ c.todo # <<>>
         /\ c.snap.sub = s /\ c.snap.status = status
         /\ c.seen = tasks[k].seen /\ c.orphan = tasks[k].orphan
<1>1. PICK r : r = Rest(k)
  OBVIOUS
<1>2. /\ r = [f \in TaskFields |-> r[f]]
      /\ r.todo = Tail(tasks[k].todo) /\ r.seen = tasks[k].seen /\ r.orphan = tasks[k].orphan
  BY <1>1, RestRow
<1>3. c = [r EXCEPT !.todo = <<"sync">> \o r.todo, !.snap = [sub |-> s, status |-> status]]
  BY <1>1 DEF Sync
<1>4. /\ c = [f \in TaskFields |-> c[f]]
      /\ c.todo = <<"sync">> \o r.todo /\ c.seen = r.seen /\ c.orphan = r.orphan
      /\ c.snap = [sub |-> s, status |-> status]
  BY <1>2, <1>3 DEF TaskFields
<1>5. c.snap.sub = s /\ c.snap.status = status
  BY <1>4
<1>6. tasks[k].todo \in TaskTodos(k) /\ tasks[k].seen \in Companies /\ tasks[k].seen.sub <= n
  BY DEF TaskRow
<1>7. c.todo \in TaskTodos(k) /\ c.todo # <<>> /\ Head(c.todo) = "sync"
  <2>1. c.todo = <<"sync">> \o Tail(tasks[k].todo)
    BY <1>2, <1>4
  <2> DEFINE todo == tasks[k].todo
  <2>2. todo \in TaskTodos(k) /\ Head(todo) \in Charging
    BY <1>6
  <2> HIDE DEF todo
  <2>3. /\ <<"sync">> \o Tail(todo) \in TaskTodos(k)
        /\ Head(<<"sync">> \o Tail(todo)) = "sync"
    BY <2>2, TaskTodoSteps
  <2>4. c.todo \in TaskTodos(k) /\ Head(c.todo) = "sync"
    BY <2>1, <2>3 DEF todo
  <2>5. QED BY <2>4, TaskTodoSteps
<1>8. c.seen \in Companies /\ c.seen.sub <= m
  BY <1>2, <1>4, <1>6 DEF Companies
<1>9. TaskRow(k, c, m)
  BY <1>4, <1>5, <1>7, <1>8 DEF TaskRow
<1>10. QED BY <1>2, <1>4, <1>5, <1>7, <1>9

\* A charge goes on as if there were no subscription.
LEMMA CreateRow ==
  ASSUME NEW k \in Kinds, NEW n, NEW m \in Nat, n \in Nat, n <= m, TaskRow(k, tasks[k], n),
         Head(tasks[k].todo) \in Charging,
         NEW r, r = [tasks[k] EXCEPT !.todo = <<"create">> \o Tail(@)]
  PROVE  /\ TaskRow(k, r, m)
         /\ Head(r.todo) = "create" /\ r.todo # <<>>
         /\ r.seen = tasks[k].seen /\ r.orphan = tasks[k].orphan
<1> DEFINE t == tasks[k]
<1>1. /\ t = [f \in TaskFields |-> t[f]]
      /\ t.todo \in TaskTodos(k) /\ t.seen \in Companies /\ t.seen.sub <= n
  BY DEF TaskRow
<1>2. r = [t EXCEPT !.todo = <<"create">> \o Tail(t.todo)]
  OBVIOUS
<1> HIDE DEF t
<1>3. /\ r = [f \in TaskFields |-> r[f]]
      /\ r.todo = <<"create">> \o Tail(t.todo) /\ r.seen = t.seen /\ r.orphan = t.orphan
  BY <1>1, <1>2 DEF TaskFields
<1>4. Head(t.todo) \in Charging
  BY DEF t
<1>5. r.todo \in TaskTodos(k) /\ r.todo # <<>> /\ Head(r.todo) = "create"
  BY <1>1, <1>3, <1>4, TaskTodoSteps
<1>6. t.seen.sub <= m
  BY <1>1 DEF Companies
<1>7. TaskRow(k, r, m)
  BY <1>1, <1>3, <1>5, <1>6 DEF TaskRow
<1>8. QED BY <1>3, <1>5, <1>7 DEF t

\* The list new is old without its i-th element.
Drops(new, old, i) ==
  /\ new \in Seq(Events) /\ Len(new) = Len(old) - 1
  /\ \A j \in 1 .. Len(old) - 1 : new[j] = IF j < i THEN old[j] ELSE old[j + 1]

\* An event removed leaves the others in order.
LEMMA EventDropped ==
  ASSUME NEW s \in Seq(Events), NEW i \in DOMAIN s
  PROVE  Drops(RemoveAt(s, i), s, i)
<1> DEFINE before == SubSeq(s, 1, i - 1)
           after == SubSeq(s, i + 1, Len(s))
<1>1. /\ Len(s) \in Nat /\ i \in 1 .. Len(s)
      /\ \A j \in 1 .. Len(s) : s[j] \in Events
  BY LenProperties, ElementOfSeq
<1>2. /\ before \in Seq(Events) /\ Len(before) = i - 1
      /\ \A j \in 1 .. i - 1 : before[j] = s[j]
  <2>1. \A j \in 1 .. i - 1 : s[j] \in Events
    BY <1>1
  <2>2. /\ before \in Seq(Events) /\ Len(before) = IF 1 <= i - 1 THEN i - 1 - 1 + 1 ELSE 0
        /\ \A j \in 1 .. i - 1 - 1 + 1 : before[j] = s[1 + j - 1]
    <3> HIDE DEF before
    <3>1. 1 \in Int /\ i - 1 \in Int
      BY <1>1
    <3>2. QED
      BY <2>1, <3>1, SubSeqProperties DEF before
  <2> HIDE DEF before
  <2>3. QED
    BY <1>1, <2>2
<1>3. /\ after \in Seq(Events) /\ Len(after) = Len(s) - i
      /\ \A j \in 1 .. Len(s) - i : after[j] = s[i + j]
  <2>1. \A j \in i + 1 .. Len(s) : s[j] \in Events
    BY <1>1
  <2>2. /\ after \in Seq(Events) /\ Len(after) = IF i + 1 <= Len(s) THEN Len(s) - (i + 1) + 1 ELSE 0
        /\ \A j \in 1 .. Len(s) - (i + 1) + 1 : after[j] = s[i + 1 + j - 1]
    <3> HIDE DEF after
    <3>1. i + 1 \in Int /\ Len(s) \in Int
      BY <1>1
    <3>2. QED
      BY <2>1, <3>1, SubSeqProperties DEF after
  <2> HIDE DEF after
  <2>3. QED
    BY <1>1, <2>2
<1>4. RemoveAt(s, i) = before \o after
  BY DEF RemoveAt
<1> HIDE DEF before, after
<1>5. /\ before \o after \in Seq(Events)
      /\ Len(before \o after) = Len(before) + Len(after)
      /\ \A j \in 1 .. Len(before) + Len(after) :
           (before \o after)[j] = IF j <= Len(before) THEN before[j] ELSE after[j - Len(before)]
  BY <1>2, <1>3, ConcatProperties
<1>6. ASSUME NEW j \in 1 .. Len(s) - 1
      PROVE  (before \o after)[j] = IF j < i THEN s[j] ELSE s[j + 1]
  <2>1. CASE j < i
    <3>1. j \in 1 .. i - 1 /\ j \in 1 .. Len(before) + Len(after) /\ j <= Len(before)
      BY <1>1, <1>2, <1>3, <2>1
    <3>2. (before \o after)[j] = before[j]
      BY <1>5, <3>1
    <3>3. QED
      BY <1>2, <2>1, <3>1, <3>2
  <2>2. CASE j >= i
    <3>1. j - (i - 1) \in 1 .. Len(s) - i /\ i + (j - (i - 1)) = j + 1
      BY <1>1, <2>2
    <3>2. j \in 1 .. Len(before) + Len(after) /\ ~(j <= Len(before)) /\ Len(before) = i - 1
      BY <1>1, <1>2, <1>3, <2>2
    <3>3. (before \o after)[j] = after[j - (i - 1)]
      BY <1>5, <3>2
    <3>4. ~(j < i)
      BY <1>1, <2>2
    <3>5. QED
      BY <1>3, <3>1, <3>3, <3>4
  <2>3. j < i \/ j >= i
    BY <1>1
  <2>4. QED
    BY <2>1, <2>2, <2>3
<1>7. Len(before) + Len(after) = Len(s) - 1
  BY <1>1, <1>2, <1>3
<1>8. QED
  BY <1>4, <1>5, <1>6, <1>7 DEF Drops

\* What the row of a request or the sweep has seen, read again.
LEMMA SeenRow ==
  ASSUME NEW k, NEW n, NEW t, TaskRow(k, t, n), NEW c \in Companies, c.sub <= n,
         NEW r, r = [t EXCEPT !.seen = c]
  PROVE  TaskRow(k, r, n) /\ r.todo = t.todo /\ r.seen = c /\ r.orphan = t.orphan
<1>1. t = [f \in TaskFields |-> t[f]]
  BY DEF TaskRow
<1>2. /\ r = [f \in TaskFields |-> r[f]]
      /\ r.todo = t.todo /\ r.seen = c /\ r.orphan = t.orphan /\ r.snap = t.snap
  BY <1>1 DEF TaskFields
<1>3. QED BY <1>2 DEF TaskRow

\* A step that leaves Stripe alone.
LEMMA StripeKept ==
  ASSUME Shapes, UNCHANGED <<subs, invoices, events>>
  PROVE  /\ StripeShape'
         /\ UNCHANGED <<now, company, trials>> => RowsShape'
         /\ UNCHANGED billed => BilledShape'
         /\ UNCHANGED hook => HookShape'
         /\ UNCHANGED tasks => TasksShape'
<1>1. StripeShape'
  BY DEF Shapes, StripeShape
<1>2. UNCHANGED <<now, company, trials>> => RowsShape'
  BY DEF Shapes, RowsShape
<1>3. UNCHANGED billed => BilledShape'
  BY DEF Shapes, BilledShape
<1>4. UNCHANGED hook => HookShape'
  BY DEF Shapes, HookShape
<1>5. UNCHANGED tasks => TasksShape'
  BY DEF Shapes, TasksShape
<1>6. QED BY <1>1, <1>2, <1>3, <1>4, <1>5

\* One task goes on as t while Stripe is left alone.
LEMMA TaskGoesOn ==
  ASSUME Shapes, UNCHANGED <<subs, invoices, events, billed, hook>>, RowsShape',
         NEW k \in Kinds, NEW t, t.todo # <<>> => TaskRow(k, t, Len(subs)), Then(k, t)
  PROVE  Shapes'
<1>1. subs \in Seq(Subs) /\ Len(subs) \in Nat /\ TasksShape
  BY DEF Shapes, StripeShape
<1>2. TasksShape'
  BY <1>1, ThenShape
<1>3. StripeShape' /\ BilledShape' /\ HookShape'
  BY StripeKept
<1>4. QED BY <1>2, <1>3 DEF Shapes

\* Beginning a request or the sweep keeps the shapes.
LEMMA BeginsShape ==
  ASSUME Shapes, RequestBegin \/ SweepBegin
  PROVE  Shapes'
<1>1. UNCHANGED <<now, company, trials, billed, subs, events, invoices, hook>>
  BY DEF RequestBegin, SweepBegin, rows, remote
<1>2. RowsShape'
  BY <1>1, StripeKept
<1>3. company \in Companies /\ company.sub <= Len(subs) /\ TasksShape
  BY DEF Shapes, RowsShape
<1>4. CASE RequestBegin
  <2>1. PICK t : /\ tasks' = [tasks EXCEPT !["request"] = t]
                 /\ t = [todo |-> IF ActiveTrial(trials) = 0 THEN <<"expire">>
                                   ELSE <<"expire", "charge">>,
                         trial |-> ActiveTrial(trials), seen |-> company, orphan |-> FALSE,
                         snap |-> NoSnap]
    BY <1>4 DEF RequestBegin
  <2>2. t = [f \in TaskFields |-> t[f]] /\ t.seen = company
    BY <2>1 DEF TaskFields
  <2>3. t.todo = <<"expire">> \/ t.todo = <<"expire", "charge">>
    BY <2>1
  <2>4. t.todo \in TaskTodos("request") /\ t.todo # <<>> /\ Head(t.todo) # "sync"
    <3>1. CASE t.todo = <<"expire">>
      BY <3>1 DEF TaskTodos
    <3>2. CASE t.todo = <<"expire", "charge">>
      BY <3>2 DEF TaskTodos
    <3>3. QED BY <2>3, <3>1, <3>2
  <2>5. Then("request", t) /\ TaskRow("request", t, Len(subs))
    BY <1>3, <2>1, <2>2, <2>4 DEF Then, TaskRow
  <2>6. QED BY <1>1, <1>2, <2>5, TaskGoesOn DEF Kinds
<1>5. CASE SweepBegin
  <2> DEFINE i == Latest({j \in DOMAIN trials : trials[j].status \in Open /\ Due(trials[j].ends)})
  <2>1. PICK t : /\ tasks' = [tasks EXCEPT !["sweep"] = t]
                 /\ t = [todo |-> IF i = 0 THEN <<"orphans">> ELSE <<"charge", "orphans">>,
                         trial |-> i, seen |-> company, orphan |-> FALSE, snap |-> NoSnap]
    BY <1>5 DEF SweepBegin
  <2> HIDE DEF i
  <2>2. t = [f \in TaskFields |-> t[f]] /\ t.seen = company
    BY <2>1 DEF TaskFields
  <2>3. t.todo = <<"orphans">> \/ t.todo = <<"charge", "orphans">>
    BY <2>1
  <2>4. t.todo \in TaskTodos("sweep") /\ t.todo # <<>> /\ Head(t.todo) # "sync"
    <3>1. CASE t.todo = <<"orphans">>
      BY <3>1 DEF TaskTodos
    <3>2. CASE t.todo = <<"charge", "orphans">>
      BY <3>2 DEF TaskTodos, Charging
    <3>3. QED BY <2>3, <3>1, <3>2
  <2>5. Then("sweep", t) /\ TaskRow("sweep", t, Len(subs))
    BY <1>3, <2>1, <2>2, <2>4 DEF Then, TaskRow
  <2>6. QED BY <1>1, <1>2, <2>5, TaskGoesOn DEF Kinds
<1>6. QED BY <1>4, <1>5

\* So does the end of a trial in a request,
LEMMA ExpireShape ==
  ASSUME Shapes, Expire
  PROVE  Shapes'
<1> DEFINE r == Rest("request")
           t == [r EXCEPT !.seen = company']
<1>1. UNCHANGED <<now, billed, subs, events, invoices, hook>>
  BY DEF Expire, remote
<1>2. /\ company \in Companies /\ company.sub <= Len(subs) /\ trials \in Seq(Trials) /\ TasksShape
      /\ now \in Nat
  BY DEF Shapes, RowsShape
<1>3. "trial_expired" \in Statuses /\ "expired" \in TrialStatuses /\ "request" \in Kinds
  BY DEF Statuses, TrialStatuses, Kinds
<1>4. company' = [company EXCEPT !.status = "trial_expired"]
  BY DEF Expire
<1>5. company' \in Companies /\ company'.sub = company.sub
  <2>1. Far \in Nat
    BY DEF Far
  <2>2. QED BY <1>2, <1>3, <1>4, <2>1, CompanyMarked
<1>6. trials' = SetTrial(trials, tasks["request"].trial, "expired")
  BY DEF Expire
<1>7. trials' \in Seq(Trials)
  BY <1>2, <1>3, <1>6, TrialMarked
<1>8. RowsShape'
  BY <1>1, <1>2, <1>5, <1>7 DEF RowsShape
<1>9. TaskRow("request", tasks["request"], Len(subs))
  BY <1>2, <1>3, BusyRow DEF Expire
<1>10. /\ r = [f \in TaskFields |-> r[f]]
       /\ r.todo # <<>> => TaskRow("request", r, Len(subs))
  BY <1>3, <1>9, RestRow
<1>11. Then("request", t)
  BY DEF Expire
<1> HIDE DEF r
<1>12. t.todo = r.todo
  BY <1>10 DEF TaskFields
<1>13. r.todo # <<>> => TaskRow("request", t, Len(subs))
  BY <1>2, <1>5, <1>10, SeenRow
<1> HIDE DEF t
<1>14. QED BY <1>1, <1>3, <1>8, <1>11, <1>12, <1>13, TaskGoesOn

\* A step that only moves the task on.
LEMMA SkipShape ==
  ASSUME Shapes, NEW k \in Kinds,
         ChargeNothing(k) \/ RetrieveFails(k) \/ (k = "sweep" /\ Orphans)
  PROVE  Shapes'
<1>1. UNCHANGED <<now, company, trials, billed, subs, events, invoices, hook>>
  BY DEF ChargeNothing, RetrieveFails, Orphans, rows, remote
<1>2. RowsShape'
  BY <1>1, StripeKept
<1>3. /\ TaskRow(k, tasks[k], Len(subs)) /\ Step(k) = Head(tasks[k].todo)
      /\ Len(subs) \in Nat
  <2>1. Step(k) # "none" /\ TasksShape
    BY DEF ChargeNothing, RetrieveFails, Orphans, Shapes
  <2>2. QED BY <2>1, BusyRow DEF Shapes, StripeShape
<1>4. company \in Companies /\ company.sub <= Len(subs)
  BY DEF Shapes, RowsShape
<1>5. CASE ChargeNothing(k)
  <2>1. PICK r : r = Rest(k)
    OBVIOUS
  <2>2. Then(k, r)
    BY <1>5, <2>1 DEF ChargeNothing
  <2>3. r.todo # <<>> => TaskRow(k, r, Len(subs))
    BY <1>3, <2>1, RestRow
  <2>4. QED BY <1>1, <1>2, <2>2, <2>3, TaskGoesOn
<1>6. CASE RetrieveFails(k)
  <2>1. PICK r : r = [tasks[k] EXCEPT !.todo = <<"create">> \o Tail(@)]
    OBVIOUS
  <2>2. Then(k, r) /\ Step(k) = "charge"
    BY <1>6, <2>1 DEF RetrieveFails
  <2>3. TaskRow(k, r, Len(subs))
    <3>1. Head(tasks[k].todo) \in Charging /\ Len(subs) <= Len(subs)
      BY <1>3, <2>2 DEF Charging
    <3>2. QED BY <1>3, <2>1, <3>1, CreateRow
  <2>4. QED BY <1>1, <1>2, <2>2, <2>3, TaskGoesOn
<1>7. CASE k = "sweep" /\ Orphans
  <2>1. PICK due \in BOOLEAN : due = (company.status = "trialing" /\ Due(company.end))
    OBVIOUS
  <2>2. PICK r : r = [tasks[k] EXCEPT !.todo = IF due THEN <<"charge", "final">> ELSE <<"final">>,
                                      !.seen = company, !.orphan = due]
    OBVIOUS
  <2>3. Then(k, r)
    BY <1>7, <2>1, <2>2 DEF Orphans
  <2>4. tasks[k] = [f \in TaskFields |-> tasks[k][f]]
    BY <1>3 DEF TaskRow
  <2>5. /\ r = [f \in TaskFields |-> r[f]] /\ r.seen = company
        /\ r.todo = IF due THEN <<"charge", "final">> ELSE <<"final">>
    BY <2>2, <2>4 DEF TaskFields
  <2>6. r.todo \in TaskTodos(k) /\ Head(r.todo) # "sync"
    <3>1. CASE r.todo = <<"charge", "final">>
      BY <1>7, <3>1 DEF TaskTodos, Charging
    <3>2. CASE r.todo = <<"final">>
      BY <1>7, <3>2 DEF TaskTodos
    <3>3. QED BY <2>5, <3>1, <3>2
  <2>7. TaskRow(k, r, Len(subs))
    BY <1>4, <2>5, <2>6 DEF TaskRow
  <2>8. QED BY <1>1, <1>2, <2>3, <2>7, TaskGoesOn
<1>8. QED BY <1>5, <1>6, <1>7

\* the sync of what a charge was answered,
LEMMA SyncShape ==
  ASSUME Shapes, NEW k \in Kinds, SyncStep(k)
  PROVE  Shapes'
<1>1. UNCHANGED <<now, billed, subs, events, invoices, hook>>
  BY DEF SyncStep, remote
<1>2. TaskRow(k, tasks[k], Len(subs)) /\ Head(tasks[k].todo) = "sync"
  <2>1. Step(k) = "sync" /\ TasksShape
    BY DEF SyncStep, Shapes
  <2>2. QED BY <2>1, BusyRow
<1>3. RowsShape'
  <2>1. PICK s, status : s = tasks[k].snap.sub /\ status = tasks[k].snap.status
    OBVIOUS
  <2>2. Synced(s, status, Pending(k))
    BY <2>1 DEF SyncStep
  <2>3. s \in DOMAIN subs /\ status \in Statuses
    BY <1>2, <2>1 DEF TaskRow, Statuses, Shapes, StripeShape
  <2>4. QED BY <1>1, <2>2, <2>3, SyncedShape DEF Shapes
<1>4. PICK c : c = Reloaded(k)
  OBVIOUS
<1>5. Then(k, c)
  BY <1>4 DEF SyncStep
<1>6. c.todo # <<>> => TaskRow(k, c, Len(subs))
  BY <1>2, <1>4, CommittedRow
<1>7. QED BY <1>1, <1>3, <1>5, <1>6, TaskGoesOn

\* the last commit of the sweep,
LEMMA FinalShape ==
  ASSUME Shapes, Final
  PROVE  Shapes'
<1> DEFINE k == "sweep"
<1>1. UNCHANGED <<now, billed, subs, events, invoices, hook>> /\ k \in Kinds
  BY DEF Final, remote, Kinds
<1>2. TaskRow(k, tasks[k], Len(subs))
  <2>1. Step(k) = "final" /\ TasksShape
    BY DEF Final, Shapes
  <2>2. QED BY <1>1, <2>1, BusyRow
<1>3. /\ company \in Companies /\ company.sub <= Len(subs) /\ trials \in Seq(Trials) /\ now \in Nat
      /\ "trial_expired" \in Statuses /\ "expired" \in TrialStatuses /\ Far \in Nat
  BY DEF Shapes, RowsShape, Statuses, TrialStatuses, Far
<1>4. company' \in Companies /\ company'.sub = company.sub
  <2>1. company' = [company EXCEPT !.status = "trial_expired"] \/ company' = company
    BY DEF Final
  <2>2. CASE company' = [company EXCEPT !.status = "trial_expired"]
    BY <1>3, <2>2, CompanyMarked
  <2>3. QED BY <1>3, <2>1, <2>2
<1>5. trials' \in Seq(Trials)
  <2>1. trials' = SetTrial(trials, tasks[k].trial, "expired")
    BY DEF Final
  <2>2. QED BY <1>3, <2>1, TrialMarked
<1>6. RowsShape'
  BY <1>1, <1>3, <1>4, <1>5 DEF RowsShape
<1>7. PICK r : r = Rest(k)
  OBVIOUS
<1>8. Then(k, r)
  BY <1>7 DEF Final
<1>9. r.todo # <<>> => TaskRow(k, r, Len(subs))
  BY <1>1, <1>2, <1>7, RestRow
<1>10. QED BY <1>1, <1>6, <1>8, <1>9, TaskGoesOn

\* and a charge that ends the trial at Stripe, which moves that subscription.
LEMMA ChargeTrialShape ==
  ASSUME Shapes, NEW k \in Kinds, ChargeTrial(k)
  PROVE  /\ Shapes' /\ tasks[k].seen.sub \in DOMAIN subs /\ Moved(tasks[k].seen.sub)
         /\ subs'[tasks[k].seen.sub].status \in {"active", "past_due"}
<1> DEFINE s == tasks[k].seen.sub
<1>1. UNCHANGED <<now, company, trials, billed, hook>>
  BY DEF ChargeTrial, rows
<1>2. TaskRow(k, tasks[k], Len(subs)) /\ Head(tasks[k].todo) = "charge"
  <2>1. Step(k) = "charge" /\ TasksShape
    BY DEF ChargeTrial, Shapes
  <2>2. QED BY <2>1, BusyRow
<1>3. subs \in Seq(Subs) /\ Len(subs) \in Nat
  BY DEF Shapes, StripeShape
<1>4. s \in DOMAIN subs /\ subs[s].status = "trialing"
  <2>1. s # 0 /\ subs[s].status = "trialing"
    BY DEF ChargeTrial, Known
  <2>2. s \in Nat /\ s <= Len(subs)
    BY <1>2 DEF TaskRow, Companies
  <2>3. QED BY <1>3, <2>1, <2>2
<1>5. Pays(s) \/ Declines(s)
  BY DEF ChargeTrial
<1>6. Moved(s)
  BY <1>4, <1>5, PaysMoves, DeclinesMoves DEF Live
<1>7. subs'[s].status \in {"active", "past_due"}
  <2>1. \/ subs' = [subs EXCEPT ![s].status = "active"]
        \/ subs' = [subs EXCEPT ![s].status = "past_due"]
    BY <1>5 DEF Pays, Declines
  <2>2. s \in 1 .. Len(subs) /\ "active" \in SubStatuses /\ "past_due" \in SubStatuses
    BY <1>3, <1>4 DEF SubStatuses, Live
  <2>3. Becomes(subs', subs, s, "active") \/ Becomes(subs', subs, s, "past_due")
    BY <1>3, <2>1, <2>2, SubMoves
  <2>4. QED BY <2>3 DEF Becomes
<1> HIDE DEF s
<1>8. /\ StripeShape' /\ RowsShape' /\ BilledShape' /\ HookShape' /\ Len(subs) <= Len(subs')
  BY <1>1, <1>6, MovedShape
<1>9. /\ subs' \in Seq(Subs) /\ Len(subs') \in Nat /\ s \in 1 .. Len(subs')
  BY <1>3, <1>4, <1>8 DEF StripeShape
<1>10. PICK t : /\ Then(k, t)
                /\ \/ t = Sync(k, s, subs'[s].status)
                   \/ t = [tasks[k] EXCEPT !.todo = <<"create">> \o Tail(@)]
  BY DEF ChargeTrial, s
<1>11. TaskRow(k, t, Len(subs'))
  <2>1. Head(tasks[k].todo) \in Charging
    BY <1>2 DEF Charging
  <2>2. CASE t = Sync(k, s, subs'[s].status)
    BY <1>2, <1>3, <1>7, <1>8, <1>9, <2>1, <2>2, SyncRow
  <2>3. CASE t = [tasks[k] EXCEPT !.todo = <<"create">> \o Tail(@)]
    BY <1>2, <1>3, <1>8, <1>9, <2>1, <2>3, CreateRow
  <2>4. QED BY <1>10, <2>2, <2>3
<1>12. TasksShape'
  BY <1>3, <1>8, <1>9, <1>10, <1>11, ThenShape DEF Shapes
<1>13. QED BY <1>4, <1>6, <1>7, <1>8, <1>12 DEF Shapes, s

\* So does a charge through a new subscription, or one refused.
LEMMA ChargeNewShape ==
  ASSUME Shapes, NEW k \in Kinds, ChargeNew(k)
  PROVE  Shapes'
<1>1. UNCHANGED <<now, billed, hook>>
  BY DEF ChargeNew
<1>2. TaskRow(k, tasks[k], Len(subs)) /\ Head(tasks[k].todo) \in Charging
  <2>1. Step(k) \in {"create", "charge"} /\ TasksShape
    BY DEF ChargeNew, Shapes
  <2>2. QED BY <2>1, BusyRow DEF Charging
<1>3. subs \in Seq(Subs) /\ Len(subs) \in Nat
  BY DEF Shapes, StripeShape
<1>4. CASE /\ Creates /\ UNCHANGED <<company, trials>>
           /\ Then(k, Sync(k, Len(subs'), "active")) \/ Then(k, Rest(k))
  <2>1. Moved(Len(subs) + 1)
    BY <1>4, CreatesMoves
  <2>2. /\ StripeShape' /\ RowsShape' /\ BilledShape' /\ HookShape' /\ Len(subs) <= Len(subs')
    BY <1>1, <1>4, <2>1, MovedShape
  <2>3. subs' \in Seq(Subs) /\ Len(subs') \in Nat /\ Len(subs') \in 1 .. Len(subs')
    BY <1>3, <2>1 DEF Moved, SubsMoved
  <2>4. PICK t : Then(k, t) /\ (t = Sync(k, Len(subs'), "active") \/ t = Rest(k))
    BY <1>4
  <2>5. t.todo # <<>> => TaskRow(k, t, Len(subs'))
    <3>1. CASE t = Sync(k, Len(subs'), "active")
      BY <1>2, <1>3, <2>2, <2>3, <3>1, SyncRow
    <3>2. CASE t = Rest(k)
      <4>1. t.todo # <<>> => TaskRow(k, t, Len(subs))
        BY <1>2, <3>2, RestRow
      <4>2. QED BY <1>3, <2>2, <2>3, <4>1, RowGrows
    <3>3. QED BY <2>4, <3>1, <3>2
  <2>6. TasksShape'
    BY <1>3, <2>2, <2>3, <2>4, <2>5, ThenShape DEF Shapes
  <2>7. QED BY <2>2, <2>6 DEF Shapes
<1>5. CASE /\ UNCHANGED <<subs, events, invoices, company, trials>> /\ Then(k, Rest(k))
  <2>1. RowsShape'
    BY <1>1, <1>5, StripeKept
  <2>2. PICK r : r = Rest(k)
    OBVIOUS
  <2>3. r.todo # <<>> => TaskRow(k, r, Len(subs))
    BY <1>2, <2>2, RestRow
  <2>4. QED BY <1>1, <1>5, <2>1, <2>2, <2>3, TaskGoesOn
<1>6. CASE /\ UNCHANGED <<subs, events, invoices>> /\ Then(k, Reloaded(k))
           /\ company' = [company EXCEPT !.status = "past_due"]
           /\ trials' = SetTrial(trials, Pending(k), "expired")
  <2>1. /\ company \in Companies /\ company.sub <= Len(subs)
        /\ trials \in Seq(Trials) /\ now \in Nat
        /\ "past_due" \in Statuses /\ "expired" \in TrialStatuses /\ Far \in Nat
    BY DEF Shapes, RowsShape, Statuses, TrialStatuses, Far
  <2>2. company' \in Companies /\ company'.sub = company.sub
    BY <1>6, <2>1, CompanyMarked
  <2>3. trials' \in Seq(Trials)
    BY <1>6, <2>1, TrialMarked
  <2>4. RowsShape'
    BY <1>1, <1>6, <2>1, <2>2, <2>3 DEF RowsShape
  <2>5. PICK c : c = Reloaded(k)
    OBVIOUS
  <2>6. c.todo # <<>> => TaskRow(k, c, Len(subs))
    BY <1>2, <2>5, CommittedRow
  <2>7. QED BY <1>1, <1>6, <2>4, <2>5, <2>6, TaskGoesOn
<1>7. QED BY <1>4, <1>5, <1>6 DEF ChargeNew

\* What the handler of an event has to do at first is one of its lists.
LEMMA WorkIsTodo ==
  ASSUME NEW e \in Events
  PROVE  /\ Work(e) \in HookTodos(e)
         /\ e.kind = "invoice" /\ e.inv # 0 => Work(e) \in Billing
         /\ e.kind = "invoice" => Head(Work(e)) = "sync"
         /\ e.kind = "invoice" /\ e.inv = 0 /\ subs[e.sub].status = "trialing" =>
              Work(e) \notin Billing
         /\ e.kind = "subscription" => Head(Work(e)) = "sync" /\ Work(e) # <<>>
<1>1. CASE e.kind = "subscription"
  <2>1. Work(e) = <<"sync", "settle">>
    BY <1>1 DEF Work
  <2>2. QED BY <1>1, <2>1 DEF HookTodos
<1>2. CASE e.kind = "completed"
  <2>1. Work(e) = <<"receipt", "sync">>
    BY <1>2 DEF Work
  <2>2. QED BY <1>2, <2>1 DEF HookTodos
<1>3. CASE e.kind = "failed"
  <2>1. Work(e) = <<"failed">>
    BY <1>3 DEF Work
  <2>2. QED BY <1>3, <2>1 DEF HookTodos
<1>4. CASE e.kind = "deleted"
  <2>1. Work(e) = <<"deleted">>
    BY <1>4 DEF Work
  <2>2. QED BY <1>4, <2>1 DEF HookTodos
<1>5. CASE e.kind = "invoice"
  <2>1. CASE e.inv = 0 /\ subs[e.sub].status = "trialing"
    <3>1. Work(e) = <<"sync">>
      BY <1>5, <2>1 DEF Work
    <3>2. <<"sync">> \notin Billing
      BY DEF Billing
    <3>3. Head(<<"sync">>) = "sync"
      OBVIOUS
    <3>4. QED BY <1>5, <2>1, <3>1, <3>2, <3>3 DEF HookTodos
  <2>2. CASE ~(e.inv = 0 /\ subs[e.sub].status = "trialing")
    <3>1. \/ Work(e) = <<"sync", "active">> \o <<"receipt", "bill">>
          \/ Work(e) = <<"sync", "active">> \o <<"bill">>
      BY <1>5, <2>2 DEF Work
    <3>2. \/ Work(e) = <<"sync", "active", "receipt", "bill">>
          \/ Work(e) = <<"sync", "active", "bill">>
      BY <3>1, ConsTwo
    <3>3. Work(e) \in Billing /\ Head(Work(e)) = "sync"
      <4>1. CASE Work(e) = <<"sync", "active", "receipt", "bill">>
        BY <4>1 DEF Billing
      <4>2. CASE Work(e) = <<"sync", "active", "bill">>
        BY <4>2 DEF Billing
      <4>3. QED BY <3>2, <4>1, <4>2
    <3>4. QED BY <1>5, <2>2, <3>3 DEF HookTodos
  <2>3. QED BY <2>1, <2>2
<1>6. QED BY <1>1, <1>2, <1>3, <1>4, <1>5 DEF Events, Others

\* A webhook begins with its event, the status it tells or retrieves, and its work.
LEMMA HookBeginShape ==
  ASSUME Shapes, NEW i \in DOMAIN events, HookBegin(i)
  PROVE  /\ Shapes'
         /\ hook'.at = i /\ hook'.event = events[i] /\ hook'.todo = Work(events[i])
         /\ hook'.status = IF events[i].kind = "subscription" THEN events[i].status
                           ELSE subs[events[i].sub].status
<1> DEFINE e == events[i]
           status == IF e.kind = "subscription" THEN e.status ELSE subs[e.sub].status
<1>1. UNCHANGED <<now, company, trials, billed, subs, events, invoices, tasks>>
  BY DEF HookBegin, rows, remote
<1>2. hook' = [at |-> i, event |-> e, status |-> status, todo |-> Work(e)]
  BY DEF HookBegin
<1>3. /\ subs \in Seq(Subs) /\ events \in Seq(Events) /\ e \in Events /\ e.sub \in DOMAIN subs
  BY DEF Shapes, StripeShape
<1>4. e.kind = "subscription" => e.status \in Live
  BY <1>3 DEF Events, Others
<1>5. status \in SubStatuses /\ (e.kind = "subscription" => status \in Live)
  <2>1. subs[e.sub] \in Subs
    BY <1>3
  <2>2. subs[e.sub].status \in SubStatuses
    BY <2>1 DEF Subs
  <2>3. QED BY <1>4, <2>2 DEF SubStatuses
<1>6. Work(e) \in HookTodos(e)
  BY <1>3, WorkIsTodo
<1>7. i \in DOMAIN events' /\ e = events'[i]
  BY <1>1
<1> HIDE DEF e, status
<1>8. /\ hook'.at = i /\ hook'.event = e /\ hook'.status = status /\ hook'.todo = Work(e)
      /\ hook' = [f \in HookFields |-> hook'[f]]
  BY <1>2 DEF HookFields
<1>9. HookShape'
  BY <1>5, <1>6, <1>7, <1>8 DEF HookShape
<1>10. QED BY <1>1, <1>8, <1>9, StripeKept DEF Shapes, e, status

\* Its end, or its death, keeps the shapes.
LEMMA HookEndShape ==
  ASSUME Shapes, HookEnd \/ HookDies
  PROVE  Shapes'
<1>1. UNCHANGED <<now, company, trials, billed, subs, invoices, tasks>> /\ hook' = NoHook
  BY DEF HookEnd, HookDies, rows, remote
<1>2. HookShape'
  BY <1>1 DEF HookShape
<1>3. CASE UNCHANGED events
  BY <1>1, <1>2, <1>3, StripeKept DEF Shapes
<1>4. CASE HookEnd /\ events' # events
  <2>1. events' = RemoveAt(events, hook.at) /\ hook # NoHook
    BY <1>4 DEF HookEnd
  <2>2. hook.at \in DOMAIN events /\ events \in Seq(Events)
    BY <2>1 DEF Shapes, HookShape, StripeShape
  <2>3. Drops(events', events, hook.at)
    BY <2>1, <2>2, EventDropped
  <2>4. ASSUME NEW j \in DOMAIN events'
        PROVE  \E i \in DOMAIN events : events'[j] = events[i]
    <3>1. j \in 1 .. Len(events) - 1 /\ Len(events) \in Nat
      BY <2>2, <2>3 DEF Drops
    <3>2. j \in DOMAIN events /\ j + 1 \in DOMAIN events
      BY <2>2, <3>1
    <3>3. QED BY <2>3, <3>1, <3>2 DEF Drops
  <2>5. \A j \in DOMAIN events' :
          /\ events'[j].sub \in DOMAIN subs'
          /\ events'[j].kind = "invoice" => events'[j].inv <= invoices'
    BY <1>1, <2>4 DEF Shapes, StripeShape
  <2>6. StripeShape'
    BY <1>1, <2>3, <2>5 DEF Shapes, StripeShape, Drops
  <2>7. RowsShape' /\ BilledShape' /\ TasksShape'
    BY <1>1 DEF Shapes, RowsShape, BilledShape, TasksShape
  <2>8. QED BY <1>2, <2>6, <2>7 DEF Shapes
<1>5. QED BY <1>3, <1>4 DEF HookDies, remote

\* The step a handler is at says what its event is.
LEMMA HookHeads ==
  ASSUME NEW e \in Events, NEW t \in HookTodos(e), t # <<>>
  PROVE  /\ e.kind = "subscription" => Head(t) \in {"sync", "settle"}
         /\ e.kind = "completed" => Head(t) \in {"receipt", "sync"}
         /\ e.kind = "invoice" =>
              \/ t \in Billing /\ Head(t) \in {"sync", "active", "receipt", "bill"}
              \/ e.inv = 0 /\ Head(t) = "sync" /\ Tail(t) = <<>>
         /\ e.kind = "failed" => Head(t) = "failed"
         /\ e.kind = "deleted" => Head(t) = "deleted"
<1>1. CASE e.kind = "subscription"
  <2>1. t = <<"sync", "settle">> \/ t = <<"settle">>
    BY <1>1 DEF HookTodos
  <2>2. QED BY <1>1, <2>1
<1>2. CASE e.kind = "completed"
  <2>1. t = <<"receipt", "sync">> \/ t = <<"sync">>
    BY <1>2 DEF HookTodos
  <2>2. QED BY <1>2, <2>1
<1>3. CASE e.kind = "failed"
  <2>1. t = <<"failed">>
    BY <1>3 DEF HookTodos
  <2>2. QED BY <1>3, <2>1
<1>4. CASE e.kind = "deleted"
  <2>1. t = <<"deleted">>
    BY <1>4 DEF HookTodos
  <2>2. QED BY <1>4, <2>1
<1>5. CASE e.kind = "invoice"
  <2>1. t \in Billing \/ (e.inv = 0 /\ t = <<"sync">>)
    <3>1. CASE e.inv = 0
      BY <1>5, <3>1 DEF HookTodos
    <3>2. CASE e.inv # 0
      BY <1>5, <3>2 DEF HookTodos
    <3>3. QED BY <3>1, <3>2
  <2>2. CASE t \in Billing
    BY <1>5, <2>2, BillingSteps
  <2>3. CASE e.inv = 0 /\ t = <<"sync">>
    BY <1>5, <2>3
  <2>4. QED BY <2>1, <2>2, <2>3
<1>6. QED BY <1>1, <1>2, <1>3, <1>4, <1>5 DEF Events, Others

\* The webhook in flight, and what it leaves of itself.
LEMMA HookRow ==
  ASSUME Shapes, hook # NoHook
  PROVE  /\ hook = [f \in HookFields |-> hook[f]]
         /\ hook.at \in DOMAIN events /\ hook.event = events[hook.at] /\ hook.event \in Events
         /\ hook.event.sub \in DOMAIN subs
         /\ hook.event.kind = "invoice" => hook.event.inv \in 0 .. invoices
         /\ hook.status \in SubStatuses
         /\ hook.event.kind = "subscription" => hook.status \in Live
         /\ hook.todo \in HookTodos(hook.event)
<1>1. /\ hook = [f \in HookFields |-> hook[f]]
      /\ hook.at \in DOMAIN events /\ hook.event = events[hook.at]
      /\ hook.status \in SubStatuses
      /\ hook.event.kind = "subscription" => hook.status \in Live
      /\ hook.todo \in HookTodos(hook.event)
  BY DEF Shapes, HookShape
<1>2. events \in Seq(Events)
  BY DEF Shapes, StripeShape
<1>3. hook.event \in Events
  BY <1>1, <1>2
<1>4. hook.event.sub \in DOMAIN subs /\ (hook.event.kind = "invoice" => hook.event.inv <= invoices)
  BY <1>1 DEF Shapes, StripeShape
<1>5. hook.event.kind = "invoice" => hook.event.inv \in Nat
  BY <1>3 DEF Events, Others
<1>6. hook.event.kind = "invoice" => hook.event.inv \in 0 .. invoices
  BY <1>4, <1>5 DEF Shapes, StripeShape
<1>7. QED BY <1>1, <1>3, <1>4, <1>6

\* A step of the webhook leaves the rest of its list.
LEMMA HookGoesOn ==
  ASSUME Shapes, HookStep
  PROVE  /\ hook # NoHook /\ hook.todo # <<>>
         /\ hook' = [f \in HookFields |-> hook'[f]]
         /\ hook'.at = hook.at /\ hook'.event = hook.event /\ hook'.status = hook.status
         /\ hook'.todo = Tail(hook.todo) /\ hook'.todo \in HookTodos(hook.event)
<1>1. hook.todo # <<>>
  BY DEF HookStep, HookSync, HookSettle, HookActive, HookReceipt, HookBill, HookFailed,
     HookDeleted, At
<1>2. hook # NoHook
  BY <1>1 DEF NoHook
<1>3. hook' = [hook EXCEPT !.todo = Tail(hook.todo)]
  BY DEF HookStep
<1>4. /\ hook = [f \in HookFields |-> hook[f]] /\ hook.event \in Events
      /\ hook.todo \in HookTodos(hook.event)
  BY <1>2, HookRow
<1>5. /\ hook' = [f \in HookFields |-> hook'[f]]
      /\ hook'.at = hook.at /\ hook'.event = hook.event /\ hook'.status = hook.status
      /\ hook'.todo = Tail(hook.todo)
  BY <1>3, <1>4 DEF HookFields
<1>6. Tail(hook.todo) \in HookTodos(hook.event)
  BY <1>1, <1>4, HookTodoTail
<1>7. QED BY <1>1, <1>2, <1>5, <1>6

\* And it keeps the shapes.
LEMMA HookStepShape ==
  ASSUME Shapes, HookStep
  PROVE  Shapes'
<1>1. UNCHANGED <<now, subs, events, invoices, tasks>>
  BY DEF HookStep, remote
<1>2. /\ hook # NoHook /\ hook.todo # <<>>
      /\ hook' = [f \in HookFields |-> hook'[f]]
      /\ hook'.at = hook.at /\ hook'.event = hook.event /\ hook'.status = hook.status
      /\ hook'.todo \in HookTodos(hook.event)
  BY HookGoesOn
<1>3. /\ hook.at \in DOMAIN events /\ hook.event = events[hook.at] /\ hook.event \in Events
      /\ hook.event.sub \in DOMAIN subs
      /\ hook.event.kind = "invoice" => hook.event.inv \in 0 .. invoices
      /\ hook.status \in SubStatuses
      /\ hook.event.kind = "subscription" => hook.status \in Live
      /\ hook.todo \in HookTodos(hook.event)
  BY <1>2, HookRow
<1>4. HookShape'
  BY <1>1, <1>2, <1>3 DEF HookShape
<1>5. StripeShape' /\ TasksShape'
  BY <1>1, StripeKept
<1>6. RowsShape' /\ BilledShape'
  <2>1. /\ company \in Companies /\ company.sub <= Len(subs)
        /\ trials \in Seq(Trials) /\ now \in Nat
        /\ {"active", "past_due", "locked", "cancelled"} \subseteq Statuses
        /\ Live \subseteq Statuses
        /\ "converted" \in TrialStatuses /\ Far \in Nat /\ billed \subseteq 0 .. invoices
    BY DEF Shapes, RowsShape, BilledShape, Statuses, Live, TrialStatuses, Far
  <2>2. CASE HookSync
    <3>1. PICK status : status = IF hook.status = "canceled" THEN "cancelled" ELSE hook.status
      OBVIOUS
    <3>2. status \in Statuses
      BY <1>3, <2>1, <3>1 DEF SubStatuses
    <3>3. Synced(hook.event.sub, status, 0)
      BY <2>2, <3>1 DEF HookSync
    <3>4. RowsShape'
      BY <1>1, <1>3, <3>2, <3>3, SyncedShape DEF Shapes
    <3>5. BilledShape'
      BY <1>1, <2>1, <2>2 DEF HookSync, BilledShape
    <3>6. QED BY <3>4, <3>5
  <2>3. ASSUME NEW status \in Statuses, company' = [company EXCEPT !.status = status]
        PROVE  company' \in Companies /\ company'.sub <= Len(subs)
    BY <2>1, <2>3, CompanyMarked
  <2>4. CASE HookSettle
    <3>1. hook.event.kind = "subscription"
      BY <1>2, <1>3, <2>4, HookHeads DEF HookSettle, At, Events, Others
    <3>2. hook.status \in Statuses /\ company' = [company EXCEPT !.status = hook.status]
      BY <1>3, <2>1, <2>4, <3>1 DEF HookSettle
    <3>3. company' \in Companies /\ company'.sub <= Len(subs)
      BY <2>3, <3>2
    <3>4. trials' = SetTrial(trials, Convertible(trials), "converted") \/ trials' = trials
      BY <2>4 DEF HookSettle
    <3>5. trials' \in Seq(Trials)
      BY <2>1, <3>4, TrialMarked
    <3>6. UNCHANGED billed
      BY <2>4 DEF HookSettle
    <3>7. QED BY <1>1, <2>1, <3>3, <3>5, <3>6 DEF RowsShape, BilledShape
  <2>5. CASE HookActive \/ HookFailed \/ HookDeleted
    <3>1. PICK status \in Statuses : company' = [company EXCEPT !.status = status]
      BY <2>1, <2>5 DEF HookActive, HookFailed, HookDeleted
    <3>2. company' \in Companies /\ company'.sub <= Len(subs)
      BY <2>3, <3>1
    <3>3. UNCHANGED <<trials, billed>>
      BY <2>5 DEF HookActive, HookFailed, HookDeleted
    <3>4. QED BY <1>1, <2>1, <3>2, <3>3 DEF RowsShape, BilledShape
  <2>6. CASE HookReceipt
    <3>1. company' = company \/ company' = [company EXCEPT !.status = "active", !.end = Far]
      BY <2>6 DEF HookReceipt
    <3>2. company' \in Companies /\ company'.sub <= Len(subs)
      <4>1. CASE company' = [company EXCEPT !.status = "active", !.end = Far]
        <5>1. company' \in Companies /\ company'.sub = company.sub
          BY <2>1, <4>1 DEF Companies
        <5>2. QED BY <2>1, <5>1
      <4>2. QED BY <2>1, <3>1, <4>1
    <3>3. UNCHANGED <<trials, billed>>
      BY <2>6 DEF HookReceipt
    <3>4. QED BY <1>1, <2>1, <3>2, <3>3 DEF RowsShape, BilledShape
  <2>7. CASE HookBill
    <3>1. /\ UNCHANGED <<company, trials>> /\ billed' = billed \cup {hook.event.inv}
          /\ Head(hook.todo) = "bill"
      BY <2>7 DEF HookBill, At
    <3>2. hook.event.kind = "invoice"
      BY <1>2, <1>3, <3>1, HookHeads DEF Events, Others
    <3>3. QED BY <1>1, <1>3, <2>1, <3>1, <3>2 DEF RowsShape, BilledShape
  <2>8. QED BY <2>2, <2>4, <2>5, <2>6, <2>7 DEF HookStep
<1>7. QED BY <1>4, <1>5, <1>6 DEF Shapes

\* Starting and extending a trial keep the shapes.
LEMMA OneCommitShape ==
  ASSUME Shapes, StartTrial \/ \E i \in DOMAIN trials : ExtendTrial(i)
  PROVE  Shapes'
<1>1. UNCHANGED <<now, billed, subs, events, invoices, hook, tasks>>
  BY DEF StartTrial, ExtendTrial, remote
<1>2. /\ company \in Companies /\ company.sub <= Len(subs) /\ trials \in Seq(Trials) /\ now \in Nat
      /\ "trialing" \in Statuses
  BY DEF Shapes, RowsShape, Statuses
<1>3. ASSUME NEW end \in Nat, company' = [company EXCEPT !.status = "trialing", !.end = end],
             trials' \in Seq(Trials)
      PROVE  Shapes'
  <2>1. company' \in Companies /\ company'.sub = company.sub
    BY <1>2, <1>3 DEF Companies
  <2>2. RowsShape'
    BY <1>1, <1>2, <1>3, <2>1 DEF RowsShape
  <2>3. QED BY <1>1, <2>2, StripeKept DEF Shapes
<1>4. CASE StartTrial
  <2>1. /\ trials' = NewTrial(trials, now + 1)
        /\ company' = [company EXCEPT !.status = "trialing", !.end = now + 1] /\ now + 1 \in Nat
    BY <1>2, <1>4 DEF StartTrial
  <2>2. trials' \in Seq(Trials)
    BY <1>2, <2>1, TrialMade
  <2>3. QED BY <1>3, <2>1, <2>2
<1>5. CASE \E i \in DOMAIN trials : ExtendTrial(i)
  <2>1. PICK i \in DOMAIN trials : ExtendTrial(i)
    BY <1>5
  <2>2. PICK ends : ends = 1 + IF trials[i].ends > now THEN trials[i].ends ELSE now
    OBVIOUS
  <2>3. trials[i] \in Trials /\ i \in 1 .. Len(trials)
    BY <1>2
  <2>4. ends \in Nat
    <3>1. trials[i].ends \in Nat
      BY <2>3 DEF Trials
    <3>2. QED BY <1>2, <2>2, <3>1
  <2>5. [status |-> "extended", ends |-> ends] \in Trials
    BY <2>4 DEF Trials, TrialStatuses, Open
  <2>6. /\ trials' = [trials EXCEPT ![i] = [status |-> "extended", ends |-> ends]]
        /\ company' = [company EXCEPT !.status = "trialing", !.end = ends]
    BY <2>1, <2>2 DEF ExtendTrial
  <2>7. trials' \in Seq(Trials)
    BY <1>2, <2>3, <2>5, <2>6, ExceptSeq
  <2>8. QED BY <1>3, <2>4, <2>6, <2>7
<1>6. QED BY <1>4, <1>5

\* So does the death of a request or the sweep.
LEMMA DiesShape ==
  ASSUME Shapes, NEW k \in Kinds, Dies(k)
  PROVE  Shapes'
<1>1. UNCHANGED <<now, company, trials, billed, subs, events, invoices, hook>>
  BY DEF Dies, rows, remote
<1>2. tasks' = [tasks EXCEPT ![k] = NoTask]
  BY DEF Dies
<1>3. TasksShape'
  BY <1>1, <1>2 DEF Shapes, TasksShape
<1>4. QED BY <1>1, <1>3, StripeKept DEF Shapes

\* What Stripe does by itself, or by the checkout, moves one subscription.
LEMMA StripeShapes ==
  ASSUME Shapes, Buy \/ \E s \in DOMAIN subs : TrialEndsAtStripe(s) \/ Retries(s) \/ Ends(s)
  PROVE  Shapes' /\ \E s \in 1 .. Len(subs) + 1 : Moved(s)
<1>1. UNCHANGED <<now, company, trials, billed, hook, tasks>>
  BY DEF Buy, TrialEndsAtStripe, Retries, Ends, rows
<1>2. \E s \in 1 .. Len(subs) + 1 : Moved(s)
  <2>1. subs \in Seq(Subs) /\ Len(subs) \in Nat /\ DOMAIN subs = 1 .. Len(subs)
    BY DEF Shapes, StripeShape
  <2>2. CASE Buy
    BY <2>1, <2>2, CompleteMoves
  <2>3. CASE \E s \in DOMAIN subs : TrialEndsAtStripe(s) \/ Retries(s) \/ Ends(s)
    <3>1. PICK s \in DOMAIN subs : TrialEndsAtStripe(s) \/ Retries(s) \/ Ends(s)
      BY <2>3
    <3>2. CASE TrialEndsAtStripe(s)
      <4>1. subs[s].status \in Live /\ (Pays(s) \/ Declines(s))
        BY <3>2 DEF TrialEndsAtStripe, Live
      <4>2. Moved(s)
        BY <4>1, PaysMoves, DeclinesMoves
      <4>3. QED BY <2>1, <4>2
    <3>3. CASE Retries(s)
      <4>1. subs[s].status \in Live /\ Pays(s)
        BY <3>3 DEF Retries, Live
      <4>2. Moved(s)
        BY <4>1, PaysMoves
      <4>3. QED BY <2>1, <4>2
    <3>4. CASE Ends(s)
      <4>1. Moved(s)
        BY <3>4, EndsMoves
      <4>2. QED BY <2>1, <4>1
    <3>5. QED BY <3>1, <3>2, <3>3, <3>4
  <2>4. QED BY <2>2, <2>3
<1>3. PICK s : Moved(s)
  BY <1>2
<1>4. /\ StripeShape' /\ RowsShape' /\ BilledShape' /\ HookShape' /\ Len(subs) <= Len(subs')
  BY <1>1, <1>3, MovedShape
<1>5. TasksShape'
  <2>1. subs \in Seq(Subs) /\ subs' \in Seq(Subs) /\ Len(subs) \in Nat /\ Len(subs') \in Nat
    BY <1>4 DEF Shapes, StripeShape
  <2>2. DOMAIN tasks = Kinds /\ \A k \in Kinds : tasks[k] = NoTask \/ TaskRow(k, tasks[k], Len(subs))
    BY DEF Shapes, TasksShape
  <2>3. \A k \in Kinds : tasks[k] = NoTask \/ TaskRow(k, tasks[k], Len(subs'))
    BY <1>4, <2>1, <2>2, RowGrows
  <2>4. QED BY <1>1, <2>2, <2>3 DEF TasksShape
<1>6. QED BY <1>2, <1>4, <1>5 DEF Shapes

\* The shapes hold at first.
LEMMA InitShapes ==
  ASSUME SubscriptionInit
  PROVE  Shapes
<1>1. RowsShape
  BY DEF SubscriptionInit, RowsShape, Companies, Statuses, Far
<1>2. StripeShape /\ BilledShape
  BY DEF SubscriptionInit, StripeShape, BilledShape
<1>3. HookShape /\ TasksShape
  BY DEF SubscriptionInit, HookShape, TasksShape
<1>4. QED BY <1>1, <1>2, <1>3 DEF Shapes

\* Every step keeps the shapes.
LEMMA NextShapes ==
  ASSUME Shapes, [SubscriptionNext]_subVars
  PROVE  Shapes'
<1>1. CASE UNCHANGED subVars
  BY <1>1, StripeKept DEF subVars, Shapes
<1>2. CASE Tick
  <2>1. UNCHANGED <<company, trials, billed, subs, events, invoices, hook, tasks>> /\ now' = now + 1
    BY <1>2 DEF Tick, rows, remote
  <2>2. RowsShape'
    BY <2>1 DEF Shapes, RowsShape
  <2>3. QED BY <2>1, <2>2, StripeKept DEF Shapes
<1>3. CASE Buy \/ \E s \in DOMAIN subs : TrialEndsAtStripe(s) \/ Retries(s) \/ Ends(s)
  BY <1>3, StripeShapes
<1>4. CASE AttachCard \/ CreateCheckout
  <2>1. UNCHANGED <<now, company, trials, billed, subs, events, invoices, hook, tasks>>
    BY <1>4 DEF AttachCard, CreateCheckout, rows
  <2>2. QED BY <2>1, StripeKept DEF Shapes
<1>5. CASE StartTrial \/ \E i \in DOMAIN trials : ExtendTrial(i)
  BY <1>5, OneCommitShape
<1>6. CASE RequestBegin \/ SweepBegin
  BY <1>6, BeginsShape
<1>7. ASSUME NEW k \in Kinds, TaskStep(k) \/ Dies(k)
      PROVE  Shapes'
  <2>1. CASE Dies(k)
    BY <2>1, DiesShape
  <2>2. CASE k = "request" /\ Expire
    BY <2>2, ExpireShape
  <2>3. CASE ChargeNothing(k) \/ RetrieveFails(k) \/ (k = "sweep" /\ Orphans)
    BY <2>3, SkipShape
  <2>4. CASE ChargeTrial(k)
    BY <2>4, ChargeTrialShape
  <2>5. CASE ChargeNew(k)
    BY <2>5, ChargeNewShape
  <2>6. CASE SyncStep(k)
    BY <2>6, SyncShape
  <2>7. CASE k = "sweep" /\ Final
    BY <2>7, FinalShape
  <2>8. QED BY <1>7, <2>1, <2>2, <2>3, <2>4, <2>5, <2>6, <2>7 DEF TaskStep
<1>8. ASSUME NEW i \in DOMAIN events, HookBegin(i)
      PROVE  Shapes'
  BY <1>8, HookBeginShape
<1>9. CASE HookStep
  BY <1>9, HookStepShape
<1>10. CASE HookEnd \/ HookDies
  BY <1>10, HookEndShape
<1>11. QED BY <1>1, <1>2, <1>3, <1>4, <1>5, <1>6, <1>7, <1>8, <1>9, <1>10 DEF SubscriptionNext


-----------------------------------------------------------------------------
(* Who is under way.                                                       *)

\* A request or a sweep that takes a step is under way, and the other one goes on as it is.
LEMMA TaskStepping ==
  ASSUME Shapes, NEW k \in Kinds, TaskStep(k)
  PROVE  /\ Step(k) # "none" /\ Busy(k)
         /\ \A j \in Kinds : j # k => tasks'[j] = tasks[j]
         /\ UNCHANGED <<mode, hook, billed>>
<1>1. \E t : Then(k, t)
  <2>1. CASE k = "request" /\ Expire
    BY <2>1 DEF Expire
  <2>2. CASE ChargeNothing(k) \/ ChargeTrial(k) \/ RetrieveFails(k) \/ ChargeNew(k) \/ SyncStep(k)
    BY <2>2 DEF ChargeNothing, ChargeTrial, RetrieveFails, ChargeNew, SyncStep
  <2>3. CASE k = "sweep" /\ (Orphans \/ Final)
    BY <2>3 DEF Orphans, Final
  <2>4. QED BY <2>1, <2>2, <2>3 DEF TaskStep
<1>2. Step(k) # "none"
  <2>1. CASE k = "request" /\ Expire
    BY <2>1 DEF Expire
  <2>2. CASE ChargeNothing(k) \/ ChargeTrial(k) \/ RetrieveFails(k) \/ ChargeNew(k) \/ SyncStep(k)
    BY <2>2 DEF ChargeNothing, ChargeTrial, RetrieveFails, ChargeNew, SyncStep
  <2>3. CASE k = "sweep" /\ (Orphans \/ Final)
    BY <2>3 DEF Orphans, Final
  <2>4. QED BY <2>1, <2>2, <2>3 DEF TaskStep
<1>3. UNCHANGED <<mode, hook, billed>>
  <2>1. CASE k = "request" /\ Expire
    BY <2>1 DEF Expire
  <2>2. CASE ChargeNothing(k) \/ ChargeTrial(k) \/ RetrieveFails(k) \/ ChargeNew(k) \/ SyncStep(k)
    BY <2>2 DEF ChargeNothing, ChargeTrial, RetrieveFails, ChargeNew, SyncStep, rows
  <2>3. CASE k = "sweep" /\ (Orphans \/ Final)
    BY <2>3 DEF Orphans, Final, rows
  <2>4. QED BY <2>1, <2>2, <2>3 DEF TaskStep
<1>4. \A j \in Kinds : j # k => tasks'[j] = tasks[j]
  BY <1>1 DEF Then, Shapes, TasksShape
<1>5. Busy(k)
  BY <1>2, BusyRow DEF Shapes
<1>6. QED BY <1>2, <1>3, <1>4, <1>5

\* What may happen in a behaviour is settled at its start.
LEMMA ModeKept ==
  ASSUME Shapes, [SubscriptionNext]_subVars
  PROVE  mode' = mode
<1>1. ASSUME NEW k \in Kinds, TaskStep(k)
      PROVE  mode' = mode
  BY <1>1, TaskStepping
<1>2. QED
  BY <1>1 DEF SubscriptionNext, subVars, Tick, TrialEndsAtStripe, Retries, Ends, Buy, AttachCard,
     CreateCheckout, StartTrial, ExtendTrial, RequestBegin, SweepBegin, Dies, HookBegin, HookStep,
     HookEnd, HookDies

\* A handler that begins while the system is serial finds nothing in flight.
LEMMA NextAlone ==
  ASSUME Shapes, Alone, [SubscriptionNext]_subVars
  PROVE  Alone'
<1> USE DEF Alone
<1>1. mode' = mode
  BY ModeKept
<1>2. CASE (hook' # NoHook => hook # NoHook) /\ \A k \in Kinds : Busy(k)' => Busy(k)
  BY <1>1, <1>2
<1>3. CASE \/ UNCHANGED subVars \/ Tick \/ Buy \/ AttachCard \/ CreateCheckout \/ StartTrial
           \/ \E s \in DOMAIN subs : TrialEndsAtStripe(s) \/ Retries(s) \/ Ends(s)
           \/ \E i \in DOMAIN trials : ExtendTrial(i)
  <2>1. UNCHANGED <<hook, tasks>>
    BY <1>3 DEF subVars, Tick, Buy, AttachCard, CreateCheckout, StartTrial, TrialEndsAtStripe,
       Retries, Ends, ExtendTrial
  <2>2. QED BY <1>2, <2>1 DEF Busy
<1>4. ASSUME NEW k \in Kinds, MayStart, hook' = hook, NEW t, tasks' = [tasks EXCEPT ![k] = t]
      PROVE  Alone'
  <2>1. mode.serial => hook = NoHook /\ \A j \in Kinds : tasks[j] = NoTask
    BY <1>4 DEF MayStart, MayHook, Quiet
  <2>2. \A j \in Kinds : j # k => tasks'[j] = tasks[j]
    BY <1>4 DEF Shapes, TasksShape
  <2>3. QED BY <1>1, <1>4, <2>1, <2>2 DEF Busy
<1>5. CASE RequestBegin
  BY <1>4, <1>5 DEF RequestBegin, Kinds
<1>6. CASE SweepBegin
  BY <1>4, <1>6 DEF SweepBegin, Kinds
<1>7. ASSUME NEW k \in Kinds, TaskStep(k)
      PROVE  Alone'
  <2>1. Busy(k) /\ (\A j \in Kinds : j # k => tasks'[j] = tasks[j]) /\ hook' = hook
    BY <1>7, TaskStepping
  <2>2. \A j \in Kinds : Busy(j)' => Busy(j)
    BY <2>1 DEF Busy
  <2>3. QED BY <1>2, <2>1, <2>2
<1>8. ASSUME NEW k \in Kinds, Dies(k)
      PROVE  Alone'
  <2>1. hook' = hook /\ \A j \in Kinds : Busy(j)' => Busy(j)
    BY <1>8 DEF Dies, Busy, Shapes, TasksShape
  <2>2. QED BY <1>2, <2>1
<1>9. ASSUME NEW i, HookBegin(i)
      PROVE  Alone'
  <2>1. mode.serial => \A j \in Kinds : tasks[j] = NoTask
    BY <1>9 DEF HookBegin, MayHook, Quiet
  <2>2. tasks' = tasks
    BY <1>9 DEF HookBegin
  <2>3. QED BY <1>1, <2>1, <2>2 DEF Busy
<1>10. CASE HookStep
  <2>1. hook # NoHook
    BY <1>10, HookGoesOn
  <2>2. tasks' = tasks
    BY <1>10 DEF HookStep
  <2>3. QED BY <1>2, <2>1, <2>2 DEF Busy
<1>11. CASE HookEnd \/ HookDies
  <2>1. hook' = NoHook /\ tasks' = tasks
    BY <1>11 DEF HookEnd, HookDies
  <2>2. QED BY <1>2, <2>1 DEF Busy
<1>12. QED BY <1>3, <1>5, <1>6, <1>7, <1>8, <1>9, <1>10, <1>11 DEF SubscriptionNext

\* What a step is to Stripe, to the receipts and to the webhook in flight.
LEMMA StepKinds ==
  ASSUME Shapes, [SubscriptionNext]_subVars
  PROVE  \/ UNCHANGED <<mode, subs, events, invoices, billed, hook>>
         \/ UNCHANGED <<mode, billed, hook>> /\ \E s : Moved(s)
         \/ UNCHANGED mode /\ \E i \in DOMAIN events : HookBegin(i)
         \/ UNCHANGED mode /\ (HookStep \/ HookEnd \/ HookDies)
<1> DEFINE Kept == UNCHANGED <<mode, subs, events, invoices, billed, hook>>
           Grew == UNCHANGED <<mode, billed, hook>> /\ \E s : Moved(s)
<1>1. CASE \/ UNCHANGED subVars \/ Tick \/ AttachCard \/ CreateCheckout \/ StartTrial
           \/ RequestBegin \/ SweepBegin \/ \E i \in DOMAIN trials : ExtendTrial(i)
           \/ \E k \in Kinds : Dies(k)
  <2>1. Kept
    BY <1>1 DEF subVars, Tick, AttachCard, CreateCheckout, StartTrial, RequestBegin, SweepBegin,
         ExtendTrial, Dies, rows, remote
  <2>2. QED BY <2>1
<1>2. CASE Buy \/ \E s \in DOMAIN subs : TrialEndsAtStripe(s) \/ Retries(s) \/ Ends(s)
  <2>1. UNCHANGED <<mode, billed, hook>>
    BY <1>2 DEF Buy, TrialEndsAtStripe, Retries, Ends, rows
  <2>2. \E s : Moved(s)
    BY <1>2, StripeShapes
  <2>3. QED BY <2>1, <2>2
<1>3. ASSUME NEW k \in Kinds, TaskStep(k)
      PROVE  Kept \/ Grew
  <2>1. UNCHANGED <<mode, hook, billed>>
    BY <1>3, TaskStepping
  <2>2. UNCHANGED <<subs, events, invoices>> \/ \E s : Moved(s)
    <3>1. CASE k = "request" /\ Expire
      BY <3>1 DEF Expire, remote
    <3>2. CASE ChargeNothing(k) \/ RetrieveFails(k) \/ SyncStep(k)
      BY <3>2 DEF ChargeNothing, RetrieveFails, SyncStep, remote
    <3>3. CASE ChargeTrial(k)
      BY <3>3, ChargeTrialShape
    <3>4. CASE ChargeNew(k)
      BY <3>4, CreatesMoves DEF ChargeNew
    <3>5. CASE k = "sweep" /\ (Orphans \/ Final)
      BY <3>5 DEF Orphans, Final, remote
    <3>6. QED BY <1>3, <3>1, <3>2, <3>3, <3>4, <3>5 DEF TaskStep
  <2>3. QED BY <2>1, <2>2
<1>4. CASE \/ \E i \in DOMAIN events : HookBegin(i)
           \/ HookStep \/ HookEnd \/ HookDies
  <2>1. UNCHANGED mode
    BY <1>4 DEF HookBegin, HookStep, HookEnd, HookDies
  <2>2. QED BY <1>4, <2>1
<1>5. QED BY <1>1, <1>2, <1>3, <1>4 DEF SubscriptionNext

\* A prompt webhook is that of the first event, and stays so.
LEMMA NextInOrder ==
  ASSUME Shapes, InOrder, [SubscriptionNext]_subVars
  PROVE  InOrder'
<1> USE DEF InOrder
<1>1. CASE UNCHANGED <<mode, hook>>
  BY <1>1
<1>2. CASE UNCHANGED mode /\ \E i \in DOMAIN events : HookBegin(i)
  <2>1. PICK i \in DOMAIN events : HookBegin(i)
    BY <1>2
  <2>2. hook'.at = i
    BY <2>1, HookBeginShape
  <2>3. mode.prompt => i = 1
    BY <2>1 DEF HookBegin
  <2>4. QED BY <1>2, <2>2, <2>3
<1>3. CASE UNCHANGED mode /\ HookStep
  <2>1. hook # NoHook /\ hook'.at = hook.at
    BY <1>3, HookGoesOn
  <2>2. QED BY <1>3, <2>1
<1>4. CASE HookEnd \/ HookDies
  BY <1>4 DEF HookEnd, HookDies
<1>5. QED BY <1>1, <1>2, <1>3, <1>4, StepKinds

-----------------------------------------------------------------------------
(* Every payment is billed or told.                                        *)

\* A payment is told as it is taken, and its event goes only when it is billed.
LEMMA NextRecorded ==
  ASSUME Shapes, Recorded, [SubscriptionNext]_subVars
  PROVE  Recorded'
<1> DEFINE Booked(n) == n \in billed \/ Told(n)
           Writes == hook # NoHook /\ hook.event.kind = "invoice" /\ hook.event.inv # 0 =>
                       hook.todo \in Billing \/ hook.event.inv \in billed
<1>1. (\A n \in 1 .. invoices : Booked(n)) /\ Writes
  BY DEF Recorded
<1>2. SUFFICES (\A n \in (1 .. invoices)' : Booked(n)') /\ Writes'
  BY DEF Recorded
<1>3. /\ invoices \in Nat /\ events \in Seq(Events)
      /\ Len(events) \in Nat /\ DOMAIN events = 1 .. Len(events)
  BY DEF Shapes, StripeShape
<1>4. CASE UNCHANGED <<events, invoices, billed, hook>>
  BY <1>1, <1>4 DEF Told
<1>5. CASE UNCHANGED <<billed, hook>> /\ \E s : Moved(s)
  <2>1. PICK s : Moved(s)
    BY <1>5
  <2>2. \A i \in DOMAIN events : i \in DOMAIN events' /\ events'[i] = events[i]
    BY <2>1, MovedShape
  <2>3. \A n : Told(n) => Told(n)'
    BY <2>2 DEF Told
  <2>4. invoices' \in {invoices, invoices + 1} /\ (invoices' # invoices => Told(invoices)')
    BY <2>1 DEF Moved
  <2>5. ASSUME NEW n \in (1 .. invoices)'
        PROVE  Booked(n)'
    <3>1. CASE n \in 1 .. invoices
      BY <1>1, <1>5, <2>3, <3>1
    <3>2. CASE n \notin 1 .. invoices
      <4>1. n = invoices' /\ invoices' # invoices
        BY <1>3, <2>4, <3>2
      <4>2. QED BY <2>4, <4>1 DEF Told
    <3>3. QED BY <3>1, <3>2
  <2>6. Writes'
    BY <1>1, <1>5
  <2>7. QED BY <2>5, <2>6
<1>6. CASE \E i \in DOMAIN events : HookBegin(i)
  <2>1. PICK i \in DOMAIN events : HookBegin(i)
    BY <1>6
  <2>2. hook'.event = events[i] /\ hook'.todo = Work(events[i]) /\ events[i] \in Events
    BY <1>3, <2>1, HookBeginShape
  <2>3. Writes'
    BY <2>2, WorkIsTodo
  <2>4. UNCHANGED <<events, invoices, billed>>
    BY <2>1 DEF HookBegin, rows, remote
  <2>5. QED BY <1>1, <2>3, <2>4 DEF Told
<1>7. CASE HookStep
  <2>1. UNCHANGED <<events, invoices>> /\ billed \subseteq billed'
    BY <1>7 DEF HookStep, HookSync, HookSettle, HookActive, HookReceipt, HookBill, HookFailed,
       HookDeleted, remote
  <2>2. /\ hook # NoHook /\ hook.todo # <<>>
        /\ hook'.event = hook.event /\ hook'.todo = Tail(hook.todo)
    BY <1>7, HookGoesOn
  <2>3. Head(hook.todo) = "bill" => hook.event.inv \in billed'
    <3>1. Head(hook.todo) = "bill" => HookBill
      BY <1>7 DEF HookStep, HookSync, HookSettle, HookActive, HookReceipt, HookBill, HookFailed,
         HookDeleted, At
    <3>2. QED BY <3>1 DEF HookBill
  <2>4. ASSUME hook.event.kind = "invoice", hook.event.inv # 0
        PROVE  Tail(hook.todo) \in Billing \/ hook.event.inv \in billed'
    <3>1. CASE hook.todo \in Billing
      BY <2>3, <3>1, BillingSteps
    <3>2. CASE hook.todo \notin Billing
      BY <1>1, <2>1, <2>2, <2>4, <3>2
    <3>3. QED BY <3>1, <3>2
  <2>5. Writes'
    BY <2>2, <2>4
  <2>6. QED BY <1>1, <2>1, <2>5 DEF Told
<1>8. CASE HookEnd \/ HookDies
  <2>1. hook # NoHook /\ hook' = NoHook /\ UNCHANGED <<invoices, billed>>
    BY <1>8 DEF HookEnd, HookDies, rows, remote
  <2>2. Writes'
    BY <2>1
  <2>3. CASE UNCHANGED events
    BY <1>1, <2>1, <2>2, <2>3 DEF Told
  <2>4. CASE HookEnd /\ events' # events
    <3>1. events' = RemoveAt(events, hook.at) /\ hook.todo = <<>>
      BY <2>4 DEF HookEnd
    <3>2. /\ hook.at \in DOMAIN events /\ hook.event = events[hook.at]
      BY <2>1, HookRow
    <3>3. Drops(events', events, hook.at)
      BY <1>3, <3>1, <3>2, EventDropped
    <3>4. hook.todo \notin Billing
      BY <3>1, BillingSteps
    <3>5. ASSUME NEW n \in 1 .. invoices, n \notin billed
          PROVE  Told(n)'
      <4>1. PICK i \in DOMAIN events : events[i].kind = "invoice" /\ events[i].inv = n
        BY <1>1, <3>5 DEF Told
      <4>2. i # hook.at
        BY <1>1, <1>3, <2>1, <3>2, <3>4, <3>5, <4>1
      <4>3. PICK j \in 1 .. Len(events) - 1 : j = IF i < hook.at THEN i ELSE i - 1
        BY <1>3, <3>2, <4>2
      <4>4. events'[j] = events[i]
        <5>1. events'[j] = IF j < hook.at THEN events[j] ELSE events[j + 1]
          BY <3>3 DEF Drops
        <5>2. IF i < hook.at THEN j < hook.at /\ j = i ELSE ~(j < hook.at) /\ j + 1 = i
          BY <1>3, <3>2, <4>2, <4>3
        <5>3. QED BY <5>1, <5>2
      <4>5. j \in DOMAIN events'
        BY <3>3, <1>3 DEF Drops
      <4>6. QED BY <4>1, <4>4, <4>5 DEF Told
    <3>6. \A n \in (1 .. invoices)' : Booked(n)'
      BY <2>1, <3>5 DEF Told
    <3>7. QED BY <2>2, <3>6
  <2>5. QED BY <2>3, <2>4, <1>8 DEF HookDies, remote
<1>9. QED BY <1>4, <1>5, <1>6, <1>7, <1>8, StepKinds


-----------------------------------------------------------------------------
(* Undisturbed, only the last subscription charges.                        *)

\* What is under way after a step of it.
LEMMA ThenStep ==
  ASSUME Shapes, NEW k \in Kinds, NEW t, Then(k, t)
  PROVE  /\ Step(k)' = IF t.todo = <<>> THEN "none" ELSE Head(t.todo)
         /\ tasks'[k] = IF t.todo = <<>> THEN NoTask ELSE t
<1>1. tasks'[k] = IF t.todo = <<>> THEN NoTask ELSE t
  BY DEF Then, Shapes, TasksShape
<1>2. NoTask.todo = <<>>
  BY DEF NoTask
<1>3. QED BY <1>1, <1>2 DEF Step

\* A charge follows only the end of a trial.
LEMMA RestHead ==
  ASSUME NEW k \in Kinds, NEW t \in TaskTodos(k), Head(t) # "expire", Tail(t) # <<>>
  PROVE  Head(Tail(t)) \in {"orphans", "final"}
  BY TaskTodoSteps

\* A request and the sweep begin with the company as it is.
LEMMA BeginsRow ==
  ASSUME Shapes, RequestBegin \/ SweepBegin
  PROVE  /\ MayStart /\ UNCHANGED <<mode, company, subs, events, hook, faults>>
         /\ \E k \in Kinds : \E t :
              /\ Then(k, t) /\ t.seen = company /\ t.orphan = FALSE
              /\ t.todo # <<>> /\ Head(t.todo) \in {"expire", "charge", "orphans"}
              /\ Head(t.todo) = "expire" => company.status = "trialing"
<1>1. MayStart /\ UNCHANGED <<mode, company, subs, events, hook, faults>>
  BY DEF RequestBegin, SweepBegin, rows, remote
<1>2. CASE RequestBegin
  <2>1. PICK t : /\ tasks' = [tasks EXCEPT !["request"] = t]
                 /\ t = [todo |-> IF ActiveTrial(trials) = 0 THEN <<"expire">>
                                   ELSE <<"expire", "charge">>,
                         trial |-> ActiveTrial(trials), seen |-> company, orphan |-> FALSE,
                         snap |-> NoSnap]
    BY <1>2 DEF RequestBegin
  <2>2. t.seen = company /\ t.orphan = FALSE
    BY <2>1
  <2>3. t.todo # <<>> /\ Head(t.todo) = "expire"
    BY <2>1
  <2>4. Then("request", t) /\ "request" \in Kinds
    BY <2>1, <2>3 DEF Then, Kinds
  <2>5. company.status = "trialing"
    BY <1>2 DEF RequestBegin
  <2>6. QED BY <1>1, <2>2, <2>3, <2>4, <2>5
<1>3. CASE SweepBegin
  <2> DEFINE i == Latest({j \in DOMAIN trials : trials[j].status \in Open /\ Due(trials[j].ends)})
  <2>1. PICK t : /\ tasks' = [tasks EXCEPT !["sweep"] = t]
                 /\ t = [todo |-> IF i = 0 THEN <<"orphans">> ELSE <<"charge", "orphans">>,
                         trial |-> i, seen |-> company, orphan |-> FALSE, snap |-> NoSnap]
    BY <1>3 DEF SweepBegin
  <2> HIDE DEF i
  <2>2. t.seen = company /\ t.orphan = FALSE
    BY <2>1
  <2>3. t.todo # <<>> /\ Head(t.todo) \in {"charge", "orphans"}
    BY <2>1
  <2>4. Then("sweep", t) /\ "sweep" \in Kinds
    BY <2>1, <2>3 DEF Then, Kinds
  <2>5. QED BY <1>1, <2>2, <2>3, <2>4
<1>4. QED BY <1>2, <1>3

\* A webhook writes which subscription the company has only from its first commit.
LEMMA HookStepSub ==
  ASSUME Shapes, HookStep
  PROVE  company'.sub = IF At("sync") THEN hook.event.sub ELSE company.sub
<1>1. company \in Companies
  BY DEF Shapes, RowsShape
<1>2. CASE HookSync
  BY <1>2 DEF HookSync, Synced
<1>3. CASE HookSettle \/ HookActive \/ HookFailed \/ HookDeleted
  <2>1. ~At("sync")
    BY <1>3 DEF HookSettle, HookActive, HookFailed, HookDeleted, At
  <2>2. \E status : company' = [company EXCEPT !.status = status]
    BY <1>3 DEF HookSettle, HookActive, HookFailed, HookDeleted
  <2>3. QED BY <1>1, <2>1, <2>2 DEF Companies
<1>4. CASE HookReceipt
  <2>1. ~At("sync")
    BY <1>4 DEF HookReceipt, At
  <2>2. company' = company \/ company' = [company EXCEPT !.status = "active", !.end = Far]
    BY <1>4 DEF HookReceipt
  <2>3. QED BY <1>1, <2>1, <2>2 DEF Companies
<1>5. CASE HookBill
  BY <1>5 DEF HookBill, At
<1>6. QED BY <1>2, <1>3, <1>4, <1>5 DEF HookStep

\* With nothing waiting, the company row names the last subscription.
LEMMA NothingWaits ==
  ASSUME Follows, events = <<>>
  PROVE  company.sub = LastSub
<1>1. DOMAIN events = {}
  OBVIOUS
<1>2. QED BY <1>1 DEF Follows

\* The subscription Stripe moves is the last.
LEMMA LastMoved ==
  ASSUME Shapes, Sole, NEW s, Moved(s)
  PROVE  /\ LastSub' = s
         /\ s <= Len(subs) => s = LastSub
<1>1. /\ Len(subs) \in Nat /\ s \in 1 .. Len(subs) + 1
      /\ DOMAIN subs = 1 .. Len(subs)
      /\ Len(subs') = IF s <= Len(subs) THEN Len(subs) ELSE s
      /\ s <= Len(subs) => subs[s].status \in Live
  BY DEF Moved, SubsMoved, Shapes, StripeShape
<1>2. CASE s <= Len(subs)
  <2>1. s \in DOMAIN subs /\ subs[s].status \in Live
    BY <1>1, <1>2
  <2>2. s = LastSub
    BY <2>1 DEF Sole
  <2>3. QED BY <1>1, <1>2, <2>2 DEF LastSub
<1>3. QED BY <1>1, <1>2 DEF LastSub

\* Where no payment is refused and none is bought beside another.
LEMMA SoleMoved ==
  ASSUME Shapes, Sole, ~mode.declines, NEW s, Moved(s), s > Len(subs) => LiveSubs = {}
  PROVE  Sole'
<1>1. /\ subs \in Seq(Subs) /\ subs' \in Seq(Subs) /\ Len(subs) \in Nat /\ s \in 1 .. Len(subs) + 1
      /\ DOMAIN subs = 1 .. Len(subs)
      /\ Len(subs') = IF s <= Len(subs) THEN Len(subs) ELSE s
      /\ DOMAIN subs' = 1 .. Len(subs')
      /\ \A j \in DOMAIN subs : j # s => subs'[j] = subs[j]
      /\ s <= Len(subs) => subs[s].status \in Live
      /\ subs'[s].status # "past_due"
  BY DEF Moved, SubsMoved, Shapes, StripeShape
<1>2. LastSub' = s
  BY LastMoved
<1>3. ASSUME NEW j \in DOMAIN subs'
      PROVE  subs'[j].status # "past_due" /\ (subs'[j].status \in Live => j = LastSub')
  <2>1. CASE j = s
    BY <1>1, <1>2, <2>1
  <2>2. CASE j # s
    <3>1. j \in DOMAIN subs /\ subs'[j] = subs[j]
      BY <1>1, <2>2
    <3>2. CASE s <= Len(subs)
      BY <1>1, <1>2, <2>2, <3>1, <3>2 DEF Sole, LastSub
    <3>3. CASE s > Len(subs)
      BY <3>1, <3>3 DEF LiveSubs, Sole
    <3>4. QED BY <1>1, <3>2, <3>3
  <2>3. QED BY <2>1, <2>2
<1>4. QED BY <1>3 DEF Sole

\* What Stripe tells is about its last subscription, a new one told first.
LEMMA FollowsMoved ==
  ASSUME Shapes, Sole, Follows, NEW s, Moved(s), company'.sub = company.sub, hook' = hook
  PROVE  Follows'
<1>1. /\ subs \in Seq(Subs) /\ Len(subs) \in Nat /\ s \in 1 .. Len(subs) + 1
      /\ DOMAIN subs = 1 .. Len(subs)
      /\ Len(subs') = IF s <= Len(subs) THEN Len(subs) ELSE s
      /\ s <= Len(subs) => subs[s].status \in Live
  BY DEF Moved, SubsMoved, Shapes, StripeShape
<1>2. /\ events \in Seq(Events) /\ events' \in Seq(Events) /\ Len(events) < Len(events')
      /\ Len(events) \in Nat /\ Len(events') \in Nat
      /\ DOMAIN events = 1 .. Len(events) /\ DOMAIN events' = 1 .. Len(events')
      /\ \A i \in DOMAIN events : events'[i] = events[i]
      /\ \A i \in DOMAIN events' : i > Len(events) => events'[i].sub = s
  BY DEF Moved, Shapes, StripeShape
<1>3. CASE s <= Len(subs)
  <2>1. LastSub' = LastSub /\ s = LastSub
    BY <1>3, LastMoved
  <2>2. CASE company.sub = LastSub /\ \A i \in DOMAIN events : events[i].sub = LastSub
    <3>1. \A i \in DOMAIN events' : events'[i].sub = LastSub'
      BY <1>2, <2>1, <2>2
    <3>2. QED BY <2>1, <2>2, <3>1 DEF Follows
  <2>3. CASE \E i \in DOMAIN events : Announced(i)
    <3>1. PICK i \in DOMAIN events : Announced(i)
      BY <2>3
    <3>2. i \in DOMAIN events' /\ events'[i].kind = "subscription"
      BY <1>2, <3>1 DEF Announced
    <3>3. \A j \in DOMAIN events' : j >= i => events'[j].sub = LastSub'
      BY <1>2, <2>1, <3>1 DEF Announced
    <3>4. i = 1 /\ hook' # NoHook => At("sync")'
      BY <3>1 DEF Announced, At
    <3>5. QED BY <3>2, <3>3, <3>4 DEF Announced, Follows
  <2>4. QED BY <2>2, <2>3 DEF Follows
<1>4. CASE s > Len(subs)
  <2>0. PICK i : i = Len(events) + 1
    OBVIOUS
  <2>1. LastSub' = s
    BY <1>1, <1>4 DEF LastSub
  <2>2. i \in DOMAIN events' /\ events'[i].kind = "subscription"
    BY <1>2, <1>4, <2>0 DEF Moved
  <2>3. \A j \in DOMAIN events' : j >= i => events'[j].sub = LastSub'
    BY <1>2, <2>0, <2>1
  <2>4. i = 1 => hook = NoHook
    BY <1>2, <2>0, HookRow
  <2>5. Announced(i)'
    BY <2>2, <2>3, <2>4 DEF Announced
  <2>6. QED BY <2>2, <2>5 DEF Follows
<1>5. QED BY <1>1, <1>3, <1>4


\* A step of a request or of the sweep.
LEMMA SingleTask ==
  ASSUME Shapes, Alone, Single, Calm, NEW k \in Kinds, TaskStep(k)
  PROVE  Single'
<1>1. /\ faults = 0 /\ Sole /\ Follows /\ TaskFollows(k)
      /\ mode.serial /\ ~mode.declines
  BY DEF Single, Calm
<1>2. /\ Step(k) # "none" /\ Busy(k) /\ UNCHANGED <<mode, hook>>
      /\ \A j \in Kinds : j # k => tasks'[j] = tasks[j]
  BY TaskStepping
<1>3. hook = NoHook /\ \A j \in Kinds : j # k => tasks'[j] = NoTask
  BY <1>1, <1>2 DEF Alone, Busy
<1>4. \A j \in Kinds : j # k => TaskFollows(j)'
  <2>1. NoTask.todo = <<>>
    BY DEF NoTask
  <2>2. \A j \in Kinds : j # k => Step(j)' = "none"
    BY <1>3, <2>1 DEF Step
  <2>3. QED BY <2>2 DEF TaskFollows
<1>5. TaskRow(k, tasks[k], Len(subs)) /\ Step(k) = Head(tasks[k].todo)
  BY <1>2, BusyRow DEF Shapes
<1>6. /\ tasks[k].todo \in TaskTodos(k) /\ company \in Companies
      /\ Len(subs) \in Nat /\ DOMAIN subs = 1 .. Len(subs)
  BY <1>5 DEF TaskRow, Shapes, RowsShape, StripeShape
<1>7. SUFFICES faults' = 0 /\ Sole' /\ Follows' /\ TaskFollows(k)'
  BY <1>4 DEF Single
<1>8. ASSUME UNCHANGED <<subs, events, faults>>, company'.sub = LastSub, NEW t, Then(k, t),
             t.todo # <<>> => /\ Head(t.todo) \in {"charge", "orphans", "final"}
                              /\ Head(t.todo) = "charge" => t.seen.sub = LastSub
      PROVE  faults' = 0 /\ Sole' /\ Follows' /\ TaskFollows(k)'
  <2>1. LastSub' = LastSub
    BY <1>8 DEF LastSub
  <2>2. faults' = 0 /\ Sole'
    BY <1>1, <1>8, <2>1 DEF Sole
  <2>3. Follows'
    <3>1. CASE \A i \in DOMAIN events : events[i].sub = LastSub
      BY <1>8, <2>1, <3>1 DEF Follows
    <3>2. CASE \E i \in DOMAIN events : Announced(i)
      <4>1. PICK i \in DOMAIN events : Announced(i)
        BY <3>2
      <4>2. Announced(i)' /\ i \in DOMAIN events'
        BY <1>2, <1>8, <2>1, <4>1 DEF Announced, At
      <4>3. QED BY <4>2 DEF Follows
    <3>3. QED BY <1>1, <3>1, <3>2 DEF Follows
  <2>4. /\ Step(k)' = IF t.todo = <<>> THEN "none" ELSE Head(t.todo)
        /\ t.todo # <<>> => tasks'[k] = t
    BY <1>8, ThenStep
  <2>5. TaskFollows(k)'
    BY <1>8, <2>1, <2>4 DEF TaskFollows
  <2>6. QED BY <2>2, <2>3, <2>5
<1>9. ASSUME NEW s, Moved(s), s > Len(subs) => LiveSubs = {}, UNCHANGED <<company, faults>>,
             NEW t, Then(k, t), t.todo # <<>>, Head(t.todo) = "sync", t.snap.sub = s
      PROVE  faults' = 0 /\ Sole' /\ Follows' /\ TaskFollows(k)'
  <2>1. LastSub' = s
    BY <1>1, <1>9, LastMoved
  <2>2. Sole'
    BY <1>1, <1>9, SoleMoved
  <2>3. Follows'
    <3>1. company'.sub = company.sub
      BY <1>9
    <3>2. QED BY <1>1, <1>2, <1>9, <3>1, FollowsMoved
  <2>4. Step(k)' = "sync" /\ tasks'[k] = t
    BY <1>9, ThenStep
  <2>5. TaskFollows(k)'
    BY <1>9, <2>1, <2>4 DEF TaskFollows
  <2>6. QED BY <1>1, <1>9, <2>2, <2>3, <2>5
<1>10. PICK r : r = Rest(k)
  OBVIOUS
<1>11. /\ r.todo = Tail(tasks[k].todo) /\ r.seen = tasks[k].seen /\ r = [f \in TaskFields |-> r[f]]
       /\ r.todo # <<>> => Head(r.todo) \in {"charge", "orphans", "final"}
  BY <1>5, <1>10, RestRow
<1>12. Step(k) # "expire" /\ r.todo # <<>> => Head(r.todo) \in {"orphans", "final"}
  BY <1>5, <1>6, <1>11, RestHead
<1>13. CASE k = "request" /\ Expire
  <2>1. PICK t : t = [r EXCEPT !.seen = company']
    OBVIOUS
  <2>2. /\ Step(k) = "expire" /\ UNCHANGED <<subs, events, faults>> /\ Then(k, t)
        /\ company' = [company EXCEPT !.status = "trial_expired"]
    BY <1>10, <1>13, <2>1 DEF Expire, remote
  <2>3. company'.sub = LastSub
    BY <1>1, <1>6, <2>2 DEF TaskFollows, Companies
  <2>4. t.todo = r.todo /\ t.seen = company'
    BY <1>11, <2>1 DEF TaskFields
  <2>5. QED BY <1>8, <1>11, <2>2, <2>3, <2>4
<1>14. CASE ChargeNothing(k)
  <2>1. Step(k) = "charge" /\ UNCHANGED <<company, subs, events, faults>> /\ Then(k, r)
    BY <1>10, <1>14 DEF ChargeNothing, rows, remote
  <2>2. company'.sub = LastSub
    BY <1>1, <2>1 DEF TaskFollows
  <2>3. QED BY <1>8, <1>12, <2>1, <2>2
<1>15. CASE ChargeTrial(k)
  <2>1. PICK s : s = tasks[k].seen.sub
    OBVIOUS
  <2>2. s \in DOMAIN subs /\ Moved(s) /\ subs'[s].status \in {"active", "past_due"}
    BY <1>15, <2>1, ChargeTrialShape
  <2>3. PICK t : t = Sync(k, s, subs'[s].status)
    OBVIOUS
  <2>4. Step(k) = "charge" /\ UNCHANGED <<company, faults>> /\ Then(k, t)
    BY <1>1, <1>15, <2>1, <2>3 DEF ChargeTrial, rows
  <2>5. t.todo # <<>> /\ Head(t.todo) = "sync" /\ t.snap.sub = s
    BY <1>5, <1>6, <2>2, <2>3, <2>4, SyncRow DEF Charging
  <2>6. ~(s > Len(subs))
    BY <1>6, <2>2
  <2>7. QED BY <1>9, <2>2, <2>4, <2>5, <2>6
<1>16. CASE RetrieveFails(k)
  BY <1>1, <1>16 DEF RetrieveFails
<1>17. CASE ChargeNew(k)
  <2>1. PICK c : c = tasks[k].seen
    OBVIOUS
  <2>2. /\ Step(k) = "charge" /\ ~NothingToCharge(c) /\ Known(c) # "trialing"
    BY <1>1, <1>17, <2>1 DEF ChargeNew, TaskFollows
  <2>3. c.sub = LastSub /\ company.sub = LastSub
    BY <1>1, <2>1, <2>2 DEF TaskFollows
  <2>4. CASE Creates /\ UNCHANGED <<company, faults>> /\ Then(k, Sync(k, Len(subs'), "active"))
    <3>1. PICK s, t : s = Len(subs) + 1 /\ t = Sync(k, Len(subs'), "active")
      OBVIOUS
    <3>2. Moved(s)
      BY <2>4, <3>1, CreatesMoves
    <3>3. Len(subs') = s
      BY <1>6, <3>1, <3>2 DEF Moved, SubsMoved
    <3>4. LiveSubs = {}
      <4>1. ASSUME NEW j \in DOMAIN subs
            PROVE  subs[j].status \notin Live
        <5>1. j # LastSub => subs[j].status \notin Live
          BY <1>1 DEF Sole
        <5>2. j = LastSub => c.sub # 0 /\ subs[j].status = Known(c)
          BY <1>6, <2>3 DEF Known
        <5>3. subs[j].status # "past_due"
          BY <1>1 DEF Sole
        <5>4. QED BY <2>2, <5>1, <5>2, <5>3 DEF NothingToCharge, Live
      <4>2. QED BY <4>1 DEF LiveSubs
    <3>5. t.todo # <<>> /\ Head(t.todo) = "sync" /\ t.snap.sub = s
      <4>1. t = Sync(k, s, "active")
        BY <3>1, <3>3
      <4>2. s \in Nat /\ Len(subs) <= s /\ s \in 1 .. s
        BY <1>6, <3>1
      <4>3. QED BY <1>5, <1>6, <2>2, <4>1, <4>2, SyncRow DEF Charging
    <3>6. Then(k, t)
      BY <2>4, <3>1
    <3>7. QED BY <1>9, <2>4, <3>2, <3>4, <3>5, <3>6
  <2>5. CASE UNCHANGED <<company, subs, events, faults>> /\ Then(k, r)
    <3>1. company'.sub = LastSub
      BY <2>3, <2>5
    <3>2. QED BY <1>8, <1>12, <2>2, <2>5, <3>1
  <2>6. QED BY <1>1, <1>10, <1>17, <2>4, <2>5 DEF ChargeNew
<1>18. CASE SyncStep(k)
  <2>1. PICK c : c = Reloaded(k)
    OBVIOUS
  <2>2. Step(k) = "sync" /\ UNCHANGED <<subs, events, faults>> /\ Then(k, c)
    BY <1>18, <2>1 DEF SyncStep, remote
  <2>3. company'.sub = LastSub
    BY <1>1, <1>18, <2>2 DEF SyncStep, Synced, TaskFollows
  <2>4. c.todo = Tail(tasks[k].todo)
    BY <1>5, <2>1, CommittedRow
  <2>5. QED BY <1>8, <1>11, <1>12, <2>2, <2>3, <2>4
<1>19. CASE k = "sweep" /\ Orphans
  <2>1. PICK due \in BOOLEAN : due = (company.status = "trialing" /\ Due(company.end))
    OBVIOUS
  <2>2. PICK t : t = [tasks[k] EXCEPT !.todo = IF due THEN <<"charge", "final">> ELSE <<"final">>,
                                      !.seen = company, !.orphan = due]
    OBVIOUS
  <2>3. Step(k) = "orphans" /\ UNCHANGED <<company, subs, events, faults>> /\ Then(k, t)
    BY <1>19, <2>1, <2>2 DEF Orphans, rows, remote
  <2>4. tasks[k] = [f \in TaskFields |-> tasks[k][f]]
    BY <1>5 DEF TaskRow
  <2>5. t.seen = company /\ t.todo = IF due THEN <<"charge", "final">> ELSE <<"final">>
    BY <2>2, <2>4 DEF TaskFields
  <2>6. Head(t.todo) \in {"charge", "final"}
    BY <2>5
  <2>7. company.sub = LastSub
    BY <1>1, <2>3 DEF TaskFollows
  <2>8. QED BY <1>8, <2>3, <2>5, <2>6, <2>7
<1>20. CASE k = "sweep" /\ Final
  <2>1. /\ Step(k) = "final" /\ UNCHANGED <<subs, events, faults>> /\ Then(k, r)
        /\ company' = company \/ company' = [company EXCEPT !.status = "trial_expired"]
    BY <1>10, <1>20 DEF Final, remote
  <2>2. company'.sub = LastSub
    BY <1>1, <1>6, <2>1 DEF TaskFollows, Companies
  <2>3. QED BY <1>8, <1>12, <2>1, <2>2
<1>21. QED BY <1>13, <1>14, <1>15, <1>16, <1>17, <1>18, <1>19, <1>20 DEF TaskStep

\* A step of a webhook.
LEMMA SingleHook ==
  ASSUME Shapes, Alone, InOrder, Single, Calm,
         (\E i \in DOMAIN events : HookBegin(i)) \/ HookStep \/ HookEnd \/ HookDies
  PROVE  Single'
<1>1. /\ faults = 0 /\ Sole /\ Follows /\ \A k \in Kinds : TaskFollows(k)
      /\ mode.serial /\ mode.prompt
  BY DEF Single, Calm
<1>2. events \in Seq(Events) /\ Len(events) \in Nat /\ DOMAIN events = 1 .. Len(events)
  BY DEF Shapes, StripeShape
<1>3. UNCHANGED <<mode, subs, tasks>> /\ faults' = 0
  BY <1>1 DEF HookBegin, HookStep, HookEnd, HookDies, remote
<1>4. LastSub' = LastSub /\ Sole'
  BY <1>1, <1>3 DEF LastSub, Sole
<1>5. SUFFICES Follows' /\ \A k \in Kinds : TaskFollows(k)'
  BY <1>3, <1>4 DEF Single
<1>6. \A k \in Kinds : TaskFollows(k)'
  <2>1. CASE hook # NoHook
    <3>1. \A k \in Kinds : tasks[k] = NoTask
      BY <1>1, <2>1 DEF Alone, Busy
    <3>2. NoTask.todo = <<>>
      BY DEF NoTask
    <3>3. \A k \in Kinds : Step(k)' = "none"
      BY <1>3, <3>1, <3>2 DEF Step
    <3>4. QED BY <3>3 DEF TaskFollows
  <2>2. CASE hook = NoHook
    <3>1. ~HookStep
      BY <2>2, HookGoesOn
    <3>2. company' = company
      BY <2>2, <3>1 DEF HookBegin, HookEnd, HookDies, rows
    <3>3. QED BY <1>1, <1>3, <1>4, <3>2 DEF TaskFollows, Step
  <2>3. QED BY <2>1, <2>2
<1>7. CASE \E i \in DOMAIN events : HookBegin(i)
  <2>1. PICK i \in DOMAIN events : HookBegin(i)
    BY <1>7
  <2>2. /\ i = 1 /\ UNCHANGED <<company, events>>
        /\ hook'.todo = Work(events[i]) /\ events[i] \in Events
    BY <1>1, <1>2, <2>1, HookBeginShape DEF HookBegin, rows, remote
  <2>3. CASE company.sub = LastSub /\ \A j \in DOMAIN events : events[j].sub = LastSub
    BY <1>4, <1>6, <2>2, <2>3 DEF Follows
  <2>4. CASE \E j \in DOMAIN events : Announced(j)
    <3>1. PICK j \in DOMAIN events : Announced(j)
      BY <2>4
    <3>2. j = 1 => At("sync")'
      BY <2>2, <3>1, WorkIsTodo DEF Announced, At
    <3>3. Announced(j)' /\ j \in DOMAIN events'
      BY <1>4, <2>2, <3>1, <3>2 DEF Announced
    <3>4. QED BY <1>6, <3>3 DEF Follows
  <2>5. QED BY <1>1, <2>3, <2>4 DEF Follows
<1>8. CASE HookStep
  <2>1. hook # NoHook
    BY <1>8, HookGoesOn
  <2>2. hook.at = 1 /\ 1 \in DOMAIN events /\ hook.event = events[1]
    BY <1>1, <2>1, HookRow DEF InOrder
  <2>3. company'.sub = IF At("sync") THEN events[1].sub ELSE company.sub
    BY <1>8, <2>2, HookStepSub
  <2>4. events' = events
    BY <1>8 DEF HookStep, remote
  <2>5. CASE company.sub = LastSub /\ \A j \in DOMAIN events : events[j].sub = LastSub
    <3>1. company'.sub = LastSub
      BY <2>2, <2>3, <2>5
    <3>2. QED BY <1>4, <1>6, <2>4, <2>5, <3>1 DEF Follows
  <2>6. CASE \E i \in DOMAIN events : Announced(i)
    <3>1. PICK i \in DOMAIN events : Announced(i)
      BY <2>6
    <3>2. CASE i = 1
      <4>1. At("sync") /\ \A j \in DOMAIN events : events[j].sub = LastSub
        BY <1>2, <2>1, <3>1, <3>2 DEF Announced
      <4>2. QED BY <1>4, <1>6, <2>2, <2>3, <2>4, <4>1 DEF Follows
    <3>3. CASE i # 1
      <4>1. Announced(i)' /\ i \in DOMAIN events'
        BY <1>4, <2>4, <3>1, <3>3 DEF Announced
      <4>2. QED BY <1>6, <4>1 DEF Follows
    <3>4. QED BY <3>2, <3>3
  <2>7. QED BY <1>1, <2>5, <2>6 DEF Follows
<1>9. CASE HookEnd
  <2>1. hook # NoHook /\ hook.todo = <<>> /\ hook' = NoHook /\ company' = company
    BY <1>9 DEF HookEnd, rows
  <2>2. hook.at = 1 /\ 1 \in DOMAIN events
    BY <1>1, <2>1, HookRow DEF InOrder
  <2>3. events' = RemoveAt(events, 1)
    BY <1>1, <1>9, <2>2 DEF HookEnd
  <2>4. Drops(events', events, 1)
    BY <1>2, <2>2, <2>3, EventDropped
  <2>5. /\ DOMAIN events' = 1 .. Len(events) - 1
        /\ \A j \in 1 .. Len(events) - 1 : j + 1 \in DOMAIN events /\ events'[j] = events[j + 1]
    BY <1>2, <2>4 DEF Drops
  <2>6. CASE company.sub = LastSub /\ \A j \in DOMAIN events : events[j].sub = LastSub
    <3>1. \A j \in DOMAIN events' : events'[j].sub = LastSub'
      BY <1>4, <2>5, <2>6
    <3>2. QED BY <1>4, <1>6, <2>1, <2>6, <3>1 DEF Follows
  <2>7. CASE \E i \in DOMAIN events : Announced(i)
    <3>1. PICK i \in DOMAIN events : Announced(i)
      BY <2>7
    <3>2. i # 1
      BY <2>1, <3>1 DEF Announced, At
    <3>3. PICK j : j = i - 1
      OBVIOUS
    <3>4. j \in DOMAIN events' /\ j + 1 = i
      BY <1>2, <2>5, <3>1, <3>2, <3>3
    <3>5. events'[j].kind = "subscription"
      BY <2>5, <3>1, <3>4 DEF Announced
    <3>6. \A l \in DOMAIN events' : l >= j => events'[l].sub = LastSub'
      <4>1. TAKE l \in DOMAIN events'
      <4>2. HAVE l >= j
      <4>3. l + 1 >= i /\ l + 1 \in DOMAIN events /\ events'[l] = events[l + 1]
        BY <1>2, <2>5, <3>1, <3>4, <4>2
      <4>4. QED BY <1>4, <3>1, <4>3 DEF Announced
    <3>7. Announced(j)'
      BY <2>1, <3>5, <3>6 DEF Announced
    <3>8. QED BY <1>6, <3>4, <3>7 DEF Follows
  <2>8. QED BY <1>1, <2>6, <2>7 DEF Follows
<1>10. CASE HookDies
  BY <1>1, <1>10 DEF HookDies
<1>11. QED BY <1>7, <1>8, <1>9, <1>10

\* Every step keeps, undisturbed, that only the last subscription charges.
LEMMA NextSingle ==
  ASSUME Shapes, Alone, InOrder, Single, [SubscriptionNext]_subVars
  PROVE  Single'
<1>1. mode' = mode
  BY ModeKept
<1>2. SUFFICES ASSUME Calm
               PROVE  Single'
  BY <1>1 DEF Single, Calm
<1>3. /\ faults = 0 /\ Sole /\ Follows /\ (\A k \in Kinds : TaskFollows(k))
      /\ mode.serial /\ mode.prompt /\ ~mode.declines /\ ~mode.eager
  BY <1>2 DEF Single, Calm
<1>4. CASE UNCHANGED <<subs, events, faults, hook, tasks>> /\ company'.sub = company.sub
  <2>1. LastSub' = LastSub
    BY <1>4 DEF LastSub
  <2>2. Sole' /\ faults' = 0
    BY <1>3, <1>4, <2>1 DEF Sole
  <2>3. \A i \in DOMAIN events : Announced(i) => Announced(i)'
    BY <1>4, <2>1 DEF Announced, At
  <2>4. Follows'
    BY <1>3, <1>4, <2>1, <2>3 DEF Follows
  <2>5. \A k \in Kinds : TaskFollows(k)'
    BY <1>3, <1>4, <2>1 DEF TaskFollows, Step
  <2>6. QED BY <2>2, <2>4, <2>5 DEF Single
<1>5. CASE \/ UNCHANGED subVars \/ Tick \/ AttachCard \/ CreateCheckout \/ StartTrial
           \/ \E i \in DOMAIN trials : ExtendTrial(i)
  <2>1. UNCHANGED <<subs, events, faults, hook, tasks>>
    BY <1>5 DEF subVars, Tick, AttachCard, CreateCheckout, StartTrial, ExtendTrial, rows, remote
  <2>2. \/ company' = company
        \/ \E end : company' = [company EXCEPT !.status = "trialing", !.end = end]
    BY <1>5 DEF subVars, Tick, AttachCard, CreateCheckout, StartTrial, ExtendTrial, rows
  <2>3. company'.sub = company.sub
    BY <2>2 DEF Shapes, RowsShape, Companies
  <2>4. QED BY <1>4, <2>1, <2>3
<1>6. CASE Buy
  <2>1. /\ UNCHANGED <<company, hook, tasks, faults>> /\ LiveSubs = {}
        /\ \A k \in Kinds : tasks[k] = NoTask
    BY <1>3, <1>6 DEF Buy, rows, MayBuy, MayStart, MayHook, Quiet
  <2>2. PICK s : Moved(s)
    BY <1>6, CompleteMoves
  <2>3. Sole'
    BY <1>3, <2>1, <2>2, SoleMoved
  <2>4. Follows'
    <3>1. company'.sub = company.sub
      BY <2>1
    <3>2. QED BY <1>3, <2>1, <2>2, <3>1, FollowsMoved
  <2>5. \A k \in Kinds : Step(k)' = "none"
    <3>1. NoTask.todo = <<>>
      BY DEF NoTask
    <3>2. QED BY <2>1, <3>1 DEF Step
  <2>6. \A k \in Kinds : TaskFollows(k)'
    BY <2>5 DEF TaskFollows
  <2>7. QED BY <1>3, <2>1, <2>3, <2>4, <2>6 DEF Single
<1>7. CASE \E s \in DOMAIN subs : TrialEndsAtStripe(s) \/ Retries(s) \/ Ends(s)
  <2>1. UNCHANGED <<company, hook, tasks, faults>> /\ Len(subs') = Len(subs)
    <3>1. UNCHANGED <<company, hook, tasks, faults>>
      BY <1>7 DEF TrialEndsAtStripe, Retries, Ends, rows
    <3>2. \E s, status : subs' = [subs EXCEPT ![s].status = status]
      BY <1>7 DEF TrialEndsAtStripe, Retries, Ends, Pays, Declines
    <3>3. subs \in Seq(Subs) /\ subs' \in Seq(Subs)
      BY <1>7, StripeShapes DEF Shapes, StripeShape
    <3>4. DOMAIN subs' = DOMAIN subs
      BY <3>2
    <3>5. QED BY <3>1, <3>3, <3>4
  <2>2. PICK s : Moved(s)
    BY <1>7, StripeShapes
  <2>3. LastSub' = s /\ LastSub' = LastSub /\ ~(s > Len(subs))
    <3>1. LastSub' = s
      BY <1>3, <2>2, LastMoved
    <3>2. Len(subs) \in Nat
      BY DEF Shapes, StripeShape
    <3>3. QED BY <2>1, <3>1, <3>2 DEF LastSub
  <2>4. Sole'
    BY <1>3, <2>2, <2>3, SoleMoved
  <2>5. Follows'
    <3>1. company'.sub = company.sub
      BY <2>1
    <3>2. QED BY <1>3, <2>1, <2>2, <3>1, FollowsMoved
  <2>6. \A k \in Kinds : TaskFollows(k)'
    BY <1>3, <2>1, <2>3 DEF TaskFollows, Step
  <2>7. QED BY <1>3, <2>1, <2>4, <2>5, <2>6 DEF Single
<1>8. CASE RequestBegin \/ SweepBegin
  <2>1. MayStart /\ UNCHANGED <<mode, company, subs, events, hook, faults>>
    BY <1>8, BeginsRow
  <2>2. PICK k \in Kinds : \E t :
          /\ Then(k, t) /\ t.seen = company /\ t.orphan = FALSE
          /\ t.todo # <<>> /\ Head(t.todo) \in {"expire", "charge", "orphans"}
          /\ Head(t.todo) = "expire" => company.status = "trialing"
    BY <1>8, BeginsRow
  <2>3. PICK t :
          /\ Then(k, t) /\ t.seen = company /\ t.orphan = FALSE
          /\ t.todo # <<>> /\ Head(t.todo) \in {"expire", "charge", "orphans"}
          /\ Head(t.todo) = "expire" => company.status = "trialing"
    BY <2>2
  <2>4. events = <<>> /\ LastSub' = LastSub /\ company.sub = LastSub
    BY <1>3, <2>1, NothingWaits DEF MayStart, LastSub
  <2>5. Sole' /\ faults' = 0
    BY <1>3, <2>1, <2>4 DEF Sole
  <2>6. Follows'
    BY <2>1, <2>4 DEF Follows
  <2>7. Step(k)' = Head(t.todo) /\ tasks'[k] = t
    BY <2>3, ThenStep
  <2>8. TaskFollows(k)'
    BY <2>1, <2>3, <2>4, <2>7 DEF TaskFollows
  <2>9. \A j \in Kinds : j # k => tasks'[j] = tasks[j]
    BY <2>3 DEF Then, Shapes, TasksShape
  <2>10. \A j \in Kinds : j # k => TaskFollows(j)'
    BY <1>3, <2>1, <2>4, <2>9 DEF TaskFollows, Step
  <2>11. QED BY <2>5, <2>6, <2>8, <2>10 DEF Single
<1>9. ASSUME NEW k \in Kinds, TaskStep(k)
      PROVE  Single'
  BY <1>2, <1>9, SingleTask
<1>10. ASSUME NEW k \in Kinds, Dies(k)
       PROVE  Single'
  BY <1>3, <1>10 DEF Dies
<1>11. CASE (\E i \in DOMAIN events : HookBegin(i)) \/ HookStep \/ HookEnd \/ HookDies
  BY <1>2, <1>11, SingleHook
<1>12. QED BY <1>5, <1>6, <1>7, <1>8, <1>9, <1>10, <1>11 DEF SubscriptionNext


-----------------------------------------------------------------------------
(* In order and alone, the company ends up as its subscription is.         *)

\* What Stripe does is told last, and nothing is settled until that is handled.
LEMMA ConcludedMoved ==
  ASSUME Shapes, NEW s, Moved(s), UNCHANGED hook
  PROVE  Concluded'
<1>1. /\ Len(subs) \in Nat /\ s \in 1 .. Len(subs) + 1
      /\ Len(subs') = IF s <= Len(subs) THEN Len(subs) ELSE s
      /\ s = 1 => Tells(events[Len(events)])'
      /\ events \in Seq(Events) /\ events' \in Seq(Events) /\ Len(events) < Len(events')
  BY DEF Moved, SubsMoved, Shapes, StripeShape
<1>2. Orderly' => s = 1
  BY <1>1 DEF Orderly
<1>3. Len(events) \in Nat /\ Len(events') \in Nat /\ DOMAIN events = 1 .. Len(events)
  BY <1>1
<1>4. events' # <<>>
  BY <1>1, <1>3
<1>5. ~(Len(events') = 1 /\ hook' # NoHook)
  <2>1. Len(events') = 1 => DOMAIN events = {}
    BY <1>1, <1>3
  <2>2. hook # NoHook => hook.at \in DOMAIN events
    BY HookRow
  <2>3. QED BY <2>1, <2>2
<1>6. \A k \in Kinds : TaskAgrees(k)'
  BY <1>4 DEF TaskAgrees
<1>7. Orderly' => Tells(events[Len(events)])'
  BY <1>1, <1>2
<1>8. QED BY <1>4, <1>5, <1>6, <1>7 DEF Concluded

\* Nothing waits, no webhook runs, and the company is marked or left alone.
LEMMA ConcludedKept ==
  ASSUME Concluded, UNCHANGED <<mode, subs, events>>, hook' = NoHook \/ hook' = hook,
         Orderly => /\ hook' # NoHook => company' = company
                    /\ events = <<>> => (company'.status = "active" <=> ActiveSub)
                    /\ \A k \in Kinds : TaskAgrees(k)'
  PROVE  Concluded'
<1>1. Orderly' => Orderly
  BY DEF Orderly
<1>2. SUFFICES ASSUME Orderly
               PROVE  Concluded'
  BY <1>1 DEF Concluded
<1>3. ActiveSub' = ActiveSub
  BY DEF ActiveSub
<1>4. /\ events # <<>> => Tells(events[Len(events)])
      /\ Len(events) = 1 /\ hook # NoHook => Concludes
  BY <1>2 DEF Concluded
<1>5. events' # <<>> => Tells(events[Len(events)])'
  BY <1>4 DEF Tells
<1>6. events' = <<>> => Agrees(company)'
  BY <1>2, <1>3 DEF Agrees
<1>7. Len(events') = 1 /\ hook' # NoHook => Concludes'
  BY <1>2, <1>3, <1>4 DEF Concludes, Agrees, At
<1>8. \A k \in Kinds : TaskAgrees(k)'
  BY <1>2
<1>9. QED BY <1>5, <1>6, <1>7, <1>8 DEF Concluded

\* A step of a request or of the sweep leaves the company as its subscription is.
LEMMA ConcludedTask ==
  ASSUME Shapes, Alone, Concluded, NEW k \in Kinds, TaskStep(k)
  PROVE  Concluded'
<1>1. /\ Step(k) # "none" /\ Busy(k) /\ UNCHANGED <<mode, hook>>
      /\ \A j \in Kinds : j # k => tasks'[j] = tasks[j]
  BY TaskStepping
<1>2. CASE \E s : Moved(s)
  BY <1>1, <1>2, ConcludedMoved
<1>3. TaskRow(k, tasks[k], Len(subs)) /\ Step(k) = Head(tasks[k].todo)
  BY <1>1, BusyRow DEF Shapes
<1>4. company \in Companies /\ tasks[k].todo \in TaskTodos(k)
  BY <1>3 DEF Shapes, RowsShape, TaskRow
<1>5. Orderly => /\ hook = NoHook
                 /\ \A j \in Kinds : j # k => tasks'[j] = NoTask
                 /\ events = <<>> => (company.status = "active" <=> ActiveSub)
                 /\ TaskAgrees(k)
  BY <1>1 DEF Orderly, Alone, Busy, Concluded, Agrees
<1>6. Orderly /\ events = <<>> =>
        /\ tasks[k].seen.status = "active" <=> ActiveSub
        /\ Step(k) # "sync"
        /\ Step(k) \in {"expire", "create"} \/ tasks[k].orphan => tasks[k].seen.status # "active"
  BY <1>1, <1>5 DEF TaskAgrees, Agrees
<1>7. ASSUME UNCHANGED <<subs, events>>, NEW t, Then(k, t),
             Orderly /\ events = <<>> =>
               /\ company'.status = "active" <=> ActiveSub
               /\ t.todo # <<>> =>
                    /\ t.seen.status = "active" <=> ActiveSub
                    /\ Head(t.todo) # "sync"
                    /\ Head(t.todo) \in {"expire", "create"} \/ t.orphan => t.seen.status # "active"
      PROVE  Concluded'
  <2>1. /\ Step(k)' = IF t.todo = <<>> THEN "none" ELSE Head(t.todo)
        /\ tasks'[k] = IF t.todo = <<>> THEN NoTask ELSE t
    BY <1>7, ThenStep
  <2>2. ActiveSub' = ActiveSub
    BY <1>7 DEF ActiveSub
  <2>3. Orderly => TaskAgrees(k)'
    BY <1>7, <2>1, <2>2 DEF TaskAgrees, Agrees, Busy
  <2>4. Orderly => \A j \in Kinds : TaskAgrees(j)'
    BY <1>5, <2>3 DEF TaskAgrees, Busy
  <2>5. Orderly => hook' = NoHook
    BY <1>1, <1>5
  <2>6. QED BY <1>1, <1>7, <2>4, <2>5, ConcludedKept
<1>8. PICK r : r = Rest(k)
  OBVIOUS
<1>9. /\ r = [f \in TaskFields |-> r[f]]
      /\ r.todo = Tail(tasks[k].todo) /\ r.seen = tasks[k].seen /\ r.orphan = tasks[k].orphan
      /\ r.todo # <<>> => Head(r.todo) \in {"charge", "orphans", "final"}
  BY <1>3, <1>8, RestRow
<1>10. CASE k = "request" /\ Expire
  <2>1. PICK t : t = [r EXCEPT !.seen = company']
    OBVIOUS
  <2>2. /\ Step(k) = "expire" /\ UNCHANGED <<subs, events>> /\ Then(k, t)
        /\ company' = [company EXCEPT !.status = "trial_expired"]
    BY <1>8, <1>10, <2>1 DEF Expire, remote
  <2>3. company'.status = "trial_expired"
    BY <1>4, <2>2 DEF Companies
  <2>4. t.todo = r.todo /\ t.seen = company' /\ t.orphan = r.orphan
    BY <1>9, <2>1 DEF TaskFields
  <2>5. QED BY <1>6, <1>7, <1>9, <2>2, <2>3, <2>4
<1>11. CASE UNCHANGED <<company, subs, events>> /\ Then(k, r)
  BY <1>5, <1>6, <1>7, <1>9, <1>11
<1>12. CASE RetrieveFails(k)
  <2>1. PICK t : t = [tasks[k] EXCEPT !.todo = <<"create">> \o Tail(@)]
    OBVIOUS
  <2>2. /\ UNCHANGED <<company, subs, events>> /\ Then(k, t) /\ Step(k) = "charge"
        /\ tasks[k].seen.status # "active"
    BY <1>12, <2>1 DEF RetrieveFails, rows, remote
  <2>3. t.seen = tasks[k].seen /\ t.orphan = tasks[k].orphan /\ Head(t.todo) = "create"
    <3>1. Len(subs) \in Nat /\ Len(subs) <= Len(subs) /\ Head(tasks[k].todo) \in Charging
      BY <1>3, <2>2 DEF Shapes, StripeShape, Charging
    <3>2. QED BY <1>3, <2>1, <3>1, CreateRow
  <2>4. QED BY <1>5, <1>6, <1>7, <2>2, <2>3
<1>13. CASE ChargeNew(k) /\ ~\E s : Moved(s)
  <2>1. \/ UNCHANGED <<company, subs, events>> /\ Then(k, r)
        \/ /\ UNCHANGED <<subs, events>> /\ Then(k, Reloaded(k))
           /\ company' = [company EXCEPT !.status = "past_due"]
    BY <1>8, <1>13, CreatesMoves DEF ChargeNew
  <2>2. CASE /\ UNCHANGED <<subs, events>> /\ Then(k, Reloaded(k))
             /\ company' = [company EXCEPT !.status = "past_due"]
    <3>1. PICK c : c = Reloaded(k)
      OBVIOUS
    <3>2. /\ c.todo = Tail(tasks[k].todo) /\ c.seen = tasks[k].seen /\ c.orphan = FALSE
          /\ c.todo # <<>> => Head(c.todo) \in {"charge", "orphans", "final"}
      BY <1>3, <3>1, CommittedRow
    <3>3. Step(k) = "create" \/ tasks[k].seen.status # "active"
      BY <1>13 DEF ChargeNew, NothingToCharge
    <3>4. company'.status = "past_due"
      BY <1>4, <2>2 DEF Companies
    <3>5. Then(k, c)
      BY <2>2, <3>1
    <3>6. QED BY <1>6, <1>7, <2>2, <3>2, <3>3, <3>4, <3>5
  <2>3. QED BY <1>11, <2>1, <2>2
<1>14. CASE SyncStep(k)
  <2>1. Step(k) = "sync" /\ UNCHANGED <<subs, events>> /\ Then(k, Reloaded(k))
    BY <1>14 DEF SyncStep, remote
  <2>2. QED BY <1>6, <1>7, <2>1
<1>15. CASE k = "sweep" /\ Orphans
  <2>1. PICK due \in BOOLEAN : due = (company.status = "trialing" /\ Due(company.end))
    OBVIOUS
  <2>2. PICK t : t = [tasks[k] EXCEPT !.todo = IF due THEN <<"charge", "final">> ELSE <<"final">>,
                                      !.seen = company, !.orphan = due]
    OBVIOUS
  <2>3. UNCHANGED <<company, subs, events>> /\ Then(k, t)
    BY <1>15, <2>1, <2>2 DEF Orphans, rows, remote
  <2>4. tasks[k] = [f \in TaskFields |-> tasks[k][f]]
    BY <1>3 DEF TaskRow
  <2>5. /\ t.seen = company /\ t.orphan = due
        /\ t.todo = IF due THEN <<"charge", "final">> ELSE <<"final">>
    BY <2>2, <2>4 DEF TaskFields
  <2>6. Head(t.todo) \in {"charge", "final"}
    BY <2>5
  <2>7. QED BY <1>5, <1>7, <2>1, <2>3, <2>5, <2>6
<1>16. CASE k = "sweep" /\ Final
  <2>1. /\ UNCHANGED <<subs, events>> /\ Then(k, r) /\ Step(k) = "final"
        /\ company' = IF tasks[k].orphan THEN [company EXCEPT !.status = "trial_expired"]
                      ELSE company
    BY <1>8, <1>16 DEF Final, remote
  <2>2. r.todo = <<>>
    BY <1>3, <1>4, <1>9, <2>1, TaskTodoSteps
  <2>3. tasks[k].orphan => company'.status = "trial_expired"
    BY <1>4, <2>1 DEF Companies
  <2>4. ~tasks[k].orphan => company' = company
    BY <2>1
  <2>5. QED BY <1>5, <1>6, <1>7, <2>1, <2>2, <2>3, <2>4
<1>17. ChargeNothing(k) => UNCHANGED <<company, subs, events>> /\ Then(k, r)
  BY <1>8 DEF ChargeNothing, rows, remote
<1>18. ChargeTrial(k) => \E s : Moved(s)
  BY ChargeTrialShape
<1>19. QED BY <1>2, <1>10, <1>11, <1>12, <1>13, <1>14, <1>15, <1>16, <1>17, <1>18 DEF TaskStep

\* The last event's handler begins with what it tells.
LEMMA ConcludedBegin ==
  ASSUME Shapes, Concluded, NEW i \in DOMAIN events, HookBegin(i)
  PROVE  Concluded'
<1>1. /\ UNCHANGED <<mode, company, subs, events, tasks>>
      /\ hook'.at = i /\ hook'.event = events[i] /\ hook'.todo = Work(events[i])
      /\ hook'.status = IF events[i].kind = "subscription" THEN events[i].status
                        ELSE subs[events[i].sub].status
  <2>1. UNCHANGED <<mode, company, subs, events, tasks>>
    BY DEF HookBegin, rows, remote
  <2>2. QED BY <2>1, HookBeginShape
<1>2. SUFFICES ASSUME Orderly
               PROVE  Concluded'
  BY <1>1 DEF Concluded, Orderly
<1>3. /\ events # <<>> => Tells(events[Len(events)])
      /\ events = <<>> => Agrees(company)
      /\ \A k \in Kinds : TaskAgrees(k)
  BY <1>2 DEF Concluded
<1>4. /\ events' # <<>> => Tells(events[Len(events)])'
      /\ events' = <<>> => Agrees(company)'
  BY <1>1, <1>3 DEF Tells, Agrees, ActiveSub
<1>5. \A k \in Kinds : TaskAgrees(k)'
  BY <1>1, <1>3 DEF TaskAgrees, Agrees, ActiveSub, Busy, Step
<1>6. ASSUME Len(events) = 1
      PROVE  Concludes'
  <2>1. /\ events \in Seq(Events) /\ i = 1 /\ events[1] \in Events /\ events[1].sub \in DOMAIN subs
        /\ DOMAIN subs = 1 .. Len(subs) /\ Len(subs) \in Nat
    <3>1. /\ events \in Seq(Events) /\ DOMAIN subs = 1 .. Len(subs) /\ Len(subs) \in Nat
          /\ \A j \in DOMAIN events : events[j].sub \in DOMAIN subs
      BY DEF Shapes, StripeShape
    <3>2. i = 1
      BY <1>6, <3>1
    <3>3. events[1] \in Events /\ events[1].sub \in DOMAIN subs
      BY <3>1, <3>2
    <3>4. QED BY <3>1, <3>2, <3>3
  <2>2. PICK e : e = events[1]
    OBVIOUS
  <2>3. events # <<>>
    BY <1>6
  <2>4. Tells(e) /\ e.sub = 1 /\ e \in Events
    BY <1>2, <1>3, <1>6, <2>1, <2>2, <2>3 DEF Orderly
  <2>5. hook'.event = e /\ hook'.todo = Work(e) /\ hook'.status = subs[1].status
    BY <1>1, <2>1, <2>2, <2>4 DEF Tells
  <2>6. At("sync")' \/ At("failed")' \/ At("deleted")'
    <3>1. CASE e.kind = "invoice"
      <4>1. Head(Work(e)) = "sync" /\ Work(e) \in HookTodos(e)
        BY <2>4, <3>1, WorkIsTodo
      <4>2. Work(e) # <<>>
        <5>1. \A t \in Billing : t # <<>>
          BY BillingSteps
        <5>2. (e.inv = 0 /\ subs[e.sub].status = "trialing") \/ Work(e) \in Billing
          <6>1. CASE e.inv # 0
            BY <2>4, <3>1, <6>1, WorkIsTodo
          <6>2. CASE e.inv = 0
            BY <2>4, <3>1, <6>2 DEF Tells
          <6>3. QED BY <6>1, <6>2
        <5>3. e.inv = 0 /\ subs[e.sub].status = "trialing" => Work(e) = <<"sync">>
          BY <3>1 DEF Work
        <5>4. <<"sync">> # <<>>
          OBVIOUS
        <5>5. QED BY <5>1, <5>2, <5>3, <5>4
      <4>3. QED BY <2>5, <4>1, <4>2 DEF At
    <3>2. CASE e.kind = "failed"
      <4>1. Work(e) = <<"failed">>
        BY <3>2 DEF Work
      <4>2. QED BY <2>5, <4>1 DEF At
    <3>3. CASE e.kind = "deleted"
      <4>1. Work(e) = <<"deleted">>
        BY <3>3 DEF Work
      <4>2. QED BY <2>5, <4>1 DEF At
    <3>4. QED BY <2>4, <3>1, <3>2, <3>3 DEF Tells
  <2>7. e.kind = "invoice" /\ e.inv = 0 => Work(e) \notin Billing
    BY <2>4, WorkIsTodo DEF Tells
  <2>8. QED BY <1>1, <2>5, <2>6, <2>7 DEF Concludes
<1>7. QED BY <1>1, <1>4, <1>5, <1>6 DEF Concluded

\* Its commits leave what it tells.
LEMMA ConcludesStep ==
  ASSUME Shapes, HookStep, Concludes, Tells(hook.event), hook.event.sub = 1
  PROVE  Concludes'
<1> DEFINE e == hook.event
<1>1. /\ hook # NoHook /\ hook.todo # <<>>
      /\ hook'.event = hook.event /\ hook'.status = hook.status /\ hook'.todo = Tail(hook.todo)
  BY HookGoesOn
<1>2. e \in Events /\ hook.todo \in HookTodos(e) /\ e.sub \in DOMAIN subs
  BY <1>1, HookRow
<1>3. UNCHANGED subs
  BY DEF HookStep, remote
<1>4. /\ hook.status = subs[1].status
      /\ At("sync") \/ At("failed") \/ At("deleted") \/ Agrees(company)
      /\ e.kind = "invoice" /\ e.inv = 0 => hook.todo \notin Billing
  BY DEF Concludes
<1>5. company \in Companies
  BY DEF Shapes, RowsShape
<1>6. subs # <<>>
  BY <1>2
<1>7. e.kind = "invoice" /\ e.inv = 0 => hook'.todo \notin Billing
  <2>1. \A t \in Billing : t # <<>>
    BY BillingSteps
  <2>2. e.kind = "invoice" /\ e.inv = 0 => Tail(hook.todo) = <<>>
    BY <1>1, <1>2, <1>4, HookHeads
  <2>3. QED BY <1>1, <2>1, <2>2
<1>8. company'.status = "active" <=> ActiveSub
  <2>1. CASE e.kind = "invoice"
    <3>1. subs[1].status = IF e.inv = 0 THEN "trialing" ELSE "active"
      BY <2>1 DEF Tells
    <3>2. CASE HookSync
      <4>1. company'.status = hook.status
        BY <1>4, <3>1, <3>2 DEF HookSync, Synced
      <4>2. QED BY <1>4, <1>6, <3>1, <4>1 DEF ActiveSub
    <3>3. CASE ~HookSync
      <4>1. ~At("sync")
        BY <3>3 DEF HookStep, HookSync, HookSettle, HookActive, HookReceipt, HookBill, HookFailed,
           HookDeleted, At
      <4>2. e.inv # 0 /\ Head(hook.todo) \in {"active", "receipt", "bill"}
        BY <1>1, <1>2, <1>4, <2>1, <4>1, HookHeads DEF At
      <4>3. Agrees(company)
        BY <1>4, <4>2 DEF At
      <4>4. company.status = "active" /\ ActiveSub
        BY <1>6, <3>1, <4>2, <4>3 DEF Agrees, ActiveSub
      <4>5. HookActive \/ HookReceipt \/ HookBill
        BY <4>2 DEF HookStep, HookSync, HookSettle, HookActive, HookReceipt, HookBill, HookFailed,
           HookDeleted, At
      <4>6. company'.status = "active"
        <5>1. \/ company' = company
              \/ company' = [company EXCEPT !.status = "active"]
              \/ company' = [company EXCEPT !.status = "active", !.end = Far]
          BY <4>5 DEF HookActive, HookReceipt, HookBill
        <5>2. QED BY <1>5, <4>4, <5>1 DEF Companies
      <4>7. QED BY <4>4, <4>6
    <3>4. QED BY <3>2, <3>3
  <2>2. CASE e.kind = "failed"
    <3>1. Head(hook.todo) = "failed" /\ subs[1].status = "past_due"
      BY <1>1, <1>2, <2>2, HookHeads DEF Tells
    <3>2. HookFailed
      BY <3>1 DEF HookStep, HookSync, HookSettle, HookActive, HookReceipt, HookBill, HookFailed,
         HookDeleted, At
    <3>3. company'.status \in {"past_due", "locked"}
      BY <1>5, <3>2 DEF HookFailed, Companies
    <3>4. QED BY <3>1, <3>3 DEF ActiveSub
  <2>3. CASE e.kind = "deleted"
    <3>1. Head(hook.todo) = "deleted" /\ subs[1].status = "canceled"
      BY <1>1, <1>2, <2>3, HookHeads DEF Tells
    <3>2. HookDeleted
      BY <3>1 DEF HookStep, HookSync, HookSettle, HookActive, HookReceipt, HookBill, HookFailed,
         HookDeleted, At
    <3>3. company'.status = "cancelled"
      BY <1>5, <3>2 DEF HookDeleted, Companies
    <3>4. QED BY <3>1, <3>3 DEF ActiveSub
  <2>4. QED BY <2>1, <2>2, <2>3 DEF Tells
<1>9. Agrees(company)'
  BY <1>3, <1>8 DEF Agrees, ActiveSub
<1>10. QED BY <1>1, <1>3, <1>4, <1>7, <1>9 DEF Concludes

\* A step of the webhook brings it there.
LEMMA ConcludedHook ==
  ASSUME Shapes, Alone, InOrder, Concluded, HookStep \/ HookEnd
  PROVE  Concluded'
<1>1. hook # NoHook
  BY HookGoesOn DEF HookEnd
<1>2. UNCHANGED <<mode, subs, tasks>>
  BY DEF HookStep, HookEnd, remote
<1>3. SUFFICES ASSUME Orderly
               PROVE  Concluded'
  BY <1>2 DEF Concluded, Orderly
<1>4. /\ events # <<>> => Tells(events[Len(events)])
      /\ Len(events) = 1 => Concludes
  BY <1>1, <1>3 DEF Concluded
<1>5. \A k \in Kinds : TaskAgrees(k)'
  BY <1>1, <1>2, <1>3 DEF Orderly, Alone, Busy, TaskAgrees
<1>6. /\ events \in Seq(Events) /\ Len(events) \in Nat /\ DOMAIN events = 1 .. Len(events)
      /\ DOMAIN subs = 1 .. Len(subs) /\ Len(subs) \in Nat
  BY DEF Shapes, StripeShape
<1>7. hook.at = 1 /\ 1 \in DOMAIN events /\ hook.event = events[1] /\ hook.event.sub = 1
  BY <1>1, <1>3, <1>6, HookRow DEF InOrder, Orderly
<1>8. events # <<>>
  BY <1>7
<1>9. CASE HookStep
  <2>1. events' = events
    BY <1>9 DEF HookStep, remote
  <2>2. events' # <<>> => Tells(events[Len(events)])'
    BY <1>2, <1>4, <2>1 DEF Tells
  <2>3. Len(events) = 1 => Concludes'
    BY <1>4, <1>7, <1>8, <1>9, ConcludesStep
  <2>4. QED BY <1>5, <1>8, <2>1, <2>2, <2>3 DEF Concluded
<1>10. CASE HookEnd
  <2>1. hook' = NoHook /\ hook.todo = <<>> /\ company' = company
    BY <1>10 DEF HookEnd, rows
  <2>2. CASE events' = events
    <3>1. events' # <<>> => Tells(events[Len(events)])'
      BY <1>2, <1>4, <2>2 DEF Tells
    <3>2. QED BY <1>5, <1>8, <2>1, <2>2, <3>1 DEF Concluded
  <2>3. CASE events' = RemoveAt(events, 1)
    <3>1. Drops(events', events, 1)
      BY <1>6, <1>7, <2>3, EventDropped
    <3>2. events' \in Seq(Events) /\ Len(events') = Len(events) - 1
      BY <3>1 DEF Drops
    <3>3. events' # <<>> => Tells(events[Len(events)])'
      <4>1. HAVE events' # <<>>
      <4>2. Len(events') \in 1 .. Len(events) - 1 /\ Len(events') + 1 = Len(events)
        BY <1>6, <3>2, <4>1
      <4>3. events'[Len(events')] = events[Len(events)]
        <5>1. PICK n : n = Len(events')
          OBVIOUS
        <5>2. events'[n] = events[n + 1]
          BY <1>6, <3>1, <4>2, <5>1 DEF Drops
        <5>3. QED BY <4>2, <5>1, <5>2
      <4>4. QED BY <1>2, <1>4, <1>8, <4>3 DEF Tells
    <3>4. events' = <<>> => Agrees(company)'
      <4>1. Len(events') # 0 => events' # <<>>
        OBVIOUS
      <4>2. Len(events) # 1 => Len(events') # 0
        BY <1>6, <3>2
      <4>3. Len(events) = 1 => Agrees(company)
        BY <1>4, <2>1 DEF Concludes, At
      <4>4. QED BY <1>2, <2>1, <4>1, <4>2, <4>3 DEF Agrees, ActiveSub
    <3>5. QED BY <1>5, <2>1, <3>3, <3>4 DEF Concluded
  <2>4. QED BY <1>7, <1>10, <2>2, <2>3 DEF HookEnd
<1>11. QED BY <1>9, <1>10

\* Every step keeps what the last event, the company and a task agree on.
LEMMA NextConcluded ==
  ASSUME Shapes, Alone, InOrder, Concluded, [SubscriptionNext]_subVars
  PROVE  Concluded'
<1>1. CASE UNCHANGED <<mode, subs, events, hook, tasks, company>>
  BY <1>1 DEF Concluded, Orderly, Tells, Agrees, ActiveSub, Concludes, At, TaskAgrees, Busy, Step
<1>2. CASE UNCHANGED subVars \/ Tick \/ AttachCard \/ CreateCheckout
  BY <1>1, <1>2 DEF subVars, Tick, AttachCard, CreateCheckout, rows, remote
<1>3. CASE StartTrial
  <2>1. UNCHANGED <<mode, subs, events, hook, tasks>> /\ company.status # "active" /\ MayStart
    BY <1>3 DEF StartTrial, remote
  <2>2. company'.status = "trialing"
    BY <1>3 DEF StartTrial, Shapes, RowsShape, Companies
  <2>3. Orderly => hook' = NoHook /\ \A k \in Kinds : tasks'[k] = NoTask
    BY <2>1 DEF Orderly, MayStart, MayHook, Quiet
  <2>4. Orderly => \A k \in Kinds : TaskAgrees(k)'
    BY <2>3 DEF TaskAgrees, Busy
  <2>5. Orderly /\ events = <<>> => (company'.status = "active" <=> ActiveSub)
    BY <2>1, <2>2 DEF Concluded, Agrees
  <2>6. QED BY <2>1, <2>3, <2>4, <2>5, ConcludedKept
<1>4. CASE \E i \in DOMAIN trials : ExtendTrial(i)
  <2>1. mode.extends /\ mode' = mode
    BY <1>4 DEF ExtendTrial
  <2>2. QED BY <2>1 DEF Concluded, Orderly
<1>5. CASE Buy \/ \E s \in DOMAIN subs : TrialEndsAtStripe(s) \/ Retries(s) \/ Ends(s)
  <2>1. UNCHANGED hook
    BY <1>5 DEF Buy, TrialEndsAtStripe, Retries, Ends
  <2>2. PICK s : Moved(s)
    BY <1>5, StripeShapes
  <2>3. QED BY <2>1, <2>2, ConcludedMoved
<1>6. CASE RequestBegin \/ SweepBegin
  <2>1. MayStart /\ UNCHANGED <<mode, company, subs, events, hook, faults>>
    BY <1>6, BeginsRow
  <2>2. PICK k \in Kinds : \E t :
          /\ Then(k, t) /\ t.seen = company /\ t.orphan = FALSE
          /\ t.todo # <<>> /\ Head(t.todo) \in {"expire", "charge", "orphans"}
          /\ Head(t.todo) = "expire" => company.status = "trialing"
    BY <1>6, BeginsRow
  <2>3. PICK t :
          /\ Then(k, t) /\ t.seen = company /\ t.orphan = FALSE
          /\ t.todo # <<>> /\ Head(t.todo) \in {"expire", "charge", "orphans"}
          /\ Head(t.todo) = "expire" => company.status = "trialing"
    BY <2>2
  <2>4. Orderly => events = <<>> /\ hook = NoHook /\ \A j \in Kinds : tasks[j] = NoTask
    BY <2>1 DEF Orderly, MayStart, MayHook, Quiet
  <2>5. Orderly => (company.status = "active" <=> ActiveSub)
    BY <2>4 DEF Concluded, Agrees
  <2>6. Step(k)' = Head(t.todo) /\ tasks'[k] = t
    BY <2>3, ThenStep
  <2>7. \A j \in Kinds : j # k => tasks'[j] = tasks[j]
    BY <2>3 DEF Then, Shapes, TasksShape
  <2>8. Orderly => TaskAgrees(k)'
    BY <2>1, <2>3, <2>5, <2>6 DEF TaskAgrees, Agrees, ActiveSub
  <2>9. Orderly => \A j \in Kinds : j # k => TaskAgrees(j)'
    BY <2>4, <2>7 DEF TaskAgrees, Busy
  <2>10. QED BY <2>1, <2>4, <2>5, <2>8, <2>9, ConcludedKept
<1>7. ASSUME NEW k \in Kinds, TaskStep(k)
      PROVE  Concluded'
  BY <1>7, ConcludedTask
<1>8. ASSUME NEW k \in Kinds, Dies(k)
      PROVE  Concluded'
  <2>1. UNCHANGED <<mode, subs, events, hook, company>>
    BY <1>8 DEF Dies, rows, remote
  <2>2. tasks'[k] = NoTask /\ \A j \in Kinds : j # k => tasks'[j] = tasks[j]
    BY <1>8 DEF Dies, Shapes, TasksShape
  <2>3. Orderly => \A j \in Kinds : TaskAgrees(j)'
    BY <2>1, <2>2 DEF Concluded, TaskAgrees, Busy, Step, Agrees, ActiveSub
  <2>4. Orderly /\ events = <<>> => (company'.status = "active" <=> ActiveSub)
    BY <2>1 DEF Concluded, Agrees
  <2>5. QED BY <2>1, <2>3, <2>4, ConcludedKept
<1>9. ASSUME NEW i \in DOMAIN events, HookBegin(i)
      PROVE  Concluded'
  BY <1>9, ConcludedBegin
<1>10. CASE HookStep \/ HookEnd
  BY <1>10, ConcludedHook
<1>11. CASE HookDies
  <2>1. UNCHANGED <<mode, subs, events, tasks, company>> /\ hook' = NoHook
    BY <1>11 DEF HookDies, rows, remote
  <2>2. Orderly => \A j \in Kinds : TaskAgrees(j)'
    BY <2>1 DEF Concluded, TaskAgrees, Busy, Step, Agrees, ActiveSub
  <2>3. Orderly /\ events = <<>> => (company'.status = "active" <=> ActiveSub)
    BY <2>1 DEF Concluded, Agrees
  <2>4. QED BY <2>1, <2>2, <2>3, ConcludedKept
<1>12. QED BY <1>2, <1>3, <1>4, <1>5, <1>6, <1>7, <1>8, <1>9, <1>10, <1>11 DEF SubscriptionNext


-----------------------------------------------------------------------------
(* Time is within its bound, and so are the ends of trials.                *)

\* Within a unit of the clock's bound.
Bounded(n) == n \in 0 .. mode.last + 1

\* So are the clock, the ends of trials at Stripe and the company's, unless paid.
Timed ==
  /\ mode.last \in Nat /\ now <= mode.last
  /\ \A s \in DOMAIN subs : Bounded(subs[s].trialEnd)
  /\ Bounded(company.end) \/ company.end = Far

\* Stripe changes no trial's end, and a new one ends within the bound.
LEMMA TimedSubs ==
  ASSUME Shapes, Timed, SubscriptionNext
  PROVE  \A s \in DOMAIN subs' : subs'[s].trialEnd \in 0 .. mode.last + 1
<1>1. subs \in Seq(Subs) /\ now \in Nat /\ mode.last \in Nat /\ now <= mode.last
  BY DEF Timed, Shapes, StripeShape, RowsShape
<1>2. \A s \in DOMAIN subs : subs[s] \in Subs /\ subs[s].trialEnd \in 0 .. mode.last + 1
  BY <1>1 DEF Timed, Bounded
<1>3. CASE subs' = subs
  BY <1>2, <1>3
<1>4. ASSUME NEW s, NEW status, subs' = [subs EXCEPT ![s].status = status]
      PROVE  \A j \in DOMAIN subs' : subs'[j].trialEnd \in 0 .. mode.last + 1
  <2>1. DOMAIN subs' = DOMAIN subs
    BY <1>4
  <2>2. \A j \in DOMAIN subs : subs'[j].trialEnd = subs[j].trialEnd
    <3>1. TAKE j \in DOMAIN subs
    <3>2. subs'[j] = subs[j] \/ subs'[j] = [subs[j] EXCEPT !.status = status]
      BY <1>1, <1>4
    <3>3. QED BY <1>2, <3>2 DEF Subs
  <2>3. QED BY <1>2, <2>1, <2>2
<1>5. ASSUME NEW r, r.trialEnd \in 0 .. mode.last + 1, subs' = Append(subs, r)
      PROVE  \A j \in DOMAIN subs' : subs'[j].trialEnd \in 0 .. mode.last + 1
  <2>1. /\ DOMAIN subs' = 1 .. Len(subs) + 1 /\ Len(subs) \in Nat /\ DOMAIN subs = 1 .. Len(subs)
        /\ subs'[Len(subs) + 1] = r /\ \A j \in 1 .. Len(subs) : subs'[j] = subs[j]
    BY <1>1, <1>5
  <2>2. QED BY <1>2, <1>5, <2>1
<1>6. Creates => \E r : r.trialEnd \in 0 .. mode.last + 1 /\ subs' = Append(subs, r)
  <2>1. PICK r : r = [status |-> "active", trialEnd |-> now, ref |-> FALSE]
    OBVIOUS
  <2>2. r.trialEnd \in 0 .. mode.last + 1
    BY <1>1, <2>1
  <2>3. Creates => subs' = Append(subs, r)
    BY <2>1 DEF Creates
  <2>4. QED BY <2>2, <2>3
<1>7. CASE Buy
  <2>1. PICK r : /\ subs' = Append(subs, r)
                 /\ r = [status |-> IF checkout = "trial" THEN "trialing" ELSE "active",
                         trialEnd |-> now + 1, ref |-> TRUE]
    BY <1>7 DEF Buy
  <2>2. r.trialEnd \in 0 .. mode.last + 1
    BY <1>1, <2>1
  <2>3. QED BY <1>5, <2>1, <2>2
<1>8. CASE \E s \in DOMAIN subs : TrialEndsAtStripe(s) \/ Retries(s) \/ Ends(s)
  <2>1. \E s, status : subs' = [subs EXCEPT ![s].status = status]
    BY <1>8 DEF TrialEndsAtStripe, Retries, Ends, Pays, Declines
  <2>2. QED BY <1>4, <2>1
<1>9. ASSUME NEW k \in Kinds, TaskStep(k)
      PROVE  \A j \in DOMAIN subs' : subs'[j].trialEnd \in 0 .. mode.last + 1
  <2>1. CASE ChargeTrial(k)
    <3>1. \E s, status : subs' = [subs EXCEPT ![s].status = status]
      BY <2>1 DEF ChargeTrial, Pays, Declines
    <3>2. QED BY <1>4, <3>1
  <2>2. CASE ChargeNew(k)
    <3>1. Creates \/ subs' = subs
      BY <2>2 DEF ChargeNew
    <3>2. QED BY <1>3, <1>5, <1>6, <3>1
  <2>3. CASE ~ChargeTrial(k) /\ ~ChargeNew(k)
    <3>1. subs' = subs
      BY <1>9, <2>3 DEF TaskStep, Expire, ChargeNothing, RetrieveFails, SyncStep, Orphans, Final,
         remote
    <3>2. QED BY <1>3, <3>1
  <2>4. QED BY <2>1, <2>2, <2>3
<1>10. CASE \/ Tick \/ AttachCard \/ CreateCheckout \/ StartTrial \/ RequestBegin \/ SweepBegin
            \/ \E i \in DOMAIN trials : ExtendTrial(i)
            \/ \E k \in Kinds : Dies(k)
            \/ \E i \in DOMAIN events : HookBegin(i)
            \/ HookStep \/ HookEnd \/ HookDies
  <2>1. subs' = subs
    BY <1>10 DEF Tick, AttachCard, CreateCheckout, StartTrial, RequestBegin, SweepBegin,
       ExtendTrial, Dies, HookBegin, HookStep, HookEnd, HookDies, remote
  <2>2. QED BY <1>3, <2>1
<1>11. QED BY <1>7, <1>8, <1>9, <1>10 DEF SubscriptionNext

\* The company's end stays, or is that of a trial or of a paid period.
LEMMA TimedCompany ==
  ASSUME Shapes, Timed, SubscriptionNext
  PROVE  company'.end \in 0 .. mode.last + 1 \/ company'.end = Far
<1>1. company \in Companies /\ now \in Nat /\ mode.last \in Nat /\ now <= mode.last
  BY DEF Timed, Shapes, StripeShape, RowsShape
<1>2. company.end \in 0 .. mode.last + 1 \/ company.end = Far
  BY DEF Timed, Bounded
<1>3. ASSUME company' = company \/ \E status : company' = [company EXCEPT !.status = status]
      PROVE  company'.end \in 0 .. mode.last + 1 \/ company'.end = Far
  <2>1. company'.end = company.end
    BY <1>1, <1>3 DEF Companies
  <2>2. QED BY <1>2, <2>1
<1>4. ASSUME NEW s \in DOMAIN subs, NEW status, NEW t, Synced(s, status, t)
      PROVE  company'.end \in 0 .. mode.last + 1 \/ company'.end = Far
  <2>1. company'.end = subs[s].trialEnd \/ company'.end = Far
    BY <1>4 DEF Synced
  <2>2. QED BY <1>4, <2>1 DEF Timed, Bounded
<1>5. ASSUME NEW status, NEW end, company' = [company EXCEPT !.status = status, !.end = end],
             end \in 0 .. mode.last + 1 \/ end = Far
      PROVE  company'.end \in 0 .. mode.last + 1 \/ company'.end = Far
  <2>1. company'.end = end
    BY <1>1, <1>5 DEF Companies
  <2>2. QED BY <1>5, <2>1
<1>6. CASE StartTrial
  <2>1. /\ company' = [company EXCEPT !.status = "trialing", !.end = now + 1]
        /\ now + 1 \in 0 .. mode.last + 1
    BY <1>1, <1>6 DEF StartTrial
  <2>2. QED BY <1>5, <2>1
<1>7. CASE \E i \in DOMAIN trials : ExtendTrial(i)
  <2>1. PICK i \in DOMAIN trials : ExtendTrial(i)
    BY <1>7
  <2>2. PICK ends : ends = 1 + IF trials[i].ends > now THEN trials[i].ends ELSE now
    OBVIOUS
  <2>3. trials[i].ends \in Nat
    <3>1. trials[i] \in Trials
      BY DEF Shapes, RowsShape
    <3>2. QED BY <3>1 DEF Trials
  <2>4. /\ company' = [company EXCEPT !.status = "trialing", !.end = ends]
        /\ ends <= mode.last
    BY <2>1, <2>2 DEF ExtendTrial
  <2>5. ends \in 0 .. mode.last + 1
    BY <1>1, <2>2, <2>3, <2>4
  <2>6. QED BY <1>5, <2>4, <2>5
<1>8. ASSUME NEW k \in Kinds, TaskStep(k)
      PROVE  company'.end \in 0 .. mode.last + 1 \/ company'.end = Far
  <2>1. CASE SyncStep(k)
    <3>1. tasks[k].snap.sub \in DOMAIN subs
      <4>1. Step(k) = "sync" /\ TasksShape
        BY <2>1 DEF SyncStep, Shapes
      <4>2. TaskRow(k, tasks[k], Len(subs)) /\ Head(tasks[k].todo) = "sync"
        BY <4>1, BusyRow
      <4>3. QED BY <4>2 DEF TaskRow, Shapes, StripeShape
    <3>2. QED BY <1>4, <2>1, <3>1 DEF SyncStep
  <2>2. CASE ~SyncStep(k)
    <3>1. company' = company \/ \E status : company' = [company EXCEPT !.status = status]
      BY <1>8, <2>2 DEF TaskStep, Expire, ChargeNothing, ChargeTrial, RetrieveFails, ChargeNew,
         Orphans, Final, rows
    <3>2. QED BY <1>3, <3>1
  <2>3. QED BY <2>1, <2>2
<1>9. CASE HookStep
  <2>1. hook # NoHook
    BY <1>9, HookGoesOn
  <2>2. hook.event.sub \in DOMAIN subs
    BY <2>1, HookRow
  <2>3. CASE HookSync
    BY <1>4, <2>2, <2>3 DEF HookSync
  <2>4. CASE HookReceipt
    <3>1. company' = company \/ company' = [company EXCEPT !.status = "active", !.end = Far]
      BY <2>4 DEF HookReceipt
    <3>2. QED BY <1>3, <1>5, <3>1
  <2>5. CASE ~HookSync /\ ~HookReceipt
    <3>1. company' = company \/ \E status : company' = [company EXCEPT !.status = status]
      BY <1>9, <2>5 DEF HookStep, HookSettle, HookActive, HookBill, HookFailed, HookDeleted
    <3>2. QED BY <1>3, <3>1
  <2>6. QED BY <2>3, <2>4, <2>5
<1>10. CASE \/ Tick \/ Buy \/ AttachCard \/ CreateCheckout \/ RequestBegin \/ SweepBegin
            \/ \E s \in DOMAIN subs : TrialEndsAtStripe(s) \/ Retries(s) \/ Ends(s)
            \/ \E k \in Kinds : Dies(k)
            \/ \E i \in DOMAIN events : HookBegin(i)
            \/ HookEnd \/ HookDies
  <2>1. company' = company
    BY <1>10 DEF Tick, Buy, AttachCard, CreateCheckout, RequestBegin, SweepBegin,
       TrialEndsAtStripe, Retries, Ends, Dies, HookBegin, HookEnd, HookDies, rows
  <2>2. QED BY <1>3, <2>1
<1>11. QED BY <1>6, <1>7, <1>8, <1>9, <1>10 DEF SubscriptionNext

\* Every step keeps time within its bound.
LEMMA NextTimed ==
  ASSUME Shapes, Timed, [SubscriptionNext]_subVars
  PROVE  Timed'
<1>1. CASE UNCHANGED subVars
  BY <1>1 DEF subVars, Timed, Bounded
<1>2. CASE SubscriptionNext
  <2>1. mode' = mode
    BY <1>2, ModeKept
  <2>2. now' <= mode.last
    <3>1. now \in Nat /\ mode.last \in Nat /\ now <= mode.last
      BY DEF Timed, Shapes, RowsShape
    <3>2. CASE Tick
      BY <3>1, <3>2 DEF Tick
    <3>3. CASE now' = now
      BY <3>1, <3>3
    <3>4. ASSUME NEW k \in Kinds, TaskStep(k)
          PROVE  now' = now
      BY <3>4 DEF TaskStep, Expire, ChargeNothing, ChargeTrial, RetrieveFails, ChargeNew, SyncStep,
         Orphans, Final
    <3>5. QED
      BY <1>2, <3>2, <3>3, <3>4 DEF SubscriptionNext, TrialEndsAtStripe, Retries, Ends, Buy, AttachCard,
         CreateCheckout, StartTrial, ExtendTrial, RequestBegin, SweepBegin, Dies, HookBegin,
         HookStep, HookEnd, HookDies
  <2>3. \A s \in DOMAIN subs' : subs'[s].trialEnd \in 0 .. mode.last + 1
    BY <1>2, TimedSubs
  <2>4. company'.end \in 0 .. mode.last + 1 \/ company'.end = Far
    BY <1>2, TimedCompany
  <2>5. QED BY <2>1, <2>2, <2>3, <2>4 DEF Timed, Bounded
<1>3. QED BY <1>1, <1>2

-----------------------------------------------------------------------------
(* What Subscription promises.                                             *)

\* The inductive invariant of trials and the paid subscription: shapes, who is in flight,
\* every payment billed or told of, one subscription that charges while nothing the code
\* does not guard against happens, and a status that ends up as Stripe's.
THEOREM SubscriptionInductive == SubscriptionSpec => []Inv
<1>1. SubscriptionInit => Inv
  <2> SUFFICES ASSUME SubscriptionInit
               PROVE  Inv
    OBVIOUS
  <2>1. Shapes
    BY InitShapes
  <2>2. /\ hook = NoHook /\ \A k \in Kinds : tasks[k] = NoTask
        /\ events = <<>> /\ subs = <<>> /\ invoices = 0
    BY DEF SubscriptionInit
  <2>3. Alone /\ InOrder
    BY <2>2 DEF Alone, InOrder, Busy
  <2>4. Recorded
    BY <2>2 DEF Recorded
  <2>5. Single
    <3>1. Calm => faults = 0
      BY DEF SubscriptionInit, Calm
    <3>2. Sole /\ LastSub = 0 /\ DOMAIN events = {}
      BY <2>2 DEF Sole, LastSub
    <3>3. company.sub = 0
      BY DEF SubscriptionInit
    <3>4. Follows
      BY <3>2, <3>3 DEF Follows
    <3>5. NoTask.todo = <<>>
      BY DEF NoTask
    <3>6. \A k \in Kinds : TaskFollows(k)
      BY <2>2, <3>5 DEF TaskFollows, Step
    <3>7. QED BY <3>1, <3>2, <3>4, <3>6 DEF Single
  <2>6. Concluded
    <3>1. company.status = "pending"
      BY DEF SubscriptionInit
    <3>2. Agrees(company)
      BY <2>2, <3>1 DEF Agrees, ActiveSub
    <3>3. QED BY <2>2, <3>2 DEF Concluded, TaskAgrees, Busy
  <2>7. QED BY <2>1, <2>3, <2>4, <2>5, <2>6 DEF Inv
<1>2. Inv /\ [SubscriptionNext]_subVars => Inv'
  <2> SUFFICES ASSUME Inv, [SubscriptionNext]_subVars
               PROVE  Inv'
    OBVIOUS
  <2>1. Shapes /\ Alone /\ InOrder /\ Recorded /\ Single /\ Concluded
    BY DEF Inv
  <2>2. Shapes'
    BY <2>1, NextShapes
  <2>3. Alone' /\ InOrder' /\ Recorded'
    BY <2>1, NextAlone, NextInOrder, NextRecorded
  <2>4. Single' /\ Concluded'
    BY <2>1, NextSingle, NextConcluded
  <2>5. QED BY <2>2, <2>3, <2>4 DEF Inv
<1>3. QED BY <1>1, <1>2, PTL DEF SubscriptionSpec

\* A customer never has two subscriptions that charge, whichever of the checkout, a
\* request, the sweep or Stripe starts and ends the trial, for any number of units of
\* time, trials and subscriptions.
THEOREM NeverTwice == SubscriptionSpec => []ChargedOnce
<1>1. Inv => ChargedOnce
  <2> SUFFICES ASSUME Inv, Calm
               PROVE  Cardinality(LiveSubs) <= 1
    BY DEF ChargedOnce
  <2>1. Sole
    BY DEF Inv, Single
  <2>2. LiveSubs \subseteq {LastSub}
    BY <2>1 DEF Sole, LiveSubs
  <2>3. IsFiniteSet({LastSub}) /\ Cardinality({LastSub}) = 1
    BY FS_Singleton
  <2>4. IsFiniteSet(LiveSubs) /\ Cardinality(LiveSubs) <= 1
    BY <2>2, <2>3, FS_Subset
  <2>5. QED BY <2>4
<1>2. QED BY <1>1, SubscriptionInductive, PTL

\* With nothing in flight every payment has its receipt, whatever was reordered, killed,
\* refused or repeated; and the company of a first subscription is active just when that
\* is.
THEOREM BooksSettle == SubscriptionSpec => []SettledBooks
<1>1. Inv => SettledBooks
  <2> SUFFICES ASSUME Inv, Quiet, events = <<>>
               PROVE  /\ 1 .. invoices \subseteq billed
                      /\ mode.serial /\ mode.prompt /\ ~mode.extends /\ Len(subs) <= 1 =>
                           (company.status = "active" <=>
                              \E s \in LiveSubs : subs[s].status = "active")
    BY DEF SettledBooks
  <2>1. 1 .. invoices \subseteq billed
    <3>1. \A n : ~Told(n)
      BY DEF Told
    <3>2. QED BY <3>1 DEF Inv, Recorded
  <2>2. ASSUME Orderly
        PROVE  company.status = "active" <=> \E s \in LiveSubs : subs[s].status = "active"
    <3>1. company.status = "active" <=> ActiveSub
      BY <2>2 DEF Inv, Concluded, Agrees
    <3>2. DOMAIN subs = 1 .. Len(subs) /\ Len(subs) \in Nat /\ Len(subs) <= 1 /\ subs \in Seq(Subs)
      BY <2>2 DEF Inv, Shapes, StripeShape, Orderly
    <3>3. subs # <<>> <=> 1 \in DOMAIN subs
      BY <3>2
    <3>4. \A s \in DOMAIN subs : s = 1
      BY <3>2
    <3>5. QED BY <3>1, <3>3, <3>4 DEF ActiveSub, LiveSubs, Live
  <2>3. QED BY <2>1, <2>2 DEF Orderly
<1>2. QED BY <1>1, SubscriptionInductive, PTL

\* The rows and Stripe's objects have their shapes, and no trial ends after the clock's
\* bound, wherever that is.
THEOREM SubscriptionTypes ==
  ASSUME \A m \in Modes : m.last \in Nat
  PROVE  SubscriptionSpec => []SubscriptionTypeOK
<1>1. SubscriptionInit => Timed
  <2> SUFFICES ASSUME SubscriptionInit
               PROVE  Timed
    OBVIOUS
  <2>1. mode.last \in Nat /\ now = 0 /\ company.end = Far /\ subs = <<>>
    BY DEF SubscriptionInit
  <2>2. QED BY <2>1 DEF Timed
<1>2. Inv /\ Timed /\ [SubscriptionNext]_subVars => Timed'
  BY NextTimed DEF Inv
<1>3. Inv /\ Timed => SubscriptionTypeOK
  <2> SUFFICES ASSUME Inv, Timed
               PROVE  SubscriptionTypeOK
    OBVIOUS
  <2>1. /\ company \in Companies /\ company.sub <= Len(subs)
        /\ trials \in Seq(Trials) /\ subs \in Seq(Subs)
    BY DEF Inv, Shapes, RowsShape, StripeShape
  <2>2. company.status \in Statuses /\ company.sub \in 0 .. Len(subs)
    BY <2>1 DEF Companies
  <2>3. company.end \in (0 .. mode.last + 1) \cup {Far}
    BY DEF Timed, Bounded
  <2>4. \A i \in DOMAIN trials : trials[i].status \in Open \cup {"expired", "converted"}
    <3>1. \A i \in DOMAIN trials : trials[i] \in Trials
      BY <2>1
    <3>2. QED BY <3>1 DEF Trials, TrialStatuses
  <2>5. \A s \in DOMAIN subs : subs[s].status \in Live \cup {"canceled"}
    <3>1. \A s \in DOMAIN subs : subs[s] \in Subs
      BY <2>1
    <3>2. QED BY <3>1 DEF Subs, SubStatuses
  <2>6. billed \subseteq 0 .. invoices
    BY DEF Inv, Shapes, BilledShape
  <2>7. QED BY <2>2, <2>3, <2>4, <2>5, <2>6 DEF SubscriptionTypeOK
<1>4. QED BY <1>1, <1>2, <1>3, SubscriptionInductive, PTL DEF SubscriptionSpec

=============================================================================
