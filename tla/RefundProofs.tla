----------------------------- MODULE RefundProofs -----------------------------
(***************************************************************************)
(* Theorems about Refund, for any number of refunds, requests and webhook  *)
(* deliveries, any amounts, and crashes anywhere.                          *)
(*                                                                         *)
(* Handlers that act on a row (approve, reject, cancel, process) run one   *)
(* at a time: RowsOneAtATime, the code's case of one administrator at a    *)
(* time.  Creates, webhooks and the use of credit may overlap them and     *)
(* each other.  The books need every handler to run alone, AllOneAtATime,  *)
(* because the balances are read and written back without a lock.          *)
(***************************************************************************)
EXTENDS Refund, FiniteSetTheorems, TLAPS

\* The sizes and sentinels of the tables.
Sizes ==
  /\ Paid \in Nat
  /\ IsFiniteSet(RefundIds)
  /\ 0 \notin StripeIds
  /\ Overrides \in BOOLEAN
  /\ MaxCrashes \in Nat

RowsOneAtATime == Overlap \subseteq {"create", "webhook", "consume"}
AllOneAtATime == Overlap = {}

-----------------------------------------------------------------------------
(* The inductive invariant.                                                *)

CreateRequest == [op : {"create"}, row : Row]
ApproveRequest == [op : {"approve"}, r : RefundIds, amount : 1 .. Paid]
StatusRequest == [op : {"reject", "cancel", "process"}, r : RefundIds]
PayRequest == [op : {"charge", "apply"}, r : RefundIds, sid : StripeIds \cup {0}, amount : 1 .. Paid]
CompleteRequest ==
  [op : {"complete"}, r : RefundIds, sid : StripeIds \cup {0}, amount : 1 .. Paid,
   amountPaid : 0 .. Paid, refunded : 0 .. Paid, credit : Nat]
WebhookRequest == [op : {"webhook"}, x : StripeIds, refunded : 0 .. Paid]
ConsumeRequest == [op : {"consume"}, used : Nat, credit : Nat]

Request ==
  {Idle} \cup CreateRequest \cup ApproveRequest \cup StatusRequest \cup PayRequest
    \cup CompleteRequest \cup WebhookRequest \cup ConsumeRequest

\* A create inserts an open refund; credit used was there when it was read.
Sensible(p) ==
  /\ p.op = "create" =>
       p.row.st \in {"pending_approval", "approved"} /\ p.row.stripe = 0 /\ p.row.processed = 0
  /\ p.op = "consume" => p.used <= p.credit

PaidBack == [st : {"refunded"}, amount : 1 .. Paid, r : RefundIds]

\* The balances have their types.
Balances ==
  /\ amountPaid \in 0 .. Paid /\ refunded \in 0 .. Paid
  /\ credit \in Nat /\ spent \in Nat
  /\ crashes \in 0 .. MaxCrashes

\* So have the tables, and what the handlers in flight carry.
Tables ==
  /\ refunds \in [RefundIds -> Row \cup {NoRow}]
  /\ stripe \in [StripeIds -> PaidBack \cup {NoRow}]
  /\ requests \in [Slots -> Request]
  /\ \A q \in Slots : Sensible(requests[q])

RowOps == {"approve", "reject", "cancel", "process", "charge", "apply", "complete"}
Working(q) == requests[q].op \in RowOps

\* At most one handler in flight acts on an existing row.
OneWorks == \A q, s \in Slots : Working(q) /\ Working(s) => q = s

\* A row has an amount processed, and perhaps a Stripe refund, when it is completed.
RowsTell ==
  \A r \in Rows :
    /\ refunds[r].processed = IF refunds[r].st = "completed" THEN refunds[r].amount ELSE 0
    /\ refunds[r].stripe # 0 =>
         refunds[r].st = "completed" /\ stripe[refunds[r].stripe].st = "refunded"

OneRowPerSid ==
  \A r, s \in Rows : refunds[r].stripe # 0 /\ refunds[r].stripe = refunds[s].stripe => r = s

\* The status of the row a handler works on, from its read to its last commit.
Holds(op, st) ==
  \/ op = "approve" /\ st = "pending_approval"
  \/ op = "reject" /\ st \in {"pending_approval", "approved"}
  \/ op = "cancel" /\ st \in {"pending_approval", "approved", "rejected", "failed"}
  \/ op = "process" /\ st = "approved"
  \/ op \in {"charge", "apply", "complete"} /\ st = "processing"

PaidFor(r) == {x \in StripeIds : stripe[x].st = "refunded" /\ stripe[x].r = r}

\* A handler holds its row, knows its amount, and has charged what it says it has.
Held ==
  \A q \in Slots :
    LET p == requests[q] IN
    Working(q) =>
      /\ Holds(p.op, refunds[p.r].st)
      /\ p.op \in {"charge", "apply", "complete"} =>
           p.amount = refunds[p.r].amount /\ PaidFor(p.r) = {p.sid} \ {0}
      /\ p.op = "charge" => p.sid = 0

Processed == {"processing", "completed", "failed", "cancelled"}

\* What Stripe paid back is for a row that went through processing.
StripeTells ==
  \A x \in StripeIds : stripe[x].st = "refunded" =>
    LET row == refunds[stripe[x].r] IN
    /\ row.st \in Processed
    /\ row.amount = stripe[x].amount
    /\ row.st = "completed" => row.stripe = x

RowsInv ==
  Tables /\ OneWorks /\ RowsTell /\ OneRowPerSid /\ Held /\ StripeTells /\ StripeOnce

\* A webhook delivers a refund Stripe paid.
Delivered ==
  \A q \in Slots : requests[q].op = "webhook" => stripe[requests[q].x].st = "refunded"

RefundInv == Balances /\ Delivered /\ RowsInv

\* A row whose Stripe refund the webhook recorded on a row of its own.
HandedOver(r) ==
  \E x \in StripeIds : /\ stripe[x].st = "refunded" /\ stripe[x].r = r
                       /\ \E s \in Rows \ {r} : refunds[s].stripe = x

Overridden == \E r \in Rows : refunds[r].override
Taken == {r \in Rows : refunds[r].st \in {"processing", "completed"} /\ ~HandedOver(r)}

\* What is paid or being paid fits in what the customer paid, and so does the refund a
\* handler has just found room for.
Room ==
  /\ Total(Taken) <= Paid
  /\ \A q \in Slots : requests[q].op = "process" =>
       Total(Taken) + refunds[requests[q].r].amount <= Paid

Within == Overridden \/ Forgotten \/ Room

OneInFlight == \A q, s \in Slots : requests[q] # Idle /\ requests[s] # Idle => q = s

\* A handler that runs alone still sees the balances it read.
ReadsHold ==
  \A q \in Slots :
    LET p == requests[q] IN
    /\ p.op = "complete" => p.refunded = refunded /\ p.credit = credit
    /\ p.op = "webhook" => p.refunded = refunded
    /\ p.op = "consume" => p.credit = credit

\* Nothing Stripe paid is on a row that failed, while handlers and Stripe's answers come
\* one by one.
Remembered ==
  /\ ~Forgotten
  /\ \A q \in Slots : requests[q].op \in {"apply", "complete"} =>
       \A r \in Rows : refunds[r].stripe # 0 => refunds[r].stripe # requests[q].sid

-----------------------------------------------------------------------------
(* Sums.  The units of the rows in S, when f says what each row counts for. *)

Units(f, S) == {u \in S \X (1 .. Paid) : u[2] <= f[u[1]]}
Sum(f, S) == Cardinality(Units(f, S))

\* The amounts of the rows of a table.
Amounts(rows) == [r \in RefundIds |-> IF rows[r].st = "none" THEN 0 ELSE rows[r].amount]

\* A set of rows has finitely many units.
LEMMA UnitsFinite ==
  ASSUME Sizes, NEW f, NEW S \in SUBSET RefundIds
  PROVE  IsFiniteSet(S) /\ IsFiniteSet(Units(f, S)) /\ Sum(f, S) \in Nat
<1>1. IsFiniteSet(S)
  BY FS_Subset DEF Sizes
<1>2. IsFiniteSet(1 .. Paid)
  BY FS_Interval DEF Sizes
<1>3. IsFiniteSet(S \X (1 .. Paid))
  BY <1>1, <1>2, FS_Product
<1>4. IsFiniteSet(Units(f, S))
  <2>1. Units(f, S) \in SUBSET (S \X (1 .. Paid))
    BY DEF Units
  <2>2. QED
    BY <1>3, <2>1, FS_Subset
<1>5. QED
  BY <1>1, <1>4, FS_CardinalityType DEF Sum

\* One more row adds what it counts for.
LEMMA SumAdds ==
  ASSUME Sizes, NEW S \in SUBSET RefundIds, NEW f \in [RefundIds -> 0 .. Paid],
         NEW r \in RefundIds \ S
  PROVE  Sum(f, S \cup {r}) = Sum(f, S) + f[r]
<1> DEFINE own == {r} \X (1 .. f[r])
<1>1. f[r] \in 0 .. Paid /\ Paid \in Nat
  BY DEF Sizes
<1>2. IsFiniteSet(own) /\ Cardinality(own) = f[r]
  <2>1. IsFiniteSet({r}) /\ Cardinality({r}) = 1
    BY FS_Singleton
  <2>2. f[r] \in Int /\ 1 \in Int
    BY <1>1
  <2>3. IsFiniteSet(1 .. f[r]) /\ Cardinality(1 .. f[r]) = IF 1 > f[r] THEN 0 ELSE f[r] - 1 + 1
    BY <2>2, FS_Interval
  <2>4. IsFiniteSet(own) /\ Cardinality(own) = Cardinality({r}) * Cardinality(1 .. f[r])
    BY <2>1, <2>3, FS_Product
  <2>5. Cardinality(1 .. f[r]) = f[r]
    BY <2>3, <1>1
  <2>6. QED
    BY <2>1, <2>4, <2>5, <1>1
<1>3. IsFiniteSet(Units(f, S)) /\ Sum(f, S) \in Nat
  BY UnitsFinite
<1>4. Units(f, S \cup {r}) = Units(f, S) \cup own
  <2>1. ASSUME NEW u PROVE u \in Units(f, S \cup {r}) <=> u \in Units(f, S) \cup own
    <3>1. u \in Units(f, {r}) <=> u \in own
      <4>1. \A n : n \in 1 .. Paid /\ n <= f[r] <=> n \in 1 .. f[r]
        BY <1>1
      <4>2. QED
        BY <4>1 DEF Units
    <3>2. u \in Units(f, S \cup {r}) <=> u \in Units(f, S) \/ u \in Units(f, {r})
      BY DEF Units
    <3>3. QED
      BY <3>1, <3>2
  <2>2. QED
    BY <2>1
<1>5. Units(f, S) \cap own = {}
  BY DEF Units
<1>6. Cardinality(Units(f, S) \cap own) = 0
  BY <1>5, FS_EmptySet
<1> HIDE DEF own
<1>7. Cardinality(Units(f, S) \cup own)
        = Cardinality(Units(f, S)) + Cardinality(own) - Cardinality(Units(f, S) \cap own)
  BY <1>2, <1>3, FS_Union
<1>8. Sum(f, S \cup {r}) = Sum(f, S) + f[r] - 0
  BY <1>2, <1>4, <1>6, <1>7 DEF Sum
<1>9. QED
  BY <1>1, <1>3, <1>8

\* Fewer rows count for no more.
LEMMA SumGrows ==
  ASSUME Sizes, NEW f, NEW S \in SUBSET RefundIds, NEW T \in SUBSET S
  PROVE  Sum(f, T) <= Sum(f, S)
<1>1. IsFiniteSet(Units(f, S))
  BY UnitsFinite
<1>2. Units(f, T) \in SUBSET Units(f, S)
  BY DEF Units
<1>3. QED
  BY <1>1, <1>2, FS_Subset DEF Sum

\* A sum depends on what the rows in it count for, and on nothing else.
LEMMA SumDepends ==
  ASSUME NEW f, NEW g, NEW S, \A r \in S : f[r] = g[r]
  PROVE  Sum(f, S) = Sum(g, S)
<1>1. Units(f, S) = Units(g, S)
  BY DEF Units
<1>2. QED
  BY <1>1 DEF Sum

\* No rows count for nothing.
LEMMA SumOfNone ==
  ASSUME NEW f
  PROVE  Sum(f, {}) = 0
<1>1. Units(f, {}) = {}
  BY DEF Units
<1>2. QED
  BY <1>1, FS_EmptySet DEF Sum

-----------------------------------------------------------------------------
(* What types give.                                                        *)

\* A handler of a row op begins when nothing else is in flight.
LEMMA RowHandlersAlone ==
  ASSUME RowsOneAtATime, NEW op \in RowOps, MayBegin(op)
  PROVE  \A q \in Slots : requests[q] = Idle
BY DEF RowsOneAtATime, RowOps, MayBegin

\* What a handler in flight carries.
LEMMA Carries ==
  ASSUME Tables, NEW q \in Slots
  PROVE  LET p == requests[q] IN
         /\ p.op = "create" => p.row \in Row
         /\ p.op \in RowOps => p.r \in RefundIds
         /\ p.op = "approve" => p.amount \in 1 .. Paid
         /\ p.op \in {"charge", "apply", "complete"} =>
              p.sid \in StripeIds \cup {0} /\ p.amount \in 1 .. Paid
         /\ p.op = "complete" =>
              p.amountPaid \in 0 .. Paid /\ p.refunded \in 0 .. Paid /\ p.credit \in Nat
         /\ p.op = "webhook" => p.x \in StripeIds /\ p.refunded \in 0 .. Paid
         /\ p.op = "consume" => p.used \in Nat /\ p.credit \in Nat /\ p.used <= p.credit
         /\ p = Idle <=> p.op = "idle"
<1>1. requests[q] \in Request /\ Sensible(requests[q])
  BY DEF Tables
<1>2. CASE requests[q] = Idle
  BY <1>2 DEF Idle, RowOps
<1>3. CASE requests[q] \in CreateRequest
  BY <1>3 DEF CreateRequest, Idle, RowOps
<1>4. CASE requests[q] \in ApproveRequest
  BY <1>4 DEF ApproveRequest, Idle, RowOps
<1>5. CASE requests[q] \in StatusRequest
  BY <1>5 DEF StatusRequest, Idle, RowOps
<1>6. CASE requests[q] \in PayRequest
  BY <1>6 DEF PayRequest, Idle, RowOps
<1>7. CASE requests[q] \in CompleteRequest
  BY <1>7 DEF CompleteRequest, Idle, RowOps
<1>8. CASE requests[q] \in WebhookRequest
  BY <1>8 DEF WebhookRequest, Idle, RowOps
<1>9. CASE requests[q] \in ConsumeRequest
  BY <1>1, <1>9 DEF ConsumeRequest, Sensible, Idle, RowOps
<1>10. QED
  BY <1>1, <1>2, <1>3, <1>4, <1>5, <1>6, <1>7, <1>8, <1>9 DEF Request

Status == Committed \cup {"rejected", "cancelled", "failed"}

\* A row that is there has the columns of one.
LEMMA RowThere ==
  ASSUME Tables, NEW r \in RefundIds
  PROVE  /\ r \in Rows <=> refunds[r].st # "none"
         /\ refunds[r].st # "none" => refunds[r] \in Row
         /\ refunds[r] \in Row => refunds[r].st \in Status
BY DEF Tables, Rows, NoRow, Row, Status

\* A refund at Stripe that was paid names its row and its amount.
LEMMA PaidThere ==
  ASSUME Tables, NEW x \in StripeIds
  PROVE  /\ stripe[x].st \in {"none", "refunded"}
         /\ stripe[x].st = "refunded" => stripe[x].r \in RefundIds /\ stripe[x].amount \in 1 .. Paid
BY DEF Tables, PaidBack, NoRow

\* A row whose status, amounts or Stripe id change has the columns of a row still.
LEMMA RowUpdated ==
  ASSUME NEW row \in Row, NEW st \in Status, NEW amount \in 1 .. Paid, NEW processed \in 0 .. Paid,
         NEW sid \in StripeIds \cup {0}
  PROVE  LET new == [row EXCEPT !.st = st, !.amount = amount, !.processed = processed, !.stripe = sid]
         IN  /\ new \in Row
             /\ new.st = st /\ new.amount = amount /\ new.processed = processed /\ new.stripe = sid
             /\ new.override = row.override /\ new.method = row.method /\ new.paid = row.paid
BY DEF Row, Status

-----------------------------------------------------------------------------
(* How steps keep the rows: one lemma per way of changing them.            *)

\* A handler that acts on no row begins, goes on or ends.
LEMMA OthersComeAndGo ==
  ASSUME RowsInv, NEW q \in Slots, NEW p \in Request, p.op \notin RowOps, Sensible(p),
         requests' = [requests EXCEPT ![q] = p], UNCHANGED <<refunds, stripe>>
  PROVE  RowsInv'
<1>1. Tables'
  BY DEF RowsInv, Tables, Slots
<1>2. \A s \in Slots : Working(s)' => Working(s) /\ requests'[s] = requests[s]
  BY DEF RowsInv, Tables, Working
<1>3. OneWorks'
  BY <1>2 DEF RowsInv, OneWorks
<1>4. Held'
  BY <1>2 DEF RowsInv, Held, Working, PaidFor
<1>5. RowsTell' /\ OneRowPerSid' /\ StripeTells' /\ StripeOnce'
  BY DEF RowsInv, RowsTell, OneRowPerSid, StripeTells, StripeOnce, Rows
<1>6. QED
  BY <1>1, <1>3, <1>4, <1>5 DEF RowsInv

\* A handler of a row op begins, alone.
LEMMA WorkBegins ==
  ASSUME RowsInv, \A s \in Slots : requests[s] = Idle, NEW q \in Slots, NEW p \in Request,
         p.op \in {"approve", "reject", "cancel", "process"}, Holds(p.op, refunds[p.r].st),
         requests' = [requests EXCEPT ![q] = p], UNCHANGED <<refunds, stripe>>
  PROVE  RowsInv'
<1>1. Tables'
  BY DEF RowsInv, Tables, Sensible, Slots
<1>2. \A s \in Slots : Working(s)' => s = q
  BY DEF RowsInv, Tables, Working, Idle, RowOps
<1>3. requests'[q] = p
  BY DEF RowsInv, Tables
<1>4. OneWorks'
  BY <1>2 DEF OneWorks
<1>5. Held'
  BY <1>2, <1>3 DEF Held
<1>6. RowsTell' /\ OneRowPerSid' /\ StripeTells' /\ StripeOnce'
  BY DEF RowsInv, RowsTell, OneRowPerSid, StripeTells, StripeOnce, Rows
<1>7. QED
  BY <1>1, <1>4, <1>5, <1>6 DEF RowsInv

\* While one handler works, no other does.
LEMMA NobodyElse ==
  ASSUME RowsInv, NEW q \in Slots, Working(q), NEW p,
         requests' = [requests EXCEPT ![q] = p]
  PROVE  \A s \in Slots : Working(s)' => s = q /\ requests'[s] = p
BY DEF RowsInv, OneWorks, Tables, Working

\* A handler writes its row and ends.
LEMMA WorkEnds ==
  ASSUME RowsInv, NEW q \in Slots, Working(q), NEW r, r = requests[q].r, NEW row \in Row,
         row.processed = IF row.st = "completed" THEN row.amount ELSE 0,
         row.stripe # 0 =>
           /\ row.st = "completed" /\ stripe[row.stripe].st = "refunded"
           /\ \A s \in Rows \ {r} : refunds[s].stripe # row.stripe,
         \A x \in PaidFor(r) : /\ row.st \in Processed
                               /\ row.amount = stripe[x].amount
                               /\ row.st = "completed" => row.stripe = x,
         refunds' = [refunds EXCEPT ![r] = row],
         requests' = [requests EXCEPT ![q] = Idle], UNCHANGED stripe
  PROVE  RowsInv'
<1>1. r \in RefundIds /\ refunds[r].st # "none"
  BY Carries DEF RowsInv, Held, Holds, Working
<1>2. row.st # "none" /\ Rows' = Rows /\ r \in Rows
  BY <1>1 DEF RowsInv, Tables, Rows, Row, Committed
<1>3. Tables'
  BY <1>1 DEF RowsInv, Tables, Idle, Request, Sensible, Slots
<1>4. \A s \in Slots : ~Working(s)'
  <2>1. \A s \in Slots : Working(s)' => requests'[s] = Idle
    BY NobodyElse
  <2>2. QED
    BY <2>1 DEF Working, Idle, RowOps
<1>5. OneWorks' /\ Held'
  BY <1>4 DEF OneWorks, Held
<1>6. \A s \in Rows : refunds'[s] = IF s = r THEN row ELSE refunds[s]
  BY <1>1 DEF RowsInv, Tables, Rows
<1>7. RowsTell'
  BY <1>2, <1>6 DEF RowsInv, RowsTell
<1>8. OneRowPerSid'
  BY <1>2, <1>6 DEF RowsInv, OneRowPerSid
<1>9. StripeTells'
  <2> SUFFICES ASSUME NEW x \in StripeIds, stripe[x].st = "refunded"
               PROVE  LET new == refunds'[stripe[x].r] IN
                      /\ new.st \in Processed
                      /\ new.amount = stripe[x].amount
                      /\ new.st = "completed" => new.stripe = x
    BY DEF StripeTells
  <2>1. stripe[x].r \in Rows
    BY PaidThere DEF RowsInv, StripeTells, Rows, Processed
  <2>2. CASE stripe[x].r = r
    BY <1>6, <2>1, <2>2 DEF PaidFor
  <2>3. CASE stripe[x].r # r
    BY <1>6, <2>1, <2>3 DEF RowsInv, StripeTells
  <2>4. QED
    BY <2>2, <2>3
<1>10. StripeOnce'
  BY DEF RowsInv, StripeOnce
<1>11. QED
  BY <1>3, <1>5, <1>7, <1>8, <1>9, <1>10 DEF RowsInv

\* A handler that works on no row of the table inserts one and ends.
LEMMA RowInserted ==
  ASSUME RowsInv, NEW q \in Slots, ~Working(q), NEW r \in RefundIds, refunds[r].st = "none",
         NEW row \in Row, row.processed = IF row.st = "completed" THEN row.amount ELSE 0,
         row.stripe # 0 =>
           /\ row.st = "completed" /\ stripe[row.stripe].st = "refunded"
           /\ \A s \in Rows : refunds[s].stripe # row.stripe,
         refunds' = [refunds EXCEPT ![r] = row],
         requests' = [requests EXCEPT ![q] = Idle], UNCHANGED stripe
  PROVE  RowsInv'
<1>1. row.st # "none" /\ Rows' = Rows \cup {r} /\ r \notin Rows
  BY DEF RowsInv, Tables, Rows, Row, Committed
<1>2. Tables'
  BY DEF RowsInv, Tables, Idle, Request, Sensible, Slots
<1>3. \A s \in Rows' : refunds'[s] = IF s = r THEN row ELSE refunds[s]
  BY DEF RowsInv, Tables, Rows
<1>4. \A s \in Slots : Working(s)' =>
        Working(s) /\ requests'[s] = requests[s] /\ requests[s].r \in Rows
  <2> SUFFICES ASSUME NEW s \in Slots, Working(s)'
               PROVE  Working(s) /\ requests'[s] = requests[s] /\ requests[s].r \in Rows
    OBVIOUS
  <2>1. s # q /\ requests'[s] = requests[s] /\ Working(s)
    BY DEF RowsInv, Tables, Working, Idle, RowOps
  <2>2. requests[s].r \in RefundIds /\ refunds[requests[s].r].st # "none"
    BY <2>1, Carries DEF RowsInv, Held, Holds, Working
  <2>3. QED
    BY <2>1, <2>2 DEF Rows
<1>5. OneWorks'
  BY <1>4 DEF RowsInv, OneWorks
<1>6. Held'
  <2> SUFFICES ASSUME NEW s \in Slots, Working(s)'
               PROVE  LET p == requests'[s] IN
                      /\ Holds(p.op, refunds'[p.r].st)
                      /\ p.op \in {"charge", "apply", "complete"} =>
                           p.amount = refunds'[p.r].amount /\ PaidFor(p.r) = {p.sid} \ {0}
                      /\ p.op = "charge" => p.sid = 0
    BY DEF Held, PaidFor
  <2>1. Working(s) /\ requests'[s] = requests[s] /\ requests[s].r \in Rows
    BY <1>4
  <2>2. refunds'[requests[s].r] = refunds[requests[s].r]
    BY <1>1, <1>3, <2>1
  <2>3. QED
    BY <2>1, <2>2 DEF RowsInv, Held
<1>7. RowsTell'
  BY <1>1, <1>3 DEF RowsInv, RowsTell
<1>8. OneRowPerSid'
  BY <1>1, <1>3 DEF RowsInv, OneRowPerSid
<1>9. StripeTells'
  <2> SUFFICES ASSUME NEW x \in StripeIds, stripe[x].st = "refunded"
               PROVE  LET new == refunds'[stripe[x].r] IN
                      /\ new.st \in Processed
                      /\ new.amount = stripe[x].amount
                      /\ new.st = "completed" => new.stripe = x
    BY DEF StripeTells
  <2>1. stripe[x].r \in Rows
    BY PaidThere DEF RowsInv, StripeTells, Rows, Processed
  <2>2. QED
    BY <1>1, <1>3, <2>1 DEF RowsInv, StripeTells
<1>10. StripeOnce'
  BY DEF RowsInv, StripeOnce
<1>11. QED
  BY <1>2, <1>5, <1>6, <1>7, <1>8, <1>9, <1>10 DEF RowsInv

\* Stripe pays refund x for the row of the handler that charges, which goes on as p, or
\* ends without knowing and records its row as failed.
LEMMA StripeCharged ==
  ASSUME RowsInv, NEW q \in Slots, requests[q].op = "charge", NEW r, r = requests[q].r,
         NEW x \in StripeIds, StripePays(requests[q], x), NEW p \in Request,
         \/ refunds' = refunds /\ p = [requests[q] EXCEPT !.op = "apply", !.sid = x]
         \/ refunds' = [refunds EXCEPT ![r].st = "failed"] /\ p = Idle,
         requests' = [requests EXCEPT ![q] = p], 0 \notin StripeIds
  PROVE  RowsInv'
<1>1. r \in RefundIds /\ requests[q].amount \in 1 .. Paid
  BY Carries DEF RowsInv, RowOps
<1>2. /\ Working(q) /\ refunds[r].st = "processing" /\ requests[q].amount = refunds[r].amount
      /\ PaidFor(r) = {}
  BY DEF RowsInv, Held, Holds, Working, RowOps
<1>3. refunds[r] \in Row /\ r \in Rows
  BY <1>1, <1>2, RowThere DEF RowsInv
<1> DEFINE paid == [st |-> "refunded", amount |-> requests[q].amount, r |-> r]
<1>4. stripe[x].st = "none" /\ stripe' = [stripe EXCEPT ![x] = paid]
  BY DEF StripePays, Fresh
<1>5. /\ refunds' \in [RefundIds -> Row \cup {NoRow}]
      /\ \A s \in RefundIds : s # r => refunds'[s] = refunds[s]
      /\ refunds'[r].st \in {"processing", "failed"}
      /\ refunds'[r].amount = refunds[r].amount /\ refunds'[r].processed = refunds[r].processed
      /\ refunds'[r].stripe = refunds[r].stripe
      /\ p # Idle => refunds'[r] = refunds[r]
  <2>1. CASE refunds' = refunds
    BY <1>1, <1>2, <2>1 DEF RowsInv, Tables
  <2>2. CASE refunds' = [refunds EXCEPT ![r].st = "failed"] /\ p = Idle
    <3>1. /\ [refunds[r] EXCEPT !.st = "failed"] \in Row
          /\ refunds'[r] = [refunds[r] EXCEPT !.st = "failed"]
      BY <1>1, <1>3, <2>2 DEF Row, RowsInv, Tables
    <3>2. /\ refunds'[r].st = "failed"
          /\ refunds'[r].amount = refunds[r].amount /\ refunds'[r].processed = refunds[r].processed
          /\ refunds'[r].stripe = refunds[r].stripe
      BY <1>3, <3>1 DEF Row
    <3>3. QED
      BY <1>1, <2>2, <3>1, <3>2 DEF RowsInv, Tables
  <2>3. QED
    BY <2>1, <2>2
<1>6. Rows' = Rows
  BY <1>2, <1>3, <1>5 DEF Rows
<1>7. paid \in PaidBack /\ paid.st = "refunded" /\ paid.r = r /\ paid.amount = refunds[r].amount
  BY <1>1, <1>2 DEF PaidBack
<1> HIDE DEF paid
<1>8. \A y \in StripeIds : stripe'[y] = IF y = x THEN paid ELSE stripe[y]
  BY <1>4 DEF RowsInv, Tables
<1>9. p # Idle => p.op = "apply" /\ p.r = r /\ p.sid = x /\ p.amount = refunds[r].amount
  <2>1. requests[q] \in PayRequest
    BY DEF RowsInv, Tables, Request, Idle, CreateRequest, ApproveRequest, StatusRequest,
           CompleteRequest, WebhookRequest, ConsumeRequest
  <2>2. CASE p = [requests[q] EXCEPT !.op = "apply", !.sid = x]
    BY <1>2, <2>1, <2>2 DEF PayRequest
  <2>3. QED
    BY <2>2
<1>10. Tables'
  <2>1. Sensible(p)
    BY <1>9 DEF Sensible, Idle
  <2>2. QED
    BY <1>4, <1>5, <1>7, <2>1 DEF RowsInv, Tables, Slots
<1>11. \A s \in Slots : Working(s)' => s = q /\ requests'[s] = p /\ p # Idle
  <2>1. \A s \in Slots : Working(s)' => s = q /\ requests'[s] = p
    BY <1>2, NobodyElse
  <2>2. QED
    BY <2>1 DEF Working, Idle, RowOps
<1>12. PaidFor(r)' = {x}
  BY <1>2, <1>7, <1>8 DEF PaidFor
<1>13. OneWorks'
  BY <1>11 DEF OneWorks
<1>14. Held'
  BY <1>2, <1>5, <1>9, <1>11, <1>12 DEF Held, Holds
<1>15. RowsTell'
  <2> SUFFICES ASSUME NEW s \in Rows
               PROVE  /\ refunds'[s].processed =
                           IF refunds'[s].st = "completed" THEN refunds'[s].amount ELSE 0
                      /\ refunds'[s].stripe # 0 =>
                           refunds'[s].st = "completed" /\ stripe'[refunds'[s].stripe].st = "refunded"
    BY <1>6 DEF RowsTell
  <2>1. s \in RefundIds /\ refunds[s] \in Row
    BY RowThere DEF Rows, RowsInv
  <2>2. refunds[s].stripe \in StripeIds \cup {0}
    BY <2>1 DEF Row
  <2>3. CASE s = r
    BY <1>2, <1>3, <1>5, <2>3 DEF RowsInv, RowsTell
  <2>4. CASE s # r
    BY <1>5, <1>7, <1>8, <2>1, <2>2, <2>4 DEF RowsInv, RowsTell
  <2>5. QED
    BY <2>3, <2>4
<1>16. OneRowPerSid'
  <2>1. \A s \in Rows : refunds'[s].stripe = refunds[s].stripe
    BY <1>5 DEF Rows
  <2>2. QED
    BY <1>6, <2>1 DEF RowsInv, OneRowPerSid
<1>17. StripeTells'
  <2> SUFFICES ASSUME NEW y \in StripeIds, stripe'[y].st = "refunded"
               PROVE  LET row == refunds'[stripe'[y].r] IN
                      /\ row.st \in Processed
                      /\ row.amount = stripe'[y].amount
                      /\ row.st = "completed" => row.stripe = y
    BY DEF StripeTells
  <2>1. CASE y = x
    BY <1>5, <1>7, <1>8, <2>1 DEF Processed
  <2>2. CASE y # x
    <3>1. stripe'[y] = stripe[y] /\ stripe[y].r # r /\ stripe[y].r \in RefundIds
      BY <1>2, <1>8, <2>2, PaidThere DEF PaidFor, RowsInv
    <3>2. QED
      BY <1>5, <3>1 DEF RowsInv, StripeTells
  <2>3. QED
    BY <2>1, <2>2
<1>18. StripeOnce'
  <2> SUFFICES ASSUME NEW y \in StripeIds, NEW z \in StripeIds, stripe'[y].st = "refunded",
                      stripe'[z].st = "refunded", stripe'[y].r = stripe'[z].r
               PROVE  y = z
    BY DEF StripeOnce
  <2>1. \A w \in StripeIds : stripe'[w].st = "refunded" /\ stripe'[w].r = r => w = x
    BY <1>2, <1>7, <1>8 DEF PaidFor
  <2>2. QED
    BY <1>7, <1>8, <2>1 DEF RowsInv, StripeOnce
<1>19. QED
  BY <1>10, <1>13, <1>14, <1>15, <1>16, <1>17, <1>18 DEF RowsInv

\* The handler that processes a row goes on with it.
LEMMA WorkGoesOn ==
  ASSUME RowsInv, NEW q \in Slots, Working(q), NEW r, r = requests[q].r,
         refunds[r].st \in {"approved", "processing"}, NEW p \in Request,
         p.op \in {"charge", "apply", "complete"}, p.r = r, p.amount = refunds[r].amount,
         PaidFor(r) = {p.sid} \ {0}, p.op = "charge" => p.sid = 0,
         refunds' = [refunds EXCEPT ![r].st = "processing"],
         requests' = [requests EXCEPT ![q] = p], UNCHANGED stripe
  PROVE  RowsInv'
<1>1. r \in RefundIds /\ r \in Rows /\ refunds[r] \in Row
  <2>1. r \in RefundIds
    BY Carries DEF RowsInv, Working
  <2>2. QED
    BY <2>1, RowThere DEF RowsInv
<1> DEFINE row == [refunds[r] EXCEPT !.st = "processing"]
<1>2. /\ row \in Row /\ row.st = "processing" /\ row.amount = refunds[r].amount
      /\ row.processed = refunds[r].processed /\ row.stripe = refunds[r].stripe
  BY <1>1 DEF Row, Committed
<1>3. refunds' = [refunds EXCEPT ![r] = row]
  OBVIOUS
<1> HIDE DEF row
<1>4. refunds' \in [RefundIds -> Row \cup {NoRow}]
  BY <1>1, <1>2, <1>3 DEF RowsInv, Tables
<1>5. \A s \in RefundIds : refunds'[s] = IF s = r THEN row ELSE refunds[s]
  BY <1>1, <1>3 DEF RowsInv, Tables
<1>6. Rows' = Rows
  BY <1>1, <1>2, <1>5 DEF Rows
<1>7. Tables'
  BY <1>4 DEF RowsInv, Tables, Sensible, Slots
<1>8. \A s \in Slots : Working(s)' => s = q /\ requests'[s] = p
  BY NobodyElse
<1>9. OneWorks'
  BY <1>8 DEF OneWorks
<1>10. Held'
  BY <1>1, <1>2, <1>5, <1>8 DEF Held, Holds, PaidFor
<1>11. RowsTell'
  BY <1>1, <1>2, <1>5, <1>6 DEF RowsInv, RowsTell, Rows
<1>12. OneRowPerSid'
  BY <1>1, <1>2, <1>5, <1>6 DEF RowsInv, OneRowPerSid, Rows
<1>13. StripeTells'
  <2>1. \A x \in StripeIds : stripe[x].st = "refunded" => stripe[x].r \in RefundIds
    BY PaidThere DEF RowsInv
  <2>2. QED
    BY <1>2, <1>5, <2>1 DEF RowsInv, StripeTells, Processed
<1>14. StripeOnce'
  BY DEF RowsInv, StripeOnce
<1>15. QED
  BY <1>7, <1>9, <1>10, <1>11, <1>12, <1>13, <1>14 DEF RowsInv

-----------------------------------------------------------------------------
(* Every step keeps the rows.                                              *)

\* A request that begins keeps the rows: it has the type of one, and a handler that is to
\* act on a row has nobody beside it.
LEMMA AskKeepsRows ==
  ASSUME Sizes, RowsOneAtATime, RefundInv, NEW q \in Requests, Ask(q)
  PROVE  RowsInv'
<1> USE DEF RefundInv
<1>1. q \in Slots
  BY DEF Slots
<1>2. ASSUME NEW method \in Methods, NEW amount \in 1 .. Paid, NEW override \in {FALSE, Overrides},
             BeginCreate(q, method, amount, override)
      PROVE  RowsInv'
  <2>1. PICK key \in Keys \cup {0}, st \in {"pending_approval", "approved"} :
          Begin(q, [op |-> "create",
                    row |-> [st |-> st, amount |-> amount, paid |-> amountPaid, key |-> key,
                             override |-> override, method |-> method, stripe |-> 0,
                             processed |-> 0]])
    BY <1>2 DEF BeginCreate
  <2> DEFINE p == [op |-> "create",
                   row |-> [st |-> st, amount |-> amount, paid |-> amountPaid, key |-> key,
                            override |-> override, method |-> method, stripe |-> 0,
                            processed |-> 0]]
  <2>2. override \in BOOLEAN /\ amountPaid \in 0 .. Paid /\ 0 \in 0 .. Paid
    <3>1. override \in BOOLEAN
      BY Zenon DEF Sizes
    <3>2. QED
      BY <3>1 DEF Sizes, Balances
  <2>3. p.row \in Row
    BY <2>2 DEF Row, Committed
  <2>4. p \in Request /\ p.op \notin RowOps /\ Sensible(p)
    BY <2>3 DEF Request, CreateRequest, RowOps, Sensible
  <2>5. requests' = [requests EXCEPT ![q] = p] /\ UNCHANGED <<refunds, stripe>>
    BY <2>1 DEF Begin
  <2>6. QED
    BY <1>1, <2>4, <2>5, OthersComeAndGo
<1>3. ASSUME NEW r \in RefundIds, NEW amount \in 1 .. Paid, BeginApprove(q, r, amount)
      PROVE  RowsInv'
  <2> DEFINE p == [op |-> "approve", r |-> r, amount |-> amount]
  <2>1. p \in Request /\ p.op \in RowOps /\ Holds(p.op, refunds[p.r].st)
    BY <1>3 DEF BeginApprove, Request, ApproveRequest, Holds, RowOps
  <2>2. MayBegin(p.op) /\ requests' = [requests EXCEPT ![q] = p] /\ UNCHANGED <<refunds, stripe>>
    BY <1>3 DEF BeginApprove, Begin
  <2>3. QED
    BY <1>1, <2>1, <2>2, RowHandlersAlone, WorkBegins
<1>4. ASSUME NEW r \in RefundIds, BeginReject(q, r) \/ BeginCancel(q, r) \/ BeginProcess(q, r)
      PROVE  RowsInv'
  <2>1. PICK op \in {"reject", "cancel", "process"} :
          Holds(op, refunds[r].st) /\ Begin(q, [op |-> op, r |-> r])
    <3>1. refunds[r].st \in Status \cup {"none"}
      BY RowThere DEF Tables, RowsInv, NoRow
    <3>2. QED
      BY <1>4, <3>1 DEF BeginReject, BeginCancel, BeginProcess, Holds, Status, Committed
  <2> DEFINE p == [op |-> op, r |-> r]
  <2>2. p \in Request /\ p.op \in RowOps /\ Holds(p.op, refunds[p.r].st)
    BY <2>1 DEF Request, StatusRequest, RowOps
  <2>3. MayBegin(p.op) /\ requests' = [requests EXCEPT ![q] = p] /\ UNCHANGED <<refunds, stripe>>
    BY <2>1 DEF Begin
  <2>4. QED
    BY <1>1, <2>2, <2>3, RowHandlersAlone, WorkBegins
<1>5. ASSUME NEW upTo \in 1 .. Paid, BeginConsume(q, upTo)
      PROVE  RowsInv'
  <2> DEFINE p == [op |-> "consume", used |-> AtMost(upTo, credit), credit |-> credit]
  <2>1. AtMost(upTo, credit) \in Nat /\ AtMost(upTo, credit) <= credit /\ credit \in Nat
    BY DEF Balances, AtMost, Sizes
  <2>2. p \in Request /\ p.op \notin RowOps /\ Sensible(p)
    BY <2>1 DEF Request, ConsumeRequest, RowOps, Sensible
  <2>3. requests' = [requests EXCEPT ![q] = p] /\ UNCHANGED <<refunds, stripe>>
    BY <1>5 DEF BeginConsume, Begin
  <2>4. QED
    BY <1>1, <2>2, <2>3, OthersComeAndGo
<1>6. QED
  BY <1>2, <1>3, <1>4, <1>5 DEF Ask

\* A webhook that begins keeps the rows.
LEMMA DeliverKeepsRows ==
  ASSUME RefundInv, NEW q \in Slots, Deliver(q)
  PROVE  RowsInv'
<1>1. PICK x \in StripeIds : BeginWebhook(q, x)
  BY DEF Deliver
<1> DEFINE p == [op |-> "webhook", x |-> x, refunded |-> refunded]
<1>2. p \in Request /\ p.op \notin RowOps /\ Sensible(p)
  BY DEF RefundInv, Balances, Request, WebhookRequest, RowOps, Sensible
<1>3. requests' = [requests EXCEPT ![q] = p] /\ UNCHANGED <<refunds, stripe>>
  BY <1>1 DEF BeginWebhook, Begin
<1>4. QED
  BY <1>2, <1>3, OthersComeAndGo DEF RefundInv

\* A handler that ends, whatever it did to the balances.
LEMMA IdleIsOther == Idle \in Request /\ Idle.op \notin RowOps /\ Sensible(Idle)
BY DEF Idle, Request, RowOps, Sensible

\* A handler gives its row another status and ends.
LEMMA StatusWritten ==
  ASSUME RowsInv, NEW q \in Slots, Working(q), NEW r, r = requests[q].r, NEW st \in Status,
         st \notin {"completed"}, PaidFor(r) # {} => st \in Processed,
         refunds[r].st # "completed", SetStatus(q, st)
  PROVE  RowsInv'
<1>1. r \in RefundIds /\ refunds[r].st # "none"
  BY Carries DEF RowsInv, Held, Holds, Working
<1>2. refunds[r] \in Row /\ r \in Rows
  BY <1>1, RowThere DEF RowsInv
<1> DEFINE row == [refunds[r] EXCEPT !.st = st]
<1>3. /\ row \in Row /\ row.st = st /\ row.amount = refunds[r].amount
      /\ row.processed = refunds[r].processed /\ row.stripe = refunds[r].stripe
  BY <1>2 DEF Row, Status
<1>4. refunds' = [refunds EXCEPT ![r] = row]
  BY DEF SetStatus
<1>5. requests' = [requests EXCEPT ![q] = Idle] /\ UNCHANGED stripe
  BY DEF SetStatus, Finish
<1> HIDE DEF row
<1>6. row.processed = (IF row.st = "completed" THEN row.amount ELSE 0) /\ row.stripe = 0
  BY <1>2, <1>3 DEF RowsInv, RowsTell
<1>7. \A x \in PaidFor(r) : /\ row.st \in Processed
                            /\ row.amount = stripe[x].amount
                            /\ row.st = "completed" => row.stripe = x
  BY <1>3 DEF PaidFor, RowsInv, StripeTells
<1>8. QED
  BY <1>3, <1>4, <1>5, <1>6, <1>7, WorkEnds

\* Until a row is processed Stripe has paid nothing for it.
LEMMA UnpaidBefore ==
  ASSUME RowsInv, NEW r \in RefundIds, refunds[r].st \notin Processed
  PROVE  PaidFor(r) = {}
BY DEF PaidFor, RowsInv, StripeTells

\* Every step of a handler in flight keeps the rows.
LEMMA CommitKeepsRows ==
  ASSUME Sizes, RefundInv, NEW q \in Slots, Commit(q)
  PROVE  RowsInv'
<1> DEFINE r == requests[q].r
<1>0. RowsInv /\ Tables
  BY DEF RefundInv, RowsInv
<1>a. ASSUME Working(q) PROVE r \in RefundIds /\ Holds(requests[q].op, refunds[r].st)
  BY <1>0, <1>a, Carries DEF Working, RowsInv, Held
<1>1. CASE CommitCreate(q)
  <2>1. ~Working(q) /\ requests[q].op = "create"
    BY <1>1 DEF CommitCreate, Working, RowOps
  <2> DEFINE row == requests[q].row
  <2>2. row \in Row /\ row.st # "completed" /\ row.processed = 0 /\ row.stripe = 0
    BY <1>0, <2>1, Carries DEF Tables, Sensible
  <2>3. requests' = [requests EXCEPT ![q] = Idle] /\ UNCHANGED stripe
    BY <1>1 DEF CommitCreate, Finish
  <2>4. CASE UNCHANGED refunds
    BY <1>0, <2>3, <2>4, IdleIsOther, OthersComeAndGo
  <2>5. ASSUME NEW n \in RefundIds, Fresh(refunds, n), refunds' = [refunds EXCEPT ![n] = row]
        PROVE  RowsInv'
    BY <1>0, <2>1, <2>2, <2>3, <2>5, RowInserted DEF Fresh
  <2>6. QED
    BY <1>1, <2>4, <2>5 DEF CommitCreate
<1>2. CASE CommitApprove(q)
  <2>1. Working(q) /\ r \in RefundIds /\ refunds[r].st = "pending_approval"
        /\ requests[q].amount \in 1 .. Paid
    <3>1. requests[q].op = "approve" /\ Working(q)
      BY <1>2 DEF CommitApprove, Working, RowOps
    <3>2. QED
      BY <1>0, <1>a, <3>1, Carries DEF Holds
  <2>2. refunds[r] \in Row /\ r \in Rows /\ PaidFor(r) = {}
    BY <1>0, <2>1, RowThere, UnpaidBefore DEF Processed
  <2> DEFINE row == [refunds[r] EXCEPT !.st = "approved", !.amount = requests[q].amount]
  <2>3. /\ row \in Row /\ row.st = "approved" /\ row.processed = refunds[r].processed
        /\ row.stripe = refunds[r].stripe
    BY <2>1, <2>2 DEF Row, Committed
  <2>4. refunds' = [refunds EXCEPT ![r] = row]
    BY <1>0, <1>2, <2>1 DEF CommitApprove, Tables
  <2>5. requests' = [requests EXCEPT ![q] = Idle] /\ UNCHANGED stripe
    BY <1>2 DEF CommitApprove, Finish
  <2> HIDE DEF row
  <2>6. row.processed = 0 /\ row.stripe = 0
    BY <1>0, <2>1, <2>2, <2>3 DEF RowsInv, RowsTell
  <2>7. QED
    BY <1>0, <2>1, <2>2, <2>3, <2>4, <2>5, <2>6, WorkEnds
<1>3. CASE CommitReject(q) \/ CommitCancel(q)
  <2>1. Working(q) /\ requests[q].op \in {"reject", "cancel"}
    BY <1>3 DEF CommitReject, CommitCancel, Working, RowOps
  <2>2. PICK st \in {"rejected", "cancelled"} :
          SetStatus(q, st) /\ (requests[q].op = "reject" => st = "rejected")
                           /\ (requests[q].op = "cancel" => st = "cancelled")
    BY <1>3 DEF CommitReject, CommitCancel
  <2>3. r \in RefundIds /\ Holds(requests[q].op, refunds[r].st)
    BY <1>a, <2>1
  <2>4. refunds[r].st # "completed"
    BY <2>1, <2>3 DEF Holds
  <2>5. PaidFor(r) # {} => st \in Processed
    BY <1>0, <2>1, <2>2, <2>3, UnpaidBefore DEF Holds, Processed
  <2>6. QED
    BY <1>0, <2>1, <2>2, <2>4, <2>5, StatusWritten DEF Status
<1>4. CASE CommitProcessing(q)
  <2> DEFINE p == [op |-> IF refunds[r].method = "stripe" THEN "charge" ELSE "apply", r |-> r,
                   sid |-> 0, amount |-> refunds[r].amount]
  <2>1. Working(q) /\ r \in RefundIds /\ refunds[r].st = "approved"
    <3>1. requests[q].op = "process" /\ Working(q)
      BY <1>4 DEF CommitProcessing, Working, RowOps
    <3>2. QED
      BY <1>a, <3>1 DEF Holds
  <2>2. refunds[r] \in Row /\ PaidFor(r) = {}
    BY <1>0, <2>1, RowThere, UnpaidBefore DEF Processed
  <2>3. refunds[r].amount \in 1 .. Paid
    BY <2>2 DEF Row
  <2>4. p \in Request
    BY <2>1, <2>3 DEF Request, PayRequest
  <2>5. /\ refunds' = [refunds EXCEPT ![r].st = "processing"]
        /\ requests' = [requests EXCEPT ![q] = p] /\ UNCHANGED stripe
    BY <1>4 DEF CommitProcessing
  <2>6. p.op \in {"charge", "apply"} /\ p.r = r /\ p.amount = refunds[r].amount /\ p.sid = 0
    OBVIOUS
  <2> HIDE DEF p
  <2>7. QED
    BY <1>0, <2>1, <2>2, <2>4, <2>5, <2>6, WorkGoesOn
<1>5. CASE Charge(q)
  <2>1. requests[q].op = "charge" /\ requests[q] \in PayRequest
    <3>1. requests[q].op = "charge"
      BY <1>5 DEF Charge
    <3>2. QED
      BY <1>0, <3>1 DEF Tables, Request, Idle, CreateRequest, ApproveRequest, StatusRequest,
           CompleteRequest, WebhookRequest, ConsumeRequest
  <2>2. PICK x \in StripeIds :
          /\ StripePays(requests[q], x)
          /\ requests' = [requests EXCEPT ![q].op = "apply", ![q].sid = x]
    BY <1>5 DEF Charge
  <2> DEFINE p == [requests[q] EXCEPT !.op = "apply", !.sid = x]
  <2>3. p \in Request
    BY <2>1 DEF Request, PayRequest
  <2>4. requests' = [requests EXCEPT ![q] = p] /\ refunds' = refunds
    BY <1>0, <1>5, <2>2 DEF Charge, Tables
  <2>5. QED
    BY <1>0, <2>1, <2>2, <2>3, <2>4, StripeCharged DEF Sizes
<1>6. CASE ChargeFails(q)
  <2>1. requests[q].op = "charge" /\ Working(q) /\ refunds[r].st = "processing"
    <3>1. requests[q].op = "charge" /\ Working(q)
      BY <1>6 DEF ChargeFails, Working, RowOps
    <3>2. QED
      BY <1>a, <3>1 DEF Holds
  <2>2. /\ refunds' = [refunds EXCEPT ![r].st = "failed"]
        /\ requests' = [requests EXCEPT ![q] = Idle] /\ UNCHANGED <<money, crashes>>
    BY <1>6 DEF ChargeFails, Finish
  <2>3. CASE UNCHANGED stripe
    <3>1. SetStatus(q, "failed")
      BY <2>2, <2>3 DEF SetStatus, Finish
    <3>2. QED
      BY <1>0, <2>1, <3>1, StatusWritten DEF Status, Processed
  <2>4. ASSUME NEW x \in StripeIds, StripePays(requests[q], x)
        PROVE  RowsInv'
    BY <1>0, <2>1, <2>2, <2>4, IdleIsOther, StripeCharged DEF Sizes
  <2>5. QED
    BY <1>6, <2>3, <2>4 DEF ChargeFails
<1>7. CASE ReadFinancials(q)
  <2> DEFINE p == [op |-> "complete", r |-> r, sid |-> requests[q].sid, amount |-> requests[q].amount,
                   amountPaid |-> amountPaid, refunded |-> refunded, credit |-> credit]
  <2>1. requests[q].op = "apply" /\ Working(q)
    BY <1>7 DEF ReadFinancials, Working, RowOps
  <2>2. /\ r \in RefundIds /\ refunds[r].st = "processing"
        /\ requests[q].sid \in StripeIds \cup {0} /\ requests[q].amount \in 1 .. Paid
    BY <1>0, <1>a, <2>1, Carries DEF Holds
  <2>3. requests[q].amount = refunds[r].amount /\ PaidFor(r) = {requests[q].sid} \ {0}
    BY <1>0, <2>1 DEF RowsInv, Held
  <2>4. p \in Request
    BY <2>2 DEF Request, CompleteRequest, RefundInv, Balances
  <2>5. requests' = [requests EXCEPT ![q] = p] /\ refunds' = refunds /\ UNCHANGED stripe
    BY <1>7 DEF ReadFinancials
  <2>6. refunds' = [refunds EXCEPT ![r].st = "processing"]
    <3>1. refunds[r] = [refunds[r] EXCEPT !.st = "processing"]
      <4>1. refunds[r] \in Row
        BY <1>0, <2>2, RowThere
      <4>2. QED
        BY <2>2, <4>1 DEF Row
    <3>2. QED
      BY <1>0, <2>2, <2>5, <3>1 DEF Tables
  <2>7. p.op = "complete" /\ p.r = r /\ p.amount = requests[q].amount /\ p.sid = requests[q].sid
    OBVIOUS
  <2> HIDE DEF p
  <2>8. QED
    BY <1>0, <2>1, <2>2, <2>3, <2>4, <2>5, <2>6, <2>7, WorkGoesOn
<1>8. CASE Complete(q)
  <2> DEFINE p == requests[q]
  <2>1. requests[q].op = "complete" /\ Working(q)
    BY <1>8 DEF Complete, Working, RowOps
  <2>2. /\ r \in RefundIds /\ refunds[r].st = "processing"
        /\ p.sid \in StripeIds \cup {0} /\ p.amount \in 1 .. Paid
    BY <1>0, <1>a, <2>1, Carries DEF Holds
  <2>3. p.amount = refunds[r].amount /\ PaidFor(r) = {p.sid} \ {0}
    BY <1>0, <2>1 DEF RowsInv, Held
  <2>4. refunds[r] \in Row /\ r \in Rows
    BY <1>0, <2>2, RowThere
  <2> DEFINE row == [refunds[r] EXCEPT !.st = "completed", !.processed = p.amount,
                                       !.stripe = p.sid]
  <2>5. refunds[r].stripe = 0
    BY <1>0, <2>2, <2>4 DEF RowsInv, RowsTell
  <2>6. /\ row \in Row /\ row.st = "completed" /\ row.processed = p.amount
        /\ row.amount = refunds[r].amount /\ row.stripe = p.sid
    <3>1. p.amount \in 0 .. Paid
      BY <2>2 DEF Sizes
    <3>2. QED
      BY <2>2, <2>4, <3>1 DEF Row, Committed
  <2>7. /\ refunds' = [refunds EXCEPT ![r] = row]
        /\ requests' = [requests EXCEPT ![q] = Idle] /\ UNCHANGED stripe
    <3>1. refunds' = [refunds EXCEPT ![r].st = "completed", ![r].processed = p.amount,
                                     ![r].stripe = IF p.sid = 0 THEN @ ELSE p.sid]
      BY <1>8 DEF Complete
    <3>2. (IF p.sid = 0 THEN refunds[r].stripe ELSE p.sid) = p.sid
      BY <2>5
    <3>3. refunds' = [refunds EXCEPT ![r] = row]
      BY <1>0, <2>2, <3>1, <3>2 DEF Tables
    <3>4. QED
      BY <1>8, <3>3 DEF Complete, Finish
  <2> HIDE DEF row
  <2>8. p.sid # 0 => stripe[p.sid].st = "refunded" /\ \A s \in Rows \ {r} : refunds[s].stripe # p.sid
    BY <1>8, <2>3 DEF Complete, SidTaken, PaidFor
  <2>9. \A x \in PaidFor(r) : row.amount = stripe[x].amount /\ row.stripe = x
    BY <1>0, <2>3, <2>6 DEF RowsInv, StripeTells, PaidFor
  <2>10. row.processed = IF row.st = "completed" THEN row.amount ELSE 0
    BY <2>3, <2>6
  <2>11. row.stripe # 0 =>
           /\ row.st = "completed" /\ stripe[row.stripe].st = "refunded"
           /\ \A s \in Rows \ {r} : refunds[s].stripe # row.stripe
    BY <2>6, <2>8
  <2>12. \A x \in PaidFor(r) : /\ row.st \in Processed
                               /\ row.amount = stripe[x].amount
                               /\ row.st = "completed" => row.stripe = x
    BY <2>6, <2>9 DEF Processed
  <2> HIDE DEF p
  <2>13. QED
    BY <1>0, <2>1, <2>6, <2>7, <2>10, <2>11, <2>12, WorkEnds
<1>9. CASE CompleteFails(q)
  <2>1. requests[q].op = "complete" /\ Working(q) /\ SetStatus(q, "failed")
    BY <1>9 DEF CompleteFails, Working, RowOps
  <2>2. refunds[r].st = "processing"
    BY <1>a, <2>1 DEF Holds
  <2>3. QED
    BY <1>0, <2>1, <2>2, StatusWritten DEF Status, Processed
<1>10. CASE CommitWebhook(q)
  <2> DEFINE x == requests[q].x
  <2>1. requests[q].op = "webhook" /\ ~Working(q) /\ x \in StripeIds
    BY <1>0, <1>10, Carries DEF CommitWebhook, Working, RowOps
  <2>2. requests' = [requests EXCEPT ![q] = Idle] /\ UNCHANGED stripe
    BY <1>10 DEF CommitWebhook, Finish
  <2>3. CASE UNCHANGED refunds
    BY <1>0, <2>2, <2>3, IdleIsOther, OthersComeAndGo
  <2> DEFINE row == [st |-> "completed", amount |-> stripe[x].amount, paid |-> Paid, key |-> 0,
                     override |-> FALSE, method |-> "stripe", stripe |-> x,
                     processed |-> stripe[x].amount]
  <2>4. ASSUME ~Recorded(x), NEW n \in RefundIds, Fresh(refunds, n),
               refunds' = [refunds EXCEPT ![n] = row]
        PROVE  RowsInv'
    <3>1. stripe[x].st = "refunded" /\ stripe[x].amount \in 1 .. Paid
      BY <1>0, <2>1, PaidThere DEF RefundInv, Delivered
    <3>2. row \in Row /\ row.st = "completed" /\ row.processed = row.amount /\ row.stripe = x
      BY <2>1, <3>1 DEF Row, Committed, Sizes
    <3> HIDE DEF row
    <3>3. QED
      BY <1>0, <2>1, <2>2, <2>4, <3>1, <3>2, RowInserted DEF Fresh, Recorded
  <2>5. QED
    BY <1>10, <2>3, <2>4 DEF CommitWebhook
<1>11. CASE CommitConsume(q)
  <2>1. requests' = [requests EXCEPT ![q] = Idle] /\ UNCHANGED <<refunds, stripe>>
    BY <1>11 DEF CommitConsume, Finish
  <2>2. QED
    BY <1>0, <2>1, IdleIsOther, OthersComeAndGo
<1>12. QED
  BY <1>1, <1>2, <1>3, <1>4, <1>5, <1>6, <1>7, <1>8, <1>9, <1>10, <1>11 DEF Commit

-----------------------------------------------------------------------------
(* The inductive invariant.                                                *)

\* A handler begins as p, which charges nothing yet and knows the credit there is.
Tells(q, p) ==
  /\ Begin(q, p) /\ p.op \notin {"webhook", "apply", "complete"}
  /\ p.op = "consume" => p.credit = credit

\* A request begins, whichever it is: nothing but requests changes, of which a webhook's
\* delivers what Stripe paid.
LEMMA AskTells ==
  ASSUME NEW q, Ask(q)
  PROVE  \E p : Tells(q, p)
<1> USE DEF Tells
<1>1. ASSUME NEW p, Tells(q, p)
      PROVE  \E req : Tells(q, req)
  BY <1>1
<1>2. ASSUME NEW method, NEW amount, NEW override, BeginCreate(q, method, amount, override)
      PROVE  \E p : Tells(q, p)
  <2>1. PICK key, st :
          Begin(q, [op |-> "create",
                    row |-> [st |-> st, amount |-> amount, paid |-> amountPaid, key |-> key,
                             override |-> override, method |-> method, stripe |-> 0,
                             processed |-> 0]])
    BY <1>2 DEF BeginCreate
  <2>2. QED
    BY <1>1, <2>1
<1>3. ASSUME NEW r, NEW amount, BeginApprove(q, r, amount)
      PROVE  \E p : Tells(q, p)
  BY <1>1, <1>3 DEF BeginApprove
<1>4. ASSUME NEW r, BeginReject(q, r) \/ BeginCancel(q, r) \/ BeginProcess(q, r)
      PROVE  \E p : Tells(q, p)
  BY <1>1, <1>4 DEF BeginReject, BeginCancel, BeginProcess
<1>5. ASSUME NEW upTo, BeginConsume(q, upTo)
      PROVE  \E p : Tells(q, p)
  BY <1>1, <1>5 DEF BeginConsume
<1>6. QED
  BY <1>2, <1>3, <1>4, <1>5 DEF Ask

\* The same, without the credit.
LEMMA AskBegins ==
  ASSUME NEW q, Ask(q)
  PROVE  \E p : Begin(q, p) /\ p.op \notin {"webhook", "apply", "complete"}
BY AskTells DEF Tells

\* What Stripe paid back stays paid back.
LEMMA StripeKeeps ==
  ASSUME RefundInv, Next, NEW x \in StripeIds, stripe[x].st = "refunded"
  PROVE  stripe'[x] = stripe[x]
<1>1. CASE UNCHANGED stripe
  BY <1>1
<1>2. ASSUME NEW q \in Slots, NEW y \in StripeIds, StripePays(requests[q], y)
      PROVE  stripe'[x] = stripe[x]
  BY <1>2 DEF StripePays, Fresh, RefundInv, RowsInv, Tables
<1>3. ASSUME NEW q \in Slots, Commit(q)
      PROVE  stripe'[x] = stripe[x]
  <2>1. CASE Charge(q) \/ ChargeFails(q)
    BY <1>1, <1>2, <2>1 DEF Charge, ChargeFails
  <2>2. CASE ~(Charge(q) \/ ChargeFails(q))
    BY <1>1, <1>3, <2>2 DEF Commit, CommitCreate, CommitApprove, CommitReject, CommitCancel,
         SetStatus, CommitProcessing, ReadFinancials, Complete, CompleteFails, CommitWebhook,
         CommitConsume
  <2>3. QED
    BY <2>1, <2>2
<1>4. ASSUME NEW q, Ask(q) \/ Deliver(q) \/ Crash(q)
      PROVE  UNCHANGED stripe
  BY <1>4, AskBegins DEF Begin, Deliver, BeginWebhook, Crash
<1>5. QED
  BY <1>1, <1>3, <1>4 DEF Next

\* Webhooks in flight go on delivering what Stripe paid.
LEMMA DeliveredKept ==
  ASSUME RefundInv, Next
  PROVE  Delivered'
<1>1. ASSUME NEW s \in Slots, requests[s].op = "webhook", requests'[s] = requests[s]
      PROVE  stripe'[requests'[s].x].st = "refunded"
  <2>1. requests[s].x \in StripeIds /\ stripe[requests[s].x].st = "refunded"
    BY <1>1, Carries DEF RefundInv, RowsInv, Delivered
  <2>2. QED
    BY <1>1, <2>1, StripeKeeps
<1>2. ASSUME NEW q, NEW p, p.op # "webhook", requests' = [requests EXCEPT ![q] = p]
      PROVE  Delivered'
  <2> SUFFICES ASSUME NEW s \in Slots, requests'[s].op = "webhook"
               PROVE  stripe'[requests'[s].x].st = "refunded"
    BY DEF Delivered, Slots
  <2>1. requests'[s] = requests[s]
    BY <1>2 DEF RefundInv, RowsInv, Tables
  <2>2. QED
    BY <1>1, <2>1
<1>3. ASSUME NEW q \in Requests, Ask(q)
      PROVE  Delivered'
  BY <1>2, <1>3, AskBegins DEF Begin
<1>4. ASSUME NEW q \in Hooks, Deliver(q)
      PROVE  Delivered'
  <2>1. PICK x \in StripeIds : BeginWebhook(q, x)
    BY <1>4 DEF Deliver
  <2>2. /\ stripe[x].st = "refunded" /\ UNCHANGED stripe
        /\ requests' = [requests EXCEPT ![q] = [op |-> "webhook", x |-> x, refunded |-> refunded]]
    BY <2>1, PaidThere DEF BeginWebhook, Begin, RefundInv, RowsInv
  <2> SUFFICES ASSUME NEW s \in Slots, requests'[s].op = "webhook"
               PROVE  stripe'[requests'[s].x].st = "refunded"
    BY DEF Delivered, Slots
  <2>3. CASE s = q
    BY <2>2, <2>3 DEF RefundInv, RowsInv, Tables
  <2>4. CASE s # q
    BY <1>1, <2>2, <2>4 DEF RefundInv, RowsInv, Tables
  <2>5. QED
    BY <2>3, <2>4
<1>5. ASSUME NEW q \in Slots, Commit(q) \/ Crash(q)
      PROVE  Delivered'
  <2>1. CASE requests' = [requests EXCEPT ![q] = Idle]
    BY <1>2, <2>1 DEF Idle
  <2>2. CASE CommitProcessing(q)
    <3>1. (IF refunds[requests[q].r].method = "stripe" THEN "charge" ELSE "apply") # "webhook"
      OBVIOUS
    <3>2. QED
      BY <1>2, <2>2, <3>1 DEF CommitProcessing
  <2>3. CASE ReadFinancials(q)
    BY <1>2, <2>3 DEF ReadFinancials
  <2>4. CASE Charge(q)
    <3>1. PICK x \in StripeIds : requests' = [requests EXCEPT ![q].op = "apply", ![q].sid = x]
      BY <2>4 DEF Charge
    <3> DEFINE p == [requests[q] EXCEPT !.op = "apply", !.sid = x]
    <3>2. requests' = [requests EXCEPT ![q] = p]
      BY <3>1 DEF RefundInv, RowsInv, Tables
    <3>3. p.op # "webhook"
      <4>1. requests[q] \in PayRequest
        BY <2>4 DEF Charge, RefundInv, RowsInv, Tables, Request, Idle, CreateRequest,
             ApproveRequest, StatusRequest, CompleteRequest, WebhookRequest, ConsumeRequest
      <4>2. QED
        BY <4>1 DEF PayRequest
    <3> HIDE DEF p
    <3>4. QED
      BY <1>2, <3>2, <3>3
  <2>5. QED
    BY <1>5, <2>1, <2>2, <2>3, <2>4 DEF Commit, Crash, Finish, CommitCreate, CommitApprove,
         CommitReject, CommitCancel, SetStatus, ChargeFails, Complete, CompleteFails,
         CommitWebhook, CommitConsume
<1>6. QED
  BY <1>3, <1>4, <1>5 DEF Next

\* Balances keep their types.
LEMMA BalancesKept ==
  ASSUME Sizes, RefundInv, Next
  PROVE  Balances'
<1> USE DEF Balances
<1>1. CASE UNCHANGED <<money, crashes>>
  BY <1>1 DEF RefundInv, money
<1>2. ASSUME NEW q \in Slots, Complete(q)
      PROVE  Balances'
  <2> DEFINE p == requests[q]
  <2>1. /\ p.amount \in 1 .. Paid /\ p.amountPaid \in 0 .. Paid /\ p.refunded \in 0 .. Paid
        /\ p.credit \in Nat
    BY <1>2, Carries DEF Complete, RefundInv, RowsInv
  <2>2. amountPaid' \in 0 .. Paid
    BY <1>2, <2>1 DEF Complete, NotBelowZero, RefundInv, Sizes
  <2>3. refunded' \in 0 .. Paid
    <3>1. AtMost(p.refunded + p.amount, Paid) \in 0 .. Paid
      BY <2>1 DEF AtMost, Sizes
    <3>2. QED
      BY <1>2, <3>1 DEF Complete, NewRefunded, RefundInv
  <2>4. credit' \in Nat
    BY <1>2, <2>1 DEF Complete, NewCredit, RefundInv
  <2>5. QED
    BY <1>2, <2>2, <2>3, <2>4 DEF Complete, RefundInv
<1>3. ASSUME NEW q \in Slots, CommitWebhook(q)
      PROVE  Balances'
  <2>1. requests[q].refunded \in 0 .. Paid /\ stripe[requests[q].x].amount \in 1 .. Paid
    BY <1>3, Carries, PaidThere DEF CommitWebhook, RefundInv, RowsInv, Delivered
  <2>2. AtMost(requests[q].refunded + stripe[requests[q].x].amount, Paid) \in 0 .. Paid
    BY <2>1 DEF AtMost, Sizes
  <2>3. QED
    BY <1>3, <2>2 DEF CommitWebhook, RefundInv
<1>4. ASSUME NEW q \in Slots, CommitConsume(q)
      PROVE  Balances'
  <2>1. /\ requests[q].used \in Nat /\ requests[q].credit \in Nat
        /\ requests[q].used <= requests[q].credit
    BY <1>4, Carries DEF CommitConsume, RefundInv, RowsInv
  <2>2. QED
    BY <1>4, <2>1 DEF CommitConsume, RefundInv
<1>5. ASSUME NEW q \in Slots, Crash(q)
      PROVE  Balances'
  BY <1>5 DEF Crash, money, RefundInv, Sizes
<1>6. ASSUME NEW q \in Slots, Commit(q)
      PROVE  Balances'
  BY <1>1, <1>2, <1>3, <1>4, <1>6 DEF Commit, CommitCreate, CommitApprove, CommitReject,
       CommitCancel, SetStatus, CommitProcessing, Charge, ChargeFails, ReadFinancials, CompleteFails
<1>7. ASSUME NEW q, Ask(q) \/ Deliver(q)
      PROVE  Balances'
  BY <1>1, <1>7, AskBegins DEF Begin, Deliver, BeginWebhook
<1>8. QED
  BY <1>5, <1>6, <1>7 DEF Next

\* Every step keeps the rows.
LEMMA RowsKept ==
  ASSUME Sizes, RowsOneAtATime, RefundInv, Next
  PROVE  RowsInv'
<1>1. ASSUME NEW q \in Slots, Crash(q)
      PROVE  RowsInv'
  BY <1>1, IdleIsOther, OthersComeAndGo DEF Crash, Finish, RefundInv
<1>2. QED
  BY <1>1, AskKeepsRows, DeliverKeepsRows, CommitKeepsRows DEF Next, Slots

\* The invariant holds of the empty tables.
LEMMA RefundInvInit ==
  ASSUME Sizes, Init
  PROVE  RefundInv
<1>1. Balances
  BY DEF Sizes, Init, Balances
<1>2. Tables
  BY DEF Init, Tables, Sensible, Idle, Request
<1>3. OneWorks /\ Held /\ Delivered
  BY DEF Init, OneWorks, Held, Delivered, Working, Idle, RowOps
<1>4. Rows = {}
  BY DEF Init, Rows, NoRow
<1>5. RowsTell /\ OneRowPerSid
  BY <1>4 DEF RowsTell, OneRowPerSid
<1>6. StripeTells /\ StripeOnce
  BY DEF Init, StripeTells, StripeOnce, NoRow
<1>7. QED
  BY <1>1, <1>2, <1>3, <1>5, <1>6 DEF RefundInv, RowsInv

\* Every step keeps the invariant.
LEMMA RefundInvStep ==
  ASSUME Sizes, RowsOneAtATime, RefundInv, [Next]_vars
  PROVE  RefundInv'
<1>1. CASE Next
  BY <1>1, BalancesKept, DeliveredKept, RowsKept DEF RefundInv
<1>2. CASE UNCHANGED vars
  BY <1>2 DEF vars, money, RefundInv, Balances, Delivered, RowsInv, Tables, OneWorks, Working,
       RowsTell, OneRowPerSid, Held, PaidFor, StripeTells, StripeOnce, Rows, Slots
<1>3. QED
  BY <1>1, <1>2

\* While one handler at a time acts on existing rows, whatever creates, webhooks and uses
\* of credit overlap it and wherever handlers are killed: rows, handlers in flight and
\* Stripe's records agree.
THEOREM RefundInductive ==
  ASSUME Sizes, RowsOneAtATime
  PROVE  Spec => []RefundInv
<1>1. Init => RefundInv
  BY RefundInvInit
<1>2. RefundInv /\ [Next]_vars => RefundInv'
  BY RefundInvStep
<1>3. QED
  BY <1>1, <1>2, PTL DEF Spec

\* Rows, balances and what is in flight have their types.
THEOREM TypeCorrect ==
  ASSUME Sizes, RowsOneAtATime
  PROVE  Spec => []TypeOK
<1>1. RefundInv => TypeOK
  BY DEF RefundInv, Balances, RowsInv, Tables, PaidBack, TypeOK
<1>2. QED
  BY <1>1, RefundInductive, PTL

\* process_refund asks Stripe at most once for each refund, with Stripe's answers lost and
\* handlers killed between the payment and its record.
THEOREM ChargesOnce ==
  ASSUME Sizes, RowsOneAtATime
  PROVE  Spec => []StripeOnce
<1>1. RefundInv => StripeOnce
  BY DEF RefundInv, RowsInv
<1>2. QED
  BY <1>1, RefundInductive, PTL

\* A step that writes a row that is there is the last commit of the handler that works on
\* it, or marks it processing.
LEMMA WritesHeldRow ==
  ASSUME RefundInv, Next, NEW r \in RefundIds, refunds[r].st = "completed"
  PROVE  refunds'[r] = refunds[r]
<1>1. ASSUME NEW q \in Slots, Working(q)
      PROVE  requests[q].r # r /\ requests[q].r \in RefundIds
  <2>1. refunds[requests[q].r].st # "completed" /\ requests[q].r \in RefundIds
    BY <1>1, Carries DEF RefundInv, RowsInv, Held, Holds, Working
  <2>2. QED
    BY <2>1
<1>2. CASE UNCHANGED refunds
  BY <1>2
<1>3. ASSUME NEW q, Ask(q) \/ Deliver(q) \/ Crash(q)
      PROVE  UNCHANGED refunds
  BY <1>3, AskBegins DEF Begin, Deliver, BeginWebhook, Crash
<1>4. ASSUME NEW q \in Slots, CommitCreate(q) \/ CommitWebhook(q)
      PROVE  refunds'[r] = refunds[r]
  BY <1>2, <1>4 DEF CommitCreate, CommitWebhook, Fresh, RefundInv, RowsInv, Tables
<1>5. ASSUME NEW q \in Slots, CommitApprove(q)
      PROVE  refunds'[r] = refunds[r]
  BY <1>1, <1>5 DEF CommitApprove, Working, RowOps, RefundInv, RowsInv, Tables
<1>6. ASSUME NEW q \in Slots, CommitReject(q) \/ CommitCancel(q) \/ CompleteFails(q)
      PROVE  refunds'[r] = refunds[r]
  BY <1>1, <1>6 DEF CommitReject, CommitCancel, CompleteFails, SetStatus, Working, RowOps,
       RefundInv, RowsInv, Tables
<1>7. ASSUME NEW q \in Slots, CommitProcessing(q) \/ ChargeFails(q)
      PROVE  refunds'[r] = refunds[r]
  BY <1>1, <1>7 DEF CommitProcessing, ChargeFails, Working, RowOps, RefundInv, RowsInv, Tables
<1>8. ASSUME NEW q \in Slots, Complete(q)
      PROVE  refunds'[r] = refunds[r]
  BY <1>1, <1>8 DEF Complete, Working, RowOps, RefundInv, RowsInv, Tables
<1>9. ASSUME NEW q \in Slots, Commit(q)
      PROVE  refunds'[r] = refunds[r]
  BY <1>2, <1>4, <1>5, <1>6, <1>7, <1>8, <1>9 DEF Commit, Charge, ReadFinancials, CommitConsume
<1>10. QED
  BY <1>2, <1>3, <1>9 DEF Next

\* A refund paid out keeps its status and its amount, whatever is asked for it afterwards.
THEOREM PaidOutStays ==
  ASSUME Sizes, RowsOneAtATime
  PROVE  Spec => CompletedIsFinal
<1>1. RefundInv /\ [Next]_vars => [KeepsCompleted]_vars
  BY WritesHeldRow DEF KeepsCompleted
<1>2. QED
  BY <1>1, RefundInductive, PTL DEF Spec, CompletedIsFinal

-----------------------------------------------------------------------------
(* What is paid back fits in what was paid.                                *)

\* How a row that is there changes in a step.
LEMMA RowEvolves ==
  ASSUME RefundInv, Next, NEW r \in Rows
  PROVE  /\ refunds'[r].st # "none" /\ refunds'[r].override = refunds[r].override
         /\ refunds'[r].method = refunds[r].method
         /\ refunds[r].st # "pending_approval" => refunds'[r].amount = refunds[r].amount
         /\ refunds[r].st \in {"failed", "cancelled"} => refunds'[r].st \in {"failed", "cancelled"}
         /\ refunds'[r].st \in {"processing", "completed"} =>
              \/ refunds[r].st \in {"processing", "completed"}
              \/ \E q \in Slots : CommitProcessing(q) /\ requests[q].r = r
         /\ refunds'[r].st = "completed" =>
              refunds[r].st = "completed" \/ \E q \in Slots : Complete(q) /\ requests[q].r = r
         /\ refunds[r].st = "processing" =>
              \/ refunds'[r].st \in {"processing", "completed"}
              \/ \E q \in Slots : (ChargeFails(q) \/ CompleteFails(q)) /\ requests[q].r = r
<1> DEFINE Evolves ==
      /\ refunds'[r].st # "none" /\ refunds'[r].override = refunds[r].override
      /\ refunds'[r].method = refunds[r].method
      /\ refunds[r].st # "pending_approval" => refunds'[r].amount = refunds[r].amount
      /\ refunds[r].st \in {"failed", "cancelled"} => refunds'[r].st \in {"failed", "cancelled"}
      /\ refunds'[r].st \in {"processing", "completed"} =>
           \/ refunds[r].st \in {"processing", "completed"}
           \/ \E q \in Slots : CommitProcessing(q) /\ requests[q].r = r
      /\ refunds'[r].st = "completed" =>
           refunds[r].st = "completed" \/ \E q \in Slots : Complete(q) /\ requests[q].r = r
      /\ refunds[r].st = "processing" =>
           \/ refunds'[r].st \in {"processing", "completed"}
           \/ \E q \in Slots : (ChargeFails(q) \/ CompleteFails(q)) /\ requests[q].r = r
<1>1. refunds[r] \in Row /\ refunds[r].st # "none" /\ r \in RefundIds
  BY RowThere DEF Rows, RefundInv, RowsInv
<1>2. CASE refunds'[r] = refunds[r]
  BY <1>1, <1>2
<1>3. ASSUME NEW q, Ask(q) \/ Deliver(q) \/ Crash(q)
      PROVE  Evolves
  BY <1>2, <1>3, AskBegins DEF Begin, Deliver, BeginWebhook, Crash
<1>4. ASSUME NEW q \in Slots, CommitCreate(q) \/ CommitWebhook(q)
      PROVE  Evolves
  <2>1. refunds'[r] = refunds[r]
    BY <1>1, <1>4 DEF CommitCreate, CommitWebhook, Fresh, RefundInv, RowsInv, Tables
  <2>2. QED
    BY <1>2, <2>1
<1>5. ASSUME NEW q \in Slots, Working(q)
      PROVE  requests[q].r \in RefundIds /\ Holds(requests[q].op, refunds[requests[q].r].st)
  BY <1>5, Carries DEF RefundInv, RowsInv, Held, Working
<1>6. ASSUME NEW q \in Slots, CommitApprove(q)
      PROVE  Evolves
  <2>1. Working(q) /\ requests[q].op = "approve"
    BY <1>6 DEF CommitApprove, Working, RowOps
  <2>2. /\ requests[q].r \in RefundIds /\ refunds[requests[q].r].st = "pending_approval"
        /\ requests[q].amount \in 1 .. Paid
    BY <1>5, <2>1, Carries DEF Holds, RefundInv, RowsInv
  <2>3. CASE requests[q].r = r
    <3>1. refunds'[r] = [refunds[r] EXCEPT !.st = "approved", !.amount = requests[q].amount]
      BY <1>1, <1>6, <2>3 DEF CommitApprove, RefundInv, RowsInv, Tables
    <3>2. QED
      BY <1>1, <2>2, <2>3, <3>1 DEF Row
  <2>4. CASE requests[q].r # r
    <3>1. refunds'[r] = refunds[r]
      BY <1>1, <1>6, <2>4 DEF CommitApprove, RefundInv, RowsInv, Tables
    <3>2. QED
      BY <1>2, <3>1
  <2>5. QED
    BY <2>3, <2>4
<1>7. ASSUME NEW q \in Slots, NEW st \in {"rejected", "cancelled", "failed"}, Working(q),
             refunds' = [refunds EXCEPT ![requests[q].r].st = st],
             \/ requests[q].op = "reject" /\ st = "rejected"
             \/ requests[q].op = "cancel" /\ st = "cancelled"
             \/ /\ requests[q].op \in {"charge", "complete"} /\ st = "failed"
                /\ ChargeFails(q) \/ CompleteFails(q)
      PROVE  Evolves
  <2>1. requests[q].r \in RefundIds /\ Holds(requests[q].op, refunds[requests[q].r].st)
    BY <1>5, <1>7
  <2>2. CASE requests[q].r = r
    <3>1. refunds'[r] = [refunds[r] EXCEPT !.st = st]
      BY <1>1, <1>7, <2>2 DEF RefundInv, RowsInv, Tables
    <3>2. /\ refunds'[r].st = st /\ refunds'[r].override = refunds[r].override
          /\ refunds'[r].amount = refunds[r].amount /\ refunds'[r].method = refunds[r].method
      BY <1>1, <3>1 DEF Row
    <3>3. QED
      BY <1>7, <2>1, <2>2, <3>2 DEF Holds
  <2>3. CASE requests[q].r # r
    <3>1. refunds'[r] = refunds[r]
      BY <1>1, <1>7, <2>3 DEF RefundInv, RowsInv, Tables
    <3>2. QED
      BY <1>2, <3>1
  <2>4. QED
    BY <2>2, <2>3
<1>8. ASSUME NEW q \in Slots,
             CommitReject(q) \/ CommitCancel(q) \/ CompleteFails(q) \/ ChargeFails(q)
      PROVE  Evolves
  <2>1. Working(q)
    BY <1>8 DEF CommitReject, CommitCancel, CompleteFails, ChargeFails, Working, RowOps
  <2>2. CASE CommitReject(q)
    BY <1>7, <2>1, <2>2 DEF CommitReject, SetStatus
  <2>3. CASE CommitCancel(q)
    BY <1>7, <2>1, <2>3 DEF CommitCancel, SetStatus
  <2>4. CASE CompleteFails(q)
    BY <1>7, <2>1, <2>4 DEF CompleteFails, SetStatus
  <2>5. CASE ChargeFails(q)
    BY <1>7, <2>1, <2>5 DEF ChargeFails
  <2>6. QED
    BY <1>8, <2>2, <2>3, <2>4, <2>5
<1>9. ASSUME NEW q \in Slots, CommitProcessing(q)
      PROVE  Evolves
  <2>1. Working(q) /\ requests[q].op = "process"
    BY <1>9 DEF CommitProcessing, Working, RowOps
  <2>2. requests[q].r \in RefundIds /\ refunds[requests[q].r].st = "approved"
    BY <1>5, <2>1 DEF Holds
  <2>3. CASE requests[q].r = r
    <3>1. refunds'[r] = [refunds[r] EXCEPT !.st = "processing"]
      BY <1>1, <1>9, <2>3 DEF CommitProcessing, RefundInv, RowsInv, Tables
    <3>2. /\ refunds'[r].st = "processing" /\ refunds'[r].override = refunds[r].override
          /\ refunds'[r].amount = refunds[r].amount /\ refunds'[r].method = refunds[r].method
      BY <1>1, <3>1 DEF Row
    <3>3. QED
      BY <1>9, <2>2, <2>3, <3>2
  <2>4. CASE requests[q].r # r
    <3>1. refunds'[r] = refunds[r]
      BY <1>1, <1>9, <2>4 DEF CommitProcessing, RefundInv, RowsInv, Tables
    <3>2. QED
      BY <1>2, <3>1
  <2>5. QED
    BY <2>3, <2>4
<1>10. ASSUME NEW q \in Slots, Complete(q)
       PROVE  Evolves
  <2>1. Working(q) /\ requests[q].op = "complete"
    BY <1>10 DEF Complete, Working, RowOps
  <2>2. requests[q].r \in RefundIds /\ refunds[requests[q].r].st = "processing"
    BY <1>5, <2>1 DEF Holds
  <2>3. CASE requests[q].r = r
    <3>1. refunds'[r] = [refunds[r] EXCEPT
            !.st = "completed", !.processed = requests[q].amount,
            !.stripe = IF requests[q].sid = 0 THEN @ ELSE requests[q].sid]
      BY <1>1, <1>10, <2>3 DEF Complete, RefundInv, RowsInv, Tables
    <3>2. /\ refunds'[r].st = "completed" /\ refunds'[r].override = refunds[r].override
          /\ refunds'[r].amount = refunds[r].amount /\ refunds'[r].method = refunds[r].method
      BY <1>1, <3>1 DEF Row
    <3>3. QED
      BY <1>10, <2>2, <2>3, <3>2
  <2>4. CASE requests[q].r # r
    <3>1. refunds'[r] = refunds[r]
      BY <1>1, <1>10, <2>4 DEF Complete, RefundInv, RowsInv, Tables
    <3>2. QED
      BY <1>2, <3>1
  <2>5. QED
    BY <2>3, <2>4
<1>11. ASSUME NEW q \in Slots, Charge(q) \/ ReadFinancials(q) \/ CommitConsume(q)
       PROVE  Evolves
  BY <1>2, <1>11 DEF Charge, ReadFinancials, CommitConsume
<1> HIDE DEF Evolves
<1>12. Evolves
  <2>1. ASSUME NEW q \in Slots, Commit(q)
        PROVE  Evolves
    BY <1>4, <1>6, <1>8, <1>9, <1>10, <1>11, <2>1 DEF Commit
  <2>2. QED
    BY <1>3, <2>1 DEF Next
<1>13. QED
  BY <1>12 DEF Evolves

\* A new row is an open refund or one a webhook records.
LEMMA NewRows ==
  ASSUME RefundInv, Next, NEW r \in RefundIds, r \notin Rows, refunds'[r].st # "none"
  PROVE  \/ refunds'[r].st \in {"pending_approval", "approved"}
         \/ \E q \in Slots : CommitWebhook(q)
<1>1. refunds[r].st = "none" /\ refunds[r] # refunds'[r]
  BY DEF Rows
<1>2. ASSUME NEW q, Ask(q) \/ Deliver(q) \/ Crash(q)
      PROVE  FALSE
  BY <1>1, <1>2, AskBegins DEF Begin, Deliver, BeginWebhook, Crash
<1>3. ASSUME NEW q \in Slots, Working(q)
      PROVE  requests[q].r \in RefundIds /\ requests[q].r # r
  BY <1>1, <1>3, Carries DEF RefundInv, RowsInv, Held, Working, Holds
<1>4. ASSUME NEW q \in Slots, CommitCreate(q)
      PROVE  refunds'[r].st \in {"pending_approval", "approved"}
  <2>1. requests[q].row.st \in {"pending_approval", "approved"}
    BY <1>4 DEF CommitCreate, RefundInv, RowsInv, Tables, Sensible
  <2>2. PICK n \in RefundIds : refunds' = [refunds EXCEPT ![n] = requests[q].row]
    BY <1>1, <1>4 DEF CommitCreate
  <2>3. QED
    BY <1>1, <2>1, <2>2 DEF RefundInv, RowsInv, Tables
<1>5. ASSUME NEW q \in Slots, Commit(q), ~CommitCreate(q), ~CommitWebhook(q)
      PROVE  FALSE
  <2>1. CASE CommitApprove(q) \/ CommitReject(q) \/ CommitCancel(q)
    BY <1>1, <1>3, <2>1 DEF CommitApprove, CommitReject, CommitCancel, SetStatus, Working, RowOps,
         RefundInv, RowsInv, Tables
  <2>2. CASE CommitProcessing(q) \/ Charge(q) \/ ChargeFails(q) \/ ReadFinancials(q)
    BY <1>1, <1>3, <2>2 DEF CommitProcessing, Charge, ChargeFails, ReadFinancials, Working, RowOps,
         RefundInv, RowsInv, Tables
  <2>3. CASE Complete(q) \/ CompleteFails(q) \/ CommitConsume(q)
    BY <1>1, <1>3, <2>3 DEF Complete, CompleteFails, CommitConsume, SetStatus, Working, RowOps,
         RefundInv, RowsInv, Tables
  <2>4. QED
    BY <1>5, <2>1, <2>2, <2>3 DEF Commit
<1>6. QED
  BY <1>2, <1>4, <1>5 DEF Next

\* The amounts of a table are amounts, and what its rows count for.
LEMMA AmountsOf ==
  ASSUME Sizes, RowsInv
  PROVE  /\ Amounts(refunds) \in [RefundIds -> 0 .. Paid]
         /\ \A r \in Rows : /\ r \in RefundIds /\ Amounts(refunds)[r] = refunds[r].amount
                            /\ refunds[r].amount \in 1 .. Paid
                            /\ Counted(refunds[r]) = refunds[r].amount
         /\ \A S \in SUBSET Rows : Total(S) = Sum(Amounts(refunds), S)
<1>1. \A r \in Rows : r \in RefundIds /\ refunds[r] \in Row /\ refunds[r].st # "none"
  BY RowThere DEF Rows, RowsInv
<1>2. \A r \in Rows : refunds[r].amount \in 1 .. Paid
  BY <1>1 DEF Row
<1>3. \A r \in Rows : Counted(refunds[r]) = refunds[r].amount
  BY <1>2 DEF Counted, RowsInv, RowsTell
<1>4. \A r \in Rows : Amounts(refunds)[r] = refunds[r].amount
  BY <1>1 DEF Amounts
<1>5. Amounts(refunds) \in [RefundIds -> 0 .. Paid]
  <2>1. \A r \in RefundIds : refunds[r].st # "none" => refunds[r].amount \in 0 .. Paid
    BY <1>2 DEF Rows, Sizes
  <2>2. 0 \in 0 .. Paid
    BY DEF Sizes
  <2>3. QED
    BY <2>1, <2>2 DEF Amounts
<1>6. ASSUME NEW S \in SUBSET Rows
      PROVE  Total(S) = Sum(Amounts(refunds), S)
  <2>1. \A r \in S : Counted(refunds[r]) = Amounts(refunds)[r]
    BY <1>3, <1>4
  <2>2. {u \in S \X (1 .. Paid) : u[2] <= Counted(refunds[u[1]])} = Units(Amounts(refunds), S)
    BY <2>1 DEF Units
  <2>3. QED
    BY <2>2 DEF Total, Sum
<1>7. QED
  BY <1>1, <1>2, <1>3, <1>4, <1>5, <1>6

\* The same of the next table.
LEMMA AmountsNext ==
  ASSUME Sizes, RowsInv'
  PROVE  /\ Amounts(refunds') \in [RefundIds -> 0 .. Paid]
         /\ \A r \in Rows' : /\ r \in RefundIds /\ Amounts(refunds')[r] = refunds'[r].amount
                             /\ refunds'[r].amount \in 1 .. Paid
                             /\ Counted(refunds'[r]) = refunds'[r].amount
         /\ Rows' \subseteq RefundIds
         /\ Total(Taken)' = Sum(Amounts(refunds'), Taken')
         /\ Total(PaidOut)' = Sum(Amounts(refunds'), PaidOut')
         /\ Total({r \in PaidOut : refunds[r].method = "credit"})' =
              Sum(Amounts(refunds'), {r \in PaidOut : refunds[r].method = "credit"}')
<1>1. \A r \in Rows' : r \in RefundIds /\ refunds'[r] \in Row /\ refunds'[r].st # "none"
  BY DEF RowsInv, Tables, Rows, NoRow
<1>2. \A r \in Rows' : refunds'[r].amount \in 1 .. Paid
  BY <1>1 DEF Row
<1>3. \A r \in Rows' : Counted(refunds'[r]) = refunds'[r].amount
  BY <1>2 DEF Counted, RowsInv, RowsTell
<1>4. \A r \in Rows' : Amounts(refunds')[r] = refunds'[r].amount
  BY <1>1 DEF Amounts
<1>5. Amounts(refunds') \in [RefundIds -> 0 .. Paid]
  <2>1. \A r \in RefundIds : refunds'[r].st # "none" => refunds'[r].amount \in 0 .. Paid
    BY <1>2 DEF Rows, Sizes
  <2>2. 0 \in 0 .. Paid
    BY DEF Sizes
  <2>3. QED
    BY <2>1, <2>2 DEF Amounts
<1>6. ASSUME NEW S \in SUBSET Rows'
      PROVE  Cardinality({u \in S \X (1 .. Paid) : u[2] <= Counted(refunds'[u[1]])})
               = Sum(Amounts(refunds'), S)
  <2>1. \A r \in S : Counted(refunds'[r]) = Amounts(refunds')[r]
    BY <1>3, <1>4
  <2>2. {u \in S \X (1 .. Paid) : u[2] <= Counted(refunds'[u[1]])} = Units(Amounts(refunds'), S)
    BY <2>1 DEF Units
  <2>3. QED
    BY <2>2 DEF Sum
<1>7. /\ Taken' \subseteq Rows' /\ PaidOut' \subseteq Rows'
      /\ {r \in PaidOut : refunds[r].method = "credit"}' \subseteq Rows'
  BY DEF Taken, PaidOut
<1>8. QED
  BY <1>1, <1>2, <1>3, <1>4, <1>5, <1>6, <1>7 DEF Total

\* Overrides and forgotten refunds stay.
LEMMA ExcusesStay ==
  ASSUME RefundInv, RefundInv', Next, Overridden \/ Forgotten
  PROVE  (Overridden \/ Forgotten)'
<1>1. CASE Overridden
  <2>1. PICK r \in Rows : refunds[r].override
    BY <1>1 DEF Overridden
  <2>2. refunds'[r].st # "none" /\ refunds'[r].override = refunds[r].override
    BY <2>1, RowEvolves
  <2>3. r \in Rows' /\ refunds'[r].override
    BY <2>1, <2>2, Zenon DEF Rows
  <2>4. QED
    BY <2>3, Zenon DEF Overridden
<1>2. CASE Forgotten
  <2>1. PICK x \in StripeIds : stripe[x].st = "refunded" /\ refunds[stripe[x].r].st \notin Committed
    BY <1>2 DEF Forgotten
  <2>2. stripe'[x] = stripe[x]
    BY <2>1, StripeKeeps
  <2>3. refunds[stripe[x].r].st \in {"failed", "cancelled"} /\ stripe[x].r \in Rows
    BY <2>1, PaidThere DEF RefundInv, RowsInv, StripeTells, Processed, Committed, Rows
  <2>4. refunds'[stripe[x].r].st \in {"failed", "cancelled"}
    BY <2>3, RowEvolves
  <2>5. stripe'[x].st = "refunded" /\ refunds'[stripe'[x].r].st \notin Committed
    BY <2>1, <2>2, <2>4 DEF Committed
  <2>6. QED
    BY <2>5 DEF Forgotten
<1>3. QED
  BY <1>1, <1>2

\* A refund recorded on another row stays so.
LEMMA HandedStays ==
  ASSUME Sizes, RefundInv, Next, NEW r \in Rows, HandedOver(r)
  PROVE  HandedOver(r)'
<1>1. PICK x \in StripeIds, s \in Rows \ {r} :
        stripe[x].st = "refunded" /\ stripe[x].r = r /\ refunds[s].stripe = x
  BY DEF HandedOver
<1>2. stripe'[x] = stripe[x]
  BY <1>1, StripeKeeps
<1>3. refunds[s].st = "completed" /\ s \in RefundIds
  BY <1>1 DEF RefundInv, RowsInv, RowsTell, Rows, Sizes
<1>4. refunds'[s] = refunds[s]
  BY <1>3, WritesHeldRow
<1>5. s \in Rows' \ {r} /\ refunds'[s].stripe = x
  BY <1>1, <1>3, <1>4 DEF Rows
<1>6. QED
  BY <1>1, <1>2, <1>5 DEF HandedOver

\* Rows that step into Taken: the one that is marked processing, or one a webhook records.
LEMMA TakenGrows ==
  ASSUME Sizes, RefundInv, RefundInv', Next, NEW r \in Taken', r \notin Taken
  PROVE  \/ \E q \in Slots : CommitProcessing(q) /\ requests[q].r = r /\ r \in Rows
         \/ r \notin Rows /\ \E q \in Slots : CommitWebhook(q)
<1>1. /\ r \in RefundIds /\ refunds'[r].st \in {"processing", "completed"} /\ ~HandedOver(r)'
  BY DEF Taken, Rows
<1>2. CASE r \in Rows
  <2>1. ~HandedOver(r)
    BY <1>1, <1>2, HandedStays
  <2>2. refunds[r].st \notin {"processing", "completed"}
    BY <1>2, <2>1 DEF Taken
  <2>3. QED
    BY <1>1, <1>2, <2>2, RowEvolves
<1>3. CASE r \notin Rows
  BY <1>1, <1>3, NewRows
<1>4. QED
  BY <1>2, <1>3

\* What is taken keeps its amount.
LEMMA TakenKeepsAmount ==
  ASSUME RefundInv, Next, NEW r \in Taken
  PROVE  refunds'[r].amount = refunds[r].amount
BY RowEvolves DEF Taken

\* A handler that is about to process keeps its row as it found it.
LEMMA ProcessHolds ==
  ASSUME RefundInv, Next, NEW q \in Slots, requests[q].op = "process"
  PROVE  /\ requests[q].r \in Rows /\ refunds[requests[q].r].st = "approved"
         /\ refunds'[requests[q].r].amount = refunds[requests[q].r].amount
<1>1. Working(q)
  BY DEF Working, RowOps
<1>2. requests[q].r \in Rows /\ refunds[requests[q].r].st = "approved"
  BY <1>1, Carries DEF RefundInv, RowsInv, Held, Holds, Working, Rows
<1>3. QED
  BY <1>2, RowEvolves

\* One that is about to process in the next state was before, or has just begun.
LEMMA ProcessBegins ==
  ASSUME RefundInv, Next, NEW s \in Slots, requests'[s].op = "process"
  PROVE  \/ requests'[s] = requests[s]
         \/ s \in Requests /\ \E r \in RefundIds : BeginProcess(s, r)
<1>1. ASSUME NEW q, NEW p, p.op # "process", requests' = [requests EXCEPT ![q] = p]
      PROVE  requests'[s] = requests[s]
  BY <1>1 DEF RefundInv, RowsInv, Tables
<1>2. ASSUME NEW q \in Requests, Ask(q), \A r \in RefundIds : ~BeginProcess(q, r)
      PROVE  requests'[s] = requests[s]
  <2>1. ASSUME NEW method, NEW amount, NEW override, BeginCreate(q, method, amount, override)
        PROVE  requests'[s] = requests[s]
    <3>1. PICK key, st :
            Begin(q, [op |-> "create",
                      row |-> [st |-> st, amount |-> amount, paid |-> amountPaid, key |-> key,
                               override |-> override, method |-> method, stripe |-> 0,
                               processed |-> 0]])
      BY <2>1 DEF BeginCreate
    <3>2. QED
      BY <1>1, <3>1 DEF Begin
  <2>2. ASSUME NEW r, NEW amount, BeginApprove(q, r, amount)
        PROVE  requests'[s] = requests[s]
    BY <1>1, <2>2 DEF BeginApprove, Begin
  <2>3. ASSUME NEW r, BeginReject(q, r) \/ BeginCancel(q, r)
        PROVE  requests'[s] = requests[s]
    BY <1>1, <2>3 DEF BeginReject, BeginCancel, Begin
  <2>4. ASSUME NEW upTo, BeginConsume(q, upTo)
        PROVE  requests'[s] = requests[s]
    BY <1>1, <2>4 DEF BeginConsume, Begin
  <2>5. QED
    BY <1>2, <2>1, <2>2, <2>3, <2>4 DEF Ask
<1>3. ASSUME NEW q \in Requests, Ask(q), NEW r \in RefundIds, BeginProcess(q, r)
      PROVE  requests'[s] = requests[s] \/ s = q
  BY <1>3 DEF BeginProcess, Begin, RefundInv, RowsInv, Tables
<1>4. ASSUME NEW q \in Hooks, Deliver(q)
      PROVE  requests'[s] = requests[s]
  BY <1>1, <1>4 DEF Deliver, BeginWebhook, Begin
<1>5. ASSUME NEW q \in Slots, Commit(q) \/ Crash(q)
      PROVE  requests'[s] = requests[s]
  <2>1. CASE requests' = [requests EXCEPT ![q] = Idle]
    BY <1>1, <2>1 DEF Idle
  <2>2. CASE CommitProcessing(q)
    <3>1. (IF refunds[requests[q].r].method = "stripe" THEN "charge" ELSE "apply") # "process"
      OBVIOUS
    <3>2. QED
      BY <1>1, <2>2, <3>1 DEF CommitProcessing
  <2>3. CASE ReadFinancials(q)
    BY <1>1, <2>3 DEF ReadFinancials
  <2>4. CASE Charge(q)
    <3>1. PICK x \in StripeIds : requests' = [requests EXCEPT ![q].op = "apply", ![q].sid = x]
      BY <2>4 DEF Charge
    <3> DEFINE p == [requests[q] EXCEPT !.op = "apply", !.sid = x]
    <3>2. requests' = [requests EXCEPT ![q] = p]
      BY <3>1 DEF RefundInv, RowsInv, Tables
    <3>3. p.op # "process"
      <4>1. requests[q] \in PayRequest
        BY <2>4 DEF Charge, RefundInv, RowsInv, Tables, Request, Idle, CreateRequest,
             ApproveRequest, StatusRequest, CompleteRequest, WebhookRequest, ConsumeRequest
      <4>2. QED
        BY <4>1 DEF PayRequest
    <3> HIDE DEF p
    <3>4. QED
      BY <1>1, <3>2, <3>3
  <2>5. QED
    BY <1>5, <2>1, <2>2, <2>3, <2>4 DEF Commit, Crash, Finish, CommitCreate, CommitApprove,
         CommitReject, CommitCancel, SetStatus, ChargeFails, Complete, CompleteFails,
         CommitWebhook, CommitConsume
<1>6. QED
  BY <1>2, <1>3, <1>4, <1>5 DEF Next

\* When what is taken counts for no more than it did and nobody begins to process, there
\* is room still.
LEMMA RoomStays ==
  ASSUME Sizes, RefundInv, RefundInv', Next, Room, Total(Taken)' <= Total(Taken),
         Total(Taken) \in Nat, Total(Taken)' \in Nat,
         \A q \in Slots : requests'[q].op = "process" => requests'[q] = requests[q]
  PROVE  Room'
<1>1. ASSUME NEW q \in Slots, requests'[q].op = "process"
      PROVE  Total(Taken)' + refunds'[requests'[q].r].amount <= Paid
  <2>1. requests'[q] = requests[q] /\ requests[q].op = "process"
    BY <1>1
  <2>2. /\ requests[q].r \in Rows
        /\ refunds'[requests[q].r].amount = refunds[requests[q].r].amount
    BY <2>1, ProcessHolds
  <2>3. refunds[requests[q].r].amount \in 1 .. Paid
    BY <2>2, AmountsOf DEF RefundInv
  <2>4. QED
    BY <2>1, <2>2, <2>3 DEF Room, Sizes
<1>2. Total(Taken)' <= Paid
  BY DEF Room, Sizes
<1>3. QED
  BY <1>1, <1>2 DEF Room, Slots

\* What is taken is counted by the amounts of its rows, before a step and after it.
LEMMA TakenCounts ==
  ASSUME Sizes, RefundInv, RefundInv', Next
  PROVE  /\ Total(Taken) = Sum(Amounts(refunds), Taken) /\ Taken \in SUBSET RefundIds
         /\ Total(Taken)' = Sum(Amounts(refunds'), Taken') /\ Taken' \in SUBSET RefundIds
         /\ Total(Taken) \in Nat /\ Total(Taken)' \in Nat
         /\ \A r \in Rows : Amounts(refunds')[r] = refunds'[r].amount
<1>1. Taken \in SUBSET Rows /\ Rows \subseteq RefundIds
  BY DEF Taken, Rows
<1>2. Taken' \in SUBSET RefundIds
  BY DEF Taken, Rows
<1>3. Total(Taken) = Sum(Amounts(refunds), Taken) /\ Total(Taken)' = Sum(Amounts(refunds'), Taken')
  BY <1>1, AmountsOf, AmountsNext DEF RefundInv
<1>4. Sum(Amounts(refunds), Taken) \in Nat /\ Sum(Amounts(refunds'), Taken') \in Nat
  BY <1>1, <1>2, UnitsFinite
<1>5. \A r \in Rows : Amounts(refunds')[r] = refunds'[r].amount
  BY <1>1, RowEvolves DEF Amounts
<1>6. QED
  BY <1>1, <1>2, <1>3, <1>4, <1>5

\* Nothing more is taken: nothing more counts.
LEMMA TakesNoMore ==
  ASSUME Sizes, RefundInv, RefundInv', Next, Taken' \subseteq Taken
  PROVE  Total(Taken)' <= Total(Taken)
<1>1. \A r \in Taken' : Amounts(refunds')[r] = Amounts(refunds)[r]
  BY TakenCounts, TakenKeepsAmount, AmountsOf DEF Taken, RefundInv
<1>2. Sum(Amounts(refunds'), Taken') = Sum(Amounts(refunds), Taken')
  BY <1>1, SumDepends
<1>3. Sum(Amounts(refunds), Taken') <= Sum(Amounts(refunds), Taken)
  BY TakenCounts, SumGrows
<1>4. QED
  BY <1>2, <1>3, TakenCounts

\* A refund that is marked processing takes the room its handler found.
LEMMA ProcessingTakes ==
  ASSUME Sizes, RefundInv, RefundInv', Next, Room, NEW q \in Slots, CommitProcessing(q)
  PROVE  Room'
<1> DEFINE r == requests[q].r
<1>1. requests[q].op = "process" /\ Working(q)
  BY DEF CommitProcessing, Working, RowOps
<1>2. r \in Rows /\ refunds[r].st = "approved" /\ refunds'[r].amount = refunds[r].amount
  BY <1>1, ProcessHolds
<1>3. r \in RefundIds /\ r \notin Taken /\ refunds[r].amount \in 1 .. Paid
  BY <1>2, AmountsOf DEF Taken, RefundInv
<1>4. \A s \in Slots : requests'[s].op # "process"
  <2> DEFINE p == [op |-> IF refunds[r].method = "stripe" THEN "charge" ELSE "apply", r |-> r,
                   sid |-> 0, amount |-> refunds[r].amount]
  <2>1. requests' = [requests EXCEPT ![q] = p]
    BY DEF CommitProcessing
  <2>2. p.op # "process"
    OBVIOUS
  <2> HIDE DEF p
  <2> SUFFICES ASSUME NEW s \in Slots, requests'[s].op = "process"
               PROVE  FALSE
    OBVIOUS
  <2>3. s # q /\ requests[s].op = "process"
    BY <2>1, <2>2 DEF RefundInv, RowsInv, Tables
  <2>4. QED
    BY <1>1, <2>3 DEF RefundInv, RowsInv, OneWorks, Working, RowOps
<1>5. Taken' \subseteq Taken \cup {r}
  <2> SUFFICES ASSUME NEW s \in Taken', s \notin Taken
               PROVE  s = r
    OBVIOUS
  <2>1. CASE \E t \in Slots : CommitProcessing(t) /\ requests[t].r = s
    <3>1. PICK t \in Slots : CommitProcessing(t) /\ requests[t].r = s
      BY <2>1
    <3>2. Working(t)
      BY <3>1 DEF CommitProcessing, Working, RowOps
    <3>3. QED
      BY <1>1, <3>1, <3>2 DEF RefundInv, RowsInv, OneWorks
  <2>2. CASE s \notin Rows
    <3>1. refunds'[s].st # "none" /\ s \in RefundIds
      BY DEF Taken, Rows
    <3>2. refunds' = [refunds EXCEPT ![r].st = "processing"]
      BY DEF CommitProcessing
    <3>3. QED
      BY <1>2, <2>2, <3>1, <3>2 DEF Rows, RefundInv, RowsInv, Tables
  <2>3. QED
    BY <2>1, <2>2, TakenGrows
<1>6. Taken \cup {r} \in SUBSET RefundIds
  BY <1>3, TakenCounts
<1>7. \A s \in Taken \cup {r} : Amounts(refunds')[s] = Amounts(refunds)[s]
  BY <1>2, TakenCounts, TakenKeepsAmount, AmountsOf DEF Taken, RefundInv
<1>8. Sum(Amounts(refunds'), Taken') <= Sum(Amounts(refunds'), Taken \cup {r})
  BY <1>5, <1>6, SumGrows
<1>9. Sum(Amounts(refunds'), Taken \cup {r}) = Sum(Amounts(refunds), Taken \cup {r})
  BY <1>7, SumDepends
<1>10. Sum(Amounts(refunds), Taken \cup {r}) = Sum(Amounts(refunds), Taken) + refunds[r].amount
  <2>1. Amounts(refunds)[r] = refunds[r].amount
    BY <1>2, AmountsOf DEF RefundInv
  <2>2. Amounts(refunds) \in [RefundIds -> 0 .. Paid]
    BY AmountsOf DEF RefundInv
  <2>3. QED
    BY <1>3, <2>1, <2>2, TakenCounts, SumAdds
<1>11. Total(Taken) + refunds[r].amount <= Paid
  BY <1>1 DEF Room
<1>12. Total(Taken)' <= Paid
  BY <1>3, <1>8, <1>9, <1>10, <1>11, TakenCounts DEF Sizes
<1>13. QED
  BY <1>4, <1>12 DEF Room, Slots

\* A webhook records on a new row what an older one had taken.
LEMMA WebhookTakesOver ==
  ASSUME Sizes, RefundInv, RefundInv', Next, ~Forgotten, NEW q \in Slots, CommitWebhook(q)
  PROVE  Total(Taken)' <= Total(Taken)
<1>0. PICK x, r : x = requests[q].x /\ r = stripe[x].r
  OBVIOUS
<1>1. x \in StripeIds /\ stripe[x].st = "refunded"
  BY <1>0, Carries DEF CommitWebhook, RefundInv, RowsInv, Delivered
<1>2. CASE refunds' = refunds
  <2>1. \A s \in Taken' : s \in Rows
    BY <1>2 DEF Taken, Rows
  <2>2. ASSUME NEW s \in Taken', s \notin Taken, NEW t \in Slots, CommitProcessing(t)
        PROVE  FALSE
    <3>1. Working(t)
      BY <2>2 DEF CommitProcessing, Working, RowOps
    <3>2. requests[t].r \in RefundIds /\ refunds[requests[t].r].st = "approved"
      BY <2>2, ProcessHolds DEF CommitProcessing, Rows
    <3>3. refunds'[requests[t].r].st = "processing"
      BY <2>2, <3>2 DEF CommitProcessing, RefundInv, RowsInv, Tables
    <3>4. QED
      BY <1>2, <3>2, <3>3
  <2>3. Taken' \subseteq Taken
    BY <2>1, <2>2, TakenGrows
  <2>4. QED
    BY <2>3, TakesNoMore
<1>3. CASE ~(refunds' = refunds)
  <2> DEFINE row == [st |-> "completed", amount |-> stripe[x].amount, paid |-> Paid, key |-> 0,
                     override |-> FALSE, method |-> "stripe", stripe |-> x,
                     processed |-> stripe[x].amount]
  <2>1. PICK n \in RefundIds : Fresh(refunds, n) /\ refunds' = [refunds EXCEPT ![n] = row]
    BY <1>0, <1>3 DEF CommitWebhook
  <2>2. ~Recorded(x)
    BY <1>0, <1>3 DEF CommitWebhook
  <2>3. refunds'[n] = row /\ \A s \in RefundIds : s # n => refunds'[s] = refunds[s]
    BY <2>1 DEF RefundInv, RowsInv, Tables
  <2>4. n \notin Rows /\ refunds'[n].amount = stripe[x].amount /\ refunds'[n].stripe = x
        /\ refunds'[n].st = "completed"
    BY <2>1, <2>3 DEF Fresh, Rows
  <2> HIDE DEF row
  <2>5. /\ r \in RefundIds /\ r \in Rows /\ refunds[r].st \in {"processing", "completed"}
        /\ refunds[r].amount = stripe[x].amount
    <3>1. refunds[r].st \in Processed \cap Committed /\ refunds[r].amount = stripe[x].amount
      BY <1>0, <1>1 DEF Forgotten, RefundInv, RowsInv, StripeTells
    <3>2. r \in RefundIds
      BY <1>0, <1>1, PaidThere DEF RefundInv, RowsInv
    <3>3. QED
      BY <3>1, <3>2 DEF Processed, Committed, Rows
  <2>6. r \in Taken
    <3>1. ~HandedOver(r)
      BY <1>0, <1>1, <2>2 DEF HandedOver, Recorded, RefundInv, RowsInv, StripeOnce
    <3>2. QED
      BY <2>5, <3>1 DEF Taken
  <2>7. r # n
    BY <2>4, <2>5
  <2>8. r \notin Taken'
    <3>1. stripe'[x] = stripe[x]
      BY <1>1, StripeKeeps
    <3>2. n \in Rows' \ {r}
      BY <2>1, <2>4, <2>7 DEF Rows
    <3>3. HandedOver(r)'
      BY <1>0, <1>1, <2>4, <3>1, <3>2 DEF HandedOver
    <3>4. QED
      BY <3>3 DEF Taken
  <2> DEFINE rest == Taken \ {r}
  <2>9. Taken' \subseteq rest \cup {n}
    <3> SUFFICES ASSUME NEW s \in Taken', s \notin Taken
                 PROVE  s = n
      BY <2>8
    <3>1. s \in RefundIds /\ refunds'[s].st \in {"processing", "completed"} /\ ~HandedOver(s)'
      BY DEF Taken, Rows
    <3>2. CASE s # n
      <4>1. refunds[s].st \in {"processing", "completed"} /\ s \in Rows
        BY <2>3, <3>1, <3>2 DEF Rows
      <4>2. ~HandedOver(s)
        BY <3>1, <4>1, HandedStays
      <4>3. QED
        BY <4>1, <4>2 DEF Taken
    <3>3. QED
      BY <3>2
  <2>10. /\ rest \in SUBSET RefundIds /\ n \in RefundIds \ rest /\ r \in RefundIds \ rest
         /\ Taken = rest \cup {r} /\ rest \cup {n} \in SUBSET RefundIds
    BY <2>1, <2>4, <2>5, <2>6, TakenCounts DEF Taken
  <2>11. \A s \in rest : Amounts(refunds')[s] = Amounts(refunds)[s]
    BY TakenCounts, TakenKeepsAmount, AmountsOf DEF Taken, RefundInv
  <2> HIDE DEF rest
  <2>12. Amounts(refunds) \in [RefundIds -> 0 .. Paid] /\ Amounts(refunds') \in [RefundIds -> 0 .. Paid]
    BY AmountsOf, AmountsNext DEF RefundInv
  <2>13. Amounts(refunds')[n] = stripe[x].amount /\ Amounts(refunds)[r] = stripe[x].amount
    BY <2>1, <2>4, <2>5 DEF Amounts
  <2>14. Sum(Amounts(refunds'), rest) = Sum(Amounts(refunds), rest)
    BY <2>11, SumDepends
  <2>15. Sum(Amounts(refunds'), rest \cup {n}) = Sum(Amounts(refunds'), rest) + stripe[x].amount
    BY <2>10, <2>12, <2>13, SumAdds
  <2>16. Sum(Amounts(refunds), Taken) = Sum(Amounts(refunds), rest) + stripe[x].amount
    BY <2>10, <2>12, <2>13, SumAdds
  <2>17. Sum(Amounts(refunds'), Taken') <= Sum(Amounts(refunds'), rest \cup {n})
    BY <2>9, <2>10, SumGrows
  <2>18. QED
    BY <2>14, <2>15, <2>16, <2>17, TakenCounts
<1>4. QED
  BY <1>2, <1>3

\* A handler begins to process a refund that fits in what is left.
LEMMA ProcessFits ==
  ASSUME Sizes, RowsOneAtATime, RefundInv, RefundInv', Next, ~Overridden, Room,
         NEW q \in Requests, NEW r \in RefundIds, BeginProcess(q, r)
  PROVE  Room'
<1> DEFINE others == {s \in Rows \ {r} : refunds[s].st \in Committed}
<1>1. /\ refunds[r].st = "approved" /\ UNCHANGED <<refunds, stripe>>
      /\ requests' = [requests EXCEPT ![q] = [op |-> "process", r |-> r]]
      /\ refunds[r].amount <= Left(r) \/ refunds[r].override
  BY DEF BeginProcess, Begin
<1>2. r \in Rows /\ refunds[r].amount \in 1 .. Paid /\ refunds[r].paid \in 0 .. Paid
  <2>1. r \in Rows /\ refunds[r] \in Row
    BY <1>1, RowThere DEF RefundInv, RowsInv
  <2>2. QED
    BY <2>1 DEF Row
<1>3. refunds[r].amount <= Left(r)
  BY <1>1, <1>2 DEF Overridden
<1>4. Left(r) = NotBelowZero(refunds[r].paid - Total(others))
  BY DEF Left, CommittedTotal
<1>5. others \in SUBSET Rows /\ others \in SUBSET RefundIds /\ Taken \in SUBSET others
  BY <1>1 DEF Taken, Committed, Rows
<1> HIDE DEF others
<1>6. Total(others) = Sum(Amounts(refunds), others)
  BY <1>5, AmountsOf DEF RefundInv
<1>7. Total(others) \in Nat /\ Total(Taken) <= Total(others)
  BY <1>5, <1>6, UnitsFinite, SumGrows, TakenCounts
<1>8. Total(Taken) + refunds[r].amount <= Paid
  BY <1>2, <1>3, <1>4, <1>7, TakenCounts DEF NotBelowZero, Sizes
<1>9. Total(Taken)' = Total(Taken)
  BY <1>1 DEF Total, Taken, HandedOver, Rows
<1>10. \A s \in Slots : requests'[s].op = "process" => requests'[s].r = r
  <2>1. \A s \in Slots : requests[s] = Idle
    BY RowHandlersAlone DEF BeginProcess, Begin, RowOps
  <2>2. QED
    BY <1>1, <2>1 DEF Idle, RefundInv, RowsInv, Tables
<1>11. Total(Taken)' <= Paid
  BY <1>9 DEF Room
<1>12. refunds'[r].amount = refunds[r].amount
  BY <1>1
<1>13. QED
  BY <1>8, <1>9, <1>10, <1>11, <1>12 DEF Room, Slots

\* Every step leaves room, or an excuse for having none.
LEMMA WithinStep ==
  ASSUME Sizes, RowsOneAtATime, RefundInv, RefundInv', [Next]_vars, Within
  PROVE  Within'
<1>1. CASE UNCHANGED vars
  BY <1>1 DEF vars, Within, Overridden, Forgotten, Room, Taken, HandedOver, Total, Rows, Slots
<1>2. CASE Next
  <2> USE <1>2
  <2> SUFFICES ASSUME ~Overridden', ~Forgotten' PROVE Room'
    BY DEF Within
  <2>1. ~Overridden /\ ~Forgotten /\ Room
    BY ExcusesStay DEF Within
  <2>2. CASE \E q \in Slots : CommitProcessing(q)
    BY <2>1, <2>2, ProcessingTakes
  <2>3. CASE \E q \in Requests, r \in RefundIds : BeginProcess(q, r)
    BY <2>1, <2>3, ProcessFits
  <2>4. CASE ~(\E q \in Requests, r \in RefundIds : BeginProcess(q, r))
    <3>1. \A q \in Slots : requests'[q].op = "process" => requests'[q] = requests[q]
      BY <2>4, ProcessBegins
    <3>2. CASE \E q \in Slots : CommitWebhook(q)
      BY <2>1, <3>1, <3>2, WebhookTakesOver, RoomStays, TakenCounts
    <3>3. CASE ~(\E q \in Slots : CommitWebhook(q)) /\ ~(\E q \in Slots : CommitProcessing(q))
      <4>1. Taken' \subseteq Taken
        BY <3>3, TakenGrows
      <4>2. QED
        BY <2>1, <3>1, <4>1, TakesNoMore, RoomStays, TakenCounts
    <3>4. QED
      BY <2>2, <3>2, <3>3
  <2>5. QED
    BY <2>3, <2>4
<1>3. QED
  BY <1>1, <1>2

\* At first everything is left.
LEMMA WithinInit ==
  ASSUME Sizes, Init
  PROVE  Within
<1>1. RefundInv
  BY RefundInvInit
<1>2. Taken = {}
  BY DEF Init, Taken, Rows, NoRow
<1>3. Total(Taken) = 0
  BY <1>1, <1>2, AmountsOf, SumOfNone DEF RefundInv
<1>4. \A q \in Slots : requests[q].op # "process"
  BY DEF Init, Idle
<1>5. QED
  BY <1>3, <1>4 DEF Within, Room, Sizes

\* What was paid out is among what is taken.
LEMMA PaidOutIsTaken ==
  ASSUME Sizes, RefundInv
  PROVE  PaidOut \subseteq Taken
<1> SUFFICES ASSUME NEW r \in PaidOut PROVE r \in Taken
  OBVIOUS
<1>1. r \in Rows /\ refunds[r].processed # 0
  BY DEF PaidOut
<1>2. refunds[r].st = "completed"
  BY <1>1 DEF RefundInv, RowsInv, RowsTell
<1>3. ~HandedOver(r)
  <2> SUFFICES ASSUME NEW x \in StripeIds, stripe[x].st = "refunded", stripe[x].r = r,
                      NEW s \in Rows \ {r}, refunds[s].stripe = x
               PROVE  FALSE
    BY DEF HandedOver
  <2>1. refunds[r].stripe = x
    BY <1>2 DEF RefundInv, RowsInv, StripeTells
  <2>2. QED
    BY <1>1, <2>1 DEF RefundInv, RowsInv, OneRowPerSid, Sizes
<1>4. QED
  BY <1>1, <1>2, <1>3 DEF Taken

\* What is taken bounds what was paid out.
LEMMA WithinIsEnough ==
  ASSUME Sizes, RefundInv, Within
  PROVE  OnlyForgettingOverRefunds
<1>1. Total(PaidOut) <= Total(Taken) /\ Total(PaidOut) \in Nat /\ Total(Taken) \in Nat
  <2>1. PaidOut \in SUBSET Taken /\ Taken \in SUBSET Rows /\ Taken \in SUBSET RefundIds
        /\ PaidOut \in SUBSET Rows /\ PaidOut \in SUBSET RefundIds
    BY PaidOutIsTaken DEF Taken, PaidOut, Rows
  <2>2. /\ Total(PaidOut) = Sum(Amounts(refunds), PaidOut)
        /\ Total(Taken) = Sum(Amounts(refunds), Taken)
    BY <2>1, AmountsOf DEF RefundInv
  <2>3. QED
    BY <2>1, <2>2, SumGrows, UnitsFinite
<1>2. Room => Total(PaidOut) <= Paid
  BY <1>1 DEF Room, Sizes
<1>3. QED
  BY <1>2 DEF Within, Overridden, OnlyForgettingOverRefunds, NoOverRefund

\* Whatever creates, webhooks and uses of credit overlap the handler that processes, and
\* with Stripe's answers lost, more is paid back than was paid only by an override, or
\* after process_refund forgot a refund Stripe paid.
THEOREM OverRefundsAreForgotten ==
  ASSUME Sizes, RowsOneAtATime
  PROVE  Spec => []OnlyForgettingOverRefunds
<1>1. Init => Within
  BY WithinInit
<1>2. RefundInv /\ RefundInv' /\ Within /\ [Next]_vars => Within'
  BY WithinStep
<1>3. RefundInv /\ Within => OnlyForgettingOverRefunds
  BY WithinIsEnough
<1>4. Spec => []RefundInv
  BY RefundInductive
<1>5. QED
  BY <1>1, <1>2, <1>3, <1>4, PTL DEF Spec

-----------------------------------------------------------------------------
(* Handlers that run alone.                                                *)

\* A handler that writes is in flight.
LEMMA GoesOn ==
  ASSUME NEW q, Commit(q) \/ Crash(q)
  PROVE  requests[q] # Idle
<1>1. CASE Crash(q)
  BY <1>1 DEF Crash
<1>2. CASE Commit(q)
  <2>1. requests[q].op \in {"create", "approve", "reject", "cancel", "process", "charge", "apply",
                           "complete", "webhook", "consume"}
    BY <1>2 DEF Commit, CommitCreate, CommitApprove, CommitReject, CommitCancel,
         CommitProcessing, Charge, ChargeFails, ReadFinancials, Complete, CompleteFails,
         CommitWebhook, CommitConsume
  <2>2. Idle.op = "idle"
    BY DEF Idle
  <2>3. QED
    BY <2>1, <2>2
<1>3. QED
  BY <1>1, <1>2

\* One handler at a time: what begins, begins with nothing in flight.
LEMMA OneInFlightStep ==
  ASSUME AllOneAtATime, RefundInv, OneInFlight, [Next]_vars
  PROVE  OneInFlight'
<1>1. CASE UNCHANGED vars
  BY <1>1 DEF vars, OneInFlight, Slots
<1>2. ASSUME NEW q, NEW p, \A s \in Slots : s # q => requests[s] = Idle,
             requests' = [requests EXCEPT ![q] = p]
      PROVE  OneInFlight'
  BY <1>2 DEF OneInFlight, Slots, RefundInv, RowsInv, Tables
<1>3. ASSUME NEW q, NEW p, Begin(q, p)
      PROVE  OneInFlight'
  <2>1. \A s \in Slots : requests[s] = Idle
    BY <1>3 DEF Begin, MayBegin, AllOneAtATime
  <2>2. QED
    BY <1>2, <1>3, <2>1 DEF Begin
<1>4. ASSUME NEW q, Ask(q) \/ Deliver(q)
      PROVE  OneInFlight'
  BY <1>3, <1>4, AskBegins DEF Deliver, BeginWebhook
<1>5. ASSUME NEW q \in Slots, Commit(q) \/ Crash(q)
      PROVE  OneInFlight'
  <2>1. requests[q] # Idle
    BY <1>5, GoesOn
  <2>2. \A s \in Slots : s # q => requests[s] = Idle
    BY <2>1 DEF OneInFlight
  <2>3. CASE Charge(q)
    <3>1. PICK x \in StripeIds : requests' = [requests EXCEPT ![q].op = "apply", ![q].sid = x]
      BY <2>3 DEF Charge
    <3>2. requests' = [requests EXCEPT ![q] = [requests[q] EXCEPT !.op = "apply", !.sid = x]]
      BY <3>1 DEF RefundInv, RowsInv, Tables
    <3>3. QED
      BY <1>2, <2>2, <3>2
  <2>4. QED
    BY <1>2, <1>5, <2>2, <2>3 DEF Commit, Crash, Finish, CommitCreate, CommitApprove, CommitReject,
         CommitCancel, SetStatus, CommitProcessing, ChargeFails, ReadFinancials, Complete,
         CompleteFails, CommitWebhook, CommitConsume
<1>6. QED
  BY <1>1, <1>4, <1>5 DEF Next

\* The invariant of handlers that run alone.
Apart == RefundInv /\ OneInFlight

\* Stripe pays when a handler charges; the handler knows, unless the answer is lost.
LEMMA NewlyPaid ==
  ASSUME RefundInv, ~MayFail, Next, NEW x \in StripeIds, stripe[x].st # "refunded",
         stripe'[x].st = "refunded"
  PROVE  \E q \in Slots : Charge(q) /\ stripe'[x].r = requests[q].r
<1>1. stripe' # stripe
  OBVIOUS
<1>2. ASSUME NEW q, Ask(q) \/ Deliver(q) \/ Crash(q)
      PROVE  FALSE
  BY <1>1, <1>2, AskBegins DEF Begin, Deliver, BeginWebhook, Crash
<1>3. ASSUME NEW q \in Slots, Commit(q)
      PROVE  Charge(q)
  BY <1>1, <1>3 DEF Commit, CommitCreate, CommitApprove, CommitReject, CommitCancel,
     SetStatus, CommitProcessing, ChargeFails, ReadFinancials, Complete, CompleteFails,
     CommitWebhook, CommitConsume
<1>4. ASSUME NEW q \in Slots, Charge(q)
      PROVE  stripe'[x].r = requests[q].r
  BY <1>4 DEF Charge, StripePays, RefundInv, RowsInv, Tables
<1>5. QED
  BY <1>2, <1>3, <1>4 DEF Next

\* With Stripe's answers never lost, no refund Stripe paid is on a row that failed.
LEMMA RememberedStep ==
  ASSUME Sizes, AllOneAtATime, ~MayFail, Apart, RefundInv', OneInFlight', Remembered, [Next]_vars
  PROVE  Remembered'
<1> USE DEF Apart
<1>1. CASE UNCHANGED vars
  BY <1>1 DEF vars, Remembered, Forgotten, Rows, Slots
<1>2. CASE Next
  <2> USE <1>2
  <2>1. ASSUME NEW q \in Slots, ChargeFails(q) \/ CompleteFails(q)
        PROVE  PaidFor(requests[q].r) = {} /\ UNCHANGED stripe
    <3>1. Working(q)
      BY <2>1 DEF ChargeFails, CompleteFails, Working, RowOps
    <3>2. CASE ChargeFails(q)
      BY <3>1, <3>2 DEF ChargeFails, RefundInv, RowsInv, Held
    <3>3. CASE CompleteFails(q)
      <4>1. requests[q].op = "complete" /\ SidTaken(requests[q])
        BY <3>3 DEF CompleteFails
      <4>2. QED
        BY <4>1 DEF SidTaken, Remembered
    <3>4. QED
      BY <2>1, <3>2, <3>3
  <2>2. ASSUME NEW x \in StripeIds, stripe'[x].st = "refunded", refunds'[stripe'[x].r].st \notin Committed
        PROVE  FALSE
    <3>1. CASE stripe[x].st = "refunded"
      <4>1. PICK r : r = stripe[x].r /\ stripe'[x].r = r
        BY <3>1, StripeKeeps
      <4>2. /\ refunds[r].st \in {"processing", "completed"} /\ r \in Rows /\ r \in RefundIds
            /\ x \in PaidFor(r)
        BY <3>1, <4>1, PaidThere DEF Remembered, Forgotten, RefundInv, RowsInv, StripeTells, Processed,
             Committed, Rows, PaidFor
      <4>3. CASE refunds[r].st = "completed"
        BY <2>2, <4>1, <4>2, <4>3, WritesHeldRow DEF Committed
      <4>4. CASE refunds[r].st = "processing"
        <5>1. refunds'[r].st \notin {"processing", "completed"}
          BY <2>2, <4>1 DEF Committed
        <5>2. PICK q \in Slots : (ChargeFails(q) \/ CompleteFails(q)) /\ requests[q].r = r
          BY <4>2, <4>4, <5>1, RowEvolves
        <5>3. QED
          BY <2>1, <4>2, <5>2
      <4>5. QED
        BY <4>2, <4>3, <4>4
    <3>2. CASE stripe[x].st # "refunded"
      <4>1. PICK q \in Slots : Charge(q) /\ stripe'[x].r = requests[q].r
        BY <2>2, <3>2, NewlyPaid
      <4>2. Working(q) /\ refunds[requests[q].r].st = "processing" /\ refunds' = refunds
        BY <4>1 DEF Charge, Working, RowOps, RefundInv, RowsInv, Held, Holds
      <4>3. QED
        BY <2>2, <4>1, <4>2 DEF Committed
    <3>3. QED
      BY <3>1, <3>2
  <2>3. ASSUME NEW s \in Slots, requests'[s].op \in {"apply", "complete"}, NEW r \in Rows',
               refunds'[r].stripe # 0, refunds'[r].stripe = requests'[s].sid
        PROVE  FALSE
    <3>1. ASSUME NEW q, NEW p, Begin(q, p), p.op \notin {"apply", "complete"}
          PROVE  FALSE
      <4>1. \A t \in Slots : requests[t] = Idle
        BY <3>1 DEF Begin, MayBegin, AllOneAtATime
      <4>2. QED
        BY <2>3, <3>1, <4>1 DEF Begin, Idle, RefundInv, RowsInv, Tables
    <3>2. ASSUME NEW q, Ask(q) \/ Deliver(q)
          PROVE  FALSE
      BY <3>1, <3>2, AskBegins DEF Deliver, BeginWebhook
    <3>3. ASSUME NEW q \in Slots, Commit(q) \/ Crash(q)
          PROVE  FALSE
      <4>1. requests[q] # Idle
        BY <3>3, GoesOn
      <4>2. \A t \in Slots : t # q => requests[t] = Idle
        BY <4>1 DEF OneInFlight
      <4>3. ASSUME NEW p, p.op \notin {"apply", "complete"}, requests' = [requests EXCEPT ![q] = p]
            PROVE  FALSE
        BY <2>3, <4>2, <4>3 DEF Idle, RefundInv, RowsInv, Tables
      <4>4. CASE requests' = [requests EXCEPT ![q] = Idle]
        BY <4>3, <4>4 DEF Idle
      <4>5. s = q \/ requests'[s] = Idle
        <5>1. CASE Charge(q)
          BY <4>2, <5>1 DEF Charge, RefundInv, RowsInv, Tables
        <5>2. CASE ~Charge(q)
          BY <3>3, <4>2, <5>2 DEF Commit, Crash, Finish, CommitCreate, CommitApprove, CommitReject,
               CommitCancel, SetStatus, CommitProcessing, ChargeFails, ReadFinancials, Complete,
               CompleteFails, CommitWebhook, CommitConsume, RefundInv, RowsInv, Tables
        <5>3. QED
          BY <5>1, <5>2
      <4>6. s = q
        BY <2>3, <4>5 DEF Idle
      <4>7. CASE CommitProcessing(q)
        BY <2>3, <4>6, <4>7 DEF CommitProcessing, RefundInv, RowsInv, Tables
      <4>8. CASE ReadFinancials(q)
        <5>1. /\ requests[q].op = "apply" /\ requests'[q].sid = requests[q].sid
              /\ refunds' = refunds /\ Rows' = Rows
          BY <4>8 DEF ReadFinancials, RefundInv, RowsInv, Tables, Rows
        <5>2. QED
          BY <2>3, <4>6, <5>1 DEF Remembered
      <4>9. CASE Charge(q)
        <5>1. PICK x \in StripeIds :
                /\ StripePays(requests[q], x)
                /\ requests' = [requests EXCEPT ![q].op = "apply", ![q].sid = x]
          BY <4>9 DEF Charge
        <5>2. requests[q] \in PayRequest
          BY <4>9 DEF Charge, RefundInv, RowsInv, Tables, Request, Idle, CreateRequest,
             ApproveRequest, StatusRequest, CompleteRequest, WebhookRequest, ConsumeRequest
        <5>3. requests'[q] = [requests[q] EXCEPT !.op = "apply", !.sid = x]
          BY <5>1 DEF RefundInv, RowsInv, Tables
        <5>4. requests'[q].sid = x
          BY <5>2, <5>3 DEF PayRequest
        <5>5. stripe[x].st = "none" /\ refunds' = refunds /\ Rows' = Rows
          BY <4>9, <5>1 DEF Charge, StripePays, Fresh, Rows
        <5>6. QED
          BY <2>3, <4>6, <5>4, <5>5 DEF RefundInv, RowsInv, RowsTell
      <4>10. QED
        BY <3>3, <4>4, <4>7, <4>8, <4>9 DEF Commit, Crash, Finish, CommitCreate, CommitApprove,
             CommitReject, CommitCancel, SetStatus, ChargeFails, Complete, CompleteFails,
             CommitWebhook, CommitConsume
    <3>4. QED
      BY <3>2, <3>3 DEF Next
  <2>4. QED
    BY <2>2, <2>3 DEF Remembered, Forgotten, Slots
<1>3. QED
  BY <1>1, <1>2

\* Handlers that run one at a time act on rows one at a time.
LEMMA AloneIsApart == ASSUME AllOneAtATime PROVE RowsOneAtATime
BY DEF AllOneAtATime, RowsOneAtATime

\* At first nothing is in flight and Stripe has paid nothing.
LEMMA ApartInit ==
  ASSUME Sizes, Init
  PROVE  OneInFlight /\ Remembered
BY DEF Init, OneInFlight, Remembered, Forgotten, NoRow, Idle

\* Handlers that run alone, killed anywhere, pay back no more than was paid, but for
\* overrides.
THEOREM NeverOverRefunds ==
  ASSUME Sizes, AllOneAtATime, ~MayFail
  PROVE  Spec => []NoOverRefund
<1>1. RowsOneAtATime
  BY AloneIsApart
<1>2. Init => OneInFlight /\ Remembered
  BY ApartInit
<1>3. RefundInv /\ OneInFlight /\ [Next]_vars => OneInFlight'
  BY OneInFlightStep
<1>4. RefundInv /\ RefundInv' /\ OneInFlight /\ OneInFlight' /\ Remembered /\ [Next]_vars => Remembered'
  BY RememberedStep DEF Apart
<1>5. Remembered /\ OnlyForgettingOverRefunds => NoOverRefund
  BY DEF Remembered, OnlyForgettingOverRefunds
<1>6. Spec => []RefundInv /\ []OnlyForgettingOverRefunds
  BY <1>1, RefundInductive, OverRefundsAreForgotten
<1>7. QED
  BY <1>2, <1>3, <1>4, <1>5, <1>6, PTL DEF Spec

-----------------------------------------------------------------------------
(* The books.                                                              *)

\* While a handler runs alone nobody moves the balances it read.
LEMMA ReadsHoldStep ==
  ASSUME AllOneAtATime, Apart, OneInFlight', ReadsHold, [Next]_vars
  PROVE  ReadsHold'
<1> USE DEF Apart
<1>1. CASE UNCHANGED vars
  BY <1>1 DEF vars, money, ReadsHold, Slots
<1>2. ASSUME NEW q, NEW p, requests' = [requests EXCEPT ![q] = p],
             \A s \in Slots : s # q => requests[s] = Idle,
             p.op = "complete" => p.refunded = refunded' /\ p.credit = credit',
             p.op = "webhook" => p.refunded = refunded',
             p.op = "consume" => p.credit = credit'
      PROVE  ReadsHold'
  <2>1. \A s \in Slots : requests'[s] = IF s = q THEN p ELSE Idle
    BY <1>2 DEF RefundInv, RowsInv, Tables
  <2>2. QED
    BY <1>2, <2>1 DEF ReadsHold, Idle, Slots
<1>3. ASSUME NEW q, NEW p, Begin(q, p)
      PROVE  /\ requests' = [requests EXCEPT ![q] = p]
             /\ \A s \in Slots : s # q => requests[s] = Idle
             /\ UNCHANGED <<refunded, credit>>
  BY <1>3 DEF Begin, MayBegin, AllOneAtATime, money
<1>4. ASSUME NEW q, Ask(q)
      PROVE  ReadsHold'
  <2>1. PICK p : /\ Begin(q, p) /\ p.op \notin {"webhook", "apply", "complete"}
                 /\ p.op = "consume" => p.credit = credit
    BY <1>4, AskTells DEF Tells
  <2>2. QED
    BY <1>2, <1>3, <2>1
<1>5. ASSUME NEW q, Deliver(q)
      PROVE  ReadsHold'
  BY <1>2, <1>3, <1>5 DEF Deliver, BeginWebhook
<1>6. ASSUME NEW q \in Slots, Commit(q) \/ Crash(q)
      PROVE  ReadsHold'
  <2>1. \A s \in Slots : s # q => requests[s] = Idle
    BY <1>6, GoesOn DEF OneInFlight
  <2>2. CASE requests' = [requests EXCEPT ![q] = Idle]
    BY <1>2, <2>1, <2>2 DEF Idle
  <2>3. CASE CommitProcessing(q)
    <3> DEFINE op == IF refunds[requests[q].r].method = "stripe" THEN "charge" ELSE "apply"
    <3>1. op \notin {"complete", "webhook", "consume"}
      OBVIOUS
    <3>2. requests' = [requests EXCEPT ![q] = [op |-> op, r |-> requests[q].r, sid |-> 0,
                                               amount |-> refunds[requests[q].r].amount]]
      BY <2>3 DEF CommitProcessing
    <3> HIDE DEF op
    <3>3. QED
      BY <1>2, <2>1, <3>1, <3>2
  <2>4. CASE ReadFinancials(q)
    BY <1>2, <2>1, <2>4 DEF ReadFinancials, money
  <2>5. CASE Charge(q)
    <3>1. PICK x \in StripeIds : requests' = [requests EXCEPT ![q].op = "apply", ![q].sid = x]
      BY <2>5 DEF Charge
    <3> DEFINE p == [requests[q] EXCEPT !.op = "apply", !.sid = x]
    <3>2. requests' = [requests EXCEPT ![q] = p]
      BY <3>1 DEF RefundInv, RowsInv, Tables
    <3>3. p.op = "apply"
      <4>1. requests[q] \in PayRequest
        BY <2>5 DEF Charge, RefundInv, RowsInv, Tables, Request, Idle, CreateRequest,
             ApproveRequest, StatusRequest, CompleteRequest, WebhookRequest, ConsumeRequest
      <4>2. QED
        BY <4>1 DEF PayRequest
    <3> HIDE DEF p
    <3>4. QED
      BY <1>2, <2>1, <3>2, <3>3
  <2>6. QED
    BY <1>6, <2>2, <2>3, <2>4, <2>5 DEF Commit, Crash, Finish, CommitCreate, CommitApprove,
         CommitReject, CommitCancel, SetStatus, ChargeFails, Complete, CompleteFails,
         CommitWebhook, CommitConsume
<1>7. QED
  BY <1>1, <1>4, <1>5, <1>6 DEF Next

\* What refunds were paid out, and those of them into the credit account.
ToCredit == {r \in PaidOut : refunds[r].method = "credit"}

\* A refund is paid out when it is completed.
LEMMA PaidOutIs ==
  ASSUME Sizes, RefundInv
  PROVE  PaidOut = {r \in Rows : refunds[r].st = "completed"}
<1>1. \A r \in Rows : refunds[r].processed # 0 <=> refunds[r].st = "completed"
  BY AmountsOf DEF RefundInv, RowsInv, RowsTell
<1>2. QED
  BY <1>1 DEF PaidOut

\* The same of the next table.
LEMMA PaidOutNext ==
  ASSUME Sizes, RefundInv'
  PROVE  PaidOut' = {r \in Rows' : refunds'[r].st = "completed"}
<1>1. \A r \in Rows' : refunds'[r].processed # 0 <=> refunds'[r].st = "completed"
  BY AmountsNext DEF RefundInv, RowsInv, RowsTell
<1>2. QED
  BY <1>1 DEF PaidOut

\* What was paid out stays so, for as much.
LEMMA PaidOutKept ==
  ASSUME Sizes, RefundInv, RefundInv', Next
  PROVE  /\ PaidOut \subseteq PaidOut' /\ ToCredit \subseteq ToCredit'
         /\ PaidOut \in SUBSET RefundIds /\ ToCredit \in SUBSET RefundIds
         /\ ToCredit' \cap PaidOut = ToCredit
         /\ \A r \in PaidOut : Amounts(refunds')[r] = Amounts(refunds)[r]
         /\ Total(PaidOut) = Sum(Amounts(refunds), PaidOut)
         /\ Total(ToCredit) = Sum(Amounts(refunds), ToCredit)
         /\ Total(PaidOut)' = Sum(Amounts(refunds'), PaidOut')
         /\ Total(ToCredit)' = Sum(Amounts(refunds'), ToCredit')
         /\ Total(PaidOut) \in Nat /\ Total(ToCredit) \in Nat
<1>1. ASSUME NEW r \in PaidOut
      PROVE  refunds'[r] = refunds[r] /\ r \in RefundIds /\ r \in Rows /\ r \in PaidOut'
  <2>1. r \in RefundIds /\ r \in Rows /\ refunds[r].st = "completed"
    BY PaidOutIs DEF Rows
  <2>2. refunds'[r] = refunds[r]
    BY <2>1, WritesHeldRow
  <2>3. QED
    BY <2>1, <2>2, PaidOutNext DEF Rows
<1>2. \A r \in PaidOut : Amounts(refunds')[r] = Amounts(refunds)[r]
  BY <1>1 DEF Amounts
<1>3. /\ PaidOut \in SUBSET Rows /\ ToCredit \in SUBSET Rows
      /\ PaidOut \in SUBSET RefundIds /\ ToCredit \in SUBSET RefundIds
  BY DEF PaidOut, ToCredit, Rows
<1>4. /\ Total(PaidOut) = Sum(Amounts(refunds), PaidOut)
      /\ Total(ToCredit) = Sum(Amounts(refunds), ToCredit)
  BY <1>3, AmountsOf DEF RefundInv
<1>5. /\ Total(PaidOut)' = Sum(Amounts(refunds'), PaidOut')
      /\ Total(ToCredit)' = Sum(Amounts(refunds'), ToCredit')
  BY AmountsNext DEF RefundInv, ToCredit
<1>6. ToCredit \subseteq ToCredit' /\ ToCredit' \cap PaidOut = ToCredit
  BY <1>1 DEF ToCredit
<1>7. QED
  BY <1>1, <1>2, <1>3, <1>4, <1>5, <1>6, UnitsFinite

\* A step that pays nothing out changes neither sum.
LEMMA NothingPaidOut ==
  ASSUME Sizes, RefundInv, RefundInv', Next, PaidOut' \subseteq PaidOut
  PROVE  Total(PaidOut)' = Total(PaidOut) /\ Total(ToCredit)' = Total(ToCredit)
<1>1. PaidOut' = PaidOut /\ ToCredit' = ToCredit /\ ToCredit \subseteq PaidOut
  BY PaidOutKept DEF ToCredit
<1>2. /\ Sum(Amounts(refunds'), PaidOut) = Sum(Amounts(refunds), PaidOut)
      /\ Sum(Amounts(refunds'), ToCredit) = Sum(Amounts(refunds), ToCredit)
  BY <1>1, PaidOutKept, SumDepends
<1>3. QED
  BY <1>1, <1>2, PaidOutKept

\* One that pays row n out adds its amount to what was paid out, and to the credit granted
\* when the row is one of credit.
LEMMA OnePaidOut ==
  ASSUME Sizes, RefundInv, RefundInv', Next, NEW n \in RefundIds, n \notin PaidOut,
         PaidOut' = PaidOut \cup {n}
  PROVE  /\ Total(PaidOut)' = Total(PaidOut) + refunds'[n].amount
         /\ Total(ToCredit)' =
              Total(ToCredit) + IF refunds'[n].method = "credit" THEN refunds'[n].amount ELSE 0
         /\ refunds'[n].amount \in 1 .. Paid
<1>1. ToCredit' = IF refunds'[n].method = "credit" THEN ToCredit \cup {n} ELSE ToCredit
  <2>1. \A r : r \in ToCredit' <=> r \in PaidOut' /\ refunds'[r].method = "credit"
    BY DEF ToCredit
  <2>2. \A r \in PaidOut : r \in ToCredit' <=> r \in ToCredit
    BY PaidOutKept
  <2>3. QED
    BY <2>1, <2>2 DEF ToCredit
<1>2. ToCredit \subseteq PaidOut /\ n \notin ToCredit
  BY DEF ToCredit
<1>3. n \in Rows' /\ Amounts(refunds')[n] = refunds'[n].amount /\ refunds'[n].amount \in 1 .. Paid
  <2>1. n \in Rows'
    BY DEF PaidOut
  <2>2. QED
    BY <2>1, AmountsNext DEF RefundInv
<1>4. Amounts(refunds') \in [RefundIds -> 0 .. Paid]
  BY AmountsNext DEF RefundInv
<1>5. /\ Sum(Amounts(refunds'), PaidOut) = Sum(Amounts(refunds), PaidOut)
      /\ Sum(Amounts(refunds'), ToCredit) = Sum(Amounts(refunds), ToCredit)
  BY <1>2, PaidOutKept, SumDepends
<1>6. Sum(Amounts(refunds'), PaidOut \cup {n}) = Sum(Amounts(refunds'), PaidOut) + refunds'[n].amount
  BY <1>3, <1>4, PaidOutKept, SumAdds
<1>7. Sum(Amounts(refunds'), ToCredit \cup {n}) = Sum(Amounts(refunds'), ToCredit) + refunds'[n].amount
  BY <1>2, <1>3, <1>4, PaidOutKept, SumAdds
<1>8. Total(PaidOut)' = Total(PaidOut) + refunds'[n].amount
  BY <1>5, <1>6, PaidOutKept
<1>9. CASE refunds'[n].method = "credit"
  BY <1>1, <1>3, <1>5, <1>7, <1>8, <1>9, PaidOutKept
<1>10. CASE refunds'[n].method # "credit"
  BY <1>1, <1>3, <1>5, <1>8, <1>10, PaidOutKept
<1>11. QED
  BY <1>9, <1>10

\* A cap applied to a sum already capped.
LEMMA CapsAdd ==
  ASSUME NEW t \in Nat, NEW a \in Nat, NEW cap \in Nat
  PROVE  AtMost(AtMost(t, cap) + a, cap) = AtMost(t + a, cap)
BY DEF AtMost

\* Only a handler that completes its row or a webhook pays out.
LEMMA WhoPaysOut ==
  ASSUME Sizes, RefundInv, RefundInv', Next, NEW r \in PaidOut', r \notin PaidOut
  PROVE  \/ r \in Rows /\ \E q \in Slots : Complete(q) /\ requests[q].r = r
         \/ r \notin Rows /\ \E q \in Slots : CommitWebhook(q)
<1>1. r \in RefundIds /\ refunds'[r].st = "completed"
  BY PaidOutNext DEF Rows
<1>2. CASE r \in Rows
  BY <1>1, <1>2, RowEvolves, PaidOutIs
<1>3. CASE r \notin Rows
  BY <1>1, <1>3, NewRows
<1>4. QED
  BY <1>2, <1>3

\* A handler that completes its refund adds its amount to the balances it read.
LEMMA CompletionAddsUp ==
  ASSUME Sizes, Apart, RefundInv', ReadsHold, BalancesAddUp, Next, NEW q \in Slots, Complete(q)
  PROVE  BalancesAddUp'
<1> USE DEF Apart
<1>0. PICK p, r : p = requests[q] /\ r = p.r
  OBVIOUS
<1>1. p.op = "complete" /\ Working(q) /\ p.refunded = refunded /\ p.credit = credit
  BY <1>0 DEF Complete, Working, RowOps, ReadsHold
<1>2. /\ r \in RefundIds /\ r \in Rows /\ refunds[r].st = "processing" /\ p.amount = refunds[r].amount
      /\ p.amount \in 1 .. Paid
  BY <1>0, <1>1, Carries DEF RefundInv, RowsInv, Held, Holds, Working, Rows
<1>3. refunds'[r].amount = refunds[r].amount /\ refunds'[r].method = refunds[r].method
  BY <1>2, RowEvolves
<1>4. r \notin PaidOut
  BY <1>2, PaidOutIs
<1>5. PaidOut' = PaidOut \cup {r}
  <2>1. r \in PaidOut'
    <3>1. refunds' = [refunds EXCEPT ![r].st = "completed", ![r].processed = p.amount,
                                     ![r].stripe = IF p.sid = 0 THEN @ ELSE p.sid]
      BY <1>0 DEF Complete
    <3>2. refunds'[r] = [refunds[r] EXCEPT !.st = "completed", !.processed = p.amount,
                                           !.stripe = IF p.sid = 0 THEN @ ELSE p.sid]
      BY <1>2, <3>1 DEF RefundInv, RowsInv, Tables
    <3>3. refunds[r] \in Row
      BY <1>2, RowThere DEF RefundInv, RowsInv
    <3>4. refunds'[r].st = "completed"
      BY <3>2, <3>3 DEF Row
    <3>5. QED
      BY <1>2, <3>4, PaidOutNext DEF Rows
  <2>2. ASSUME NEW s \in PaidOut', s \notin PaidOut
        PROVE  s = r
    <3>1. CASE s \in Rows
      <4>1. PICK t \in Slots : Complete(t) /\ requests[t].r = s
        BY <2>2, <3>1, WhoPaysOut
      <4>2. t = q
        BY <1>1, <4>1 DEF Complete, Working, RowOps, RefundInv, RowsInv, OneWorks
      <4>3. QED
        BY <1>0, <4>1, <4>2
    <3>2. CASE s \notin Rows
      <4>1. refunds'[s].st # "none" /\ s \in RefundIds
        BY <2>2, PaidOutNext DEF Rows
      <4>2. s # r => refunds'[s] = refunds[s]
        BY <1>0, <4>1 DEF Complete, RefundInv, RowsInv, Tables
      <4>3. QED
        BY <3>2, <4>1, <4>2 DEF Rows
    <3>3. QED
      BY <3>1, <3>2
  <2>3. QED
    BY <2>1, <2>2, PaidOutKept
<1>6. /\ Total(PaidOut)' = Total(PaidOut) + p.amount
      /\ Total(ToCredit)' = Total(ToCredit) + IF refunds[r].method = "credit" THEN p.amount ELSE 0
  BY <1>2, <1>3, <1>4, <1>5, OnePaidOut
<1>7. Total(PaidOut) \in Nat /\ Total(ToCredit) \in Nat /\ Paid \in Nat
  BY PaidOutKept DEF Sizes
<1>8. RefundedMatches'
  <2> SUFFICES ASSUME ~InvoiceBased PROVE refunded' = AtMost(Total(PaidOut)', Paid)
    BY DEF RefundedMatches, AtMost
  <2>1. refunded' = AtMost(refunded + p.amount, Paid)
    BY <1>0, <1>1 DEF Complete, NewRefunded
  <2>2. refunded = AtMost(Total(PaidOut), Paid)
    BY DEF BalancesAddUp, RefundedMatches
  <2>3. QED
    BY <1>2, <1>6, <1>7, <2>1, <2>2, CapsAdd
<1>9. CreditConserved'
  <2>1. credit + spent = Total(ToCredit) /\ credit \in Nat /\ spent \in Nat
    BY DEF BalancesAddUp, CreditConserved, ToCredit, RefundInv, Balances
  <2>2. spent' = spent /\ credit' = IF refunds[r].method = "credit" THEN credit + p.amount ELSE credit
    BY <1>0, <1>1 DEF Complete, NewCredit
  <2>3. credit' + spent' = Total(ToCredit)'
    BY <1>2, <1>6, <1>7, <2>1, <2>2
  <2>4. QED
    BY <2>3 DEF CreditConserved, ToCredit
<1>10. QED
  BY <1>8, <1>9 DEF BalancesAddUp

\* When nothing is paid out and only credit moves to what was spent, the books agree still.
LEMMA BooksStay ==
  ASSUME Sizes, RefundInv, RefundInv', BalancesAddUp, Next, PaidOut' \subseteq PaidOut,
         refunded' = refunded, credit' + spent' = credit + spent
  PROVE  BalancesAddUp'
<1>1. Total(PaidOut)' = Total(PaidOut) /\ Total(ToCredit)' = Total(ToCredit)
  BY NothingPaidOut
<1>2. RefundedMatches'
  <2> SUFFICES ASSUME ~InvoiceBased PROVE refunded' = AtMost(Total(PaidOut)', Paid)
    BY DEF RefundedMatches, AtMost
  <2>1. QED
    BY <1>1 DEF BalancesAddUp, RefundedMatches
<1>3. CreditConserved'
  BY <1>1 DEF BalancesAddUp, CreditConserved, ToCredit
<1>4. QED
  BY <1>2, <1>3 DEF BalancesAddUp

\* A webhook adds the refund it records to the receipt.
LEMMA WebhookAddsUp ==
  ASSUME Sizes, Apart, RefundInv', ReadsHold, BalancesAddUp, Next, NEW q \in Slots, CommitWebhook(q)
  PROVE  BalancesAddUp'
<1> USE DEF Apart
<1>0. PICK x : x = requests[q].x
  OBVIOUS
<1>1. /\ requests[q].op = "webhook" /\ x \in StripeIds /\ stripe[x].st = "refunded"
      /\ requests[q].refunded = refunded /\ UNCHANGED <<credit, spent>>
  BY <1>0, Carries DEF CommitWebhook, ReadsHold, RefundInv, RowsInv, Delivered
<1>2. stripe[x].amount \in 1 .. Paid
  BY <1>1, PaidThere DEF RefundInv, RowsInv
<1>3. ~(\E t \in Slots : Complete(t))
  <2> SUFFICES ASSUME NEW t \in Slots, Complete(t) PROVE FALSE
    OBVIOUS
  <2>1. requests[t].op = "complete"
    BY DEF Complete
  <2>2. requests[t] # Idle /\ requests[q] # Idle
    BY <1>1, <2>1 DEF Idle
  <2>3. QED
    BY <1>1, <2>1, <2>2 DEF OneInFlight
<1>4. CASE Recorded(x)
  <2>1. UNCHANGED <<refunds, refunded>>
    BY <1>0, <1>4 DEF CommitWebhook
  <2>2. PaidOut' \subseteq PaidOut
    BY <2>1 DEF PaidOut, Rows
  <2>3. credit' + spent' = credit + spent
    BY <1>1
  <2>4. QED
    BY <2>1, <2>2, <2>3, BooksStay
<1>5. CASE ~Recorded(x)
  <2> DEFINE row == [st |-> "completed", amount |-> stripe[x].amount, paid |-> Paid, key |-> 0,
                     override |-> FALSE, method |-> "stripe", stripe |-> x,
                     processed |-> stripe[x].amount]
  <2>1. PICK n \in RefundIds : Fresh(refunds, n) /\ refunds' = [refunds EXCEPT ![n] = row]
    BY <1>0, <1>5 DEF CommitWebhook
  <2>2. refunds'[n] = row /\ \A s \in RefundIds : s # n => refunds'[s] = refunds[s]
    BY <2>1 DEF RefundInv, RowsInv, Tables
  <2>3. /\ refunds'[n].st = "completed" /\ refunds'[n].amount = stripe[x].amount
        /\ refunds'[n].method # "credit" /\ n \notin Rows /\ n \in Rows'
    BY <2>1, <2>2 DEF Fresh, Rows
  <2> HIDE DEF row
  <2>4. n \notin PaidOut /\ n \in PaidOut'
    BY <2>3, PaidOutNext DEF PaidOut
  <2>5. ASSUME NEW s \in PaidOut', s \notin PaidOut
        PROVE  s = n
    <3>1. s \notin Rows
      BY <1>3, <2>5, WhoPaysOut
    <3>2. refunds'[s].st # "none" /\ s \in RefundIds
      BY <2>5 DEF PaidOut, Rows
    <3>3. QED
      BY <2>2, <3>1, <3>2 DEF Rows
  <2>6. PaidOut' = PaidOut \cup {n}
    BY <2>4, <2>5, PaidOutKept
  <2>7. /\ Total(PaidOut)' = Total(PaidOut) + stripe[x].amount
        /\ Total(ToCredit)' = Total(ToCredit) + 0
    BY <2>3, <2>4, <2>6, OnePaidOut
  <2>8. Total(PaidOut) \in Nat /\ Total(ToCredit) \in Nat /\ Paid \in Nat
    BY PaidOutKept DEF Sizes
  <2>9. RefundedMatches'
    <3> SUFFICES ASSUME ~InvoiceBased PROVE refunded' = AtMost(Total(PaidOut)', Paid)
      BY DEF RefundedMatches, AtMost
    <3>1. refunded' = AtMost(refunded + stripe[x].amount, Paid)
      BY <1>0, <1>1, <1>5 DEF CommitWebhook
    <3>2. refunded = AtMost(Total(PaidOut), Paid)
      BY DEF BalancesAddUp, RefundedMatches
    <3>3. QED
      BY <1>2, <2>7, <2>8, <3>1, <3>2, CapsAdd
  <2>10. CreditConserved'
    <3>1. credit' + spent' = Total(ToCredit)'
      BY <1>1, <2>7, <2>8 DEF BalancesAddUp, CreditConserved, ToCredit
    <3>2. QED
      BY <3>1 DEF CreditConserved, ToCredit
  <2>11. QED
    BY <2>9, <2>10 DEF BalancesAddUp
<1>6. QED
  BY <1>4, <1>5

\* Every step keeps the books.
LEMMA BooksStep ==
  ASSUME Sizes, Apart, RefundInv', ReadsHold, BalancesAddUp, [Next]_vars
  PROVE  BalancesAddUp'
<1> USE DEF Apart
<1>1. CASE UNCHANGED vars
  BY <1>1 DEF vars, money, BalancesAddUp, RefundedMatches, CreditConserved, Total, PaidOut, Rows
<1>2. ASSUME Next, \A q \in Slots : ~Complete(q) /\ ~CommitWebhook(q)
      PROVE  BalancesAddUp'
  <2>1. PaidOut' \subseteq PaidOut
    BY <1>2, WhoPaysOut
  <2>2. refunded' = refunded /\ credit' + spent' = credit + spent
    <3>1. CASE UNCHANGED money
      BY <3>1 DEF money
    <3>2. ASSUME NEW q \in Slots, CommitConsume(q)
          PROVE  refunded' = refunded /\ credit' + spent' = credit + spent
      <4>1. requests[q].credit = credit /\ requests[q].used \in Nat /\ credit \in Nat /\ spent \in Nat
        BY <3>2, Carries DEF CommitConsume, ReadsHold, RefundInv, RowsInv, Balances
      <4>2. QED
        BY <3>2, <4>1 DEF CommitConsume
    <3>3. ASSUME NEW q, Ask(q) \/ Deliver(q) \/ Crash(q)
          PROVE  UNCHANGED money
      BY <3>3, AskBegins DEF Begin, Deliver, BeginWebhook, Crash, money
    <3>4. ASSUME NEW q \in Slots, Commit(q), ~CommitConsume(q)
          PROVE  UNCHANGED money
      BY <1>2, <3>4 DEF Commit, CommitCreate, CommitApprove, CommitReject, CommitCancel, SetStatus,
           CommitProcessing, Charge, ChargeFails, ReadFinancials, CompleteFails, money
    <3>5. QED
      BY <1>2, <3>1, <3>2, <3>3, <3>4 DEF Next
  <2>3. QED
    BY <1>2, <2>1, <2>2, BooksStay
<1>3. QED
  BY <1>1, <1>2, CompletionAddsUp, WebhookAddsUp

\* At first the books are empty.
LEMMA BooksInit ==
  ASSUME Sizes, Init
  PROVE  ReadsHold /\ BalancesAddUp
<1>1. ReadsHold
  BY DEF Init, ReadsHold, Idle
<1>2. PaidOut = {} /\ ToCredit = {} /\ RefundInv
  BY RefundInvInit DEF Init, PaidOut, ToCredit, Rows, NoRow
<1>3. Total(PaidOut) = 0 /\ Total(ToCredit) = 0
  BY <1>2, AmountsOf, SumOfNone DEF RefundInv
<1>4. QED
  BY <1>1, <1>3 DEF Init, BalancesAddUp, RefundedMatches, CreditConserved, ToCredit, AtMost, Sizes

\* The receipt's amount_refunded is the sum of the refunds paid out, up to what was paid,
\* and the credit granted is the balance plus what invoices used, while handlers run one
\* at a time, killed anywhere and with Stripe's answers lost.
THEOREM BooksAgree ==
  ASSUME Sizes, AllOneAtATime
  PROVE  Spec => []BalancesAddUp
<1>1. RowsOneAtATime
  BY AloneIsApart
<1>2. Init => OneInFlight /\ ReadsHold /\ BalancesAddUp
  BY ApartInit, BooksInit
<1>3. RefundInv /\ OneInFlight /\ [Next]_vars => OneInFlight'
  BY OneInFlightStep
<1>4. RefundInv /\ OneInFlight /\ OneInFlight' /\ ReadsHold /\ [Next]_vars => ReadsHold'
  BY ReadsHoldStep DEF Apart
<1>5. RefundInv /\ RefundInv' /\ OneInFlight /\ ReadsHold /\ BalancesAddUp /\ [Next]_vars
        => BalancesAddUp'
  BY BooksStep DEF Apart
<1>6. Spec => []RefundInv
  BY <1>1, RefundInductive
<1>7. QED
  BY <1>2, <1>3, <1>4, <1>5, <1>6, PTL DEF Spec

=============================================================================
