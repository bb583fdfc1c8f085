----------------------------- MODULE LoneWorker -----------------------------
(***************************************************************************)
(* Lone worker monitoring: sessions, safety checks, incidents and the      *)
(* minute sweep (backend/app/services/lone_worker_service.py).             *)
(*                                                                         *)
(* API handlers run on a thread pool and the sweep in a worker process,    *)
(* all over one database.  A handler reads rows without holding a lock and *)
(* later writes the columns it changed by primary key, so every handler is *)
(* a read step, which leaves what it read in requests[r], and a commit     *)
(* step.  The sweep commits at each notification it sends, so it is a read *)
(* and a commit step per session and a commit step per climbing incident.  *)
(***************************************************************************)
EXTENDS Integers, FiniteSets

CONSTANTS
  Guards,             \* staff who work alone
  SessionIds, CheckIds, IncidentIds,  \* primary keys, as many as the bound allows
  Requests,           \* API handlers that can be in flight at once
  Sweepers,           \* runs of the sweep that can overlap
  Rules,              \* timing rules [checkIn, reminder, grace, interval]
  DefaultRules,       \* what a session without a policy gets
  Tops,               \* heights of the escalation ladder a policy can have
  MaxTime,            \* bound: the clock stops here
  MaxAlarms,          \* bound: alarms raised by hand
  MaxLevel,           \* bound: no manual escalation from here on
  MaxCrashes,         \* bound: processes killed
  NamedChecks,        \* clients may send check_id with a check-in
  Serial              \* TRUE: handlers and sweeps never overlap

ASSUME LoneWorkerAssumption ==
  /\ SessionIds \subseteq Nat \ {0}
  /\ CheckIds \subseteq Nat \ {0}
  /\ IncidentIds \subseteq Nat \ {0}
  /\ Rules \subseteq [checkIn : Nat \ {0}, reminder : Nat, grace : Nat, interval : Nat \ {0}]
  /\ DefaultRules \in Rules
  /\ Tops \subseteq Nat
  /\ Tops # {}
  /\ MaxTime \in Nat
  /\ MaxAlarms \in Nat
  /\ MaxLevel \in Nat
  /\ MaxCrashes \in Nat
  /\ NamedChecks \in BOOLEAN
  /\ Serial \in BOOLEAN

VARIABLES
  now,        \* the wall clock, in minutes
  policy,     \* the one escalation policy of the site
  sessions, checks, incidents,  \* the tables, by primary key
  requests,   \* what each API handler in flight has read
  sweeps,     \* what each run of the sweep has read
  crashes     \* processes killed so far

vars == <<now, policy, sessions, checks, incidents, requests, sweeps, crashes>>
tables == <<sessions, checks, incidents>>

-----------------------------------------------------------------------------
\* Rows.  A primary key not yet used holds NoRow.

NoRow == [st |-> "none"]
Idle == [op |-> "idle"]

SessionRow == [st : {"active", "completed"}, guard : Guards, rules : Rules, pol : BOOLEAN]
\* How a responder closes an incident: safe, or an incident or emergency (unsafe).
Resolutions == {"safe", "unsafe"}

CheckRow == [st : {"pending", "safe", "safe_late", "missed", "cancelled"},
             sess : SessionIds, due : Nat, reminded : BOOLEAN]
IncidentRow == [st : {"escalating", "acknowledged", "resolved"}, sess : SessionIds,
                kind : {"alarm", "missed_check"}, level : Nat, last : Nat,
                res : {"open"} \cup Resolutions]
PolicyRow == [live : BOOLEAN, rules : Rules, top : Tops]

\* What a handler holds between its reads and its commit.
Request ==
  {Idle}
  \cup [op : {"start"}, guard : Guards, rules : Rules, pol : BOOLEAN]
  \cup [op : {"check_in"}, s : SessionIds, c : CheckIds \cup {0},
        answer : {"safe", "safe_late", "none"}, t : Nat]
  \cup [op : {"alarm"}, s : SessionIds]
  \cup [op : {"end"}, s : SessionIds, cs : SUBSET CheckIds]
  \cup [op : {"acknowledge"}, i : IncidentIds]
  \cup [op : {"escalate"}, i : IncidentIds, seen : {"escalating", "acknowledged"}, level : Nat]
  \cup [op : {"resolve"}, i : IncidentIds, s : SessionIds,
        res : Resolutions, schedule : BOOLEAN, t : Nat]
  \cup [op : {"delete_policy"}]

Seen == [level : Nat, last : Nat]  \* columns of an incident the ladder loop loaded

\* Where a run of the sweep is.  c and i are the check and open incident read for
\* session s (i = 0 for none); fresh says rows are reloaded after a commit.
Sweep ==
  {Idle}
  \cup [op : {"scan"}, t : Nat, todo : SUBSET SessionIds]
  \cup [op : {"miss"}, t : Nat, todo : SUBSET SessionIds, s : SessionIds,
        c : CheckIds, i : IncidentIds \cup {0}, level : Nat]
  \cup [op : {"ladder"}, t : Nat, todo : SUBSET IncidentIds,
        seen : [IncidentIds -> Seen], fresh : BOOLEAN]

Active == {s \in SessionIds : sessions[s].st = "active"}
Pending(s) == {c \in CheckIds : checks[c].st = "pending" /\ checks[c].sess = s}
OpenStatus == {"escalating", "acknowledged"}
OpenIncidents(s) == {i \in IncidentIds : incidents[i].st \in OpenStatus /\ incidents[i].sess = s}

\* The first unused primary key, if any is left.
Fresh(rows, n) ==
  /\ rows[n].st = "none"
  /\ \A m \in DOMAIN rows : m < n => rows[m].st # "none"

\* open_check: the pending check that is due first.
OpenCheck(s) == {c \in Pending(s) : \A d \in Pending(s) : checks[c].due <= checks[d].due}

\* open_incident: the open incident opened last.
OpenIncident(s) == {i \in OpenIncidents(s) : \A j \in OpenIncidents(s) : j <= i}

\* max_escalation_level: the highest rung the policy has now.
MaxEscalationLevel(s) == IF sessions[s].pol THEN policy.top ELSE 0

\* The level at which the ladder loop of the sweep stops.
LadderTop(s) == IF MaxEscalationLevel(s) > 1 THEN MaxEscalationLevel(s) ELSE 1

\* Mutant: a new check gets a status the schema does not know.
ScheduledCheck_Open(s, rules, from) ==
  [st |-> "open", sess |-> s, due |-> from + rules.checkIn, reminded |-> FALSE]

ScheduledCheck(s, rules, from) ==
  [st |-> "pending", sess |-> s, due |-> from + rules.checkIn, reminded |-> FALSE]

\* Mutant: the incident is inserted but not escalated.
NewIncident_Silent(s, kind) ==
  [st |-> "escalating", sess |-> s, kind |-> kind, level |-> 0, last |-> now, res |-> "open"]

NewIncident(s, kind) ==
  [st |-> "escalating", sess |-> s, kind |-> kind, level |-> 1, last |-> now, res |-> "open"]

\* escalate: one rung up from the level the handler read.
Climb(row, level) == [row EXCEPT !.level = level + 1, !.last = now]

-----------------------------------------------------------------------------
\* Scheduling of handlers.

Quiet == (\A r \in Requests : requests[r] = Idle) /\ (\A w \in Sweepers : sweeps[w] = Idle)
MayBegin == Serial => Quiet

\* bound: an in-flight handler always finds an unused key for the check it inserts
RoomForChecks == Cardinality({c \in CheckIds : checks[c].st = "none"}) >= Cardinality(Requests)

\* bound: the same for the session a start inserts
RoomForSession == Cardinality({s \in SessionIds : sessions[s].st = "none"}) >= Cardinality(Requests)

\* bound: alarms raised by hand
RoomForAlarm ==
  Cardinality({i \in IncidentIds : incidents[i].st # "none" /\ incidents[i].kind = "alarm"})
    < MaxAlarms

Begin(r, req) ==
  /\ MayBegin
  /\ requests[r] = Idle
  /\ requests' = [requests EXCEPT ![r] = req]
  /\ UNCHANGED <<now, policy, tables, sweeps, crashes>>

Finish(r) == requests' = [requests EXCEPT ![r] = Idle]

\* _schedule_check, after the session row the commit leaves.
ScheduleCheck(c, s, rules, from, rows) ==
  /\ Fresh(checks, c)
  /\ checks' = [rows EXCEPT ![c] = ScheduledCheck(s, rules, from)]

-----------------------------------------------------------------------------
\* The policy of the site.

CreatePolicy ==
  /\ MayBegin
  /\ ~policy.live
  /\ \A s \in SessionIds : sessions[s].st # "none" => ~sessions[s].pol  \* bound: one policy row
  /\ policy' \in [live : {TRUE}, rules : Rules, top : Tops]
  /\ UNCHANGED <<now, tables, requests, sweeps, crashes>>

UpdatePolicy ==
  /\ MayBegin
  /\ policy.live
  /\ policy' \in [live : {TRUE}, rules : Rules, top : Tops]
  /\ UNCHANGED <<now, tables, requests, sweeps, crashes>>

BeginDeletePolicy(r) ==
  /\ policy.live
  /\ \A s \in Active : ~sessions[s].pol
  /\ Begin(r, [op |-> "delete_policy"])

CommitDeletePolicy(r) ==
  /\ requests[r].op = "delete_policy"
  /\ policy' = [policy EXCEPT !.live = FALSE]
  /\ Finish(r)
  /\ UNCHANGED <<now, tables, sweeps, crashes>>

-----------------------------------------------------------------------------
\* The worker's own handlers.

\* Mutant: start_session does not look for an active session.
BeginStart_Unchecked(r, g) ==
  /\ RoomForSession
  /\ RoomForChecks
  /\ Begin(r, [op |-> "start", guard |-> g, pol |-> policy.live,
               rules |-> IF policy.live THEN policy.rules ELSE DefaultRules])

BeginStart(r, g) ==
  /\ RoomForSession
  /\ RoomForChecks
  /\ \A s \in Active : sessions[s].guard # g
  /\ Begin(r, [op |-> "start", guard |-> g, pol |-> policy.live,
               rules |-> IF policy.live THEN policy.rules ELSE DefaultRules])

CommitStart(r) ==
  LET q == requests[r] IN
  /\ q.op = "start"
  /\ \E s \in SessionIds, c \in CheckIds :
       /\ Fresh(sessions, s)
       /\ sessions' = [sessions EXCEPT ![s] =
            [st |-> "active", guard |-> q.guard, rules |-> q.rules, pol |-> q.pol]]
       /\ ScheduleCheck(c, s, q.rules, now, checks)
  /\ Finish(r)
  /\ UNCHANGED <<now, policy, incidents, sweeps, crashes>>

\* The check a check-in answers: the one it names, else the open one, else the
\* latest missed one, else none (0).
AnsweredCheck(s, named) ==
  LET missed == {c \in CheckIds : checks[c].st = "missed" /\ checks[c].sess = s} IN
  CASE named # 0 -> {named}
    [] named = 0 /\ OpenCheck(s) # {} -> OpenCheck(s)
    [] named = 0 /\ OpenCheck(s) = {} /\ missed # {} ->
         {c \in missed : \A d \in missed : checks[d].due <= checks[c].due}
    [] OTHER -> {0}

Late(s, c, t) == t > checks[c].due + sessions[s].rules.grace

\* Mutant: a late confirmation turns a missed check into an answered one.
BeginCheckIn_Rewrites(r, s) ==
  /\ RoomForChecks
  /\ s \in Active
  /\ \E c \in AnsweredCheck(s, 0) :
       Begin(r, [op |-> "check_in", s |-> s, c |-> c, t |-> now,
                 answer |-> IF c = 0 THEN "none"
                            ELSE IF Late(s, c, now) THEN "safe_late" ELSE "safe"])

BeginCheckIn(r, s) ==
  /\ RoomForChecks
  /\ s \in Active
  /\ \E named \in {0} \cup {c \in CheckIds : NamedChecks /\ checks[c].st # "none"
                                                        /\ checks[c].sess = s} :
     \E c \in AnsweredCheck(s, named) :
       Begin(r, [op |-> "check_in", s |-> s, c |-> c, t |-> now,
                 answer |-> IF c = 0 \/ checks[c].st # "pending" THEN "none"
                            ELSE IF Late(s, c, now) THEN "safe_late" ELSE "safe"])

CommitCheckIn(r) ==
  LET q == requests[r] IN
  /\ q.op = "check_in"
  /\ \E c \in CheckIds :
       ScheduleCheck(c, q.s, sessions[q.s].rules, q.t,
         IF q.answer = "none" THEN checks ELSE [checks EXCEPT ![q.c].st = q.answer])
  /\ Finish(r)
  /\ UNCHANGED <<now, policy, sessions, incidents, sweeps, crashes>>

BeginAlarm(r, s) ==
  /\ RoomForAlarm
  /\ sessions[s].st # "none"
  /\ Begin(r, [op |-> "alarm", s |-> s])

CommitAlarm(r) ==
  /\ requests[r].op = "alarm"
  /\ \E i \in IncidentIds :
       /\ Fresh(incidents, i)
       /\ incidents' = [incidents EXCEPT ![i] = NewIncident(requests[r].s, "alarm")]
  /\ Finish(r)
  /\ UNCHANGED <<now, policy, sessions, checks, sweeps, crashes>>

\* Mutant: only an incident nobody acknowledged keeps the session open.
BeginEnd_Acknowledged(r, s) ==
  /\ s \in Active
  /\ \A i \in OpenIncidents(s) : incidents[i].st # "escalating"
  /\ Begin(r, [op |-> "end", s |-> s, cs |-> Pending(s)])

\* Mutant: the pending check is not cancelled.
BeginEnd_KeepsCheck(r, s) ==
  /\ s \in Active
  /\ OpenIncidents(s) = {}
  /\ Begin(r, [op |-> "end", s |-> s, cs |-> {}])

BeginEnd(r, s) ==
  /\ s \in Active
  /\ OpenIncidents(s) = {}
  /\ Begin(r, [op |-> "end", s |-> s, cs |-> Pending(s)])

CommitEnd(r) ==
  LET q == requests[r] IN
  /\ q.op = "end"
  /\ sessions' = [sessions EXCEPT ![q.s].st = "completed"]
  /\ checks' = [c \in CheckIds |->
                 IF c \in q.cs THEN [checks[c] EXCEPT !.st = "cancelled"] ELSE checks[c]]
  /\ Finish(r)
  /\ UNCHANGED <<now, policy, incidents, sweeps, crashes>>

-----------------------------------------------------------------------------
\* The responder's handlers.

BeginAcknowledge(r, i) ==
  /\ incidents[i].st = "escalating"
  /\ Begin(r, [op |-> "acknowledge", i |-> i])

CommitAcknowledge(r) ==
  /\ requests[r].op = "acknowledge"
  /\ incidents' = [incidents EXCEPT ![requests[r].i].st = "acknowledged"]
  /\ Finish(r)
  /\ UNCHANGED <<now, policy, sessions, checks, sweeps, crashes>>

\* Mutant: a resolved incident can be escalated.
BeginEscalate_Resolved(r, i) ==
  /\ incidents[i].st # "none"
  /\ incidents[i].level < MaxLevel
  /\ Begin(r, [op |-> "escalate", i |-> i, seen |-> incidents[i].st,
               level |-> incidents[i].level])

BeginEscalate(r, i) ==
  /\ incidents[i].st \in OpenStatus
  /\ incidents[i].level < MaxLevel
  /\ Begin(r, [op |-> "escalate", i |-> i, seen |-> incidents[i].st,
               level |-> incidents[i].level])

\* The status is written only when it differs from the one that was read.
CommitEscalate(r) ==
  LET q == requests[r]
      row == Climb(incidents[q.i], q.level) IN
  /\ q.op = "escalate"
  /\ incidents' = [incidents EXCEPT ![q.i] =
       IF q.seen = "escalating" THEN row ELSE [row EXCEPT !.st = "escalating"]]
  /\ Finish(r)
  /\ UNCHANGED <<now, policy, sessions, checks, sweeps, crashes>>

\* Mutant: resolving as safe always schedules a check, whatever is pending.
BeginResolve_Always(r, i, res) ==
  LET s == incidents[i].sess IN
  /\ RoomForChecks
  /\ incidents[i].st \in OpenStatus
  /\ Begin(r, [op |-> "resolve", i |-> i, s |-> s, res |-> res, t |-> now,
               schedule |-> s \in Active /\ res = "safe"])

\* Mutant: the check schedule does not continue.
BeginResolve_Never(r, i, res) ==
  /\ RoomForChecks
  /\ incidents[i].st \in OpenStatus
  /\ Begin(r, [op |-> "resolve", i |-> i, s |-> incidents[i].sess, res |-> res, t |-> now,
               schedule |-> FALSE])

BeginResolve(r, i, res) ==
  LET s == incidents[i].sess IN
  /\ RoomForChecks
  /\ incidents[i].st \in OpenStatus
  /\ Begin(r, [op |-> "resolve", i |-> i, s |-> s, res |-> res, t |-> now,
               schedule |-> s \in Active /\ res = "safe" /\ Pending(s) = {}])

CommitResolve(r) ==
  LET q == requests[r] IN
  /\ q.op = "resolve"
  /\ incidents' = [incidents EXCEPT ![q.i] = [@ EXCEPT !.st = "resolved", !.res = q.res]]
  /\ IF q.schedule
     THEN \E c \in CheckIds : ScheduleCheck(c, q.s, sessions[q.s].rules, q.t, checks)
     ELSE UNCHANGED checks
  /\ Finish(r)
  /\ UNCHANGED <<now, policy, sessions, sweeps, crashes>>

-----------------------------------------------------------------------------
\* The sweep.

Goto(w, state) ==
  /\ sweeps' = [sweeps EXCEPT ![w] = state]
  /\ UNCHANGED <<now, policy, sessions, requests, crashes>>

Scan(t, todo) == [op |-> "scan", t |-> t, todo |-> todo]

SweepBegin(w) ==
  /\ MayBegin
  /\ sweeps[w] = Idle
  /\ Goto(w, Scan(now, Active))
  /\ UNCHANGED <<checks, incidents>>

\* Mutant: the grace of the policy now, not the one copied to the session.
Overdue_Live(s, c, t) ==
  t >= checks[c].due + (IF sessions[s].pol THEN policy.rules ELSE sessions[s].rules).grace

Overdue(s, c, t) == t >= checks[c].due + sessions[s].rules.grace

\* Nothing to do for s: no open check, or it is neither due for a reminder nor overdue.
ReminderDue(s, c, t) ==
  /\ ~checks[c].reminded
  /\ t >= checks[c].due - sessions[s].rules.reminder
  /\ ~Overdue(s, c, t)

SweepSkip(w, s) ==
  LET p == sweeps[w] IN
  /\ p.op = "scan" /\ s \in p.todo
  /\ \A c \in OpenCheck(s) : ~Overdue(s, c, p.t) /\ ~ReminderDue(s, c, p.t)
  /\ Goto(w, Scan(p.t, p.todo \ {s}))
  /\ UNCHANGED <<checks, incidents>>

SweepRemind(w, s) ==
  LET p == sweeps[w] IN
  /\ p.op = "scan" /\ s \in p.todo
  /\ \E c \in OpenCheck(s) :
       /\ ReminderDue(s, c, p.t)
       /\ checks' = [checks EXCEPT ![c].reminded = TRUE]
  /\ Goto(w, Scan(p.t, p.todo \ {s}))
  /\ UNCHANGED incidents

\* Mutant: only a check whose reminder went out can be missed.
SweepOverdue_Reminded(w, s) ==
  LET p == sweeps[w] IN
  /\ p.op = "scan" /\ s \in p.todo
  /\ \E c \in OpenCheck(s) :
       /\ checks[c].reminded /\ Overdue(s, c, p.t)
       /\ Goto(w, [op |-> "miss", t |-> p.t, todo |-> p.todo, s |-> s, c |-> c, i |-> 0,
                   level |-> 0])
  /\ UNCHANGED <<checks, incidents>>

\* The grace of the open check is over: read the open incident.
SweepOverdue(w, s) ==
  LET p == sweeps[w] IN
  /\ p.op = "scan" /\ s \in p.todo
  /\ \E c \in OpenCheck(s), i \in IncidentIds \cup {0} :
       /\ Overdue(s, c, p.t)
       /\ i \in IF OpenIncidents(s) = {} THEN {0} ELSE OpenIncident(s)
       /\ Goto(w, [op |-> "miss", t |-> p.t, todo |-> p.todo, s |-> s, c |-> c, i |-> i,
                   level |-> IF i = 0 THEN 0 ELSE incidents[i].level])
  /\ UNCHANGED <<checks, incidents>>

\* The check is missed: open an incident unless one was open, and escalate it.
SweepMiss(w) ==
  LET p == sweeps[w] IN
  /\ p.op = "miss"
  /\ checks' = [checks EXCEPT ![p.c].st = "missed"]
  /\ IF p.i = 0
     THEN \E i \in IncidentIds :
            /\ Fresh(incidents, i)
            /\ incidents' = [incidents EXCEPT ![i] = NewIncident(p.s, "missed_check")]
     ELSE incidents' = [incidents EXCEPT ![p.i] = Climb(@, p.level)]
  /\ Goto(w, Scan(p.t, p.todo \ {p.s}))

\* All sessions done: load the incidents that are escalating.
SweepLadder(w) ==
  LET todo == {i \in IncidentIds : incidents[i].st = "escalating"} IN
  /\ sweeps[w].op = "scan" /\ sweeps[w].todo = {}
  /\ Goto(w, [op |-> "ladder", t |-> sweeps[w].t, todo |-> todo, fresh |-> FALSE,
              seen |-> [i \in IncidentIds |->
                IF i \in todo THEN [level |-> incidents[i].level, last |-> incidents[i].last]
                              ELSE [level |-> 0, last |-> 0]]])
  /\ UNCHANGED <<checks, incidents>>

\* What the ladder loop knows of i: after a commit the row is loaded again.
Loaded(p, i) ==
  IF p.fresh THEN [level |-> incidents[i].level, last |-> incidents[i].last] ELSE p.seen[i]

\* Mutant: the ladder goes one rung past its top.
MayClimb_PastTop(p, i) ==
  LET s == incidents[i].sess IN
  /\ p.t - Loaded(p, i).last >= sessions[s].rules.interval
  /\ Loaded(p, i).level <= LadderTop(s)

\* Mutant: the ladder stops one rung below its top.
MayClimb_BelowTop(p, i) ==
  LET s == incidents[i].sess IN
  /\ p.t - Loaded(p, i).last >= sessions[s].rules.interval
  /\ Loaded(p, i).level + 1 < LadderTop(s)

MayClimb(p, i) ==
  LET s == incidents[i].sess IN
  /\ p.t - Loaded(p, i).last >= sessions[s].rules.interval
  /\ Loaded(p, i).level < LadderTop(s)

SweepStay(w, i) ==
  LET p == sweeps[w] IN
  /\ p.op = "ladder" /\ i \in p.todo
  /\ ~MayClimb(p, i)
  /\ Goto(w, [p EXCEPT !.todo = @ \ {i}])
  /\ UNCHANGED <<checks, incidents>>

SweepClimb(w, i) ==
  LET p == sweeps[w] IN
  /\ p.op = "ladder" /\ i \in p.todo
  /\ MayClimb(p, i)
  /\ incidents' = [incidents EXCEPT ![i] = Climb(@, Loaded(p, i).level)]
  /\ Goto(w, [p EXCEPT !.todo = @ \ {i}, !.fresh = TRUE])
  /\ UNCHANGED checks

SweepEnd(w) ==
  /\ sweeps[w].op = "ladder" /\ sweeps[w].todo = {}
  /\ Goto(w, Idle)
  /\ UNCHANGED <<checks, incidents>>

-----------------------------------------------------------------------------
\* The clock and crashes.

Tick ==
  /\ now < MaxTime
  /\ now' = now + 1
  /\ UNCHANGED <<policy, tables, requests, sweeps, crashes>>

CrashRequest(r) ==
  /\ crashes < MaxCrashes
  /\ requests[r] # Idle
  /\ crashes' = crashes + 1
  /\ Finish(r)
  /\ UNCHANGED <<now, policy, tables, sweeps>>

CrashSweep(w) ==
  /\ crashes < MaxCrashes
  /\ sweeps[w] # Idle
  /\ crashes' = crashes + 1
  /\ sweeps' = [sweeps EXCEPT ![w] = Idle]
  /\ UNCHANGED <<now, policy, tables, requests>>

-----------------------------------------------------------------------------

Init ==
  /\ now = 0
  /\ policy \in [live : {TRUE}, rules : Rules, top : Tops]
  /\ sessions = [s \in SessionIds |-> NoRow]
  /\ checks = [c \in CheckIds |-> NoRow]
  /\ incidents = [i \in IncidentIds |-> NoRow]
  /\ requests = [r \in Requests |-> Idle]
  /\ sweeps = [w \in Sweepers |-> Idle]
  /\ crashes = 0

PolicyStep == CreatePolicy \/ UpdatePolicy

BeginStep(r) ==
  \/ BeginDeletePolicy(r)
  \/ \E g \in Guards : BeginStart(r, g)
  \/ \E s \in SessionIds : BeginCheckIn(r, s) \/ BeginAlarm(r, s) \/ BeginEnd(r, s)
  \/ \E i \in IncidentIds :
       \/ BeginAcknowledge(r, i)
       \/ BeginEscalate(r, i)
       \/ \E res \in Resolutions : BeginResolve(r, i, res)

CommitStep(r) ==
  \/ CommitDeletePolicy(r) \/ CommitStart(r) \/ CommitCheckIn(r) \/ CommitAlarm(r)
  \/ CommitEnd(r) \/ CommitAcknowledge(r) \/ CommitEscalate(r) \/ CommitResolve(r)

SweepStep(w) ==
  \/ SweepBegin(w) \/ SweepMiss(w) \/ SweepLadder(w) \/ SweepEnd(w)
  \/ \E s \in SessionIds : SweepSkip(w, s) \/ SweepRemind(w, s) \/ SweepOverdue(w, s)
  \/ \E i \in IncidentIds : SweepStay(w, i) \/ SweepClimb(w, i)

Next ==
  \/ Tick
  \/ PolicyStep
  \/ \E r \in Requests : BeginStep(r) \/ CommitStep(r) \/ CrashRequest(r)
  \/ \E w \in Sweepers : SweepStep(w) \/ CrashSweep(w)

Spec == Init /\ [][Next]_vars

\* cron runs the sweep every minute and a crashed worker is restarted, so a sweep
\* that can go on does; the clock goes on until its bound.
Fairness == WF_vars(Tick) /\ \A w \in Sweepers : WF_vars(SweepStep(w))

FairSpec == Spec /\ Fairness

-----------------------------------------------------------------------------
\* Properties.

\* Every row and every in-flight handler has the shape the schema gives it.
TypeOK ==
  /\ now \in Nat
  /\ policy \in PolicyRow
  /\ sessions \in [SessionIds -> SessionRow \cup {NoRow}]
  /\ checks \in [CheckIds -> CheckRow \cup {NoRow}]
  /\ incidents \in [IncidentIds -> IncidentRow \cup {NoRow}]
  /\ requests \in [Requests -> Request]
  /\ sweeps \in [Sweepers -> Sweep]
  /\ crashes \in Nat

\* A check found missed is never silent: its session has an incident that was
\* escalated at least once, whatever ran between the sweep's reads and its commit.
MissedIsAlarmed ==
  \A c \in CheckIds : checks[c].st = "missed" =>
    \E i \in IncidentIds : /\ incidents[i].st # "none"
                           /\ incidents[i].sess = checks[c].sess
                           /\ incidents[i].level >= 1

\* No worker is declared missing before the grace period copied to the session at
\* its start is over, whatever happened to the policy since.
NeverMissedEarly ==
  [][\A c \in CheckIds : checks[c].st # "missed" /\ checks'[c].st = "missed" =>
       now >= checks[c].due + sessions[checks[c].sess].rules.grace]_vars

\* The minute sweep never climbs past the top of the ladder, nor before the interval
\* since the last escalation, by hand or not, is over.  Overlap breaks it: an escalation
\* by hand commits the level it read, the sweep climbs at once from what it had loaded.
LadderPaced ==
  [][\A i \in IncidentIds, w \in Sweepers :
       /\ sweeps[w].op = "ladder"
       /\ sweeps'[w] # sweeps[w]
       /\ incidents[i].st # "none"
       /\ incidents'[i].level > incidents[i].level
       => /\ incidents'[i].level <= LadderTop(incidents[i].sess)
          /\ now >= incidents[i].last + sessions[incidents[i].sess].rules.interval]_vars

\* start_session refuses a second session: a guard has one active session.
OneActivePerGuard ==
  \A s, t \in Active : sessions[s].guard = sessions[t].guard => s = t

\* An active session has at most one pending check.
OnePendingCheck == \A s \in Active : Cardinality(Pending(s)) <= 1

\* A session that ended leaves no pending check behind.
EndedHasNoPending ==
  \A s \in SessionIds : sessions[s].st = "completed" => Pending(s) = {}

\* A session never ends over an open incident.
NoWalkingAway ==
  [][\A s \in SessionIds : sessions[s].st = "active" /\ sessions'[s].st = "completed" =>
       OpenIncidents(s) = {}]_vars

\* What was recorded of a check stays: an answered, missed or cancelled check never
\* changes status.
RecordedIsFinal ==
  [][\A c \in CheckIds : checks[c].st \notin {"none", "pending"} =>
       checks'[c].st = checks[c].st]_vars

\* A resolved incident is closed for good: nothing reopens or escalates it.
ResolvedIsFinal ==
  [][\A i \in IncidentIds : incidents[i].st = "resolved" =>
       incidents'[i] = incidents[i]]_vars

\* Somebody watches an active session: a check is pending or an incident is open.
Watched(s) == Pending(s) # {} \/ OpenIncidents(s) # {}

\* Monitoring of an active session stops only when a responder closes an incident as
\* a real incident or emergency; closing it as safe resumes the check schedule.
MonitoringKept ==
  [][\A s \in Active : Watched(s) /\ s \in Active' /\ ~Watched(s)' =>
       \E i \in OpenIncidents(s) : incidents'[i].res = "unsafe"]_vars

\* Where monitoring has session s, seen from outside.
Phase(s) ==
  CASE sessions[s].st = "none" -> "none"
    [] sessions[s].st = "completed" -> "ended"
    [] s \in Active /\ OpenIncidents(s) # {} -> "helped"
    [] s \in Active /\ OpenIncidents(s) = {} /\ Pending(s) # {} -> "watched"
    [] OTHER -> "dismissed"

Watch == INSTANCE Monitoring
  WITH Sessions <- SessionIds, phase <- [s \in SessionIds |-> Phase(s)]

\* Handlers and sweeps, with all their reads and commits, implement the promise of
\* monitoring: started, a worker is watched or helped until the end; only a responder
\* dismisses the watch, and no session ends over an open incident.
ImplementsMonitoring == Watch!Spec

\* Acknowledgement stops the escalation ladder: once a responder took an incident, the
\* ladder loop of the sweep does not climb it, even when it loaded it before.
AcknowledgedStops ==
  [][\A i \in IncidentIds, w \in Sweepers :
       /\ incidents[i].st = "acknowledged"
       /\ sweeps[w].op = "ladder" /\ sweeps'[w] # sweeps[w]
       => incidents'[i] = incidents[i]]_vars

\* An overdue check of an active session is found, whatever crashes meanwhile: it is
\* missed, answered or cancelled, or the session ends.
OverdueIsFound ==
  \A c \in CheckIds, s \in SessionIds :
    (s \in Active /\ c \in Pending(s) /\ Overdue(s, c, now))
      ~> ~(s \in Active /\ c \in Pending(s))

\* An escalating incident whose interval is over climbs until it reaches the top or a
\* responder takes it.
LadderClimbs ==
  \A i \in IncidentIds, k \in 1..MaxLevel :
    (/\ incidents[i].st = "escalating"
     /\ incidents[i].level = k
     /\ k < LadderTop(incidents[i].sess)
     /\ now >= incidents[i].last + sessions[incidents[i].sess].rules.interval)
      ~> ~(incidents[i].st = "escalating" /\ incidents[i].level = k
           /\ k < LadderTop(incidents[i].sess))

=============================================================================
