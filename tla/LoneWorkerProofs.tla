-------------------------- MODULE LoneWorkerProofs --------------------------
(***************************************************************************)
(* Type correctness of LoneWorker and the safety property that survives    *)
(* every race in it: a missed check is never silent.                       *)
(***************************************************************************)
EXTENDS LoneWorker, FiniteSetTheorems, TLAPS

\* What a handler read, kept in q, still exists when it commits.
RequestRefs(q) ==
  /\ q.op = "check_in" =>
       /\ sessions[q.s].st # "none"
       /\ q.answer # "none" => q.c \in CheckIds /\ checks[q.c].st # "none"
  /\ q.op = "end" =>
       /\ sessions[q.s].st # "none"
       /\ \A c \in q.cs : checks[c].st # "none"
  /\ q.op = "acknowledge" => incidents[q.i].st # "none"
  /\ q.op = "escalate" => incidents[q.i].st # "none"
  /\ q.op = "resolve" =>
       /\ incidents[q.i].st # "none"
       /\ q.schedule => sessions[q.s].st # "none"

\* So does what a sweep read, and it belongs to the session it was read for.
SweepRefs(p) ==
  /\ p.op = "miss" =>
       /\ checks[p.c].st # "none"
       /\ checks[p.c].sess = p.s
       /\ p.i # 0 => incidents[p.i].st # "none" /\ incidents[p.i].sess = p.s
  /\ p.op = "ladder" => \A i \in p.todo : incidents[i].st # "none"

\* Every incident was escalated in the commit that opened it.
Escalated == \A i \in IncidentIds : incidents[i].st # "none" => incidents[i].level >= 1

IInv ==
  /\ TypeOK
  /\ \A r \in Requests : RequestRefs(requests[r])
  /\ \A w \in Sweepers : SweepRefs(sweeps[w])
  /\ Escalated
  /\ MissedIsAlarmed

\* The tables are well typed.
TablesTyped ==
  /\ sessions \in [SessionIds -> SessionRow \cup {NoRow}]
  /\ checks \in [CheckIds -> CheckRow \cup {NoRow}]
  /\ incidents \in [IncidentIds -> IncidentRow \cup {NoRow}]

\* Rows are never deleted and never change owner; a session keeps its timing rules and
\* a check its due time.
RowsStay ==
  /\ \A s \in SessionIds : sessions[s].st # "none" =>
       sessions'[s].st # "none" /\ sessions'[s].rules = sessions[s].rules
  /\ \A c \in CheckIds : checks[c].st # "none" =>
       checks'[c].st # "none" /\ checks'[c].sess = checks[c].sess
                             /\ checks'[c].due = checks[c].due
  /\ \A i \in IncidentIds : incidents[i].st # "none" =>
       incidents'[i].st # "none" /\ incidents'[i].sess = incidents[i].sess

\* A check the step declares missed has an incident after the step.
NewMissAlarmed ==
  \A c \in CheckIds : checks'[c].st = "missed" /\ checks[c].st # "missed" =>
    \E i \in IncidentIds : incidents'[i].st # "none" /\ incidents'[i].sess = checks'[c].sess

\* What a commit does to the tables.
GoodCommit == TablesTyped' /\ RowsStay /\ Escalated' /\ NewMissAlarmed

\* No check is declared missed.
NoneMissed == \A c \in CheckIds : checks'[c].st = "missed" => checks[c].st = "missed"

\* What every commit but the one of a missed check does.
QuietCommit == GoodCommit /\ NoneMissed

-----------------------------------------------------------------------------
\* Shapes of the records a handler keeps, by operation.

\* A request of a given operation has the fields of that operation.
LEMMA RequestShape ==
  ASSUME NEW q \in Request
  PROVE  /\ q.op = "start" => q \in [op : {"start"}, guard : Guards, rules : Rules, pol : BOOLEAN]
         /\ q.op = "check_in" => q \in [op : {"check_in"}, s : SessionIds, c : CheckIds \cup {0},
                                        answer : {"safe", "safe_late", "none"}, t : Nat]
         /\ q.op = "alarm" => q \in [op : {"alarm"}, s : SessionIds]
         /\ q.op = "end" => q \in [op : {"end"}, s : SessionIds, cs : SUBSET CheckIds]
         /\ q.op = "acknowledge" => q \in [op : {"acknowledge"}, i : IncidentIds]
         /\ q.op = "escalate" => q \in [op : {"escalate"}, i : IncidentIds,
                                   seen : {"escalating", "acknowledged"}, level : Nat]
         /\ q.op = "resolve" => q \in [op : {"resolve"}, i : IncidentIds, s : SessionIds,
                                  res : Resolutions, schedule : BOOLEAN, t : Nat]
BY SMTT(30) DEF Request, Idle, Resolutions

\* So does a run of the sweep in a given place.
LEMMA SweepShape ==
  ASSUME NEW p \in Sweep
  PROVE  /\ p.op = "scan" => p \in [op : {"scan"}, t : Nat, todo : SUBSET SessionIds]
         /\ p.op = "miss" => p \in [op : {"miss"}, t : Nat, todo : SUBSET SessionIds,
              s : SessionIds, c : CheckIds, i : IncidentIds \cup {0}, level : Nat]
         /\ p.op = "ladder" => p \in [op : {"ladder"}, t : Nat, todo : SUBSET IncidentIds,
              seen : [IncidentIds -> Seen], fresh : BOOLEAN]
BY SMTT(30) DEF Sweep, Idle, Seen

\* A primary key in use holds a full row.
LEMMA RowShape ==
  ASSUME TablesTyped
  PROVE  /\ \A s \in SessionIds : sessions[s].st # "none" => sessions[s] \in SessionRow
         /\ \A c \in CheckIds : checks[c].st # "none" => checks[c] \in CheckRow
         /\ \A i \in IncidentIds : incidents[i].st # "none" => incidents[i] \in IncidentRow
BY DEF TablesTyped, NoRow

\* A timing rule is a record of numbers.
LEMMA RuleShape ==
  ASSUME NEW rules \in Rules
  PROVE  rules \in [checkIn : Nat \ {0}, reminder : Nat, grace : Nat, interval : Nat \ {0}]
BY LoneWorkerAssumption

-----------------------------------------------------------------------------
\* The rows a commit writes.

\* _schedule_check makes a pending check of its session.
LEMMA ScheduledShape ==
  ASSUME NEW s \in SessionIds, NEW rules \in Rules, NEW t \in Nat
  PROVE  /\ ScheduledCheck(s, rules, t) \in CheckRow
         /\ ScheduledCheck(s, rules, t).st = "pending"
<1>1. t + rules.checkIn \in Nat
  BY RuleShape
<1>2. QED
  BY <1>1 DEF ScheduledCheck, CheckRow

\* A new incident is escalating, at level 1 of its session.
LEMMA NewIncidentShape ==
  ASSUME NEW s \in SessionIds, NEW kind \in {"alarm", "missed_check"}, now \in Nat
  PROVE  LET row == NewIncident(s, kind)
         IN  /\ row \in IncidentRow
             /\ row.st = "escalating" /\ row.sess = s /\ row.level = 1
BY DEF NewIncident, IncidentRow

\* escalate keeps an incident's row well formed and its level above 0.
LEMMA ClimbShape ==
  ASSUME NEW row \in IncidentRow, NEW level \in Nat, now \in Nat
  PROVE  /\ Climb(row, level) \in IncidentRow
         /\ Climb(row, level).st = row.st /\ Climb(row, level).sess = row.sess
         /\ Climb(row, level).level = level + 1
<1> DEFINE up == [row EXCEPT !.level = level + 1]
<1>1. up \in IncidentRow /\ up.level = level + 1 /\ up.st = row.st /\ up.sess = row.sess
  BY DEF IncidentRow
<1>2. Climb(row, level) = [up EXCEPT !.last = now]
  BY DEF Climb
<1> HIDE DEF up
<1>3. QED
  BY <1>1, <1>2 DEF IncidentRow

\* Closing or reopening an incident keeps the rest of its row.
LEMMA IncidentStatus ==
  ASSUME NEW row \in IncidentRow, NEW st \in {"escalating", "acknowledged", "resolved"}
  PROVE  LET new == [row EXCEPT !.st = st]
         IN  /\ new \in IncidentRow
             /\ new.st = st /\ new.sess = row.sess /\ new.level = row.level
BY DEF IncidentRow

\* Answering, missing or cancelling a check keeps the rest of its row.
LEMMA CheckStatus ==
  ASSUME NEW row \in CheckRow, NEW st \in {"pending", "safe", "safe_late", "missed", "cancelled"}
  PROVE  LET new == [row EXCEPT !.st = st]
         IN  /\ new \in CheckRow
             /\ new.st = st /\ new.sess = row.sess /\ new.due = row.due
BY DEF CheckRow

-----------------------------------------------------------------------------
\* Each table, whatever handler writes it.

\* A commit that writes one incident row.
LEMMA IncidentWrite ==
  ASSUME TablesTyped, Escalated,
         NEW i \in IncidentIds, NEW row \in IncidentRow, row.st # "none", row.level >= 1,
         incidents[i].st # "none" => row.sess = incidents[i].sess,
         incidents' = [incidents EXCEPT ![i] = row]
  PROVE  /\ incidents' \in [IncidentIds -> IncidentRow \cup {NoRow}]
         /\ incidents'[i] = row
         /\ \A j \in IncidentIds : incidents[j].st # "none" =>
              incidents'[j].st # "none" /\ incidents'[j].sess = incidents[j].sess
         /\ Escalated'
BY DEF TablesTyped, Escalated

-----------------------------------------------------------------------------
\* Each commit that writes a table.

\* What the inductive invariant says of the tables.
LEMMA Typed ==
  ASSUME IInv
  PROVE  TablesTyped /\ Escalated /\ now \in Nat
BY DEF IInv, TypeOK, TablesTyped

\* A commit that only writes one incident row.
LEMMA IncidentCommit ==
  ASSUME IInv, NEW i \in IncidentIds, NEW row \in IncidentRow, row.st # "none", row.level >= 1,
         incidents[i].st # "none" => row.sess = incidents[i].sess,
         incidents' = [incidents EXCEPT ![i] = row],
         UNCHANGED <<sessions, checks>>
  PROVE  QuietCommit
<1>1. TablesTyped /\ Escalated
  BY Typed
<1>2. /\ incidents' \in [IncidentIds -> IncidentRow \cup {NoRow}]
      /\ \A j \in IncidentIds : incidents[j].st # "none" =>
              incidents'[j].st # "none" /\ incidents'[j].sess = incidents[j].sess
      /\ Escalated'
  BY <1>1, IncidentWrite
<1>3. QED
  BY <1>1, <1>2 DEF QuietCommit, NoneMissed, GoodCommit, TablesTyped, RowsStay, NewMissAlarmed

\* acknowledge_incident commits well: rows stay and nothing is missed.
LEMMA AcknowledgeGood ==
  ASSUME IInv, NEW r \in Requests, CommitAcknowledge(r)
  PROVE  QuietCommit
<1> DEFINE i == requests[r].i
           row == [incidents[i] EXCEPT !.st = "acknowledged"]
<1>1. i \in IncidentIds /\ incidents[i].st # "none"
  BY RequestShape DEF IInv, TypeOK, RequestRefs, CommitAcknowledge
<1>2. incidents[i] \in IncidentRow
  BY <1>1, Typed, RowShape
<1>3. row \in IncidentRow /\ row.st # "none" /\ row.level >= 1 /\ row.sess = incidents[i].sess
  BY <1>1, <1>2, Typed, IncidentStatus DEF Escalated
<1>4. incidents' = [incidents EXCEPT ![i] = row] /\ UNCHANGED <<sessions, checks>>
  BY DEF CommitAcknowledge
<1> HIDE DEF row, i
<1>5. QED
  BY <1>1, <1>3, <1>4, IncidentCommit

\* So does escalate_incident, whatever level it read.
LEMMA EscalateGood ==
  ASSUME IInv, NEW r \in Requests, CommitEscalate(r)
  PROVE  QuietCommit
<1> DEFINE q == requests[r]
           i == q.i
           climbed == Climb(incidents[i], q.level)
           row == IF q.seen = "escalating" THEN climbed ELSE [climbed EXCEPT !.st = "escalating"]
<1>1. i \in IncidentIds /\ incidents[i].st # "none" /\ q.level \in Nat
  BY RequestShape DEF IInv, TypeOK, RequestRefs, CommitEscalate
<1>2. incidents[i] \in IncidentRow
  BY <1>1, Typed, RowShape
<1>3. /\ climbed \in IncidentRow /\ climbed.st # "none"
      /\ climbed.level >= 1 /\ climbed.sess = incidents[i].sess
  <2>1. climbed \in IncidentRow /\ climbed.st = incidents[i].st
        /\ climbed.sess = incidents[i].sess /\ climbed.level = q.level + 1
    BY <1>1, <1>2, Typed, ClimbShape
  <2>2. q.level + 1 >= 1
    BY <1>1
  <2>3. QED
    BY <1>1, <2>1, <2>2
<1>4. incidents' = [incidents EXCEPT ![i] = row] /\ UNCHANGED <<sessions, checks>>
  BY DEF CommitEscalate
<1> HIDE DEF climbed, i
<1>5. row \in IncidentRow /\ row.st # "none" /\ row.level >= 1 /\ row.sess = incidents[i].sess
  <2>1. CASE q.seen = "escalating"
    BY <1>3, <2>1
  <2>2. CASE q.seen # "escalating"
    BY <1>3, <2>2, IncidentStatus
  <2>3. QED
    BY <2>1, <2>2
<1> HIDE DEF row
<1>6. QED
  BY <1>1, <1>4, <1>5, IncidentCommit

\* So does raise_alarm.
LEMMA AlarmGood ==
  ASSUME IInv, NEW r \in Requests, CommitAlarm(r)
  PROVE  QuietCommit
<1> DEFINE row == NewIncident(requests[r].s, "alarm")
<1>1. requests[r].s \in SessionIds
  BY RequestShape DEF IInv, TypeOK, CommitAlarm
<1>2. PICK i \in IncidentIds : Fresh(incidents, i) /\ incidents' = [incidents EXCEPT ![i] = row]
  BY DEF CommitAlarm
<1>3. row \in IncidentRow /\ row.st # "none" /\ row.level >= 1
  BY <1>1, Typed, NewIncidentShape
<1>4. incidents[i].st = "none"
  BY <1>2 DEF Fresh
<1>5. UNCHANGED <<sessions, checks>>
  BY DEF CommitAlarm
<1> HIDE DEF row
<1>6. QED
  BY <1>2, <1>3, <1>4, <1>5, IncidentCommit

\* So does a step of the ladder loop.
LEMMA ClimbGood ==
  ASSUME IInv, NEW w \in Sweepers, NEW i \in IncidentIds, SweepClimb(w, i)
  PROVE  QuietCommit
<1> DEFINE level == Loaded(sweeps[w], i).level
           row == Climb(incidents[i], level)
<1>1. incidents[i].st # "none"
  BY DEF IInv, SweepRefs, SweepClimb
<1>2. incidents[i] \in IncidentRow
  BY <1>1, Typed, RowShape
<1>3. level \in Nat
  <2>1. sweeps[w].seen[i] \in Seen
    BY SweepShape DEF IInv, TypeOK, SweepClimb
  <2>2. sweeps[w].seen[i].level \in Nat /\ incidents[i].level \in Nat
    BY <1>2, <2>1 DEF Seen, IncidentRow
  <2>3. QED
    BY <2>2 DEF Loaded
<1>4. incidents' = [incidents EXCEPT ![i] = row] /\ UNCHANGED <<sessions, checks>>
  BY DEF SweepClimb, Goto
<1> HIDE DEF level
<1>5. row \in IncidentRow /\ row.st = incidents[i].st /\ row.sess = incidents[i].sess
      /\ row.level = level + 1
  BY <1>2, <1>3, Typed, ClimbShape
<1>6. row.st # "none" /\ row.level >= 1
  BY <1>1, <1>3, <1>5
<1> HIDE DEF row
<1>7. QED
  BY <1>1, <1>4, <1>5, <1>6, IncidentCommit

\* What a commit may do to the checks: they keep their owners and none becomes missed.
ChecksKept(new) ==
  /\ new \in [CheckIds -> CheckRow \cup {NoRow}]
  /\ \A c \in CheckIds : checks[c].st # "none" =>
       new[c].st # "none" /\ new[c].sess = checks[c].sess /\ new[c].due = checks[c].due
  /\ \A c \in CheckIds : new[c].st = "missed" => checks[c].st = "missed"

\* Writing one check row keeps the checks.
LEMMA CheckUpdate ==
  ASSUME TablesTyped, NEW c \in CheckIds, NEW row \in CheckRow, row.st # "none",
         row.st = "missed" => checks[c].st = "missed",
         checks[c].st # "none" => row.sess = checks[c].sess /\ row.due = checks[c].due
  PROVE  ChecksKept([checks EXCEPT ![c] = row])
BY DEF TablesTyped, ChecksKept

\* Scheduling a check after such a write keeps them too.
LEMMA ScheduleKeeps ==
  ASSUME NEW rows, ChecksKept(rows),
         NEW c \in CheckIds, NEW s \in SessionIds, NEW rules \in Rules, NEW t \in Nat,
         ScheduleCheck(c, s, rules, t, rows)
  PROVE  ChecksKept(checks')
<1> DEFINE row == ScheduledCheck(s, rules, t)
<1>1. checks[c].st = "none" /\ checks' = [rows EXCEPT ![c] = row]
  BY DEF ScheduleCheck, Fresh
<1>2. row \in CheckRow /\ row.st = "pending"
  BY ScheduledShape
<1> HIDE DEF row
<1>3. QED
  BY <1>1, <1>2 DEF ChecksKept

\* resolve_incident commits well.
LEMMA ResolveGood ==
  ASSUME IInv, NEW r \in Requests, CommitResolve(r)
  PROVE  QuietCommit
<1> DEFINE q == requests[r]
           i == q.i
           row == [incidents[i] EXCEPT !.st = "resolved", !.res = q.res]
<1>1. /\ i \in IncidentIds /\ incidents[i].st # "none"
      /\ q.res \in Resolutions /\ q.s \in SessionIds /\ q.t \in Nat
      /\ q.schedule => sessions[q.s].st # "none"
  BY RequestShape DEF IInv, TypeOK, RequestRefs, CommitResolve
<1>2. incidents[i] \in IncidentRow /\ incidents[i].level >= 1
  BY <1>1, Typed, RowShape DEF Escalated
<1>3. row \in IncidentRow /\ row.st # "none" /\ row.level >= 1 /\ row.sess = incidents[i].sess
  <2> DEFINE closed == [incidents[i] EXCEPT !.st = "resolved"]
  <2>1. closed \in IncidentRow /\ closed.st # "none" /\ closed.level >= 1
        /\ closed.sess = incidents[i].sess
    BY <1>2, IncidentStatus
  <2>2. row = [closed EXCEPT !.res = q.res]
    OBVIOUS
  <2> HIDE DEF closed, row
  <2>3. QED
    BY <1>1, <2>1, <2>2 DEF IncidentRow
<1>4. incidents' = [incidents EXCEPT ![i] = row] /\ UNCHANGED sessions
  BY DEF CommitResolve
<1>5. ChecksKept(checks')
  <2>1. CASE q.schedule
    <3>1. PICK c \in CheckIds : ScheduleCheck(c, q.s, sessions[q.s].rules, q.t, checks)
      BY <2>1 DEF CommitResolve
    <3>2. sessions[q.s].rules \in Rules
      BY <1>1, <2>1, Typed, RowShape DEF SessionRow
    <3>3. ChecksKept(checks)
      BY Typed DEF TablesTyped, ChecksKept
    <3>4. QED
      BY <1>1, <3>1, <3>2, <3>3, ScheduleKeeps
  <2>2. CASE ~q.schedule
    BY <2>2, Typed DEF CommitResolve, TablesTyped, ChecksKept
  <2>3. QED
    BY <2>1, <2>2
<1> HIDE DEF row, i
<1>6. /\ incidents' \in [IncidentIds -> IncidentRow \cup {NoRow}]
      /\ \A j \in IncidentIds : incidents[j].st # "none" =>
              incidents'[j].st # "none" /\ incidents'[j].sess = incidents[j].sess
      /\ Escalated'
  BY <1>1, <1>3, <1>4, Typed, IncidentWrite
<1>7. QED
  BY <1>4, <1>5, <1>6, Typed
     DEF QuietCommit, NoneMissed, GoodCommit, TablesTyped, RowsStay, NewMissAlarmed, ChecksKept

\* A commit that writes checks and perhaps sessions, but no incident.
LEMMA CheckCommit ==
  ASSUME IInv, ChecksKept(checks'), UNCHANGED incidents,
         sessions' \in [SessionIds -> SessionRow \cup {NoRow}],
         \A s \in SessionIds : sessions[s].st # "none" =>
           sessions'[s].st # "none" /\ sessions'[s].rules = sessions[s].rules
  PROVE  QuietCommit
<1>1. TablesTyped /\ Escalated
  BY Typed
<1>2. Escalated'
  BY <1>1 DEF Escalated
<1>3. QED
  BY <1>1, <1>2
     DEF QuietCommit, NoneMissed, GoodCommit, TablesTyped, RowsStay, NewMissAlarmed, ChecksKept

\* start_session commits well.
LEMMA StartGood ==
  ASSUME IInv, NEW r \in Requests, CommitStart(r)
  PROVE  QuietCommit
<1> DEFINE q == requests[r]
           row == [st |-> "active", guard |-> q.guard, rules |-> q.rules, pol |-> q.pol]
<1>1. q.guard \in Guards /\ q.rules \in Rules /\ q.pol \in BOOLEAN
  BY RequestShape DEF IInv, TypeOK, CommitStart
<1>2. row \in SessionRow /\ row.st # "none"
  BY <1>1 DEF SessionRow
<1>3. PICK s \in SessionIds, c \in CheckIds :
        /\ sessions[s].st = "none"
        /\ sessions' = [sessions EXCEPT ![s] = row]
        /\ ScheduleCheck(c, s, q.rules, now, checks)
  BY DEF CommitStart, Fresh
<1>4. ChecksKept(checks)
  BY Typed DEF TablesTyped, ChecksKept
<1>5. ChecksKept(checks')
  BY <1>1, <1>3, <1>4, Typed, ScheduleKeeps
<1>6. UNCHANGED incidents
  BY DEF CommitStart
<1> HIDE DEF row
<1>7. /\ sessions' \in [SessionIds -> SessionRow \cup {NoRow}]
      /\ \A t \in SessionIds : sessions[t].st # "none" =>
           sessions'[t].st # "none" /\ sessions'[t].rules = sessions[t].rules
  BY <1>2, <1>3, Typed DEF TablesTyped
<1>8. QED
  BY <1>5, <1>6, <1>7, CheckCommit

\* check_in commits well, even when the check was declared missed since it was read.
LEMMA CheckInGood ==
  ASSUME IInv, NEW r \in Requests, CommitCheckIn(r)
  PROVE  QuietCommit
<1> DEFINE q == requests[r]
           rows == IF q.answer = "none" THEN checks ELSE [checks EXCEPT ![q.c].st = q.answer]
<1>1. /\ q.s \in SessionIds /\ q.t \in Nat /\ sessions[q.s].st # "none"
      /\ q.answer \in {"safe", "safe_late", "none"}
      /\ q.answer # "none" => q.c \in CheckIds /\ checks[q.c].st # "none"
  BY RequestShape DEF IInv, TypeOK, RequestRefs, CommitCheckIn
<1>2. sessions[q.s].rules \in Rules
  BY <1>1, Typed, RowShape DEF SessionRow
<1>3. ChecksKept(rows)
  <2>1. CASE q.answer = "none"
    BY <2>1, Typed DEF TablesTyped, ChecksKept
  <2>2. CASE q.answer # "none"
    <3> DEFINE row == [checks[q.c] EXCEPT !.st = q.answer]
    <3>1. checks[q.c] \in CheckRow
      BY <1>1, <2>2, Typed, RowShape
    <3>2. row \in CheckRow /\ row.st \in {"safe", "safe_late"} /\ row.sess = checks[q.c].sess
          /\ row.due = checks[q.c].due
      <4>1. q.answer \in {"safe", "safe_late"}
        BY <1>1, <2>2
      <4>2. q.answer \in {"pending", "safe", "safe_late", "missed", "cancelled"}
        BY <4>1
      <4>3. row \in CheckRow /\ row.st = q.answer /\ row.sess = checks[q.c].sess
              /\ row.due = checks[q.c].due
        BY <3>1, <4>2, CheckStatus
      <4>4. QED
        BY <4>1, <4>3
    <3>3. rows = [checks EXCEPT ![q.c] = row]
      BY <2>2
    <3> HIDE DEF row, rows
    <3>4. QED
      BY <1>1, <2>2, <3>2, <3>3, Typed, CheckUpdate
  <2>3. QED
    BY <2>1, <2>2
<1>4. PICK c \in CheckIds : ScheduleCheck(c, q.s, sessions[q.s].rules, q.t, rows)
  BY DEF CommitCheckIn
<1> HIDE DEF rows
<1>5. ChecksKept(checks')
  BY <1>1, <1>2, <1>3, <1>4, ScheduleKeeps
<1>6. UNCHANGED <<sessions, incidents>>
  BY DEF CommitCheckIn
<1>7. QED
  BY <1>5, <1>6, Typed, CheckCommit DEF TablesTyped

\* end_session commits well.
LEMMA EndGood ==
  ASSUME IInv, NEW r \in Requests, CommitEnd(r)
  PROVE  QuietCommit
<1> DEFINE q == requests[r]
           row == [sessions[q.s] EXCEPT !.st = "completed"]
<1>1. /\ q.s \in SessionIds /\ sessions[q.s].st # "none"
      /\ q.cs \subseteq CheckIds /\ \A c \in q.cs : checks[c].st # "none"
  BY RequestShape DEF IInv, TypeOK, RequestRefs, CommitEnd
<1>2. row \in SessionRow /\ row.st # "none" /\ row.rules = sessions[q.s].rules
  <2>1. sessions[q.s] \in SessionRow
    BY <1>1, Typed, RowShape
  <2>2. QED
    BY <2>1 DEF SessionRow
<1>3. sessions' = [sessions EXCEPT ![q.s] = row] /\ UNCHANGED incidents
  BY DEF CommitEnd
<1> HIDE DEF row
<1>4. /\ sessions' \in [SessionIds -> SessionRow \cup {NoRow}]
      /\ \A t \in SessionIds : sessions[t].st # "none" =>
           sessions'[t].st # "none" /\ sessions'[t].rules = sessions[t].rules
  BY <1>1, <1>2, <1>3, Typed DEF TablesTyped
<1>5. ChecksKept(checks')
  <2> DEFINE cancelled(c) == [checks[c] EXCEPT !.st = "cancelled"]
  <2>1. checks' = [c \in CheckIds |-> IF c \in q.cs THEN cancelled(c) ELSE checks[c]]
    BY DEF CommitEnd
  <2>2. \A c \in q.cs : /\ cancelled(c) \in CheckRow
                        /\ cancelled(c).st = "cancelled" /\ cancelled(c).sess = checks[c].sess
                        /\ cancelled(c).due = checks[c].due
    <3>1. TAKE c \in q.cs
    <3>2. c \in CheckIds /\ checks[c].st # "none"
      BY <1>1
    <3>3. checks[c] \in CheckRow
      BY <3>2, Typed, RowShape
    <3>4. QED
      BY <3>3, CheckStatus
  <2> HIDE DEF cancelled
  <2>3. QED
    BY <1>1, <2>1, <2>2, Typed DEF TablesTyped, ChecksKept
<1>6. QED
  BY <1>3, <1>4, <1>5, CheckCommit

\* A reminder commits well.
LEMMA RemindGood ==
  ASSUME IInv, NEW w \in Sweepers, NEW s \in SessionIds, SweepRemind(w, s)
  PROVE  QuietCommit
<1> DEFINE row(c) == [checks[c] EXCEPT !.reminded = TRUE]
<1>1. PICK c \in OpenCheck(s) : checks' = [checks EXCEPT ![c] = row(c)]
  BY DEF SweepRemind
<1>2. c \in CheckIds /\ checks[c].st = "pending"
  BY DEF OpenCheck, Pending
<1>3. checks[c] \in CheckRow
  BY <1>2, Typed, RowShape
<1>4. row(c) \in CheckRow /\ row(c).st = "pending" /\ row(c).sess = checks[c].sess
      /\ row(c).due = checks[c].due
  BY <1>2, <1>3 DEF CheckRow
<1> HIDE DEF row
<1>5. ChecksKept(checks')
  BY <1>1, <1>2, <1>4, Typed, CheckUpdate
<1>6. UNCHANGED <<sessions, incidents>>
  BY DEF SweepRemind, Goto
<1>7. QED
  BY <1>5, <1>6, Typed, CheckCommit DEF TablesTyped

\* The commit that declares a check missed, the one place MissedIsAlarmed is at stake.
LEMMA MissGood ==
  ASSUME IInv, NEW w \in Sweepers, SweepMiss(w)
  PROVE  GoodCommit
<1> DEFINE p == sweeps[w]
           missed == [checks[p.c] EXCEPT !.st = "missed"]
<1>1. /\ p.s \in SessionIds /\ p.c \in CheckIds /\ p.i \in IncidentIds \cup {0}
      /\ p.level \in Nat
      /\ checks[p.c].st # "none" /\ checks[p.c].sess = p.s
      /\ p.i # 0 => incidents[p.i].st # "none" /\ incidents[p.i].sess = p.s
  BY SweepShape DEF IInv, TypeOK, SweepRefs, SweepMiss
<1>2. missed \in CheckRow /\ missed.st = "missed" /\ missed.sess = p.s
      /\ missed.due = checks[p.c].due
  <2>1. checks[p.c] \in CheckRow
    BY <1>1, Typed, RowShape
  <2>2. QED
    BY <1>1, <2>1, CheckStatus
<1>3. checks' = [checks EXCEPT ![p.c] = missed] /\ UNCHANGED sessions
  BY DEF SweepMiss, Goto
<1>4. PICK i \in IncidentIds, row \in IncidentRow :
        /\ incidents' = [incidents EXCEPT ![i] = row]
        /\ row.st # "none" /\ row.level >= 1 /\ row.sess = p.s
        /\ incidents[i].st # "none" => row.sess = incidents[i].sess
  <2>1. CASE p.i = 0
    <3>1. PICK i \in IncidentIds :
            /\ Fresh(incidents, i)
            /\ incidents' = [incidents EXCEPT ![i] = NewIncident(p.s, "missed_check")]
      BY <2>1 DEF SweepMiss
    <3>2. LET row == NewIncident(p.s, "missed_check")
          IN  row \in IncidentRow /\ row.st # "none" /\ row.sess = p.s /\ row.level >= 1
      BY <1>1, Typed, NewIncidentShape
    <3>3. incidents[i].st = "none"
      BY <3>1 DEF Fresh
    <3>4. QED
      BY <3>1, <3>2, <3>3
  <2>2. CASE p.i # 0
    <3> DEFINE row == Climb(incidents[p.i], p.level)
    <3>1. p.i \in IncidentIds /\ incidents[p.i] \in IncidentRow
      BY <1>1, <2>2, Typed, RowShape
    <3>2. row \in IncidentRow /\ row.st = incidents[p.i].st /\ row.sess = incidents[p.i].sess
          /\ row.level = p.level + 1
      BY <1>1, <3>1, Typed, ClimbShape
    <3>3. incidents' = [incidents EXCEPT ![p.i] = row]
      BY <2>2 DEF SweepMiss
    <3> HIDE DEF row
    <3>4. row.st # "none" /\ row.level >= 1 /\ row.sess = p.s
      BY <1>1, <2>2, <3>2
    <3>5. QED
      BY <1>1, <2>2, <3>1, <3>2, <3>3, <3>4
  <2>3. QED
    BY <2>1, <2>2
<1> HIDE DEF missed
<1>5. /\ incidents' \in [IncidentIds -> IncidentRow \cup {NoRow}]
      /\ incidents'[i] = row
      /\ \A j \in IncidentIds : incidents[j].st # "none" =>
              incidents'[j].st # "none" /\ incidents'[j].sess = incidents[j].sess
      /\ Escalated'
  BY <1>4, Typed, IncidentWrite
<1>6. /\ checks' \in [CheckIds -> CheckRow \cup {NoRow}]
      /\ \A c \in CheckIds : checks[c].st # "none" =>
           checks'[c].st # "none" /\ checks'[c].sess = checks[c].sess
                                 /\ checks'[c].due = checks[c].due
      /\ \A c \in CheckIds : checks'[c].st = "missed" => checks[c].st = "missed" \/ c = p.c
      /\ checks'[p.c].sess = p.s
  BY <1>1, <1>2, <1>3, Typed DEF TablesTyped
<1>7. NewMissAlarmed
  BY <1>4, <1>5, <1>6 DEF NewMissAlarmed
<1>8. QED
  BY <1>3, <1>5, <1>6, <1>7, Typed DEF GoodCommit, TablesTyped, RowsStay

-----------------------------------------------------------------------------
\* What handlers and sweeps keep between steps.

\* A step that leaves the rows alone keeps what every other handler read valid.
LEMMA RequestRefsStay ==
  ASSUME IInv, RowsStay, NEW r \in Requests, requests'[r] = requests[r]
  PROVE  RequestRefs(requests[r])'
<1>1. requests[r] \in Request /\ RequestRefs(requests[r])
  BY DEF IInv, TypeOK
<1>2. QED
  BY <1>1, RequestShape DEF RequestRefs, RowsStay

\* A commit that keeps rows keeps what every sweep in flight refers to.
LEMMA SweepRefsStay ==
  ASSUME IInv, RowsStay, NEW w \in Sweepers, sweeps'[w] = sweeps[w]
  PROVE  SweepRefs(sweeps[w])'
<1>1. sweeps[w] \in Sweep /\ SweepRefs(sweeps[w])
  BY DEF IInv, TypeOK
<1>2. QED
  BY <1>1, SweepShape DEF SweepRefs, RowsStay

\* What a step that is not a commit of a table leaves alone.
LEMMA TablesUnchanged ==
  ASSUME IInv, UNCHANGED tables
  PROVE  QuietCommit
BY Typed DEF tables, QuietCommit, NoneMissed, GoodCommit, TablesTyped, RowsStay, Escalated,
             NewMissAlarmed

\* The alarm of a missed check stays.
LEMMA MissedKept ==
  ASSUME IInv, GoodCommit
  PROVE  MissedIsAlarmed'
<1>1. SUFFICES ASSUME NEW c \in CheckIds, checks'[c].st = "missed"
               PROVE  \E i \in IncidentIds : /\ incidents'[i].st # "none"
                                             /\ incidents'[i].sess = checks'[c].sess
                                             /\ incidents'[i].level >= 1
  BY DEF MissedIsAlarmed
<1>2. PICK i \in IncidentIds : incidents'[i].st # "none" /\ incidents'[i].sess = checks'[c].sess
  <2>1. CASE checks[c].st = "missed"
    BY <2>1 DEF IInv, MissedIsAlarmed, GoodCommit, RowsStay
  <2>2. CASE checks[c].st # "missed"
    BY <1>1, <2>2 DEF GoodCommit, NewMissAlarmed
  <2>3. QED
    BY <2>1, <2>2
<1>3. QED
  BY <1>2 DEF GoodCommit, Escalated

-----------------------------------------------------------------------------
\* Steps that begin a handler.

\* A read step that records a request about rows that exist preserves the invariant.
LEMMA BeginGood ==
  ASSUME IInv, NEW r \in Requests, NEW req \in Request, RequestRefs(req), Begin(r, req)
  PROVE  IInv'
<1>1. requests' = [requests EXCEPT ![r] = req]
      /\ UNCHANGED <<now, policy, sessions, checks, incidents, sweeps, crashes>>
  BY DEF Begin, tables
<1>2. TypeOK'
  BY <1>1 DEF IInv, TypeOK
<1>3. \A u \in Requests : RequestRefs(requests[u])'
  <2>1. TAKE u \in Requests
  <2>2. RequestRefs(requests'[u])
    BY <1>1 DEF IInv, TypeOK
  <2>3. QED
    BY <1>1, <2>2 DEF RequestRefs
<1>4. \A w \in Sweepers : SweepRefs(sweeps[w])'
  BY <1>1 DEF IInv, SweepRefs
<1>5. Escalated' /\ MissedIsAlarmed'
  BY <1>1 DEF IInv, Escalated, MissedIsAlarmed
<1>6. QED
  BY <1>2, <1>3, <1>4, <1>5 DEF IInv

\* The check a check-in answers exists.
LEMMA AnsweredExists ==
  ASSUME IInv, NEW s \in SessionIds,
         NEW named \in {0} \cup {c \in CheckIds : NamedChecks /\ checks[c].st # "none"
                                                     /\ checks[c].sess = s},
         NEW c \in AnsweredCheck(s, named)
  PROVE  c \in CheckIds \cup {0}
<1> DEFINE missed == {d \in CheckIds : checks[d].st = "missed" /\ checks[d].sess = s}
<1>1. 0 \notin CheckIds /\ CheckIds \subseteq Nat
  BY LoneWorkerAssumption
<1>2. CASE named # 0
  BY <1>1, <1>2 DEF AnsweredCheck
<1>3. CASE named = 0 /\ OpenCheck(s) # {}
  BY <1>3 DEF AnsweredCheck, OpenCheck, Pending
<1>4. CASE named = 0 /\ OpenCheck(s) = {} /\ missed # {}
  BY <1>4 DEF AnsweredCheck
<1>5. CASE named = 0 /\ OpenCheck(s) = {} /\ missed = {}
  BY <1>5 DEF AnsweredCheck
<1>6. QED
  BY <1>2, <1>3, <1>4, <1>5

\* The read step of a handler preserves the invariant.
LEMMA BeginKeeps ==
  ASSUME IInv, NEW r \in Requests, BeginStep(r)
  PROVE  IInv'
<1>1. TablesTyped /\ now \in Nat /\ policy \in PolicyRow
  BY Typed DEF IInv, TypeOK
<1>2. CASE BeginDeletePolicy(r)
  <2> DEFINE req == [op |-> "delete_policy"]
  <2>1. req \in Request /\ RequestRefs(req)
    BY DEF Request, RequestRefs
  <2>2. Begin(r, req)
    BY <1>2 DEF BeginDeletePolicy
  <2> HIDE DEF req
  <2>3. QED
    BY <2>1, <2>2, BeginGood
<1>3. ASSUME NEW g \in Guards, BeginStart(r, g)
      PROVE  IInv'
  <2> DEFINE rules == IF policy.live THEN policy.rules ELSE DefaultRules
             req == [op |-> "start", guard |-> g, pol |-> policy.live, rules |-> rules]
  <2>1. rules \in Rules /\ policy.live \in BOOLEAN
    BY <1>1, LoneWorkerAssumption DEF PolicyRow
  <2>2. Begin(r, req)
    BY <1>3 DEF BeginStart
  <2> HIDE DEF rules
  <2>3. req \in Request /\ RequestRefs(req)
    BY <2>1 DEF Request, RequestRefs
  <2> HIDE DEF req
  <2>4. QED
    BY <2>2, <2>3, BeginGood
<1>4. ASSUME NEW s \in SessionIds, BeginCheckIn(r, s)
      PROVE  IInv'
  <2>1. sessions[s].st # "none"
    BY <1>4 DEF BeginCheckIn, Active
  <2> DEFINE Named == {0} \cup {c \in CheckIds : NamedChecks /\ checks[c].st # "none"
                                                        /\ checks[c].sess = s}
             answer(c) == IF c = 0 \/ checks[c].st # "pending" THEN "none"
                          ELSE IF Late(s, c, now) THEN "safe_late" ELSE "safe"
             req(c) == [op |-> "check_in", s |-> s, c |-> c, t |-> now, answer |-> answer(c)]
  <2>2. PICK named \in Named : \E c \in AnsweredCheck(s, named) : Begin(r, req(c))
    BY <1>4 DEF BeginCheckIn
  <2>3. PICK c \in AnsweredCheck(s, named) : Begin(r, req(c))
    BY <2>2
  <2>4. c \in CheckIds \cup {0}
    BY AnsweredExists
  <2>5. answer(c) \in {"safe", "safe_late", "none"}
        /\ (answer(c) # "none" => c # 0 /\ checks[c].st = "pending")
    OBVIOUS
  <2> HIDE DEF answer
  <2>6. req(c) \in Request /\ RequestRefs(req(c))
    BY <1>1, <2>1, <2>4, <2>5 DEF Request, RequestRefs
  <2> HIDE DEF req
  <2>7. QED
    BY <2>3, <2>6, BeginGood
<1>5. ASSUME NEW s \in SessionIds, BeginAlarm(r, s)
      PROVE  IInv'
  <2> DEFINE req == [op |-> "alarm", s |-> s]
  <2>1. req \in Request /\ RequestRefs(req)
    BY DEF Request, RequestRefs
  <2>2. Begin(r, req)
    BY <1>5 DEF BeginAlarm
  <2> HIDE DEF req
  <2>3. QED
    BY <2>1, <2>2, BeginGood
<1>6. ASSUME NEW s \in SessionIds, BeginEnd(r, s)
      PROVE  IInv'
  <2> DEFINE req == [op |-> "end", s |-> s, cs |-> Pending(s)]
  <2>1. sessions[s].st # "none"
    BY <1>6 DEF BeginEnd, Active
  <2>2. Pending(s) \subseteq CheckIds /\ \A c \in Pending(s) : checks[c].st # "none"
    BY DEF Pending
  <2>3. req \in Request /\ RequestRefs(req)
    BY <2>1, <2>2 DEF Request, RequestRefs
  <2>4. Begin(r, req)
    BY <1>6 DEF BeginEnd
  <2> HIDE DEF req
  <2>5. QED
    BY <2>3, <2>4, BeginGood
<1>7. ASSUME NEW i \in IncidentIds, BeginAcknowledge(r, i)
      PROVE  IInv'
  <2> DEFINE req == [op |-> "acknowledge", i |-> i]
  <2>1. req \in Request /\ RequestRefs(req)
    BY <1>7 DEF Request, RequestRefs, BeginAcknowledge
  <2>2. Begin(r, req)
    BY <1>7 DEF BeginAcknowledge
  <2> HIDE DEF req
  <2>3. QED
    BY <2>1, <2>2, BeginGood
<1>8. ASSUME NEW i \in IncidentIds, BeginEscalate(r, i)
      PROVE  IInv'
  <2> DEFINE req == [op |-> "escalate", i |-> i, seen |-> incidents[i].st,
                     level |-> incidents[i].level]
  <2>1. incidents[i].st \in {"escalating", "acknowledged"}
    BY <1>8 DEF BeginEscalate, OpenStatus
  <2>2. incidents[i].level \in Nat
    BY <1>1, <2>1, RowShape DEF IncidentRow
  <2>3. req \in Request /\ RequestRefs(req)
    BY <2>1, <2>2 DEF Request, RequestRefs
  <2>4. Begin(r, req)
    BY <1>8 DEF BeginEscalate
  <2> HIDE DEF req
  <2>5. QED
    BY <2>3, <2>4, BeginGood
<1>9. ASSUME NEW i \in IncidentIds, NEW res \in Resolutions, BeginResolve(r, i, res)
      PROVE  IInv'
  <2> DEFINE s == incidents[i].sess
             schedule == s \in Active /\ res = "safe" /\ Pending(s) = {}
             req == [op |-> "resolve", i |-> i, s |-> s, res |-> res, t |-> now,
                     schedule |-> schedule]
  <2>1. incidents[i].st # "none"
    BY <1>9 DEF BeginResolve, OpenStatus
  <2>2. s \in SessionIds
    BY <1>1, <2>1, RowShape DEF IncidentRow
  <2>3. schedule \in BOOLEAN /\ (schedule => sessions[s].st # "none")
    BY DEF Active
  <2>4. Begin(r, req)
    BY <1>9 DEF BeginResolve
  <2> HIDE DEF schedule, s
  <2>5. req \in Request /\ RequestRefs(req)
    BY <1>1, <2>1, <2>2, <2>3 DEF Request, RequestRefs
  <2> HIDE DEF req
  <2>6. QED
    BY <2>4, <2>5, BeginGood
<1>10. QED
  BY <1>2, <1>3, <1>4, <1>5, <1>6, <1>7, <1>8, <1>9 DEF BeginStep

-----------------------------------------------------------------------------
\* Steps that commit.

\* A handler that is through, whether it committed or was killed.
LEMMA FinishKeeps ==
  ASSUME IInv, QuietCommit, NEW r \in Requests, Finish(r),
         now' \in Nat, policy' \in PolicyRow, crashes' \in Nat, UNCHANGED sweeps
  PROVE  IInv'
<1>1. requests' = [requests EXCEPT ![r] = Idle]
  BY DEF Finish
<1>2. Idle \in Request
  BY DEF Request
<1>3. TypeOK'
  BY <1>1, <1>2 DEF IInv, TypeOK, QuietCommit, GoodCommit, TablesTyped
<1>4. \A u \in Requests : RequestRefs(requests[u])'
  <2>1. TAKE u \in Requests
  <2>2. CASE u = r
    BY <1>1, <2>2 DEF IInv, TypeOK, RequestRefs, Idle
  <2>3. CASE u # r
    <3>1. requests'[u] = requests[u]
      BY <1>1, <2>3 DEF IInv, TypeOK
    <3>2. QED
      BY <3>1, RequestRefsStay DEF QuietCommit, GoodCommit
  <2>4. QED
    BY <2>2, <2>3
<1>5. \A w \in Sweepers : SweepRefs(sweeps[w])'
  BY SweepRefsStay DEF QuietCommit, GoodCommit
<1>6. QED
  BY <1>3, <1>4, <1>5, MissedKept DEF IInv, QuietCommit, GoodCommit

\* The commit step of a handler preserves the invariant.
LEMMA CommitKeeps ==
  ASSUME IInv, NEW r \in Requests, CommitStep(r)
  PROVE  IInv'
<1>1. now \in Nat /\ policy \in PolicyRow /\ crashes \in Nat
  BY DEF IInv, TypeOK
<1>2. CASE CommitDeletePolicy(r)
  <2>1. policy' \in PolicyRow
    BY <1>1, <1>2 DEF CommitDeletePolicy, PolicyRow
  <2>2. Finish(r) /\ UNCHANGED tables /\ UNCHANGED <<now, sweeps, crashes>>
    BY <1>2 DEF CommitDeletePolicy
  <2>3. QED
    BY <1>1, <2>1, <2>2, TablesUnchanged, FinishKeeps
<1>3. CASE CommitStart(r)
  <2>1. Finish(r) /\ UNCHANGED <<now, policy, sweeps, crashes>>
    BY <1>3 DEF CommitStart
  <2>2. QED
    BY <1>1, <1>3, <2>1, StartGood, FinishKeeps
<1>4. CASE CommitCheckIn(r)
  <2>1. Finish(r) /\ UNCHANGED <<now, policy, sweeps, crashes>>
    BY <1>4 DEF CommitCheckIn
  <2>2. QED
    BY <1>1, <1>4, <2>1, CheckInGood, FinishKeeps
<1>5. CASE CommitAlarm(r)
  <2>1. Finish(r) /\ UNCHANGED <<now, policy, sweeps, crashes>>
    BY <1>5 DEF CommitAlarm
  <2>2. QED
    BY <1>1, <1>5, <2>1, AlarmGood, FinishKeeps
<1>6. CASE CommitEnd(r)
  <2>1. Finish(r) /\ UNCHANGED <<now, policy, sweeps, crashes>>
    BY <1>6 DEF CommitEnd
  <2>2. QED
    BY <1>1, <1>6, <2>1, EndGood, FinishKeeps
<1>7. CASE CommitAcknowledge(r)
  <2>1. Finish(r) /\ UNCHANGED <<now, policy, sweeps, crashes>>
    BY <1>7 DEF CommitAcknowledge
  <2>2. QED
    BY <1>1, <1>7, <2>1, AcknowledgeGood, FinishKeeps
<1>8. CASE CommitEscalate(r)
  <2>1. Finish(r) /\ UNCHANGED <<now, policy, sweeps, crashes>>
    BY <1>8 DEF CommitEscalate
  <2>2. QED
    BY <1>1, <1>8, <2>1, EscalateGood, FinishKeeps
<1>9. CASE CommitResolve(r)
  <2>1. Finish(r) /\ UNCHANGED <<now, policy, sweeps, crashes>>
    BY <1>9 DEF CommitResolve
  <2>2. QED
    BY <1>1, <1>9, <2>1, ResolveGood, FinishKeeps
<1>10. QED
  BY <1>2, <1>3, <1>4, <1>5, <1>6, <1>7, <1>8, <1>9 DEF CommitStep

-----------------------------------------------------------------------------
\* Steps of the sweep.

\* A step of the sweep preserves the invariant when it commits well and refers to rows that exist.
LEMMA GotoKeeps ==
  ASSUME IInv, GoodCommit, NEW w \in Sweepers, NEW p \in Sweep, SweepRefs(p), Goto(w, p)
  PROVE  IInv'
<1>1. sweeps' = [sweeps EXCEPT ![w] = p] /\ UNCHANGED <<now, policy, requests, crashes>>
  BY DEF Goto
<1>2. TypeOK'
  BY <1>1 DEF IInv, TypeOK, GoodCommit, TablesTyped
<1>3. \A r \in Requests : RequestRefs(requests[r])'
  BY <1>1, RequestRefsStay DEF GoodCommit
<1>4. \A v \in Sweepers : SweepRefs(sweeps[v])'
  <2>1. TAKE v \in Sweepers
  <2>2. CASE v = w
    <3>1. sweeps'[v] = p
      BY <1>1, <2>2 DEF IInv, TypeOK
    <3>2. QED
      BY <3>1, SweepShape DEF SweepRefs, GoodCommit, RowsStay
  <2>3. CASE v # w
    <3>1. sweeps'[v] = sweeps[v]
      BY <1>1, <2>3 DEF IInv, TypeOK
    <3>2. QED
      BY <3>1, SweepRefsStay DEF GoodCommit
  <2>4. QED
    BY <2>2, <2>3
<1>5. QED
  BY <1>2, <1>3, <1>4, MissedKept DEF IInv, GoodCommit

\* Between sessions and at the end the sweep keeps no row.
LEMMA ScanShape ==
  ASSUME NEW t \in Nat, NEW todo \in SUBSET SessionIds
  PROVE  Scan(t, todo) \in Sweep /\ SweepRefs(Scan(t, todo))
BY DEF Scan, Sweep, SweepRefs

\* Every step of the sweep preserves the invariant.
LEMMA SweepKeeps ==
  ASSUME IInv, NEW w \in Sweepers, SweepStep(w)
  PROVE  IInv'
<1> DEFINE p == sweeps[w]
<1>1. p \in Sweep /\ SweepRefs(p) /\ TablesTyped /\ now \in Nat
  BY Typed DEF IInv, TypeOK
<1>2. CASE SweepBegin(w)
  <2>1. Active \in SUBSET SessionIds
    BY DEF Active
  <2>2. Goto(w, Scan(now, Active)) /\ UNCHANGED tables
    BY <1>2 DEF SweepBegin, Goto, tables
  <2>3. QED
    BY <1>1, <2>1, <2>2, ScanShape, TablesUnchanged, GotoKeeps DEF QuietCommit
<1>3. CASE SweepMiss(w)
  <2>1. p.t \in Nat /\ p.todo \ {p.s} \in SUBSET SessionIds
    BY <1>1, <1>3, SweepShape DEF SweepMiss
  <2>2. Goto(w, Scan(p.t, p.todo \ {p.s}))
    BY <1>3 DEF SweepMiss
  <2>3. QED
    BY <1>3, <2>1, <2>2, MissGood, ScanShape, GotoKeeps
<1>4. CASE SweepLadder(w)
  <2> DEFINE todo == {i \in IncidentIds : incidents[i].st = "escalating"}
             seen == [i \in IncidentIds |->
                IF i \in todo THEN [level |-> incidents[i].level, last |-> incidents[i].last]
                              ELSE [level |-> 0, last |-> 0]]
             state == [op |-> "ladder", t |-> p.t, todo |-> todo, fresh |-> FALSE, seen |-> seen]
  <2>1. Goto(w, state) /\ UNCHANGED tables
    BY <1>4 DEF SweepLadder, Goto, tables
  <2>2. seen \in [IncidentIds -> Seen]
    <3>1. \A i \in todo : incidents[i].level \in Nat /\ incidents[i].last \in Nat
      BY <1>1, RowShape DEF IncidentRow
    <3>2. QED
      BY <3>1 DEF Seen
  <2>3. p.t \in Nat
    BY <1>1, <1>4, SweepShape DEF SweepLadder
  <2>4. todo \in SUBSET IncidentIds /\ \A i \in todo : incidents[i].st # "none"
    OBVIOUS
  <2> HIDE DEF todo, seen
  <2>5. state \in Sweep /\ SweepRefs(state)
    BY <2>2, <2>3, <2>4 DEF Sweep, SweepRefs
  <2> HIDE DEF state
  <2>6. QED
    BY <2>1, <2>5, TablesUnchanged, GotoKeeps DEF QuietCommit
<1>5. CASE SweepEnd(w)
  <2>1. Goto(w, Idle) /\ UNCHANGED tables
    BY <1>5 DEF SweepEnd, Goto, tables
  <2>2. Idle \in Sweep /\ SweepRefs(Idle)
    BY DEF Sweep, SweepRefs, Idle
  <2>3. QED
    BY <2>1, <2>2, TablesUnchanged, GotoKeeps DEF QuietCommit
<1>6. ASSUME NEW s \in SessionIds, SweepSkip(w, s)
      PROVE  IInv'
  <2>1. p.t \in Nat /\ p.todo \ {s} \in SUBSET SessionIds
    BY <1>1, <1>6, SweepShape DEF SweepSkip
  <2>2. Goto(w, Scan(p.t, p.todo \ {s})) /\ UNCHANGED tables
    BY <1>6 DEF SweepSkip, Goto, tables
  <2>3. QED
    BY <2>1, <2>2, ScanShape, TablesUnchanged, GotoKeeps DEF QuietCommit
<1>7. ASSUME NEW s \in SessionIds, SweepRemind(w, s)
      PROVE  IInv'
  <2>1. p.t \in Nat /\ p.todo \ {s} \in SUBSET SessionIds
    BY <1>1, <1>7, SweepShape DEF SweepRemind
  <2>2. Goto(w, Scan(p.t, p.todo \ {s}))
    BY <1>7 DEF SweepRemind
  <2>3. QED
    BY <1>7, <2>1, <2>2, RemindGood, ScanShape, GotoKeeps DEF QuietCommit
<1>8. ASSUME NEW s \in SessionIds, SweepOverdue(w, s)
      PROVE  IInv'
  <2> DEFINE state(c, i) == [op |-> "miss", t |-> p.t, todo |-> p.todo, s |-> s, c |-> c, i |-> i,
                             level |-> IF i = 0 THEN 0 ELSE incidents[i].level]
  <2>1. PICK c \in OpenCheck(s), i \in IncidentIds \cup {0} :
          /\ i \in IF OpenIncidents(s) = {} THEN {0} ELSE OpenIncident(s)
          /\ Goto(w, state(c, i))
    BY <1>8 DEF SweepOverdue
  <2>2. UNCHANGED tables
    BY <1>8, <2>1 DEF SweepOverdue, Goto, tables
  <2>3. p.t \in Nat /\ p.todo \in SUBSET SessionIds
    BY <1>1, <1>8, SweepShape DEF SweepOverdue
  <2>4. c \in CheckIds /\ checks[c].st # "none" /\ checks[c].sess = s
    BY DEF OpenCheck, Pending
  <2>5. i # 0 => incidents[i].st # "none" /\ incidents[i].sess = s /\ incidents[i].level \in Nat
    <3>1. SUFFICES ASSUME i # 0
                   PROVE  incidents[i].st # "none" /\ incidents[i].sess = s
                          /\ incidents[i].level \in Nat
      OBVIOUS
    <3>2. i \in IncidentIds /\ incidents[i].st # "none" /\ incidents[i].sess = s
      BY <2>1, <3>1 DEF OpenIncident, OpenIncidents, OpenStatus
    <3>3. QED
      BY <1>1, <3>2, RowShape DEF IncidentRow
  <2>6. state(c, i) \in Sweep
    BY <2>3, <2>4, <2>5 DEF Sweep
  <2>7. SweepRefs(state(c, i))
    BY <2>4, <2>5 DEF SweepRefs
  <2> HIDE DEF state
  <2>8. QED
    BY <2>1, <2>2, <2>6, <2>7, TablesUnchanged, GotoKeeps DEF QuietCommit
<1>9. ASSUME NEW i \in IncidentIds, SweepStay(w, i)
      PROVE  IInv'
  <2> DEFINE state == [p EXCEPT !.todo = @ \ {i}]
  <2>1. Goto(w, state) /\ UNCHANGED tables
    BY <1>9 DEF SweepStay, Goto, tables
  <2>2. state \in Sweep /\ state.op = "ladder" /\ state.todo = p.todo \ {i}
    BY <1>1, <1>9, SweepShape DEF SweepStay, Sweep
  <2>3. \A j \in p.todo : j \in IncidentIds /\ incidents[j].st # "none"
    BY <1>1, <1>9, SweepShape DEF SweepStay, SweepRefs
  <2> HIDE DEF state
  <2>4. SweepRefs(state)
    BY <2>2, <2>3 DEF SweepRefs
  <2>5. QED
    BY <2>1, <2>2, <2>4, TablesUnchanged, GotoKeeps DEF QuietCommit
<1>10. ASSUME NEW i \in IncidentIds, SweepClimb(w, i)
       PROVE  IInv'
  <2> DEFINE state == [p EXCEPT !.todo = @ \ {i}, !.fresh = TRUE]
  <2>1. Goto(w, state)
    BY <1>10 DEF SweepClimb
  <2>2. state \in Sweep /\ state.op = "ladder" /\ state.todo = p.todo \ {i}
    BY <1>1, <1>10, SweepShape DEF SweepClimb, Sweep
  <2>3. \A j \in p.todo : j \in IncidentIds /\ incidents[j].st # "none"
    BY <1>1, <1>10, SweepShape DEF SweepClimb, SweepRefs
  <2>4. GoodCommit
    BY <1>10, ClimbGood DEF QuietCommit
  <2> HIDE DEF state
  <2>5. SweepRefs(state)
    BY <2>2, <2>3 DEF SweepRefs
  <2>6. QED
    BY <2>1, <2>2, <2>4, <2>5, GotoKeeps
<1>11. QED
  BY <1>2, <1>3, <1>4, <1>5, <1>6, <1>7, <1>8, <1>9, <1>10 DEF SweepStep

-----------------------------------------------------------------------------
\* The specification.

\* The empty database satisfies the invariant.
LEMMA InitHolds == Init => IInv
<1>1. SUFFICES ASSUME Init PROVE IInv
  OBVIOUS
<1>2. /\ now = 0 /\ crashes = 0
      /\ policy \in [live : {TRUE}, rules : Rules, top : Tops]
      /\ sessions = [s \in SessionIds |-> NoRow]
      /\ checks = [c \in CheckIds |-> NoRow]
      /\ incidents = [i \in IncidentIds |-> NoRow]
      /\ requests = [r \in Requests |-> Idle]
      /\ sweeps = [w \in Sweepers |-> Idle]
  BY <1>1 DEF Init
<1>3. TypeOK
  <2>1. policy \in PolicyRow
    BY <1>2 DEF PolicyRow
  <2>2. Idle \in Request /\ Idle \in Sweep
    BY DEF Request, Sweep
  <2>3. QED
    BY <1>2, <2>1, <2>2 DEF TypeOK
<1>4. /\ \A r \in Requests : RequestRefs(requests[r])
      /\ \A w \in Sweepers : SweepRefs(sweeps[w])
  BY <1>2 DEF RequestRefs, SweepRefs, Idle
<1>5. Escalated /\ MissedIsAlarmed
  BY <1>2 DEF Escalated, MissedIsAlarmed, NoRow
<1>6. QED
  BY <1>3, <1>4, <1>5 DEF IInv

\* A step that touches neither the tables nor a handler.
LEMMA OtherKeeps ==
  ASSUME IInv, UNCHANGED <<sessions, checks, incidents, requests, sweeps>>,
         now' \in Nat, policy' \in PolicyRow, crashes' \in Nat
  PROVE  IInv'
<1>1. TypeOK'
  BY DEF IInv, TypeOK
<1>2. /\ \A r \in Requests : RequestRefs(requests[r])'
      /\ \A w \in Sweepers : SweepRefs(sweeps[w])'
  BY DEF IInv, RequestRefs, SweepRefs
<1>3. Escalated' /\ MissedIsAlarmed'
  BY DEF IInv, Escalated, MissedIsAlarmed
<1>4. QED
  BY <1>1, <1>2, <1>3 DEF IInv

\* Every step preserves the invariant.
LEMMA NextKeeps == IInv /\ [Next]_vars => IInv'
<1> SUFFICES ASSUME IInv, [Next]_vars PROVE IInv'
  OBVIOUS
<1>1. now \in Nat /\ policy \in PolicyRow /\ crashes \in Nat
  BY DEF IInv, TypeOK
<1>2. CASE Tick
  BY <1>1, <1>2, OtherKeeps DEF Tick, tables
<1>3. CASE PolicyStep
  <2>1. policy' \in PolicyRow
    BY <1>3 DEF PolicyStep, CreatePolicy, UpdatePolicy, PolicyRow
  <2>2. UNCHANGED <<now, sessions, checks, incidents, requests, sweeps, crashes>>
    BY <1>3 DEF PolicyStep, CreatePolicy, UpdatePolicy, tables
  <2>3. QED
    BY <1>1, <2>1, <2>2, OtherKeeps
<1>4. ASSUME NEW r \in Requests, CrashRequest(r)
      PROVE  IInv'
  <2>1. Finish(r) /\ UNCHANGED tables /\ UNCHANGED <<now, policy, sweeps>> /\ crashes' \in Nat
    BY <1>1, <1>4 DEF CrashRequest
  <2>2. QED
    BY <1>1, <2>1, TablesUnchanged, FinishKeeps
<1>5. ASSUME NEW w \in Sweepers, CrashSweep(w)
      PROVE  IInv'
  <2>1. /\ sweeps' = [sweeps EXCEPT ![w] = Idle] /\ crashes' \in Nat
        /\ UNCHANGED <<now, policy, sessions, checks, incidents, requests>>
    BY <1>1, <1>5 DEF CrashSweep, tables
  <2>2. Idle \in Sweep /\ SweepRefs(Idle)'
    BY DEF Sweep, SweepRefs, Idle
  <2>3. TypeOK'
    BY <2>1, <2>2 DEF IInv, TypeOK
  <2>4. \A v \in Sweepers : SweepRefs(sweeps[v])'
    BY <2>1, <2>2 DEF IInv, TypeOK, SweepRefs
  <2>5. QED
    BY <2>1, <2>3, <2>4 DEF IInv, RequestRefs, Escalated, MissedIsAlarmed
<1>6. CASE UNCHANGED vars
  BY <1>1, <1>6, OtherKeeps DEF vars
<1>7. QED
  BY <1>2, <1>3, <1>4, <1>5, <1>6, BeginKeeps, CommitKeeps, SweepKeeps DEF Next

\* What a handler or a sweep holds in flight stays consistent with the tables, under
\* every interleaving, crash and overlap of sweeps (IInv is the inductive invariant).
THEOREM Inductive == Spec => []IInv
<1>1. Init => IInv
  BY InitHolds
<1>2. IInv /\ [Next]_vars => IInv'
  BY NextKeeps
<1>3. QED
  BY <1>1, <1>2, PTL DEF Spec

\* The tables and the in-flight handlers always have the shape the schema gives them.
THEOREM TypeCorrect == Spec => []TypeOK
<1>1. IInv => TypeOK
  BY DEF IInv
<1>2. QED
  BY <1>1, Inductive, PTL

\* A check is never declared missed without an escalated incident for its session,
\* for any number of workers, handlers, overlapping sweeps and crashes.
THEOREM MissedNeverSilent == Spec => []MissedIsAlarmed
<1>1. IInv => MissedIsAlarmed
  BY DEF IInv
<1>2. QED
  BY <1>1, Inductive, PTL

-----------------------------------------------------------------------------
\* No check is missed early.

\* The sweep's time lies in the past, and the check it is about to declare missed was
\* overdue at that time by the grace of its session.
Timed(p) ==
  /\ p.op \in {"scan", "miss", "ladder"} => p.t <= now
  /\ p.op \in {"scan", "miss"} => \A s \in p.todo : sessions[s].st # "none"
  /\ p.op = "miss" => sessions[p.s].st # "none" /\ Overdue(p.s, p.c, p.t)

TimedInv == IInv /\ \A w \in Sweepers : Timed(sweeps[w])

\* The rows stay, time does not go back, and only the sweep declares a check missed.
LEMMA NextRows ==
  ASSUME IInv, [Next]_vars
  PROVE  /\ RowsStay
         /\ now' \in Nat /\ now <= now'
         /\ NoneMissed \/ \E w \in Sweepers : SweepMiss(w)
<1> DEFINE Goal == /\ RowsStay
                   /\ now' \in Nat /\ now <= now'
                   /\ NoneMissed \/ \E w \in Sweepers : SweepMiss(w)
<1>1. now \in Nat
  BY Typed
<1>2. CASE UNCHANGED tables /\ now' \in {now, now + 1}
  BY <1>1, <1>2, TablesUnchanged DEF QuietCommit, GoodCommit
<1>3. CASE Tick \/ PolicyStep \/ UNCHANGED vars
  BY <1>2, <1>3 DEF Tick, PolicyStep, CreatePolicy, UpdatePolicy, vars, tables
<1>4. ASSUME NEW r \in Requests, BeginStep(r) \/ CrashRequest(r)
      PROVE  Goal
  <2>1. UNCHANGED <<tables, now>>
    BY <1>4 DEF BeginStep, CrashRequest, BeginDeletePolicy, BeginStart, BeginCheckIn, BeginAlarm,
                BeginEnd, BeginAcknowledge, BeginEscalate, BeginResolve, Begin
  <2>2. QED
    BY <1>2, <2>1
<1>5. ASSUME NEW r \in Requests, CommitStep(r)
      PROVE  Goal
  <2>1. UNCHANGED now
    BY <1>5 DEF CommitStep, CommitDeletePolicy, CommitStart, CommitCheckIn, CommitAlarm, CommitEnd,
                CommitAcknowledge, CommitEscalate, CommitResolve
  <2>2. CASE CommitDeletePolicy(r)
    BY <1>2, <2>1, <2>2 DEF CommitDeletePolicy
  <2>3. CASE ~CommitDeletePolicy(r)
    <3>1. QuietCommit
      BY <1>5, <2>3, StartGood, CheckInGood, AlarmGood, EndGood, AcknowledgeGood, EscalateGood,
         ResolveGood DEF CommitStep
    <3>2. QED
      BY <1>1, <2>1, <3>1 DEF QuietCommit, GoodCommit
  <2>4. QED
    BY <2>2, <2>3
<1>6. ASSUME NEW w \in Sweepers, SweepStep(w) \/ CrashSweep(w)
      PROVE  Goal
  <2>1. UNCHANGED now
    BY <1>6 DEF SweepStep, CrashSweep, SweepBegin, SweepMiss, SweepLadder, SweepEnd, SweepSkip,
                SweepRemind, SweepOverdue, SweepStay, SweepClimb, Goto
  <2>2. CASE SweepMiss(w)
    BY <1>1, <2>1, <2>2, MissGood DEF GoodCommit
  <2>3. CASE \/ \E s \in SessionIds : SweepRemind(w, s)
             \/ \E i \in IncidentIds : SweepClimb(w, i)
    BY <1>1, <2>1, <2>3, RemindGood, ClimbGood DEF QuietCommit, GoodCommit
  <2>4. CASE \/ SweepBegin(w) \/ SweepLadder(w) \/ SweepEnd(w) \/ CrashSweep(w)
             \/ \E s \in SessionIds : SweepSkip(w, s) \/ SweepOverdue(w, s)
             \/ \E i \in IncidentIds : SweepStay(w, i)
    <3>1. UNCHANGED tables
      BY <2>4 DEF SweepBegin, SweepLadder, SweepEnd, CrashSweep, SweepSkip, SweepOverdue, SweepStay,
                  Goto, tables
    <3>2. QED
      BY <1>2, <2>1, <3>1
  <2>5. QED
    BY <1>6, <2>2, <2>3, <2>4 DEF SweepStep
<1>7. QED
  BY <1>3, <1>4, <1>5, <1>6 DEF Next

\* What was timely stays so.
LEMMA TimedStays ==
  ASSUME IInv, RowsStay, now' \in Nat, now <= now',
         NEW p \in Sweep, Timed(p), SweepRefs(p)
  PROVE  /\ p.op \in {"scan", "miss", "ladder"} => p.t <= now'
         /\ p.op \in {"scan", "miss"} => \A s \in p.todo : sessions'[s].st # "none"
         /\ p.op = "miss" => /\ sessions'[p.s].st # "none"
                             /\ p.t >= checks'[p.c].due + sessions'[p.s].rules.grace
<1>1. p.op \in {"scan", "miss", "ladder"} => p.t \in Nat
  BY SweepShape
<1>2. now \in Nat
  BY Typed
<1>3. ASSUME p.op = "miss"
      PROVE  /\ sessions'[p.s].st # "none" /\ sessions'[p.s].rules = sessions[p.s].rules
             /\ checks'[p.c].due = checks[p.c].due
             /\ p.t >= checks[p.c].due + sessions[p.s].rules.grace
  BY <1>3, SweepShape DEF Timed, SweepRefs, RowsStay, Overdue
<1>4. p.op \in {"scan", "miss"} => \A s \in p.todo : sessions'[s].st # "none"
  BY SweepShape DEF Timed, RowsStay
<1>5. QED
  BY <1>1, <1>2, <1>3, <1>4 DEF Timed

\* Only a sweep's own steps move it.
LEMMA SweepsElsewhere ==
  ASSUME sweeps \in [Sweepers -> Sweep], [Next]_vars, NEW w \in Sweepers
  PROVE  sweeps'[w] = sweeps[w] \/ SweepStep(w) \/ CrashSweep(w)
<1>1. CASE Tick \/ PolicyStep \/ UNCHANGED vars
  BY <1>1 DEF Tick, PolicyStep, CreatePolicy, UpdatePolicy, vars
<1>2. CASE \E r \in Requests : BeginStep(r)
  BY <1>2 DEF BeginStep, BeginDeletePolicy, BeginStart, BeginCheckIn, BeginAlarm, BeginEnd,
              BeginAcknowledge, BeginEscalate, BeginResolve, Begin
<1>3. CASE \E r \in Requests : CommitStep(r) \/ CrashRequest(r)
  BY <1>3 DEF CommitStep, CommitDeletePolicy, CommitStart, CommitCheckIn, CommitAlarm, CommitEnd,
              CommitAcknowledge, CommitEscalate, CommitResolve, CrashRequest
<1>4. ASSUME NEW v \in Sweepers, SweepStep(v) \/ CrashSweep(v), v # w
      PROVE  sweeps'[w] = sweeps[w]
  <2>1. \E state : sweeps' = [sweeps EXCEPT ![v] = state]
    BY <1>4, Zenon DEF SweepStep, CrashSweep, SweepBegin, SweepMiss, SweepLadder, SweepEnd,
                SweepSkip, SweepRemind, SweepOverdue, SweepStay, SweepClimb, Goto
  <2>2. QED
    BY <1>4, <2>1
<1>5. QED
  BY <1>1, <1>2, <1>3, <1>4 DEF Next

\* The sessions the sweep has yet to scan exist.
ScansRows(p) == p.todo \subseteq {s \in SessionIds : sessions[s].st # "none"}

\* What the sweep found when it read session p.s and its overdue check p.c.
FoundOverdue(p) ==
  /\ p.t \in Nat /\ p.t <= now
  /\ p.s \in SessionIds /\ sessions[p.s].st # "none"
  /\ p.c \in CheckIds /\ checks[p.c].st # "none"
  /\ Overdue(p.s, p.c, p.t)
  /\ ScansRows(p)

\* Where a step of sweep w leads: it stays, it rests or goes on with the time it has,
\* or it has just read what Timed says.
LEMMA SweepMoves ==
  ASSUME TimedInv, [Next]_vars, NEW w \in Sweepers
  PROVE  \/ sweeps'[w] = sweeps[w]
         \/ sweeps'[w] = Idle
         \/ /\ sweeps'[w].op \in {"scan", "ladder"}
            /\ sweeps'[w].t <= now
            /\ sweeps'[w].op = "scan" => ScansRows(sweeps'[w])
         \/ sweeps'[w].op = "miss" /\ FoundOverdue(sweeps'[w])
<1> DEFINE p == sweeps[w]
           Goal == \/ sweeps'[w] = sweeps[w]
                   \/ sweeps'[w] = Idle
                   \/ /\ sweeps'[w].op \in {"scan", "ladder"} /\ sweeps'[w].t <= now
                      /\ sweeps'[w].op = "scan" => ScansRows(sweeps'[w])
                   \/ sweeps'[w].op = "miss" /\ FoundOverdue(sweeps'[w])
<1>1. /\ sweeps \in [Sweepers -> Sweep] /\ p \in Sweep /\ SweepRefs(p) /\ Timed(p)
      /\ now \in Nat /\ TablesTyped
  BY Typed DEF TimedInv, IInv, TypeOK
<1>2. /\ p.op \in {"scan", "miss", "ladder"} => p.t \in Nat /\ p.t <= now
      /\ p.op \in {"scan", "miss"} => ScansRows(p)
  BY <1>1, SweepShape DEF Timed, ScansRows
<1>3. ASSUME NEW state, Goto(w, state)
      PROVE  sweeps'[w] = state
  BY <1>1, <1>3 DEF Goto
<1>4. ASSUME NEW t, NEW todo, t <= now, ScansRows([todo |-> todo]), Goto(w, Scan(t, todo))
      PROVE  Goal
  BY <1>3, <1>4 DEF Scan, ScansRows
<1>5. CASE SweepBegin(w)
  <2>1. ScansRows([todo |-> Active]) /\ now <= now
    BY <1>1 DEF ScansRows, Active
  <2>2. QED
    BY <1>4, <1>5, <2>1 DEF SweepBegin
<1>6. CASE SweepMiss(w) \/ \E s \in SessionIds : SweepSkip(w, s) \/ SweepRemind(w, s)
  <2>1. PICK s : Goto(w, Scan(p.t, p.todo \ {s})) /\ p.op \in {"scan", "miss"}
    BY <1>6 DEF SweepMiss, SweepSkip, SweepRemind
  <2>2. ScansRows([todo |-> p.todo \ {s}])
    BY <1>2, <2>1 DEF ScansRows
  <2>3. QED
    BY <1>2, <1>4, <2>1, <2>2
<1>7. CASE SweepLadder(w)
  BY <1>2, <1>3, <1>7 DEF SweepLadder
<1>8. CASE SweepEnd(w) \/ CrashSweep(w)
  BY <1>1, <1>3, <1>8 DEF SweepEnd, CrashSweep
<1>9. ASSUME NEW s \in SessionIds, SweepOverdue(w, s)
      PROVE  Goal
  <2>1. p.op = "scan" /\ s \in p.todo /\ p.todo \in SUBSET SessionIds
    BY <1>1, <1>9, SweepShape DEF SweepOverdue
  <2> DEFINE state(c, i) == [op |-> "miss", t |-> p.t, todo |-> p.todo, s |-> s, c |-> c, i |-> i,
                             level |-> IF i = 0 THEN 0 ELSE incidents[i].level]
  <2>2. PICK c \in OpenCheck(s), i \in IncidentIds \cup {0} :
          Overdue(s, c, p.t) /\ Goto(w, state(c, i))
    BY <1>9 DEF SweepOverdue
  <2>3. sweeps'[w] = state(c, i)
    BY <1>3, <2>2
  <2>4. c \in CheckIds /\ checks[c].st # "none" /\ sessions[s].st # "none"
    BY <1>2, <2>1 DEF OpenCheck, Pending, ScansRows
  <2>5. FoundOverdue(state(c, i)) /\ state(c, i).op = "miss"
    BY <1>2, <2>1, <2>2, <2>4 DEF FoundOverdue, ScansRows
  <2>6. QED
    BY <2>3, <2>5
<1>10. ASSUME NEW i \in IncidentIds, SweepStay(w, i) \/ SweepClimb(w, i)
       PROVE  Goal
  BY <1>1, <1>2, <1>3, <1>10, SweepShape DEF SweepStay, SweepClimb
<1>11. CASE sweeps'[w] = sweeps[w]
  BY <1>11
<1>12. QED
  <2>1. sweeps'[w] = sweeps[w] \/ SweepStep(w) \/ CrashSweep(w)
    BY <1>1, SweepsElsewhere
  <2>2. QED
    BY <1>5, <1>6, <1>7, <1>8, <1>9, <1>10, <1>11, <2>1 DEF SweepStep

\* Every step preserves TimedInv: a sweep holds only checks that were overdue when it
\* started, and its time is not ahead of the clock.
LEMMA TimedKeeps == TimedInv /\ [Next]_vars => TimedInv'
<1> SUFFICES ASSUME TimedInv, [Next]_vars
             PROVE  TimedInv'
  OBVIOUS
<1>1. IInv /\ IInv'
  BY NextKeeps DEF TimedInv
<1>2. RowsStay /\ now \in Nat /\ now' \in Nat /\ now <= now'
  BY <1>1, NextRows, Typed
<1>3. ASSUME NEW w \in Sweepers
      PROVE  Timed(sweeps[w])'
  <2> DEFINE n == sweeps'[w]
  <2>1. n \in Sweep /\ sweeps[w] \in Sweep /\ Timed(sweeps[w]) /\ SweepRefs(sweeps[w])
    BY <1>1 DEF IInv, TypeOK, TimedInv
  <2>2. CASE n = sweeps[w]
    <3>1. /\ n.op \in {"scan", "miss", "ladder"} => n.t <= now'
          /\ n.op \in {"scan", "miss"} => \A s \in n.todo : sessions'[s].st # "none"
          /\ n.op = "miss" => /\ sessions'[n.s].st # "none"
                              /\ n.t >= checks'[n.c].due + sessions'[n.s].rules.grace
      BY <1>1, <1>2, <2>1, <2>2, TimedStays
    <3>2. QED
      BY <3>1 DEF Timed, Overdue
  <2>3. CASE n = Idle
    BY <2>3 DEF Timed, Idle
  <2>4. CASE /\ n.op \in {"scan", "ladder"} /\ n.t <= now
             /\ n.op = "scan" => ScansRows(n)
    <3>1. n.t <= now'
      BY <1>2, <2>1, <2>4, SweepShape
    <3>2. n.op = "scan" => \A s \in n.todo : sessions'[s].st # "none"
      BY <1>2, <2>4 DEF ScansRows, RowsStay
    <3>3. QED
      BY <2>4, <3>1, <3>2 DEF Timed
  <2>5. CASE n.op = "miss" /\ FoundOverdue(n)
    <3>1. n.t <= now'
      BY <1>2, <2>5 DEF FoundOverdue
    <3>2. \A s \in n.todo : sessions'[s].st # "none"
      BY <1>2, <2>5 DEF FoundOverdue, ScansRows, RowsStay
    <3>3. /\ sessions'[n.s].st # "none"
          /\ n.t >= checks'[n.c].due + sessions'[n.s].rules.grace
      BY <1>2, <2>5 DEF FoundOverdue, Overdue, RowsStay
    <3>4. QED
      BY <2>5, <3>1, <3>2, <3>3 DEF Timed, Overdue
  <2>6. QED
    BY <2>2, <2>3, <2>4, <2>5, SweepMoves
<1>4. QED
  BY <1>1, <1>3 DEF TimedInv

\* A step that declares a check missed does so after its due time and the grace that was
\* copied to its session.
LEMMA MissIsLate ==
  ASSUME TimedInv, [Next]_vars, NEW c \in CheckIds,
         checks[c].st # "missed", checks'[c].st = "missed"
  PROVE  now >= checks[c].due + sessions[checks[c].sess].rules.grace
<1>1. IInv
  BY DEF TimedInv
<1>2. PICK w \in Sweepers : SweepMiss(w)
  BY <1>1, NextRows DEF NoneMissed
<1> DEFINE p == sweeps[w]
<1>3. p \in Sweep /\ Timed(p) /\ SweepRefs(p) /\ p.op = "miss" /\ now \in Nat
  BY <1>1, <1>2, Typed DEF IInv, TypeOK, TimedInv, SweepMiss
<1>4. c = p.c
  BY <1>1, <1>2, Typed DEF SweepMiss, TablesTyped
<1>5. checks[c].sess = p.s /\ p.t <= now /\ p.t \in Nat
  BY <1>3, <1>4, SweepShape DEF SweepRefs, Timed
<1>6. p.t >= checks[c].due + sessions[p.s].rules.grace
  BY <1>3, <1>4 DEF Timed, Overdue
<1>7. checks[c].due \in Nat /\ sessions[p.s].rules.grace \in Nat
  <2>1. p.s \in SessionIds /\ p.c \in CheckIds
        /\ sessions[p.s].st # "none" /\ checks[p.c].st # "none"
    BY <1>3, SweepShape DEF Timed, SweepRefs
  <2>2. sessions[p.s] \in SessionRow /\ checks[c] \in CheckRow
    BY <1>1, <1>4, <2>1, Typed, RowShape
  <2>3. sessions[p.s].rules \in Rules /\ checks[c].due \in Nat
    BY <2>2 DEF SessionRow, CheckRow
  <2>4. QED
    BY <2>3, RuleShape
<1>8. QED
  BY <1>3, <1>5, <1>6, <1>7

\* A sweep holds only checks that were overdue when it started, however long before its
\* commit it read them, and its time is not ahead of the clock.
THEOREM TimedInductive == Spec => []TimedInv
<1>1. Init => TimedInv
  <2>1. Init => \A w \in Sweepers : Timed(sweeps[w])
    BY DEF Init, Timed, Idle
  <2>2. QED
    BY <2>1, InitHolds DEF TimedInv
<1>2. TimedInv /\ [Next]_vars => TimedInv'
  BY TimedKeeps
<1>3. QED
  BY <1>1, <1>2, PTL DEF Spec

\* No worker is declared missing before the grace copied to the session is over, whatever
\* happens to the policy, and however long before its commit the sweep read the check.
THEOREM NeverEarly == Spec => NeverMissedEarly
<1>1. TimedInv /\ [Next]_vars =>
        [\A c \in CheckIds : checks[c].st # "missed" /\ checks'[c].st = "missed" =>
           now >= checks[c].due + sessions[checks[c].sess].rules.grace]_vars
  BY MissIsLate
<1>2. QED
  BY <1>1, TimedInductive, PTL DEF Spec, NeverMissedEarly

-----------------------------------------------------------------------------
(***************************************************************************)
(* What LoneWorker promises when handlers and sweeps do not overlap and    *)
(* clients name no check: the books of a session stay tidy, what was       *)
(* recorded is final, and the whole implements Monitoring.                 *)
(***************************************************************************)

\* One handler or sweep at a time, and a check-in answers the open check.
OneAtATime == Serial /\ ~NamedChecks

\* At most one handler or sweep is between its reads and its commit.
Alone ==
  /\ \A q, r \in Requests : requests[q] # Idle /\ requests[r] # Idle => q = r
  /\ \A v, w \in Sweepers : sweeps[v] # Idle /\ sweeps[w] # Idle => v = w
  /\ \A r \in Requests, w \in Sweepers : requests[r] = Idle \/ sweeps[w] = Idle

\* What the handler in flight read is still so.
Current(q) ==
  /\ q.op = "start" => \A s \in Active : sessions[s].guard # q.guard
  /\ q.op = "check_in" =>
       q.s \in Active /\ Pending(q.s) = IF q.answer = "none" THEN {} ELSE {q.c}
  /\ q.op = "alarm" => sessions[q.s].st # "none"
  /\ q.op = "end" => q.s \in Active /\ OpenIncidents(q.s) = {} /\ q.cs = Pending(q.s)
  /\ q.op = "acknowledge" => incidents[q.i].st = "escalating"
  /\ q.op = "escalate" => incidents[q.i].st = q.seen
  /\ q.op = "resolve" =>
       /\ q.i \in OpenIncidents(q.s)
       /\ q.schedule = (q.s \in Active /\ q.res = "safe" /\ Pending(q.s) = {})

\* So is what the sweep in flight read.
SweepCurrent(p) ==
  /\ p.op = "scan" => p.todo \subseteq Active
  /\ p.op = "miss" =>
       /\ p.todo \subseteq Active
       /\ p.s \in Active /\ p.c \in Pending(p.s)
       /\ p.i # 0 => p.i \in OpenIncidents(p.s)
  /\ p.op = "ladder" => \A i \in p.todo :
       /\ incidents[i].st = "escalating"
       /\ Loaded(p, i) = [level |-> incidents[i].level, last |-> incidents[i].last]

\* A session has at most one pending check, and one that has not started has nothing.
SingleCheck == \A s \in SessionIds : \A c, d \in Pending(s) : c = d
NothingBefore ==
  \A s \in SessionIds : sessions[s].st = "none" => Pending(s) = {} /\ OpenIncidents(s) = {}

Tidy == OneActivePerGuard /\ SingleCheck /\ EndedHasNoPending /\ NothingBefore

SerialInv ==
  /\ IInv
  /\ Alone
  /\ \A r \in Requests : Current(requests[r])
  /\ \A w \in Sweepers : SweepCurrent(sweeps[w])
  /\ Tidy

-----------------------------------------------------------------------------
\* What a step does to the sessions.

\* A check that is no longer pending keeps its status, a resolved incident its row.
StatusKept ==
  \A c \in CheckIds : checks[c].st \notin {"none", "pending"} => checks'[c].st = checks[c].st
ClosedKept == \A i \in IncidentIds : incidents[i].st = "resolved" => incidents'[i] = incidents[i]

SameRow(s) == sessions'[s] = sessions[s]
SameChecks(s) == Pending(s)' = Pending(s)
SameIncidents(s) == OpenIncidents(s)' = OpenIncidents(s)
NewCheck(s) == \E c \in CheckIds : Pending(s)' = {c}

\* The session s a step is about starts,
Starts(s) ==
  /\ sessions[s].st = "none" /\ sessions'[s].st = "active"
  /\ \A t \in Active : sessions[t].guard # sessions'[s].guard
  /\ NewCheck(s) /\ SameIncidents(s)

\* or gets its next check,
Renews(s) == s \in Active /\ SameRow(s) /\ NewCheck(s) /\ SameIncidents(s)

\* or gets or keeps an open incident, perhaps for its missed check,
Raises(s) ==
  /\ sessions[s].st # "none" /\ SameRow(s)
  /\ SameChecks(s) \/ Pending(s)' = {}
  /\ OpenIncidents(s)' # {}

\* or one of its incidents is closed: as safe, with a check pending afterwards,
Closes(s) ==
  /\ SameRow(s)
  /\ \/ SameChecks(s)
     \/ s \in Active /\ NewCheck(s)
  /\ \E i \in OpenIncidents(s) :
       /\ OpenIncidents(s)' = OpenIncidents(s) \ {i}
       /\ incidents'[i].res = "unsafe" \/ (s \in Active => Pending(s)' # {})

\* or ends,
Ends(s) ==
  /\ s \in Active /\ sessions'[s].st = "completed"
  /\ OpenIncidents(s) = {} /\ SameIncidents(s)
  /\ Pending(s)' = {}

\* or stays what it is.
Stays(s) == SameRow(s) /\ SameChecks(s) /\ SameIncidents(s)

Elsewhere(s) == \A t \in SessionIds \ {s} : Stays(t)

Effect(s) ==
  /\ StatusKept /\ ClosedKept /\ Elsewhere(s)
  /\ Starts(s) \/ Renews(s) \/ Raises(s) \/ Closes(s) \/ Ends(s) \/ Stays(s)

-----------------------------------------------------------------------------
\* The rows a commit leaves, as its session sees them.

\* What the invariant says of the tables.
LEMMA SerialTables ==
  ASSUME SerialInv
  PROVE  /\ IInv /\ TablesTyped /\ Escalated /\ now \in Nat /\ Tidy
         /\ 0 \notin IncidentIds /\ CheckIds \subseteq Nat
BY Typed, LoneWorkerAssumption DEF SerialInv

\* _schedule_check gives its session, and no other, one pending check more.
LEMMA Scheduled ==
  ASSUME NEW rows \in [CheckIds -> CheckRow \cup {NoRow}],
         NEW d \in CheckIds, NEW s \in SessionIds, NEW rules, NEW t,
         ScheduleCheck(d, s, rules, t, rows),
         \A c \in CheckIds : checks[c].st = "none" <=> rows[c].st = "none"
  PROVE  /\ \A u \in SessionIds : Pending(u)' =
                {c \in CheckIds : rows[c].st = "pending" /\ rows[c].sess = u}
                  \cup IF u = s THEN {d} ELSE {}
         /\ \A c \in CheckIds : rows[c].st # "none" => checks'[c] = rows[c]
<1>1. rows[d].st = "none" /\ checks' = [rows EXCEPT ![d] = ScheduledCheck(s, rules, t)]
  BY DEF ScheduleCheck, Fresh
<1>2. ScheduledCheck(s, rules, t).st = "pending" /\ ScheduledCheck(s, rules, t).sess = s
  BY DEF ScheduledCheck
<1>3. QED
  BY <1>1, <1>2 DEF Pending

\* Writing one incident row that stays open, or opens, for session s.
LEMMA OpenWritten ==
  ASSUME TablesTyped, NEW i \in IncidentIds, NEW row \in IncidentRow, NEW s,
         incidents' = [incidents EXCEPT ![i] = row],
         row.st \in OpenStatus, row.sess = s,
         incidents[i].st = "none" \/ (incidents[i].st \in OpenStatus /\ incidents[i].sess = s)
  PROVE  /\ \A t \in SessionIds : OpenIncidents(t)' =
                OpenIncidents(t) \cup IF t = s THEN {i} ELSE {}
         /\ ClosedKept
BY DEF TablesTyped, OpenIncidents, OpenStatus, ClosedKept

\* A step that leaves the incidents alone.
LEMMA IncidentsAlone ==
  ASSUME UNCHANGED incidents
  PROVE  ClosedKept /\ \A t \in SessionIds : SameIncidents(t)
BY DEF ClosedKept, SameIncidents, OpenIncidents

\* A step that leaves the checks alone.
LEMMA ChecksAlone ==
  ASSUME UNCHANGED checks
  PROVE  StatusKept /\ \A t \in SessionIds : SameChecks(t)
BY DEF StatusKept, SameChecks, Pending

\* A step that leaves all tables alone.
LEMMA TablesAlone ==
  ASSUME UNCHANGED tables, NEW s \in SessionIds
  PROVE  Effect(s)
BY IncidentsAlone, ChecksAlone DEF tables, Effect, Elsewhere, Stays, SameRow

\* start_session starts a session of a guard without one.
LEMMA StartEffect ==
  ASSUME SerialInv, NEW r \in Requests, CommitStart(r)
  PROVE  \E s \in SessionIds : Effect(s)
<1> DEFINE q == requests[r]
           row == [st |-> "active", guard |-> q.guard, rules |-> q.rules, pol |-> q.pol]
<1>1. PICK s \in SessionIds, c \in CheckIds :
        /\ sessions[s].st = "none" /\ sessions' = [sessions EXCEPT ![s] = row]
        /\ ScheduleCheck(c, s, q.rules, now, checks)
  BY DEF CommitStart, Fresh
<1>2. checks \in [CheckIds -> CheckRow \cup {NoRow}] /\ sessions \in [SessionIds -> SessionRow \cup {NoRow}]
  BY SerialTables DEF TablesTyped
<1>3. /\ \A u \in SessionIds : Pending(u)' = Pending(u) \cup IF u = s THEN {c} ELSE {}
      /\ \A d \in CheckIds : checks[d].st # "none" => checks'[d] = checks[d]
  BY <1>1, <1>2, Scheduled DEF Pending
<1>4. ClosedKept /\ \A t \in SessionIds : SameIncidents(t)
  BY IncidentsAlone DEF CommitStart
<1>5. \A t \in Active : sessions[t].guard # q.guard
  BY DEF SerialInv, Current, CommitStart
<1>6. Pending(s) = {}
  BY <1>1, SerialTables DEF Tidy, NothingBefore
<1>7. sessions'[s] = row /\ \A t \in SessionIds \ {s} : SameRow(t)
  BY <1>1, <1>2 DEF SameRow
<1>8. Starts(s)
  BY <1>1, <1>3, <1>4, <1>5, <1>6, <1>7 DEF Starts, NewCheck
<1>9. StatusKept /\ \A t \in SessionIds \ {s} : SameChecks(t)
  BY <1>3 DEF StatusKept, SameChecks
<1>10. QED
  BY <1>4, <1>7, <1>8, <1>9 DEF Effect, Elsewhere, Stays

\* check_in answers the one pending check, if there is one, and schedules the next.
LEMMA CheckInEffect ==
  ASSUME SerialInv, NEW r \in Requests, CommitCheckIn(r)
  PROVE  \E s \in SessionIds : Effect(s)
<1> DEFINE q == requests[r]
           rows == IF q.answer = "none" THEN checks ELSE [checks EXCEPT ![q.c].st = q.answer]
<1>1. q \in [op : {"check_in"}, s : SessionIds, c : CheckIds \cup {0},
             answer : {"safe", "safe_late", "none"}, t : Nat]
  BY RequestShape DEF SerialInv, IInv, TypeOK, CommitCheckIn
<1>2. PICK s \in SessionIds : s = q.s
  BY <1>1
<1>3. s \in Active /\ Pending(s) = IF q.answer = "none" THEN {} ELSE {q.c}
  BY <1>2 DEF SerialInv, Current, CommitCheckIn
<1>4. PICK d \in CheckIds : ScheduleCheck(d, s, sessions[s].rules, q.t, rows)
  BY <1>2 DEF CommitCheckIn
<1>5. checks \in [CheckIds -> CheckRow \cup {NoRow}]
  BY SerialTables DEF TablesTyped
<1>6. /\ rows \in [CheckIds -> CheckRow \cup {NoRow}]
      /\ \A c \in CheckIds : checks[c].st = "none" <=> rows[c].st = "none"
      /\ \A c \in CheckIds : c \notin Pending(s) => rows[c] = checks[c]
      /\ \A c \in Pending(s) : /\ rows[c].st \in {"safe", "safe_late"}
                               /\ rows[c].sess = s /\ checks[c].st = "pending"
  <2>1. CASE q.answer = "none"
    BY <1>3, <1>5, <2>1 DEF Pending
  <2>2. CASE q.answer # "none"
    <3> DEFINE row == [checks[q.c] EXCEPT !.st = q.answer]
    <3>1. Pending(s) = {q.c} /\ q.answer \in {"safe", "safe_late"}
      BY <1>1, <1>3, <2>2
    <3>2. q.c \in CheckIds /\ checks[q.c].st = "pending" /\ checks[q.c].sess = s
      BY <3>1 DEF Pending
    <3>3. checks[q.c] \in CheckRow
      BY <3>2, SerialTables, RowShape
    <3>4. row \in CheckRow /\ row.st = q.answer /\ row.sess = s
      <4>1. q.answer \in {"pending", "safe", "safe_late", "missed", "cancelled"}
        BY <3>1
      <4>2. QED
        BY <3>2, <3>3, <4>1, CheckStatus
    <3>5. rows = [checks EXCEPT ![q.c] = row]
      BY <2>2
    <3> HIDE DEF row, rows
    <3>6. QED
      BY <1>5, <3>1, <3>2, <3>4, <3>5
  <2>3. QED
    BY <2>1, <2>2
<1> HIDE DEF rows
<1>7. /\ \A u \in SessionIds : Pending(u)' =
            {c \in CheckIds : rows[c].st = "pending" /\ rows[c].sess = u}
              \cup IF u = s THEN {d} ELSE {}
      /\ \A c \in CheckIds : rows[c].st # "none" => checks'[c] = rows[c]
  BY <1>4, <1>6, Scheduled
<1>8. NewCheck(s)
  <2>1. {c \in CheckIds : rows[c].st = "pending" /\ rows[c].sess = s} = {}
    BY <1>6 DEF Pending
  <2>2. QED
    BY <1>7, <2>1 DEF NewCheck
<1>9. \A t \in SessionIds \ {s} : SameChecks(t)
  <2>1. \A t \in SessionIds \ {s} :
          {c \in CheckIds : rows[c].st = "pending" /\ rows[c].sess = t} = Pending(t)
    BY <1>6 DEF Pending
  <2>2. QED
    BY <1>7, <2>1 DEF SameChecks
<1>10. StatusKept
  BY <1>6, <1>7 DEF StatusKept
<1>11. ClosedKept /\ \A t \in SessionIds : SameIncidents(t) /\ SameRow(t)
  BY IncidentsAlone DEF CommitCheckIn, SameRow
<1>12. QED
  BY <1>3, <1>8, <1>9, <1>10, <1>11 DEF Effect, Renews, Elsewhere, Stays

\* raise_alarm opens an incident of a session that started.
LEMMA AlarmEffect ==
  ASSUME SerialInv, NEW r \in Requests, CommitAlarm(r)
  PROVE  \E s \in SessionIds : Effect(s)
<1>1. PICK s \in SessionIds : s = requests[r].s
  BY RequestShape DEF SerialInv, IInv, TypeOK, CommitAlarm
<1> DEFINE row == NewIncident(s, "alarm")
<1>2. PICK i \in IncidentIds : incidents[i].st = "none" /\ incidents' = [incidents EXCEPT ![i] = row]
  BY <1>1 DEF CommitAlarm, Fresh
<1>3. row \in IncidentRow /\ row.st \in OpenStatus /\ row.sess = s
  BY SerialTables, NewIncidentShape DEF OpenStatus
<1> HIDE DEF row
<1>4. /\ \A t \in SessionIds : OpenIncidents(t)' =
            OpenIncidents(t) \cup IF t = s THEN {i} ELSE {}
      /\ ClosedKept
  BY <1>2, <1>3, SerialTables, OpenWritten
<1>5. StatusKept /\ \A t \in SessionIds : SameChecks(t) /\ SameRow(t)
  BY ChecksAlone DEF CommitAlarm, SameRow
<1>6. sessions[s].st # "none"
  BY <1>1 DEF SerialInv, Current, CommitAlarm
<1>7. QED
  BY <1>4, <1>5, <1>6 DEF Effect, Raises, Elsewhere, Stays, SameIncidents

\* end_session completes a session without open incidents and cancels its checks.
LEMMA EndEffect ==
  ASSUME SerialInv, NEW r \in Requests, CommitEnd(r)
  PROVE  \E s \in SessionIds : Effect(s)
<1>1. PICK s \in SessionIds : s = requests[r].s
  BY RequestShape DEF SerialInv, IInv, TypeOK, CommitEnd
<1>2. s \in Active /\ OpenIncidents(s) = {} /\ requests[r].cs = Pending(s)
  BY <1>1 DEF SerialInv, Current, CommitEnd
<1>3. checks' = [c \in CheckIds |->
                  IF c \in Pending(s) THEN [checks[c] EXCEPT !.st = "cancelled"] ELSE checks[c]]
  BY <1>2 DEF CommitEnd
<1>4. \A c \in CheckIds : /\ c \in Pending(s) => checks'[c].st = "cancelled"
                          /\ c \notin Pending(s) => checks'[c] = checks[c]
  <2>1. TAKE c \in CheckIds
  <2>2. c \in Pending(s) => checks[c] \in CheckRow
    BY SerialTables, RowShape DEF Pending
  <2>3. c \in Pending(s) => [checks[c] EXCEPT !.st = "cancelled"].st = "cancelled"
    BY <2>2, CheckStatus
  <2>4. QED
    BY <1>3, <2>3
<1>5. Pending(s)' = {} /\ \A t \in SessionIds \ {s} : SameChecks(t)
  BY <1>4 DEF Pending, SameChecks
<1>6. StatusKept
  BY <1>4 DEF StatusKept, Pending
<1>7. ClosedKept /\ \A t \in SessionIds : SameIncidents(t)
  BY IncidentsAlone DEF CommitEnd
<1>8. sessions'[s].st = "completed" /\ \A t \in SessionIds \ {s} : SameRow(t)
  <2>1. sessions \in [SessionIds -> SessionRow \cup {NoRow}] /\ sessions[s] \in SessionRow
    BY <1>2, SerialTables, RowShape DEF TablesTyped, Active
  <2>2. sessions' = [sessions EXCEPT ![s].st = "completed"]
    BY <1>1 DEF CommitEnd
  <2>3. QED
    BY <2>1, <2>2 DEF SameRow, SessionRow
<1>9. QED
  BY <1>2, <1>5, <1>6, <1>7, <1>8 DEF Effect, Ends, Elsewhere, Stays

\* A commit that rewrites the row of an open incident and leaves it open.
LEMMA StillOpenEffect ==
  ASSUME SerialInv, NEW i \in IncidentIds, NEW row \in IncidentRow,
         incidents[i].st \in OpenStatus, row.st \in OpenStatus, row.sess = incidents[i].sess,
         incidents' = [incidents EXCEPT ![i] = row], UNCHANGED <<sessions, checks>>
  PROVE  \E s \in SessionIds : Effect(s)
<1>1. PICK s \in SessionIds : s = incidents[i].sess
  BY SerialTables, RowShape DEF IncidentRow, OpenStatus
<1>2. /\ ClosedKept
      /\ \A t \in SessionIds : OpenIncidents(t)' =
            OpenIncidents(t) \cup IF t = s THEN {i} ELSE {}
  BY <1>1, SerialTables, OpenWritten
<1>3. i \in OpenIncidents(s)
  BY <1>1 DEF OpenIncidents
<1>4. \A t \in SessionIds : Stays(t)
  BY <1>2, <1>3, ChecksAlone DEF Stays, SameRow, SameIncidents
<1>5. QED
  BY <1>2, <1>4, ChecksAlone DEF Effect, Elsewhere

\* acknowledge_incident leaves an open incident open.
LEMMA AcknowledgeEffect ==
  ASSUME SerialInv, NEW r \in Requests, CommitAcknowledge(r)
  PROVE  \E s \in SessionIds : Effect(s)
<1>1. PICK i \in IncidentIds : i = requests[r].i
  BY RequestShape DEF SerialInv, IInv, TypeOK, CommitAcknowledge
<1>2. incidents[i].st = "escalating"
  BY <1>1 DEF SerialInv, Current, CommitAcknowledge
<1> DEFINE row == [incidents[i] EXCEPT !.st = "acknowledged"]
<1>3. row \in IncidentRow /\ row.st \in OpenStatus /\ row.sess = incidents[i].sess
  BY <1>2, SerialTables, RowShape, IncidentStatus DEF OpenStatus
<1>4. incidents' = [incidents EXCEPT ![i] = row] /\ UNCHANGED <<sessions, checks>>
  BY <1>1 DEF CommitAcknowledge
<1> HIDE DEF row
<1>5. QED
  BY <1>2, <1>3, <1>4, StillOpenEffect DEF OpenStatus

\* So does escalate_incident.
LEMMA EscalateEffect ==
  ASSUME SerialInv, NEW r \in Requests, CommitEscalate(r)
  PROVE  \E s \in SessionIds : Effect(s)
<1> DEFINE q == requests[r]
<1>1. /\ q.i \in IncidentIds /\ q.level \in Nat
      /\ q.seen \in OpenStatus /\ incidents[q.i].st = q.seen
  <2>1. q \in Request /\ Current(q) /\ q.op = "escalate"
    BY DEF SerialInv, IInv, TypeOK, CommitEscalate
  <2>2. QED
    BY <2>1, RequestShape DEF Current, OpenStatus
<1>2. PICK i \in IncidentIds : i = q.i
  BY <1>1
<1> DEFINE climbed == Climb(incidents[i], q.level)
           row == IF q.seen = "escalating" THEN climbed ELSE [climbed EXCEPT !.st = "escalating"]
<1>3. incidents[i] \in IncidentRow
  BY <1>1, <1>2, SerialTables, RowShape DEF OpenStatus
<1>4. climbed \in IncidentRow /\ climbed.st = q.seen /\ climbed.sess = incidents[i].sess
  BY <1>1, <1>2, <1>3, SerialTables, ClimbShape
<1>5. incidents' = [incidents EXCEPT ![i] = row] /\ UNCHANGED <<sessions, checks>>
  BY <1>2 DEF CommitEscalate
<1> HIDE DEF climbed
<1>6. row \in IncidentRow /\ row.st \in OpenStatus /\ row.sess = incidents[i].sess
  <2>1. CASE q.seen = "escalating"
    BY <1>4, <2>1 DEF OpenStatus
  <2>2. CASE q.seen # "escalating"
    BY <1>4, <2>2, IncidentStatus DEF OpenStatus
  <2>3. QED
    BY <2>1, <2>2
<1> HIDE DEF row
<1>7. QED
  BY <1>1, <1>2, <1>5, <1>6, StillOpenEffect

\* resolve_incident closes one incident; as safe it leaves a check pending.
LEMMA ResolveEffect ==
  ASSUME SerialInv, NEW r \in Requests, CommitResolve(r)
  PROVE  \E s \in SessionIds : Effect(s)
<1> DEFINE q == requests[r]
<1>1. /\ q.i \in IncidentIds /\ q.s \in SessionIds
      /\ q.res \in {"safe", "unsafe"} /\ q.i \in OpenIncidents(q.s)
      /\ q.schedule = (q.s \in Active /\ q.res = "safe" /\ Pending(q.s) = {})
  <2>1. q \in Request /\ Current(q) /\ q.op = "resolve"
    BY DEF SerialInv, IInv, TypeOK, CommitResolve
  <2>2. q \in [op : {"resolve"}, i : IncidentIds, s : SessionIds,
              res : {"safe", "unsafe"}, schedule : BOOLEAN, t : Nat]
    BY <2>1, RequestShape DEF Resolutions
  <2>3. QED
    BY <2>1, <2>2 DEF Current
<1>2. PICK i \in IncidentIds, s \in SessionIds : i = q.i /\ s = q.s
  BY <1>1
<1>3. incidents[i] \in IncidentRow /\ incidents[i].sess = s /\ incidents[i].st \in OpenStatus
  BY <1>1, <1>2, SerialTables, RowShape DEF OpenIncidents, OpenStatus
<1>4. /\ \A j \in IncidentIds \ {i} : incidents'[j] = incidents[j]
      /\ incidents'[i].st = "resolved" /\ incidents'[i].res = q.res
  <2>1. incidents' = [incidents EXCEPT ![i] = [@ EXCEPT !.st = "resolved", !.res = q.res]]
    BY <1>2 DEF CommitResolve
  <2>2. QED
    BY <1>3, <2>1, SerialTables DEF TablesTyped, IncidentRow
<1>5. /\ OpenIncidents(s)' = OpenIncidents(s) \ {i}
      /\ \A t \in SessionIds \ {s} : SameIncidents(t)
      /\ ClosedKept
  BY <1>3, <1>4 DEF OpenIncidents, OpenStatus, SameIncidents, ClosedKept
<1>6. \A t \in SessionIds : SameRow(t)
  BY DEF CommitResolve, SameRow
<1>7. /\ StatusKept /\ \A t \in SessionIds \ {s} : SameChecks(t)
      /\ \/ SameChecks(s) /\ ~q.schedule
         \/ s \in Active /\ NewCheck(s)
  <2>1. CASE q.schedule
    <3>1. PICK d \in CheckIds : ScheduleCheck(d, s, sessions[s].rules, q.t, checks)
      BY <1>2, <2>1 DEF CommitResolve
    <3>2. checks \in [CheckIds -> CheckRow \cup {NoRow}]
      BY SerialTables DEF TablesTyped
    <3>3. /\ \A u \in SessionIds : Pending(u)' = Pending(u) \cup IF u = s THEN {d} ELSE {}
          /\ \A c \in CheckIds : checks[c].st # "none" => checks'[c] = checks[c]
      BY <3>1, <3>2, Scheduled DEF Pending
    <3>4. s \in Active /\ Pending(s) = {}
      BY <1>1, <1>2, <2>1
    <3>5. NewCheck(s)
      BY <3>3, <3>4 DEF NewCheck
    <3>6. StatusKept /\ \A t \in SessionIds \ {s} : SameChecks(t)
      BY <3>3 DEF StatusKept, SameChecks
    <3>7. QED
      BY <3>4, <3>5, <3>6
  <2>2. CASE ~q.schedule
    <3>1. UNCHANGED checks
      BY <2>2 DEF CommitResolve
    <3>2. QED
      BY <2>2, <3>1, ChecksAlone
  <2>3. QED
    BY <2>1, <2>2
<1>8. incidents'[i].res = "unsafe" \/ (s \in Active => Pending(s)' # {})
  <2>1. CASE q.res = "unsafe"
    BY <1>4, <2>1
  <2>2. CASE q.schedule
    BY <1>7, <2>2 DEF NewCheck
  <2>3. CASE q.res = "safe" /\ ~q.schedule
    BY <1>1, <1>2, <1>7, <2>3 DEF SameChecks, NewCheck
  <2>4. QED
    BY <1>1, <2>1, <2>2, <2>3
<1>9. i \in OpenIncidents(s)
  BY <1>1, <1>2
<1>10. Closes(s)
  BY <1>5, <1>6, <1>7, <1>8, <1>9 DEF Closes
<1>11. QED
  BY <1>5, <1>6, <1>7, <1>10 DEF Effect, Elsewhere, Stays

\* A reminder changes no status.
LEMMA RemindEffect ==
  ASSUME SerialInv, NEW w \in Sweepers, NEW s \in SessionIds, SweepRemind(w, s)
  PROVE  Effect(s)
<1>1. PICK c \in OpenCheck(s) : checks' = [checks EXCEPT ![c].reminded = TRUE]
  BY DEF SweepRemind
<1>2. c \in CheckIds /\ checks[c].st = "pending"
  BY DEF OpenCheck, Pending
<1>3. checks[c] \in CheckRow
  BY <1>2, SerialTables, RowShape
<1>4. \A d \in CheckIds : checks'[d].st = checks[d].st /\ checks'[d].sess = checks[d].sess
  BY <1>1, <1>2, <1>3, SerialTables DEF TablesTyped, CheckRow
<1>5. StatusKept /\ \A t \in SessionIds : SameChecks(t)
  BY <1>4 DEF StatusKept, SameChecks, Pending
<1>6. ClosedKept /\ \A t \in SessionIds : SameIncidents(t) /\ SameRow(t)
  BY IncidentsAlone DEF SweepRemind, Goto, SameRow
<1>7. QED
  BY <1>5, <1>6 DEF Effect, Elsewhere, Stays

\* The ladder loop of the sweep leaves an open incident open.
LEMMA LadderEffect ==
  ASSUME SerialInv, NEW w \in Sweepers, NEW i \in IncidentIds, SweepClimb(w, i)
  PROVE  \E s \in SessionIds : Effect(s)
<1> DEFINE level == Loaded(sweeps[w], i).level
           row == Climb(incidents[i], level)
<1>1. incidents[i].st = "escalating"
  BY DEF SerialInv, SweepCurrent, SweepClimb
<1>2. incidents[i] \in IncidentRow
  BY <1>1, SerialTables, RowShape
<1>3. level \in Nat
  <2>1. sweeps[w].seen[i] \in Seen
    BY SweepShape DEF SerialInv, IInv, TypeOK, SweepClimb
  <2>2. sweeps[w].seen[i].level \in Nat /\ incidents[i].level \in Nat
    BY <1>2, <2>1 DEF Seen, IncidentRow
  <2>3. QED
    BY <2>2 DEF Loaded
<1>4. incidents' = [incidents EXCEPT ![i] = row] /\ UNCHANGED <<sessions, checks>>
  BY DEF SweepClimb, Goto
<1> HIDE DEF level
<1>5. row \in IncidentRow /\ row.st = "escalating" /\ row.sess = incidents[i].sess
  BY <1>1, <1>2, <1>3, SerialTables, ClimbShape
<1> HIDE DEF row
<1>6. QED
  BY <1>1, <1>4, <1>5, StillOpenEffect DEF OpenStatus

\* The sweep declares the pending check missed, and its session has an open incident then.
LEMMA MissEffect ==
  ASSUME SerialInv, NEW w \in Sweepers, SweepMiss(w)
  PROVE  \E s \in SessionIds : Effect(s)
<1> DEFINE p == sweeps[w]
<1>1. /\ p.s \in SessionIds /\ p.c \in CheckIds /\ p.i \in IncidentIds \cup {0} /\ p.level \in Nat
      /\ p.s \in Active /\ p.c \in Pending(p.s)
      /\ p.i # 0 => p.i \in OpenIncidents(p.s)
  <2>1. p \in Sweep /\ SweepCurrent(p) /\ p.op = "miss"
    BY DEF SerialInv, IInv, TypeOK, SweepMiss
  <2>2. QED
    BY <2>1, SweepShape DEF SweepCurrent
<1>2. PICK s \in SessionIds, c \in CheckIds : s = p.s /\ c = p.c
  BY <1>1
<1>3. s \in Active /\ checks[c].st = "pending" /\ checks[c].sess = s
  BY <1>1, <1>2 DEF Pending
<1>4. Pending(s)' = {} /\ StatusKept /\ \A t \in SessionIds \ {s} : SameChecks(t)
  <2>1. checks' = [checks EXCEPT ![c] = [checks[c] EXCEPT !.st = "missed"]]
    BY <1>2 DEF SweepMiss
  <2>2. checks[c] \in CheckRow
    BY <1>3, SerialTables, RowShape
  <2>3. [checks[c] EXCEPT !.st = "missed"].st = "missed"
    BY <2>2, CheckStatus
  <2>4. /\ checks'[c].st = "missed"
        /\ \A d \in CheckIds \ {c} : checks'[d] = checks[d]
    BY <2>1, <2>3, SerialTables DEF TablesTyped
  <2>5. \A d \in CheckIds : d # c => d \notin Pending(s)
    BY <1>3, SerialTables DEF Tidy, SingleCheck, Pending
  <2>6. Pending(s)' = {}
    BY <2>4, <2>5 DEF Pending
  <2>7. StatusKept /\ \A t \in SessionIds \ {s} : SameChecks(t)
    BY <1>3, <2>4 DEF StatusKept, SameChecks, Pending
  <2>8. QED
    BY <2>6, <2>7
<1>5. \A t \in SessionIds : SameRow(t)
  BY DEF SweepMiss, Goto, SameRow
<1>6. PICK i \in IncidentIds, row \in IncidentRow :
        /\ incidents' = [incidents EXCEPT ![i] = row]
        /\ row.st \in OpenStatus /\ row.sess = s
        /\ incidents[i].st = "none" \/ (incidents[i].st \in OpenStatus /\ incidents[i].sess = s)
  <2>1. CASE p.i = 0
    <3>1. PICK i \in IncidentIds :
            /\ incidents[i].st = "none"
            /\ incidents' = [incidents EXCEPT ![i] = NewIncident(s, "missed_check")]
      BY <1>2, <2>1 DEF SweepMiss, Fresh
    <3>2. LET row == NewIncident(s, "missed_check")
          IN  row \in IncidentRow /\ row.st \in OpenStatus /\ row.sess = s
      BY SerialTables, NewIncidentShape DEF OpenStatus
    <3>3. QED
      BY <3>1, <3>2
  <2>2. CASE p.i # 0
    <3>1. PICK i \in IncidentIds : i = p.i
      BY <1>1, <2>2
    <3>2. incidents[i].st \in OpenStatus /\ incidents[i].sess = s
      BY <1>1, <1>2, <2>2, <3>1 DEF OpenIncidents
    <3>3. incidents[i] \in IncidentRow
      BY <3>2, SerialTables, RowShape DEF OpenStatus
    <3> DEFINE row == Climb(incidents[i], p.level)
    <3>4. row \in IncidentRow /\ row.st = incidents[i].st /\ row.sess = s
      BY <1>1, <3>2, <3>3, SerialTables, ClimbShape
    <3>5. incidents' = [incidents EXCEPT ![i] = row]
      BY <2>2, <3>1 DEF SweepMiss
    <3> HIDE DEF row
    <3>6. QED
      BY <3>2, <3>4, <3>5
  <2>3. QED
    BY <2>1, <2>2
<1>7. /\ \A t \in SessionIds : OpenIncidents(t)' =
            OpenIncidents(t) \cup IF t = s THEN {i} ELSE {}
      /\ ClosedKept
  BY <1>6, SerialTables, OpenWritten
<1>8. Raises(s)
  BY <1>3, <1>4, <1>5, <1>7 DEF Raises, Active
<1>9. QED
  BY <1>4, <1>5, <1>7, <1>8 DEF Effect, Elsewhere, Stays, SameIncidents

\* Every step leaves the tables alone or has an effect on one session.
LEMMA NextEffect ==
  ASSUME SerialInv, [Next]_vars
  PROVE  UNCHANGED tables \/ \E s \in SessionIds : Effect(s)
<1>1. CASE Tick \/ PolicyStep \/ UNCHANGED vars
  BY <1>1 DEF Tick, PolicyStep, CreatePolicy, UpdatePolicy, vars, tables
<1>2. CASE \E r \in Requests : BeginStep(r) \/ CrashRequest(r)
  BY <1>2 DEF BeginStep, CrashRequest, BeginDeletePolicy, BeginStart, BeginCheckIn, BeginAlarm,
              BeginEnd, BeginAcknowledge, BeginEscalate, BeginResolve, Begin
<1>3. ASSUME NEW r \in Requests, CommitStep(r)
      PROVE  UNCHANGED tables \/ \E s \in SessionIds : Effect(s)
  <2>1. CASE CommitDeletePolicy(r)
    BY <2>1 DEF CommitDeletePolicy
  <2>2. QED
    BY <1>3, <2>1, StartEffect, CheckInEffect, AlarmEffect, EndEffect, AcknowledgeEffect,
       EscalateEffect, ResolveEffect DEF CommitStep
<1>4. ASSUME NEW w \in Sweepers, SweepStep(w) \/ CrashSweep(w)
      PROVE  UNCHANGED tables \/ \E s \in SessionIds : Effect(s)
  <2>1. CASE \/ SweepBegin(w) \/ SweepLadder(w) \/ SweepEnd(w) \/ CrashSweep(w)
             \/ \E s \in SessionIds : SweepSkip(w, s) \/ SweepOverdue(w, s)
             \/ \E i \in IncidentIds : SweepStay(w, i)
    BY <2>1 DEF SweepBegin, SweepLadder, SweepEnd, CrashSweep, SweepSkip, SweepOverdue,
                SweepStay, Goto, tables
  <2>2. QED
    BY <1>4, <2>1, MissEffect, RemindEffect, LadderEffect DEF SweepStep
<1>5. QED
  BY <1>1, <1>2, <1>3, <1>4 DEF Next

\* The effect of a step keeps the books tidy.
LEMMA EffectTidy ==
  ASSUME Tidy, NEW s \in SessionIds, Effect(s)
  PROVE  Tidy'
<1>1. \A t \in SessionIds \ {s} : /\ sessions'[t] = sessions[t]
                                /\ Pending(t)' = Pending(t)
                                /\ OpenIncidents(t)' = OpenIncidents(t)
  BY DEF Effect, Elsewhere, Stays, SameRow, SameChecks, SameIncidents
<1>2. OneActivePerGuard'
  <2>1. CASE Starts(s)
    BY <1>1, <2>1 DEF Tidy, OneActivePerGuard, Starts, Active
  <2>2. CASE sessions'[s].st # "active" \/ SameRow(s)
    BY <1>1, <2>2 DEF Tidy, OneActivePerGuard, SameRow, Active
  <2>3. QED
    BY <2>1, <2>2 DEF Effect, Renews, Raises, Closes, Ends, Stays
<1>3. \A c, d \in Pending(s)' : c = d
  BY DEF Tidy, SingleCheck, Effect, Starts, Renews, Raises, Closes, Ends, Stays, NewCheck,
         SameChecks
<1>4. sessions'[s].st = "completed" => Pending(s)' = {}
  BY DEF Tidy, EndedHasNoPending, Effect, Starts, Renews, Raises, Closes, Ends, Stays,
         SameRow, SameChecks, Active
<1>5. sessions'[s].st = "none" => Pending(s)' = {} /\ OpenIncidents(s)' = {}
  BY DEF Tidy, NothingBefore, Effect, Starts, Renews, Raises, Closes, Ends, Stays,
         SameRow, SameChecks, SameIncidents, Active
<1>6. SingleCheck'
  BY <1>1, <1>3 DEF Tidy, SingleCheck
<1>7. EndedHasNoPending'
  BY <1>1, <1>4 DEF Tidy, EndedHasNoPending
<1>8. NothingBefore'
  BY <1>1, <1>5 DEF Tidy, NothingBefore
<1>9. QED
  BY <1>2, <1>6, <1>7, <1>8 DEF Tidy

-----------------------------------------------------------------------------
\* What is in flight.

\* A handler's read step, when nothing else is in flight.
LEMMA BeginSerial ==
  ASSUME SerialInv, IInv', OneAtATime, NEW r \in Requests, NEW req, Current(req), Begin(r, req)
  PROVE  SerialInv'
<1>1. /\ \A u \in Requests : requests[u] = Idle
      /\ \A w \in Sweepers : sweeps[w] = Idle
  BY DEF Begin, MayBegin, OneAtATime, Quiet
<1>2. requests \in [Requests -> Request]
  BY DEF SerialInv, IInv, TypeOK
<1>3. /\ requests' = [requests EXCEPT ![r] = req]
      /\ UNCHANGED <<sessions, checks, incidents, sweeps>>
  BY DEF Begin, tables
<1>4. Alone'
  BY <1>1, <1>2, <1>3 DEF Alone
<1>5. \A u \in Requests : Current(requests[u])'
  <2>1. TAKE u \in Requests
  <2>2. Current(requests'[u])
    BY <1>2, <1>3 DEF SerialInv
  <2>3. QED
    BY <1>3, <2>2 DEF Current, Active, Pending, OpenIncidents
<1>6. \A w \in Sweepers : SweepCurrent(sweeps[w])'
  BY <1>1, <1>3 DEF SweepCurrent, Idle
<1>7. Tidy'
  BY <1>3 DEF SerialInv, Tidy, OneActivePerGuard, SingleCheck, EndedHasNoPending, NothingBefore,
              Active, Pending, OpenIncidents
<1>8. QED
  BY <1>4, <1>5, <1>6, <1>7 DEF SerialInv

\* The only handler in flight finishes.
LEMMA FinishSerial ==
  ASSUME SerialInv, IInv', Tidy', NEW r \in Requests, requests[r] # Idle, Finish(r),
         UNCHANGED sweeps
  PROVE  SerialInv'
<1>1. /\ \A u \in Requests \ {r} : requests[u] = Idle
      /\ \A w \in Sweepers : sweeps[w] = Idle
  BY DEF SerialInv, Alone
<1>2. \A u \in Requests : requests'[u] = Idle
  BY <1>1 DEF SerialInv, IInv, TypeOK, Finish
<1>3. Alone'
  BY <1>1, <1>2 DEF Alone
<1>4. \A u \in Requests : Current(requests[u])'
  BY <1>2 DEF Current, Idle
<1>5. \A w \in Sweepers : SweepCurrent(sweeps[w])'
  BY <1>1 DEF SweepCurrent, Idle
<1>6. QED
  BY <1>3, <1>4, <1>5 DEF SerialInv

\* The only sweep in flight moves, or a sweep starts while nothing is in flight.
LEMMA SweepSerial ==
  ASSUME SerialInv, IInv', Tidy', NEW w \in Sweepers, sweeps[w] # Idle \/ Quiet,
         NEW p, sweeps' = [sweeps EXCEPT ![w] = p], UNCHANGED requests,
         SweepCurrent(sweeps[w])'
  PROVE  SerialInv'
<1>1. /\ \A r \in Requests : requests[r] = Idle
      /\ \A v \in Sweepers \ {w} : sweeps[v] = Idle
  BY DEF SerialInv, Alone, Quiet
<1>2. \A v \in Sweepers \ {w} : sweeps'[v] = Idle
  BY <1>1 DEF SerialInv, IInv, TypeOK
<1>3. Alone'
  BY <1>1, <1>2 DEF Alone
<1>4. \A r \in Requests : Current(requests[r])'
  BY <1>1 DEF Current, Idle
<1>5. \A v \in Sweepers : SweepCurrent(sweeps[v])'
  BY <1>2 DEF SweepCurrent, Idle
<1>6. QED
  BY <1>3, <1>4, <1>5 DEF SerialInv

\* A check-in that names no check answers the pending check, if there is one.
LEMMA AnswersPending ==
  ASSUME SerialInv, NEW s \in SessionIds, NEW c \in AnsweredCheck(s, 0)
  PROVE  Pending(s) = IF c # 0 /\ checks[c].st = "pending" THEN {c} ELSE {}
<1> DEFINE missed == {d \in CheckIds : checks[d].st = "missed" /\ checks[d].sess = s}
<1>1. Pending(s) = {} \/ \E d \in CheckIds : Pending(s) = {d}
  BY DEF SerialInv, Tidy, SingleCheck, Pending
<1>2. \A d \in CheckIds : d # 0
  BY LoneWorkerAssumption
<1>3. CASE Pending(s) = {}
  <2>1. OpenCheck(s) = {}
    BY <1>3 DEF OpenCheck
  <2>2. c \in missed \/ c = 0
    BY <2>1 DEF AnsweredCheck
  <2>3. QED
    BY <1>3, <2>2
<1>4. ASSUME NEW d \in CheckIds, Pending(s) = {d}
      PROVE  Pending(s) = IF c # 0 /\ checks[c].st = "pending" THEN {c} ELSE {}
  <2>1. checks[d].st = "pending" /\ checks[d].due \in Nat
    BY <1>4, SerialTables, RowShape DEF Pending, CheckRow
  <2>2. OpenCheck(s) = {d}
    BY <1>4, <2>1 DEF OpenCheck
  <2>3. c = d
    BY <2>2 DEF AnsweredCheck
  <2>4. QED
    BY <1>2, <1>4, <2>1, <2>3
<1>5. QED
  BY <1>1, <1>3, <1>4

\* What the read step of a handler records is current.
LEMMA BeginReads ==
  ASSUME SerialInv, IInv', OneAtATime, NEW r \in Requests, BeginStep(r)
  PROVE  SerialInv'
<1>1. CASE BeginDeletePolicy(r)
  BY <1>1, BeginSerial DEF BeginDeletePolicy, Current
<1>2. ASSUME NEW g \in Guards, BeginStart(r, g)
      PROVE  SerialInv'
  BY <1>2, BeginSerial DEF BeginStart, Current
<1>3. ASSUME NEW s \in SessionIds, BeginCheckIn(r, s)
      PROVE  SerialInv'
  <2> DEFINE answer(c) == IF c = 0 \/ checks[c].st # "pending" THEN "none"
                          ELSE IF Late(s, c, now) THEN "safe_late" ELSE "safe"
             req(c) == [op |-> "check_in", s |-> s, c |-> c, t |-> now, answer |-> answer(c)]
  <2>1. PICK c \in AnsweredCheck(s, 0) : Begin(r, req(c))
    BY <1>3 DEF BeginCheckIn, OneAtATime
  <2>2. Pending(s) = IF answer(c) = "none" THEN {} ELSE {c}
    BY AnswersPending
  <2>3. s \in Active
    BY <1>3 DEF BeginCheckIn
  <2>4. Current(req(c))
    BY <2>2, <2>3 DEF Current
  <2> HIDE DEF req
  <2>5. QED
    BY <2>1, <2>4, BeginSerial
<1>4. ASSUME NEW s \in SessionIds, BeginAlarm(r, s)
      PROVE  SerialInv'
  BY <1>4, BeginSerial DEF BeginAlarm, Current
<1>5. ASSUME NEW s \in SessionIds, BeginEnd(r, s)
      PROVE  SerialInv'
  BY <1>5, BeginSerial DEF BeginEnd, Current
<1>6. ASSUME NEW i \in IncidentIds, BeginAcknowledge(r, i)
      PROVE  SerialInv'
  BY <1>6, BeginSerial DEF BeginAcknowledge, Current
<1>7. ASSUME NEW i \in IncidentIds, BeginEscalate(r, i)
      PROVE  SerialInv'
  BY <1>7, BeginSerial DEF BeginEscalate, Current
<1>8. ASSUME NEW i \in IncidentIds, NEW res \in Resolutions, BeginResolve(r, i, res)
      PROVE  SerialInv'
  <2> DEFINE s == incidents[i].sess
             schedule == s \in Active /\ res = "safe" /\ Pending(s) = {}
             req == [op |-> "resolve", i |-> i, s |-> s, res |-> res, t |-> now,
                     schedule |-> schedule]
  <2>1. Begin(r, req) /\ incidents[i].st \in OpenStatus
    BY <1>8 DEF BeginResolve
  <2>2. i \in OpenIncidents(s)
    BY <2>1 DEF OpenIncidents
  <2>3. Current(req)
    BY <2>2 DEF Current
  <2> HIDE DEF req
  <2>4. QED
    BY <2>1, <2>3, BeginSerial
<1>9. QED
  BY <1>1, <1>2, <1>3, <1>4, <1>5, <1>6, <1>7, <1>8 DEF BeginStep

\* A commit leaves nothing else in flight.
LEMMA CommitSerial ==
  ASSUME SerialInv, IInv', Tidy', NEW r \in Requests, CommitStep(r)
  PROVE  SerialInv'
<1>1. Finish(r) /\ UNCHANGED sweeps /\ requests[r].op # "idle"
  BY DEF CommitStep, CommitDeletePolicy, CommitStart, CommitCheckIn, CommitAlarm, CommitEnd,
         CommitAcknowledge, CommitEscalate, CommitResolve
<1>2. QED
  BY <1>1, FinishSerial DEF Idle

\* The sweep's step keeps what it goes on with current.
LEMMA SweepReads ==
  ASSUME SerialInv, IInv', Tidy', OneAtATime, NEW w \in Sweepers, SweepStep(w)
  PROVE  SerialInv'
<1> DEFINE p == sweeps[w]
<1>1. sweeps \in [Sweepers -> Sweep] /\ p \in Sweep /\ SweepCurrent(p)
  BY DEF SerialInv, IInv, TypeOK
<1>2. ASSUME NEW state, Goto(w, state), SweepCurrent(sweeps[w])', p.op # "idle" \/ Quiet
      PROVE  SerialInv'
  <2>1. sweeps[w] # Idle \/ Quiet
    BY <1>2 DEF Idle
  <2>2. sweeps' = [sweeps EXCEPT ![w] = state] /\ UNCHANGED requests
    BY <1>2 DEF Goto
  <2>3. QED
    BY <1>2, <2>1, <2>2, SweepSerial
<1>3. ASSUME NEW state, Goto(w, state)
      PROVE  sweeps'[w] = state /\ sessions' = sessions
  BY <1>1, <1>3 DEF Goto
<1>4. ASSUME NEW t, NEW todo \in SUBSET Active, Goto(w, Scan(t, todo)), p.op # "idle" \/ Quiet
      PROVE  SerialInv'
  <2>1. sweeps'[w] = Scan(t, todo) /\ sessions' = sessions
    BY <1>3, <1>4
  <2>2. SweepCurrent(sweeps[w])'
    BY <2>1 DEF Scan, SweepCurrent, Active
  <2>3. QED
    BY <1>2, <1>4, <2>2
<1>5. CASE SweepBegin(w)
  BY <1>4, <1>5 DEF SweepBegin, MayBegin, OneAtATime
<1>6. CASE SweepMiss(w) \/ \E s \in SessionIds : SweepSkip(w, s) \/ SweepRemind(w, s)
  <2>1. PICK s : Goto(w, Scan(p.t, p.todo \ {s})) /\ p.op \in {"scan", "miss"}
    BY <1>6 DEF SweepMiss, SweepSkip, SweepRemind
  <2>2. p.todo \ {s} \in SUBSET Active
    BY <1>1, <2>1 DEF SweepCurrent
  <2>3. QED
    BY <1>4, <2>1, <2>2
<1>7. CASE SweepLadder(w)
  <2> DEFINE todo == {i \in IncidentIds : incidents[i].st = "escalating"}
  <2>1. /\ sweeps'[w].op = "ladder" /\ sweeps'[w].todo = todo
        /\ \A i \in todo : Loaded(sweeps'[w], i) = [level |-> incidents[i].level,
                                                 last |-> incidents[i].last]
    BY <1>3, <1>7 DEF SweepLadder, Loaded
  <2>2. UNCHANGED incidents
    BY <1>7 DEF SweepLadder
  <2>3. SweepCurrent(sweeps[w])'
    BY <2>1, <2>2 DEF SweepCurrent, Loaded
  <2>4. PICK state : Goto(w, state)
    BY <1>7 DEF SweepLadder
  <2>5. QED
    BY <1>2, <1>7, <2>3, <2>4 DEF SweepLadder
<1>8. CASE SweepEnd(w)
  <2>1. Goto(w, Idle) /\ sweeps'[w] = Idle /\ p.op # "idle"
    BY <1>3, <1>8 DEF SweepEnd
  <2>2. SweepCurrent(sweeps[w])'
    BY <2>1 DEF SweepCurrent, Idle
  <2>3. QED
    BY <1>2, <2>1, <2>2
<1>9. ASSUME NEW s \in SessionIds, SweepOverdue(w, s)
      PROVE  SerialInv'
  <2> DEFINE state(c, i) == [op |-> "miss", t |-> p.t, todo |-> p.todo, s |-> s, c |-> c, i |-> i,
                             level |-> IF i = 0 THEN 0 ELSE incidents[i].level]
  <2>1. PICK c \in OpenCheck(s), i \in IncidentIds \cup {0} :
          /\ i \in IF OpenIncidents(s) = {} THEN {0} ELSE OpenIncident(s)
          /\ Goto(w, state(c, i))
    BY <1>9 DEF SweepOverdue
  <2>2. UNCHANGED tables /\ p.op = "scan" /\ s \in p.todo
    BY <1>9, <2>1 DEF SweepOverdue, Goto, tables
  <2>3. sweeps'[w] = state(c, i)
    BY <1>3, <2>1
  <2>4. /\ p.todo \subseteq Active /\ s \in Active /\ c \in Pending(s)
        /\ i # 0 => i \in OpenIncidents(s)
    BY <1>1, <2>1, <2>2 DEF SweepCurrent, OpenCheck, OpenIncident
  <2>5. SweepCurrent(state(c, i))
    BY <2>4 DEF SweepCurrent
  <2> HIDE DEF state
  <2>6. SweepCurrent(sweeps[w])'
    BY <2>2, <2>3, <2>5 DEF SweepCurrent, Loaded, Active, Pending, OpenIncidents, tables
  <2>7. QED
    BY <1>2, <2>1, <2>2, <2>6
<1>10. ASSUME NEW i \in IncidentIds, SweepStay(w, i) \/ SweepClimb(w, i)
       PROVE  SerialInv'
  <2>1. /\ p.op = "ladder" /\ p.todo \subseteq IncidentIds
        /\ \A j \in p.todo : /\ incidents[j].st = "escalating"
                            /\ Loaded(p, j) = [level |-> incidents[j].level,
                                               last |-> incidents[j].last]
    BY <1>1, <1>10, SweepShape DEF SweepStay, SweepClimb, SweepCurrent
  <2>2. /\ sweeps'[w].op = "ladder" /\ sweeps'[w].todo = p.todo \ {i}
        /\ sweeps'[w].fresh \/ (~p.fresh /\ ~sweeps'[w].fresh /\ sweeps'[w].seen = p.seen)
    <3>1. p \in [op : {"ladder"}, t : Nat, todo : SUBSET IncidentIds,
               seen : [IncidentIds -> Seen], fresh : BOOLEAN]
      BY <1>1, <2>1, SweepShape
    <3>2. \/ sweeps'[w] = [p EXCEPT !.todo = @ \ {i}]
          \/ sweeps'[w] = [p EXCEPT !.todo = @ \ {i}, !.fresh = TRUE]
      BY <1>3, <1>10 DEF SweepStay, SweepClimb
    <3>3. QED
      BY <3>1, <3>2
  <2>3. \A j \in p.todo \ {i} : incidents'[j] = incidents[j]
    BY <1>10, <2>1, SerialTables DEF SweepStay, SweepClimb, TablesTyped
  <2>4. SweepCurrent(sweeps[w])'
    BY <2>1, <2>2, <2>3 DEF SweepCurrent, Loaded
  <2>5. PICK state : Goto(w, state)
    BY <1>10 DEF SweepStay, SweepClimb
  <2>6. QED
    BY <1>2, <2>1, <2>4, <2>5
<1>11. QED
  BY <1>5, <1>6, <1>7, <1>8, <1>9, <1>10 DEF SweepStep

\* A step that touches neither the tables nor what is in flight.
LEMMA OtherSerial ==
  ASSUME SerialInv, IInv', UNCHANGED <<sessions, checks, incidents, requests, sweeps>>
  PROVE  SerialInv'
<1>1. Alone'
  BY DEF SerialInv, Alone
<1>2. /\ Active' = Active
      /\ \A s : Pending(s)' = Pending(s) /\ OpenIncidents(s)' = OpenIncidents(s)
  BY DEF Active, Pending, OpenIncidents
<1>3. \A r \in Requests : Current(requests[r])'
  <2>1. SUFFICES ASSUME NEW r \in Requests
                 PROVE  Current(requests[r])'
    OBVIOUS
  <2>2. Current(requests[r])
    BY DEF SerialInv
  <2>3. QED
    BY <1>2, <2>2 DEF Current
<1>4. \A w \in Sweepers : SweepCurrent(sweeps[w])'
  <2>1. SUFFICES ASSUME NEW w \in Sweepers
                 PROVE  SweepCurrent(sweeps[w])'
    OBVIOUS
  <2>2. SweepCurrent(sweeps[w])
    BY DEF SerialInv
  <2>3. QED
    BY <1>2, <2>2 DEF SweepCurrent, Loaded
<1>5. Tidy'
  BY <1>2 DEF SerialInv, Tidy, OneActivePerGuard, SingleCheck, EndedHasNoPending, NothingBefore
<1>6. QED
  BY <1>1, <1>3, <1>4, <1>5 DEF SerialInv

\* Every step keeps the books tidy.
LEMMA NextTidy ==
  ASSUME SerialInv, [Next]_vars
  PROVE  Tidy'
<1>1. CASE UNCHANGED tables
  BY <1>1 DEF tables, SerialInv, Tidy, OneActivePerGuard, SingleCheck, EndedHasNoPending,
              NothingBefore, Active, Pending, OpenIncidents
<1>2. QED
  BY <1>1, NextEffect, EffectTidy DEF SerialInv

\* Every step preserves SerialInv when handlers and sweeps do not overlap.
LEMMA NextSerial ==
  ASSUME OneAtATime, SerialInv, [Next]_vars
  PROVE  SerialInv'
<1>1. IInv' /\ Tidy'
  BY NextKeeps, NextTidy DEF SerialInv
<1>2. CASE Tick \/ PolicyStep \/ UNCHANGED vars
  BY <1>1, <1>2, OtherSerial DEF Tick, PolicyStep, CreatePolicy, UpdatePolicy, vars, tables
<1>3. ASSUME NEW r \in Requests, CrashRequest(r)
      PROVE  SerialInv'
  BY <1>1, <1>3, FinishSerial DEF CrashRequest
<1>4. ASSUME NEW w \in Sweepers, CrashSweep(w)
      PROVE  SerialInv'
  <2>1. /\ sweeps[w] # Idle /\ sweeps' = [sweeps EXCEPT ![w] = Idle] /\ UNCHANGED requests
    BY <1>4 DEF CrashSweep
  <2>2. sweeps'[w] = Idle
    BY <2>1 DEF SerialInv, IInv, TypeOK
  <2>3. SweepCurrent(sweeps[w])'
    BY <2>2 DEF SweepCurrent, Idle
  <2>4. QED
    BY <1>1, <2>1, <2>3, SweepSerial
<1>5. QED
  BY <1>1, <1>2, <1>3, <1>4, BeginReads, CommitSerial, SweepReads DEF Next

\* The empty database satisfies SerialInv.
LEMMA InitSerial == Init => SerialInv
<1>1. SUFFICES ASSUME Init PROVE SerialInv
  OBVIOUS
<1>2. /\ \A r \in Requests : requests[r] = Idle
      /\ \A w \in Sweepers : sweeps[w] = Idle
      /\ \A s \in SessionIds : sessions[s].st = "none"
      /\ \A c \in CheckIds : checks[c].st = "none"
      /\ \A i \in IncidentIds : incidents[i].st = "none"
  BY <1>1 DEF Init, NoRow
<1>3. Alone
  BY <1>2 DEF Alone
<1>4. /\ \A r \in Requests : Current(requests[r])
      /\ \A w \in Sweepers : SweepCurrent(sweeps[w])
  BY <1>2 DEF Current, SweepCurrent, Idle
<1>5. Tidy
  BY <1>2 DEF Tidy, OneActivePerGuard, SingleCheck, EndedHasNoPending, NothingBefore, Active,
              Pending, OpenIncidents, OpenStatus
<1>6. QED
  BY <1>1, <1>3, <1>4, <1>5, InitHolds DEF SerialInv

\* When handlers and sweeps do not overlap, what is in flight is what the tables say and
\* the books of every session are tidy (SerialInv is the inductive invariant).
THEOREM SerialInductive ==
  ASSUME OneAtATime
  PROVE  Spec => []SerialInv
<1>1. Init => SerialInv
  BY InitSerial
<1>2. SerialInv /\ [Next]_vars => SerialInv'
  BY NextSerial
<1>3. QED
  BY <1>1, <1>2, PTL DEF Spec

\* start_session's check is enough then: a guard never has two active sessions, however
\* many guards, sessions and handlers there are.
THEOREM GuardsOnce ==
  ASSUME OneAtATime
  PROVE  Spec => []OneActivePerGuard
<1>1. SerialInv => OneActivePerGuard
  BY DEF SerialInv, Tidy
<1>2. QED
  BY <1>1, SerialInductive, PTL

\* An active session never has two pending checks: check-ins, resolved incidents and
\* missed checks replace one before they schedule another.
THEOREM ChecksOnce ==
  ASSUME OneAtATime
  PROVE  Spec => []OnePendingCheck
<1>1. SerialInv => OnePendingCheck
  <2>1. SUFFICES ASSUME SerialInv, NEW s \in Active
                 PROVE  Cardinality(Pending(s)) <= 1
    BY DEF OnePendingCheck
  <2>2. Pending(s) = {} \/ \E c : Pending(s) = {c}
    <3>1. \A c, d \in Pending(s) : c = d
      BY <2>1 DEF SerialInv, Tidy, SingleCheck, Active
    <3>2. ASSUME NEW c \in Pending(s)
          PROVE  Pending(s) = {c}
      BY <3>1
    <3>3. QED
      BY <3>2
  <2>3. \A c : Cardinality({c}) = 1
    BY FS_Singleton
  <2>4. Cardinality({}) = 0
    BY FS_EmptySet
  <2>5. QED
    BY <2>2, <2>3, <2>4
<1>2. QED
  BY <1>1, SerialInductive, PTL

\* A session that ended leaves no pending check for the sweep to find.
THEOREM EndedClean ==
  ASSUME OneAtATime
  PROVE  Spec => []EndedHasNoPending
<1>1. SerialInv => EndedHasNoPending
  BY DEF SerialInv, Tidy
<1>2. QED
  BY <1>1, SerialInductive, PTL

-----------------------------------------------------------------------------
\* What a step may do.

\* Every step keeps the status of a check that was answered, missed or cancelled, and
\* the row of a resolved incident.
LEMMA NextFinal ==
  ASSUME SerialInv, [Next]_vars
  PROVE  StatusKept /\ ClosedKept
<1>1. CASE UNCHANGED tables
  BY <1>1, ChecksAlone, IncidentsAlone DEF tables
<1>2. QED
  BY <1>1, NextEffect DEF Effect

\* What the safety record says of a check is final: no later handler or sweep rewrites an
\* answered, missed or cancelled check.
THEOREM RecordFinal ==
  ASSUME OneAtATime
  PROVE  Spec => RecordedIsFinal
<1>1. SerialInv /\ [Next]_vars =>
        [\A c \in CheckIds : checks[c].st \notin {"none", "pending"} =>
           checks'[c].st = checks[c].st]_vars
  BY NextFinal DEF StatusKept
<1>2. QED
  BY <1>1, SerialInductive, PTL DEF Spec, RecordedIsFinal

\* A resolved incident stays closed: neither a responder nor the ladder touches it again.
THEOREM ResolvedFinal ==
  ASSUME OneAtATime
  PROVE  Spec => ResolvedIsFinal
<1>1. SerialInv /\ [Next]_vars =>
        [\A i \in IncidentIds : incidents[i].st = "resolved" =>
           incidents'[i] = incidents[i]]_vars
  BY NextFinal DEF ClosedKept
<1>2. QED
  BY <1>1, SerialInductive, PTL DEF Spec, ResolvedIsFinal

\* A session whose watch a step ends lost its last open incident to a responder.
LEMMA WatchLost ==
  ASSUME SerialInv, [Next]_vars, NEW s \in Active, Watched(s), s \in Active', ~Watched(s)'
  PROVE  \E i \in OpenIncidents(s) : incidents'[i].res = "unsafe"
<1>1. s \in SessionIds /\ sessions'[s].st = "active" /\ sessions[s].st = "active"
  BY DEF Active
<1>2. Pending(s)' = {} /\ OpenIncidents(s)' = {}
  BY DEF Watched
<1>3. ~Stays(s)
  BY <1>2 DEF Watched, Stays, SameChecks, SameIncidents
<1>4. ~UNCHANGED tables
  BY <1>1, <1>3 DEF tables, Stays, SameRow, SameChecks, SameIncidents, Pending, OpenIncidents
<1>5. Effect(s)
  BY <1>1, <1>3, <1>4, NextEffect DEF Effect, Elsewhere
<1>6. Closes(s)
  BY <1>1, <1>2, <1>3, <1>5 DEF Effect, Starts, Renews, Raises, Ends, NewCheck
<1>7. QED
  BY <1>2, <1>6 DEF Closes

\* Nothing but a responder's verdict stops the watch of an active session: check-ins,
\* misses, crashes and the sweep leave a check pending or an incident open.
THEOREM WatchKept ==
  ASSUME OneAtATime
  PROVE  Spec => MonitoringKept
<1>1. SerialInv /\ [Next]_vars =>
        [\A s \in Active : Watched(s) /\ s \in Active' /\ ~Watched(s)' =>
           \E i \in OpenIncidents(s) : incidents'[i].res = "unsafe"]_vars
  BY WatchLost
<1>2. QED
  BY <1>1, SerialInductive, PTL DEF Spec, MonitoringKept

\* A climb of the ladder loop is made on the incident's own level and time.
LEMMA ClimbPaced ==
  ASSUME SerialInv, TimedInv, [Next]_vars, NEW i \in IncidentIds, NEW w \in Sweepers,
         sweeps[w].op = "ladder", sweeps'[w] # sweeps[w],
         incidents[i].st # "none", incidents'[i].level > incidents[i].level
  PROVE  /\ incidents'[i].level <= LadderTop(incidents[i].sess)
         /\ now >= incidents[i].last + sessions[incidents[i].sess].rules.interval
<1> DEFINE p == sweeps[w]
           s == incidents[i].sess
<1>1. /\ sweeps \in [Sweepers -> Sweep] /\ TablesTyped /\ SweepCurrent(p)
      /\ now \in Nat /\ p.t \in Nat /\ p.t <= now /\ policy \in PolicyRow
  BY SerialTables, SweepShape DEF SerialInv, IInv, TypeOK, TimedInv, Timed
<1>2. incidents[i].level \in Nat /\ incidents[i].last \in Nat /\ s \in SessionIds
  BY <1>1, RowShape DEF IncidentRow
<1>3. SweepStep(w) \/ CrashSweep(w)
  BY <1>1, SweepsElsewhere
<1>4. ~UNCHANGED incidents
  BY <1>2
<1>5. PICK j \in IncidentIds : SweepClimb(w, j)
  BY <1>3, <1>4 DEF SweepStep, CrashSweep, SweepBegin, SweepMiss, SweepLadder, SweepEnd, SweepSkip,
                    SweepRemind, SweepOverdue, SweepStay, tables
<1>6. i = j
  BY <1>1, <1>2, <1>5 DEF SweepClimb, TablesTyped
<1>7. /\ incidents[i].st = "escalating"
      /\ Loaded(p, i).level = incidents[i].level /\ Loaded(p, i).last = incidents[i].last
  BY <1>1, <1>5, <1>6 DEF SweepClimb, SweepCurrent
<1>8. /\ p.t - incidents[i].last >= sessions[s].rules.interval
      /\ incidents[i].level < LadderTop(s)
  BY <1>5, <1>6, <1>7 DEF SweepClimb, MayClimb
<1>9. incidents'[i].level = incidents[i].level + 1
  <2>1. incidents[i] \in IncidentRow
    BY <1>1, <1>7, RowShape
  <2>2. Climb(incidents[i], incidents[i].level).level = incidents[i].level + 1
    BY <1>1, <1>2, <2>1, ClimbShape
  <2>3. QED
    BY <1>1, <1>5, <1>6, <1>7, <2>2 DEF SweepClimb, TablesTyped
<1>10. LadderTop(s) \in Nat
  BY <1>1, LoneWorkerAssumption DEF LadderTop, MaxEscalationLevel, PolicyRow
<1>11. sessions[s].rules.interval \in Nat
  <2>1. sessions[s].st # "none"
    BY <1>2, <1>7, SerialTables DEF Tidy, NothingBefore, OpenIncidents, OpenStatus
  <2>2. sessions[s].rules \in Rules
    BY <1>1, <1>2, <2>1, RowShape DEF SessionRow
  <2>3. QED
    BY <2>2, RuleShape
<1>12. QED
  BY <1>1, <1>2, <1>8, <1>9, <1>10, <1>11

\* The minute sweep never climbs past the top of the ladder, nor before the interval since
\* the last escalation is over, whoever made that one.
THEOREM LadderKeepsPace ==
  ASSUME OneAtATime
  PROVE  Spec => LadderPaced
<1>1. SerialInv /\ TimedInv /\ [Next]_vars =>
        [\A i \in IncidentIds, w \in Sweepers :
           /\ sweeps[w].op = "ladder"
           /\ sweeps'[w] # sweeps[w]
           /\ incidents[i].st # "none"
           /\ incidents'[i].level > incidents[i].level
           => /\ incidents'[i].level <= LadderTop(incidents[i].sess)
              /\ now >= incidents[i].last + sessions[incidents[i].sess].rules.interval]_vars
  BY ClimbPaced
<1>2. QED
  BY <1>1, SerialInductive, TimedInductive, PTL DEF Spec, LadderPaced

-----------------------------------------------------------------------------
\* LoneWorker implements Monitoring.

\* Where monitoring has a session, case by case, before and after a step.
LEMMA PhaseCases ==
  ASSUME NEW s \in SessionIds
  PROVE  /\ sessions[s].st = "none" => Phase(s) = "none"
         /\ sessions[s].st = "completed" => Phase(s) = "ended"
         /\ s \in Active =>
              Phase(s) = IF OpenIncidents(s) # {} THEN "helped"
                         ELSE IF Pending(s) # {} THEN "watched" ELSE "dismissed"
         /\ sessions'[s].st = "none" => Phase(s)' = "none"
         /\ sessions'[s].st = "completed" => Phase(s)' = "ended"
         /\ sessions'[s].st = "active" =>
              Phase(s)' = IF OpenIncidents(s)' # {} THEN "helped"
                          ELSE IF Pending(s)' # {} THEN "watched" ELSE "dismissed"
BY DEF Phase, Active

\* A session a step is not about stays where it is.
LEMMA PhaseStays ==
  ASSUME NEW s \in SessionIds, Stays(s)
  PROVE  Phase(s)' = Phase(s)
BY DEF Phase, Stays, SameRow, SameChecks, SameIncidents, Active

phase == [s \in SessionIds |-> Phase(s)]

\* The effect of a step is a step of Monitoring, or none.
LEMMA EffectWatch ==
  ASSUME SerialInv, TablesTyped', NEW s \in SessionIds, Effect(s)
  PROVE  Watch!Next \/ phase' = phase
<1>1. \A t \in SessionIds \ {s} : Phase(t)' = Phase(t)
  BY PhaseStays DEF Effect, Elsewhere
<1>2. phase' = [phase EXCEPT ![s] = Phase(s)']
  BY <1>1 DEF phase
<1>3. Phase(s) = phase[s]
  BY DEF phase
<1>4. ASSUME Phase(s)' = Phase(s)
      PROVE  phase' = phase
  BY <1>1, <1>4 DEF phase
<1> DEFINE Moves == \/ Watch!Start(s) \/ Watch!Raise(s) \/ Watch!Resume(s)
                    \/ Watch!Dismiss(s) \/ Watch!Return(s) \/ Watch!End(s)
<1>5. ASSUME \/ Phase(s) = "none" /\ Phase(s)' = "watched"
             \/ Phase(s) \in {"watched", "dismissed"} /\ Phase(s)' \in {"helped", "ended"}
             \/ Phase(s) = "helped" /\ Phase(s)' \in {"watched", "dismissed"}
             \/ Phase(s) = "dismissed" /\ Phase(s)' = "watched"
      PROVE  Watch!Next
  <2>1. Moves
    BY <1>2, <1>3, <1>5 DEF phase, Watch!Start, Watch!Raise, Watch!Resume, Watch!Dismiss,
                            Watch!Return, Watch!End, Watch!Move
  <2>2. QED
    BY <2>1 DEF Watch!Next
<1>6. CASE Stays(s)
  BY <1>4, <1>6, PhaseStays
<1>7. CASE Starts(s)
  <2>1. OpenIncidents(s)' = {}
    BY <1>7 DEF SerialInv, Tidy, NothingBefore, Starts, SameIncidents
  <2>2. Phase(s) = "none" /\ Phase(s)' = "watched"
    BY <1>7, <2>1, PhaseCases DEF Starts, NewCheck
  <2>3. QED
    BY <1>5, <2>2
<1>8. CASE Renews(s)
  <2>1. /\ OpenIncidents(s)' = OpenIncidents(s) /\ Pending(s)' # {}
        /\ s \in Active /\ sessions'[s].st = "active"
    BY <1>8 DEF Renews, SameIncidents, NewCheck, SameRow, Active
  <2>2. \/ Phase(s) = Phase(s)'
        \/ Phase(s) = "dismissed" /\ Phase(s)' = "watched"
    BY <2>1, PhaseCases
  <2>3. QED
    BY <1>4, <1>5, <2>2
<1>9. CASE SameRow(s) /\ sessions[s].st # "active"
  <2>1. sessions[s].st \in {"none", "completed"}
    BY <1>9, SerialTables, RowShape DEF SessionRow
  <2>2. QED
    BY <1>4, <1>9, <2>1, PhaseCases DEF SameRow
<1>10. CASE Raises(s) /\ sessions[s].st = "active"
  <2>1. s \in Active /\ sessions'[s].st = "active" /\ OpenIncidents(s)' # {}
    BY <1>10 DEF Raises, SameRow, Active
  <2>2. \/ Phase(s) = Phase(s)'
        \/ Phase(s) \in {"watched", "dismissed"} /\ Phase(s)' = "helped"
    BY <2>1, PhaseCases
  <2>3. QED
    BY <1>4, <1>5, <2>2
<1>11. CASE Closes(s) /\ sessions[s].st = "active"
  <2>1. s \in Active /\ sessions'[s].st = "active" /\ OpenIncidents(s) # {}
    BY <1>11 DEF Closes, SameRow, Active
  <2>2. Phase(s) = "helped" /\ Phase(s)' \in {"helped", "watched", "dismissed"}
    BY <2>1, PhaseCases
  <2>3. QED
    BY <1>4, <1>5, <2>2
<1>12. CASE Ends(s)
  <2>1. s \in Active /\ sessions'[s].st = "completed" /\ OpenIncidents(s) = {}
    BY <1>12 DEF Ends
  <2>2. Phase(s) \in {"watched", "dismissed"} /\ Phase(s)' = "ended"
    BY <2>1, PhaseCases
  <2>3. QED
    BY <1>5, <2>2
<1>13. QED
  BY <1>6, <1>7, <1>8, <1>9, <1>10, <1>11, <1>12 DEF Effect, Raises, Closes

\* Every step is a step of Monitoring, or none.
LEMMA NextWatch ==
  ASSUME SerialInv, [Next]_vars
  PROVE  Watch!Next \/ phase' = phase
<1>1. CASE UNCHANGED tables
  BY <1>1 DEF tables, phase, Phase, Active, Pending, OpenIncidents
<1>2. TablesTyped'
  BY NextKeeps DEF SerialInv, IInv, TypeOK, TablesTyped
<1>3. QED
  BY <1>1, <1>2, NextEffect, EffectWatch

\* Handlers and sweeps that do not overlap implement the promise of monitoring, for every
\* number of guards, sessions, checks and incidents.
THEOREM Implements ==
  ASSUME OneAtATime
  PROVE  Spec => ImplementsMonitoring
<1>1. Init => Watch!Init
  BY PhaseCases DEF Init, NoRow, Watch!Init
<1>2. SerialInv /\ [Next]_vars => [Watch!Next]_phase
  BY NextWatch
<1>3. QED
  BY <1>1, <1>2, SerialInductive, PTL DEF Spec, ImplementsMonitoring, Watch!Spec, phase

=============================================================================
