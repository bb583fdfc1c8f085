----------------------------- MODULE RotaPublish -----------------------------
(***************************************************************************)
(* One rota plan on the server: the planner's stored copy, the assignments *)
(* that publishing makes of it, and the attendance recorded on them        *)
(* (backend/app/services/rota_plan_service.py, attendance_service.py and   *)
(* shift_adjustment_service.py), with the one rota screen that saves the   *)
(* plan and the attendance page, which does not know of it.                *)
(*                                                                         *)
(* Attendance is kept twice: in the plan by slot, and on assignments that  *)
(* a publication deletes and makes again.  A shift has a ghost id, a start *)
(* and, when it is late, the start it should have had.  Times are unique   *)
(* per guard, so the order in which rows and slots are matched is of no    *)
(* account.                                                                *)
(***************************************************************************)
EXTENDS Integers, SequencesExt

CONSTANTS
  Guards,
  Modes,      \* bounds of a behaviour: guards, shifts, times, marks, lateness in minutes,
              \* saves killed and records changed elsewhere
  MaxRows     \* bound: assignment ids are 1 .. MaxRows

VARIABLES
  mode,
  screen,      \* the plan the rota screen shows, and the guards it takes for published
  planner,     \* planner_data
  assignments, \* rows by primary key
  recorded,    \* attendance: the status recorded on an assignment, by its key
  lateLogs,    \* the scheduled start in a ShiftLateLog row, by assignment_id
  job,         \* the request the screen is waiting for: what is still to be done
  dirty,       \* the screen has changes not saved
  made,        \* ghost: shifts made so far
  accepted,    \* ghost: of each shift, the statuses it may rightly have
  behind,      \* ghost: shifts whose record changed on another page since the screen loaded
  torn,        \* ghost: a save was killed, and none has ended since
  budget       \* what is left of mode.kills and mode.pages

planVars == <<mode, screen, planner, assignments, recorded, lateLogs, job, dirty, made, accepted,
              behind, torn, budget>>
tables == <<assignments, recorded, lateLogs>>
ghosts == <<made, accepted, behind>>

Statuses == {"on_time", "late", "absent"}
Unset == 0

ASSUME PublicationAssumption ==
  /\ IsFiniteSet(Guards) /\ MaxRows \in Nat
  /\ \A m \in Modes :
       /\ m.guards \subseteq Guards /\ m.marks \subseteq Statuses /\ m.late \in BOOLEAN
       /\ m.shifts \in Nat /\ m.times \in Nat

NoJob == [todo |-> <<>>, structural |-> FALSE, guards |-> {}, slot |-> <<>>, status |-> "none"]

\* f where it is defined, else g.
Over(f, g) == [x \in (DOMAIN f) \cup (DOMAIN g) |-> IF x \in DOMAIN f THEN f[x] ELSE g[x]]

Ids == 1 .. mode.shifts
Times == 1 .. mode.times
SlotsOf(p, g) == {<<g, i>> : i \in DOMAIN p.shifts[g]}
SlotsIn(p) == UNION {SlotsOf(p, g) : g \in Guards}
At(p, s) == p.shifts[s[1]][s[2]]
MarkIn(p, s) == {p.att[x] : x \in (DOMAIN p.att) \cap {s}}

PublishedGuards == {assignments[a].guard : a \in DOMAIN assignments}
RowsOf(g) == {a \in DOMAIN assignments : assignments[a].guard = g}
Highest(S) == CHOOSE a \in S \cup {0} : \A b \in S : b <= a

ScheduledStart(sh) == IF sh.sched = Unset THEN sh.start ELSE sh.sched
IsLate(sh) == sh.sched # Unset

----------------------------------------------------------------------------
(* get_rota_plan.                                                          *)

\* _slot_map_for_plan: an assignment and the slot whose scheduled start it has.
SlotMap(p) ==
  {m \in (DOMAIN assignments) \X SlotsIn(p) :
     /\ assignments[m[1]].guard = m[2][1]
     /\ assignments[m[1]].start = ScheduledStart(At(p, m[2]))}

\* Mutant: the plan is returned as it is stored.
Healed_Not(p) == p

\* What is recorded on assignments laid over the plan's own copy, and stored.
Healed(p) ==
  LET found == {m \in SlotMap(p) : m[1] \in DOMAIN recorded}
  IN [p EXCEPT !.att = Over([s \in {m[2] : m \in found} |->
                               recorded[CHOOSE a \in DOMAIN recorded : <<a, s>> \in found]], @)]

\* Read again after a reload; of what changed elsewhere, only records found in the plan
\* at their time have reached it.
Reached(id) ==
  \E a \in DOMAIN recorded, s \in SlotsIn(planner) :
    /\ assignments[a].id = id /\ At(planner, s).id = id
    /\ assignments[a].start = At(planner, s).start

Load ==
  /\ job = NoJob
  /\ ~dirty                                     \* bound: RotaSync has reloads that lose edits
  /\ planner' = Healed(planner)
  /\ screen' = [plan |-> planner', published |-> PublishedGuards]
  /\ behind' = {id \in behind : ~Reached(id)}
  /\ UNCHANGED <<mode, tables, job, dirty, made, accepted, torn, budget>>

----------------------------------------------------------------------------
(* publish_rota_plan.                                                      *)

\* The orders in which publication may meet the shifts of some guards: those of a guard as
\* they are listed, guards as the stored JSON has them.
Orders(G) ==
  LET S == {s \in SlotsIn(planner) : s[1] \in G} IN
  {q \in [1 .. Cardinality(S) -> S] :
     /\ \A s \in S : \E k \in DOMAIN q : q[k] = s
     /\ \A k, l \in DOMAIN q : k < l => q[k] # q[l] /\ (q[k][1] = q[l][1] => q[k][2] < q[l][2])}

\* What the rows about to be deleted say of a shift of this guard and time.
Carried(g, sh) ==
  {recorded[a] :
     a \in {a \in (DOMAIN recorded) \cap RowsOf(g) : assignments[a].start = sh.start}}

\* Assignments of the guards in G, their attendance deleted and made again from the plan,
\* else from the rows before.  Keys follow the highest left, as SQLite's do; late logs
\* stay, and one that has the key of a new row is taken for its own.
PublishIn(G, blocks) ==
  LET kept == DOMAIN assignments \ UNION {RowsOf(g) : g \in G}
      new == {Highest(kept) + k : k \in DOMAIN blocks}
      slot(a) == blocks[a - Highest(kept)]
      sh(a) == At(planner, slot(a))
      marks(a) == IF MarkIn(planner, slot(a)) # {} THEN MarkIn(planner, slot(a))
                  ELSE Carried(slot(a)[1], sh(a))
  IN /\ Highest(kept) + Len(blocks) <= MaxRows                             \* bound
     /\ assignments' = [a \in kept \cup new |->
          IF a \in kept THEN assignments[a]
          ELSE [guard |-> slot(a)[1], id |-> sh(a).id, start |-> sh(a).start]]
     /\ recorded' = [a \in ((DOMAIN recorded) \cap kept) \cup {a \in new : marks(a) # {}} |->
          IF a \in kept THEN recorded[a] ELSE CHOOSE m \in marks(a) : TRUE]
     /\ lateLogs' = Over([a \in {a \in new : IsLate(sh(a))} |-> sh(a).sched], lateLogs)

Publish(G) == \E blocks \in Orders(G) : PublishIn(G, blocks)

\* A plan read before a record was changed elsewhere has its way, with a mark of its own or
\* a new time; accepted as such.
Overrules(s) ==
  IF MarkIn(planner, s) # {} THEN MarkIn(planner, s)
  ELSE IF \E a \in RowsOf(s[1]) : assignments[a].start = At(planner, s).start THEN {} ELSE {"none"}
Overruled ==
  accepted' = [id \in DOMAIN accepted |-> accepted[id] \cup
    UNION {Overrules(s) : s \in {s \in SlotsIn(planner) : At(planner, s).id = id /\ id \in behind}}]

\* unpublish_rota_plan and unpublish_rota_plan_guard, and delete_rota_plan but for the bin.
Unpublish(G) ==
  LET kept == DOMAIN assignments \ UNION {RowsOf(g) : g \in G} IN
  /\ job = NoJob
  /\ G \cap PublishedGuards # {}
  /\ assignments' = Restrict(assignments, kept)
  /\ recorded' = Restrict(recorded, DOMAIN recorded \cap kept)
  /\ screen' = [screen EXCEPT !.published = PublishedGuards \ G]
  /\ UNCHANGED <<mode, planner, lateLogs, job, dirty, ghosts, torn, budget>>

----------------------------------------------------------------------------
(* Saving: update_rota_plan stores the plan, publishes again the guards    *)
(* whose assignments differ, or writes lateness and attendance through.    *)

\* Mutant: a shift taken off the plan is no difference.
Changed_Added ==
  {g \in PublishedGuards :
     ~({At(planner, s).start : s \in {s \in SlotsIn(planner) : s[1] = g}}
         \subseteq {assignments[a].start : a \in RowsOf(g)})}

\* Published guards whose fingerprints differ.
Changed ==
  {g \in PublishedGuards :
     {At(planner, s).start : s \in {s \in SlotsIn(planner) : s[1] = g}}
       # {assignments[a].start : a \in RowsOf(g)}}

\* find_assignment: by start, by the scheduled start of a late log, or the only one.
Find(g, want) ==
  LET exact == {a \in RowsOf(g) : assignments[a].start = want}
      late == {a \in RowsOf(g) \cap (DOMAIN lateLogs) : lateLogs[a] = want}
  IN IF exact # {} THEN Highest(exact)
     ELSE IF late # {} THEN Highest(late)
     ELSE IF Cardinality(RowsOf(g)) = 1 THEN Highest(RowsOf(g)) ELSE 0

\* The assignments some slots of the plan find, each with its slot.
Hits(S) ==
  LET found == {<<Find(s[1], ScheduledStart(At(planner, s))), s>> : s \in S}
  IN {<<a, CHOOSE s \in S : <<a, s>> \in found>> : a \in {f[1] : f \in found} \ {0}}

LateSlots == {s \in SlotsIn(planner) : IsLate(At(planner, s)) /\ MarkIn(planner, s) = {"late"}}
MarkedSlots == (DOMAIN planner.att) \cap SlotsIn(planner)

SyncLateness ==
  LET hits == Hits(LateSlots)
      slot(a) == (CHOOSE h \in hits : h[1] = a)[2]
  IN /\ lateLogs' = Over([a \in {h[1] : h \in hits} |-> At(planner, slot(a)).sched], lateLogs)
     /\ assignments' = [a \in DOMAIN assignments |->
          IF \E h \in hits : h[1] = a
            THEN [assignments[a] EXCEPT !.start = At(planner, slot(a)).start] ELSE assignments[a]]
     /\ UNCHANGED <<recorded, planner, accepted>>

SyncAttendance ==
  LET hits == Hits(MarkedSlots) IN
  /\ recorded' = Over([a \in {h[1] : h \in hits} |->
       planner.att[(CHOOSE h \in hits : h[1] = a)[2]]], recorded)
  /\ Overruled
  /\ UNCHANGED <<assignments, lateLogs, planner>>

\* What follows when all that differs was published again, if anything does.
Rest ==
  IF job.structural THEN <<"heal">>
  ELSE (IF LateSlots = {} THEN <<>> ELSE <<"lateness">>)
         \o (IF MarkedSlots = {} THEN <<>> ELSE <<"attendance">>) \o <<"heal">>

Step == IF job.todo = <<>> THEN "none" ELSE Head(job.todo)
Then(todo) == job' = IF todo = <<>> THEN NoJob ELSE [job EXCEPT !.todo = todo]
Unmoved == UNCHANGED <<mode, made, behind, budget>>

Store ==
  /\ Step = "store"
  /\ planner' = screen.plan
  /\ Then(Tail(job.todo))
  /\ UNCHANGED <<tables, screen, dirty, accepted, torn>> /\ Unmoved

\* One guard at a time, each with its own commit.
Rebuild ==
  /\ Step = "rebuild"
  /\ \/ /\ \E g \in Changed : Publish({g})
        /\ Overruled
        /\ job' = [job EXCEPT !.structural = TRUE]
     \/ /\ Changed = {}
        /\ job' = [job EXCEPT !.structural = FALSE, !.todo = Rest \o Tail(@)]
        /\ UNCHANGED <<tables, accepted>>
  /\ UNCHANGED <<planner, screen, dirty, torn>> /\ Unmoved

Sync ==
  /\ \/ Step = "lateness" /\ SyncLateness
     \/ Step = "attendance" /\ SyncAttendance
  /\ Then(Tail(job.todo))
  /\ UNCHANGED <<screen, dirty, torn>> /\ Unmoved

\* The answer is the healed plan, which the screen does not take.
Heal ==
  /\ Step = "heal"
  /\ planner' = Healed(planner)
  /\ torn' = FALSE
  /\ Then(Tail(job.todo))
  /\ UNCHANGED <<tables, screen, dirty, accepted>> /\ Unmoved

PublishStep ==
  /\ Step = "publish"
  /\ Publish(job.guards)
  /\ Overruled
  /\ screen' = [screen EXCEPT !.published = {assignments'[a].guard : a \in DOMAIN assignments'}]
  /\ Then(Tail(job.todo))
  /\ UNCHANGED <<planner, dirty, torn>> /\ Unmoved

\* The job is given up: the server is killed or refuses.
Killed ==
  /\ job # NoJob
  /\ budget.kills > 0 /\ budget' = [budget EXCEPT !.kills = @ - 1]
  /\ job' = NoJob
  /\ torn' = TRUE
  /\ UNCHANGED <<mode, screen, planner, tables, dirty, ghosts>>

----------------------------------------------------------------------------
(* The rota screen.                                                        *)

\* Nothing on screen can be changed while the attendance dialog waits; nor, a bound, during
\* other requests (RotaSync has edits made while a save is on its way).
MayEdit == job = NoJob
ShowPlan(p) == screen' = [screen EXCEPT !.plan = p] /\ dirty' = TRUE
OnScreen == UNCHANGED <<mode, planner, tables, job, behind, torn, budget>>

Taken(g) ==
  LET listed == UNION {ToSet(p.shifts[g]) : p \in {screen.plan, planner}}
  IN {assignments[a].start : a \in RowsOf(g)}
       \cup {sh.start : sh \in listed} \cup {sh.sched : sh \in listed}
FreeTimes(g) == Times \ Taken(g)  \* bound: a time is used again once the plan is saved without it

AddShift(g, t) ==
  /\ MayEdit /\ t \in FreeTimes(g)
  /\ made < mode.shifts /\ made' = made + 1                    \* bound
  /\ ShowPlan([screen.plan EXCEPT
       !.shifts[g] = Append(@, [id |-> made', start |-> t, sched |-> Unset])])
  /\ accepted' = Over([id \in {made'} |-> {"none"}], accepted)
  /\ UNCHANGED behind /\ OnScreen

\* deleteShift: later marks move down.
RemoveShift(g, i) ==
  LET from(s) == IF s[1] = g /\ s[2] >= i THEN <<g, s[2] + 1>> ELSE s
      left == [screen.plan EXCEPT !.shifts[g] = RemoveAt(@, i)]
  IN /\ MayEdit /\ i \in DOMAIN screen.plan.shifts[g]
     /\ ShowPlan([left EXCEPT !.att =
          [s \in {s \in SlotsIn(left) : from(s) \in DOMAIN @} |-> @[from(s)]]])
     /\ UNCHANGED ghosts /\ OnScreen

Retime(g, i, t) ==
  /\ MayEdit /\ i \in DOMAIN screen.plan.shifts[g] /\ t \in FreeTimes(g)
  /\ ~IsLate(screen.plan.shifts[g][i])                         \* bound: see ShiftClock
  /\ ShowPlan([screen.plan EXCEPT !.shifts[g][i].start = t])
  /\ UNCHANGED ghosts /\ OnScreen

\* The times a mark gives a shift: late by one unit, or on time again.
Timed(sh, st, late) ==
  IF late THEN [sh EXCEPT !.start = ScheduledStart(sh) + 1, !.sched = ScheduledStart(sh)]
  ELSE IF st # "late" THEN [sh EXCEPT !.start = ScheduledStart(sh), !.sched = Unset]
  ELSE sh

MayMark(g, i, st, late) ==
  /\ i \in DOMAIN screen.plan.shifts[g]
  /\ late => mode.late /\ st = "late"
  /\ late => LET sh == screen.plan.shifts[g][i] IN
               IsLate(sh) \/ sh.start + 1 \in FreeTimes(g)          \* bound
HasRow(id) == \E a \in DOMAIN assignments : assignments[a].id = id
Mark(s, st) == [screen.plan EXCEPT !.att = Over([x \in {s} |-> st], @)]

\* saveAtt for a guard not published.
MarkDraft(g, i, st, late) ==
  LET id == screen.plan.shifts[g][i].id IN
  /\ MayEdit /\ g \notin screen.published /\ MayMark(g, i, st, late)
  /\ ShowPlan([Mark(<<g, i>>, st) EXCEPT !.shifts[g][i] = Timed(@, st, late)])
  /\ accepted' = [accepted EXCEPT ![id] = {st}]
  /\ UNCHANGED <<made, behind>> /\ OnScreen

\* Of a published one, the record is shown once the server has it; only the plan's copy is
\* cleared.
ClearMark(g, i) ==
  LET s == <<g, i>> id == screen.plan.shifts[g][i].id IN
  /\ MayEdit /\ s \in DOMAIN screen.plan.att
  /\ ShowPlan([screen.plan EXCEPT !.att = Restrict(@, DOMAIN @ \ {s})])
  /\ accepted' = [accepted EXCEPT ![id] = {"none"} \cup IF HasRow(id) THEN @ ELSE {}]
  /\ UNCHANGED <<made, behind>> /\ OnScreen

Begin(request) ==
  /\ job = NoJob
  /\ job' = request
  /\ UNCHANGED <<mode, tables, made, accepted, behind, torn, budget>>

\* Autosave, or the save button; sent and stored at once (see RotaSync for the wire).
Save ==
  /\ dirty /\ dirty' = FALSE
  /\ planner' = screen.plan
  /\ Begin([NoJob EXCEPT !.todo = <<"rebuild">>])
  /\ UNCHANGED screen

PublishButton(G) ==
  /\ dirty' = FALSE
  /\ planner' = screen.plan
  /\ Begin([NoJob EXCEPT !.todo = <<"rebuild", "publish">>, !.guards = G])
  /\ UNCHANGED screen

\* saveAtt for a published guard: the times are changed, then saved, saved again and
\* published, then the lateness and the status sent by shift.
MarkPublished(g, i, st, late) ==
  /\ g \in screen.published /\ MayMark(g, i, st, late)
  /\ screen' = [screen EXCEPT !.plan.shifts[g][i] = Timed(@, st, late)]
  /\ planner' = screen'.plan
  /\ dirty' = FALSE
  /\ Begin([NoJob EXCEPT
       !.todo = <<"rebuild", "store", "rebuild", "publish">>
                  \o (IF late THEN <<"late">> ELSE <<>>) \o <<"upsert">>,
       !.guards = {g}, !.slot = <<g, i>>, !.status = st])

\* record_lateness_by_shift
LateStep ==
  LET sh == At(screen.plan, job.slot) a == Find(job.slot[1], sh.sched) IN
  /\ Step = "late" /\ a # 0
  /\ lateLogs' = Over([x \in {a} |-> sh.sched], lateLogs)
  /\ assignments' = [assignments EXCEPT ![a].start = sh.start]
  /\ recorded' = IF a \in DOMAIN recorded THEN [recorded EXCEPT ![a] = "late"] ELSE recorded
  /\ accepted' = [accepted EXCEPT ![sh.id] = @ \cup {"late"}]
  /\ Then(Tail(job.todo))
  /\ UNCHANGED <<planner, screen, dirty, torn>> /\ Unmoved

\* upsert_attendance_by_shift; its answer may be lost.
Upsert ==
  LET sh == At(screen.plan, job.slot) a == Find(job.slot[1], ScheduledStart(sh)) IN
  /\ Step = "upsert" /\ a # 0
  /\ recorded' = Over([x \in {a} |-> job.status], recorded)
  /\ accepted' = [accepted EXCEPT ![sh.id] = {job.status}]
  /\ job' = NoJob
  /\ \/ ShowPlan(Mark(job.slot, job.status)) /\ behind' = behind \ {sh.id} /\ UNCHANGED budget
     \/ /\ budget.kills > 0 /\ budget' = [budget EXCEPT !.kills = @ - 1]
        /\ behind' = behind \cup {sh.id}
        /\ UNCHANGED <<screen, dirty>>
  /\ UNCHANGED <<mode, planner, assignments, lateLogs, made, torn>>

----------------------------------------------------------------------------
(* The attendance page and booking on, by assignment.                      *)

Elsewhere(a, st) ==
  /\ accepted' = [accepted EXCEPT ![assignments[a].id] = {st}]
  /\ behind' = behind \cup {assignments[a].id}
  /\ budget.pages > 0 /\ budget' = [budget EXCEPT !.pages = @ - 1]     \* bound
  /\ UNCHANGED <<mode, screen, planner, assignments, lateLogs, job, dirty, made, torn>>

UpdateAttendance(a, st) ==
  /\ a \in DOMAIN recorded /\ recorded[a] # st
  /\ recorded' = [recorded EXCEPT ![a] = st]
  /\ Elsewhere(a, st)

\* A guard who books on after the start is late.
BookOn(a, st) ==
  /\ a \in DOMAIN assignments
  /\ st = "late" \/ IF a \in DOMAIN recorded THEN st = recorded[a] ELSE st = "on_time"
  /\ recorded' = Over([x \in {a} |-> st], recorded)
  /\ recorded' # recorded
  /\ Elsewhere(a, st)

DeleteAttendance(a) ==
  /\ a \in DOMAIN recorded
  /\ recorded' = Restrict(recorded, DOMAIN recorded \ {a})
  /\ Elsewhere(a, "none")

----------------------------------------------------------------------------
NoPlan == [shifts |-> [g \in Guards |-> <<>>], att |-> <<>>]

PublicationInit ==
  /\ mode \in Modes
  /\ planner = NoPlan
  /\ screen = [plan |-> NoPlan, published |-> {}]
  /\ assignments = <<>> /\ recorded = <<>> /\ lateLogs = <<>>
  /\ job = NoJob
  /\ dirty = FALSE
  /\ made = 0
  /\ accepted = <<>>
  /\ behind = {}
  /\ torn = FALSE
  /\ budget = [kills |-> mode.kills, pages |-> mode.pages]

ScreenStep ==
  \/ \E g \in mode.guards, t \in Times : AddShift(g, t)
  \/ \E g \in mode.guards, i \in Ids :
       \/ RemoveShift(g, i) \/ ClearMark(g, i)
       \/ \E t \in Times : Retime(g, i, t)
       \/ \E st \in mode.marks, late \in BOOLEAN :
            MarkDraft(g, i, st, late) \/ MarkPublished(g, i, st, late)
  \/ Load \/ Save
  \/ \E G \in {mode.guards} \cup {{g} : g \in mode.guards} : PublishButton(G) \/ Unpublish(G)

ServerStep == Store \/ Rebuild \/ Sync \/ Heal \/ PublishStep \/ LateStep \/ Upsert

PageStep ==
  \E a \in 1 .. MaxRows :
    \/ \E st \in mode.marks : UpdateAttendance(a, st)
    \/ \E st \in mode.marks \cup {"late"} : BookOn(a, st)
    \/ DeleteAttendance(a)

PublicationNext == ScreenStep \/ ServerStep \/ Killed \/ PageStep

PublicationSpec == PublicationInit /\ [][PublicationNext]_planVars

----------------------------------------------------------------------------
(* Properties.                                                             *)

PublicationTypeOK ==
  /\ DOMAIN assignments \subseteq 1 .. MaxRows
  /\ \A a \in DOMAIN assignments : assignments[a] \in [guard : Guards, id : Ids, start : Times]
  /\ DOMAIN recorded \subseteq DOMAIN assignments
  /\ \A a \in DOMAIN recorded : recorded[a] \in Statuses
  /\ \A a \in DOMAIN lateLogs : lateLogs[a] \in Times
  /\ \A p \in {screen.plan, planner} : \A s \in SlotsIn(p) :
       At(p, s) \in [id : Ids, start : Times, sched : Times \cup {Unset}]

Recorded(a) == IF a \in DOMAIN recorded THEN recorded[a] ELSE "none"

\* "Healing the stored copy on read keeps a single answer in the system": the status on an
\* assignment is the one last recorded for its shift, on whichever page, as long as what
\* saves the plan has been loaded since; when all is saved.
Settled == job = NoJob /\ ~dirty /\ ~torn
SingleAnswer ==
  Settled => \A a \in DOMAIN assignments : Recorded(a) \in accepted[assignments[a].id]

\* So it is for shifts not late by minutes.
RecordKept == ~mode.late => SingleAnswer

\* "Late shifts: Assignment.shift_start is the actual (late) start; scheduled is in
\* ShiftLateLog": between requests, the assignments of a published guard are the shifts of
\* the stored plan at their actual times, late or not.
ActualStarts ==
  job = NoJob /\ ~torn =>
    \A g \in PublishedGuards :
      {<<assignments[a].id, assignments[a].start>> : a \in RowsOf(g)} =
        {<<At(planner, s).id, At(planner, s).start>> : s \in {s \in SlotsIn(planner) : s[1] = g}}

\* So it is for shifts not late by minutes, also after a save that was killed between its
\* commits and another one.
PublishedMatches == ~mode.late => ActualStarts

=============================================================================
