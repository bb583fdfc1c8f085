-------------------------- MODULE RotaPublishProofs --------------------------
(***************************************************************************)
(* What publication promises, for every mode of sensible bounds: the types *)
(* of the tables; and, for shifts not late by minutes, that assignments    *)
(* follow the stored plan and keep the status last recorded.               *)
(***************************************************************************)
EXTENDS RotaPublish, FiniteSetTheorems, SequenceTheorems, WellFoundedInduction, TLAPS

-----------------------------------------------------------------------------
(* Shapes.                                                                 *)

\* What a shift or an assignment may be recorded as.
Marks == Statuses \cup {"none"}

\* The bounds of a behaviour have their types.
Sensible(m) ==
  /\ m.guards \subseteq Guards /\ m.marks \subseteq Statuses /\ m.late \in BOOLEAN
  /\ m.shifts \in Nat /\ m.times \in Nat

BoundsShape == Sensible(mode) /\ MaxRows \in Nat /\ IsFiniteSet(Guards)

\* A shift; one that is late can be marked late again.
Shifts == {sh \in [id : 1 .. made, start : Times, sched : Times \cup {Unset}] :
             IsLate(sh) => sh.sched + 1 \in Times}

\* A plan lists the shifts of every guard, which are in S, and marks some of them.
PlanOf(p, S) ==
  /\ p = [shifts |-> p.shifts, att |-> p.att]
  /\ p.shifts \in [Guards -> Seq(S)]
  /\ p.att \in [DOMAIN p.att -> Statuses]
  /\ DOMAIN p.att \subseteq SlotsIn(p)
PlanShape(p) == PlanOf(p, Shifts)

ScreenShape ==
  /\ screen = [plan |-> screen.plan, published |-> screen.published]
  /\ PlanShape(screen.plan)
  /\ screen.published \subseteq Guards

Rows == [guard : Guards, id : 1 .. made, start : Times]

TablesShape ==
  /\ DOMAIN assignments \subseteq 1 .. MaxRows
  /\ assignments \in [DOMAIN assignments -> Rows]
  /\ DOMAIN recorded \subseteq DOMAIN assignments
  /\ recorded \in [DOMAIN recorded -> Statuses]
  /\ lateLogs \in [DOMAIN lateLogs -> Times]

GhostsShape ==
  /\ made \in 0 .. mode.shifts
  /\ accepted \in [1 .. made -> SUBSET Marks]
  /\ behind \subseteq 1 .. made

\* A request for one shift of plan p names it, and lateness is recorded of a late one only.
Stages == {"store", "rebuild", "lateness", "attendance", "heal", "publish", "late", "upsert"}
JobOf(j, p, late) ==
  /\ j = [todo |-> j.todo, structural |-> j.structural, guards |-> j.guards, slot |-> j.slot,
          status |-> j.status]
  /\ j.todo \in Seq(Stages)
  /\ j.structural \in BOOLEAN
  /\ j.guards \subseteq Guards
  /\ \A k \in DOMAIN j.todo :
       /\ j.todo[k] \in {"late", "upsert"} => j.slot \in SlotsIn(p) /\ j.status \in Statuses
       /\ j.todo[k] = "late" => late /\ IsLate(At(p, j.slot))
JobShape == JobOf(job, screen.plan, mode.late)

FlagsShape == dirty \in BOOLEAN /\ torn \in BOOLEAN

Shapes ==
  /\ BoundsShape /\ ScreenShape /\ PlanShape(planner) /\ TablesShape /\ GhostsShape /\ JobShape
  /\ FlagsShape

-----------------------------------------------------------------------------
(* What is on screen and what is stored.                                   *)

\* Nobody edits while a request is under way, edits change only the screen, and a guard
\* the server has rows of is shown as published.
Stored ==
  /\ job # NoJob => ~dirty
  /\ ~dirty => planner.shifts = screen.plan.shifts
  /\ PublishedGuards \subseteq screen.published

-----------------------------------------------------------------------------
(* Shifts not late by minutes.                                             *)

\* No trace of lateness anywhere.
Punctual ==
  /\ \A p \in {screen.plan, planner} : \A s \in SlotsIn(p) : ~IsLate(At(p, s))
  /\ DOMAIN lateLogs = {}
  /\ \A k \in DOMAIN job.todo : job.todo[k] # "lateness"

\* The guard, time and id of the shifts of a plan, and of the assignments.
PlanClaims(p) == {<<s[1], At(p, s).start, At(p, s).id>> : s \in SlotsIn(p)}
RowClaims == {<<assignments[a].guard, assignments[a].start, assignments[a].id>> : a \in DOMAIN assignments}
Claims == PlanClaims(screen.plan) \cup PlanClaims(planner) \cup RowClaims

\* A guard's time is one shift's, on screen, in store or published, and a shift one guard's.
Distinct == \A c, d \in Claims : (c[1] = d[1] /\ c[2] = d[2]) \/ c[3] = d[3] => c[1] = d[1] /\ c[3] = d[3]

\* A plan lists a shift once, and a shift has one assignment.
Sole(p) == \A s, t \in SlotsIn(p) : At(p, s).id = At(p, t).id => s = t
Listed ==
  /\ Sole(screen.plan) /\ Sole(planner)
  /\ \A a, b \in DOMAIN assignments : assignments[a].id = assignments[b].id => a = b

\* A guard's assignments are its shifts of the stored plan.
Follows(g) ==
  {<<assignments[a].id, assignments[a].start>> : a \in RowsOf(g)} =
    {<<At(planner, s).id, At(planner, s).start>> : s \in {s \in SlotsIn(planner) : s[1] = g}}

\* So it is of every published guard, but while a save publishes again or after it was
\* killed.
Consistent == IF job = NoJob THEN ~torn ELSE Step # "rebuild"
Followed == Consistent => \A g \in PublishedGuards : Follows(g)

\* The mark a plan has of a slot, or none.
Shown(p, s) == IF s \in DOMAIN p.att THEN p.att[s] ELSE "none"

\* What a plan shows of a shift is accepted, unless another page changed it since.
Honest(p) == \A s \in SlotsIn(p) : At(p, s).id \notin behind => Shown(p, s) \in accepted[At(p, s).id]

\* And so is, always, what is recorded on its assignment.
Accepted ==
  /\ Honest(screen.plan)
  /\ ~dirty => Honest(planner)
  /\ \A a \in DOMAIN assignments : Recorded(a) \in accepted[assignments[a].id]

Plain == Punctual /\ Distinct /\ Listed /\ Followed /\ Accepted

Inv == Shapes /\ Stored /\ (~mode.late => Plain)

-----------------------------------------------------------------------------
(* Plans and sets of keys.                                                 *)

\* A slot of a plan is a guard and a place in the guard's list, and the other way round.
LEMMA SlotIs ==
  ASSUME NEW p, NEW s \in SlotsIn(p)
  PROVE  s = <<s[1], s[2]>> /\ s[1] \in Guards /\ s[2] \in DOMAIN p.shifts[s[1]]
BY DEF SlotsIn, SlotsOf

\* A place in a guard's list is a slot.
LEMMA IsSlot ==
  ASSUME NEW p, NEW g \in Guards, NEW i \in DOMAIN p.shifts[g]
  PROVE  <<g, i>> \in SlotsIn(p)
BY DEF SlotsIn, SlotsOf

\* Slots and shifts do not depend on the marks.
LEMMA SameShifts ==
  ASSUME NEW p, NEW q, p.shifts = q.shifts
  PROVE  SlotsIn(p) = SlotsIn(q) /\ \A s : At(p, s) = At(q, s)
BY DEF SlotsIn, SlotsOf, At

\* The shift in a slot.
LEMMA SlotHolds ==
  ASSUME NEW S, NEW p, PlanOf(p, S), NEW s \in SlotsIn(p)
  PROVE  /\ p.shifts[s[1]] \in Seq(S)
         /\ DOMAIN p.shifts[s[1]] = 1 .. Len(p.shifts[s[1]])
         /\ s[2] \in 1 .. Len(p.shifts[s[1]]) /\ Len(p.shifts[s[1]]) \in Nat
         /\ At(p, s) \in S
<1>1. s[1] \in Guards /\ s[2] \in DOMAIN p.shifts[s[1]]
  BY SlotIs
<1>2. p.shifts[s[1]] \in Seq(S)
  BY <1>1 DEF PlanOf
<1>3. QED
  BY <1>1, <1>2, LenProperties, ElementOfSeq DEF At

\* What a shift has.
LEMMA ShiftHas ==
  ASSUME NEW sh \in Shifts
  PROVE  /\ sh = [id |-> sh.id, start |-> sh.start, sched |-> sh.sched]
         /\ sh.id \in 1 .. made /\ sh.start \in Times /\ sh.sched \in Times \cup {Unset}
         /\ IsLate(sh) => sh.sched + 1 \in Times
         /\ ScheduledStart(sh) \in Times
BY DEF Shifts, ScheduledStart, IsLate

\* A plan of finitely many guards has finitely many slots.
LEMMA SlotsFinite ==
  ASSUME NEW S, NEW p, PlanOf(p, S), IsFiniteSet(Guards)
  PROVE  IsFiniteSet(SlotsIn(p))
<1> DEFINE Of(g) == {<<g, i>> : i \in DOMAIN p.shifts[g]}
           All == {Of(g) : g \in Guards}
<1>1. IsFiniteSet(All)
  <2> HIDE DEF Of
  <2>1. [g \in Guards |-> Of(g)] \in Surjection(Guards, All)
    BY DEF Surjection
  <2> HIDE DEF All
  <2>2. QED BY <2>1, FS_Surjection
<1>2. ASSUME NEW T \in All
      PROVE  IsFiniteSet(T)
  <2>1. PICK g \in Guards : T = Of(g)
    OBVIOUS
  <2>2. p.shifts[g] \in Seq(S)
    BY DEF PlanOf
  <2>3. Len(p.shifts[g]) \in Nat /\ DOMAIN p.shifts[g] = 1 .. Len(p.shifts[g])
    BY <2>2, LenProperties
  <2>4. IsFiniteSet(DOMAIN p.shifts[g])
    BY <2>3, FS_Interval
  <2>5. IsFiniteSet(Of(g))
    <3>1. [i \in DOMAIN p.shifts[g] |-> <<g, i>>] \in Surjection(DOMAIN p.shifts[g], Of(g))
      BY DEF Surjection
    <3> HIDE DEF Of
    <3>2. QED BY <2>4, <3>1, FS_Surjection
  <2>6. QED BY <2>1, <2>5
<1>3. IsFiniteSet(UNION All)
  <2> HIDE DEF All
  <2>1. QED BY <1>1, <1>2, FS_UNION
<1>4. QED BY <1>3 DEF SlotsIn, SlotsOf

\* Highest finds the highest of a set of keys.
LEMMA HighestIs ==
  ASSUME MaxRows \in Nat, NEW S \in SUBSET (1 .. MaxRows)
  PROVE  Highest(S) \in S \cup {0} /\ \A b \in S : b <= Highest(S)
<1> DEFINE Keys == 0 .. MaxRows
           Above(m) == {x \in Keys : m < x}
           Tails == {Above(m) : m \in S \cup {0}}
<1>1. IsFiniteSet(Keys)
  BY FS_Interval
<1>2. Tails \subseteq FiniteSubsetsOf(Keys) /\ Tails # {}
  <2>1. \A m \in S \cup {0} : Above(m) \subseteq Keys /\ IsFiniteSet(Above(m))
    BY <1>1, FS_Subset
  <2>2. QED BY <2>1 DEF FiniteSubsetsOf
<1>3. PICK T \in Tails : \A U \in Tails : ~(<<U, T>> \in StrictSubsetOrdering(Keys))
  <2> HIDE DEF Tails, Keys
  <2>1. IsWellFoundedOn(StrictSubsetOrdering(Keys), FiniteSubsetsOf(Keys))
    BY <1>1, FS_StrictSubsetOrderingWellFounded
  <2>2. QED BY <1>2, <2>1, WFMin
<1>4. PICK m \in S \cup {0} : T = Above(m)
  OBVIOUS
<1>5. ASSUME NEW b \in S
      PROVE  b <= m
  <2>1. b \in Keys /\ m \in Keys /\ b \in Int /\ m \in Int
    OBVIOUS
  <2>2. SUFFICES ASSUME m < b
                 PROVE  FALSE
    BY <2>1
  <2>3. Above(b) \subseteq Above(m) /\ b \in Above(m) /\ b \notin Above(b)
    BY <2>1, <2>2
  <2>4. <<Above(b), Above(m)>> \in StrictSubsetOrdering(Keys)
    BY <2>3 DEF StrictSubsetOrdering
  <2>5. QED BY <1>3, <1>4, <2>4
<1>6. \E a \in S \cup {0} : \A b \in S : b <= a
  BY <1>5
<1>7. QED BY <1>6 DEF Highest

-----------------------------------------------------------------------------
(* What a publication does.                                                *)

\* The mark of a slot as a set.
LEMMA MarkInIs ==
  ASSUME NEW p, NEW s
  PROVE  MarkIn(p, s) = IF s \in DOMAIN p.att THEN {p.att[s]} ELSE {}
BY DEF MarkIn

\* The rows left alone when the guards in G are published again, and where the status of a
\* slot's new row comes from.
Kept(G) == {a \in DOMAIN assignments : assignments[a].guard \notin G}
Source(s) ==
  IF MarkIn(planner, s) # {} THEN MarkIn(planner, s) ELSE Carried(s[1], At(planner, s))

\* Every slot of the guards in G gets one of the new rows, and with it what its source says.
NewRows(G, new, slot) ==
  /\ new \subseteq 1 .. MaxRows /\ new \cap Kept(G) = {}
  /\ slot \in [new -> SlotsIn(planner)]
  /\ \A a \in new : slot[a][1] \in G
  /\ \A s \in SlotsIn(planner) : s[1] \in G => \E a \in new : slot[a] = s
  /\ \A a, b \in new : slot[a] = slot[b] => a = b

NewAssignments(G, new, slot) ==
  /\ assignments' = [a \in DOMAIN assignments' |-> assignments'[a]]
  /\ DOMAIN assignments' = Kept(G) \cup new
  /\ \A a \in Kept(G) : assignments'[a] = assignments[a]
  /\ \A a \in new : assignments'[a] =
       [guard |-> slot[a][1], id |-> At(planner, slot[a]).id, start |-> At(planner, slot[a]).start]

NewAttendance(G, new, slot) ==
  /\ recorded' = [a \in DOMAIN recorded' |-> recorded'[a]]
  /\ DOMAIN recorded' \subseteq Kept(G) \cup new
  /\ \A a \in Kept(G) : /\ a \in DOMAIN recorded' <=> a \in DOMAIN recorded
                        /\ a \in DOMAIN recorded => recorded'[a] = recorded[a]
  /\ \A a \in new : IF a \in DOMAIN recorded' THEN recorded'[a] \in Source(slot[a])
                    ELSE Source(slot[a]) = {}

NewLogs(new, slot) ==
  /\ lateLogs' = [a \in DOMAIN lateLogs' |-> lateLogs'[a]]
  /\ \A a \in DOMAIN lateLogs' :
       \/ a \in DOMAIN lateLogs /\ lateLogs'[a] = lateLogs[a]
       \/ a \in new /\ IsLate(At(planner, slot[a])) /\ lateLogs'[a] = At(planner, slot[a]).sched

Remade(G, new, slot) ==
  NewRows(G, new, slot) /\ NewAssignments(G, new, slot) /\ NewAttendance(G, new, slot)
    /\ NewLogs(new, slot)

\* That is what publishing does, in whatever order it meets the shifts.
LEMMA Republished ==
  ASSUME Shapes, NEW G \in SUBSET Guards, Publish(G)
  PROVE  \E new, slot : Remade(G, new, slot)
<1> DEFINE S == {s \in SlotsIn(planner) : s[1] \in G}
           kept == DOMAIN assignments \ UNION {RowsOf(g) : g \in G}
           h == Highest(kept)
<1>1. PICK q \in Orders(G) : PublishIn(G, q)
  BY DEF Publish
<1> DEFINE new == {h + k : k \in DOMAIN q}
           slot == [a \in new |-> q[a - h]]
<1>2. kept = Kept(G)
  BY DEF Kept, RowsOf
<1>3. MaxRows \in Nat /\ kept \in SUBSET (1 .. MaxRows)
  BY DEF Shapes, BoundsShape, TablesShape
<1>4. h \in kept \cup {0} /\ \A b \in kept : b <= h
  BY <1>3, HighestIs
<1>5. h \in Nat
  BY <1>3, <1>4
<1>6. Cardinality(S) \in Nat
  <2>1. IsFiniteSet(SlotsIn(planner))
    BY SlotsFinite DEF Shapes, BoundsShape, PlanShape
  <2>2. IsFiniteSet(S)
    BY <2>1, FS_Subset
  <2>3. QED BY <2>2, FS_CardinalityType
<1>7. /\ q \in [1 .. Cardinality(S) -> S] /\ q \in Seq(S)
      /\ \A s \in S : \E k \in DOMAIN q : q[k] = s
      /\ \A k, l \in DOMAIN q : k < l => q[k] # q[l]
  <2>1. /\ q \in [1 .. Cardinality(S) -> S]
        /\ \A s \in S : \E k \in DOMAIN q : q[k] = s
        /\ \A k, l \in DOMAIN q : k < l => q[k] # q[l]
    BY DEF Orders
  <2>2. QED
    <3> HIDE DEF S
    <3>1. QED BY <1>6, <2>1, SeqDef
<1>8. Len(q) \in Nat /\ DOMAIN q = 1 .. Len(q)
  <2> HIDE DEF S
  <2>1. QED BY <1>7, LenProperties
<1>9. h + Len(q) <= MaxRows
  BY <1>1 DEF PublishIn
<1>10. \A a \in new : a \in Nat /\ a - h \in DOMAIN q /\ a <= MaxRows /\ a > h
  BY <1>3, <1>5, <1>8, <1>9
<1>11. \A a \in new : slot[a] = q[a - h] /\ slot[a] \in S
  BY <1>7, <1>10
<1>12. NewRows(G, new, slot)
  <2>1. new \subseteq 1 .. MaxRows /\ new \cap Kept(G) = {}
    <3>1. \A a \in new : a \in 1 .. MaxRows
      <4> HIDE DEF new, h
      <4>1. QED BY <1>3, <1>5, <1>10
    <3>2. \A a \in new : a \notin kept
      <4> HIDE DEF kept
      <4>1. QED BY <1>3, <1>4, <1>5, <1>10
    <3>3. QED BY <1>2, <3>1, <3>2
  <2>2. slot \in [new -> SlotsIn(planner)] /\ \A a \in new : slot[a][1] \in G
    BY <1>11
  <2>3. ASSUME NEW s \in SlotsIn(planner), s[1] \in G
        PROVE  \E a \in new : slot[a] = s
    <3>1. PICK k \in DOMAIN q : q[k] = s
      BY <1>7, <2>3
    <3>2. h + k \in new /\ (h + k) - h = k
      BY <1>5, <1>8, <3>1
    <3>3. QED BY <3>1, <3>2
  <2>4. ASSUME NEW a \in new, NEW b \in new, slot[a] = slot[b]
        PROVE  a = b
    <3>1. a - h \in DOMAIN q /\ b - h \in DOMAIN q /\ q[a - h] = q[b - h]
      BY <1>10, <2>4
    <3>2. ~(a - h < b - h) /\ ~(b - h < a - h)
      BY <1>7, <3>1
    <3>3. QED BY <1>5, <1>10, <3>2
  <2>5. QED BY <2>1, <2>2, <2>3, <2>4 DEF NewRows
<1>13. NewAssignments(G, new, slot)
  <2>1. assignments' = [a \in kept \cup new |->
          IF a \in kept THEN assignments[a]
          ELSE [guard |-> q[a - h][1], id |-> At(planner, q[a - h]).id,
                start |-> At(planner, q[a - h]).start]]
    BY <1>1 DEF PublishIn
  <2> HIDE DEF kept, new, h
  <2>2. \A a \in new : a \notin kept
    BY <1>2, <1>12 DEF NewRows
  <2>3. QED BY <1>2, <1>11, <2>1, <2>2 DEF NewAssignments
<1>14. NewAttendance(G, new, slot)
  <2> DEFINE marks(a) == IF MarkIn(planner, q[a - h]) # {} THEN MarkIn(planner, q[a - h])
                         ELSE Carried(q[a - h][1], At(planner, q[a - h]))
             dom == ((DOMAIN recorded) \cap kept) \cup {a \in new : marks(a) # {}}
  <2>1. recorded' = [a \in dom |->
          IF a \in kept THEN recorded[a] ELSE CHOOSE m \in marks(a) : TRUE]
    BY <1>1 DEF PublishIn
  <2>2. \A a \in new : marks(a) = Source(slot[a]) /\ a \notin kept
    BY <1>2, <1>11, <1>12 DEF Source, NewRows
  <2> HIDE DEF kept, new, h, marks
  <2>3. DOMAIN recorded' = dom /\ recorded' = [a \in DOMAIN recorded' |-> recorded'[a]]
    BY <2>1
  <2>4. ASSUME NEW a \in Kept(G)
        PROVE  /\ a \in DOMAIN recorded' <=> a \in DOMAIN recorded
               /\ a \in DOMAIN recorded => recorded'[a] = recorded[a]
    BY <1>2, <2>1, <2>2, <2>3
  <2>5. ASSUME NEW a \in new
        PROVE  IF a \in DOMAIN recorded' THEN recorded'[a] \in Source(slot[a])
               ELSE Source(slot[a]) = {}
    <3>1. CASE marks(a) # {}
      <4>1. a \in dom /\ recorded'[a] = CHOOSE m \in marks(a) : TRUE
        BY <2>1, <2>2, <3>1
      <4>2. recorded'[a] \in marks(a)
        BY <3>1, <4>1
      <4>3. QED BY <2>2, <2>3, <4>1, <4>2
    <3>2. CASE marks(a) = {}
      <4>1. a \notin dom
        BY <2>2, <3>2
      <4>2. QED BY <2>2, <2>3, <3>2, <4>1
    <3>3. QED BY <3>1, <3>2
  <2>6. DOMAIN recorded' \subseteq Kept(G) \cup new
    BY <1>2, <2>3
  <2>7. QED BY <2>3, <2>4, <2>5, <2>6 DEF NewAttendance
<1>15. NewLogs(new, slot)
  <2> DEFINE late == [a \in {a \in new : IsLate(At(planner, q[a - h]))} |-> At(planner, q[a - h]).sched]
  <2>1. lateLogs' = Over(late, lateLogs)
    BY <1>1 DEF PublishIn
  <2>2. \A a \in DOMAIN late : a \in new /\ IsLate(At(planner, slot[a]))
                               /\ late[a] = At(planner, slot[a]).sched
    BY <1>11
  <2> HIDE DEF late, new, slot
  <2>3. /\ lateLogs' = [a \in DOMAIN lateLogs' |-> lateLogs'[a]]
        /\ DOMAIN lateLogs' = (DOMAIN late) \cup (DOMAIN lateLogs)
        /\ \A x \in DOMAIN late : lateLogs'[x] = late[x]
        /\ \A x \in (DOMAIN lateLogs) \ (DOMAIN late) : lateLogs'[x] = lateLogs[x]
    BY <2>1 DEF Over
  <2>4. QED BY <2>2, <2>3 DEF NewLogs
<1> HIDE DEF new, slot
<1>16. QED BY <1>12, <1>13, <1>14, <1>15 DEF Remade

-----------------------------------------------------------------------------
(* Changing a plan.                                                        *)

\* A list without its i-th element: the later ones move one place down.
LEMMA Removed ==
  ASSUME NEW S, NEW s \in Seq(S), NEW i \in DOMAIN s
  PROVE  /\ RemoveAt(s, i) \in Seq(S)
         /\ Len(RemoveAt(s, i)) = Len(s) - 1
         /\ \A j \in 1 .. Len(s) - 1 : RemoveAt(s, i)[j] = IF j < i THEN s[j] ELSE s[j + 1]
<1> DEFINE before == SubSeq(s, 1, i - 1)
           after == SubSeq(s, i + 1, Len(s))
<1>1. /\ Len(s) \in Nat /\ i \in 1 .. Len(s)
      /\ \A j \in 1 .. Len(s) : s[j] \in S
  BY LenProperties, ElementOfSeq
<1>2. /\ before \in Seq(S) /\ Len(before) = i - 1
      /\ \A j \in 1 .. i - 1 : before[j] = s[j]
  <2>1. \A j \in 1 .. i - 1 : s[j] \in S
    BY <1>1
  <2>2. /\ before \in Seq(S) /\ Len(before) = IF 1 <= i - 1 THEN i - 1 - 1 + 1 ELSE 0
        /\ \A j \in 1 .. i - 1 - 1 + 1 : before[j] = s[1 + j - 1]
    <3> HIDE DEF before
    <3>1. 1 \in Int /\ i - 1 \in Int
      BY <1>1
    <3>2. QED
      BY <2>1, <3>1, SubSeqProperties DEF before
  <2> HIDE DEF before
  <2>3. QED
    BY <1>1, <2>2
<1>3. /\ after \in Seq(S) /\ Len(after) = Len(s) - i
      /\ \A j \in 1 .. Len(s) - i : after[j] = s[i + j]
  <2>1. \A j \in i + 1 .. Len(s) : s[j] \in S
    BY <1>1
  <2>2. /\ after \in Seq(S) /\ Len(after) = IF i + 1 <= Len(s) THEN Len(s) - (i + 1) + 1 ELSE 0
        /\ \A j \in 1 .. Len(s) - (i + 1) + 1 : after[j] = s[i + 1 + j - 1]
    <3> HIDE DEF after
    <3>1. i + 1 \in Int /\ Len(s) \in Int
      BY <1>1
    <3>2. QED
      BY <2>1, <3>1, SubSeqProperties DEF after
  <2> HIDE DEF after
  <2>3. QED
    BY <1>1, <2>2
<1>4. RemoveAt(s, i) = before \o after
  BY DEF RemoveAt
<1> HIDE DEF before, after
<1>5. /\ before \o after \in Seq(S)
      /\ Len(before \o after) = Len(before) + Len(after)
      /\ \A j \in 1 .. Len(before) + Len(after) :
           (before \o after)[j] = IF j <= Len(before) THEN before[j] ELSE after[j - Len(before)]
  BY <1>2, <1>3, ConcatProperties
<1>6. ASSUME NEW j \in 1 .. Len(s) - 1
      PROVE  (before \o after)[j] = IF j < i THEN s[j] ELSE s[j + 1]
  <2>1. CASE j < i
    <3>1. j \in 1 .. i - 1 /\ j \in 1 .. Len(before) + Len(after) /\ j <= Len(before)
      BY <1>1, <1>2, <1>3, <2>1
    <3>2. (before \o after)[j] = before[j]
      BY <1>5, <3>1
    <3>3. QED
      BY <1>2, <2>1, <3>1, <3>2
  <2>2. CASE j >= i
    <3>1. j - (i - 1) \in 1 .. Len(s) - i /\ i + (j - (i - 1)) = j + 1
      BY <1>1, <2>2
    <3>2. j \in 1 .. Len(before) + Len(after) /\ ~(j <= Len(before)) /\ Len(before) = i - 1
      BY <1>1, <1>2, <1>3, <2>2
    <3>3. (before \o after)[j] = after[j - (i - 1)]
      BY <1>5, <3>2
    <3>4. ~(j < i)
      BY <1>1, <2>2
    <3>5. QED
      BY <1>3, <3>1, <3>3, <3>4
  <2>3. j < i \/ j >= i
    BY <1>1
  <2>4. QED
    BY <2>1, <2>2, <2>3
<1>7. Len(before) + Len(after) = Len(s) - 1
  BY <1>1, <1>2, <1>3
<1>8. QED
  BY <1>4, <1>5, <1>6, <1>7

\* Plan q lists l for guard g, and for the others what p does.
Relisted(q, p, g, l) ==
  /\ q = [shifts |-> q.shifts, att |-> q.att]
  /\ q.shifts = [f \in Guards |-> IF f = g THEN l ELSE p.shifts[f]]

\* A plan with one guard's list changed.
LEMMA ListChanged ==
  ASSUME NEW S, NEW p, PlanOf(p, S), NEW g \in Guards, NEW l
  PROVE  LET q == [p EXCEPT !.shifts[g] = l] IN Relisted(q, p, g, l) /\ q.att = p.att
<1> DEFINE q == [p EXCEPT !.shifts[g] = l]
<1>1. p = [shifts |-> p.shifts, att |-> p.att] /\ p.shifts \in [Guards -> Seq(S)]
  BY DEF PlanOf
<1>2. q = [p EXCEPT !.shifts = [p.shifts EXCEPT ![g] = l]]
  OBVIOUS
<1> HIDE DEF q
<1> DEFINE f == [p.shifts EXCEPT ![g] = l]
<1>3. f = [e \in Guards |-> IF e = g THEN l ELSE p.shifts[e]]
  BY <1>1
<1> HIDE DEF f
<1>4. q = [p EXCEPT !.shifts = f]
  BY <1>2 DEF f
<1>5. q = [shifts |-> f, att |-> p.att]
  BY <1>1, <1>4
<1>6. q.shifts = f /\ q.att = p.att /\ q = [shifts |-> q.shifts, att |-> q.att]
  BY <1>5
<1>7. QED BY <1>3, <1>6 DEF Relisted, q

\* Then its slots of other guards are those of p.
LEMMA RelistedIs ==
  ASSUME NEW S, NEW p, PlanOf(p, S), NEW g \in Guards, NEW l \in Seq(S), NEW q, Relisted(q, p, g, l)
  PROVE  /\ q.shifts \in [Guards -> Seq(S)]
         /\ DOMAIN q.att \subseteq SlotsIn(q) /\ q.att \in [DOMAIN q.att -> Statuses] => PlanOf(q, S)
         /\ \A s \in SlotsIn(q) : s = <<s[1], s[2]>> /\ s[1] \in Guards
         /\ \A s \in SlotsIn(p) : s = <<s[1], s[2]>> /\ s[1] \in Guards
         /\ \A s : s = <<s[1], s[2]>> /\ s[1] = g =>
              /\ s \in SlotsIn(q) <=> s[2] \in DOMAIN l
              /\ s \in SlotsIn(p) <=> s[2] \in DOMAIN p.shifts[g]
              /\ At(q, s) = l[s[2]] /\ At(p, s) = p.shifts[g][s[2]]
         /\ \A s : s = <<s[1], s[2]>> /\ s[1] \in Guards \ {g} =>
              (s \in SlotsIn(q) <=> s \in SlotsIn(p)) /\ At(q, s) = At(p, s)
<1>1. p.shifts \in [Guards -> Seq(S)]
  BY DEF PlanOf
<1>2. /\ q.shifts \in [Guards -> Seq(S)] /\ q.shifts[g] = l
      /\ \A f \in Guards \ {g} : q.shifts[f] = p.shifts[f]
  BY <1>1 DEF Relisted
<1>3. \A s \in SlotsIn(q) : s = <<s[1], s[2]>> /\ s[1] \in Guards /\ s[2] \in DOMAIN q.shifts[s[1]]
  BY SlotIs
<1>4. \A s \in SlotsIn(p) : s = <<s[1], s[2]>> /\ s[1] \in Guards /\ s[2] \in DOMAIN p.shifts[s[1]]
  BY SlotIs
<1>5. \A f \in Guards : \A i \in DOMAIN q.shifts[f] : <<f, i>> \in SlotsIn(q)
  BY IsSlot
<1>6. \A f \in Guards : \A i \in DOMAIN p.shifts[f] : <<f, i>> \in SlotsIn(p)
  BY IsSlot
<1>7. ASSUME NEW s, s = <<s[1], s[2]>>, s[1] = g
      PROVE  /\ s \in SlotsIn(q) <=> s[2] \in DOMAIN l
             /\ s \in SlotsIn(p) <=> s[2] \in DOMAIN p.shifts[g]
             /\ At(q, s) = l[s[2]] /\ At(p, s) = p.shifts[g][s[2]]
  <2>1. s \in SlotsIn(q) <=> s[2] \in DOMAIN l
    BY <1>2, <1>3, <1>5, <1>7
  <2>2. s \in SlotsIn(p) <=> s[2] \in DOMAIN p.shifts[g]
    BY <1>4, <1>6, <1>7
  <2>3. QED BY <1>2, <1>7, <2>1, <2>2 DEF At
<1>8. ASSUME NEW s, s = <<s[1], s[2]>>, s[1] \in Guards \ {g}
      PROVE  (s \in SlotsIn(q) <=> s \in SlotsIn(p)) /\ At(q, s) = At(p, s)
  <2>1. s \in SlotsIn(q) <=> s[2] \in DOMAIN q.shifts[s[1]]
    BY <1>3, <1>5, <1>8
  <2>2. s \in SlotsIn(p) <=> s[2] \in DOMAIN p.shifts[s[1]]
    BY <1>4, <1>6, <1>8
  <2>3. q.shifts[s[1]] = p.shifts[s[1]]
    BY <1>2, <1>8
  <2>4. QED BY <2>1, <2>2, <2>3 DEF At
<1>9. DOMAIN q.att \subseteq SlotsIn(q) /\ q.att \in [DOMAIN q.att -> Statuses] => PlanOf(q, S)
  BY <1>2 DEF PlanOf, Relisted
<1>10. QED BY <1>2, <1>3, <1>4, <1>7, <1>8, <1>9

\* One shift replaced.
Swapped(l, old, i, x) == l = [old EXCEPT ![i] = x]
OneChanged(q, p, s, x) ==
  /\ SlotsIn(q) = SlotsIn(p) /\ s \in SlotsIn(p)
  /\ \A r \in SlotsIn(p) : At(q, r) = IF r = s THEN x ELSE At(p, r)

\* A list with one shift in the place of another.
LEMMA Replaced ==
  ASSUME NEW S, NEW p, PlanOf(p, S), NEW g \in Guards, NEW i \in DOMAIN p.shifts[g], NEW x \in S,
         NEW l, Swapped(l, p.shifts[g], i, x), NEW q, Relisted(q, p, g, l), q.att = p.att
  PROVE  PlanOf(q, S) /\ OneChanged(q, p, <<g, i>>, x)
<1> DEFINE old == p.shifts[g]
<1>1. old \in Seq(S)
  BY DEF PlanOf
<1>2. l \in Seq(S) /\ DOMAIN l = DOMAIN old /\ \A j \in DOMAIN old : l[j] = IF j = i THEN x ELSE old[j]
  <2>1. i \in DOMAIN old /\ l = [old EXCEPT ![i] = x]
    BY DEF Swapped
  <2> HIDE DEF old
  <2>2. l \in Seq(S)
    BY <1>1, <2>1, ExceptSeq
  <2>3. QED BY <1>1, <2>1, <2>2
<1>3. Relisted(q, p, g, l)
  OBVIOUS
<1>4. /\ DOMAIN q.att \subseteq SlotsIn(q) /\ q.att \in [DOMAIN q.att -> Statuses] => PlanOf(q, S)
      /\ \A s \in SlotsIn(q) : s = <<s[1], s[2]>> /\ s[1] \in Guards
      /\ \A s \in SlotsIn(p) : s = <<s[1], s[2]>> /\ s[1] \in Guards
      /\ \A s : s = <<s[1], s[2]>> /\ s[1] = g =>
           /\ s \in SlotsIn(q) <=> s[2] \in DOMAIN l
           /\ s \in SlotsIn(p) <=> s[2] \in DOMAIN old
           /\ At(q, s) = l[s[2]] /\ At(p, s) = old[s[2]]
      /\ \A s : s = <<s[1], s[2]>> /\ s[1] \in Guards \ {g} =>
           (s \in SlotsIn(q) <=> s \in SlotsIn(p)) /\ At(q, s) = At(p, s)
  BY <1>2, <1>3, RelistedIs
<1> HIDE DEF old
<1>5. SlotsIn(q) = SlotsIn(p)
  BY <1>2, <1>4
<1>6. ASSUME NEW s \in SlotsIn(p)
      PROVE  At(q, s) = IF s = <<g, i>> THEN x ELSE At(p, s)
  <2>1. s = <<s[1], s[2]>> /\ s[1] \in Guards
    BY <1>4
  <2>2. CASE s[1] = g
    <3>1. s[2] \in DOMAIN old /\ At(q, s) = l[s[2]] /\ At(p, s) = old[s[2]]
      BY <1>4, <2>1, <2>2
    <3>2. s = <<g, i>> <=> s[2] = i
      BY <2>1, <2>2
    <3>3. QED BY <1>2, <3>1, <3>2
  <2>3. CASE s[1] # g
    <3>1. At(q, s) = At(p, s) /\ s # <<g, i>>
      BY <1>4, <2>1, <2>3
    <3>2. QED BY <3>1
  <2>4. QED BY <2>2, <2>3
<1>7. PlanOf(q, S)
  BY <1>4, <1>5 DEF PlanOf
<1>8. <<g, i>> \in SlotsIn(p)
  BY IsSlot
<1>9. QED BY <1>5, <1>6, <1>7, <1>8 DEF OneChanged

\* One shift added at the end of the list.
Longer(l, old, x) == l = Append(old, x)

OneMore(q, p, g, x) ==
  \E s : /\ s[1] = g /\ s \notin SlotsIn(p)
         /\ SlotsIn(q) = SlotsIn(p) \cup {s}
         /\ At(q, s) = x
         /\ \A r \in SlotsIn(p) : At(q, r) = At(p, r)

\* A list with one shift more.
LEMMA Added ==
  ASSUME NEW S, NEW p, PlanOf(p, S), NEW g \in Guards, NEW x \in S,
         NEW l, Longer(l, p.shifts[g], x), NEW q, Relisted(q, p, g, l), q.att = p.att
  PROVE  PlanOf(q, S) /\ OneMore(q, p, g, x)
<1> DEFINE old == p.shifts[g]
           n == Len(old) + 1
<1>1. old \in Seq(S)
  BY DEF PlanOf
<1>2. /\ l \in Seq(S) /\ DOMAIN l = DOMAIN old \cup {n} /\ n \notin DOMAIN old
      /\ l[n] = x /\ \A j \in DOMAIN old : l[j] = old[j]
  <2>0. l = Append(old, x)
    BY DEF Longer
  <2> HIDE DEF old
  <2>1. Len(old) \in Nat /\ DOMAIN old = 1 .. Len(old)
    BY <1>1, LenProperties
  <2>2. /\ l \in Seq(S) /\ Len(l) = Len(old) + 1 /\ l[n] = x
        /\ \A j \in 1 .. Len(old) : l[j] = old[j]
    BY <1>1, <2>0, AppendProperties
  <2>3. DOMAIN l = 1 .. n
    BY <2>2, LenProperties
  <2>4. QED BY <2>1, <2>2, <2>3
<1>3. Relisted(q, p, g, l)
  OBVIOUS
<1> HIDE DEF n
<1>4. /\ DOMAIN q.att \subseteq SlotsIn(q) /\ q.att \in [DOMAIN q.att -> Statuses] => PlanOf(q, S)
      /\ \A s \in SlotsIn(q) : s = <<s[1], s[2]>> /\ s[1] \in Guards
      /\ \A s \in SlotsIn(p) : s = <<s[1], s[2]>> /\ s[1] \in Guards
      /\ \A s : s = <<s[1], s[2]>> /\ s[1] = g =>
           /\ s \in SlotsIn(q) <=> s[2] \in DOMAIN l
           /\ s \in SlotsIn(p) <=> s[2] \in DOMAIN old
           /\ At(q, s) = l[s[2]] /\ At(p, s) = old[s[2]]
      /\ \A s : s = <<s[1], s[2]>> /\ s[1] \in Guards \ {g} =>
           (s \in SlotsIn(q) <=> s \in SlotsIn(p)) /\ At(q, s) = At(p, s)
  BY <1>2, <1>3, RelistedIs
<1> HIDE DEF old
<1> DEFINE new == <<g, n>>
<1>5. new = <<new[1], new[2]>> /\ new[1] = g /\ new[2] = n
  OBVIOUS
<1>6. \A s : s = <<s[1], s[2]>> /\ s[1] = g /\ s[2] = n => s = new
  OBVIOUS
<1> HIDE DEF new
<1>7. new \notin SlotsIn(p) /\ new \in SlotsIn(q) /\ At(q, new) = x
  BY <1>2, <1>4, <1>5
<1>8. SlotsIn(q) = SlotsIn(p) \cup {new}
  <2>1. ASSUME NEW s \in SlotsIn(q)
        PROVE  s \in SlotsIn(p) \cup {new}
    BY <1>2, <1>4, <1>6
  <2>2. ASSUME NEW s \in SlotsIn(p)
        PROVE  s \in SlotsIn(q)
    BY <1>2, <1>4
  <2>3. QED BY <1>7, <2>1, <2>2
<1>9. \A s \in SlotsIn(p) : At(q, s) = At(p, s)
  BY <1>2, <1>4
<1>10. PlanOf(q, S)
  BY <1>3, <1>4, <1>8 DEF PlanOf
<1>11. QED BY <1>5, <1>7, <1>8, <1>9, <1>10 DEF OneMore

\* One shift removed: each of the others was in the slot that the code takes its mark from.
From(g, i, s) == IF s[1] = g /\ s[2] >= i THEN <<g, s[2] + 1>> ELSE s
Renumbered(q, p, g, i) ==
  q.att = [s \in {s \in SlotsIn(q) : From(g, i, s) \in DOMAIN p.att} |-> p.att[From(g, i, s)]]

\* A list with one shift less, the later marks moved down.
LEMMA Dropped ==
  ASSUME NEW S, NEW p, PlanOf(p, S), NEW g \in Guards, NEW i \in DOMAIN p.shifts[g],
         NEW q, Relisted(q, p, g, RemoveAt(p.shifts[g], i)), Renumbered(q, p, g, i)
  PROVE  /\ PlanOf(q, S)
         /\ \A s \in SlotsIn(q) : /\ From(g, i, s) \in SlotsIn(p)
                                  /\ At(q, s) = At(p, From(g, i, s))
                                  /\ Shown(q, s) = Shown(p, From(g, i, s))
         /\ \A s, t \in SlotsIn(q) : From(g, i, s) = From(g, i, t) => s = t
<1> DEFINE old == p.shifts[g]
           l == RemoveAt(old, i)
<1>1. old \in Seq(S) /\ Len(old) \in Nat /\ DOMAIN old = 1 .. Len(old) /\ i \in 1 .. Len(old)
  <2>1. old \in Seq(S)
    BY DEF PlanOf
  <2>2. QED BY <2>1, LenProperties
<1>2. /\ l \in Seq(S) /\ DOMAIN l = 1 .. Len(old) - 1
      /\ \A j \in 1 .. Len(old) - 1 : l[j] = IF j < i THEN old[j] ELSE old[j + 1]
  <2>1. \A r \in Seq(S) : \A k \in DOMAIN r :
          /\ RemoveAt(r, k) \in Seq(S) /\ Len(RemoveAt(r, k)) = Len(r) - 1
          /\ \A j \in 1 .. Len(r) - 1 : RemoveAt(r, k)[j] = IF j < k THEN r[j] ELSE r[j + 1]
    BY Removed
  <2>2. /\ l \in Seq(S) /\ Len(l) = Len(old) - 1
        /\ \A j \in 1 .. Len(old) - 1 : l[j] = IF j < i THEN old[j] ELSE old[j + 1]
    BY <1>1, <2>1
  <2> HIDE DEF l
  <2>3. QED BY <1>1, <2>2, LenProperties
<1>3. Relisted(q, p, g, l)
  OBVIOUS
<1> HIDE DEF l
<1>4. /\ DOMAIN q.att \subseteq SlotsIn(q) /\ q.att \in [DOMAIN q.att -> Statuses] => PlanOf(q, S)
      /\ \A s \in SlotsIn(q) : s = <<s[1], s[2]>> /\ s[1] \in Guards
      /\ \A s : s = <<s[1], s[2]>> /\ s[1] = g =>
           /\ s \in SlotsIn(q) <=> s[2] \in DOMAIN l
           /\ s \in SlotsIn(p) <=> s[2] \in DOMAIN old
           /\ At(q, s) = l[s[2]] /\ At(p, s) = old[s[2]]
      /\ \A s : s = <<s[1], s[2]>> /\ s[1] \in Guards \ {g} =>
           (s \in SlotsIn(q) <=> s \in SlotsIn(p)) /\ At(q, s) = At(p, s)
  BY <1>2, <1>3, RelistedIs
<1> HIDE DEF old
<1>5. ASSUME NEW s \in SlotsIn(q)
      PROVE  /\ From(g, i, s) \in SlotsIn(p) /\ At(q, s) = At(p, From(g, i, s))
             /\ s = <<s[1], s[2]>> /\ From(g, i, s)[1] = s[1]
             /\ s[1] = g => s[2] \in Int /\ From(g, i, s)[2] = IF s[2] >= i THEN s[2] + 1 ELSE s[2]
  <2>1. s = <<s[1], s[2]>> /\ s[1] \in Guards
    BY <1>4
  <2>2. CASE s[1] = g
    <3>1. s[2] \in 1 .. Len(old) - 1 /\ At(q, s) = l[s[2]]
      BY <1>2, <1>4, <2>1, <2>2
    <3>2. CASE s[2] >= i
      <4> DEFINE f == <<g, s[2] + 1>>
      <4>1. /\ From(g, i, s) = f /\ s[2] + 1 \in DOMAIN old /\ ~(s[2] < i)
            /\ f = <<f[1], f[2]>> /\ f[1] = g /\ f[2] = s[2] + 1
        BY <1>1, <2>2, <3>1, <3>2 DEF From
      <4> HIDE DEF f
      <4>2. f \in SlotsIn(p) /\ At(p, f) = old[s[2] + 1]
        BY <1>4, <4>1
      <4>3. At(q, s) = old[s[2] + 1]
        BY <1>2, <3>1, <4>1
      <4>4. QED BY <2>1, <2>2, <3>1, <3>2, <4>1, <4>2, <4>3
    <3>3. CASE s[2] < i
      <4>1. From(g, i, s) = s /\ s[2] \in DOMAIN old /\ ~(s[2] >= i)
        BY <1>1, <2>2, <3>1, <3>3 DEF From
      <4>2. s \in SlotsIn(p) /\ At(p, s) = old[s[2]]
        BY <1>4, <2>1, <2>2, <4>1
      <4>3. At(q, s) = old[s[2]]
        BY <1>2, <3>1, <3>3
      <4>4. QED BY <2>1, <2>2, <3>1, <3>3, <4>1, <4>2, <4>3
    <3>4. QED BY <1>1, <3>1, <3>2, <3>3
  <2>3. CASE s[1] # g
    <3>1. From(g, i, s) = s
      BY <2>3 DEF From
    <3>2. s \in SlotsIn(p) /\ At(q, s) = At(p, s)
      BY <1>4, <2>1, <2>3
    <3>3. QED BY <2>1, <2>3, <3>1, <3>2
  <2>4. QED BY <2>2, <2>3
<1>6. ASSUME NEW s \in SlotsIn(q), NEW t \in SlotsIn(q), From(g, i, s) = From(g, i, t)
      PROVE  s = t
  <2>1. s = <<s[1], s[2]>> /\ t = <<t[1], t[2]>> /\ s[1] = t[1]
    BY <1>5, <1>6
  <2>2. CASE s[1] = g
    <3>1. s[2] = t[2]
      BY <1>1, <1>5, <1>6, <2>1, <2>2
    <3>2. QED BY <2>1, <3>1
  <2>3. CASE s[1] # g
    BY <1>6, <2>1, <2>3 DEF From
  <2>4. QED BY <2>2, <2>3
<1>7. q.att \in [DOMAIN q.att -> Statuses] /\ DOMAIN q.att \subseteq SlotsIn(q)
  BY DEF PlanOf, Renumbered
<1>8. \A s \in SlotsIn(q) : Shown(q, s) = Shown(p, From(g, i, s))
  BY DEF Shown, Renumbered
<1>9. QED BY <1>4, <1>5, <1>6, <1>7, <1>8

\* Other marks.
LEMMA Remarked ==
  ASSUME NEW S, NEW p, PlanOf(p, S), NEW q, q.shifts = p.shifts,
         q = [shifts |-> q.shifts, att |-> q.att],
         q.att \in [DOMAIN q.att -> Statuses], DOMAIN q.att \subseteq SlotsIn(p)
  PROVE  PlanOf(q, S) /\ SlotsIn(q) = SlotsIn(p) /\ \A s : At(q, s) = At(p, s)
<1>1. SlotsIn(q) = SlotsIn(p) /\ \A s : At(q, s) = At(p, s)
  BY DEF SlotsIn, SlotsOf, At
<1>2. QED BY <1>1 DEF PlanOf

\* More shifts than before may be listed.
LEMMA PlanGrows ==
  ASSUME NEW S, NEW T, S \subseteq T, NEW p, PlanOf(p, S)
  PROVE  PlanOf(p, T)
<1>1. Seq(S) \subseteq Seq(T)
  BY SeqMonotonic
<1>2. QED BY <1>1 DEF PlanOf

\* No shifts and no marks.
LEMMA NoPlanOf ==
  ASSUME NEW S
  PROVE  PlanOf(NoPlan, S) /\ SlotsIn(NoPlan) = {} /\ DOMAIN NoPlan.att = {}
<1>1. NoPlan.shifts \in [Guards -> Seq(S)] /\ \A g \in Guards : DOMAIN NoPlan.shifts[g] = {}
  BY EmptySeq DEF NoPlan
<1>2. SlotsIn(NoPlan) = {}
  BY <1>1 DEF SlotsIn, SlotsOf
<1>3. DOMAIN NoPlan.att = {} /\ NoPlan.att \in [DOMAIN NoPlan.att -> Statuses]
  BY DEF NoPlan
<1>4. NoPlan = [shifts |-> NoPlan.shifts, att |-> NoPlan.att]
  BY DEF NoPlan
<1>5. QED BY <1>1, <1>2, <1>3, <1>4 DEF PlanOf

-----------------------------------------------------------------------------
(* Requests and what stays as it is.                                       *)

\* The parts of Shapes that a step leaves alone.
LEMMA Unmoving ==
  ASSUME Shapes, UNCHANGED <<mode, made>>
  PROVE  /\ BoundsShape' /\ Shifts' = Shifts /\ Rows' = Rows /\ Times' = Times
         /\ UNCHANGED screen => ScreenShape'
         /\ UNCHANGED planner => PlanShape(planner)'
         /\ UNCHANGED tables => TablesShape'
         /\ UNCHANGED <<accepted, behind>> => GhostsShape'
         /\ UNCHANGED <<dirty, torn>> => FlagsShape'
         /\ UNCHANGED <<job, screen>> => JobShape'
<1>1. BoundsShape' /\ Shifts' = Shifts /\ Rows' = Rows /\ Times' = Times
  BY DEF Shapes, BoundsShape, Sensible, Shifts, Rows, Times, IsLate
<1>2. UNCHANGED screen => ScreenShape'
  BY <1>1 DEF Shapes, ScreenShape, PlanShape
<1>3. UNCHANGED planner => PlanShape(planner)'
  BY <1>1 DEF Shapes, PlanShape
<1>4. UNCHANGED tables => TablesShape'
  BY <1>1 DEF Shapes, TablesShape, tables
<1>5. UNCHANGED <<accepted, behind>> => GhostsShape'
  BY DEF Shapes, GhostsShape
<1>6. UNCHANGED <<dirty, torn>> => FlagsShape'
  BY DEF Shapes, FlagsShape
<1>7. UNCHANGED <<job, screen>> => JobShape'
  BY DEF Shapes, JobShape
<1>8. QED BY <1>1, <1>2, <1>3, <1>4, <1>5, <1>6, <1>7

\* No request.
LEMMA JobNone ==
  ASSUME NEW p, NEW late
  PROVE  JobOf(NoJob, p, late) /\ NoJob.todo = <<>> /\ DOMAIN NoJob.todo = {}
BY EmptySeq DEF JobOf, NoJob

\* A request that is under way has a step to take.
LEMMA StepIs ==
  ASSUME JobShape, Step # "none"
  PROVE  /\ job # NoJob /\ job.todo # <<>> /\ job.todo \in Seq(Stages)
         /\ 1 \in DOMAIN job.todo /\ job.todo[1] = Step
<1>1. job.todo # <<>> /\ Step = Head(job.todo) /\ job.todo \in Seq(Stages)
  BY DEF Step, JobShape, JobOf
<1>2. Len(job.todo) \in Nat /\ DOMAIN job.todo = 1 .. Len(job.todo) /\ Len(job.todo) # 0
  BY <1>1, LenProperties, EmptySeq
<1>3. job # NoJob
  BY <1>1, JobNone
<1>4. 1 \in DOMAIN job.todo
  BY <1>2
<1>5. Head(job.todo) = job.todo[1]
  BY <1>1
<1>6. QED BY <1>1, <1>3, <1>4, <1>5

\* What is left to do after one step was to be done before it.
LEMMA JobGoesOn ==
  ASSUME NEW p, NEW late, JobOf(job, p, late), job.todo # <<>>, Then(Tail(job.todo))
  PROVE  /\ JobOf(job', p, late)
         /\ \A k \in DOMAIN job'.todo : \E l \in DOMAIN job.todo : job'.todo[k] = job.todo[l]
<1> DEFINE rest == Tail(job.todo)
<1>1. /\ rest \in Seq(Stages)
      /\ \A k \in DOMAIN rest : k + 1 \in DOMAIN job.todo /\ rest[k] = job.todo[k + 1]
  <2>1. job.todo \in Seq(Stages)
    BY DEF JobOf
  <2>2. /\ rest \in Seq(Stages) /\ Len(rest) = Len(job.todo) - 1
        /\ \A k \in 1 .. Len(rest) : rest[k] = job.todo[k + 1]
    <3> HIDE DEF rest
    <3>1. QED BY <2>1, HeadTailProperties DEF rest
  <2> HIDE DEF rest
  <2>3. Len(job.todo) \in Nat /\ DOMAIN job.todo = 1 .. Len(job.todo) /\ DOMAIN rest = 1 .. Len(rest)
    BY <2>1, <2>2, LenProperties
  <2>4. QED BY <2>2, <2>3
<1>2. CASE rest = <<>>
  BY <1>2, JobNone DEF Then
<1>3. CASE rest # <<>>
  <2>1. job' = [job EXCEPT !.todo = rest]
    BY <1>3 DEF Then
  <2> HIDE DEF rest
  <2>2. /\ job'.todo = rest /\ job'.structural = job.structural /\ job'.guards = job.guards
        /\ job'.slot = job.slot /\ job'.status = job.status
        /\ job' = [todo |-> job'.todo, structural |-> job'.structural, guards |-> job'.guards,
                   slot |-> job'.slot, status |-> job'.status]
    BY <2>1 DEF JobOf
  <2>3. QED BY <1>1, <2>2 DEF JobOf
<1>4. QED BY <1>2, <1>3

-----------------------------------------------------------------------------
(* What edits do to the plan on screen.                                    *)

\* The plan on screen changes, and nothing else on it.
LEMMA ScreenPlan ==
  ASSUME ScreenShape, NEW q, screen' = [screen EXCEPT !.plan = q]
  PROVE  /\ screen'.plan = q /\ screen'.published = screen.published
         /\ PlanOf(q, Shifts') => ScreenShape'
BY DEF ScreenShape, PlanShape

\* A shift is added, not yet late and not yet marked, at a time that was free.
LEMMA AddShiftDoes ==
  ASSUME Shapes, NEW g \in Guards, NEW t, AddShift(g, t)
  PROVE  /\ made' = made + 1 /\ made' \in 0 .. mode.shifts
         /\ Shifts \subseteq Shifts' /\ Rows \subseteq Rows' /\ mode' = mode
         /\ t \in FreeTimes(g) /\ t \in Times
         /\ ScreenShape' /\ screen'.published = screen.published
         /\ screen'.plan.att = screen.plan.att
         /\ OneMore(screen'.plan, screen.plan, g, [id |-> made', start |-> t, sched |-> Unset])
<1> DEFINE p == screen.plan
           x == [id |-> made', start |-> t, sched |-> Unset]
           l == Append(p.shifts[g], x)
           q == [p EXCEPT !.shifts[g] = l]
<1>1. /\ made' = made + 1 /\ made < mode.shifts /\ mode' = mode /\ t \in FreeTimes(g)
      /\ screen' = [screen EXCEPT !.plan = q]
  BY DEF AddShift, ShowPlan, OnScreen
<1>2. t \in Times
  BY <1>1 DEF FreeTimes
<1>3. mode.shifts \in Nat /\ made \in 0 .. mode.shifts /\ mode.times \in Nat
  BY DEF Shapes, BoundsShape, Sensible, GhostsShape
<1>4. made' \in 0 .. mode.shifts /\ 1 .. made \subseteq 1 .. made' /\ made' \in 1 .. made'
  BY <1>1, <1>3
<1>5. Times' = Times
  BY <1>1 DEF Times
<1>6. Shifts \subseteq Shifts' /\ Rows \subseteq Rows'
  BY <1>4, <1>5 DEF Shifts, Rows, IsLate
<1>7. x \in Shifts'
  BY <1>2, <1>4, <1>5 DEF Shifts, IsLate
<1>8. PlanOf(p, Shifts')
  BY <1>6, PlanGrows DEF Shapes, ScreenShape, PlanShape
<1>9. PlanOf(q, Shifts') /\ q.att = p.att /\ OneMore(q, p, g, x)
  <2> HIDE DEF p, l
  <2>1. Relisted(q, p, g, l) /\ q.att = p.att
    BY <1>8, ListChanged
  <2> HIDE DEF q
  <2>2. Longer(l, p.shifts[g], x)
    BY DEF Longer, l
  <2> HIDE DEF x
  <2>3. QED BY <1>7, <1>8, <2>1, <2>2, Added
<1> HIDE DEF p, q, x, l
<1>10. screen'.plan = q /\ screen'.published = screen.published /\ ScreenShape'
  BY <1>1, <1>9, ScreenPlan DEF Shapes
<1>11. QED BY <1>1, <1>2, <1>4, <1>6, <1>9, <1>10 DEF p, x

\* A shift is taken off, and each of the others keeps its mark.
LEMMA RemoveShiftDoes ==
  ASSUME Shapes, NEW g \in Guards, NEW i, RemoveShift(g, i)
  PROVE  /\ i \in DOMAIN screen.plan.shifts[g] /\ ScreenShape'
         /\ screen'.published = screen.published
         /\ \A s \in SlotsIn(screen'.plan) :
              /\ From(g, i, s) \in SlotsIn(screen.plan)
              /\ At(screen'.plan, s) = At(screen.plan, From(g, i, s))
              /\ Shown(screen'.plan, s) = Shown(screen.plan, From(g, i, s))
         /\ \A s, t \in SlotsIn(screen'.plan) : From(g, i, s) = From(g, i, t) => s = t
<1> DEFINE p == screen.plan
           left == [p EXCEPT !.shifts[g] = RemoveAt(@, i)]
           att == [s \in {s \in SlotsIn(left) : From(g, i, s) \in DOMAIN p.att} |-> p.att[From(g, i, s)]]
           q == [left EXCEPT !.att = att]
<1>1. p = [shifts |-> p.shifts, att |-> p.att] /\ p.shifts \in [Guards -> Seq(Shifts)] /\ PlanOf(p, Shifts)
  BY DEF Shapes, ScreenShape, PlanShape, PlanOf
<1>2. i \in DOMAIN p.shifts[g] /\ screen' = [screen EXCEPT !.plan = q] /\ UNCHANGED <<mode, made>>
  BY <1>1 DEF RemoveShift, ShowPlan, OnScreen, ghosts, From
<1>3. Relisted(left, p, g, RemoveAt(p.shifts[g], i)) /\ left.att = p.att
  <2> HIDE DEF p
  <2>1. QED BY <1>1, ListChanged
<1> HIDE DEF left
<1>4. /\ q.shifts = left.shifts /\ q.att = att /\ q = [shifts |-> q.shifts, att |-> q.att]
  <2>1. left = [shifts |-> left.shifts, att |-> left.att]
    BY <1>3 DEF Relisted
  <2> HIDE DEF att
  <2>2. QED BY <2>1
<1> HIDE DEF q
<1>5. SlotsIn(left) = SlotsIn(q)
  BY <1>4, SameShifts
<1>6. Relisted(q, p, g, RemoveAt(p.shifts[g], i)) /\ Renumbered(q, p, g, i)
  BY <1>3, <1>4, <1>5 DEF Relisted, Renumbered
<1> HIDE DEF p, att
<1>7. /\ PlanOf(q, Shifts)
      /\ \A s \in SlotsIn(q) : /\ From(g, i, s) \in SlotsIn(p)
                               /\ At(q, s) = At(p, From(g, i, s))
                               /\ Shown(q, s) = Shown(p, From(g, i, s))
      /\ \A s, t \in SlotsIn(q) : From(g, i, s) = From(g, i, t) => s = t
  BY <1>1, <1>2, <1>6, Dropped
<1>8. Shifts' = Shifts
  BY <1>2, Unmoving
<1>9. screen'.plan = q /\ screen'.published = screen.published /\ ScreenShape'
  BY <1>2, <1>7, <1>8, ScreenPlan DEF Shapes
<1>10. QED BY <1>2, <1>7, <1>9 DEF p

\* The plan with one shift replaced.
LEMMA ShiftSet ==
  ASSUME NEW S, NEW p, PlanOf(p, S), NEW g \in Guards, NEW i \in DOMAIN p.shifts[g], NEW x \in S
  PROVE  LET q == [p EXCEPT !.shifts[g][i] = x] IN
         PlanOf(q, S) /\ OneChanged(q, p, <<g, i>>, x) /\ q.att = p.att
<1> DEFINE l == [p.shifts[g] EXCEPT ![i] = x]
           q == [p EXCEPT !.shifts[g] = l]
<1>1. q = [p EXCEPT !.shifts[g][i] = x] /\ Swapped(l, p.shifts[g], i, x)
  BY DEF Swapped
<1> HIDE DEF l
<1>2. Relisted(q, p, g, l) /\ q.att = p.att
  BY ListChanged
<1> HIDE DEF q
<1>3. PlanOf(q, S) /\ OneChanged(q, p, <<g, i>>, x)
  BY <1>1, <1>2, Replaced
<1>4. QED BY <1>1, <1>2, <1>3

\* A shift that is not late gets a time that was free.
LEMMA RetimeDoes ==
  ASSUME Shapes, NEW g \in Guards, NEW i, NEW t, Retime(g, i, t)
  PROVE  LET s == <<g, i>>
             x == [At(screen.plan, s) EXCEPT !.start = t] IN
         /\ t \in FreeTimes(g) /\ ScreenShape' /\ screen'.published = screen.published
         /\ OneChanged(screen'.plan, screen.plan, s, x)
         /\ screen'.plan.att = screen.plan.att
         /\ x.start = t /\ x.id = At(screen.plan, s).id /\ ~IsLate(x)
<1> DEFINE p == screen.plan
           sh == p.shifts[g][i]
           x == [sh EXCEPT !.start = t]
           q == [p EXCEPT !.shifts[g][i] = x]
<1>1. PlanOf(p, Shifts)
  BY DEF Shapes, ScreenShape, PlanShape
<1>2. /\ i \in DOMAIN p.shifts[g] /\ t \in FreeTimes(g) /\ ~IsLate(sh)
      /\ screen' = [screen EXCEPT !.plan = q] /\ UNCHANGED <<mode, made>>
  BY DEF Retime, ShowPlan, OnScreen, ghosts
<1>3. sh = At(p, <<g, i>>) /\ <<g, i>> \in SlotsIn(p)
  BY <1>2, IsSlot DEF At
<1> HIDE DEF p, q
<1>4. sh \in Shifts
  <2> HIDE DEF sh
  <2>1. QED BY <1>1, <1>3, SlotHolds
<1>5. t \in Times
  BY <1>2 DEF FreeTimes
<1>6. x \in Shifts /\ x.start = t /\ x.id = sh.id /\ ~IsLate(x)
  <2> HIDE DEF sh
  <2>1. /\ sh = [id |-> sh.id, start |-> sh.start, sched |-> sh.sched]
        /\ sh.id \in 1 .. made /\ sh.start \in Times /\ sh.sched \in Times \cup {Unset}
    BY <1>4, ShiftHas
  <2>2. x = [id |-> sh.id, start |-> t, sched |-> sh.sched]
    BY <2>1
  <2> HIDE DEF x
  <2>3. QED BY <1>2, <1>5, <2>1, <2>2 DEF Shifts, IsLate
<1>7. PlanOf(q, Shifts) /\ OneChanged(q, p, <<g, i>>, x) /\ q.att = p.att
  <2> HIDE DEF x
  <2>1. QED BY <1>1, <1>2, <1>6, ShiftSet DEF q
<1>8. Shifts' = Shifts
  BY <1>2, Unmoving
<1>9. screen'.plan = q /\ screen'.published = screen.published /\ ScreenShape'
  BY <1>2, <1>7, <1>8, ScreenPlan DEF Shapes
<1>10. QED BY <1>2, <1>3, <1>6, <1>7, <1>9 DEF p

\* A mark leaves a shift that is late or not late again, at times there are.
LEMMA TimedIs ==
  ASSUME Shapes, NEW g \in Guards, NEW i, NEW st \in Statuses, NEW late \in BOOLEAN,
         MayMark(g, i, st, late)
  PROVE  LET sh == At(screen.plan, <<g, i>>)
             x == Timed(sh, st, late) IN
         /\ i \in DOMAIN screen.plan.shifts[g] /\ sh = screen.plan.shifts[g][i]
         /\ sh \in Shifts /\ x \in Shifts /\ x.id = sh.id
         /\ late => mode.late /\ IsLate(x)
         /\ ~late /\ ~IsLate(sh) => x = sh
<1> DEFINE p == screen.plan
           sh == p.shifts[g][i]
           x == Timed(sh, st, late)
<1>1. i \in DOMAIN p.shifts[g] /\ PlanOf(p, Shifts) /\ sh = At(p, <<g, i>>)
  BY DEF Shapes, ScreenShape, PlanShape, MayMark, At
<1>2. late => mode.late /\ (IsLate(sh) \/ sh.start + 1 \in Times)
  BY DEF MayMark, FreeTimes
<1>3. sh \in Shifts
  <2>1. <<g, i>> \in SlotsIn(p)
    BY <1>1, IsSlot
  <2>2. QED BY <1>1, <2>1, SlotHolds
<1> HIDE DEF p, sh
<1>4. /\ sh = [id |-> sh.id, start |-> sh.start, sched |-> sh.sched]
      /\ sh.id \in 1 .. made /\ sh.start \in Times /\ sh.sched \in Times \cup {Unset}
      /\ IsLate(sh) => sh.sched + 1 \in Times
      /\ ScheduledStart(sh) \in Times
  BY <1>3, ShiftHas
<1>5. Unset \notin Times
  <2>1. mode.times \in Nat
    BY DEF Shapes, BoundsShape, Sensible
  <2>2. QED BY <2>1 DEF Times, Unset
<1>6. CASE late
  <2> DEFINE sch == ScheduledStart(sh)
  <2>1. x = [id |-> sh.id, start |-> sch + 1, sched |-> sch]
    BY <1>4, <1>6 DEF Timed
  <2>2. sch + 1 \in Times /\ sch \in Times
    BY <1>2, <1>4, <1>6 DEF ScheduledStart, IsLate
  <2> HIDE DEF x, sch
  <2>3. x \in Shifts /\ x.id = sh.id /\ IsLate(x)
    BY <1>4, <1>5, <2>1, <2>2 DEF Shifts, IsLate
  <2>4. QED BY <1>1, <1>2, <1>3, <1>6, <2>3 DEF p, sh, x
<1>7. CASE ~late /\ st # "late"
  <2> DEFINE sch == ScheduledStart(sh)
  <2>1. x = [id |-> sh.id, start |-> sch, sched |-> Unset]
    BY <1>4, <1>7 DEF Timed
  <2>2. sch \in Times /\ (~IsLate(sh) => sch = sh.start /\ sh.sched = Unset)
    BY <1>4 DEF ScheduledStart, IsLate
  <2> HIDE DEF x, sch
  <2>3. x \in Shifts /\ x.id = sh.id
    BY <1>4, <2>1, <2>2 DEF Shifts, IsLate
  <2>4. ~IsLate(sh) => x = sh
    BY <1>4, <2>1, <2>2
  <2>5. QED BY <1>1, <1>3, <1>7, <2>3, <2>4 DEF p, sh, x
<1>8. CASE ~late /\ st = "late"
  <2>1. x = sh
    BY <1>8 DEF Timed
  <2>2. QED BY <1>1, <1>3, <1>8, <2>1 DEF p, sh, x
<1>9. QED BY <1>6, <1>7, <1>8

\* The plan on screen with one more mark.
LEMMA MarkDoes ==
  ASSUME NEW S, PlanOf(screen.plan, S), NEW s \in SlotsIn(screen.plan), NEW st \in Statuses
  PROVE  LET m == Mark(s, st) IN
         /\ PlanOf(m, S) /\ m.shifts = screen.plan.shifts
         /\ SlotsIn(m) = SlotsIn(screen.plan) /\ \A r : At(m, r) = At(screen.plan, r)
         /\ \A r : Shown(m, r) = IF r = s THEN st ELSE Shown(screen.plan, r)
<1> DEFINE p == screen.plan
           m == Mark(s, st)
           att == Over([x \in {s} |-> st], p.att)
<1>1. /\ p = [shifts |-> p.shifts, att |-> p.att]
      /\ p.att \in [DOMAIN p.att -> Statuses] /\ DOMAIN p.att \subseteq SlotsIn(p)
      /\ s \in SlotsIn(p)
  BY DEF PlanOf
<1>2. m = [p EXCEPT !.att = att]
  BY DEF Mark
<1>3. /\ att \in [DOMAIN att -> Statuses] /\ DOMAIN att \subseteq SlotsIn(p)
      /\ DOMAIN att = {s} \cup DOMAIN p.att /\ att[s] = st
      /\ \A r \in (DOMAIN p.att) \ {s} : att[r] = p.att[r]
  <2> HIDE DEF p
  <2>1. att = [x \in {s} \cup DOMAIN p.att |-> IF x \in {s} THEN st ELSE p.att[x]]
    BY DEF Over
  <2> HIDE DEF att
  <2>2. DOMAIN att = {s} \cup DOMAIN p.att
    BY <2>1
  <2>3. att[s] = st /\ \A r \in (DOMAIN p.att) \ {s} : att[r] = p.att[r]
    BY <2>1
  <2>4. \A r \in DOMAIN att : att[r] \in Statuses
    BY <1>1, <2>2, <2>3
  <2>5. att = [r \in DOMAIN att |-> att[r]]
    BY <2>1
  <2>6. QED BY <1>1, <2>2, <2>3, <2>4, <2>5
<1> HIDE DEF m, att, p
<1>4. m = [shifts |-> p.shifts, att |-> att]
  BY <1>1, <1>2
<1>5. m.shifts = p.shifts /\ m.att = att /\ m = [shifts |-> m.shifts, att |-> m.att]
  BY <1>4
<1>6. PlanOf(m, S) /\ SlotsIn(m) = SlotsIn(p) /\ \A r : At(m, r) = At(p, r)
  BY <1>3, <1>5, Remarked DEF p
<1>7. \A r : Shown(m, r) = IF r = s THEN st ELSE Shown(p, r)
  BY <1>3, <1>5 DEF Shown
<1>8. QED BY <1>5, <1>6, <1>7 DEF p, m

\* A shift is marked, and its times follow the mark.
Marked(q, s, st, late) ==
  /\ OneChanged(q, screen.plan, s, Timed(At(screen.plan, s), st, late))
  /\ \A r : Shown(q, r) = IF r = s THEN st ELSE Shown(screen.plan, r)

\* One mark, and the times it gives its shift.
LEMMA MarkDraftDoes ==
  ASSUME Shapes, NEW g \in Guards, NEW i, NEW st \in Statuses, NEW late \in BOOLEAN,
         MarkDraft(g, i, st, late)
  PROVE  /\ ScreenShape' /\ screen'.published = screen.published
         /\ Marked(screen'.plan, <<g, i>>, st, late)
<1> DEFINE p == screen.plan
           s == <<g, i>>
           sh == At(p, s)
           x == Timed(sh, st, late)
           m == Mark(s, st)
           q == [m EXCEPT !.shifts[g][i] = x]
<1>1. PlanOf(p, Shifts)
  BY DEF Shapes, ScreenShape, PlanShape
<1>2. MayMark(g, i, st, late)
  BY DEF MarkDraft
<1>3. i \in DOMAIN p.shifts[g] /\ sh = p.shifts[g][i] /\ x \in Shifts
  BY <1>2, TimedIs
<1>4. s \in SlotsIn(p)
  BY <1>3, IsSlot
<1>5. /\ PlanOf(m, Shifts) /\ m.shifts = p.shifts /\ SlotsIn(m) = SlotsIn(p)
      /\ \A r : At(m, r) = At(p, r)
      /\ \A r : Shown(m, r) = IF r = s THEN st ELSE Shown(p, r)
  <2> HIDE DEF s
  <2>1. QED BY <1>1, <1>4, MarkDoes
<1>6. UNCHANGED <<mode, made>>
  BY DEF MarkDraft, OnScreen
<1>7. screen' = [screen EXCEPT !.plan = q]
  <2>1. screen' = [screen EXCEPT !.plan = [m EXCEPT !.shifts[g][i] = Timed(m.shifts[g][i], st, late)]]
    BY DEF MarkDraft, ShowPlan
  <2>2. Timed(m.shifts[g][i], st, late) = x
    <3> HIDE DEF m, x
    <3>1. m.shifts[g][i] = sh
      BY <1>3, <1>5
    <3>2. QED BY <3>1 DEF x
  <2>3. QED BY <2>1, <2>2
<1> HIDE DEF p, m, x
<1>8. PlanOf(q, Shifts) /\ OneChanged(q, m, s, x) /\ q.att = m.att
  BY <1>3, <1>5, ShiftSet
<1> HIDE DEF q, s
<1>9. OneChanged(q, p, s, x)
  BY <1>4, <1>5, <1>8 DEF OneChanged
<1>10. \A r : Shown(q, r) = IF r = s THEN st ELSE Shown(p, r)
  BY <1>5, <1>8 DEF Shown
<1>11. Shifts' = Shifts
  BY <1>6, Unmoving
<1>12. screen'.plan = q /\ screen'.published = screen.published /\ ScreenShape'
  BY <1>7, <1>8, <1>11, ScreenPlan DEF Shapes
<1>13. QED BY <1>9, <1>10, <1>12 DEF Marked, p, x, s

\* In a published guard, the times follow the mark that is asked for.
LEMMA MarkPublishedDoes ==
  ASSUME Shapes, NEW g \in Guards, NEW i, NEW st \in Statuses, NEW late \in BOOLEAN,
         MarkPublished(g, i, st, late)
  PROVE  LET s == <<g, i>>
             x == Timed(At(screen.plan, s), st, late) IN
         /\ ScreenShape' /\ screen'.published = screen.published
         /\ OneChanged(screen'.plan, screen.plan, s, x) /\ screen'.plan.att = screen.plan.att
         /\ planner' = screen'.plan
<1> DEFINE p == screen.plan
           s == <<g, i>>
           sh == At(p, s)
           x == Timed(sh, st, late)
           q == [p EXCEPT !.shifts[g][i] = x]
<1>1. PlanOf(p, Shifts)
  BY DEF Shapes, ScreenShape, PlanShape
<1>2. MayMark(g, i, st, late)
  BY DEF MarkPublished
<1>3. i \in DOMAIN p.shifts[g] /\ sh = p.shifts[g][i] /\ x \in Shifts
  BY <1>2, TimedIs
<1>4. UNCHANGED <<mode, made>> /\ planner' = screen'.plan
  BY DEF MarkPublished, Begin
<1>5. screen' = [screen EXCEPT !.plan = q]
  <2>1. screen' = [screen EXCEPT !.plan.shifts[g][i] = Timed(p.shifts[g][i], st, late)]
    BY DEF MarkPublished
  <2>2. Timed(p.shifts[g][i], st, late) = x
    BY <1>3
  <2> HIDE DEF x
  <2>3. QED BY <2>1, <2>2
<1> HIDE DEF p, x
<1>6. PlanOf(q, Shifts) /\ OneChanged(q, p, s, x) /\ q.att = p.att
  BY <1>1, <1>3, ShiftSet
<1> HIDE DEF q, s
<1>7. Shifts' = Shifts
  BY <1>4, Unmoving
<1>8. screen'.plan = q /\ screen'.published = screen.published /\ ScreenShape'
  BY <1>5, <1>6, <1>7, ScreenPlan DEF Shapes
<1>9. QED BY <1>4, <1>6, <1>8 DEF p, x, s

\* A mark is cleared.
LEMMA ClearMarkDoes ==
  ASSUME Shapes, NEW g \in Guards, NEW i, ClearMark(g, i)
  PROVE  /\ ScreenShape' /\ screen'.published = screen.published
         /\ screen'.plan.shifts = screen.plan.shifts
         /\ <<g, i>> \in SlotsIn(screen.plan) /\ screen.plan.shifts[g][i] = At(screen.plan, <<g, i>>)
         /\ \A r : Shown(screen'.plan, r) = IF r = <<g, i>> THEN "none" ELSE Shown(screen.plan, r)
<1> DEFINE p == screen.plan
           s == <<g, i>>
           att == Restrict(p.att, DOMAIN p.att \ {s})
           q == [p EXCEPT !.att = att]
<1>1. /\ PlanOf(p, Shifts) /\ p = [shifts |-> p.shifts, att |-> p.att]
      /\ p.att \in [DOMAIN p.att -> Statuses] /\ DOMAIN p.att \subseteq SlotsIn(p)
  BY DEF Shapes, ScreenShape, PlanShape, PlanOf
<1>2. s \in DOMAIN p.att /\ screen' = [screen EXCEPT !.plan = q] /\ UNCHANGED <<mode, made>>
  BY DEF ClearMark, ShowPlan, OnScreen
<1>3. /\ att \in [DOMAIN att -> Statuses] /\ DOMAIN att = DOMAIN p.att \ {s}
      /\ \A r \in DOMAIN att : att[r] = p.att[r]
  <2> HIDE DEF p, s
  <2>1. QED BY <1>1 DEF Restrict
<1> HIDE DEF p, att
<1>4. q.shifts = p.shifts /\ q.att = att /\ q = [shifts |-> q.shifts, att |-> q.att]
  BY <1>1
<1> HIDE DEF q, s
<1>5. PlanOf(q, Shifts)
  BY <1>1, <1>3, <1>4, Remarked
<1>6. \A r : Shown(q, r) = IF r = s THEN "none" ELSE Shown(p, r)
  BY <1>3, <1>4 DEF Shown
<1>7. Shifts' = Shifts
  BY <1>2, Unmoving
<1>8. screen'.plan = q /\ screen'.published = screen.published /\ ScreenShape'
  BY <1>2, <1>5, <1>7, ScreenPlan DEF Shapes
<1>9. s \in SlotsIn(p) /\ p.shifts[g][i] = At(p, s)
  BY <1>1, <1>2 DEF At, s
<1>10. QED BY <1>4, <1>6, <1>8, <1>9 DEF p, s

-----------------------------------------------------------------------------
(* What the server does to its copy of the plan and to the tables.         *)

\* A slot and the row it is matched with.
Matches(a, s) ==
  /\ a \in DOMAIN assignments /\ s \in SlotsIn(planner)
  /\ assignments[a].guard = s[1] /\ assignments[a].start = ScheduledStart(At(planner, s))

\* Healing changes marks only, to what is recorded on a row that matches.
LEMMA HealedDoes ==
  ASSUME Shapes
  PROVE  LET h == Healed(planner) IN
         /\ PlanShape(h) /\ h.shifts = planner.shifts
         /\ \A s : IF \E a \in DOMAIN recorded : Matches(a, s)
                     THEN \E a \in DOMAIN recorded : Matches(a, s) /\ Shown(h, s) = recorded[a]
                     ELSE Shown(h, s) = Shown(planner, s)
<1> DEFINE found == {m \in SlotMap(planner) : m[1] \in DOMAIN recorded}
           old == planner.att
           row(s) == CHOOSE a \in DOMAIN recorded : <<a, s>> \in found
           laid == [s \in {m[2] : m \in found} |-> recorded[row(s)]]
           att == Over(laid, old)
           h == [planner EXCEPT !.att = att]
<1>1. h = Healed(planner)
  BY DEF Healed
<1>2. /\ planner = [shifts |-> planner.shifts, att |-> old]
      /\ old \in [DOMAIN old -> Statuses] /\ DOMAIN old \subseteq SlotsIn(planner)
      /\ recorded \in [DOMAIN recorded -> Statuses] /\ PlanOf(planner, Shifts)
  BY DEF Shapes, PlanShape, PlanOf, TablesShape
<1>3. \A a, s : <<a, s>> \in found <=> a \in DOMAIN recorded /\ Matches(a, s)
  BY DEF SlotMap, Matches
<1>4. \A m \in found : m = <<m[1], m[2]>>
  BY DEF SlotMap
<1> HIDE DEF found
<1>5. \A s : s \in DOMAIN laid <=> \E a \in DOMAIN recorded : Matches(a, s)
  <2>1. ASSUME NEW s \in DOMAIN laid
        PROVE  \E a \in DOMAIN recorded : Matches(a, s)
    <3>1. PICK m \in found : s = m[2]
      OBVIOUS
    <3>2. <<m[1], s>> \in found
      BY <1>4, <3>1
    <3>3. QED BY <1>3, <3>2
  <2>2. ASSUME NEW s, NEW a \in DOMAIN recorded, Matches(a, s)
        PROVE  s \in DOMAIN laid
    <3>1. <<a, s>> \in found
      BY <1>3, <2>2
    <3>2. <<a, s>>[2] = s
      OBVIOUS
    <3>3. QED BY <3>1, <3>2
  <2> HIDE DEF laid
  <2>3. QED BY <2>1, <2>2
<1>6. ASSUME NEW s \in DOMAIN laid
      PROVE  \E a \in DOMAIN recorded : Matches(a, s) /\ laid[s] = recorded[a]
  <2>1. \E a \in DOMAIN recorded : <<a, s>> \in found
    <3> HIDE DEF laid
    <3>1. QED BY <1>3, <1>5
  <2>2. row(s) \in DOMAIN recorded /\ <<row(s), s>> \in found
    BY <2>1
  <2>3. laid[s] = recorded[row(s)]
    OBVIOUS
  <2> HIDE DEF laid, row
  <2>4. QED BY <1>3, <2>2, <2>3
<1>7. laid = [s \in DOMAIN laid |-> laid[s]]
  OBVIOUS
<1> HIDE DEF laid, row, old
<1>8. /\ DOMAIN att = DOMAIN laid \cup DOMAIN old /\ att = [s \in DOMAIN att |-> att[s]]
      /\ \A s \in DOMAIN laid : att[s] = laid[s]
      /\ \A s \in (DOMAIN old) \ (DOMAIN laid) : att[s] = old[s]
  BY DEF Over
<1> HIDE DEF att
<1>9. \A s \in DOMAIN laid : laid[s] \in Statuses /\ s \in SlotsIn(planner)
  BY <1>2, <1>6 DEF Matches
<1>10. \A s \in DOMAIN att : att[s] \in Statuses /\ s \in SlotsIn(planner)
  BY <1>2, <1>8, <1>9
<1>11. att \in [DOMAIN att -> Statuses] /\ DOMAIN att \subseteq SlotsIn(planner)
  BY <1>8, <1>10
<1>12. h.shifts = planner.shifts /\ h.att = att /\ h = [shifts |-> h.shifts, att |-> h.att]
  BY <1>2
<1> HIDE DEF h
<1>13. PlanShape(h)
  BY <1>2, <1>11, <1>12, Remarked DEF PlanShape
<1>14. ASSUME NEW s
       PROVE  IF \E a \in DOMAIN recorded : Matches(a, s)
                THEN \E a \in DOMAIN recorded : Matches(a, s) /\ Shown(h, s) = recorded[a]
                ELSE Shown(h, s) = Shown(planner, s)
  <2>1. CASE s \in DOMAIN laid
    <3>1. Shown(h, s) = laid[s]
      BY <1>8, <1>12, <2>1 DEF Shown
    <3>2. QED BY <1>5, <1>6, <2>1, <3>1
  <2>2. CASE s \notin DOMAIN laid
    <3>1. Shown(h, s) = Shown(planner, s)
      BY <1>8, <1>12, <2>2 DEF Shown, old
    <3>2. QED BY <1>5, <2>2, <3>1
  <2>3. QED BY <2>1, <2>2
<1>15. QED BY <1>1, <1>12, <1>13, <1>14

\* What find_assignment finds is a row of the guard, of the start that is wanted if it has one.
LEMMA FindIs ==
  ASSUME Shapes, NEW g, NEW want
  PROVE  /\ Find(g, want) \in RowsOf(g) \cup {0}
         /\ (\E a \in RowsOf(g) : assignments[a].start = want) =>
              Find(g, want) \in RowsOf(g) /\ assignments[Find(g, want)].start = want
<1> DEFINE exact == {a \in RowsOf(g) : assignments[a].start = want}
           late == {a \in RowsOf(g) \cap (DOMAIN lateLogs) : lateLogs[a] = want}
           all == RowsOf(g)
<1>1. MaxRows \in Nat /\ all \in SUBSET (1 .. MaxRows)
  BY DEF Shapes, BoundsShape, TablesShape, RowsOf
<1>2. exact \in SUBSET (1 .. MaxRows) /\ late \in SUBSET (1 .. MaxRows)
  BY <1>1
<1>3. /\ Highest(exact) \in exact \cup {0} /\ \A b \in exact : b <= Highest(exact)
      /\ Highest(late) \in late \cup {0} /\ Highest(all) \in all \cup {0}
  <2> HIDE DEF exact, late, all
  <2>1. QED BY <1>1, <1>2, HighestIs
<1>4. Find(g, want) = IF exact # {} THEN Highest(exact)
                      ELSE IF late # {} THEN Highest(late)
                      ELSE IF Cardinality(all) = 1 THEN Highest(all) ELSE 0
  BY DEF Find
<1>5. exact # {} => Highest(exact) \in exact
  <2> HIDE DEF exact
  <2>1. ASSUME NEW b \in exact
        PROVE  Highest(exact) \in exact
    <3>1. b \in 1 .. MaxRows /\ b <= Highest(exact) /\ Highest(exact) \in exact \cup {0}
      BY <1>2, <1>3
    <3>2. Highest(exact) # 0
      BY <1>1, <3>1
    <3>3. QED BY <3>1, <3>2
  <2>2. QED BY <2>1
<1>6. exact \subseteq all /\ late \subseteq all
  OBVIOUS
<1>7. Find(g, want) \in all \cup {0}
  <2> HIDE DEF exact, late, all
  <2>1. QED BY <1>3, <1>4, <1>6
<1>8. exact # {} => Find(g, want) \in exact
  <2> HIDE DEF exact, late, all
  <2>1. QED BY <1>4, <1>5
<1>9. QED BY <1>7, <1>8

\* A hit is a slot and the row that it finds.
LEMMA HitsAre ==
  ASSUME Shapes, NEW S, NEW h \in Hits(S)
  PROVE  /\ h[2] \in S /\ h[1] \in DOMAIN assignments
         /\ h[1] \in RowsOf(h[2][1]) /\ h[1] = Find(h[2][1], ScheduledStart(At(planner, h[2])))
<1> DEFINE F(s) == Find(s[1], ScheduledStart(At(planner, s)))
           found == {<<F(s), s>> : s \in S}
<1>1. PICK a \in {f[1] : f \in found} \ {0} : h = <<a, CHOOSE s \in S : <<a, s>> \in found>>
  BY DEF Hits
<1>2. PICK f \in found : a = f[1]
  BY <1>1
<1>3. PICK s \in S : f = <<F(s), s>>
  BY <1>2
<1>4. a = F(s) /\ <<a, s>> \in found
  BY <1>2, <1>3
<1> DEFINE t == CHOOSE t \in S : <<a, t>> \in found
<1>5. t \in S /\ <<a, t>> \in found
  BY <1>4
<1>6. h[1] = a /\ h[2] = t
  BY <1>1
<1> HIDE DEF t
<1>7. a = F(t)
  <2>1. PICK r \in S : <<a, t>> = <<F(r), r>>
    BY <1>5
  <2> HIDE DEF F
  <2>2. QED BY <2>1
<1>8. a # 0
  BY <1>1
<1>9. a \in RowsOf(t[1])
  BY <1>7, <1>8, FindIs
<1>10. QED BY <1>5, <1>6, <1>7, <1>9 DEF RowsOf

-----------------------------------------------------------------------------
(* Ghosts and tables keep their shape.                                     *)

\* The statuses one shift may have are set anew.
LEMMA AcceptedSet ==
  ASSUME Shapes, UNCHANGED <<mode, made>>, NEW id \in 1 .. made, NEW A \in SUBSET Marks,
         accepted' = [accepted EXCEPT ![id] = A], behind' \subseteq 1 .. made
  PROVE  /\ GhostsShape' /\ accepted'[id] = A
         /\ \A x \in 1 .. made : x # id => accepted'[x] = accepted[x]
BY DEF Shapes, GhostsShape

\* A plan that has its way adds to them, for shifts that changed elsewhere.
LEMMA OverruledIs ==
  ASSUME Shapes, UNCHANGED <<mode, made, behind>>, Overruled
  PROVE  /\ GhostsShape'
         /\ \A id \in 1 .. made : accepted[id] \subseteq accepted'[id]
         /\ \A s \in SlotsIn(planner) :
              At(planner, s).id \in behind => Overrules(s) \subseteq accepted'[At(planner, s).id]
<1> DEFINE U(id) == {Overrules(s) : s \in {s \in SlotsIn(planner) : At(planner, s).id = id /\ id \in behind}}
<1>1. /\ made \in 0 .. mode.shifts /\ accepted \in [1 .. made -> SUBSET Marks]
      /\ behind \subseteq 1 .. made
  BY DEF Shapes, GhostsShape
<1>2. accepted' = [id \in 1 .. made |-> accepted[id] \cup UNION U(id)]
  BY <1>1 DEF Overruled
<1>3. ASSUME NEW s \in SlotsIn(planner)
      PROVE  Overrules(s) \subseteq Marks
  <2>1. s \in DOMAIN planner.att => planner.att[s] \in Statuses
    BY DEF Shapes, PlanShape, PlanOf
  <2>2. MarkIn(planner, s) \subseteq Statuses
    BY <2>1, MarkInIs
  <2>3. QED BY <2>2 DEF Overrules, Marks
<1>4. \A id : UNION U(id) \subseteq Marks
  <2>1. ASSUME NEW id, NEW T \in U(id)
        PROVE  T \subseteq Marks
    BY <1>3
  <2> HIDE DEF U
  <2>2. QED BY <2>1
<1>5. ASSUME NEW s \in SlotsIn(planner), At(planner, s).id \in behind
      PROVE  Overrules(s) \subseteq accepted'[At(planner, s).id]
  <2>1. Overrules(s) \in U(At(planner, s).id)
    BY <1>5
  <2>2. At(planner, s).id \in 1 .. made
    BY <1>1, <1>5
  <2> HIDE DEF U
  <2>3. QED BY <1>2, <2>1, <2>2
<1> HIDE DEF U
<1>6. accepted' \in [1 .. made -> SUBSET Marks] /\ \A id \in 1 .. made : accepted[id] \subseteq accepted'[id]
  BY <1>1, <1>2, <1>4
<1>7. GhostsShape'
  BY <1>1, <1>6 DEF GhostsShape
<1>8. QED BY <1>5, <1>6, <1>7

\* What a slot's new row is marked with is a status.
LEMMA SourceIs ==
  ASSUME Shapes, NEW s \in SlotsIn(planner)
  PROVE  Source(s) \subseteq Statuses
<1>1. s \in DOMAIN planner.att => planner.att[s] \in Statuses
  BY DEF Shapes, PlanShape, PlanOf
<1>2. MarkIn(planner, s) \subseteq Statuses
  BY <1>1, MarkInIs
<1>3. Carried(s[1], At(planner, s)) \subseteq Statuses
  BY DEF Carried, Shapes, TablesShape
<1>4. QED BY <1>2, <1>3 DEF Source

\* A publication leaves tables of their shape.
LEMMA RemadeShape ==
  ASSUME Shapes, UNCHANGED <<mode, made>>, NEW G \in SUBSET Guards, NEW new, NEW slot,
         Remade(G, new, slot)
  PROVE  TablesShape'
<1>1. /\ MaxRows \in Nat /\ DOMAIN assignments \subseteq 1 .. MaxRows
      /\ assignments \in [DOMAIN assignments -> Rows]
      /\ DOMAIN recorded \subseteq DOMAIN assignments
      /\ recorded \in [DOMAIN recorded -> Statuses]
      /\ lateLogs \in [DOMAIN lateLogs -> Times]
  BY DEF Shapes, BoundsShape, TablesShape
<1>2. /\ NewRows(G, new, slot) /\ NewAssignments(G, new, slot) /\ NewAttendance(G, new, slot)
      /\ NewLogs(new, slot)
  BY DEF Remade
<1>3. \A a \in new : slot[a] \in SlotsIn(planner)
  BY <1>2 DEF NewRows
<1>4. ASSUME NEW s \in SlotsIn(planner)
      PROVE  /\ s[1] \in Guards /\ At(planner, s).id \in 1 .. made /\ At(planner, s).start \in Times
             /\ IsLate(At(planner, s)) => At(planner, s).sched \in Times
  <2>1. At(planner, s) \in Shifts
    BY SlotHolds DEF Shapes, PlanShape
  <2>2. QED BY <2>1, ShiftHas, SlotIs DEF IsLate
<1>5. Rows' = Rows /\ Times' = Times
  BY DEF Rows, Times
<1>6. DOMAIN assignments' = Kept(G) \cup new /\ Kept(G) \subseteq DOMAIN assignments
  BY <1>2 DEF NewAssignments, Kept
<1>7. DOMAIN assignments' \subseteq 1 .. MaxRows
  BY <1>1, <1>2, <1>6 DEF NewRows
<1>8. ASSUME NEW a \in DOMAIN assignments'
      PROVE  assignments'[a] \in Rows
  <2>1. CASE a \in Kept(G)
    BY <1>1, <1>2, <1>6, <2>1 DEF NewAssignments
  <2>2. CASE a \in new
    BY <1>2, <1>3, <1>4, <2>2 DEF NewAssignments, Rows
  <2>3. QED BY <1>6, <2>1, <2>2
<1>9. assignments' \in [DOMAIN assignments' -> Rows]
  BY <1>2, <1>8 DEF NewAssignments
<1>10. DOMAIN recorded' \subseteq DOMAIN assignments'
  BY <1>2, <1>6 DEF NewAttendance
<1>11. ASSUME NEW a \in DOMAIN recorded'
       PROVE  recorded'[a] \in Statuses
  <2>1. CASE a \in Kept(G)
    BY <1>1, <1>2, <2>1 DEF NewAttendance
  <2>2. CASE a \in new
    BY <1>2, <1>3, <2>2, SourceIs DEF NewAttendance
  <2>3. QED BY <1>2, <2>1, <2>2 DEF NewAttendance
<1>12. recorded' \in [DOMAIN recorded' -> Statuses]
  BY <1>2, <1>11 DEF NewAttendance
<1>13. ASSUME NEW a \in DOMAIN lateLogs'
       PROVE  lateLogs'[a] \in Times
  BY <1>1, <1>2, <1>3, <1>4 DEF NewLogs
<1>14. lateLogs' \in [DOMAIN lateLogs' -> Times]
  BY <1>2, <1>13 DEF NewLogs
<1>15. QED BY <1>5, <1>7, <1>9, <1>10, <1>12, <1>14 DEF TablesShape

\* So does a table laid over an old one.
LEMMA OverFits ==
  ASSUME NEW D, NEW V, NEW f, NEW g, DOMAIN f \subseteq D, DOMAIN g \subseteq D,
         \A x \in DOMAIN f : f[x] \in V, \A x \in DOMAIN g : g[x] \in V
  PROVE  Over(f, g) \in [DOMAIN Over(f, g) -> V] /\ DOMAIN Over(f, g) \subseteq D
<1>1. \A x \in DOMAIN Over(f, g) : Over(f, g)[x] \in V
  BY DEF Over
<1>2. QED BY <1>1 DEF Over

\* Attendance recorded anew leaves the tables of their shape.
LEMMA RecordedShape ==
  ASSUME Shapes, UNCHANGED <<mode, made, assignments, lateLogs>>,
         recorded' \in [DOMAIN recorded' -> Statuses], DOMAIN recorded' \subseteq DOMAIN assignments
  PROVE  TablesShape'
BY DEF Shapes, TablesShape, Rows, Times

\* Lateness written through leaves tables of their shape.
LEMMA SyncLatenessShape ==
  ASSUME Shapes, UNCHANGED <<mode, made>>, SyncLateness
  PROVE  TablesShape'
<1> DEFINE hits == Hits(LateSlots)
           hit(a) == CHOOSE h \in hits : h[1] = a
           slot(a) == hit(a)[2]
           logs == [a \in {h[1] : h \in hits} |-> At(planner, slot(a)).sched]
<1>1. /\ DOMAIN assignments \subseteq 1 .. MaxRows
      /\ assignments \in [DOMAIN assignments -> Rows]
      /\ lateLogs \in [DOMAIN lateLogs -> Times]
      /\ DOMAIN recorded \subseteq DOMAIN assignments
      /\ recorded \in [DOMAIN recorded -> Statuses]
      /\ Rows' = Rows /\ Times' = Times
  BY DEF Shapes, TablesShape, Rows, Times
<1>2. ASSUME NEW a, \E h \in hits : h[1] = a
      PROVE  At(planner, slot(a)).sched \in Times /\ At(planner, slot(a)).start \in Times
  <2>1. hit(a) \in hits
    BY <1>2
  <2> HIDE DEF hit
  <2>2. slot(a) \in LateSlots
    BY <2>1, HitsAre
  <2>3. slot(a) \in SlotsIn(planner) /\ IsLate(At(planner, slot(a)))
    BY <2>2 DEF LateSlots
  <2>4. At(planner, slot(a)) \in Shifts
    BY <2>3, SlotHolds DEF Shapes, PlanShape
  <2>5. QED BY <2>3, <2>4, ShiftHas DEF IsLate
<1>3. /\ lateLogs' = Over(logs, lateLogs)
      /\ assignments' = [a \in DOMAIN assignments |->
           IF \E h \in hits : h[1] = a
             THEN [assignments[a] EXCEPT !.start = At(planner, slot(a)).start] ELSE assignments[a]]
      /\ recorded' = recorded
  BY DEF SyncLateness
<1>4. \A a \in DOMAIN logs : logs[a] \in Times
  <2>1. \A a \in DOMAIN logs : (\E h \in hits : h[1] = a) /\ logs[a] = At(planner, slot(a)).sched
    <3> HIDE DEF hits, slot
    <3>1. QED OBVIOUS
  <2> HIDE DEF logs, slot, hits
  <2>2. QED BY <1>2, <2>1
<1> HIDE DEF logs, slot, hits
<1>5. lateLogs' \in [DOMAIN lateLogs' -> Times]
  <2> DEFINE D == (DOMAIN logs) \cup (DOMAIN lateLogs)
  <2>1. \A x \in DOMAIN lateLogs : lateLogs[x] \in Times
    BY <1>1
  <2> HIDE DEF D
  <2>2. DOMAIN logs \subseteq D /\ DOMAIN lateLogs \subseteq D
    BY DEF D
  <2>3. QED BY <1>3, <1>4, <2>1, <2>2, OverFits
<1>6. ASSUME NEW a \in DOMAIN assignments
      PROVE  assignments'[a] \in Rows
  <2>1. assignments[a] \in Rows
    BY <1>1
  <2>2. CASE \E h \in hits : h[1] = a
    <3>1. assignments'[a] = [assignments[a] EXCEPT !.start = At(planner, slot(a)).start]
      BY <1>3, <2>2
    <3>2. At(planner, slot(a)).start \in Times
      BY <1>2, <2>2
    <3>3. QED BY <2>1, <3>1, <3>2 DEF Rows
  <2>3. CASE ~\E h \in hits : h[1] = a
    BY <1>3, <2>1, <2>3
  <2>4. QED BY <2>2, <2>3
<1>7. DOMAIN assignments' = DOMAIN assignments /\ assignments' \in [DOMAIN assignments' -> Rows]
  BY <1>3, <1>6
<1>8. QED BY <1>1, <1>3, <1>5, <1>7 DEF TablesShape

\* What is written through is the mark of a slot that found the row.
Written(a, s) ==
  /\ s \in MarkedSlots /\ a \in RowsOf(s[1]) /\ a = Find(s[1], ScheduledStart(At(planner, s)))
  /\ a \in DOMAIN recorded' /\ recorded'[a] = planner.att[s]

\* Attendance written through changes nothing but what was written.
LEMMA SyncAttendanceDoes ==
  ASSUME Shapes, UNCHANGED <<mode, made, behind>>, SyncAttendance
  PROVE  /\ TablesShape' /\ GhostsShape' /\ assignments' = assignments
         /\ \A a \in DOMAIN assignments :
              (\E s : Written(a, s)) \/ Recorded(a)' = Recorded(a)
<1> DEFINE hits == Hits(MarkedSlots)
           hit(a) == CHOOSE h \in hits : h[1] = a
           new == [a \in {h[1] : h \in hits} |-> planner.att[hit(a)[2]]]
<1>1. recorded' = Over(new, recorded) /\ UNCHANGED <<assignments, lateLogs, planner>> /\ Overruled
  BY DEF SyncAttendance
<1>2. /\ DOMAIN recorded \subseteq DOMAIN assignments
      /\ \A a \in DOMAIN recorded : recorded[a] \in Statuses
      /\ \A s \in DOMAIN planner.att : planner.att[s] \in Statuses
  BY DEF Shapes, TablesShape, PlanShape, PlanOf
<1>3. ASSUME NEW a \in DOMAIN new
      PROVE  /\ hit(a)[2] \in MarkedSlots /\ a \in RowsOf(hit(a)[2][1])
             /\ a = Find(hit(a)[2][1], ScheduledStart(At(planner, hit(a)[2])))
             /\ a \in DOMAIN assignments /\ new[a] = planner.att[hit(a)[2]]
  <2>1. \E h \in hits : h[1] = a
    BY <1>3
  <2>2. hit(a) \in hits /\ hit(a)[1] = a
    BY <2>1
  <2>3. new[a] = planner.att[hit(a)[2]]
    BY <1>3
  <2> HIDE DEF hit, new
  <2>4. QED BY <2>2, <2>3, HitsAre
<1> HIDE DEF hit, new, hits
<1>4. \A a \in DOMAIN new : new[a] \in Statuses
  BY <1>2, <1>3 DEF MarkedSlots
<1>5. \A a \in DOMAIN new : a \in DOMAIN assignments
  BY <1>3
<1>6. recorded' \in [DOMAIN recorded' -> Statuses] /\ DOMAIN recorded' \subseteq DOMAIN assignments
  BY <1>1, <1>2, <1>4, <1>5, OverFits
<1>7. TablesShape'
  BY <1>1, <1>6, RecordedShape
<1>8. ASSUME NEW a \in DOMAIN assignments
      PROVE  (\E s : Written(a, s)) \/ Recorded(a)' = Recorded(a)
  <2>1. CASE a \in DOMAIN new
    <3>1. a \in DOMAIN recorded' /\ recorded'[a] = new[a]
      BY <1>1, <2>1 DEF Over
    <3>2. Written(a, hit(a)[2])
      BY <1>3, <2>1, <3>1 DEF Written
    <3>3. QED BY <3>2
  <2>2. CASE a \notin DOMAIN new
    <3>1. (a \in DOMAIN recorded' <=> a \in DOMAIN recorded) /\
            (a \in DOMAIN recorded => recorded'[a] = recorded[a])
      BY <1>1, <2>2 DEF Over
    <3>2. QED BY <3>1 DEF Recorded
  <2>3. QED BY <2>1, <2>2
<1>9. GhostsShape'
  BY <1>1, OverruledIs
<1>10. QED BY <1>1, <1>7, <1>8, <1>9

-----------------------------------------------------------------------------
(* Requests keep their shape.                                              *)

\* A list after another has what each of them has.
LEMMA Joined ==
  ASSUME NEW S, NEW s \in Seq(S), NEW t \in Seq(S)
  PROVE  /\ s \o t \in Seq(S)
         /\ \A k \in DOMAIN (s \o t) :
              (\E l \in DOMAIN s : (s \o t)[k] = s[l]) \/ (\E l \in DOMAIN t : (s \o t)[k] = t[l])
<1>1. /\ s \o t \in Seq(S) /\ Len(s \o t) = Len(s) + Len(t)
      /\ \A i \in 1 .. Len(s) + Len(t) : (s \o t)[i] = IF i <= Len(s) THEN s[i] ELSE t[i - Len(s)]
  BY ConcatProperties
<1>2. Len(s) \in Nat /\ Len(t) \in Nat /\ DOMAIN s = 1 .. Len(s) /\ DOMAIN t = 1 .. Len(t)
      /\ DOMAIN (s \o t) = 1 .. Len(s \o t)
  BY <1>1, LenProperties
<1>3. ASSUME NEW k \in DOMAIN (s \o t)
      PROVE  (\E l \in DOMAIN s : (s \o t)[k] = s[l]) \/ (\E l \in DOMAIN t : (s \o t)[k] = t[l])
  <2>1. CASE k <= Len(s)
    BY <1>1, <1>2, <2>1
  <2>2. CASE ~(k <= Len(s))
    <3>1. k - Len(s) \in DOMAIN t /\ (s \o t)[k] = t[k - Len(s)]
      BY <1>1, <1>2, <2>2
    <3>2. QED BY <3>1
  <2>3. QED BY <2>1, <2>2
<1>4. QED BY <1>1, <1>3

\* What a list of certain steps has.
LEMMA StagesAre ==
  ASSUME NEW S, NEW s \in Seq(S), NEW k \in DOMAIN s
  PROVE  s[k] \in S
BY LenProperties, ElementOfSeq

\* What follows a rebuild names no shift, and lateness only if the plan has some.
LEMMA RestIs ==
  /\ Rest # <<>>
  /\ Rest \in Seq({"lateness", "attendance", "heal"})
  /\ LateSlots = {} => Rest \in Seq({"attendance", "heal"})
<1>1. ASSUME NEW S, "attendance" \in S, "heal" \in S, LateSlots # {} => "lateness" \in S
      PROVE  Rest \in Seq(S) /\ Rest # <<>>
  <2> DEFINE l == IF LateSlots = {} THEN <<>> ELSE <<"lateness">>
             a == IF MarkedSlots = {} THEN <<>> ELSE <<"attendance">>
             h == <<"heal">>
  <2>1. l \in Seq(S)
    <3>1. CASE LateSlots = {}
      BY <3>1, EmptySeq
    <3>2. CASE LateSlots # {}
      <4>1. <<"lateness">> \in Seq(S)
        BY <1>1, <3>2
      <4>2. QED BY <3>2, <4>1
    <3>3. QED BY <3>1, <3>2
  <2>2. a \in Seq(S)
    <3>1. <<"attendance">> \in Seq(S)
      BY <1>1
    <3>2. QED BY <3>1, EmptySeq
  <2>3. h \in Seq(S) /\ h # <<>> /\ Len(h) = 1
    BY <1>1
  <2>4. Rest = IF job.structural THEN h ELSE l \o a \o h
    BY DEF Rest
  <2> HIDE DEF l, a, h
  <2>5. l \o a \in Seq(S)
    BY <2>1, <2>2, ConcatProperties
  <2>6. l \o a \o h \in Seq(S) /\ l \o a \o h # <<>>
    <3> DEFINE la == l \o a
    <3> HIDE DEF la
    <3>1. la \in Seq(S)
      BY <2>5 DEF la
    <3>2. la \o h \in Seq(S) /\ Len(la \o h) = Len(la) + Len(h)
      BY <2>3, <3>1, ConcatProperties
    <3>3. Len(la) \in Nat
      BY <3>1, LenProperties
    <3>4. Len(la \o h) > 0
      BY <2>3, <3>2, <3>3
    <3>5. la \o h # <<>>
      BY <3>4, EmptySeq
    <3>6. QED BY <3>2, <3>5 DEF la
  <2>7. QED BY <2>3, <2>4, <2>6
<1>2. QED BY <1>1

\* The plan was published as far as it differs, and the save goes on.
RebuildEnds == /\ Changed = {}
               /\ job' = [job EXCEPT !.structural = FALSE, !.todo = Rest \o Tail(@)]

\* Then a request goes on to more, and to lateness only if the plan has some.
LEMMA RebuildEndsDoes ==
  ASSUME JobShape, Step = "rebuild", RebuildEnds, UNCHANGED <<mode, screen>>
  PROVE  /\ JobShape' /\ job' # NoJob
         /\ LateSlots = {} => \A k \in DOMAIN job'.todo :
              job'.todo[k] # "lateness" \/ \E l \in DOMAIN job.todo : job'.todo[k] = job.todo[l]
<1> DEFINE rest == Tail(job.todo)
           todo == Rest \o rest
           Same(k, s) == \E l \in DOMAIN s : todo[k] = s[l]
<1>1. /\ job.todo \in Seq(Stages) /\ job.todo # <<>>
      /\ JobOf(job, screen.plan, mode.late)
  BY StepIs DEF JobShape
<1>2. /\ rest \in Seq(Stages)
      /\ \A k \in DOMAIN rest : \E l \in DOMAIN job.todo : rest[k] = job.todo[l]
  <2>1. /\ rest \in Seq(Stages) /\ Len(rest) = Len(job.todo) - 1
        /\ \A k \in 1 .. Len(rest) : rest[k] = job.todo[k + 1]
    BY <1>1, HeadTailProperties
  <2> HIDE DEF rest
  <2>2. Len(job.todo) \in Nat /\ DOMAIN job.todo = 1 .. Len(job.todo) /\ DOMAIN rest = 1 .. Len(rest)
    BY <1>1, <2>1, LenProperties
  <2>3. \A k \in DOMAIN rest : k + 1 \in DOMAIN job.todo /\ rest[k] = job.todo[k + 1]
    BY <2>1, <2>2
  <2>4. QED BY <2>1, <2>3
<1>3. Rest \in Seq(Stages)
  <2>1. {"lateness", "attendance", "heal"} \subseteq Stages
    BY DEF Stages
  <2>2. QED BY <2>1, RestIs, SeqMonotonic
<1>4. \A k \in DOMAIN Rest : /\ Rest[k] \in {"lateness", "attendance", "heal"}
                             /\ LateSlots = {} => Rest[k] \in {"attendance", "heal"}
  BY RestIs, StagesAre
<1>5. job' = [job EXCEPT !.structural = FALSE, !.todo = todo]
  BY DEF RebuildEnds
<1> HIDE DEF rest
<1>6. todo \in Seq(Stages) /\ \A k \in DOMAIN todo : Same(k, Rest) \/ Same(k, rest)
  BY <1>2, <1>3, Joined
<1> HIDE DEF todo
<1>7. /\ job'.todo = todo /\ job'.structural = FALSE /\ job'.guards = job.guards
      /\ job'.slot = job.slot /\ job'.status = job.status
      /\ job' = [todo |-> job'.todo, structural |-> job'.structural, guards |-> job'.guards,
                 slot |-> job'.slot, status |-> job'.status]
  BY <1>1, <1>5 DEF JobOf
<1>8. \A k \in DOMAIN todo : \/ todo[k] \in {"lateness", "attendance", "heal"}
                             \/ \E l \in DOMAIN job.todo : todo[k] = job.todo[l]
  BY <1>2, <1>4, <1>6
<1>9. JobOf(job', screen.plan, mode.late)
  BY <1>1, <1>6, <1>7, <1>8 DEF JobOf
<1>10. JobShape'
  BY <1>9 DEF JobShape
<1>11. LateSlots = {} => \A k \in DOMAIN todo :
          todo[k] # "lateness" \/ \E l \in DOMAIN job.todo : todo[k] = job.todo[l]
  BY <1>2, <1>4, <1>6
<1>12. job' # NoJob
  <2>1. todo # <<>>
    <3>1. Len(Rest) \in Nat /\ Len(Rest) # 0 /\ Len(rest) \in Nat
      BY <1>2, <1>3, RestIs, LenProperties, EmptySeq
    <3>2. Len(todo) = Len(Rest) + Len(rest)
      BY <1>2, <1>3, ConcatProperties DEF todo
    <3>3. Len(todo) # 0
      BY <3>1, <3>2
    <3>4. QED BY <3>3, EmptySeq
  <2>2. QED BY <1>7, <2>1, JobNone
<1>13. QED BY <1>7, <1>10, <1>11, <1>12

\* The steps a save and a publication begin with.
LEMMA FirstSteps ==
  \A s \in {<<"rebuild">>, <<"rebuild", "publish">>} :
    s \in Seq({"rebuild", "publish"}) /\ s # <<>> /\ Head(s) = "rebuild"
<1> DEFINE S == {"rebuild", "publish"}
<1>1. "rebuild" \in S /\ "publish" \in S
  OBVIOUS
<1> HIDE DEF S
<1>2. <<"rebuild">> \in Seq(S)
  BY <1>1
<1>3. <<"rebuild", "publish">> \in Seq(S)
  BY <1>1
<1>4. <<"rebuild">> # <<>> /\ Head(<<"rebuild">>) = "rebuild"
  OBVIOUS
<1>5. <<"rebuild", "publish">> # <<>> /\ Head(<<"rebuild", "publish">>) = "rebuild"
  OBVIOUS
<1>6. QED BY <1>2, <1>3, <1>4, <1>5 DEF S

\* A request that begins.
LEMMA BeginsShape ==
  ASSUME Begin([NoJob EXCEPT !.todo = <<"rebuild">>])
         \/ \E G \in SUBSET Guards : Begin([NoJob EXCEPT !.todo = <<"rebuild", "publish">>, !.guards = G])
  PROVE  /\ JobShape' /\ job' # NoJob /\ Step' = "rebuild"
         /\ \A k \in DOMAIN job'.todo : job'.todo[k] # "lateness"
<1> DEFINE one == <<"rebuild">>
           two == <<"rebuild", "publish">>
<1>1. one \in Seq({"rebuild", "publish"}) /\ two \in Seq({"rebuild", "publish"})
      /\ one # <<>> /\ two # <<>> /\ Head(one) = "rebuild" /\ Head(two) = "rebuild"
  BY FirstSteps
<1>2. ASSUME NEW todo \in {one, two}, NEW G \in SUBSET Guards,
             job' = [NoJob EXCEPT !.todo = todo, !.guards = G]
      PROVE  /\ JobShape' /\ job' # NoJob /\ Step' = "rebuild"
             /\ \A k \in DOMAIN job'.todo : job'.todo[k] # "lateness"
  <2> HIDE DEF one, two
  <2>1. todo \in Seq({"rebuild", "publish"}) /\ todo # <<>> /\ Head(todo) = "rebuild"
    BY <1>1
  <2>2. job'.todo = todo /\ job'.structural = FALSE /\ job'.guards = G
        /\ job' = [todo |-> job'.todo, structural |-> job'.structural, guards |-> job'.guards,
                   slot |-> job'.slot, status |-> job'.status]
    BY <1>2 DEF NoJob
  <2>3. todo \in Seq(Stages)
    <3>1. {"rebuild", "publish"} \subseteq Stages
      BY DEF Stages
    <3>2. QED BY <2>1, <3>1, SeqMonotonic
  <2>4. \A k \in DOMAIN todo : todo[k] \in {"rebuild", "publish"}
    BY <2>1, StagesAre
  <2>5. JobShape'
    BY <2>2, <2>3, <2>4 DEF JobShape, JobOf
  <2>6. job' # NoJob
    BY <2>1, <2>2, JobNone
  <2>7. Step' = "rebuild"
    BY <2>1, <2>2 DEF Step
  <2>8. QED BY <2>2, <2>4, <2>5, <2>6, <2>7
<1>3. CASE Begin([NoJob EXCEPT !.todo = one])
  <2>1. job' = [NoJob EXCEPT !.todo = one, !.guards = {}]
    BY <1>3 DEF Begin, NoJob
  <2> DEFINE t == one
             none == {}
  <2>2. t \in {one, two} /\ none \in SUBSET Guards /\ job' = [NoJob EXCEPT !.todo = t, !.guards = none]
    BY <2>1
  <2> HIDE DEF one, two, t, none
  <2>3. QED BY <1>2, <2>2
<1>4. CASE \E G \in SUBSET Guards : Begin([NoJob EXCEPT !.todo = two, !.guards = G])
  <2>1. \E G \in SUBSET Guards : job' = [NoJob EXCEPT !.todo = two, !.guards = G]
    BY <1>4 DEF Begin
  <2> HIDE DEF one, two
  <2>2. QED BY <1>2, <2>1
<1>5. QED BY <1>3, <1>4

\* The request of the attendance dialog.
LEMMA MarkingShape ==
  ASSUME Shapes, NEW g \in Guards, NEW i, NEW st \in Statuses, NEW late \in BOOLEAN,
         MarkPublished(g, i, st, late)
  PROVE  /\ JobShape' /\ job' # NoJob /\ Step' = "rebuild"
         /\ \A k \in DOMAIN job'.todo : job'.todo[k] # "lateness"
<1> DEFINE save == <<"rebuild", "store", "rebuild", "publish">>
           then == IF late THEN <<"late">> ELSE <<>>
           last == <<"upsert">>
           todo == save \o then \o last
           S == {"rebuild", "store", "publish", "upsert"} \cup (IF late THEN {"late"} ELSE {})
           s == <<g, i>>
<1>1. job' = [NoJob EXCEPT !.todo = todo, !.guards = {g}, !.slot = s, !.status = st]
  BY DEF MarkPublished, Begin
<1>2. save \in Seq(S) /\ last \in Seq(S) /\ save # <<>> /\ Head(save) = "rebuild" /\ last # <<>>
  OBVIOUS
<1>3. then \in Seq(S)
  <2>1. CASE late
    <3>1. <<"late">> \in Seq(S)
      BY <2>1
    <3> HIDE DEF S
    <3>2. QED BY <2>1, <3>1
  <2>2. CASE ~late
    <3> HIDE DEF S
    <3>1. QED BY <2>2, EmptySeq
  <2>3. QED BY <2>1, <2>2
<1>4. save[1] = "rebuild" /\ Len(save) = 4
  OBVIOUS
<1>5. todo \in Seq(S) /\ todo # <<>> /\ Head(todo) = "rebuild"
  <2> HIDE DEF save, then, last, S
  <2>1. /\ save \o then \in Seq(S) /\ Len(save \o then) = Len(save) + Len(then)
        /\ \A k \in 1 .. Len(save) + Len(then) :
             (save \o then)[k] = IF k <= Len(save) THEN save[k] ELSE then[k - Len(save)]
    BY <1>2, <1>3, ConcatProperties
  <2>2. /\ todo \in Seq(S) /\ Len(todo) = Len(save \o then) + Len(last)
        /\ \A k \in 1 .. Len(save \o then) + Len(last) :
             todo[k] = IF k <= Len(save \o then) THEN (save \o then)[k] ELSE last[k - Len(save \o then)]
    BY <1>2, <2>1, ConcatProperties
  <2> HIDE DEF todo
  <2>3. Len(then) \in Nat /\ Len(last) \in Nat
    BY <1>2, <1>3, LenProperties
  <2>4. Len(todo) >= 4 /\ todo[1] = "rebuild"
    BY <1>4, <2>1, <2>2, <2>3
  <2>5. todo # <<>> /\ Head(todo) = todo[1]
    BY <2>2, <2>4, EmptySeq
  <2>6. QED BY <2>2, <2>4, <2>5
<1>6. \A k \in DOMAIN todo : todo[k] \in S
  <2> HIDE DEF todo, S
  <2>1. QED BY <1>5, StagesAre
<1>7. S \subseteq Stages
  BY DEF Stages
<1>8. \A k \in DOMAIN todo : todo[k] # "lateness" /\ (todo[k] = "late" => late)
  <2> HIDE DEF todo
  <2>1. QED BY <1>6
<1>9. todo \in Seq(Stages)
  <2> HIDE DEF todo, S
  <2>1. QED BY <1>5, <1>7, SeqMonotonic
<1> HIDE DEF todo
<1>10. /\ job'.todo = todo /\ job'.structural = FALSE /\ job'.guards = {g} /\ job'.slot = s
       /\ job'.status = st
       /\ job' = [todo |-> job'.todo, structural |-> job'.structural, guards |-> job'.guards,
                  slot |-> job'.slot, status |-> job'.status]
  BY <1>1 DEF NoJob
<1>11. /\ s \in SlotsIn(screen'.plan)
       /\ late => mode.late /\ IsLate(At(screen'.plan, s))
  <2>1. OneChanged(screen'.plan, screen.plan, s, Timed(At(screen.plan, s), st, late))
    BY MarkPublishedDoes
  <2>2. MayMark(g, i, st, late)
    BY DEF MarkPublished
  <2>3. late => mode.late /\ IsLate(Timed(At(screen.plan, s), st, late))
    BY <2>2, TimedIs
  <2>4. QED BY <2>1, <2>3 DEF OneChanged
<1>12. mode' = mode
  BY DEF MarkPublished, Begin
<1>13. JobShape'
  BY <1>8, <1>9, <1>10, <1>11, <1>12 DEF JobShape, JobOf
<1>14. job' # NoJob /\ Step' = "rebuild"
  BY <1>5, <1>10, JobNone DEF Step
<1>15. QED BY <1>8, <1>10, <1>13, <1>14

-----------------------------------------------------------------------------
(* Every step keeps the shapes.                                            *)

\* What an edit of the screen leaves alone.
LEMMA EditShape ==
  ASSUME Shapes, UNCHANGED made, OnScreen, dirty' = TRUE, ScreenShape', GhostsShape', job = NoJob
  PROVE  Shapes'
<1>1. BoundsShape' /\ PlanShape(planner)' /\ TablesShape'
  BY Unmoving DEF OnScreen
<1>2. JobShape'
  BY JobNone DEF OnScreen, JobShape
<1>3. FlagsShape'
  BY DEF OnScreen, Shapes, FlagsShape
<1>4. QED BY <1>1, <1>2, <1>3 DEF Shapes

\* Edits and buttons of the rota screen.
LEMMA AddShiftShape ==
  ASSUME Shapes, NEW g \in Guards, NEW t, AddShift(g, t)
  PROVE  Shapes'
<1>1. /\ made' = made + 1 /\ made' \in 0 .. mode.shifts /\ mode' = mode
      /\ Shifts \subseteq Shifts' /\ Rows \subseteq Rows' /\ ScreenShape'
  BY AddShiftDoes
<1>2. /\ job = NoJob /\ dirty' = TRUE /\ UNCHANGED behind /\ OnScreen
      /\ accepted' = Over([id \in {made'} |-> {"none"}], accepted)
  BY DEF AddShift, MayEdit, ShowPlan
<1>3. BoundsShape' /\ Times' = Times
  BY <1>1 DEF Shapes, BoundsShape, Sensible, Times
<1>4. PlanShape(planner)'
  BY <1>1, <1>2, PlanGrows DEF Shapes, PlanShape, OnScreen
<1>5. TablesShape'
  BY <1>1, <1>2, <1>3 DEF Shapes, TablesShape, OnScreen, tables
<1>6. GhostsShape'
  <2>1. /\ made \in Nat /\ accepted \in [1 .. made -> SUBSET Marks] /\ behind \subseteq 1 .. made
    BY DEF Shapes, BoundsShape, Sensible, GhostsShape
  <2>2. 1 .. made' = (1 .. made) \cup {made'}
    BY <1>1, <2>1
  <2>3. {"none"} \in SUBSET Marks
    BY DEF Marks
  <2>4. accepted' \in [1 .. made' -> SUBSET Marks]
    BY <1>2, <2>1, <2>2, <2>3 DEF Over
  <2>5. QED BY <1>1, <1>2, <2>1, <2>2, <2>4 DEF GhostsShape
<1>7. JobShape'
  BY <1>2, JobNone DEF OnScreen, JobShape
<1>8. FlagsShape'
  BY <1>2 DEF OnScreen, Shapes, FlagsShape
<1>9. QED BY <1>1, <1>3, <1>4, <1>5, <1>6, <1>7, <1>8 DEF Shapes

\* The id of a shift on screen or in store.
LEMMA IdIs ==
  ASSUME Shapes, NEW p \in {screen.plan, planner}, NEW s \in SlotsIn(p)
  PROVE  At(p, s) \in Shifts /\ At(p, s).id \in 1 .. made /\ At(p, s).start \in Times
<1>1. PlanOf(p, Shifts)
  BY DEF Shapes, ScreenShape, PlanShape
<1>2. QED BY <1>1, SlotHolds, ShiftHas

\* The id of an assignment.
LEMMA RowIs ==
  ASSUME Shapes, NEW a \in DOMAIN assignments
  PROVE  /\ assignments[a].guard \in Guards /\ assignments[a].id \in 1 .. made
         /\ assignments[a].start \in Times
         /\ assignments[a].guard \in PublishedGuards /\ a \in RowsOf(assignments[a].guard)
BY DEF Shapes, TablesShape, Rows, PublishedGuards, RowsOf

\* The guards of assignments are guards.
LEMMA PublishedAre ==
  ASSUME Shapes
  PROVE  PublishedGuards \subseteq Guards
BY DEF Shapes, TablesShape, Rows, PublishedGuards

\* Edits that add no shift.
LEMMA EditsShape ==
  ASSUME Shapes, NEW g \in Guards, NEW i,
         \/ RemoveShift(g, i) \/ ClearMark(g, i)
         \/ \E t \in Times : Retime(g, i, t)
         \/ \E st \in Statuses, late \in BOOLEAN : MarkDraft(g, i, st, late)
  PROVE  Shapes'
<1>1. ASSUME UNCHANGED <<made, accepted, behind, mode>>
      PROVE  GhostsShape'
  BY <1>1 DEF Shapes, GhostsShape
<1>2. CASE RemoveShift(g, i)
  <2>1. OnScreen /\ dirty' = TRUE /\ job = NoJob /\ UNCHANGED ghosts
    BY <1>2 DEF RemoveShift, ShowPlan, MayEdit
  <2>2. GhostsShape'
    BY <1>1, <2>1 DEF ghosts, OnScreen
  <2>3. ScreenShape'
    BY <1>2, RemoveShiftDoes
  <2>4. QED BY <2>1, <2>2, <2>3, EditShape DEF ghosts
<1>3. CASE ClearMark(g, i)
  <2> DEFINE id == screen.plan.shifts[g][i].id
             A == {"none"} \cup IF HasRow(id) THEN accepted[id] ELSE {}
  <2>1. OnScreen /\ dirty' = TRUE /\ job = NoJob /\ UNCHANGED <<made, behind>>
        /\ accepted' = [accepted EXCEPT ![id] = A]
    BY <1>3 DEF ClearMark, ShowPlan, MayEdit
  <2>2. /\ ScreenShape' /\ <<g, i>> \in SlotsIn(screen.plan)
        /\ screen.plan.shifts[g][i] = At(screen.plan, <<g, i>>)
    BY <1>3, ClearMarkDoes
  <2>3. id \in 1 .. made
    BY <2>2, IdIs
  <2> HIDE DEF id
  <2>4. A \in SUBSET Marks
    BY <2>3 DEF Shapes, GhostsShape, Marks
  <2>5. behind' \subseteq 1 .. made
    BY <2>1 DEF Shapes, GhostsShape
  <2> HIDE DEF A
  <2>6. GhostsShape'
    BY <2>1, <2>3, <2>4, <2>5, AcceptedSet DEF OnScreen
  <2>7. QED BY <2>1, <2>2, <2>6, EditShape
<1>4. ASSUME NEW t \in Times, Retime(g, i, t)
      PROVE  Shapes'
  <2>1. OnScreen /\ dirty' = TRUE /\ job = NoJob /\ UNCHANGED ghosts
    BY <1>4 DEF Retime, ShowPlan, MayEdit
  <2>2. GhostsShape'
    BY <1>1, <2>1 DEF ghosts, OnScreen
  <2>3. ScreenShape'
    BY <1>4, RetimeDoes
  <2>4. QED BY <2>1, <2>2, <2>3, EditShape DEF ghosts
<1>5. ASSUME NEW st \in Statuses, NEW late \in BOOLEAN, MarkDraft(g, i, st, late)
      PROVE  Shapes'
  <2> DEFINE id == screen.plan.shifts[g][i].id
             A == {st}
  <2>1. OnScreen /\ dirty' = TRUE /\ job = NoJob /\ UNCHANGED <<made, behind>>
        /\ accepted' = [accepted EXCEPT ![id] = A] /\ MayMark(g, i, st, late)
    BY <1>5 DEF MarkDraft, ShowPlan, MayEdit
  <2>2. ScreenShape'
    BY <1>5, MarkDraftDoes
  <2>3. id \in 1 .. made
    <3>1. screen.plan.shifts[g][i] \in Shifts
      BY <2>1, TimedIs
    <3>2. QED BY <3>1, ShiftHas
  <2>4. A \in SUBSET Marks
    BY DEF Marks
  <2>5. behind' \subseteq 1 .. made
    BY <2>1 DEF Shapes, GhostsShape
  <2> HIDE DEF A, id
  <2>6. GhostsShape'
    BY <2>1, <2>3, <2>4, <2>5, AcceptedSet DEF OnScreen
  <2>7. QED BY <2>1, <2>2, <2>6, EditShape
<1>6. QED BY <1>2, <1>3, <1>4, <1>5

\* What the healed plan is stored as.
LEMMA HealedShape ==
  ASSUME Shapes, UNCHANGED <<mode, made>>, planner' = Healed(planner)
  PROVE  PlanShape(planner)' /\ planner'.shifts = planner.shifts
<1>1. Shifts' = Shifts
  BY Unmoving
<1>2. QED BY <1>1, HealedDoes DEF PlanShape

\* Loads, withdrawals and requests that begin.
LEMMA ButtonsShape ==
  ASSUME Shapes,
         \/ Load \/ Save
         \/ \E G \in SUBSET Guards : PublishButton(G) \/ Unpublish(G)
         \/ \E g \in Guards, i \in Ids, st \in Statuses, late \in BOOLEAN : MarkPublished(g, i, st, late)
  PROVE  Shapes'
<1>0. PublishedGuards \subseteq Guards
  BY PublishedAre
<1>1. CASE Load
  <2>1. /\ UNCHANGED <<mode, tables, job, dirty, made, accepted, torn, budget>> /\ job = NoJob
        /\ planner' = Healed(planner) /\ behind' \subseteq behind
        /\ screen' = [plan |-> planner', published |-> PublishedGuards]
    BY <1>1 DEF Load
  <2>2. PlanShape(planner)'
    BY <2>1, HealedShape
  <2>3. ScreenShape'
    BY <1>0, <2>1, <2>2 DEF ScreenShape, PlanShape
  <2>4. BoundsShape' /\ TablesShape' /\ FlagsShape'
    BY <2>1, Unmoving
  <2>5. GhostsShape'
    BY <2>1 DEF Shapes, GhostsShape
  <2>6. JobShape'
    BY <2>1, JobNone DEF JobShape
  <2>7. QED BY <2>2, <2>3, <2>4, <2>5, <2>6 DEF Shapes
<1>2. ASSUME Save \/ \E G \in SUBSET Guards : PublishButton(G)
      PROVE  Shapes'
  <2>1. /\ UNCHANGED <<mode, tables, made, accepted, behind, torn, screen>>
        /\ planner' = screen.plan /\ dirty' = FALSE
    BY <1>2 DEF Save, PublishButton, Begin
  <2>2. JobShape'
    <3>1. Begin([NoJob EXCEPT !.todo = <<"rebuild">>])
          \/ \E G \in SUBSET Guards : Begin([NoJob EXCEPT !.todo = <<"rebuild", "publish">>, !.guards = G])
      BY <1>2 DEF Save, PublishButton
    <3>2. QED BY <3>1, BeginsShape
  <2>3. BoundsShape' /\ TablesShape' /\ ScreenShape' /\ GhostsShape' /\ Shifts' = Shifts
    BY <2>1, Unmoving
  <2>4. PlanShape(planner)'
    BY <2>1, <2>3 DEF Shapes, ScreenShape, PlanShape
  <2>5. FlagsShape'
    BY <2>1 DEF Shapes, FlagsShape
  <2>6. QED BY <2>2, <2>3, <2>4, <2>5 DEF Shapes
<1>3. ASSUME NEW g \in Guards, NEW i, NEW st \in Statuses, NEW late \in BOOLEAN,
             MarkPublished(g, i, st, late)
      PROVE  Shapes'
  <2>1. /\ UNCHANGED <<mode, tables, made, accepted, behind, torn>> /\ dirty' = FALSE
        /\ planner' = screen'.plan
    BY <1>3 DEF MarkPublished, Begin
  <2>2. ScreenShape'
    BY <1>3, MarkPublishedDoes
  <2>3. JobShape'
    BY <1>3, MarkingShape
  <2>4. BoundsShape' /\ TablesShape' /\ GhostsShape'
    BY <2>1, Unmoving
  <2>5. PlanShape(planner)'
    BY <2>1, <2>2 DEF ScreenShape, PlanShape
  <2>6. FlagsShape'
    BY <2>1 DEF Shapes, FlagsShape
  <2>7. QED BY <2>2, <2>3, <2>4, <2>5, <2>6 DEF Shapes
<1>4. ASSUME NEW G \in SUBSET Guards, Unpublish(G)
      PROVE  Shapes'
  <2> DEFINE kept == DOMAIN assignments \ UNION {RowsOf(g) : g \in G}
             left == PublishedGuards \ G
  <2>1. /\ UNCHANGED <<mode, planner, lateLogs, job, dirty, ghosts, torn, budget>> /\ job = NoJob
        /\ assignments' = Restrict(assignments, kept)
        /\ recorded' = Restrict(recorded, DOMAIN recorded \cap kept)
        /\ screen' = [screen EXCEPT !.published = left]
    BY <1>4 DEF Unpublish
  <2>2. kept \subseteq DOMAIN assignments /\ left \subseteq Guards
    BY <1>0
  <2> HIDE DEF kept, left
  <2>3. BoundsShape' /\ PlanShape(planner)' /\ GhostsShape' /\ FlagsShape' /\ Shifts' = Shifts
        /\ Rows' = Rows /\ Times' = Times
    BY <2>1, Unmoving DEF ghosts
  <2>4. TablesShape'
    BY <2>1, <2>2, <2>3 DEF Shapes, TablesShape, Restrict
  <2>5. ScreenShape'
    <3>1. /\ screen = [plan |-> screen.plan, published |-> screen.published]
          /\ PlanShape(screen.plan)
      BY DEF Shapes, ScreenShape
    <3>2. screen'.plan = screen.plan /\ screen'.published = left
          /\ screen' = [plan |-> screen'.plan, published |-> screen'.published]
      BY <2>1, <3>1
    <3>3. QED BY <2>2, <2>3, <3>1, <3>2 DEF ScreenShape, PlanShape
  <2>6. JobShape'
    BY <2>1, JobNone DEF JobShape
  <2>7. QED BY <2>3, <2>4, <2>5, <2>6 DEF Shapes
<1>5. QED BY <1>1, <1>2, <1>3, <1>4

\* A step of a request that goes on to what is left to do.
LEMMA GoesOnShape ==
  ASSUME Shapes, Step # "none", Then(Tail(job.todo)), UNCHANGED <<mode, screen>>
  PROVE  /\ JobShape'
         /\ \A k \in DOMAIN job'.todo : \E l \in DOMAIN job.todo : job'.todo[k] = job.todo[l]
<1>1. JobOf(job, screen.plan, mode.late) /\ job.todo # <<>>
  BY StepIs DEF Shapes, JobShape
<1>2. /\ JobOf(job', screen.plan, mode.late)
      /\ \A k \in DOMAIN job'.todo : \E l \in DOMAIN job.todo : job'.todo[k] = job.todo[l]
  BY <1>1, JobGoesOn
<1>3. QED BY <1>2 DEF JobShape

\* Steps of a save.
LEMMA SavingShape ==
  ASSUME Shapes, Store \/ Rebuild \/ Sync \/ Heal
  PROVE  Shapes'
<1>1. UNCHANGED <<mode, made, behind, screen, dirty>> /\ Step # "none"
  BY DEF Store, Rebuild, Sync, Heal, Unmoved
<1>2. BoundsShape' /\ ScreenShape' /\ Shifts' = Shifts
  BY <1>1, Unmoving
<1>3. ASSUME Then(Tail(job.todo))
      PROVE  JobShape'
  BY <1>1, <1>3, GoesOnShape
<1>4. CASE Store
  <2>1. /\ planner' = screen.plan /\ UNCHANGED <<tables, accepted, torn>> /\ Then(Tail(job.todo))
    BY <1>4 DEF Store
  <2>2. PlanShape(planner)'
    BY <1>2, <2>1 DEF Shapes, ScreenShape, PlanShape
  <2>3. TablesShape' /\ GhostsShape' /\ FlagsShape'
    BY <1>1, <2>1, Unmoving
  <2>4. QED BY <1>2, <1>3, <2>1, <2>2, <2>3 DEF Shapes
<1>5. CASE Heal
  <2>1. /\ planner' = Healed(planner) /\ UNCHANGED <<tables, accepted>> /\ torn' = FALSE
        /\ Then(Tail(job.todo))
    BY <1>5 DEF Heal
  <2>2. PlanShape(planner)'
    BY <1>1, <2>1, HealedShape
  <2>3. TablesShape' /\ GhostsShape'
    BY <1>1, <2>1, Unmoving
  <2>4. FlagsShape'
    BY <1>1, <2>1 DEF Shapes, FlagsShape
  <2>5. QED BY <1>2, <1>3, <2>1, <2>2, <2>3, <2>4 DEF Shapes
<1>6. CASE Sync
  <2>1. UNCHANGED <<planner, torn>> /\ Then(Tail(job.todo))
    BY <1>6 DEF Sync, SyncLateness, SyncAttendance
  <2>2. PlanShape(planner)' /\ FlagsShape'
    BY <1>1, <2>1, Unmoving
  <2>3. CASE SyncLateness
    <3>1. TablesShape'
      BY <1>1, <2>3, SyncLatenessShape
    <3>2. GhostsShape'
      BY <1>1, <2>3, Unmoving DEF SyncLateness
    <3>3. QED BY <1>2, <1>3, <2>1, <2>2, <3>1, <3>2 DEF Shapes
  <2>4. CASE SyncAttendance
    <3>1. TablesShape' /\ GhostsShape'
      BY <1>1, <2>4, SyncAttendanceDoes
    <3>2. QED BY <1>2, <1>3, <2>1, <2>2, <3>1 DEF Shapes
  <2>5. QED BY <1>6, <2>3, <2>4 DEF Sync
<1>7. CASE Rebuild
  <2>1. UNCHANGED <<planner, torn>> /\ Step = "rebuild"
    BY <1>7 DEF Rebuild
  <2>2. PlanShape(planner)' /\ FlagsShape'
    BY <1>1, <2>1, Unmoving
  <2>3. ASSUME NEW g \in Changed, Publish({g}), Overruled, job' = [job EXCEPT !.structural = TRUE]
        PROVE  Shapes'
    <3>1. {g} \in SUBSET Guards
      BY PublishedAre DEF Changed
    <3>2. \E new, slot : Remade({g}, new, slot)
      BY <2>3, <3>1, Republished
    <3>3. TablesShape'
      BY <1>1, <3>1, <3>2, RemadeShape
    <3>4. GhostsShape'
      BY <1>1, <2>3, OverruledIs
    <3>5. JobShape'
      BY <1>1, <2>3 DEF Shapes, JobShape, JobOf
    <3>6. QED BY <1>2, <2>2, <3>3, <3>4, <3>5 DEF Shapes
  <2>4. ASSUME RebuildEnds, UNCHANGED <<tables, accepted>>
        PROVE  Shapes'
    <3>1. JobShape'
      BY <1>1, <2>1, <2>4, RebuildEndsDoes DEF Shapes
    <3>2. TablesShape' /\ GhostsShape'
      BY <1>1, <2>4, Unmoving
    <3>3. QED BY <1>2, <2>2, <3>1, <3>2 DEF Shapes
  <2>5. QED BY <1>7, <2>3, <2>4 DEF Rebuild, RebuildEnds
<1>8. QED BY <1>4, <1>5, <1>6, <1>7

\* The step of a publication.
LEMMA PublishStepShape ==
  ASSUME Shapes, PublishStep
  PROVE  Shapes'
<1> DEFINE now == {assignments'[a].guard : a \in DOMAIN assignments'}
<1>1. /\ UNCHANGED <<mode, made, behind, planner, dirty, torn>> /\ Step # "none" /\ Then(Tail(job.todo))
      /\ Publish(job.guards) /\ Overruled /\ screen' = [screen EXCEPT !.published = now]
  BY DEF PublishStep, Unmoved
<1>2. job.guards \in SUBSET Guards
  BY DEF Shapes, JobShape, JobOf
<1>3. TablesShape'
  BY <1>1, <1>2, Republished, RemadeShape
<1>4. BoundsShape' /\ PlanShape(planner)' /\ FlagsShape' /\ Shifts' = Shifts
  BY <1>1, Unmoving
<1>5. GhostsShape'
  BY <1>1, OverruledIs
<1>6. now \subseteq Guards
  BY <1>3 DEF TablesShape, Rows
<1> HIDE DEF now
<1>7. screen'.plan = screen.plan /\ ScreenShape'
  <2>1. /\ screen = [plan |-> screen.plan, published |-> screen.published]
        /\ PlanShape(screen.plan)
    BY DEF Shapes, ScreenShape
  <2>2. screen'.plan = screen.plan /\ screen'.published = now
        /\ screen' = [plan |-> screen'.plan, published |-> screen'.published]
    BY <1>1, <2>1
  <2>3. QED BY <1>4, <1>6, <2>1, <2>2 DEF ScreenShape, PlanShape
<1>8. JobShape'
  <2>1. JobOf(job, screen.plan, mode.late) /\ job.todo # <<>>
    BY <1>1, StepIs DEF Shapes, JobShape
  <2>2. JobOf(job', screen.plan, mode.late)
    BY <1>1, <2>1, JobGoesOn
  <2>3. QED BY <1>1, <1>7, <2>2 DEF JobShape
<1>9. QED BY <1>3, <1>4, <1>5, <1>7, <1>8 DEF Shapes

\* The shift whose lateness or status is sent.
LEMMA SentShift ==
  ASSUME Shapes, Step \in {"late", "upsert"}
  PROVE  /\ job.slot \in SlotsIn(screen.plan) /\ job.status \in Statuses
         /\ At(screen.plan, job.slot) \in Shifts
         /\ Step = "late" => mode.late /\ IsLate(At(screen.plan, job.slot))
<1>1. 1 \in DOMAIN job.todo /\ job.todo[1] = Step
  BY StepIs DEF Shapes
<1>2. /\ job.slot \in SlotsIn(screen.plan) /\ job.status \in Statuses
      /\ Step = "late" => mode.late /\ IsLate(At(screen.plan, job.slot))
  BY <1>1 DEF Shapes, JobShape, JobOf
<1>3. QED BY <1>2, IdIs

\* Lateness recorded by shift.
LEMMA LateStepShape ==
  ASSUME Shapes, LateStep
  PROVE  Shapes'
<1> DEFINE sh == At(screen.plan, job.slot)
           a == Find(job.slot[1], sh.sched)
           A == accepted[sh.id] \cup {"late"}
           log == [x \in {a} |-> sh.sched]
<1>1. /\ Step = "late" /\ a # 0 /\ lateLogs' = Over(log, lateLogs)
      /\ assignments' = [assignments EXCEPT ![a].start = sh.start]
      /\ recorded' = IF a \in DOMAIN recorded THEN [recorded EXCEPT ![a] = "late"] ELSE recorded
      /\ accepted' = [accepted EXCEPT ![sh.id] = A]
      /\ Then(Tail(job.todo)) /\ UNCHANGED <<mode, made, behind, planner, screen, dirty, torn>>
  BY DEF LateStep, Unmoved
<1>2. sh \in Shifts /\ sh.start \in Times /\ sh.id \in 1 .. made /\ sh.sched \in Times
  <2>1. sh \in Shifts /\ IsLate(sh)
    BY <1>1, SentShift
  <2>2. QED BY <2>1, ShiftHas DEF IsLate
<1>3. a \in DOMAIN assignments
  BY <1>1, FindIs DEF RowsOf
<1>4. BoundsShape' /\ ScreenShape' /\ PlanShape(planner)' /\ FlagsShape' /\ Rows' = Rows /\ Times' = Times
  BY <1>1, Unmoving
<1>5. JobShape'
  BY <1>1, GoesOnShape
<1>6. GhostsShape'
  <2>1. A \in SUBSET Marks /\ behind' \subseteq 1 .. made
    BY <1>1, <1>2 DEF Shapes, GhostsShape, Marks, Statuses
  <2> HIDE DEF A, sh
  <2>2. QED BY <1>1, <1>2, <2>1, AcceptedSet
<1>7. TablesShape'
  <2>1. /\ DOMAIN assignments \subseteq 1 .. MaxRows
        /\ assignments \in [DOMAIN assignments -> Rows]
        /\ lateLogs \in [DOMAIN lateLogs -> Times]
        /\ DOMAIN recorded \subseteq DOMAIN assignments
        /\ recorded \in [DOMAIN recorded -> Statuses]
    BY DEF Shapes, TablesShape
  <2> HIDE DEF a, sh
  <2>2. lateLogs' \in [DOMAIN lateLogs' -> Times]
    BY <1>1, <1>2, <2>1 DEF Over
  <2>3. [assignments[a] EXCEPT !.start = sh.start] \in Rows
    BY <1>2, <1>3, <2>1 DEF Rows
  <2>4. DOMAIN assignments' = DOMAIN assignments /\ assignments' \in [DOMAIN assignments' -> Rows]
    <3>1. assignments' = [assignments EXCEPT ![a] = [assignments[a] EXCEPT !.start = sh.start]]
      BY <1>1
    <3> DEFINE r == [assignments[a] EXCEPT !.start = sh.start]
    <3> HIDE DEF r
    <3>2. assignments' = [assignments EXCEPT ![a] = r] /\ r \in Rows
      BY <2>3, <3>1 DEF r
    <3>3. QED BY <2>1, <3>2
  <2>5. DOMAIN recorded' = DOMAIN recorded /\ recorded' \in [DOMAIN recorded' -> Statuses]
    BY <1>1, <2>1 DEF Statuses
  <2>6. QED BY <1>4, <2>1, <2>2, <2>4, <2>5 DEF TablesShape
<1>8. QED BY <1>4, <1>5, <1>6, <1>7 DEF Shapes

\* A status recorded by shift, its answer heard or lost.
LEMMA UpsertShape ==
  ASSUME Shapes, Upsert
  PROVE  Shapes'
<1> DEFINE sh == At(screen.plan, job.slot)
           a == Find(job.slot[1], ScheduledStart(sh))
           A == {job.status}
           row == [x \in {a} |-> job.status]
           id == sh.id
<1>1. /\ Step = "upsert" /\ a # 0 /\ recorded' = Over(row, recorded)
      /\ accepted' = [accepted EXCEPT ![id] = A] /\ job' = NoJob
      /\ \/ ShowPlan(Mark(job.slot, job.status)) /\ behind' = behind \ {id}
         \/ behind' = behind \cup {id} /\ UNCHANGED <<screen, dirty>>
      /\ UNCHANGED <<mode, planner, assignments, lateLogs, made, torn>>
  BY DEF Upsert
<1>2. /\ job.slot \in SlotsIn(screen.plan) /\ job.status \in Statuses
      /\ id \in 1 .. made
  <2>1. sh \in Shifts /\ job.slot \in SlotsIn(screen.plan) /\ job.status \in Statuses
    BY <1>1, SentShift
  <2>2. QED BY <2>1, ShiftHas
<1>3. a \in DOMAIN assignments
  BY <1>1, FindIs DEF RowsOf
<1>4. BoundsShape' /\ PlanShape(planner)' /\ Shifts' = Shifts
  BY <1>1, Unmoving
<1> HIDE DEF a, id
<1>5. GhostsShape'
  <2>1. A \in SUBSET Marks /\ behind' \subseteq 1 .. made
    BY <1>1, <1>2 DEF Shapes, GhostsShape, Marks
  <2> HIDE DEF A
  <2>2. QED BY <1>1, <1>2, <2>1, AcceptedSet
<1>6. TablesShape'
  <2>1. DOMAIN recorded \subseteq DOMAIN assignments /\ \A x \in DOMAIN recorded : recorded[x] \in Statuses
    BY DEF Shapes, TablesShape
  <2>2. recorded' \in [DOMAIN recorded' -> Statuses] /\ DOMAIN recorded' \subseteq DOMAIN assignments
    BY <1>1, <1>2, <1>3, <2>1 DEF Over
  <2>3. QED BY <1>1, <2>2, RecordedShape
<1>7. ScreenShape' /\ FlagsShape'
  <2>1. CASE ShowPlan(Mark(job.slot, job.status))
    <3>1. PlanOf(screen.plan, Shifts) /\ ScreenShape
      BY DEF Shapes, ScreenShape, PlanShape
    <3>2. PlanOf(Mark(job.slot, job.status), Shifts')
      BY <1>2, <1>4, <3>1, MarkDoes
    <3>3. QED BY <1>1, <2>1, <3>1, <3>2, ScreenPlan DEF ShowPlan, Shapes, FlagsShape
  <2>2. CASE UNCHANGED <<screen, dirty>>
    BY <1>1, <2>2, Unmoving
  <2>3. QED BY <1>1, <2>1, <2>2
<1>8. JobShape'
  BY <1>1, JobNone DEF JobShape
<1>9. QED BY <1>4, <1>5, <1>6, <1>7, <1>8 DEF Shapes

\* A request given up.
LEMMA KilledShape ==
  ASSUME Shapes, Killed
  PROVE  Shapes'
<1>1. /\ UNCHANGED <<mode, screen, planner, tables, dirty, ghosts>> /\ job' = NoJob /\ torn' = TRUE
  BY DEF Killed
<1>2. BoundsShape' /\ ScreenShape' /\ PlanShape(planner)' /\ TablesShape' /\ GhostsShape'
  BY <1>1, Unmoving DEF ghosts
<1>3. JobShape' /\ FlagsShape'
  BY <1>1, JobNone DEF Shapes, JobShape, FlagsShape
<1>4. QED BY <1>2, <1>3 DEF Shapes

\* On another page, a record is made, changed or deleted.
Elsewise(a, st) ==
  /\ a \in DOMAIN assignments /\ st \in Marks /\ Elsewhere(a, st)
  /\ recorded' \in [DOMAIN recorded' -> Statuses] /\ DOMAIN recorded' \subseteq DOMAIN assignments
  /\ \A b \in DOMAIN assignments : Recorded(b)' = IF b = a THEN st ELSE Recorded(b)

\* That is what the attendance page and booking on do.
LEMMA PagesDo ==
  ASSUME Shapes, PageStep
  PROVE  \E a, st : Elsewise(a, st)
<1>1. DOMAIN recorded \subseteq DOMAIN assignments /\ \A x \in DOMAIN recorded : recorded[x] \in Statuses
  BY DEF Shapes, TablesShape
<1>2. mode.marks \subseteq Statuses /\ "late" \in Statuses /\ Statuses \subseteq Marks /\ "none" \in Marks
  BY DEF Shapes, BoundsShape, Sensible, Statuses, Marks
<1>3. ASSUME NEW a, NEW st \in mode.marks, UpdateAttendance(a, st)
      PROVE  Elsewise(a, st)
  <2>1. a \in DOMAIN recorded /\ recorded' = [recorded EXCEPT ![a] = st] /\ Elsewhere(a, st)
    BY <1>3 DEF UpdateAttendance
  <2>2. DOMAIN recorded' = DOMAIN recorded
        /\ \A x \in DOMAIN recorded : recorded'[x] = IF x = a THEN st ELSE recorded[x]
    <3>1. recorded \in [DOMAIN recorded -> Statuses]
      BY DEF Shapes, TablesShape
    <3>2. QED BY <2>1, <3>1
  <2>3. recorded' \in [DOMAIN recorded' -> Statuses]
    <3>1. recorded \in [DOMAIN recorded -> Statuses]
      BY DEF Shapes, TablesShape
    <3>2. QED BY <1>2, <2>1, <3>1
  <2>4. QED BY <1>1, <1>2, <2>1, <2>2, <2>3 DEF Elsewise, Recorded
<1>4. ASSUME NEW a, NEW st \in mode.marks \cup {"late"}, BookOn(a, st)
      PROVE  Elsewise(a, st)
  <2>1. a \in DOMAIN assignments /\ recorded' = Over([x \in {a} |-> st], recorded) /\ Elsewhere(a, st)
    BY <1>4 DEF BookOn
  <2>2. DOMAIN recorded' = (DOMAIN recorded) \cup {a}
        /\ \A x \in DOMAIN recorded' : recorded'[x] = IF x = a THEN st ELSE recorded[x]
    BY <2>1 DEF Over
  <2>3. recorded' \in [DOMAIN recorded' -> Statuses]
    BY <1>1, <1>2, <2>1 DEF Over
  <2>4. QED BY <1>1, <1>2, <2>1, <2>2, <2>3 DEF Elsewise, Recorded
<1>5. ASSUME NEW a, DeleteAttendance(a)
      PROVE  Elsewise(a, "none")
  <2>1. a \in DOMAIN recorded /\ recorded' = Restrict(recorded, DOMAIN recorded \ {a})
        /\ Elsewhere(a, "none")
    BY <1>5 DEF DeleteAttendance
  <2>2. DOMAIN recorded' = (DOMAIN recorded) \ {a}
        /\ \A x \in DOMAIN recorded' : recorded'[x] = recorded[x]
    BY <2>1 DEF Restrict
  <2>3. recorded' \in [DOMAIN recorded' -> Statuses]
    BY <1>1, <2>1 DEF Restrict
  <2>4. QED BY <1>1, <1>2, <2>1, <2>2, <2>3 DEF Elsewise, Recorded
<1>6. QED BY <1>3, <1>4, <1>5 DEF PageStep

\* They leave everything of its shape.
LEMMA PageShape ==
  ASSUME Shapes, PageStep
  PROVE  Shapes'
<1>1. PICK a, st : Elsewise(a, st)
  BY PagesDo
<1> DEFINE id == assignments[a].id
           A == {st}
<1>2. /\ accepted' = [accepted EXCEPT ![id] = A] /\ behind' = behind \cup {id} /\ A \in SUBSET Marks
      /\ UNCHANGED <<mode, screen, planner, assignments, lateLogs, job, dirty, made, torn>>
  BY <1>1 DEF Elsewise, Elsewhere
<1>3. id \in 1 .. made
  BY <1>1, RowIs DEF Elsewise
<1>4. TablesShape'
  BY <1>1, <1>2, RecordedShape DEF Elsewise
<1>5. behind' \subseteq 1 .. made
  BY <1>2, <1>3 DEF Shapes, GhostsShape
<1> HIDE DEF id, A
<1>6. GhostsShape'
  BY <1>2, <1>3, <1>5, AcceptedSet
<1>7. BoundsShape' /\ ScreenShape' /\ PlanShape(planner)' /\ FlagsShape' /\ JobShape'
  BY <1>2, Unmoving
<1>8. QED BY <1>4, <1>6, <1>7 DEF Shapes

\* Every step does.
LEMMA ShapesKept ==
  ASSUME Shapes, [PublicationNext]_planVars
  PROVE  Shapes'
<1>1. mode.guards \subseteq Guards /\ mode.marks \subseteq Statuses
  BY DEF Shapes, BoundsShape, Sensible
<1>2. CASE ScreenStep
  <2>1. ASSUME NEW g \in mode.guards, NEW t \in Times, AddShift(g, t)
        PROVE  Shapes'
    BY <1>1, <2>1, AddShiftShape
  <2>2. ASSUME NEW g \in mode.guards, NEW i \in Ids,
               \/ RemoveShift(g, i) \/ ClearMark(g, i)
               \/ \E t \in Times : Retime(g, i, t)
               \/ \E st \in mode.marks, late \in BOOLEAN : MarkDraft(g, i, st, late)
        PROVE  Shapes'
    BY <1>1, <2>2, EditsShape
  <2>3. ASSUME NEW g \in mode.guards, NEW i \in Ids, NEW st \in mode.marks, NEW late \in BOOLEAN,
               MarkPublished(g, i, st, late)
        PROVE  Shapes'
    BY <1>1, <2>3, ButtonsShape
  <2>4. ASSUME NEW G \in {mode.guards} \cup {{g} : g \in mode.guards}, PublishButton(G) \/ Unpublish(G)
        PROVE  Shapes'
    <3>1. G \in SUBSET Guards
      BY <1>1
    <3>2. QED BY <2>4, <3>1, ButtonsShape
  <2>5. CASE Load \/ Save
    BY <2>5, ButtonsShape
  <2>6. QED BY <1>2, <2>1, <2>2, <2>3, <2>4, <2>5 DEF ScreenStep
<1>3. CASE ServerStep
  BY <1>3, SavingShape, PublishStepShape, LateStepShape, UpsertShape DEF ServerStep
<1>4. CASE Killed
  BY <1>4, KilledShape
<1>5. CASE PageStep
  BY <1>5, PageShape
<1>6. CASE UNCHANGED planVars
  <2>1. UNCHANGED <<mode, made, screen, planner, tables, accepted, behind, dirty, torn, job>>
    BY <1>6 DEF planVars, tables
  <2>2. QED BY <2>1, Unmoving DEF Shapes
<1>7. QED BY <1>2, <1>3, <1>4, <1>5, <1>6 DEF PublicationNext

\* So it is at first.
LEMMA ShapesBegin ==
  ASSUME PublicationInit
  PROVE  Shapes
<1>1. /\ mode \in Modes /\ planner = NoPlan /\ screen = [plan |-> NoPlan, published |-> {}]
      /\ assignments = <<>> /\ recorded = <<>> /\ lateLogs = <<>> /\ job = NoJob /\ dirty = FALSE
      /\ made = 0 /\ accepted = <<>> /\ behind = {} /\ torn = FALSE
  BY DEF PublicationInit
<1>2. BoundsShape /\ FlagsShape
  BY <1>1, PublicationAssumption DEF BoundsShape, Sensible, FlagsShape
<1>3. PlanShape(planner) /\ ScreenShape
  BY <1>1, NoPlanOf DEF PlanShape, ScreenShape
<1>4. JobShape
  BY <1>1, JobNone DEF JobShape
<1>5. \A S : <<>> \in [DOMAIN <<>> -> S]
  OBVIOUS
<1>6. DOMAIN assignments = {} /\ DOMAIN recorded = {} /\ DOMAIN lateLogs = {} /\ DOMAIN accepted = {}
  BY <1>1
<1>7. TablesShape
  BY <1>1, <1>5, <1>6 DEF TablesShape
<1>8. GhostsShape
  <2>1. 1 .. made = {} /\ made \in 0 .. mode.shifts
    BY <1>1, <1>2 DEF BoundsShape, Sensible
  <2>2. QED BY <1>1, <1>5, <1>6, <2>1 DEF GhostsShape
<1>9. QED BY <1>2, <1>3, <1>4, <1>7, <1>8 DEF Shapes

-----------------------------------------------------------------------------
(* What is on screen and what is stored stay in step.                      *)

\* No guard of a row is new, if none of a new row is.
LEMMA GuardsRemade ==
  ASSUME NEW G, NEW new, NEW slot, Remade(G, new, slot)
  PROVE  /\ \A a \in DOMAIN assignments' :
              \/ a \in Kept(G) /\ a \in DOMAIN assignments /\ assignments'[a] = assignments[a]
                   /\ assignments[a].guard \notin G
              \/ a \in new /\ slot[a] \in SlotsIn(planner) /\ slot[a][1] \in G
                   /\ assignments'[a].guard = slot[a][1]
                   /\ assignments'[a].id = At(planner, slot[a]).id
                   /\ assignments'[a].start = At(planner, slot[a]).start
         /\ Kept(G) \subseteq DOMAIN assignments' /\ new \subseteq DOMAIN assignments'
BY DEF Remade, NewRows, NewAssignments, Kept

\* Every step keeps them so.
LEMMA StoredKept ==
  ASSUME Shapes, Stored, [PublicationNext]_planVars
  PROVE  Stored'
<1>1. mode.guards \subseteq Guards /\ mode.marks \subseteq Statuses
  BY DEF Shapes, BoundsShape, Sensible
<1>2. ASSUME UNCHANGED <<assignments, job>>, screen'.published = screen.published, dirty' = TRUE, job = NoJob
      PROVE  Stored'
  BY <1>2 DEF Stored, PublishedGuards
<1>3. ASSUME UNCHANGED assignments, screen'.published = screen.published, dirty' = FALSE,
             planner'.shifts = screen'.plan.shifts
      PROVE  Stored'
  BY <1>3 DEF Stored, PublishedGuards
<1>4. ASSUME UNCHANGED <<screen, dirty>>, planner'.shifts \in {planner.shifts, screen.plan.shifts},
             job' = NoJob \/ job # NoJob, PublishedGuards' \subseteq PublishedGuards
      PROVE  Stored'
  BY <1>4 DEF Stored
<1>5. ASSUME NEW g \in mode.guards, NEW t \in Times, AddShift(g, t)
      PROVE  Stored'
  <2>1. screen'.published = screen.published
    BY <1>1, <1>5, AddShiftDoes
  <2>2. QED BY <1>2, <1>5, <2>1 DEF AddShift, ShowPlan, OnScreen, MayEdit, tables
<1>6. ASSUME NEW g \in mode.guards, NEW i, RemoveShift(g, i)
      PROVE  Stored'
  <2>1. screen'.published = screen.published
    BY <1>1, <1>6, RemoveShiftDoes
  <2>2. QED BY <1>2, <1>6, <2>1 DEF RemoveShift, ShowPlan, OnScreen, MayEdit, tables
<1>7. ASSUME NEW g \in mode.guards, NEW i, ClearMark(g, i)
      PROVE  Stored'
  <2>1. screen'.published = screen.published
    BY <1>1, <1>7, ClearMarkDoes
  <2>2. QED BY <1>2, <1>7, <2>1 DEF ClearMark, ShowPlan, OnScreen, MayEdit, tables
<1>8. ASSUME NEW g \in mode.guards, NEW i, NEW t \in Times, Retime(g, i, t)
      PROVE  Stored'
  <2>1. screen'.published = screen.published
    BY <1>1, <1>8, RetimeDoes
  <2>2. QED BY <1>2, <1>8, <2>1 DEF Retime, ShowPlan, OnScreen, MayEdit, tables
<1>9. ASSUME NEW g \in mode.guards, NEW i, NEW st \in mode.marks, NEW late \in BOOLEAN,
             MarkDraft(g, i, st, late)
      PROVE  Stored'
  <2>1. screen'.published = screen.published
    BY <1>1, <1>9, MarkDraftDoes
  <2>2. QED BY <1>2, <1>9, <2>1 DEF MarkDraft, ShowPlan, OnScreen, MayEdit, tables
<1>10. ASSUME NEW g \in mode.guards, NEW i, NEW st \in mode.marks, NEW late \in BOOLEAN,
              MarkPublished(g, i, st, late)
       PROVE  Stored'
  <2>1. screen'.published = screen.published /\ planner' = screen'.plan
    BY <1>1, <1>10, MarkPublishedDoes
  <2>2. QED BY <1>3, <1>10, <2>1 DEF MarkPublished, Begin, tables
<1>11. CASE Load
  <2>1. /\ UNCHANGED <<assignments, job, dirty>> /\ job = NoJob /\ planner' = screen'.plan
        /\ screen'.published = PublishedGuards
    BY <1>11 DEF Load, tables
  <2>2. QED BY <2>1 DEF Stored, PublishedGuards
<1>12. ASSUME Save \/ \E G : PublishButton(G)
       PROVE  Stored'
  BY <1>3, <1>12 DEF Save, PublishButton, Begin, tables
<1>13. ASSUME NEW G, Unpublish(G)
       PROVE  Stored'
  <2> DEFINE kept == DOMAIN assignments \ UNION {RowsOf(g) : g \in G}
  <2>1. /\ UNCHANGED <<planner, job, dirty>> /\ assignments' = Restrict(assignments, kept)
        /\ screen' = [screen EXCEPT !.published = PublishedGuards \ G]
    BY <1>13 DEF Unpublish
  <2>2. screen'.plan = screen.plan /\ screen'.published = PublishedGuards \ G
    BY <2>1 DEF Shapes, ScreenShape
  <2>3. \A a \in kept : assignments[a].guard \in PublishedGuards \ G
    BY DEF PublishedGuards, RowsOf
  <2> HIDE DEF kept
  <2>4. PublishedGuards' \subseteq PublishedGuards \ G
    BY <2>1, <2>3 DEF PublishedGuards, Restrict
  <2>5. QED BY <2>1, <2>2, <2>4 DEF Stored
<1>14. ASSUME Step # "none"
       PROVE  job # NoJob
  BY <1>14, StepIs DEF Shapes
<1>15. CASE Store
  BY <1>4, <1>14, <1>15 DEF Store, tables, PublishedGuards
<1>16. CASE Heal
  <2>1. planner'.shifts = planner.shifts
    BY <1>16, HealedDoes DEF Heal
  <2>2. QED BY <1>4, <1>14, <1>16, <2>1 DEF Heal, tables, PublishedGuards
<1>17. CASE Sync
  <2>1. UNCHANGED <<screen, dirty, planner>> /\ job # NoJob
    BY <1>14, <1>17 DEF Sync, SyncLateness, SyncAttendance
  <2>2. DOMAIN assignments' = DOMAIN assignments
        /\ \A a \in DOMAIN assignments : assignments'[a].guard = assignments[a].guard
    <3>1. CASE SyncAttendance
      BY <3>1 DEF SyncAttendance
    <3>2. CASE SyncLateness
      <4>1. \A a \in DOMAIN assignments :
              assignments[a] = [guard |-> assignments[a].guard, id |-> assignments[a].id,
                                start |-> assignments[a].start]
        BY DEF Shapes, TablesShape, Rows
      <4> DEFINE x(a) == At(planner, (CHOOSE h \in Hits(LateSlots) : h[1] = a)[2]).start
      <4>2. assignments' = [a \in DOMAIN assignments |->
              IF \E h \in Hits(LateSlots) : h[1] = a
                THEN [assignments[a] EXCEPT !.start = x(a)] ELSE assignments[a]]
        BY <3>2 DEF SyncLateness
      <4> HIDE DEF x
      <4>3. QED BY <4>1, <4>2
    <3>3. QED BY <1>17, <3>1, <3>2 DEF Sync
  <2>3. PublishedGuards' = PublishedGuards
    BY <2>2 DEF PublishedGuards
  <2>4. QED BY <1>4, <2>1, <2>3
<1>18. CASE Rebuild
  <2>1. UNCHANGED <<screen, dirty, planner>> /\ job # NoJob
    BY <1>14, <1>18 DEF Rebuild
  <2>2. PublishedGuards' \subseteq PublishedGuards
    <3>1. ASSUME NEW g \in Changed, Publish({g})
          PROVE  PublishedGuards' \subseteq PublishedGuards
      <4>1. g \in PublishedGuards /\ {g} \in SUBSET Guards
        BY PublishedAre DEF Changed
      <4>2. PICK new, slot : Remade({g}, new, slot)
        BY <3>1, <4>1, Republished
      <4>3. QED BY <4>1, <4>2, GuardsRemade DEF PublishedGuards
    <3>2. QED BY <1>18, <3>1 DEF Rebuild, tables, PublishedGuards
  <2>3. QED BY <1>4, <2>1, <2>2
<1>19. CASE PublishStep
  <2>1. UNCHANGED <<dirty, planner>> /\ job # NoJob /\ screen'.plan = screen.plan
        /\ screen'.published = PublishedGuards'
    BY <1>14, <1>19 DEF PublishStep, Shapes, ScreenShape, PublishedGuards
  <2>2. QED BY <2>1 DEF Stored
<1>20. CASE LateStep
  <2> DEFINE a == Find(job.slot[1], At(screen.plan, job.slot).sched)
             t == At(screen.plan, job.slot).start
  <2>1. UNCHANGED <<screen, dirty, planner>> /\ job # NoJob /\ a # 0
        /\ assignments' = [assignments EXCEPT ![a].start = t]
    BY <1>14, <1>20 DEF LateStep
  <2>2. a \in DOMAIN assignments
    BY <2>1, FindIs DEF RowsOf
  <2> HIDE DEF a, t
  <2>3. DOMAIN assignments' = DOMAIN assignments
        /\ \A b \in DOMAIN assignments : assignments'[b].guard = assignments[b].guard
    BY <2>1, <2>2 DEF Shapes, TablesShape, Rows
  <2>4. PublishedGuards' = PublishedGuards
    BY <2>3 DEF PublishedGuards
  <2>5. QED BY <1>4, <2>1, <2>4
<1>21. CASE Upsert
  <2>1. UNCHANGED <<assignments, planner>> /\ job' = NoJob /\ PublishedGuards' = PublishedGuards
    BY <1>21 DEF Upsert, PublishedGuards
  <2>2. CASE UNCHANGED <<screen, dirty>>
    BY <1>4, <2>1, <2>2
  <2>3. CASE ShowPlan(Mark(job.slot, job.status))
    BY <2>1, <2>3, ScreenPlan DEF Stored, ShowPlan, Shapes
  <2>4. QED BY <1>21, <2>2, <2>3 DEF Upsert
<1>22. CASE Killed
  BY <1>4, <1>22 DEF Killed, tables, PublishedGuards
<1>23. CASE PageStep
  <2>1. \E a, st : Elsewise(a, st)
    BY <1>23, PagesDo
  <2>2. UNCHANGED <<screen, planner, assignments, job, dirty>>
    BY <2>1 DEF Elsewise, Elsewhere
  <2>3. QED BY <2>2 DEF Stored, PublishedGuards
<1>24. CASE UNCHANGED planVars
  BY <1>24 DEF planVars, Stored, PublishedGuards
<1>25. CASE ScreenStep
  BY <1>5, <1>6, <1>7, <1>8, <1>9, <1>10, <1>11, <1>12, <1>13, <1>25 DEF ScreenStep
<1>26. CASE ServerStep
  BY <1>15, <1>16, <1>17, <1>18, <1>19, <1>20, <1>21, <1>26 DEF ServerStep
<1>27. QED BY <1>22, <1>23, <1>24, <1>25, <1>26 DEF PublicationNext

-----------------------------------------------------------------------------
(* Shifts not late by minutes: what the parts of Plain give each other.    *)

\* The time a shift should have is the time it has.
LEMMA OnTime ==
  ASSUME Punctual, NEW p \in {screen.plan, planner}, NEW s \in SlotsIn(p)
  PROVE  ScheduledStart(At(p, s)) = At(p, s).start
BY DEF Punctual, ScheduledStart, IsLate

\* Claims are those of slots on screen, slots in store and rows.
LEMMA ClaimsAre ==
  /\ \A p \in {screen.plan, planner} : \A s \in SlotsIn(p) :
       <<s[1], At(p, s).start, At(p, s).id>> \in Claims
  /\ \A a \in DOMAIN assignments :
       <<assignments[a].guard, assignments[a].start, assignments[a].id>> \in Claims
  /\ \A c \in Claims :
       \/ \E p \in {screen.plan, planner} : \E s \in SlotsIn(p) : c = <<s[1], At(p, s).start, At(p, s).id>>
       \/ \E a \in DOMAIN assignments :
            c = <<assignments[a].guard, assignments[a].start, assignments[a].id>>
<1>1. \A p, c : c \in PlanClaims(p) <=> \E s \in SlotsIn(p) : c = <<s[1], At(p, s).start, At(p, s).id>>
  BY DEF PlanClaims
<1>2. \A c : c \in RowClaims <=> \E a \in DOMAIN assignments :
         c = <<assignments[a].guard, assignments[a].start, assignments[a].id>>
  BY DEF RowClaims
<1>3. QED BY <1>1, <1>2 DEF Claims

\* A slot and a row of one guard and time, or of one shift, are of one guard and one shift.
LEMMA RowOfSlot ==
  ASSUME Distinct, NEW p \in {screen.plan, planner}, NEW s \in SlotsIn(p), NEW a \in DOMAIN assignments,
         \/ assignments[a].guard = s[1] /\ assignments[a].start = At(p, s).start
         \/ assignments[a].id = At(p, s).id
  PROVE  assignments[a].guard = s[1] /\ assignments[a].id = At(p, s).id
<1> DEFINE c == <<s[1], At(p, s).start, At(p, s).id>>
           d == <<assignments[a].guard, assignments[a].start, assignments[a].id>>
<1>1. c \in Claims /\ d \in Claims
  BY ClaimsAre
<1>2. QED BY <1>1 DEF Distinct

\* With no new claims, they stay distinct.
LEMMA FewerClaims ==
  ASSUME Distinct, Claims' \subseteq Claims
  PROVE  Distinct'
BY DEF Distinct

\* A time that is free is nobody's.
LEMMA FreeIs ==
  ASSUME Shapes, NEW g \in Guards, NEW t \in FreeTimes(g), NEW c \in Claims
  PROVE  ~(c[1] = g /\ c[2] = t)
<1> SUFFICES ASSUME c[1] = g, c[2] = t
             PROVE  t \in Taken(g)
  BY DEF FreeTimes
<1>1. CASE \E p \in {screen.plan, planner} : \E s \in SlotsIn(p) : c = <<s[1], At(p, s).start, At(p, s).id>>
  <2>0. PICK p \in {screen.plan, planner} :
          \E s \in SlotsIn(p) : c = <<s[1], At(p, s).start, At(p, s).id>>
    BY <1>1
  <2>1. PICK s \in SlotsIn(p) : c = <<s[1], At(p, s).start, At(p, s).id>>
    BY <2>0
  <2>2. s[1] = g /\ At(p, s).start = t
    BY <2>1
  <2>3. s[2] \in DOMAIN p.shifts[g] /\ At(p, s) = p.shifts[g][s[2]]
    BY <2>2, SlotIs DEF At
  <2>4. At(p, s) \in ToSet(p.shifts[g])
    BY <2>3 DEF ToSet
  <2>5. QED BY <2>2, <2>4 DEF Taken
<1>2. CASE \E a \in DOMAIN assignments : c = <<assignments[a].guard, assignments[a].start, assignments[a].id>>
  BY <1>2 DEF Taken, RowsOf
<1>3. QED BY <1>1, <1>2, ClaimsAre

\* One more claim, to a time that is free and by a guard whose shift it is, if anybody's.
LEMMA OneMoreClaim ==
  ASSUME Shapes, Distinct, NEW g \in Guards, NEW t \in FreeTimes(g), NEW id,
         \A c \in Claims : c[3] = id => c[1] = g,
         Claims' \subseteq Claims \cup {<<g, t, id>>}
  PROVE  Distinct'
<1> DEFINE new == <<g, t, id>>
<1>1. new[1] = g /\ new[2] = t /\ new[3] = id
  OBVIOUS
<1> HIDE DEF new
<1>2. \A c \in Claims : ~(c[1] = g /\ c[2] = t)
  BY FreeIs
<1>3. \A c \in Claims' : c \in Claims \/ c = new
  BY DEF new
<1>4. QED BY <1>1, <1>2, <1>3 DEF Distinct

\* Where the plan stored and the rows are as they were, rows follow the plan as they did.
LEMMA FollowedSame ==
  ASSUME Followed, UNCHANGED assignments, planner'.shifts = planner.shifts, Consistent' => Consistent
  PROVE  Followed'
<1>1. SlotsIn(planner)' = SlotsIn(planner) /\ \A s : At(planner, s)' = At(planner, s)
  BY DEF SlotsIn, SlotsOf, At
<1>2. \A g : Follows(g)' <=> Follows(g)
  BY <1>1 DEF Follows, RowsOf
<1>3. QED BY <1>2 DEF Followed, PublishedGuards

-----------------------------------------------------------------------------
(* Edits.                                                                  *)

\* What is to be shown of an edit.
LEMMA EditPlain ==
  ASSUME Shapes, Plain, OnScreen, job = NoJob, dirty' = TRUE,
         \A s \in SlotsIn(screen'.plan) : ~IsLate(At(screen'.plan, s)),
         Distinct', Sole(screen'.plan), Honest(screen.plan)',
         \A a \in DOMAIN assignments : Recorded(a) \in accepted'[assignments[a].id]
  PROVE  Plain'
<1>1. /\ UNCHANGED <<mode, planner, assignments, recorded, lateLogs, job, behind, torn>>
  BY DEF OnScreen, tables
<1>2. Punctual'
  BY <1>1 DEF Plain, Punctual, SlotsIn, SlotsOf, At, IsLate
<1>3. Listed'
  BY <1>1 DEF Plain, Listed, Sole, SlotsIn, SlotsOf, At
<1>4. Followed'
  <2>1. Consistent' => Consistent
    BY <1>1 DEF Consistent
  <2>2. QED BY <1>1, <2>1, FollowedSame DEF Plain
<1>5. \A a : Recorded(a)' = Recorded(a)
  BY <1>1 DEF Recorded
<1>6. Accepted'
  BY <1>1, <1>5 DEF Accepted
<1>7. QED BY <1>2, <1>3, <1>4, <1>6 DEF Plain

\* Edits do not touch what the other claims are made of.
LEMMA EditClaims ==
  ASSUME OnScreen, NEW S, \A s \in SlotsIn(screen'.plan) :
           <<s[1], At(screen'.plan, s).start, At(screen'.plan, s).id>> \in Claims \cup S
  PROVE  Claims' \subseteq Claims \cup S
<1>1. PlanClaims(screen.plan)' \subseteq Claims \cup S
  BY DEF PlanClaims, SlotsIn, SlotsOf, At
<1>2. PlanClaims(planner)' = PlanClaims(planner) /\ RowClaims' = RowClaims
  BY DEF OnScreen, tables, PlanClaims, RowClaims, SlotsIn, SlotsOf, At
<1>3. QED BY <1>1, <1>2 DEF Claims

\* A shift added has a new id and a time nobody has.
LEMMA AddShiftPlain ==
  ASSUME Shapes, Plain, NEW g \in Guards, NEW t, AddShift(g, t)
  PROVE  Plain'
<1> DEFINE p == screen.plan
           q == screen'.plan
           id == made + 1
           x == [id |-> id, start |-> t, sched |-> Unset]
<1>1. /\ made' = id /\ t \in FreeTimes(g) /\ q.att = p.att /\ OneMore(q, p, g, x)
  BY AddShiftDoes
<1>2. /\ OnScreen /\ job = NoJob /\ dirty' = TRUE /\ UNCHANGED behind
      /\ accepted' = Over([z \in {id} |-> {"none"}], accepted)
  BY <1>1 DEF AddShift, MayEdit, ShowPlan
<1>3. made \in Nat /\ accepted \in [1 .. made -> SUBSET Marks]
  BY DEF Shapes, BoundsShape, Sensible, GhostsShape
<1>4. accepted'[id] = {"none"} /\ \A z \in 1 .. made : accepted'[z] = accepted[z]
  BY <1>2, <1>3 DEF Over
<1>5. PICK n : /\ n[1] = g /\ n \notin SlotsIn(p) /\ SlotsIn(q) = SlotsIn(p) \cup {n}
               /\ At(q, n) = x /\ \A r \in SlotsIn(p) : At(q, r) = At(p, r)
  BY <1>1 DEF OneMore
<1>6. \A r \in SlotsIn(p) : At(p, r).id \in 1 .. made /\ ~IsLate(At(p, r))
  BY IdIs DEF Plain, Punctual
<1>7. x.id = id /\ x.start = t /\ ~IsLate(x)
  BY DEF IsLate
<1>8. \A c \in Claims : c[3] \in 1 .. made
  <2>1. \A pp \in {screen.plan, planner} : \A s \in SlotsIn(pp) : At(pp, s).id \in 1 .. made
    BY IdIs
  <2>2. \A a \in DOMAIN assignments : assignments[a].id \in 1 .. made
    BY RowIs
  <2>3. QED BY <2>1, <2>2, ClaimsAre
<1>9. id \notin 1 .. made
  BY <1>3
<1> HIDE DEF id, x, q
<1>10. Distinct'
  <2>1. \A s \in SlotsIn(q) : <<s[1], At(q, s).start, At(q, s).id>> \in Claims \cup {<<g, t, id>>}
    <3>1. \A s \in SlotsIn(p) : <<s[1], At(p, s).start, At(p, s).id>> \in Claims
      BY ClaimsAre
    <3>2. QED BY <1>5, <1>7, <3>1
  <2>2. Claims' \subseteq Claims \cup {<<g, t, id>>}
    BY <1>2, <2>1, EditClaims DEF q
  <2>3. \A c \in Claims : c[3] # id
    BY <1>8, <1>9
  <2>4. QED BY <1>1, <2>2, <2>3, OneMoreClaim DEF Plain
<1>11. Sole(q)
  BY <1>5, <1>6, <1>7, <1>9 DEF Plain, Listed, Sole
<1>12. \A s \in SlotsIn(q) : ~IsLate(At(q, s))
  BY <1>5, <1>6, <1>7
<1>13. \A s \in SlotsIn(q) : At(q, s).id \notin behind => Shown(q, s) \in accepted'[At(q, s).id]
  <2>1. \A s : Shown(q, s) = Shown(p, s)
    BY <1>1 DEF Shown
  <2>2. Shown(p, n) = "none"
    BY <1>5 DEF Shown, Shapes, ScreenShape, PlanShape, PlanOf
  <2>3. Honest(p)
    BY DEF Plain, Accepted
  <2>4. QED BY <1>4, <1>5, <1>6, <1>7, <2>1, <2>2, <2>3 DEF Honest
<1>14. Honest(screen.plan)'
  BY <1>2, <1>13 DEF Honest, Shown, SlotsIn, SlotsOf, At, q
<1>15. \A a \in DOMAIN assignments : Recorded(a) \in accepted'[assignments[a].id]
  BY <1>4, RowIs DEF Plain, Accepted
<1>16. QED BY <1>2, <1>10, <1>11, <1>12, <1>14, <1>15, EditPlain DEF q

\* A shift removed takes its mark along; marks that move down stay with their shifts.
LEMMA RemoveShiftPlain ==
  ASSUME Shapes, Plain, NEW g \in Guards, NEW i, RemoveShift(g, i)
  PROVE  Plain'
<1> DEFINE p == screen.plan
           q == screen'.plan
           from(s) == From(g, i, s)
<1>1. /\ \A s \in SlotsIn(q) : from(s) \in SlotsIn(p) /\ At(q, s) = At(p, from(s))
                               /\ Shown(q, s) = Shown(p, from(s))
      /\ \A s, t \in SlotsIn(q) : from(s) = from(t) => s = t
  BY RemoveShiftDoes
<1>2. OnScreen /\ job = NoJob /\ dirty' = TRUE /\ UNCHANGED <<accepted, behind>>
  BY DEF RemoveShift, MayEdit, ShowPlan, ghosts
<1>3. \A s : from(s)[1] = s[1]
  BY DEF From
<1> HIDE DEF from, q
<1>4. \A s \in SlotsIn(q) : ~IsLate(At(q, s))
  BY <1>1 DEF Plain, Punctual
<1>5. Distinct'
  <2>1. \A s \in SlotsIn(q) : <<s[1], At(q, s).start, At(q, s).id>> \in Claims \cup {}
    BY <1>1, <1>3, ClaimsAre
  <2>2. Claims' \subseteq Claims \cup {}
    BY <1>2, <2>1, EditClaims DEF q
  <2>3. QED BY <2>2, FewerClaims DEF Plain
<1>6. Sole(q)
  BY <1>1 DEF Plain, Listed, Sole
<1>7. \A s \in SlotsIn(q) : At(q, s).id \notin behind => Shown(q, s) \in accepted[At(q, s).id]
  BY <1>1 DEF Plain, Accepted, Honest
<1>8. Honest(screen.plan)'
  BY <1>2, <1>7 DEF Honest, Shown, SlotsIn, SlotsOf, At, q
<1>9. \A a \in DOMAIN assignments : Recorded(a) \in accepted'[assignments[a].id]
  BY <1>2 DEF Plain, Accepted
<1>10. QED BY <1>2, <1>4, <1>5, <1>6, <1>8, <1>9, EditPlain DEF q

\* A shift moved gets a time nobody has.
LEMMA RetimePlain ==
  ASSUME Shapes, Plain, NEW g \in Guards, NEW i, NEW t, Retime(g, i, t)
  PROVE  Plain'
<1> DEFINE p == screen.plan
           q == screen'.plan
           s == <<g, i>>
           x == [At(p, s) EXCEPT !.start = t]
           id == At(p, s).id
<1>1. /\ t \in FreeTimes(g) /\ OneChanged(q, p, s, x) /\ q.att = p.att
      /\ x.start = t /\ x.id = id /\ ~IsLate(x)
  BY RetimeDoes
<1>2. OnScreen /\ job = NoJob /\ dirty' = TRUE /\ UNCHANGED <<accepted, behind>>
  BY DEF Retime, MayEdit, ShowPlan, ghosts
<1>3. s[1] = g
  OBVIOUS
<1> HIDE DEF x, q, s
<1>4. /\ SlotsIn(q) = SlotsIn(p) /\ s \in SlotsIn(p)
      /\ \A r \in SlotsIn(p) : At(q, r) = IF r = s THEN x ELSE At(p, r)
  BY <1>1 DEF OneChanged
<1>5. \A r \in SlotsIn(q) : ~IsLate(At(q, r)) /\ At(q, r).id = At(p, r).id
  BY <1>1, <1>4 DEF Plain, Punctual
<1>6. Distinct'
  <2>1. \A r \in SlotsIn(q) : <<r[1], At(q, r).start, At(q, r).id>> \in Claims \cup {<<g, t, id>>}
    <3>1. \A r \in SlotsIn(p) : <<r[1], At(p, r).start, At(p, r).id>> \in Claims
      BY ClaimsAre
    <3>2. QED BY <1>1, <1>3, <1>4, <3>1
  <2>2. Claims' \subseteq Claims \cup {<<g, t, id>>}
    BY <1>2, <2>1, EditClaims DEF q
  <2>3. \A c \in Claims : c[3] = id => c[1] = g
    <3> DEFINE d == <<s[1], At(p, s).start, At(p, s).id>>
    <3>1. d \in Claims /\ d[1] = g /\ d[3] = id
      BY <1>3, <1>4, ClaimsAre
    <3> HIDE DEF d
    <3>2. QED BY <3>1 DEF Plain, Distinct
  <2> HIDE DEF id
  <2>4. QED BY <1>1, <2>2, <2>3, OneMoreClaim DEF Plain
<1>7. Sole(q)
  BY <1>4, <1>5 DEF Plain, Listed, Sole
<1>8. \A r \in SlotsIn(q) : At(q, r).id \notin behind => Shown(q, r) \in accepted[At(q, r).id]
  <2>1. \A r : Shown(q, r) = Shown(p, r)
    BY <1>1 DEF Shown
  <2>2. QED BY <1>4, <1>5, <2>1 DEF Plain, Accepted, Honest
<1>9. Honest(screen.plan)'
  BY <1>2, <1>8 DEF Honest, Shown, SlotsIn, SlotsOf, At, q
<1>10. \A a \in DOMAIN assignments : Recorded(a) \in accepted'[assignments[a].id]
  BY <1>2 DEF Plain, Accepted
<1>11. QED BY <1>2, <1>5, <1>6, <1>7, <1>9, <1>10, EditPlain DEF q

\* The shifts on screen stay, one mark changes, and it is accepted.
LEMMA MarkingPlain ==
  ASSUME Shapes, Plain, OnScreen, job = NoJob, dirty' = TRUE, UNCHANGED <<made, behind>>,
         NEW n \in SlotsIn(screen.plan), NEW st, NEW A,
         SlotsIn(screen'.plan) = SlotsIn(screen.plan),
         \A r \in SlotsIn(screen.plan) : At(screen'.plan, r) = At(screen.plan, r),
         \A r : Shown(screen'.plan, r) = IF r = n THEN st ELSE Shown(screen.plan, r),
         accepted' = [accepted EXCEPT ![At(screen.plan, n).id] = A], st \in A,
         \A a \in DOMAIN assignments : assignments[a].id = At(screen.plan, n).id => Recorded(a) \in A
  PROVE  Plain'
<1> DEFINE p == screen.plan
           q == screen'.plan
           id == At(p, n).id
<1>1. /\ accepted \in [1 .. made -> SUBSET Marks] /\ id \in 1 .. made
  BY IdIs DEF Shapes, GhostsShape
<1>2. accepted'[id] = A /\ \A z \in 1 .. made : z # id => accepted'[z] = accepted[z]
  BY <1>1
<1>3. UNCHANGED behind
  OBVIOUS
<1> HIDE DEF q, id
<1>4. \A r \in SlotsIn(q) : ~IsLate(At(q, r))
  BY DEF Plain, Punctual, q
<1>5. Distinct'
  <2>1. \A r \in SlotsIn(q) : <<r[1], At(q, r).start, At(q, r).id>> \in Claims \cup {}
    BY ClaimsAre DEF q
  <2>2. Claims' \subseteq Claims \cup {}
    BY <2>1, EditClaims DEF q
  <2>3. QED BY <2>2, FewerClaims DEF Plain
<1>6. Sole(q)
  BY DEF Plain, Listed, Sole, q
<1>7. \A r \in SlotsIn(q) : At(q, r).id \notin behind => Shown(q, r) \in accepted'[At(q, r).id]
  <2>1. ASSUME NEW r \in SlotsIn(p), At(p, r).id \notin behind
        PROVE  Shown(q, r) \in accepted'[At(p, r).id]
    <3>1. CASE r = n
      BY <1>2, <3>1 DEF q, id
    <3>2. CASE r # n
      <4>1. At(p, r).id # id /\ At(p, r).id \in 1 .. made
        BY <3>2, IdIs DEF Plain, Listed, Sole, id
      <4>2. Shown(p, r) \in accepted[At(p, r).id]
        BY <2>1 DEF Plain, Accepted, Honest
      <4>3. QED BY <1>2, <3>2, <4>1, <4>2 DEF q
    <3>3. QED BY <3>1, <3>2
  <2>2. QED BY <2>1 DEF q
<1>8. Honest(screen.plan)'
  BY <1>3, <1>7 DEF Honest, Shown, SlotsIn, SlotsOf, At, q
<1>9. ASSUME NEW a \in DOMAIN assignments
      PROVE  Recorded(a) \in accepted'[assignments[a].id]
  <2>1. assignments[a].id \in 1 .. made /\ Recorded(a) \in accepted[assignments[a].id]
    BY RowIs DEF Plain, Accepted
  <2>2. QED BY <1>2, <2>1 DEF id
<1>10. QED BY <1>4, <1>5, <1>6, <1>8, <1>9, EditPlain DEF q

\* A mark on a guard not published is on a shift without assignments.
LEMMA MarkDraftPlain ==
  ASSUME Shapes, Stored, Plain, ~mode.late, NEW g \in Guards, NEW i, NEW st \in Statuses,
         NEW late \in BOOLEAN, MarkDraft(g, i, st, late)
  PROVE  Plain'
<1> DEFINE p == screen.plan
           s == <<g, i>>
           A == {st}
<1>1. /\ OnScreen /\ job = NoJob /\ dirty' = TRUE /\ UNCHANGED <<made, behind>>
      /\ MayMark(g, i, st, late) /\ g \notin screen.published
      /\ accepted' = [accepted EXCEPT ![p.shifts[g][i].id] = A]
  BY DEF MarkDraft, MayEdit, ShowPlan
<1>2. /\ At(p, s) = p.shifts[g][i] /\ s[1] = g
      /\ ~late /\ (~IsLate(At(p, s)) => Timed(At(p, s), st, late) = At(p, s))
  BY <1>1, TimedIs
<1>3. Marked(screen'.plan, s, st, late)
  BY MarkDraftDoes
<1>4. s \in SlotsIn(p)
  BY <1>3 DEF Marked, OneChanged
<1>5. Timed(At(p, s), st, late) = At(p, s)
  BY <1>2, <1>4 DEF Plain, Punctual
<1>6. /\ SlotsIn(screen'.plan) = SlotsIn(p)
      /\ \A r \in SlotsIn(p) : At(screen'.plan, r) = At(p, r)
      /\ \A r : Shown(screen'.plan, r) = IF r = s THEN st ELSE Shown(p, r)
  BY <1>3, <1>5 DEF Marked, OneChanged
<1>7. \A a \in DOMAIN assignments : assignments[a].id # At(p, s).id
  <2>1. ASSUME NEW a \in DOMAIN assignments, assignments[a].id = At(p, s).id
        PROVE  FALSE
    <3>1. assignments[a].guard = g
      BY <1>2, <1>4, <2>1, RowOfSlot DEF Plain
    <3>2. g \in PublishedGuards
      BY <3>1, RowIs
    <3>3. QED BY <1>1, <3>2 DEF Stored
  <2>2. QED BY <2>1
<1> HIDE DEF s
<1>8. QED BY <1>1, <1>2, <1>4, <1>6, <1>7, MarkingPlain

\* A mark cleared leaves what the assignment records.
LEMMA ClearMarkPlain ==
  ASSUME Shapes, Plain, NEW g \in Guards, NEW i, ClearMark(g, i)
  PROVE  Plain'
<1> DEFINE p == screen.plan
           s == <<g, i>>
           id == p.shifts[g][i].id
           A == {"none"} \cup IF HasRow(id) THEN accepted[id] ELSE {}
<1>1. /\ OnScreen /\ job = NoJob /\ dirty' = TRUE /\ UNCHANGED <<made, behind>>
      /\ accepted' = [accepted EXCEPT ![id] = A]
  BY DEF ClearMark, MayEdit, ShowPlan
<1>2. /\ screen'.plan.shifts = p.shifts /\ s \in SlotsIn(p) /\ id = At(p, s).id
      /\ \A r : Shown(screen'.plan, r) = IF r = s THEN "none" ELSE Shown(p, r)
  BY ClearMarkDoes
<1>3. SlotsIn(screen'.plan) = SlotsIn(p) /\ \A r : At(screen'.plan, r) = At(p, r)
  BY <1>2, SameShifts
<1> HIDE DEF s, id
<1>4. \A a \in DOMAIN assignments : assignments[a].id = At(p, s).id => Recorded(a) \in A
  BY <1>2 DEF HasRow, Plain, Accepted
<1>5. "none" \in A
  OBVIOUS
<1> HIDE DEF A
<1>6. accepted' = [accepted EXCEPT ![At(screen.plan, s).id] = A]
  BY <1>1, <1>2
<1>7. QED BY <1>1, <1>2, <1>3, <1>4, <1>5, <1>6, MarkingPlain

-----------------------------------------------------------------------------
(* Loads and requests that begin.                                          *)

\* Two plans list the same shifts in the same slots.
Lists(q, p) == SlotsIn(q) = SlotsIn(p) /\ \A s \in SlotsIn(p) : At(q, s) = At(p, s)

\* Both copies list what one of them listed.
Reordered ==
  /\ \E p \in {screen.plan, planner} : Lists(screen'.plan, p)
  /\ \E p \in {screen.plan, planner} : Lists(planner', p)

\* Then nothing is late, shifts are distinct and listed once, as before.
LEMMA ListsKeep ==
  ASSUME Plain, Reordered, RowClaims' \subseteq Claims, DOMAIN lateLogs' = {},
         \A k \in DOMAIN job'.todo : job'.todo[k] # "lateness"
  PROVE  Punctual' /\ Distinct' /\ Sole(screen'.plan) /\ Sole(planner')
<1>1. PICK p \in {screen.plan, planner} : Lists(screen'.plan, p)
  BY DEF Reordered
<1>2. PICK q \in {screen.plan, planner} : Lists(planner', q)
  BY DEF Reordered
<1>3. Sole(screen'.plan) /\ Sole(planner')
  BY <1>1, <1>2 DEF Plain, Listed, Sole, Lists
<1>4. /\ \A s \in SlotsIn(screen'.plan) : ~IsLate(At(screen'.plan, s))
      /\ \A s \in SlotsIn(planner') : ~IsLate(At(planner', s))
  BY <1>1, <1>2 DEF Plain, Punctual, Lists
<1>5. Punctual'
  BY <1>4 DEF Punctual, SlotsIn, SlotsOf, At, IsLate
<1>6. PlanClaims(screen'.plan) \subseteq Claims /\ PlanClaims(planner') \subseteq Claims
  <2>1. /\ \A s \in SlotsIn(screen'.plan) :
             <<s[1], At(screen'.plan, s).start, At(screen'.plan, s).id>> \in Claims
        /\ \A s \in SlotsIn(planner') :
             <<s[1], At(planner', s).start, At(planner', s).id>> \in Claims
    BY <1>1, <1>2, ClaimsAre DEF Lists
  <2>2. QED BY <2>1 DEF PlanClaims
<1>7. Claims' \subseteq Claims
  <2>1. PlanClaims(screen.plan)' = PlanClaims(screen'.plan) /\ PlanClaims(planner)' = PlanClaims(planner')
    BY DEF PlanClaims, SlotsIn, SlotsOf, At
  <2>2. QED BY <1>6, <2>1 DEF Claims
<1>8. Distinct'
  BY <1>7, FewerClaims DEF Plain
<1>9. QED BY <1>3, <1>5, <1>8

\* Equal lists of shifts are in equal slots.
LEMMA ListsSame ==
  ASSUME NEW p, NEW q, q.shifts = p.shifts
  PROVE  Lists(q, p)
BY SameShifts DEF Lists

\* With the rows as they were.
LEMMA RowsSame ==
  ASSUME UNCHANGED assignments
  PROVE  /\ RowClaims' \subseteq Claims
         /\ Plain => \A a, b \in DOMAIN assignments' : assignments'[a].id = assignments'[b].id => a = b
BY DEF RowClaims, Claims, Plain, Listed

\* What a healed plan shows of a shift is accepted, or what the plan showed before.
LEMMA HealedTells ==
  ASSUME Shapes, Plain, NEW s \in SlotsIn(planner)
  PROVE  LET h == Healed(planner) IN
         \/ Shown(h, s) \in accepted[At(planner, s).id]
         \/ Shown(h, s) = Shown(planner, s) /\ ~\E a \in DOMAIN recorded : Matches(a, s)
<1> DEFINE h == Healed(planner)
<1>1. IF \E a \in DOMAIN recorded : Matches(a, s)
        THEN \E a \in DOMAIN recorded : Matches(a, s) /\ Shown(h, s) = recorded[a]
        ELSE Shown(h, s) = Shown(planner, s)
  BY HealedDoes
<1> HIDE DEF h
<1>2. ASSUME NEW a \in DOMAIN recorded, Matches(a, s), Shown(h, s) = recorded[a]
      PROVE  Shown(h, s) \in accepted[At(planner, s).id]
  <2>1. /\ a \in DOMAIN assignments /\ assignments[a].guard = s[1]
        /\ assignments[a].start = At(planner, s).start
    BY <1>2, OnTime DEF Matches, Plain
  <2>2. assignments[a].id = At(planner, s).id
    BY <2>1, RowOfSlot DEF Plain
  <2>3. recorded[a] \in accepted[assignments[a].id]
    BY <1>2, <2>1 DEF Plain, Accepted, Recorded
  <2>4. QED BY <1>2, <2>2, <2>3
<1>3. QED BY <1>1, <1>2 DEF h

\* A plan that is loaded shows what the rows found in it record.
LEMMA LoadPlain ==
  ASSUME Shapes, Stored, Plain, Load
  PROVE  Plain'
<1> DEFINE h == Healed(planner)
<1>1. /\ UNCHANGED <<assignments, recorded, lateLogs, job, dirty, accepted, torn>> /\ job = NoJob
      /\ ~dirty /\ planner' = h /\ screen'.plan = h /\ behind' = {id \in behind : ~Reached(id)}
  BY DEF Load, tables
<1>2. h.shifts = planner.shifts
  BY HealedDoes
<1>3. Lists(h, planner)
  BY <1>2, ListsSame
<1>4. \A s \in SlotsIn(planner) :
        \/ Shown(h, s) \in accepted[At(planner, s).id]
        \/ Shown(h, s) = Shown(planner, s) /\ ~\E a \in DOMAIN recorded : Matches(a, s)
  BY HealedTells
<1> HIDE DEF h
<1>5. Punctual' /\ Distinct' /\ Sole(screen'.plan) /\ Sole(planner')
  <2>1. RowClaims' \subseteq Claims
    BY <1>1, RowsSame
  <2>2. Reordered
    BY <1>1, <1>3 DEF Reordered
  <2>3. DOMAIN lateLogs' = {} /\ \A k \in DOMAIN job'.todo : job'.todo[k] # "lateness"
    BY <1>1 DEF Plain, Punctual
  <2>4. QED BY <2>1, <2>2, <2>3, ListsKeep
<1>6. Listed'
  BY <1>1, <1>5, RowsSame DEF Listed, Sole, SlotsIn, SlotsOf, At
<1>7. Followed'
  <2>1. Consistent' => Consistent
    BY <1>1 DEF Consistent
  <2>2. QED BY <1>1, <1>2, <2>1, FollowedSame DEF Plain
<1>8. ASSUME NEW s \in SlotsIn(planner), At(planner, s).id \notin behind'
      PROVE  Shown(h, s) \in accepted[At(planner, s).id]
  <2>1. CASE At(planner, s).id \notin behind
    <3>1. Shown(planner, s) \in accepted[At(planner, s).id]
      BY <1>1, <2>1 DEF Plain, Accepted, Honest
    <3>2. QED BY <1>4, <3>1
  <2>2. CASE Reached(At(planner, s).id)
    <3>1. PICK a \in DOMAIN recorded, r \in SlotsIn(planner) :
            /\ assignments[a].id = At(planner, s).id /\ At(planner, r).id = At(planner, s).id
            /\ assignments[a].start = At(planner, r).start
      BY <2>2 DEF Reached
    <3>2. r = s
      BY <3>1 DEF Plain, Listed, Sole
    <3>3. a \in DOMAIN assignments
      BY DEF Shapes, TablesShape
    <3>4. assignments[a].guard = s[1]
      BY <3>1, <3>3, RowOfSlot DEF Plain
    <3>5. Matches(a, s)
      BY <3>1, <3>2, <3>3, <3>4, OnTime DEF Matches, Plain
    <3>6. QED BY <1>4, <3>5
  <2>3. QED BY <1>1, <1>8, <2>1, <2>2
<1>9. Honest(planner)' /\ Honest(screen.plan)'
  <2>1. \A s \in SlotsIn(h) : At(h, s).id \notin behind' => Shown(h, s) \in accepted'[At(h, s).id]
    BY <1>1, <1>3, <1>8 DEF Lists
  <2>2. QED BY <1>1, <2>1 DEF Honest, Shown, SlotsIn, SlotsOf, At
<1>10. Accepted'
  <2>1. \A a : Recorded(a)' = Recorded(a)
    BY <1>1 DEF Recorded
  <2>2. QED BY <1>1, <1>9, <2>1 DEF Plain, Accepted
<1>11. QED BY <1>5, <1>6, <1>7, <1>10 DEF Plain

\* A request begins with a rebuild, of the shifts and marks on screen.
LEMMA BeginPlain ==
  ASSUME Shapes, Plain, UNCHANGED <<tables, accepted, behind>>,
         Lists(screen'.plan, screen.plan), planner' = screen'.plan,
         \A s : Shown(screen'.plan, s) = Shown(screen.plan, s),
         job' # NoJob, Step' = "rebuild", \A k \in DOMAIN job'.todo : job'.todo[k] # "lateness"
  PROVE  Plain'
<1> DEFINE q == screen'.plan
<1>1. UNCHANGED <<assignments, recorded, lateLogs>>
  BY DEF tables
<1>2. Punctual' /\ Distinct' /\ Sole(screen'.plan) /\ Sole(planner')
  <2>1. RowClaims' \subseteq Claims
    BY <1>1, RowsSame
  <2>2. Reordered
    BY DEF Reordered
  <2>3. DOMAIN lateLogs' = {}
    BY <1>1 DEF Plain, Punctual
  <2>4. QED BY <2>1, <2>2, <2>3, ListsKeep
<1>3. Listed'
  BY <1>1, <1>2, RowsSame DEF Listed, Sole, SlotsIn, SlotsOf, At
<1>4. Followed'
  BY DEF Followed, Consistent
<1>5. Honest(screen.plan)' /\ Honest(planner)'
  <2>1. \A s \in SlotsIn(q) : At(q, s).id \notin behind' => Shown(q, s) \in accepted'[At(q, s).id]
    BY DEF Plain, Accepted, Honest, Lists
  <2>2. QED BY <2>1 DEF Honest, Shown, SlotsIn, SlotsOf, At
<1>6. Accepted'
  <2>1. \A a : Recorded(a)' = Recorded(a)
    BY <1>1 DEF Recorded
  <2>2. QED BY <1>1, <1>5, <2>1 DEF Plain, Accepted
<1>7. QED BY <1>2, <1>3, <1>4, <1>6 DEF Plain

\* A save and a publication begin.
LEMMA SavePlain ==
  ASSUME Shapes, Plain, Save \/ \E G \in SUBSET Guards : PublishButton(G)
  PROVE  Plain'
<1>1. UNCHANGED <<tables, accepted, behind, screen>> /\ planner' = screen.plan
  BY DEF Save, PublishButton, Begin
<1>2. job' # NoJob /\ Step' = "rebuild" /\ \A k \in DOMAIN job'.todo : job'.todo[k] # "lateness"
  <2>1. Begin([NoJob EXCEPT !.todo = <<"rebuild">>])
        \/ \E G \in SUBSET Guards : Begin([NoJob EXCEPT !.todo = <<"rebuild", "publish">>, !.guards = G])
    BY DEF Save, PublishButton
  <2>2. QED BY <2>1, BeginsShape
<1>3. Lists(screen'.plan, screen.plan) /\ planner' = screen'.plan
      /\ \A s : Shown(screen'.plan, s) = Shown(screen.plan, s)
  BY <1>1 DEF Lists
<1>4. QED BY <1>1, <1>2, <1>3, BeginPlain

\* So does the request of the attendance dialog.
LEMMA MarkPublishedPlain ==
  ASSUME Shapes, Plain, ~mode.late, NEW g \in Guards, NEW i, NEW st \in Statuses, NEW late \in BOOLEAN,
         MarkPublished(g, i, st, late)
  PROVE  Plain'
<1> DEFINE p == screen.plan
           s == <<g, i>>
           x == Timed(At(p, s), st, late)
<1>1. UNCHANGED <<tables, accepted, behind>> /\ MayMark(g, i, st, late)
  BY DEF MarkPublished, Begin
<1>2. /\ planner' = screen'.plan /\ OneChanged(screen'.plan, p, s, x) /\ screen'.plan.att = p.att
  BY MarkPublishedDoes
<1>3. s \in SlotsIn(p)
  BY <1>2 DEF OneChanged
<1>4. x = At(p, s)
  <2>1. ~late /\ (~late /\ ~IsLate(At(p, s)) => x = At(p, s))
    BY <1>1, TimedIs
  <2>2. ~IsLate(At(p, s))
    BY <1>3 DEF Plain, Punctual
  <2>3. QED BY <2>1, <2>2
<1>5. job' # NoJob /\ Step' = "rebuild" /\ \A k \in DOMAIN job'.todo : job'.todo[k] # "lateness"
  BY MarkingShape
<1> HIDE DEF x, s
<1>6. Lists(screen'.plan, screen.plan)
  BY <1>2, <1>4 DEF Lists, OneChanged
<1>7. \A r : Shown(screen'.plan, r) = Shown(screen.plan, r)
  BY <1>2 DEF Shown
<1>8. QED BY <1>1, <1>2, <1>5, <1>6, <1>7, BeginPlain

\* Guards withdrawn take all their assignments along.
LEMMA UnpublishPlain ==
  ASSUME Shapes, Plain, NEW G, Unpublish(G)
  PROVE  Plain'
<1> DEFINE kept == DOMAIN assignments \ UNION {RowsOf(g) : g \in G}
<1>1. /\ UNCHANGED <<planner, lateLogs, job, dirty, accepted, behind, torn>>
      /\ assignments' = Restrict(assignments, kept)
      /\ recorded' = Restrict(recorded, DOMAIN recorded \cap kept)
      /\ screen' = [screen EXCEPT !.published = PublishedGuards \ G]
  BY DEF Unpublish, ghosts
<1>2. screen'.plan = screen.plan
  BY <1>1 DEF Shapes, ScreenShape
<1>3. kept = {a \in DOMAIN assignments : assignments[a].guard \notin G}
  BY DEF RowsOf
<1> HIDE DEF kept
<1>4. /\ DOMAIN assignments' = kept /\ kept \subseteq DOMAIN assignments
      /\ \A a \in kept : assignments'[a] = assignments[a] /\ Recorded(a)' = Recorded(a)
  BY <1>1, <1>3 DEF Restrict, Recorded
<1>5. RowClaims' \subseteq Claims
  BY <1>4 DEF RowClaims, Claims
<1>6. Punctual' /\ Distinct' /\ Sole(screen'.plan) /\ Sole(planner')
  <2>1. Reordered
    BY <1>1, <1>2 DEF Reordered, Lists
  <2>2. DOMAIN lateLogs' = {} /\ \A k \in DOMAIN job'.todo : job'.todo[k] # "lateness"
    BY <1>1 DEF Plain, Punctual
  <2>3. QED BY <1>5, <2>1, <2>2, ListsKeep
<1>7. Listed'
  <2>1. \A a, b \in DOMAIN assignments' : assignments'[a].id = assignments'[b].id => a = b
    BY <1>4 DEF Plain, Listed
  <2>2. QED BY <1>6, <2>1 DEF Listed, Sole, SlotsIn, SlotsOf, At
<1>8. Followed'
  <2>1. Consistent' => Consistent
    BY <1>1 DEF Consistent, Step
  <2>2. ASSUME NEW g \in PublishedGuards'
        PROVE  g \in PublishedGuards /\ RowsOf(g)' = RowsOf(g) /\ \A a \in RowsOf(g) : a \in kept
    BY <1>3, <1>4 DEF PublishedGuards, RowsOf
  <2>3. SlotsIn(planner)' = SlotsIn(planner) /\ \A s : At(planner, s)' = At(planner, s)
    BY <1>1 DEF SlotsIn, SlotsOf, At
  <2>4. ASSUME NEW g \in PublishedGuards', Follows(g)
        PROVE  Follows(g)'
    BY <1>4, <2>2, <2>3, <2>4 DEF Follows
  <2>5. QED BY <2>1, <2>2, <2>4 DEF Plain, Followed
<1>9. Accepted'
  <2>1. Honest(screen.plan)' /\ (~dirty' => Honest(planner)')
    BY <1>1, <1>2 DEF Plain, Accepted, Honest, Shown, SlotsIn, SlotsOf, At
  <2>2. QED BY <1>1, <1>4, <2>1 DEF Plain, Accepted
<1>10. QED BY <1>6, <1>7, <1>8, <1>9 DEF Plain

-----------------------------------------------------------------------------
(* What requests do.                                                       *)

\* A slot of a guard whose rows follow the plan finds the row of its shift.
LEMMA FindsOwn ==
  ASSUME Shapes, Plain, NEW s \in SlotsIn(planner), Follows(s[1])
  PROVE  LET a == Find(s[1], At(planner, s).start) IN
         a \in RowsOf(s[1]) /\ a \in DOMAIN assignments /\ assignments[a].id = At(planner, s).id
<1> DEFINE a == Find(s[1], At(planner, s).start)
           mine == <<At(planner, s).id, At(planner, s).start>>
<1>1. mine \in {<<At(planner, r).id, At(planner, r).start>> : r \in {r \in SlotsIn(planner) : r[1] = s[1]}}
  OBVIOUS
<1>2. mine \in {<<assignments[b].id, assignments[b].start>> : b \in RowsOf(s[1])}
  BY <1>1 DEF Follows
<1>3. \E b \in RowsOf(s[1]) : assignments[b].start = At(planner, s).start
  BY <1>2
<1>4. a \in RowsOf(s[1]) /\ assignments[a].start = At(planner, s).start
  BY <1>3, FindIs
<1> HIDE DEF a
<1>5. a \in DOMAIN assignments /\ assignments[a].guard = s[1]
  BY <1>4 DEF RowsOf
<1>6. assignments[a].id = At(planner, s).id
  BY <1>4, <1>5, RowOfSlot DEF Plain
<1>7. QED BY <1>4, <1>5, <1>6 DEF a

\* While a request that is past its rebuilds goes on, published guards' rows follow the plan.
LEMMA FollowsNow ==
  ASSUME Plain, Shapes, Step \notin {"none", "rebuild"}, NEW g \in PublishedGuards
  PROVE  Follows(g)
BY StepIs DEF Plain, Followed, Consistent, Shapes

\* What is left to do has no lateness, if nothing had.
LEMMA NoLateness ==
  ASSUME Shapes, Plain, Step # "none", Then(Tail(job.todo)), UNCHANGED <<mode, screen>>
  PROVE  \A k \in DOMAIN job'.todo : job'.todo[k] # "lateness"
BY GoesOnShape DEF Plain, Punctual

\* Steps that leave rows, shifts and lateness alone.
LEMMA QuietPlain ==
  ASSUME Shapes, Plain, UNCHANGED <<assignments, lateLogs>>,
         Lists(screen'.plan, screen.plan), planner'.shifts = planner.shifts,
         \A k \in DOMAIN job'.todo : job'.todo[k] # "lateness",
         Consistent' => Consistent, Accepted'
  PROVE  Plain'
<1>1. Punctual' /\ Distinct' /\ Sole(screen'.plan) /\ Sole(planner')
  <2>1. RowClaims' \subseteq Claims
    BY RowsSame
  <2>2. Reordered
    BY ListsSame DEF Reordered
  <2>3. DOMAIN lateLogs' = {}
    BY DEF Plain, Punctual
  <2>4. QED BY <2>1, <2>2, <2>3, ListsKeep
<1>2. Listed'
  BY <1>1, RowsSame DEF Listed, Sole, SlotsIn, SlotsOf, At
<1>3. Followed'
  BY FollowedSame DEF Plain
<1>4. QED BY <1>1, <1>2, <1>3 DEF Plain

\* What is accepted only grows, and what is shown and recorded stays.
LEMMA AcceptedGrows ==
  ASSUME Shapes, Plain, \A id \in 1 .. made : accepted[id] \subseteq accepted'[id],
         UNCHANGED <<behind, planner, dirty>>, screen'.plan = screen.plan
  PROVE  Honest(screen.plan)' /\ (~dirty' => Honest(planner)')
<1>1. ASSUME NEW p \in {screen.plan, planner}, Honest(p)
      PROVE  \A s \in SlotsIn(p) : At(p, s).id \notin behind => Shown(p, s) \in accepted'[At(p, s).id]
  BY <1>1, IdIs DEF Honest
<1>2. Honest(screen.plan) /\ (~dirty => Honest(planner))
  BY DEF Plain, Accepted
<1>3. \A s \in SlotsIn(screen.plan) : At(screen.plan, s).id \notin behind =>
         Shown(screen.plan, s) \in accepted'[At(screen.plan, s).id]
  BY <1>1, <1>2
<1>4. ~dirty => \A s \in SlotsIn(planner) : At(planner, s).id \notin behind =>
         Shown(planner, s) \in accepted'[At(planner, s).id]
  BY <1>1, <1>2
<1>5. QED BY <1>3, <1>4 DEF Honest, Shown, SlotsIn, SlotsOf, At

\* The plan is stored as shown, which it was before.
LEMMA StorePlain ==
  ASSUME Shapes, Stored, Plain, Store
  PROVE  Plain'
<1>1. /\ UNCHANGED <<assignments, recorded, lateLogs, mode, screen, behind, dirty, accepted>>
      /\ Step = "store" /\ Then(Tail(job.todo)) /\ planner' = screen.plan
  BY DEF Store, tables, Unmoved
<1>2. job # NoJob
  BY <1>1, StepIs DEF Shapes
<1>3. planner'.shifts = planner.shifts
  BY <1>1, <1>2 DEF Stored
<1>4. Accepted'
  <2>1. Honest(screen.plan)' /\ Honest(planner)'
    BY <1>1 DEF Plain, Accepted, Honest, Shown, SlotsIn, SlotsOf, At
  <2>2. QED BY <1>1, <2>1 DEF Plain, Accepted, Recorded
<1>5. Consistent
  BY <1>1, <1>2 DEF Consistent
<1>6. Lists(screen'.plan, screen.plan)
  BY <1>1 DEF Lists
<1>7. QED BY <1>1, <1>3, <1>4, <1>5, <1>6, NoLateness, QuietPlain

\* A healed plan has the shifts it had.
LEMMA HealPlain ==
  ASSUME Shapes, Plain, Heal
  PROVE  Plain'
<1> DEFINE h == Healed(planner)
<1>1. /\ UNCHANGED <<assignments, recorded, lateLogs, mode, screen, behind, dirty, accepted>>
      /\ Step = "heal" /\ Then(Tail(job.todo)) /\ planner' = h
  BY DEF Heal, tables, Unmoved
<1>2. h.shifts = planner.shifts
  BY HealedDoes
<1>3. \A s \in SlotsIn(planner) :
        Shown(h, s) \in accepted[At(planner, s).id] \/ Shown(h, s) = Shown(planner, s)
  BY HealedTells
<1> HIDE DEF h
<1>4. Accepted'
  <2>1. Lists(h, planner)
    BY <1>2, ListsSame
  <2>2. ~dirty => \A s \in SlotsIn(h) : At(h, s).id \notin behind => Shown(h, s) \in accepted[At(h, s).id]
    BY <1>3, <2>1 DEF Plain, Accepted, Honest, Lists
  <2>3. Honest(screen.plan)' /\ (~dirty' => Honest(planner)')
    BY <1>1, <2>2 DEF Plain, Accepted, Honest, Shown, SlotsIn, SlotsOf, At
  <2>4. QED BY <1>1, <2>3 DEF Plain, Accepted, Recorded
<1>5. Consistent
  BY <1>1, StepIs DEF Consistent, Shapes
<1>6. Lists(screen'.plan, screen.plan)
  BY <1>1 DEF Lists
<1>7. QED BY <1>1, <1>2, <1>4, <1>5, <1>6, NoLateness, QuietPlain

\* Attendance written through reaches the shift's own row.
LEMMA SyncPlain ==
  ASSUME Shapes, Stored, Plain, Sync
  PROVE  Plain'
<1>1. UNCHANGED <<mode, made, behind, screen, dirty>> /\ Then(Tail(job.todo)) /\ Step # "none"
  BY DEF Sync, Unmoved
<1>2. Step = "attendance" /\ SyncAttendance
  <2>1. Step # "lateness"
    BY StepIs DEF Shapes, Plain, Punctual
  <2>2. QED BY <2>1 DEF Sync
<1>3. job # NoJob /\ Consistent
  BY <1>2, StepIs DEF Shapes, Consistent
<1>4. UNCHANGED <<assignments, lateLogs, planner>> /\ Overruled
  BY <1>2 DEF SyncAttendance
<1>5. \A a \in DOMAIN assignments : (\E s : Written(a, s)) \/ Recorded(a)' = Recorded(a)
  BY <1>1, <1>2, SyncAttendanceDoes
<1>6. /\ \A id \in 1 .. made : accepted[id] \subseteq accepted'[id]
      /\ \A s \in SlotsIn(planner) :
           At(planner, s).id \in behind => Overrules(s) \subseteq accepted'[At(planner, s).id]
  BY <1>1, <1>4, OverruledIs
<1>7. ASSUME NEW a \in DOMAIN assignments
      PROVE  Recorded(a)' \in accepted'[assignments[a].id]
  <2>1. CASE Recorded(a)' = Recorded(a)
    BY <1>6, <2>1, RowIs DEF Plain, Accepted
  <2>2. ASSUME NEW s, Written(a, s)
        PROVE  Recorded(a)' \in accepted'[assignments[a].id]
    <3>1. /\ s \in SlotsIn(planner) /\ s \in DOMAIN planner.att /\ a \in RowsOf(s[1])
          /\ a = Find(s[1], ScheduledStart(At(planner, s))) /\ Recorded(a)' = planner.att[s]
      BY <2>2 DEF Written, MarkedSlots, Recorded
    <3>2. Follows(s[1])
      <4>1. s[1] \in PublishedGuards
        BY <3>1 DEF RowsOf, PublishedGuards
      <4>2. QED BY <1>2, <4>1, FollowsNow
    <3>3. assignments[a].id = At(planner, s).id
      BY <3>1, <3>2, FindsOwn, OnTime DEF Plain
    <3>4. CASE At(planner, s).id \in behind
      <4>1. planner.att[s] \in Overrules(s)
        BY <3>1, MarkInIs DEF Overrules
      <4>2. QED BY <1>6, <3>1, <3>3, <3>4, <4>1
    <3>5. CASE At(planner, s).id \notin behind
      <4>1. planner.att[s] \in accepted[At(planner, s).id]
        BY <1>3, <3>1, <3>5 DEF Stored, Plain, Accepted, Honest, Shown
      <4>2. QED BY <1>6, <3>1, <3>3, <4>1, IdIs
    <3>6. QED BY <3>4, <3>5
  <2>3. QED BY <1>5, <2>1, <2>2
<1>8. Accepted'
  <2>1. Honest(screen.plan)' /\ (~dirty' => Honest(planner)')
    BY <1>1, <1>4, <1>6, AcceptedGrows
  <2>2. QED BY <1>4, <1>7, <2>1 DEF Accepted
<1>9. Lists(screen'.plan, screen.plan) /\ planner'.shifts = planner.shifts
  BY <1>1, <1>4 DEF Lists
<1>10. QED BY <1>1, <1>3, <1>4, <1>8, <1>9, NoLateness, QuietPlain

\* A publication's rows are the plan's shifts, with statuses that are accepted.
LEMMA RemadePlain ==
  ASSUME Shapes, Plain, Honest(planner), NEW G \in SUBSET Guards, NEW new, NEW slot,
         Remade(G, new, slot), Overruled, UNCHANGED <<mode, made, behind, planner>>
  PROVE  /\ RowClaims' \subseteq Claims
         /\ \A a, b \in DOMAIN assignments' : assignments'[a].id = assignments'[b].id => a = b
         /\ \A g \in PublishedGuards' :
              IF g \in G THEN Follows(g)' ELSE g \in PublishedGuards /\ (Follows(g) => Follows(g)')
         /\ \A a \in DOMAIN assignments' : Recorded(a)' \in accepted'[assignments'[a].id]
         /\ DOMAIN lateLogs' = {}
         /\ \A id \in 1 .. made : accepted[id] \subseteq accepted'[id]
<1> DEFINE Old(a) == /\ a \in Kept(G) /\ a \in DOMAIN assignments /\ assignments'[a] = assignments[a]
                     /\ assignments[a].guard \notin G
           New(a) == /\ a \in new /\ slot[a] \in SlotsIn(planner) /\ slot[a][1] \in G
                     /\ assignments'[a].guard = slot[a][1]
                     /\ assignments'[a].id = At(planner, slot[a]).id
                     /\ assignments'[a].start = At(planner, slot[a]).start
<1>1. /\ \A a \in DOMAIN assignments' : Old(a) \/ New(a)
      /\ Kept(G) \subseteq DOMAIN assignments' /\ new \subseteq DOMAIN assignments'
  BY GuardsRemade
<1>2. /\ \A id \in 1 .. made : accepted[id] \subseteq accepted'[id]
      /\ \A s \in SlotsIn(planner) :
           At(planner, s).id \in behind => Overrules(s) \subseteq accepted'[At(planner, s).id]
  BY OverruledIs
<1>3. RowClaims' \subseteq Claims
  <2>1. ASSUME NEW a \in DOMAIN assignments'
        PROVE  <<assignments'[a].guard, assignments'[a].start, assignments'[a].id>> \in Claims
    <3>1. CASE Old(a)
      BY <3>1, ClaimsAre
    <3>2. CASE New(a)
      BY <3>2, ClaimsAre
    <3> HIDE DEF Old, New
    <3>3. QED BY <1>1, <3>1, <3>2
  <2>2. QED BY <2>1 DEF RowClaims
<1>4. ASSUME NEW a \in DOMAIN assignments', NEW b \in DOMAIN assignments',
             assignments'[a].id = assignments'[b].id
      PROVE  a = b
  <2>1. CASE Old(a) /\ Old(b)
    BY <1>4, <2>1 DEF Plain, Listed
  <2>2. CASE New(a) /\ New(b)
    <3>1. slot[a] = slot[b]
      BY <1>4, <2>2 DEF Plain, Listed, Sole
    <3>2. QED BY <2>2, <3>1 DEF Remade, NewRows
  <2>3. ASSUME NEW x \in {a, b}, NEW y \in {a, b}, Old(x), New(y)
        PROVE  FALSE
    <3>1. assignments[x].id = At(planner, slot[y]).id
      BY <1>4, <2>3
    <3>2. assignments[x].guard = slot[y][1]
      BY <2>3, <3>1, RowOfSlot DEF Plain
    <3>3. QED BY <2>3, <3>2
  <2> HIDE DEF Old, New
  <2>4. (Old(a) \/ New(a)) /\ (Old(b) \/ New(b)) /\ a \in {a, b} /\ b \in {a, b}
    BY <1>1
  <2>5. QED BY <2>1, <2>2, <2>3, <2>4
<1>5. ASSUME NEW g \in PublishedGuards'
      PROVE  IF g \in G THEN Follows(g)' ELSE g \in PublishedGuards /\ (Follows(g) => Follows(g)')
  <2> DEFINE rows == {<<assignments'[a].id, assignments'[a].start>> :
                        a \in {a \in DOMAIN assignments' : assignments'[a].guard = g}}
             slots == {<<At(planner, s).id, At(planner, s).start>> :
                         s \in {s \in SlotsIn(planner) : s[1] = g}}
  <2>1. Follows(g)' <=> rows = slots
    BY DEF Follows, RowsOf, SlotsIn, SlotsOf, At
  <2>2. ASSUME g \in G
        PROVE  rows = slots
    <3>1. ASSUME NEW a \in DOMAIN assignments', assignments'[a].guard = g
          PROVE  <<assignments'[a].id, assignments'[a].start>> \in slots
      <4>1. New(a)
        BY <1>1, <2>2, <3>1
      <4>2. slot[a] \in {s \in SlotsIn(planner) : s[1] = g}
        BY <3>1, <4>1
      <4>3. QED BY <4>1, <4>2
    <3>2. ASSUME NEW s \in SlotsIn(planner), s[1] = g
          PROVE  <<At(planner, s).id, At(planner, s).start>> \in rows
      <4>1. PICK a \in new : slot[a] = s
        BY <2>2, <3>2 DEF Remade, NewRows
      <4>2. a \in DOMAIN assignments' /\ New(a)
        <5>1. a \in DOMAIN assignments' /\ a \notin Kept(G)
          BY <1>1 DEF Remade, NewRows
        <5>2. QED BY <1>1, <5>1
      <4>3. assignments'[a].guard = g
        BY <3>2, <4>1, <4>2
      <4>4. QED BY <4>1, <4>2, <4>3
    <3>3. QED BY <3>1, <3>2
  <2>3. ASSUME g \notin G
        PROVE  g \in PublishedGuards /\ (Follows(g) => rows = slots)
    <3>1. ASSUME NEW a
          PROVE  a \in DOMAIN assignments' /\ assignments'[a].guard = g <=>
                   a \in DOMAIN assignments /\ assignments[a].guard = g
      <4>1. ASSUME a \in DOMAIN assignments', assignments'[a].guard = g
            PROVE  a \in DOMAIN assignments /\ assignments[a].guard = g
        <5>1. Old(a)
          BY <1>1, <2>3, <4>1
        <5>2. QED BY <4>1, <5>1
      <4>2. ASSUME a \in DOMAIN assignments, assignments[a].guard = g
            PROVE  a \in DOMAIN assignments' /\ assignments'[a].guard = g
        <5>1. a \in Kept(G)
          BY <2>3, <4>2 DEF Kept
        <5>2. assignments'[a] = assignments[a]
          BY <5>1 DEF Remade, NewAssignments
        <5>3. QED BY <1>1, <4>2, <5>1, <5>2
      <4>3. QED BY <4>1, <4>2
    <3>2. ASSUME NEW a \in DOMAIN assignments', assignments'[a].guard = g
          PROVE  assignments'[a] = assignments[a]
      BY <1>1, <2>3, <3>2
    <3>3. g \in PublishedGuards
      <4>1. PICK a \in DOMAIN assignments' : assignments'[a].guard = g
        BY DEF PublishedGuards
      <4>2. QED BY <3>1, <4>1 DEF PublishedGuards
    <3>4. rows = {<<assignments[a].id, assignments[a].start>> : a \in RowsOf(g)}
      BY <3>1, <3>2 DEF RowsOf
    <3>5. QED BY <3>3, <3>4 DEF Follows
  <2>4. QED BY <2>1, <2>2, <2>3
<1>6. ASSUME NEW a \in DOMAIN assignments'
      PROVE  Recorded(a)' \in accepted'[assignments'[a].id]
  <2>1. CASE Old(a)
    <3>1. Recorded(a)' = Recorded(a)
      BY <2>1 DEF Remade, NewAttendance, Recorded
    <3>2. QED BY <1>2, <2>1, <3>1, RowIs DEF Plain, Accepted
  <2>2. CASE New(a)
    <3> DEFINE s == slot[a]
               id == At(planner, s).id
    <3>1. /\ s \in SlotsIn(planner) /\ assignments'[a].id = id /\ id \in 1 .. made
          /\ IF a \in DOMAIN recorded' THEN Recorded(a)' \in Source(s)
             ELSE Source(s) = {} /\ Recorded(a)' = "none"
      BY <2>2, IdIs DEF Remade, NewAttendance, Recorded
    <3>2. /\ id \notin behind => Shown(planner, s) \in accepted[id]
          /\ id \in behind => Overrules(s) \subseteq accepted'[id]
      BY <1>2, <3>1 DEF Honest
    <3>3. ASSUME NEW b \in RowsOf(s[1]), assignments[b].start = At(planner, s).start
          PROVE  b \in DOMAIN assignments /\ Recorded(b) \in accepted[id]
      <4>1. b \in DOMAIN assignments /\ assignments[b].guard = s[1]
        BY DEF RowsOf
      <4>2. assignments[b].id = id
        BY <3>1, <3>3, <4>1, RowOfSlot DEF Plain
      <4>3. QED BY <4>1, <4>2 DEF Plain, Accepted
    <3> HIDE DEF s, id
    <3>4. CASE MarkIn(planner, s) # {}
      <4>1. s \in DOMAIN planner.att /\ MarkIn(planner, s) = {planner.att[s]}
        BY <3>4, MarkInIs
      <4>2. Source(s) = {planner.att[s]} /\ Overrules(s) = {planner.att[s]}
            /\ Shown(planner, s) = planner.att[s]
        BY <3>4, <4>1 DEF Source, Overrules, Shown
      <4>3. Recorded(a)' = planner.att[s]
        BY <3>1, <4>2
      <4>4. QED BY <1>2, <3>1, <3>2, <4>2, <4>3
    <3>5. CASE MarkIn(planner, s) = {} /\ Recorded(a)' \in Source(s)
      <4>1. Recorded(a)' \in Carried(s[1], At(planner, s))
        BY <3>5 DEF Source
      <4>2. PICK b \in (DOMAIN recorded) \cap RowsOf(s[1]) :
              assignments[b].start = At(planner, s).start /\ Recorded(a)' = recorded[b]
        BY <4>1 DEF Carried
      <4>3. Recorded(a)' \in accepted[id]
        <5>1. Recorded(b) \in accepted[id] /\ Recorded(b) = recorded[b]
          BY <3>3, <4>2 DEF Recorded
        <5>2. QED BY <4>2, <5>1
      <4>4. QED BY <1>2, <3>1, <4>3
    <3>6. CASE MarkIn(planner, s) = {} /\ Source(s) = {} /\ Recorded(a)' = "none"
      <4>1. Shown(planner, s) = "none"
        BY <3>6, MarkInIs DEF Shown
      <4>2. CASE id \notin behind
        BY <1>2, <3>1, <3>2, <3>6, <4>1, <4>2
      <4>3. CASE id \in behind
        <5>1. CASE \E b \in RowsOf(s[1]) : assignments[b].start = At(planner, s).start
          <6>1. PICK b \in RowsOf(s[1]) : assignments[b].start = At(planner, s).start
            BY <5>1
          <6>2. b \notin DOMAIN recorded
            <7>1. Carried(s[1], At(planner, s)) = {}
              BY <3>6 DEF Source
            <7>2. QED BY <6>1, <7>1 DEF Carried
          <6>3. Recorded(b) = "none" /\ Recorded(b) \in accepted[id]
            BY <3>3, <6>1, <6>2 DEF Recorded
          <6>4. QED BY <1>2, <3>1, <3>6, <6>3
        <5>2. CASE ~\E b \in RowsOf(s[1]) : assignments[b].start = At(planner, s).start
          <6>1. "none" \in Overrules(s)
            BY <3>6, <5>2 DEF Overrules
          <6>2. QED BY <3>1, <3>2, <3>6, <4>3, <6>1
        <5>3. QED BY <5>1, <5>2
      <4>4. QED BY <4>2, <4>3
    <3>7. QED BY <3>1, <3>4, <3>5, <3>6
  <2> HIDE DEF Old, New
  <2>3. QED BY <1>1, <2>1, <2>2
<1>7. DOMAIN lateLogs' = {}
  <2>1. \A a \in new : slot[a] \in SlotsIn(planner) /\ ~IsLate(At(planner, slot[a]))
    BY DEF Remade, NewRows, Plain, Punctual
  <2>2. DOMAIN lateLogs = {}
    BY DEF Plain, Punctual
  <2>3. QED BY <2>1, <2>2 DEF Remade, NewLogs
<1>8. QED BY <1>2, <1>3, <1>4, <1>5, <1>6, <1>7

\* So a publication of some guards disturbs at most which rows follow the plan, and that of
\* no guard but those.
LEMMA RemadeKeeps ==
  ASSUME Shapes, Stored, Plain, Step # "none", NEW G \in SUBSET Guards, NEW new, NEW slot,
         Remade(G, new, slot), Overruled, UNCHANGED <<mode, made, behind, planner, dirty>>,
         screen'.plan = screen.plan, \A k \in DOMAIN job'.todo : job'.todo[k] # "lateness"
  PROVE  /\ Punctual' /\ Distinct' /\ Listed' /\ Accepted'
         /\ \A g \in PublishedGuards' :
              IF g \in G THEN Follows(g)' ELSE g \in PublishedGuards /\ (Follows(g) => Follows(g)')
<1>1. Honest(planner)
  <2>1. job # NoJob
    BY StepIs DEF Shapes
  <2>2. QED BY <2>1 DEF Stored, Plain, Accepted
<1>2. /\ RowClaims' \subseteq Claims
      /\ \A a, b \in DOMAIN assignments' : assignments'[a].id = assignments'[b].id => a = b
      /\ \A g \in PublishedGuards' :
           IF g \in G THEN Follows(g)' ELSE g \in PublishedGuards /\ (Follows(g) => Follows(g)')
      /\ \A a \in DOMAIN assignments' : Recorded(a)' \in accepted'[assignments'[a].id]
      /\ DOMAIN lateLogs' = {}
      /\ \A id \in 1 .. made : accepted[id] \subseteq accepted'[id]
  BY <1>1, RemadePlain
<1>3. Reordered
  BY DEF Reordered, Lists
<1>4. Punctual' /\ Distinct' /\ Sole(screen'.plan) /\ Sole(planner')
  BY <1>2, <1>3, ListsKeep
<1>5. Listed'
  BY <1>2, <1>4 DEF Listed, Sole, SlotsIn, SlotsOf, At
<1>6. Honest(screen.plan)' /\ (~dirty' => Honest(planner)')
  BY <1>2, AcceptedGrows
<1>7. Accepted'
  BY <1>2, <1>6 DEF Accepted
<1>8. QED BY <1>2, <1>4, <1>5, <1>7

\* A rebuild that ends finds every published guard's rows to follow the plan.
LEMMA NothingChanged ==
  ASSUME Shapes, Plain, Changed = {}, NEW g \in PublishedGuards
  PROVE  Follows(g)
<1> DEFINE slots == {s \in SlotsIn(planner) : s[1] = g}
<1>1. {At(planner, s).start : s \in slots} = {assignments[a].start : a \in RowsOf(g)}
  BY DEF Changed
<1>2. ASSUME NEW a \in RowsOf(g), NEW s \in slots, assignments[a].start = At(planner, s).start
      PROVE  assignments[a].id = At(planner, s).id
  <2>1. a \in DOMAIN assignments /\ assignments[a].guard = s[1] /\ s \in SlotsIn(planner)
    BY DEF RowsOf
  <2>2. QED BY <1>2, <2>1, RowOfSlot DEF Plain
<1>3. ASSUME NEW a \in RowsOf(g)
      PROVE  \E s \in slots : /\ assignments[a].start = At(planner, s).start
                              /\ assignments[a].id = At(planner, s).id
  <2>1. \E s \in slots : assignments[a].start = At(planner, s).start
    BY <1>1
  <2>2. QED BY <1>2, <2>1
<1>4. ASSUME NEW s \in slots
      PROVE  \E a \in RowsOf(g) : /\ assignments[a].start = At(planner, s).start
                                  /\ assignments[a].id = At(planner, s).id
  <2>1. \E a \in RowsOf(g) : assignments[a].start = At(planner, s).start
    BY <1>1
  <2>2. QED BY <1>2, <2>1
<1> HIDE DEF slots
<1>5. {<<assignments[a].id, assignments[a].start>> : a \in RowsOf(g)}
        = {<<At(planner, s).id, At(planner, s).start>> : s \in slots}
  BY <1>3, <1>4
<1>6. QED BY <1>5 DEF Follows, slots

\* A save publishes again one guard that differs, or finds that none does.
LEMMA RebuildPlain ==
  ASSUME Shapes, Stored, Plain, Rebuild
  PROVE  Plain'
<1>1. /\ UNCHANGED <<mode, made, behind, planner, screen, dirty, torn>> /\ Step = "rebuild"
  BY DEF Rebuild, Unmoved
<1>2. ASSUME NEW g \in Changed, Publish({g}), Overruled, job' = [job EXCEPT !.structural = TRUE]
      PROVE  Plain'
  <2>1. {g} \in SUBSET Guards
    BY PublishedAre DEF Changed
  <2>2. \E new, slot : Remade({g}, new, slot)
    BY <1>2, <2>1, Republished
  <2>3. job'.todo = job.todo
    BY <1>2 DEF Shapes, JobShape, JobOf
  <2>4. \A k \in DOMAIN job'.todo : job'.todo[k] # "lateness"
    BY <2>3 DEF Plain, Punctual
  <2>5. Punctual' /\ Distinct' /\ Listed' /\ Accepted'
    BY <1>1, <1>2, <2>1, <2>2, <2>4, RemadeKeeps
  <2>6. ~Consistent'
    <3>1. Step' = "rebuild"
      BY <1>1, <2>3 DEF Step
    <3>2. job' # NoJob
      <4>1. job.todo # <<>>
        BY <1>1, StepIs DEF Shapes
      <4>2. QED BY <2>3, <4>1, JobNone
    <3>3. QED BY <3>1, <3>2 DEF Consistent
  <2>7. QED BY <2>5, <2>6 DEF Plain, Followed
<1>3. ASSUME RebuildEnds, UNCHANGED <<tables, accepted>>
      PROVE  Plain'
  <2>1. LateSlots = {}
    BY DEF LateSlots, Plain, Punctual
  <2>2. \A k \in DOMAIN job'.todo : job'.todo[k] # "lateness"
    BY <1>1, <1>3, <2>1, RebuildEndsDoes DEF Shapes, Plain, Punctual
  <2>3. UNCHANGED <<assignments, recorded, lateLogs>>
    BY <1>3 DEF tables
  <2>4. Punctual' /\ Distinct' /\ Sole(screen'.plan) /\ Sole(planner')
    <3>1. RowClaims' \subseteq Claims
      BY <2>3, RowsSame
    <3>2. Reordered
      BY <1>1 DEF Reordered, Lists
    <3>3. DOMAIN lateLogs' = {}
      BY <2>3 DEF Plain, Punctual
    <3>4. QED BY <2>2, <3>1, <3>2, <3>3, ListsKeep
  <2>5. Listed'
    BY <2>3, <2>4, RowsSame DEF Listed, Sole, SlotsIn, SlotsOf, At
  <2>6. Followed'
    <3>1. \A g \in PublishedGuards : Follows(g)
      BY <1>3, NothingChanged DEF RebuildEnds
    <3>2. PublishedGuards' = PublishedGuards /\ \A g : Follows(g)' <=> Follows(g)
      BY <1>1, <2>3 DEF PublishedGuards, Follows, RowsOf, SlotsIn, SlotsOf, At
    <3>3. QED BY <3>1, <3>2 DEF Followed
  <2>7. Accepted'
    <3>1. UNCHANGED accepted
      BY <1>3
    <3>2. Honest(screen.plan)' /\ (~dirty' => Honest(planner)')
      BY <1>1, <3>1, AcceptedGrows
    <3>3. QED BY <2>3, <3>1, <3>2 DEF Plain, Accepted, Recorded
  <2>8. QED BY <2>4, <2>5, <2>6, <2>7 DEF Plain
<1>4. QED BY <1>2, <1>3 DEF Rebuild, RebuildEnds

\* Guards published from the stored plan follow it.
LEMMA PublishStepPlain ==
  ASSUME Shapes, Stored, Plain, PublishStep
  PROVE  Plain'
<1> DEFINE now == {assignments'[a].guard : a \in DOMAIN assignments'}
<1>1. /\ UNCHANGED <<mode, made, behind, planner, dirty, torn>> /\ Step = "publish"
      /\ Then(Tail(job.todo)) /\ Publish(job.guards) /\ Overruled
      /\ screen' = [screen EXCEPT !.published = now]
  BY DEF PublishStep, Unmoved
<1>2. screen'.plan = screen.plan
  BY <1>1 DEF Shapes, ScreenShape
<1> HIDE DEF now
<1>3. \A k \in DOMAIN job'.todo : job'.todo[k] # "lateness"
  <2>1. JobOf(job, screen.plan, mode.late) /\ job.todo # <<>>
    BY <1>1, StepIs DEF Shapes, JobShape
  <2>2. \A k \in DOMAIN job'.todo : \E l \in DOMAIN job.todo : job'.todo[k] = job.todo[l]
    BY <1>1, <2>1, JobGoesOn
  <2>3. QED BY <2>2 DEF Plain, Punctual
<1>4. job.guards \in SUBSET Guards
  BY DEF Shapes, JobShape, JobOf
<1>5. PICK new, slot : Remade(job.guards, new, slot)
  BY <1>1, <1>4, Republished
<1>6. /\ Punctual' /\ Distinct' /\ Listed' /\ Accepted'
      /\ \A g \in PublishedGuards' :
           IF g \in job.guards THEN Follows(g)' ELSE g \in PublishedGuards /\ (Follows(g) => Follows(g)')
  BY <1>1, <1>2, <1>3, <1>4, <1>5, RemadeKeeps
<1>7. \A g \in PublishedGuards : Follows(g)
  BY <1>1, FollowsNow
<1>8. QED BY <1>6, <1>7 DEF Plain, Followed

\* The status sent reaches the row of the shift it is for.
LEMMA UpsertPlain ==
  ASSUME Shapes, Stored, Plain, Upsert
  PROVE  Plain'
<1> DEFINE s == job.slot
           sh == At(screen.plan, s)
           a == Find(s[1], ScheduledStart(sh))
           st == job.status
           id == sh.id
           A == {st}
           row == [x \in {a} |-> st]
           shown == ShowPlan(Mark(s, st)) /\ behind' = behind \ {id}
           lost == behind' = behind \cup {id} /\ UNCHANGED <<screen, dirty>>
<1>1. /\ Step = "upsert" /\ a # 0 /\ recorded' = Over(row, recorded)
      /\ accepted' = [accepted EXCEPT ![id] = A] /\ job' = NoJob
      /\ shown \/ lost
      /\ UNCHANGED <<mode, planner, assignments, lateLogs, made, torn>>
  BY DEF Upsert
<1>2. s \in SlotsIn(screen.plan) /\ st \in Statuses /\ id \in 1 .. made
  <2>1. s \in SlotsIn(screen.plan) /\ st \in Statuses
    BY <1>1, SentShift
  <2>2. QED BY <2>1, IdIs
<1>3. job # NoJob /\ ~dirty /\ planner.shifts = screen.plan.shifts
  <2>1. job # NoJob
    BY <1>1, StepIs DEF Shapes
  <2>2. QED BY <2>1 DEF Stored
<1>4. s \in SlotsIn(planner) /\ At(planner, s) = sh
  BY <1>2, <1>3, SameShifts
<1>5. a = Find(s[1], sh.start)
  BY <1>2, OnTime DEF Plain
<1>6. a \in DOMAIN assignments /\ assignments[a].id = id
  <2>1. a \in RowsOf(s[1])
    BY <1>1, FindIs
  <2>2. s[1] \in PublishedGuards
    BY <2>1 DEF RowsOf, PublishedGuards
  <2>3. Follows(s[1])
    BY <1>1, <2>2, FollowsNow
  <2>4. QED BY <1>4, <1>5, <2>3, FindsOwn
<1>7. accepted'[id] = A /\ \A x \in 1 .. made : x # id => accepted'[x] = accepted[x]
  BY <1>1, <1>2 DEF Shapes, GhostsShape
<1>8. \A b \in DOMAIN assignments : Recorded(b)' = IF b = a THEN st ELSE Recorded(b)
  BY <1>1 DEF Over, Recorded
<1>9. st \in A
  OBVIOUS
<1> HIDE DEF a, A, row, shown, lost, id
<1>10. \A b \in DOMAIN assignments' : Recorded(b)' \in accepted'[assignments'[b].id]
  <2>1. ASSUME NEW b \in DOMAIN assignments
        PROVE  Recorded(b)' \in accepted'[assignments[b].id]
    <3>1. CASE b = a
      BY <1>6, <1>7, <1>8, <1>9, <3>1
    <3>2. CASE b # a
      <4>1. assignments[b].id # id /\ assignments[b].id \in 1 .. made
        BY <1>6, <3>2, RowIs DEF Plain, Listed
      <4>2. QED BY <1>7, <1>8, <3>2, <4>1 DEF Plain, Accepted
    <3>3. QED BY <3>1, <3>2
  <2>2. QED BY <1>1, <2>1
<1>11. \A p \in {screen.plan, planner} : \A r \in SlotsIn(p) :
         At(p, r).id = id => r = s
  <2>1. At(screen.plan, s).id = id /\ At(planner, s).id = id
    BY <1>4 DEF id
  <2>2. QED BY <1>2, <1>4, <2>1 DEF Plain, Listed, Sole
<1>12. ASSUME NEW p \in {screen.plan, planner}, NEW r \in SlotsIn(p), At(p, r).id # id,
              At(p, r).id \notin behind
       PROVE  Shown(p, r) \in accepted'[At(p, r).id]
  <2>1. Honest(screen.plan) /\ Honest(planner)
    BY <1>3 DEF Plain, Accepted
  <2>2. Shown(p, r) \in accepted[At(p, r).id]
    BY <1>12, <2>1 DEF Honest
  <2>3. QED BY <1>7, <1>12, <2>2, IdIs
<1>13. /\ screen'.plan.shifts = screen.plan.shifts
       /\ Honest(screen.plan)' /\ (~dirty' => Honest(planner)')
  <2>1. CASE lost
    <3>1. id \in behind' /\ behind \subseteq behind' /\ screen' = screen
      BY <2>1 DEF lost
    <3>2. \A p \in {screen.plan, planner} : \A r \in SlotsIn(p) :
            At(p, r).id \notin behind' => Shown(p, r) \in accepted'[At(p, r).id]
      BY <1>12, <3>1
    <3>3. \A r \in SlotsIn(screen.plan) : At(screen.plan, r).id \notin behind' =>
            Shown(screen.plan, r) \in accepted'[At(screen.plan, r).id]
      BY <3>2
    <3>4. \A r \in SlotsIn(planner) : At(planner, r).id \notin behind' =>
            Shown(planner, r) \in accepted'[At(planner, r).id]
      BY <3>2
    <3>5. QED BY <1>1, <3>1, <3>3, <3>4 DEF Honest, Shown, SlotsIn, SlotsOf, At
  <2>2. CASE shown
    <3> DEFINE m == Mark(s, st)
    <3>1. screen' = [screen EXCEPT !.plan = m] /\ dirty' = TRUE /\ behind' = behind \ {id}
      BY <2>2 DEF shown, ShowPlan
    <3>2. PlanOf(screen.plan, Shifts) /\ ScreenShape
      BY DEF Shapes, ScreenShape, PlanShape
    <3>3. /\ m.shifts = screen.plan.shifts /\ SlotsIn(m) = SlotsIn(screen.plan)
          /\ \A r : At(m, r) = At(screen.plan, r)
          /\ \A r : Shown(m, r) = IF r = s THEN st ELSE Shown(screen.plan, r)
      BY <1>2, <3>2, MarkDoes
    <3> HIDE DEF m
    <3>4. screen'.plan = m
      BY <3>1, <3>2, ScreenPlan
    <3>5. ASSUME NEW r \in SlotsIn(screen.plan), At(screen.plan, r).id \notin behind'
          PROVE  Shown(m, r) \in accepted'[At(screen.plan, r).id]
      <4>1. CASE r = s
        <5>1. At(screen.plan, r).id = id /\ Shown(m, r) = st
          BY <3>3, <4>1 DEF id
        <5>2. QED BY <1>7, <1>9, <5>1
      <4>2. CASE r # s
        <5>1. At(screen.plan, r).id # id
          BY <1>11, <4>2
        <5>2. At(screen.plan, r).id \notin behind
          BY <3>1, <3>5, <5>1
        <5>3. Shown(screen.plan, r) \in accepted'[At(screen.plan, r).id]
          BY <1>12, <5>1, <5>2
        <5>4. QED BY <3>3, <4>2, <5>3
      <4>3. QED BY <4>1, <4>2
    <3>6. \A r \in SlotsIn(m) : At(m, r).id \notin behind' => Shown(m, r) \in accepted'[At(m, r).id]
      BY <3>3, <3>5
    <3>7. Honest(screen.plan)'
      BY <3>4, <3>6 DEF Honest, Shown, SlotsIn, SlotsOf, At
    <3>8. QED BY <3>1, <3>3, <3>4, <3>7
  <2>3. QED BY <1>1, <2>1, <2>2
<1>14. Accepted'
  BY <1>10, <1>13 DEF Accepted
<1>15. Lists(screen'.plan, screen.plan)
  BY <1>13, ListsSame
<1>16. Consistent
  BY <1>1, <1>3 DEF Consistent
<1>17. \A k \in DOMAIN job'.todo : job'.todo[k] # "lateness"
  BY <1>1, JobNone
<1>18. QED BY <1>1, <1>14, <1>15, <1>16, <1>17, QuietPlain

\* After a save was killed, nothing is said of what follows.
LEMMA KilledPlain ==
  ASSUME Shapes, Plain, Killed
  PROVE  Plain'
<1>1. /\ UNCHANGED <<mode, screen, planner, assignments, recorded, lateLogs, dirty, made, accepted, behind>>
      /\ job' = NoJob /\ torn' = TRUE
  BY DEF Killed, tables, ghosts
<1>2. \A k \in DOMAIN job'.todo : job'.todo[k] # "lateness"
  BY <1>1, JobNone
<1>3. ~Consistent'
  BY <1>1 DEF Consistent
<1>4. Lists(screen'.plan, screen.plan)
  BY <1>1 DEF Lists
<1>5. Accepted'
  <2>1. Honest(screen.plan)' /\ (~dirty' => Honest(planner)')
    BY <1>1, AcceptedGrows
  <2>2. QED BY <1>1, <2>1 DEF Plain, Accepted, Recorded
<1>6. QED BY <1>1, <1>2, <1>3, <1>4, <1>5, QuietPlain

\* A record changed on another page is accepted, and what the plans show of it is not held
\* against them.
LEMMA PagePlain ==
  ASSUME Shapes, Plain, PageStep
  PROVE  Plain'
<1>1. PICK a, st : Elsewise(a, st)
  BY PagesDo
<1> DEFINE id == assignments[a].id
           A == {st}
<1>2. /\ accepted' = [accepted EXCEPT ![id] = A] /\ behind' = behind \cup {id} /\ st \in A
      /\ UNCHANGED <<mode, screen, planner, assignments, lateLogs, job, dirty, made, torn>>
      /\ a \in DOMAIN assignments
      /\ \A b \in DOMAIN assignments : Recorded(b)' = IF b = a THEN st ELSE Recorded(b)
  BY <1>1 DEF Elsewise, Elsewhere
<1>3. id \in 1 .. made
  BY <1>2, RowIs
<1> HIDE DEF A
<1>4. accepted'[id] = A /\ \A x \in 1 .. made : x # id => accepted'[x] = accepted[x]
  BY <1>2, <1>3 DEF Shapes, GhostsShape
<1>5. ASSUME NEW b \in DOMAIN assignments
      PROVE  Recorded(b)' \in accepted'[assignments[b].id]
  <2>1. CASE b = a
    BY <1>2, <1>4, <2>1
  <2>2. CASE b # a
    <3>1. assignments[b].id # id /\ assignments[b].id \in 1 .. made
      BY <1>2, <2>2, RowIs DEF Plain, Listed
    <3>2. QED BY <1>2, <1>4, <2>2, <3>1 DEF Plain, Accepted
  <2>3. QED BY <2>1, <2>2
<1> HIDE DEF id
<1>6. ASSUME NEW p \in {screen.plan, planner}, Honest(p)
      PROVE  \A r \in SlotsIn(p) : At(p, r).id \notin behind' => Shown(p, r) \in accepted'[At(p, r).id]
  <2>1. ASSUME NEW r \in SlotsIn(p), At(p, r).id \notin behind'
        PROVE  Shown(p, r) \in accepted'[At(p, r).id]
    <3>1. At(p, r).id # id /\ At(p, r).id \notin behind
      BY <1>2, <2>1
    <3>2. QED BY <1>4, <1>6, <3>1, IdIs DEF Honest
  <2>2. QED BY <2>1
<1>7. Honest(screen.plan)' /\ (~dirty' => Honest(planner)')
  <2>1. Honest(screen.plan) /\ (~dirty => Honest(planner))
    BY DEF Plain, Accepted
  <2>2. \A r \in SlotsIn(screen.plan) : At(screen.plan, r).id \notin behind' =>
          Shown(screen.plan, r) \in accepted'[At(screen.plan, r).id]
    BY <1>6, <2>1
  <2>3. ~dirty => \A r \in SlotsIn(planner) : At(planner, r).id \notin behind' =>
          Shown(planner, r) \in accepted'[At(planner, r).id]
    BY <1>6, <2>1
  <2>4. UNCHANGED <<screen, planner, dirty>>
    BY <1>2
  <2>5. QED BY <2>2, <2>3, <2>4 DEF Honest, Shown, SlotsIn, SlotsOf, At
<1>8. Accepted'
  BY <1>2, <1>5, <1>7 DEF Accepted
<1>9. Consistent' => Consistent
  BY <1>2 DEF Consistent, Step
<1>10. \A k \in DOMAIN job'.todo : job'.todo[k] # "lateness"
  BY <1>2 DEF Plain, Punctual
<1>11. Lists(screen'.plan, screen.plan)
  BY <1>2 DEF Lists
<1>12. QED BY <1>2, <1>8, <1>9, <1>10, <1>11, QuietPlain

-----------------------------------------------------------------------------
(* The invariant.                                                          *)

\* Every step of a mode not late by minutes keeps all of it.
LEMMA PlainKept ==
  ASSUME Shapes, Stored, Plain, ~mode.late, [PublicationNext]_planVars
  PROVE  Plain'
<1>1. mode.guards \subseteq Guards /\ mode.marks \subseteq Statuses
  BY DEF Shapes, BoundsShape, Sensible
<1>2. CASE ScreenStep
  <2>1. ASSUME NEW g \in mode.guards, NEW t \in Times, AddShift(g, t)
        PROVE  Plain'
    BY <1>1, <2>1, AddShiftPlain
  <2>2. ASSUME NEW g \in mode.guards, NEW i \in Ids, RemoveShift(g, i) \/ ClearMark(g, i)
        PROVE  Plain'
    BY <1>1, <2>2, RemoveShiftPlain, ClearMarkPlain
  <2>3. ASSUME NEW g \in mode.guards, NEW i \in Ids, NEW t \in Times, Retime(g, i, t)
        PROVE  Plain'
    BY <1>1, <2>3, RetimePlain
  <2>4. ASSUME NEW g \in mode.guards, NEW i \in Ids, NEW st \in mode.marks, NEW late \in BOOLEAN,
               MarkDraft(g, i, st, late) \/ MarkPublished(g, i, st, late)
        PROVE  Plain'
    <3>1. g \in Guards /\ st \in Statuses
      BY <1>1
    <3>2. QED BY <2>4, <3>1, MarkDraftPlain, MarkPublishedPlain
  <2>5. ASSUME NEW G \in {mode.guards} \cup {{g} : g \in mode.guards}, PublishButton(G) \/ Unpublish(G)
        PROVE  Plain'
    <3>1. G \in SUBSET Guards
      BY <1>1
    <3>2. QED BY <2>5, <3>1, SavePlain, UnpublishPlain
  <2>6. CASE Load \/ Save
    BY <2>6, LoadPlain, SavePlain
  <2>7. QED BY <1>2, <2>1, <2>2, <2>3, <2>4, <2>5, <2>6 DEF ScreenStep
<1>3. CASE ServerStep
  <2>1. ~LateStep
    BY SentShift DEF LateStep
  <2>2. QED BY <1>3, <2>1, StorePlain, RebuildPlain, SyncPlain, HealPlain, PublishStepPlain, UpsertPlain
            DEF ServerStep
<1>4. CASE Killed
  BY <1>4, KilledPlain
<1>5. CASE PageStep
  BY <1>5, PagePlain
<1>6. CASE UNCHANGED planVars
  <2>1. UNCHANGED <<screen, planner, assignments, recorded, lateLogs, job, dirty, accepted, behind, torn>>
    BY <1>6 DEF planVars
  <2>2. Lists(screen'.plan, screen.plan) /\ (Consistent' => Consistent)
    BY <2>1 DEF Lists, Consistent, Step
  <2>3. Honest(screen.plan)' /\ (~dirty' => Honest(planner)')
    BY <2>1, AcceptedGrows
  <2>4. Accepted'
    BY <2>1, <2>3 DEF Plain, Accepted, Recorded
  <2>5. \A k \in DOMAIN job'.todo : job'.todo[k] # "lateness"
    BY <2>1 DEF Plain, Punctual
  <2>6. QED BY <2>1, <2>2, <2>4, <2>5, QuietPlain
<1>7. QED BY <1>2, <1>3, <1>4, <1>5, <1>6 DEF PublicationNext

\* Nothing changes the bounds of a behaviour.
LEMMA ModeKept ==
  ASSUME [PublicationNext]_planVars
  PROVE  mode' = mode
<1>1. CASE ScreenStep
  <2>1. ASSUME NEW g, NEW i, NEW t, AddShift(g, t) \/ RemoveShift(g, i) \/ Retime(g, i, t) \/ ClearMark(g, i)
        PROVE  mode' = mode
    BY <2>1 DEF AddShift, RemoveShift, Retime, ClearMark, OnScreen
  <2>2. ASSUME NEW g, NEW i, NEW st, NEW late, MarkDraft(g, i, st, late) \/ MarkPublished(g, i, st, late)
        PROVE  mode' = mode
    BY <2>2 DEF MarkDraft, MarkPublished, OnScreen, Begin
  <2>3. ASSUME NEW G, PublishButton(G) \/ Unpublish(G) \/ Load \/ Save
        PROVE  mode' = mode
    BY <2>3 DEF PublishButton, Unpublish, Load, Save, Begin
  <2>4. QED BY <1>1, <2>1, <2>2, <2>3 DEF ScreenStep
<1>2. CASE ServerStep
  BY <1>2 DEF ServerStep, Store, Rebuild, Sync, Heal, PublishStep, LateStep, Upsert, Unmoved
<1>3. CASE PageStep
  BY <1>3 DEF PageStep, UpdateAttendance, BookOn, DeleteAttendance, Elsewhere
<1>4. CASE Killed \/ UNCHANGED planVars
  BY <1>4 DEF Killed, planVars
<1>5. QED BY <1>1, <1>2, <1>3, <1>4 DEF PublicationNext

\* The invariant holds at first.
LEMMA InvBegins ==
  ASSUME PublicationInit
  PROVE  Inv
<1>1. /\ planner = NoPlan /\ screen = [plan |-> NoPlan, published |-> {}] /\ assignments = <<>>
      /\ lateLogs = <<>> /\ job = NoJob /\ dirty = FALSE
  BY DEF PublicationInit
<1>2. /\ SlotsIn(NoPlan) = {} /\ DOMAIN assignments = {} /\ DOMAIN lateLogs = {}
      /\ DOMAIN job.todo = {} /\ screen.plan = NoPlan
  BY <1>1, NoPlanOf, JobNone
<1>3. Stored
  BY <1>1, <1>2 DEF Stored, PublishedGuards
<1>4. Punctual
  BY <1>1, <1>2 DEF Punctual
<1>5. Distinct
  BY <1>1, <1>2, ClaimsAre DEF Distinct
<1>6. Listed
  BY <1>1, <1>2 DEF Listed, Sole
<1>7. Followed
  BY <1>2 DEF Followed, PublishedGuards
<1>8. Accepted
  BY <1>1, <1>2 DEF Accepted, Honest
<1>9. QED BY <1>3, <1>4, <1>5, <1>6, <1>7, <1>8, ShapesBegin DEF Inv, Plain

\* Every step keeps it.
LEMMA InvKept ==
  ASSUME Inv, [PublicationNext]_planVars
  PROVE  Inv'
BY ShapesKept, StoredKept, PlainKept, ModeKept DEF Inv

\* Between requests that were not killed, the rows of a published guard follow the plan.
LEMMA InvMatches ==
  ASSUME Inv
  PROVE  PublishedMatches
<1> SUFFICES ASSUME ~mode.late, job = NoJob, ~torn
             PROVE  \A g \in PublishedGuards : Follows(g)
  BY DEF PublishedMatches, ActualStarts, Follows
<1>1. QED BY DEF Inv, Plain, Followed, Consistent

\* The types of the tables are part of it.
LEMMA InvTypes ==
  ASSUME Inv
  PROVE  PublicationTypeOK
<1>1. 1 .. made \subseteq Ids
  BY DEF Inv, Shapes, GhostsShape, BoundsShape, Sensible, Ids
<1>2. \A a \in DOMAIN assignments : assignments[a] \in [guard : Guards, id : Ids, start : Times]
  BY <1>1 DEF Inv, Shapes, TablesShape, Rows
<1>3. ASSUME NEW p \in {screen.plan, planner}, NEW s \in SlotsIn(p)
      PROVE  At(p, s) \in [id : Ids, start : Times, sched : Times \cup {Unset}]
  <2>1. At(p, s) \in Shifts
    BY IdIs DEF Inv
  <2>2. QED BY <1>1, <2>1 DEF Shifts
<1>4. QED BY <1>2, <1>3 DEF Inv, Shapes, TablesShape, PublicationTypeOK

-----------------------------------------------------------------------------
(* What publication promises.                                              *)

\* In every mode: tables, plans and requests have their shapes, a request sees no edits, and
\* a guard with assignments is shown as published.  In a mode where no shift is late by
\* minutes: no trace of lateness is kept, a guard's time is one shift's, assignments follow
\* the plan but while a save publishes again or after it was killed, and what the plans show
\* and the assignments record of a shift is what may rightly be.
THEOREM PublicationInductive == PublicationSpec => []Inv
<1>1. PublicationInit => Inv
  BY InvBegins
<1>2. Inv /\ [PublicationNext]_planVars => Inv'
  BY InvKept
<1>3. QED BY <1>1, <1>2, PTL DEF PublicationSpec

\* Assignments are of guards, ids and times there are, attendance is of assignments there
\* are, and plans list shifts of ids and times there are: the tables rota_plan_service.py,
\* attendance_service.py and shift_adjustment_service.py write.
THEOREM PublicationTypes == PublicationSpec => []PublicationTypeOK
<1>1. Inv => PublicationTypeOK
  BY InvTypes
<1>2. PublicationSpec => []Inv
  BY PublicationInductive
<1>3. QED BY <1>1, <1>2, PTL

\* Between requests, the assignments of a published guard are the shifts of the stored plan
\* at their actual times, where no shift is late by minutes: also after a save that was
\* killed between its commits, once another has ended (update_rota_plan compares the
\* fingerprints of all guards, not those of its own changes).
THEOREM AssignmentsFollow == PublicationSpec => []PublishedMatches
<1>1. Inv => PublishedMatches
  BY InvMatches
<1>2. PublicationSpec => []Inv
  BY PublicationInductive
<1>3. QED BY <1>1, <1>2, PTL

\* The status on an assignment is the one last recorded for its shift, on whichever page,
\* through publications that delete the assignments and make them again, where no shift is
\* late by minutes.
THEOREM RecordsSurvive == PublicationSpec => []RecordKept
<1>1. Inv => RecordKept
  BY DEF Inv, Plain, Accepted, RecordKept, SingleAnswer
<1>2. PublicationSpec => []Inv
  BY PublicationInductive
<1>3. QED BY <1>1, <1>2, PTL

=============================================================================
