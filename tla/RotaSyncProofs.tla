--------------------------- MODULE RotaSyncProofs ---------------------------
(***************************************************************************)
(* A plan is stored with its own edits only, and no edit is lost by        *)
(* switching plans: for any plans, any number of edits and of saves in     *)
(* flight, and however autosaves, saves before publishing, switches,       *)
(* loads, failures and moves by the browser's buttons interleave.          *)
(***************************************************************************)
EXTENDS RotaSync, SequenceTheorems, TLAPS

\* What the proofs take of the constants: a mode says how it orders, waits and loads, and
\* nothing stands for "no plan" or "not opened yet" by accident.
SyncAssumption ==
  /\ First \in Plans /\ NoPlan \notin Plans
  /\ Unopened \notin Modes
  /\ MaxEdits \in Nat

Contents == {NoData} \cup [set : SUBSET Edits]
Saves == [plan : Plans, set : SUBSET Edits, by : {"auto", "leave", "chain"}]

\* Somebody waits for each save but an autosave, and for one save at most.
WireOK ==
  /\ wire \in Seq(Saves)
  /\ \A i \in DOMAIN wire :
       /\ wire[i].by = "leave" => leaving # NoPlan
       /\ wire[i].by = "chain" => chain # NoChain
       /\ \A j \in DOMAIN wire : i # j /\ wire[i].by = wire[j].by => wire[i].by = "auto"

\* Nothing has happened yet.
Untouched ==
  /\ owner = <<>> /\ content = {} /\ dropped = {} /\ wire = <<>> /\ load = Idle
  /\ rotaPlanId = NoPlan /\ leaving = NoPlan /\ chain = NoChain /\ ~saveTimer /\ blind
  /\ \A p \in Plans : server[p] = NoData

Shape ==
  /\ mode \in Modes \cup {Unopened}
  /\ server \in [Plans -> Contents]
  /\ url \in Plans /\ rotaPlanId \in Plans \cup {NoPlan} /\ leaving \in Plans \cup {NoPlan}
  /\ content \subseteq Edits /\ dropped \subseteq Edits
  /\ load \in {Idle, [phase |-> "sent"]} \cup [phase : {"answered"}, data : Contents]
  /\ chain \in {NoChain} \cup [step : {1, 2}, plan : Plans]
  /\ saveTimer \in BOOLEAN /\ blind \in BOOLEAN
  /\ owner \in Seq(Plans) /\ Len(owner) <= MaxEdits
  /\ saveTimer => rotaPlanId # NoPlan
  /\ WireOK
  /\ mode = Unopened => Untouched

\* Nothing includes an edit before it is made.
Known ==
  /\ content \subseteq Made
  /\ \A p \in Plans : EditsIn(server[p]) \subseteq Made
  /\ \A i \in DOMAIN wire : wire[i].set \subseteq Made
  /\ load.phase = "answered" => EditsIn(load.data) \subseteq Made

Careful == mode # Unopened /\ mode.careful

\* While a careful user waits, the page stays on the plan that is being saved.
Waiting ==
  Careful =>
    /\ Awaited => url = rotaPlanId
    /\ leaving # NoPlan => chain = NoChain /\ leaving # url
    /\ chain # NoChain => chain.plan = rotaPlanId

\* Whatever is a plan's content, on the server, on screen, in a save or in an answer, holds
\* edits made on that plan only.
Of(S, p) == \A e \in S : owner[e] = p

Owned ==
  Careful /\ ~mode.bare =>
    /\ \A p \in Plans : server[p] # NoData /\ Of(EditsIn(server[p]), p)
    /\ Of(content, rotaPlanId)
    /\ \A i \in DOMAIN wire : Of(wire[i].set, wire[i].plan)
    /\ load.phase = "answered" => load.data # NoData /\ Of(EditsIn(load.data), url)

Held == Made \ dropped

\* Of a plan, the content on screen has every edit, a save those of the server and of the
\* saves before it.
Growing ==
  /\ \A e \in Held : owner[e] = rotaPlanId => e \in content
  /\ \A e \in Held : \A i \in DOMAIN wire :
       /\ wire[i].plan = owner[e]
       /\ \/ e \in EditsIn(server[owner[e]])
          \/ \E j \in 1 .. i - 1 : wire[j].plan = owner[e] /\ e \in wire[j].set
       => e \in wire[i].set

\* The save of a switch, and the autosaves after it, have every edit of the plan left.
LeavingAll ==
  \A k \in DOMAIN wire : wire[k].by = "leave" =>
    \A j \in k .. Len(wire) :
      /\ wire[j].plan = rotaPlanId
      /\ \A e \in Held : owner[e] = rotaPlanId => e \in wire[j].set

\* While a switch loads its plan, the plan left is saved in full, and no save of the plan
\* loaded is in flight.
Switching ==
  ~blind =>
    /\ load # Idle /\ ~Awaited /\ url # rotaPlanId
    /\ load.phase = "answered" => load.data = server[url]
    /\ \A i \in DOMAIN wire : wire[i].plan # url
    /\ \A e \in Held : owner[e] = rotaPlanId =>
         /\ e \in EditsIn(server[rotaPlanId])
         /\ \A i \in DOMAIN wire : wire[i].plan = rotaPlanId => e \in wire[i].set

AllAlive == \A e \in Held : Alive(e)

Kept == Careful /\ mode.ordered => AllAlive /\ Growing /\ LeavingAll /\ Switching

SyncInv == Shape /\ Known /\ Waiting /\ Owned /\ Kept

-----------------------------------------------------------------------------
\* The saves in flight.

\* Where the j-th of a list without its i-th element was.
Was(i, j) == IF j < i THEN j ELSE j + 1

\* A list without its i-th element.
LEMMA Removed ==
  ASSUME NEW S, NEW s \in Seq(S), NEW i \in DOMAIN s
  PROVE  /\ RemoveAt(s, i) \in Seq(S)
         /\ Len(RemoveAt(s, i)) = Len(s) - 1
         /\ \A j \in 1 .. Len(s) - 1 : RemoveAt(s, i)[j] = s[Was(i, j)]
<1> DEFINE before == SubSeq(s, 1, i - 1)
           after == SubSeq(s, i + 1, Len(s))
<1>1. /\ Len(s) \in Nat /\ i \in 1 .. Len(s)
      /\ \A j \in 1 .. Len(s) : s[j] \in S
  BY LenProperties, ElementOfSeq
<1>2. /\ before \in Seq(S) /\ Len(before) = i - 1
      /\ \A j \in 1 .. i - 1 : before[j] = s[j]
  <2>1. \A j \in 1 .. i - 1 : s[j] \in S
    BY <1>1
  <2>2. /\ before \in Seq(S) /\ Len(before) = IF 1 <= i - 1 THEN i - 1 - 1 + 1 ELSE 0
        /\ \A j \in 1 .. i - 1 - 1 + 1 : before[j] = s[1 + j - 1]
    <3> HIDE DEF before
    <3>1. 1 \in Int /\ i - 1 \in Int
      BY <1>1
    <3>2. QED
      BY <2>1, <3>1, SubSeqProperties DEF before
  <2> HIDE DEF before
  <2>3. QED
    BY <1>1, <2>2
<1>3. /\ after \in Seq(S) /\ Len(after) = Len(s) - i
      /\ \A j \in 1 .. Len(s) - i : after[j] = s[i + j]
  <2>1. \A j \in i + 1 .. Len(s) : s[j] \in S
    BY <1>1
  <2>2. /\ after \in Seq(S) /\ Len(after) = IF i + 1 <= Len(s) THEN Len(s) - (i + 1) + 1 ELSE 0
        /\ \A j \in 1 .. Len(s) - (i + 1) + 1 : after[j] = s[i + 1 + j - 1]
    <3> HIDE DEF after
    <3>1. i + 1 \in Int /\ Len(s) \in Int
      BY <1>1
    <3>2. QED
      BY <2>1, <3>1, SubSeqProperties DEF after
  <2> HIDE DEF after
  <2>3. QED
    BY <1>1, <2>2
<1>4. RemoveAt(s, i) = before \o after
  BY DEF RemoveAt
<1> HIDE DEF before, after
<1>5. /\ before \o after \in Seq(S)
      /\ Len(before \o after) = Len(before) + Len(after)
      /\ \A j \in 1 .. Len(before) + Len(after) :
           (before \o after)[j] = IF j <= Len(before) THEN before[j] ELSE after[j - Len(before)]
  BY <1>2, <1>3, ConcatProperties
<1>6. ASSUME NEW j \in 1 .. Len(s) - 1
      PROVE  (before \o after)[j] = s[Was(i, j)]
  <2>1. CASE j < i
    <3>1. j \in 1 .. i - 1 /\ j \in 1 .. Len(before) + Len(after) /\ j <= Len(before)
      BY <1>1, <1>2, <1>3, <2>1
    <3>2. (before \o after)[j] = before[j]
      BY <1>5, <3>1
    <3>3. QED
      BY <1>2, <2>1, <3>1, <3>2 DEF Was
  <2>2. CASE j >= i
    <3>1. j - (i - 1) \in 1 .. Len(s) - i /\ i + (j - (i - 1)) = j + 1
      BY <1>1, <2>2
    <3>2. j \in 1 .. Len(before) + Len(after) /\ ~(j <= Len(before)) /\ Len(before) = i - 1
      BY <1>1, <1>2, <1>3, <2>2
    <3>3. (before \o after)[j] = after[j - (i - 1)]
      BY <1>5, <3>2
    <3>4. ~(j < i)
      BY <1>1, <2>2
    <3>5. QED
      BY <1>3, <3>1, <3>3, <3>4 DEF Was
  <2>3. j < i \/ j >= i
    BY <1>1
  <2>4. QED
    BY <2>1, <2>2, <2>3
<1>7. Len(before) + Len(after) = Len(s) - 1
  BY <1>1, <1>2, <1>3
<1>8. QED
  BY <1>4, <1>5, <1>6, <1>7

\* After a step, the saves in flight are those left of before, in their order, and
\* perhaps one sent now, which comes last.
LeftOver(from) ==
  /\ wire' \in Seq(Saves)
  /\ \A j \in DOMAIN wire' :
       /\ from[j] \in DOMAIN wire => wire'[j] = wire[from[j]]
       /\ from[j] \notin DOMAIN wire => j = Len(wire')
  /\ \A j, k \in DOMAIN wire' :
       j < k /\ from[k] \in DOMAIN wire => from[j] \in DOMAIN wire /\ from[j] < from[k]

\* Nothing but s is sent.
SentOnly(from, s) == \A j \in DOMAIN wire' : from[j] \notin DOMAIN wire => wire'[j] = s

\* No save is answered.
LEMMA Pushed ==
  ASSUME wire \in Seq(Saves), NEW s \in Saves, wire' = Append(wire, s)
  PROVE  \E from : /\ LeftOver(from) /\ SentOnly(from, s)
                   /\ \A j \in DOMAIN wire : j \in DOMAIN wire' /\ from[j] = j
<1> DEFINE n == Len(wire)
           from == [j \in 1 .. n + 1 |-> j]
<1>1. n \in Nat /\ DOMAIN wire = 1 .. n
  BY LenProperties
<1>2. /\ wire' \in Seq(Saves) /\ Len(wire') = n + 1 /\ DOMAIN wire' = 1 .. n + 1
      /\ wire'[n + 1] = s /\ \A j \in 1 .. n : wire'[j] = wire[j]
  BY AppendProperties, LenProperties
<1> HIDE DEF n
<1>3. LeftOver(from)
  BY <1>1, <1>2 DEF LeftOver
<1>4. SentOnly(from, s) /\ \A j \in DOMAIN wire : j \in DOMAIN wire' /\ from[j] = j
  BY <1>1, <1>2 DEF SentOnly
<1>5. QED
  BY <1>3, <1>4

\* The answered save was the first of a publish, which sends the second.
GoesOn(i, ok) == ok /\ wire[i].by = "chain" /\ chain.step = 1

\* The i-th save is answered.
LEMMA RestIs ==
  ASSUME wire \in Seq(Saves), NEW i \in DOMAIN wire, NEW ok \in BOOLEAN,
         GoesOn(i, ok) => Save(chain.plan, "chain") \in Saves,
         wire' = Rest(i, ok)
  PROVE  \E from : /\ LeftOver(from) /\ SentOnly(from, Save(chain.plan, "chain"))
                   /\ \A j \in DOMAIN wire' : from[j] # i
                   /\ (\E j \in DOMAIN wire' : from[j] \notin DOMAIN wire) => GoesOn(i, ok)
                   /\ \A k \in DOMAIN wire \ {i} : \E j \in DOMAIN wire' : from[j] = k
<1> DEFINE n == Len(wire)
           less == RemoveAt(wire, i)
           from == [j \in 1 .. n |-> IF j = n THEN n + 1 ELSE Was(i, j)]
<1>1. n \in Nat /\ DOMAIN wire = 1 .. n /\ i \in 1 .. n
  BY LenProperties
<1>2. /\ less \in Seq(Saves) /\ Len(less) = n - 1
      /\ \A j \in 1 .. n - 1 : less[j] = wire[Was(i, j)]
  BY Removed
<1>3. \A j \in 1 .. n - 1 : Was(i, j) \in 1 .. n /\ Was(i, j) # i
  BY <1>1 DEF Was
<1>4. \A j, k \in 1 .. n - 1 : j < k => Was(i, j) < Was(i, k)
  BY <1>1 DEF Was
<1>5. \A k \in 1 .. n \ {i} : \E j \in 1 .. n - 1 : Was(i, j) = k
  <2>1. ASSUME NEW k \in 1 .. n \ {i}
        PROVE  \E j \in 1 .. n - 1 : Was(i, j) = k
    <3>1. CASE k < i
      <4>1. k \in 1 .. n - 1 /\ Was(i, k) = k
        BY <1>1, <3>1 DEF Was
      <4>2. QED
        BY <4>1
    <3>2. CASE k > i
      <4>1. k - 1 \in 1 .. n - 1 /\ Was(i, k - 1) = k
        BY <1>1, <3>2 DEF Was
      <4>2. QED
        BY <4>1
    <3>3. QED
      BY <1>1, <3>1, <3>2
  <2>2. QED
    BY <2>1
<1> HIDE DEF n, less
<1>9. \A j \in 1 .. n - 1 : from[j] = Was(i, j)
  BY <1>1
<1>6. CASE GoesOn(i, ok)
  <2>1. wire' = less \o <<Save(chain.plan, "chain")>>
    BY <1>6 DEF Rest, GoesOn, less
  <2>2. less \o <<Save(chain.plan, "chain")>> = Append(less, Save(chain.plan, "chain"))
    BY <1>2, <1>6, AppendIsConcat
  <2>3. /\ wire' \in Seq(Saves) /\ Len(wire') = n /\ DOMAIN wire' = 1 .. n
        /\ wire'[n] = Save(chain.plan, "chain")
        /\ \A j \in 1 .. n - 1 : wire'[j] = wire[Was(i, j)]
    <3> DEFINE s == Save(chain.plan, "chain")
    <3>0. s \in Saves /\ wire' = Append(less, s)
      BY <1>6, <2>1, <2>2
    <3> HIDE DEF s
    <3>1. /\ wire' \in Seq(Saves) /\ Len(wire') = Len(less) + 1
          /\ wire'[Len(less) + 1] = s
          /\ \A j \in 1 .. Len(less) : wire'[j] = less[j]
      BY <1>2, <3>0, AppendProperties
    <3>2. Len(less) + 1 = n
      BY <1>1, <1>2
    <3>3. QED
      BY <1>2, <3>1, <3>2, LenProperties DEF s
  <2>4. LeftOver(from)
    BY <1>1, <1>3, <1>4, <2>3 DEF LeftOver
  <2>5. SentOnly(from, Save(chain.plan, "chain")) /\ \A j \in DOMAIN wire' : from[j] # i
    BY <1>1, <1>3, <2>3 DEF SentOnly
  <2>6. \A k \in DOMAIN wire \ {i} : \E j \in DOMAIN wire' : from[j] = k
    <3> HIDE DEF from
    <3>1. \A j \in 1 .. n - 1 : j \in DOMAIN wire'
      BY <1>1, <2>3
    <3>2. QED
      BY <1>1, <1>5, <1>9, <3>1
  <2>7. QED
    BY <1>6, <2>4, <2>5, <2>6
<1>7. CASE ~GoesOn(i, ok)
  <2>1. wire' = less \o <<>>
    BY <1>7 DEF Rest, GoesOn, less
  <2>2. wire' = less
    BY <1>2, <2>1, ConcatEmptySeq
  <2>3. /\ wire' \in Seq(Saves) /\ Len(wire') = n - 1 /\ DOMAIN wire' = 1 .. n - 1
        /\ \A j \in 1 .. n - 1 : wire'[j] = wire[Was(i, j)]
    BY <1>2, <2>2, LenProperties
  <2>4. LeftOver(from)
    BY <1>1, <1>3, <1>4, <2>3 DEF LeftOver
  <2>5. \A j \in DOMAIN wire' : from[j] \in DOMAIN wire /\ from[j] # i
    BY <1>1, <1>3, <2>3
  <2>6. \A k \in DOMAIN wire \ {i} : \E j \in DOMAIN wire' : from[j] = k
    <3> HIDE DEF from
    <3>1. \A j \in 1 .. n - 1 : j \in DOMAIN wire'
      BY <1>1, <2>3
    <3>2. QED
      BY <1>1, <1>5, <1>9, <3>1
  <2>7. QED
    BY <2>4, <2>5, <2>6 DEF SentOnly
<1>8. QED
  BY <1>6, <1>7

-----------------------------------------------------------------------------
\* What the variables hold.

LEMMA MadeAreEdits ==
  ASSUME SyncAssumption, Shape
  PROVE  Made \subseteq Edits /\ Made = 1 .. Len(owner) /\ Len(owner) \in Nat
BY LenProperties DEF SyncAssumption, Shape, Made, Edits

LEMMA SaveTyped ==
  ASSUME SyncAssumption, Shape, NEW p \in Plans, NEW by \in {"auto", "leave", "chain"}
  PROVE  Save(p, by) \in Saves
BY MadeAreEdits DEF Shape, Saves, Save

\* A save is sent on nobody's behalf, or on behalf of somebody who waited for none.
LEMMA WireSent ==
  ASSUME WireOK, NEW s \in Saves, wire' = Append(wire, s),
         \/ s.by = "auto" /\ leaving' = leaving /\ chain' = chain
         \/ s.by = "leave" /\ leaving = NoPlan /\ leaving' # NoPlan /\ chain' = chain
         \/ s.by = "chain" /\ chain = NoChain /\ chain' # NoChain /\ leaving' = leaving
  PROVE  WireOK'
<1>1. PICK from : LeftOver(from) /\ SentOnly(from, s)
  BY Pushed DEF WireOK
<1>2. wire' \in Seq(Saves)
  BY <1>1 DEF LeftOver
<1>3. ASSUME NEW i \in DOMAIN wire'
      PROVE  /\ wire'[i].by = "leave" => leaving' # NoPlan
             /\ wire'[i].by = "chain" => chain' # NoChain
  BY <1>1 DEF LeftOver, SentOnly, WireOK
<1>4. ASSUME NEW i \in DOMAIN wire', NEW j \in DOMAIN wire', i < j, wire'[i].by = wire'[j].by
      PROVE  wire'[i].by = "auto"
  <2>1. CASE from[j] \in DOMAIN wire
    <3>1. from[i] \in DOMAIN wire /\ from[i] < from[j]
      BY <1>1, <1>4, <2>1 DEF LeftOver
    <3>2. wire'[i] = wire[from[i]] /\ wire'[j] = wire[from[j]] /\ from[i] # from[j]
      BY <1>1, <2>1, <3>1 DEF LeftOver, WireOK
    <3>3. QED
      BY <1>4, <2>1, <3>1, <3>2 DEF WireOK
  <2>2. CASE from[j] \notin DOMAIN wire
    <3>1. wire'[j] = s /\ j = Len(wire')
      BY <1>1, <2>2 DEF LeftOver, SentOnly
    <3>2. from[i] \in DOMAIN wire
      BY <1>1, <1>2, <1>4, <3>1, LenProperties DEF LeftOver
    <3>3. wire'[i] = wire[from[i]]
      BY <1>1, <3>2 DEF LeftOver
    <3>4. QED
      BY <1>4, <3>1, <3>2, <3>3 DEF WireOK
  <2>3. QED
    BY <2>1, <2>2
<1>5. ASSUME NEW i \in DOMAIN wire', NEW j \in DOMAIN wire', i # j, wire'[i].by = wire'[j].by
      PROVE  wire'[i].by = "auto"
  <2>1. i < j \/ j < i
    BY <1>2, <1>5, LenProperties
  <2>2. QED
    BY <1>4, <1>5, <2>1
<1>6. QED
  BY <1>2, <1>3, <1>5 DEF WireOK

\* Whoever waited for the answered save waits no more, or for the next.
LEMMA WireAnswered ==
  ASSUME SyncAssumption, Shape, NEW i \in DOMAIN wire, NEW ok \in BOOLEAN,
         Answered(wire[i], ok), wire' = Rest(i, ok)
  PROVE  WireOK' /\ (GoesOn(i, ok) => chain.plan \in Plans)
<1>1. GoesOn(i, ok) => chain.plan \in Plans
  BY DEF GoesOn, Shape, NoChain
<1>2. GoesOn(i, ok) => Save(chain.plan, "chain") \in Saves
  BY <1>1, SaveTyped
<1>3. WireOK
  BY DEF Shape
<1> DEFINE s == Save(chain.plan, "chain")
<1>4. s.by = "chain"
  BY DEF Save
<1>5. PICK from : /\ LeftOver(from) /\ SentOnly(from, s)
                  /\ \A j \in DOMAIN wire' : from[j] # i
                  /\ (\E j \in DOMAIN wire' : from[j] \notin DOMAIN wire) => GoesOn(i, ok)
  BY <1>2, <1>3, RestIs DEF WireOK
<1>6. /\ wire[i].by = "auto" => leaving' = leaving /\ chain' = chain
      /\ wire[i].by = "leave" => leaving' = NoPlan /\ chain' = chain
      /\ wire[i].by = "chain" => leaving' = leaving /\ (GoesOn(i, ok) => chain' # NoChain)
      /\ wire[i].by \in {"auto", "leave", "chain"}
  <2>1. GoesOn(i, ok) /\ wire[i].by = "chain" => chain'.step = 2
    BY DEF Answered, GoesOn, Shape, NoChain
  <2>2. QED
    BY <2>1 DEF Answered, NoChain, page
<1>7. wire' \in Seq(Saves)
  BY <1>5 DEF LeftOver
<1> HIDE DEF s
<1>8. ASSUME NEW j \in DOMAIN wire'
      PROVE  \/ /\ from[j] \in DOMAIN wire \ {i} /\ wire'[j] = wire[from[j]]
                /\ wire[from[j]].by = wire[i].by => wire[i].by = "auto"
             \/ /\ GoesOn(i, ok) /\ wire'[j] = s /\ from[j] \notin DOMAIN wire
  BY <1>3, <1>5 DEF LeftOver, SentOnly, WireOK
<1>9. ASSUME NEW j \in DOMAIN wire'
      PROVE  /\ wire'[j].by = "leave" => leaving' # NoPlan
             /\ wire'[j].by = "chain" => chain' # NoChain
  BY <1>3, <1>4, <1>6, <1>8 DEF WireOK, GoesOn
<1>10. ASSUME NEW j \in DOMAIN wire', NEW k \in DOMAIN wire', j < k, wire'[j].by = wire'[k].by
       PROVE  wire'[j].by = "auto"
  <2>1. CASE from[k] \in DOMAIN wire
    <3>1. from[j] \in DOMAIN wire /\ from[j] < from[k]
      BY <1>5, <1>10, <2>1 DEF LeftOver
    <3>2. wire'[j] = wire[from[j]] /\ wire'[k] = wire[from[k]] /\ from[j] # from[k]
      BY <1>3, <1>5, <2>1, <3>1 DEF LeftOver, WireOK
    <3>3. QED
      BY <1>3, <1>10, <2>1, <3>1, <3>2 DEF WireOK
  <2>2. CASE from[k] \notin DOMAIN wire
    <3>1. wire'[k].by = "chain" /\ wire[i].by = "chain" /\ k = Len(wire')
      BY <1>4, <1>5, <1>8, <2>2 DEF LeftOver, GoesOn
    <3>2. from[j] \in DOMAIN wire
      BY <1>5, <1>7, <1>10, <3>1, LenProperties DEF LeftOver
    <3>3. QED
      BY <1>8, <1>10, <3>1, <3>2
  <2>3. QED
    BY <2>1, <2>2
<1>11. ASSUME NEW j \in DOMAIN wire', NEW k \in DOMAIN wire', j # k, wire'[j].by = wire'[k].by
       PROVE  wire'[j].by = "auto"
  <2>1. j < k \/ k < j
    BY <1>7, <1>11, LenProperties
  <2>2. QED
    BY <1>10, <1>11, <2>1
<1>12. QED
  BY <1>1, <1>7, <1>9, <1>11 DEF WireOK

\* What the page does with an answer keeps its variables' types.
LEMMA AnsweredTyped ==
  ASSUME SyncAssumption, Shape, NEW i \in DOMAIN wire, NEW ok \in BOOLEAN, Answered(wire[i], ok)
  PROVE  /\ url' \in Plans /\ rotaPlanId' = rotaPlanId /\ leaving' \in Plans \cup {NoPlan}
         /\ content' = content /\ saveTimer' = saveTimer
         /\ load' \in {load, [phase |-> "sent"]}
         /\ chain' \in {NoChain} \cup [step : {1, 2}, plan : Plans]
<1>1. CASE wire[i].by = "auto"
  BY <1>1 DEF Answered, page, Shape
<1>2. CASE wire[i].by = "leave"
  <2>1. leaving \in Plans
    BY <1>2 DEF Shape, WireOK
  <2>2. QED
    BY <1>2, <2>1 DEF Answered, Loading, Shape
<1>3. CASE wire[i].by = "chain"
  <2>1. chain.step = 1 => chain \in [step : {1, 2}, plan : Plans]
    BY DEF Shape, NoChain
  <2>2. chain.step = 1 => [chain EXCEPT !.step = 2] \in [step : {1, 2}, plan : Plans]
    BY <2>1
  <2>3. QED
    BY <1>3, <2>2 DEF Answered, Shape
<1>4. QED
  BY <1>1, <1>2, <1>3 DEF Answered

LEMMA DataTyped ==
  /\ \A S \in SUBSET Edits : Data(S) \in Contents
  /\ \A S : EditsIn(Data(S)) = S /\ Data(S) # NoData
  /\ \A d \in Contents : EditsIn(d) \subseteq Edits
<1>1. \A S : Data(S) # NoData
  <2>1. ASSUME NEW S, Data(S) = NoData
        PROVE  FALSE
    <3>1. DOMAIN Data(S) = {"set"} /\ DOMAIN NoData = {"none"}
      BY DEF Data, NoData
    <3>2. QED
      BY <2>1, <3>1
  <2>2. QED
    BY <2>1
<1>2. QED
  BY <1>1 DEF Data, Contents, EditsIn

LEMMA AppendTyped ==
  ASSUME SyncAssumption, Shape, NEW e \in Edits, e = Len(owner) + 1, NEW p \in Plans,
         owner' = Append(owner, p)
  PROVE  /\ owner' \in Seq(Plans) /\ Len(owner') <= MaxEdits
         /\ Made' = Made \cup {e} /\ e \notin Made
         /\ owner'[e] = p /\ \A x \in Made : owner'[x] = owner[x]
<1>1. Len(owner) \in Nat /\ Made = 1 .. Len(owner)
  BY MadeAreEdits
<1>2. /\ owner' \in Seq(Plans) /\ Len(owner') = Len(owner) + 1
      /\ owner'[Len(owner) + 1] = p /\ \A x \in 1 .. Len(owner) : owner'[x] = owner[x]
  BY AppendProperties DEF Shape
<1>3. Made' = 1 .. Len(owner) + 1
  BY <1>2, LenProperties DEF Made
<1>4. QED
  BY <1>1, <1>2, <1>3 DEF Edits, SyncAssumption

LEMMA NoneInFlight == DOMAIN <<>> = {}
OBVIOUS

LEMMA ShapeStarts ==
  ASSUME SyncAssumption, SyncInit
  PROVE  Shape
<1>1. <<>> \in Seq(Plans) /\ <<>> \in Seq(Saves) /\ Len(<<>>) = 0 /\ DOMAIN <<>> = {}
  BY EmptySeq
<1>2. WireOK
  BY <1>1 DEF SyncInit, WireOK
<1>3. Untouched
  BY DEF SyncInit, Untouched
<1>4. server \in [Plans -> Contents]
  BY DEF SyncInit, Contents
<1>5. owner \in Seq(Plans) /\ Len(owner) <= MaxEdits
  BY <1>1 DEF SyncInit, SyncAssumption
<1>6. QED
  BY <1>2, <1>3, <1>4, <1>5 DEF SyncInit, Shape, SyncAssumption

\* Every step keeps the shape.
LEMMA ShapeKept ==
  ASSUME SyncAssumption, Shape, [SyncNext]_syncVars
  PROVE  Shape'
<1> USE DEF Contents
<1>1. ASSUME NEW m \in Modes, Open(m)
      PROVE  Shape'
  <2>1. server' \in [Plans -> Contents]
    BY <1>1, DataTyped DEF Open
  <2>2. WireOK'
    BY <1>1 DEF Open, Shape, WireOK, Saves, Edits
  <2>3. QED
    BY <1>1, <2>1, <2>2 DEF Open, Shape, SyncAssumption, Loading, ghosts, Edits, NoChain
<1>2. ASSUME NEW e \in Edits, Edit(e)
      PROVE  Shape'
  <2>1. rotaPlanId \in Plans
    BY <1>2 DEF Edit, MayAct, Visible, Shape
  <2>2. owner' \in Seq(Plans) /\ Len(owner') <= MaxEdits
    BY <1>2, <2>1, AppendTyped DEF Edit
  <2>3. WireOK'
    BY <1>2 DEF Edit, Shape, WireOK, Saves, Edits
  <2>4. mode' # Unopened
    BY <1>2 DEF Edit, MayAct, Visible
  <2>5. QED
    BY <1>2, <2>1, <2>2, <2>3, <2>4 DEF Edit, MayAct, Visible, Shape, Edits
<1>3. CASE Fire
  <2>1. rotaPlanId \in Plans
    BY <1>3 DEF Fire, Shape
  <2>2. WireOK'
    BY <1>3, <2>1, SaveTyped, WireSent DEF Fire, Send, Save, Shape
  <2>3. QED
    BY <1>3, <2>2 DEF Fire, Shape, ghosts, Untouched, Edits
<1>4. ASSUME NEW p \in Plans, GoToPlan(p)
      PROVE  Shape'
  <2>1. rotaPlanId \in Plans /\ mode # Unopened
    BY <1>4 DEF GoToPlan, MayAct, Visible, Shape
  <2>2. Save(rotaPlanId, "leave") \in Saves /\ Save(rotaPlanId, "leave").by = "leave"
    BY <2>1, SaveTyped DEF Save
  <2>3. WireOK'
    BY <1>4, <2>2, WireSent DEF GoToPlan, Send, Shape, SyncAssumption
  <2>4. QED
    BY <1>4, <2>1, <2>3 DEF GoToPlan, Shape, ghosts, Edits
<1>5. ASSUME NEW p \in Plans, Jump(p)
      PROVE  Shape'
  <2>1. WireOK'
    BY <1>5 DEF Jump, Shape, WireOK, Saves, Edits
  <2>2. QED
    BY <1>5, <2>1 DEF Jump, Loading, Shape, Edits
<1>6. CASE Publish
  <2>1. rotaPlanId \in Plans /\ mode # Unopened
    BY <1>6 DEF Publish, MayAct, Visible, Shape
  <2>2. Save(rotaPlanId, "chain") \in Saves /\ Save(rotaPlanId, "chain").by = "chain"
    BY <2>1, SaveTyped DEF Save
  <2>3. chain' # NoChain /\ chain' \in [step : {1, 2}, plan : Plans]
    <3>1. chain'.step = 1
      BY <1>6 DEF Publish
    <3>2. QED
      BY <1>6, <2>1, <3>1 DEF Publish, NoChain
  <2>4. WireOK'
    BY <1>6, <2>2, <2>3, WireSent DEF Publish, Send, Shape
  <2>5. QED
    BY <1>6, <2>1, <2>3, <2>4 DEF Publish, Shape, ghosts, Edits
<1>7. ASSUME NEW i \in 1 .. MaxWire, Stored(i)
      PROVE  Shape'
  <2>1. i \in DOMAIN wire /\ Answered(wire[i], TRUE) /\ wire' = Rest(i, TRUE) /\ mode # Unopened
    BY <1>7, NoneInFlight DEF Stored, Shape, Untouched
  <2>2. WireOK'
    BY <2>1, WireAnswered
  <2>3. wire[i] \in Saves
    BY <2>1, ElementOfSeq, LenProperties DEF Shape, WireOK
  <2>4. server' \in [Plans -> Contents]
    BY <1>7, <2>3, DataTyped DEF Stored, Shape, Saves
  <2>5. blind' \in BOOLEAN
    BY <1>7 DEF Stored, Shape
  <2>6. QED
    BY <1>7, <2>1, <2>2, <2>4, <2>5, AnsweredTyped DEF Stored, Shape, Edits
<1>8. ASSUME NEW i \in 1 .. MaxWire, NEW stored \in BOOLEAN, Fails(i, stored)
      PROVE  Shape'
  <2>1. i \in DOMAIN wire /\ Answered(wire[i], FALSE) /\ wire' = Rest(i, FALSE) /\ mode # Unopened
    BY <1>8, NoneInFlight DEF Fails, Shape, Untouched
  <2>2. WireOK'
    BY <2>1, WireAnswered
  <2>3. wire[i] \in Saves
    BY <2>1, ElementOfSeq, LenProperties DEF Shape, WireOK
  <2>4. server' \in [Plans -> Contents]
    BY <1>8, <2>3, DataTyped DEF Fails, Shape, Saves
  <2>5. blind' \in BOOLEAN /\ dropped' \subseteq Edits
    BY <1>8, MadeAreEdits DEF Fails, Shape, GivenUp
  <2>6. QED
    BY <1>8, <2>1, <2>2, <2>4, <2>5, AnsweredTyped DEF Fails, Shape, Edits
<1>9. CASE LoadServed
  <2>1. WireOK' /\ load' \in [phase : {"answered"}, data : Contents]
    BY <1>9 DEF LoadServed, Shape, WireOK, Saves, Edits
  <2>2. mode # Unopened
    BY <1>9 DEF LoadServed, Shape, Untouched, Idle
  <2>3. QED
    BY <1>9, <2>1, <2>2 DEF LoadServed, Shape, ghosts, Edits
<1>10. CASE LoadFails
  <2>1. WireOK'
    BY <1>10 DEF LoadFails, Shape, WireOK, Saves, Edits
  <2>2. mode # Unopened
    BY <1>10 DEF LoadFails, Shape, Untouched, Idle
  <2>3. QED
    BY <1>10, <2>1, <2>2 DEF LoadFails, Shape, Edits
<1>11. CASE LoadRotaPlan
  <2>1. WireOK'
    BY <1>11 DEF LoadRotaPlan, Shape, WireOK, Saves, Edits
  <2>2. mode # Unopened /\ load.data \in Contents
    BY <1>11 DEF LoadRotaPlan, Shape, Untouched, Idle
  <2>3. content' \subseteq Edits
    BY <1>11, <2>2, DataTyped DEF LoadRotaPlan, Shape
  <2>4. dropped' \subseteq Edits
    BY <1>11, MadeAreEdits DEF LoadRotaPlan, Shape, GivenUp
  <2>5. url # NoPlan
    BY DEF Shape, SyncAssumption
  <2>6. QED
    BY <1>11, <2>1, <2>2, <2>3, <2>4, <2>5 DEF LoadRotaPlan, Shape, Edits
<1>12. CASE PoolChange
  <2>1. WireOK'
    BY <1>12 DEF PoolChange, Shape, WireOK, Saves, Edits
  <2>2. saveTimer' \in BOOLEAN /\ blind' \in BOOLEAN /\ (saveTimer' => rotaPlanId' # NoPlan)
    BY <1>12 DEF PoolChange, Shape
  <2>3. QED
    BY <1>12, <2>1, <2>2 DEF PoolChange, Loading, Shape, Edits
<1>13. CASE UNCHANGED syncVars
  BY <1>13 DEF syncVars, Shape, WireOK, Saves, Edits, Untouched
<1>14. QED
  BY <1>1, <1>2, <1>3, <1>4, <1>5, <1>6, <1>7, <1>8, <1>9, <1>10, <1>11, <1>12, <1>13 DEF SyncNext

-----------------------------------------------------------------------------
\* Whose edits a content includes.

\* Where the saves in flight after a step come from.
LEMMA PushedFrom ==
  ASSUME Shape, NEW s \in Saves, wire' = Append(wire, s)
  PROVE  \A j \in DOMAIN wire' : wire'[j] = s \/ \E k \in DOMAIN wire : wire'[j] = wire[k]
<1>1. PICK from : LeftOver(from) /\ SentOnly(from, s)
  BY Pushed DEF Shape, WireOK
<1>2. QED
  BY <1>1 DEF LeftOver, SentOnly

LEMMA RestFrom ==
  ASSUME SyncAssumption, Shape, NEW i \in DOMAIN wire, NEW ok \in BOOLEAN,
         Answered(wire[i], ok), wire' = Rest(i, ok)
  PROVE  \A j \in DOMAIN wire' :
           \/ GoesOn(i, ok) /\ wire'[j] = Save(chain.plan, "chain")
           \/ \E k \in DOMAIN wire \ {i} : wire'[j] = wire[k]
<1>1. GoesOn(i, ok) => Save(chain.plan, "chain") \in Saves
  BY WireAnswered, SaveTyped
<1>2. PICK from : /\ LeftOver(from) /\ SentOnly(from, Save(chain.plan, "chain"))
                  /\ \A j \in DOMAIN wire' : from[j] # i
                  /\ (\E j \in DOMAIN wire' : from[j] \notin DOMAIN wire) => GoesOn(i, ok)
  BY <1>1, RestIs DEF Shape, WireOK
<1>3. QED
  BY <1>2 DEF LeftOver, SentOnly

\* A plan is stored with what the save included.
LEMMA StoredIs ==
  ASSUME Shape, NEW i \in DOMAIN wire,
         server' = [server EXCEPT ![wire[i].plan] = Data(wire[i].set)]
  PROVE  /\ wire[i] \in Saves
         /\ \A p \in Plans :
              /\ p = wire[i].plan => server'[p] # NoData /\ EditsIn(server'[p]) = wire[i].set
              /\ p # wire[i].plan => server'[p] = server[p]
<1>1. wire[i] \in Saves
  BY ElementOfSeq, LenProperties DEF Shape, WireOK
<1>2. QED
  BY <1>1, DataTyped DEF Shape

LEMMA KnownKept ==
  ASSUME SyncAssumption, Shape, Known, [SyncNext]_syncVars
  PROVE  Known'
<1>1. ASSUME NEW m \in Modes, Open(m)
      PROVE  Known'
  <2>1. \A p \in Plans : EditsIn(server'[p]) = {}
    <3>1. EditsIn(NoData) = {} /\ EditsIn(Data({})) = {}
      BY DataTyped DEF EditsIn
    <3>2. QED
      BY <1>1, <3>1 DEF Open
  <2>2. load' # load => load'.phase # "answered"
    BY <1>1 DEF Open, Loading
  <2>3. QED
    BY <1>1, <2>1, <2>2 DEF Open, Known, ghosts, Made, Loading
<1>2. ASSUME NEW e \in Edits, Edit(e)
      PROVE  Known'
  <2>1. rotaPlanId \in Plans
    BY <1>2 DEF Edit, MayAct, Visible, Shape
  <2>2. Made' = Made \cup {e}
    BY <1>2, <2>1, AppendTyped DEF Edit
  <2>3. QED
    BY <1>2, <2>2 DEF Edit, Known
<1>3. CASE Fire
  <2>1. Save(rotaPlanId, "auto") \in Saves /\ Save(rotaPlanId, "auto").set = content
    BY <1>3, SaveTyped DEF Fire, Shape, Save
  <2>2. QED
    BY <1>3, <2>1, PushedFrom DEF Fire, Send, Known, Made, ghosts
<1>4. ASSUME NEW p \in Plans, GoToPlan(p)
      PROVE  Known'
  <2>1. Save(rotaPlanId, "leave") \in Saves /\ Save(rotaPlanId, "leave").set = content
    BY <1>4, SaveTyped DEF GoToPlan, MayAct, Visible, Shape, Save
  <2>2. QED
    BY <1>4, <2>1, PushedFrom DEF GoToPlan, Send, Known, Made, ghosts
<1>5. ASSUME NEW p \in Plans, Jump(p)
      PROVE  Known'
  BY <1>5 DEF Jump, Loading, Known, Made
<1>6. CASE Publish
  <2>1. Save(rotaPlanId, "chain") \in Saves /\ Save(rotaPlanId, "chain").set = content
    BY <1>6, SaveTyped DEF Publish, MayAct, Visible, Shape, Save
  <2>2. QED
    BY <1>6, <2>1, PushedFrom DEF Publish, Send, Known, Made, ghosts
<1>7. ASSUME NEW i \in DOMAIN wire, NEW ok \in BOOLEAN, Answered(wire[i], ok), wire' = Rest(i, ok),
             owner' = owner,
             \/ server' = [server EXCEPT ![wire[i].plan] = Data(wire[i].set)]
             \/ server' = server
      PROVE  Known'
  <2>1. Save(chain.plan, "chain").set = content
    BY DEF Save
  <2>2. \A p \in Plans : EditsIn(server'[p]) \subseteq Made
    BY <1>7, StoredIs DEF Known
  <2>3. \A j \in DOMAIN wire' : wire'[j].set \subseteq Made
    BY <1>7, <2>1, RestFrom DEF Known
  <2>4. content' = content /\ (load' = load \/ load'.phase # "answered")
    BY <1>7, AnsweredTyped
  <2>5. QED
    BY <1>7, <2>2, <2>3, <2>4 DEF Known, Made
<1>8. CASE LoadServed
  BY <1>8 DEF LoadServed, Known, Made, ghosts, Shape
<1>9. CASE LoadFails \/ PoolChange
  BY <1>9 DEF LoadFails, PoolChange, Loading, Known, Made, Idle
<1>10. CASE LoadRotaPlan
  BY <1>10 DEF LoadRotaPlan, Known, Made, Idle
<1>11. CASE UNCHANGED syncVars
  BY <1>11 DEF syncVars, Known, Made
<1>12. ASSUME NEW i \in 1 .. MaxWire, Stored(i) \/ \E stored \in BOOLEAN : Fails(i, stored)
       PROVE  Known'
  BY <1>7, <1>12 DEF Stored, Fails
<1>13. QED
  BY <1>1, <1>2, <1>3, <1>4, <1>5, <1>6, <1>8, <1>9, <1>10, <1>11, <1>12 DEF SyncNext

\* Nobody moves a page that waits.
LEMMA WaitingKept ==
  ASSUME SyncAssumption, Shape, Waiting, [SyncNext]_syncVars
  PROVE  Waiting'
<1>1. ASSUME NEW m \in Modes, Open(m)
      PROVE  Waiting'
  BY <1>1 DEF Open, Waiting, Shape, Untouched, Awaited
<1>2. ASSUME NEW e \in Edits, Edit(e)
      PROVE  Waiting'
  BY <1>2 DEF Edit, Waiting, Awaited, Careful
<1>3. CASE Fire
  BY <1>3 DEF Fire, Waiting, Awaited, Careful
<1>4. ASSUME NEW p \in Plans, GoToPlan(p)
      PROVE  Waiting'
  BY <1>4 DEF GoToPlan, MayAct, Waiting, Awaited, Careful
<1>5. ASSUME NEW p \in Plans, Jump(p)
      PROVE  Waiting'
  BY <1>5 DEF Jump, Waiting, Awaited, Careful
<1>6. CASE Publish
  <2>1. chain'.plan = rotaPlanId
    BY <1>6 DEF Publish
  <2>2. QED
    BY <1>6, <2>1 DEF Publish, MayAct, Waiting, Awaited, Careful
<1>7. ASSUME NEW i \in DOMAIN wire, NEW ok \in BOOLEAN, Answered(wire[i], ok),
             mode' = mode
      PROVE  Waiting'
  <2>1. CASE wire[i].by = "auto"
    BY <1>7, <2>1 DEF Answered, page, Waiting, Awaited, Careful
  <2>2. CASE wire[i].by = "leave"
    BY <1>7, <2>2 DEF Answered, Waiting, Awaited, Careful, Shape, WireOK
  <2>3. CASE wire[i].by = "chain"
    <3>1. chain # NoChain /\ chain.plan = [chain EXCEPT !.step = 2].plan
      BY <2>3 DEF Shape, WireOK
    <3>2. QED
      BY <1>7, <2>3, <3>1 DEF Answered, Waiting, Awaited, Careful
  <2>4. QED
    BY <1>7, <2>1, <2>2, <2>3 DEF Answered
<1>8. ASSUME NEW i \in 1 .. MaxWire, Stored(i) \/ \E stored \in BOOLEAN : Fails(i, stored)
      PROVE  Waiting'
  BY <1>7, <1>8 DEF Stored, Fails
<1>9. CASE LoadServed \/ LoadFails \/ PoolChange
  BY <1>9 DEF LoadServed, LoadFails, PoolChange, Waiting, Awaited, Careful
<1>10. CASE LoadRotaPlan
  BY <1>10 DEF LoadRotaPlan, Waiting, Awaited, Careful
<1>11. CASE UNCHANGED syncVars
  BY <1>11 DEF syncVars, Waiting, Awaited, Careful
<1>12. QED
  BY <1>1, <1>2, <1>3, <1>4, <1>5, <1>6, <1>8, <1>9, <1>10, <1>11 DEF SyncNext

\* Every content that is made, sent, stored or loaded holds its plan's edits.
LEMMA OwnedKept ==
  ASSUME SyncAssumption, Shape, Known, Waiting, Owned, [SyncNext]_syncVars
  PROVE  Owned'
<1> USE DEF Of
<1>1. ASSUME NEW m \in Modes, Open(m), Careful' /\ ~mode'.bare
      PROVE  Owned'
  <2>1. EditsIn(Data({})) = {} /\ Data({}) # NoData
    BY DataTyped
  <2>2. \A p \in Plans : server'[p] = Data({})
    BY <1>1 DEF Open
  <2>3. content' = {} /\ DOMAIN wire' = {} /\ load'.phase # "answered"
    BY <1>1, NoneInFlight DEF Open, Loading, Shape, Untouched
  <2>4. QED
    BY <2>1, <2>2, <2>3 DEF Owned
<1> SUFFICES ASSUME Careful /\ ~mode.bare, mode' = mode, \A m \in Modes : ~Open(m)
             PROVE  Owned'
  BY <1>1 DEF Owned, Careful, SyncNext, syncVars, Open, Edit, Fire, GoToPlan, Jump, Publish,
     Stored, Fails,
              LoadServed, LoadFails, LoadRotaPlan, PoolChange
<1>2. ASSUME NEW e \in Edits, Edit(e)
      PROVE  Owned'
  <2>1. rotaPlanId \in Plans /\ load = Idle
    BY <1>2 DEF Edit, MayAct, Visible, Shape
  <2>2. owner'[e] = rotaPlanId /\ \A x \in Made : owner'[x] = owner[x]
    BY <1>2, <2>1, AppendTyped DEF Edit
  <2>3. load.phase # "answered"
    BY <2>1 DEF Idle
  <2>4. QED
    BY <1>2, <2>2, <2>3 DEF Edit, Known, Owned
<1>3. CASE Fire
  <2>1. /\ Save(rotaPlanId, "auto") \in Saves
        /\ Save(rotaPlanId, "auto").set = content /\ Save(rotaPlanId, "auto").plan = rotaPlanId
    BY <1>3, SaveTyped DEF Fire, Shape, Save
  <2>2. \A j \in DOMAIN wire' : Of(wire'[j].set, wire'[j].plan)
    BY <1>3, <2>1, PushedFrom DEF Fire, Send, Owned
  <2>3. QED
    BY <1>3, <2>2 DEF Fire, Owned, ghosts
<1>4. ASSUME NEW p \in Plans, GoToPlan(p)
      PROVE  Owned'
  <2>1. /\ Save(rotaPlanId, "leave") \in Saves
        /\ Save(rotaPlanId, "leave").set = content /\ Save(rotaPlanId, "leave").plan = rotaPlanId
    BY <1>4, SaveTyped DEF GoToPlan, MayAct, Visible, Shape, Save
  <2>2. \A j \in DOMAIN wire' : Of(wire'[j].set, wire'[j].plan)
    BY <1>4, <2>1, PushedFrom DEF GoToPlan, Send, Owned
  <2>3. QED
    BY <1>4, <2>2 DEF GoToPlan, Owned, ghosts
<1>5. ASSUME NEW p \in Plans, Jump(p)
      PROVE  Owned'
  BY <1>5 DEF Jump, Loading, Owned
<1>6. CASE Publish
  <2>1. /\ Save(rotaPlanId, "chain") \in Saves
        /\ Save(rotaPlanId, "chain").set = content /\ Save(rotaPlanId, "chain").plan = rotaPlanId
    BY <1>6, SaveTyped DEF Publish, MayAct, Visible, Shape, Save
  <2>2. \A j \in DOMAIN wire' : Of(wire'[j].set, wire'[j].plan)
    BY <1>6, <2>1, PushedFrom DEF Publish, Send, Owned
  <2>3. QED
    BY <1>6, <2>2 DEF Publish, Owned, ghosts
<1>7. ASSUME NEW i \in DOMAIN wire, NEW ok \in BOOLEAN, Answered(wire[i], ok), wire' = Rest(i, ok),
             owner' = owner,
             \/ server' = [server EXCEPT ![wire[i].plan] = Data(wire[i].set)]
             \/ server' = server
      PROVE  Owned'
  <2>1. ASSUME GoesOn(i, ok)
        PROVE  Save(chain.plan, "chain").set = content /\ Save(chain.plan, "chain").plan = rotaPlanId
    BY <2>1 DEF GoesOn, Shape, WireOK, Waiting, Save
  <2>2. \A j \in DOMAIN wire' : Of(wire'[j].set, wire'[j].plan)
    BY <1>7, <2>1, RestFrom DEF Owned
  <2>3. \A p \in Plans : server'[p] # NoData /\ Of(EditsIn(server'[p]), p)
    BY <1>7, StoredIs DEF Owned
  <2>4. /\ content' = content /\ rotaPlanId' = rotaPlanId
        /\ load'.phase = "answered" => load' = load /\ url' = url
    <3>1. (load' = load /\ url' = url) \/ load'.phase = "sent"
      BY <1>7 DEF Answered, page, Loading
    <3>2. QED
      BY <1>7, <3>1, AnsweredTyped
  <2>5. QED
    BY <1>7, <2>2, <2>3, <2>4 DEF Owned
<1>8. ASSUME NEW i \in 1 .. MaxWire, Stored(i) \/ \E stored \in BOOLEAN : Fails(i, stored)
      PROVE  Owned'
  BY <1>7, <1>8 DEF Stored, Fails
<1>9. CASE LoadServed
  BY <1>9 DEF LoadServed, Owned, ghosts, Shape
<1>10. CASE LoadFails \/ PoolChange
  BY <1>10 DEF LoadFails, PoolChange, Loading, Owned, Idle
<1>11. CASE LoadRotaPlan
  BY <1>11 DEF LoadRotaPlan, Owned, Idle
<1>12. CASE UNCHANGED syncVars
  BY <1>12 DEF syncVars, Owned
<1>13. QED
  BY <1>2, <1>3, <1>4, <1>5, <1>6, <1>8, <1>9, <1>10, <1>11, <1>12 DEF SyncNext

-----------------------------------------------------------------------------
\* What becomes of an edit.

\* The page sends what it shows.
LEMMA SentKeeps ==
  ASSUME SyncAssumption, Shape, AllAlive, Growing, LeavingAll, Switching,
         NEW s \in Saves, s.plan = rotaPlanId, s.set = content, wire' = Append(wire, s),
         UNCHANGED <<server, url, rotaPlanId, content, load, owner, dropped, blind>>,
         \/ s.by = "auto" /\ leaving' = leaving /\ chain' = chain
         \/ s.by # "auto" /\ load = Idle /\ leaving = NoPlan
  PROVE  AllAlive' /\ Growing' /\ LeavingAll' /\ Switching'
<1>1. PICK from : /\ LeftOver(from) /\ SentOnly(from, s)
                  /\ \A j \in DOMAIN wire : j \in DOMAIN wire' /\ from[j] = j
  BY Pushed DEF Shape, WireOK
<1>2. Held' = Held /\ Made' = Made
  BY DEF Held, Made
<1>3. wire' \in Seq(Saves) /\ DOMAIN wire' = 1 .. Len(wire') /\ Len(wire') \in Nat
  BY <1>1, LenProperties DEF LeftOver
<1>4. \A e \in Held : owner[e] = rotaPlanId => e \in s.set
  BY DEF Growing
<1>5. AllAlive'
  <2>1. \A k \in DOMAIN wire : k \in DOMAIN wire' /\ wire'[k] = wire[k]
    BY <1>1 DEF LeftOver
  <2>2. QED
    BY <1>2, <2>1 DEF AllAlive, Alive
<1>6. Growing'
  <2>1. ASSUME NEW e \in Held, NEW i \in DOMAIN wire', wire'[i].plan = owner[e],
               \/ e \in EditsIn(server[owner[e]])
               \/ \E j \in 1 .. i - 1 : wire'[j].plan = owner[e] /\ e \in wire'[j].set
        PROVE  e \in wire'[i].set
    <3>1. CASE from[i] \notin DOMAIN wire
      BY <1>1, <1>4, <2>1, <3>1 DEF SentOnly
    <3>2. CASE from[i] \in DOMAIN wire
      <4>1. wire'[i] = wire[from[i]]
        BY <1>1, <3>2 DEF LeftOver
      <4>2. ASSUME NEW j \in 1 .. i - 1, wire'[j].plan = owner[e], e \in wire'[j].set
            PROVE  \E k \in 1 .. from[i] - 1 : wire[k].plan = owner[e] /\ e \in wire[k].set
        <5>1. j \in DOMAIN wire' /\ j < i
          BY <1>3
        <5>2. from[j] \in DOMAIN wire /\ from[j] < from[i] /\ wire'[j] = wire[from[j]]
          BY <1>1, <3>2, <5>1 DEF LeftOver
        <5>3. from[j] \in 1 .. from[i] - 1
          BY <3>2, <5>2, LenProperties DEF Shape, WireOK
        <5>4. QED
          BY <4>2, <5>2, <5>3
      <4>3. QED
        BY <2>1, <3>2, <4>1, <4>2 DEF Growing
    <3>3. QED
      BY <3>1, <3>2
  <2>2. QED
    BY <1>2, <2>1 DEF Growing
<1>7. LeavingAll'
  <2>1. ASSUME NEW k \in DOMAIN wire', wire'[k].by = "leave", NEW j \in k .. Len(wire')
        PROVE  wire'[j].plan = rotaPlanId /\ \A e \in Held : owner[e] = rotaPlanId => e \in wire'[j].set
    <3>1. j \in DOMAIN wire' /\ (k < j \/ k = j)
      BY <1>3, <2>1
    <3>2. CASE from[j] \notin DOMAIN wire
      BY <1>1, <1>4, <3>1, <3>2 DEF SentOnly
    <3>3. CASE from[j] \in DOMAIN wire
      <4>1. from[k] \in DOMAIN wire /\ wire'[j] = wire[from[j]] /\ wire'[k] = wire[from[k]]
        BY <1>1, <3>1, <3>3 DEF LeftOver
      <4>2. from[k] < from[j] \/ from[k] = from[j]
        BY <1>1, <3>1, <3>3 DEF LeftOver
      <4>3. from[j] \in from[k] .. Len(wire)
        BY <3>3, <4>1, <4>2, LenProperties DEF Shape, WireOK
      <4>4. QED
        BY <2>1, <4>1, <4>3 DEF LeavingAll
    <3>4. QED
      BY <3>2, <3>3
  <2>2. QED
    BY <1>2, <2>1 DEF LeavingAll
<1>8. Switching'
  <2>1. \A j \in DOMAIN wire' : wire'[j] = s \/ \E k \in DOMAIN wire : wire'[j] = wire[k]
    BY <1>1 DEF LeftOver, SentOnly
  <2>2. CASE blind
    BY <2>2 DEF Switching
  <2>3. CASE ~blind
    <3>1. leaving' = leaving /\ chain' = chain
      BY <2>3 DEF Switching
    <3>2. \A j \in DOMAIN wire' : wire'[j].plan # url
      BY <2>1, <2>3 DEF Switching
    <3>3. \A e \in Held : owner[e] = rotaPlanId =>
            \A j \in DOMAIN wire' : wire'[j].plan = rotaPlanId => e \in wire'[j].set
      BY <1>4, <2>1, <2>3 DEF Switching
    <3>4. QED
      BY <1>2, <2>3, <3>1, <3>2, <3>3 DEF Switching, Awaited
  <2>4. QED
    BY <2>2, <2>3
<1>9. QED
  BY <1>5, <1>6, <1>7, <1>8

\* The first save in flight is answered; what a failure loses is dropped.
LEMMA AnswerKeeps ==
  ASSUME SyncAssumption, Shape, Known, Waiting, AllAlive, Growing, LeavingAll, Switching, Careful,
         1 \in DOMAIN wire, NEW ok \in BOOLEAN, Answered(wire[1], ok), wire' = Rest(1, ok),
         owner' = owner, blind' = (blind /\ url' = url),
         \/ server' = [server EXCEPT ![wire[1].plan] = Data(wire[1].set)]
         \/ server' = server /\ ~ok,
         \/ dropped' = dropped /\ ok
         \/ dropped' = dropped \cup GivenUp
  PROVE  AllAlive' /\ Growing' /\ LeavingAll' /\ Switching'
<1> DEFINE s == Save(chain.plan, "chain")
<1>1. GoesOn(1, ok) => s \in Saves
  BY WireAnswered, SaveTyped
<1>2. PICK from : /\ LeftOver(from) /\ SentOnly(from, s)
                  /\ \A j \in DOMAIN wire' : from[j] # 1
                  /\ (\E j \in DOMAIN wire' : from[j] \notin DOMAIN wire) => GoesOn(1, ok)
                  /\ \A k \in DOMAIN wire \ {1} : \E j \in DOMAIN wire' : from[j] = k
  <2>1. wire \in Seq(Saves)
    BY DEF Shape, WireOK
  <2>2. QED
    BY <1>1, <2>1, RestIs
<1>3. GoesOn(1, ok) => s.plan = rotaPlanId /\ s.set = content /\ chain # NoChain /\ leaving = NoPlan
  BY DEF GoesOn, Shape, WireOK, Waiting, Save
<1>4. /\ wire' \in Seq(Saves) /\ DOMAIN wire' = 1 .. Len(wire') /\ Len(wire') \in Nat
      /\ DOMAIN wire = 1 .. Len(wire) /\ Len(wire) \in Nat
  BY <1>2, LenProperties DEF LeftOver, Shape, WireOK
<1> HIDE DEF s
<1>5. Held' \subseteq Held /\ Made' = Made
  BY DEF Held, Made
<1>6. rotaPlanId' = rotaPlanId /\ content' = content
  BY AnsweredTyped
<1>7. \A e \in Held : owner[e] \in Plans
  BY ElementOfSeq, LenProperties DEF Held, Made, Shape
<1>8. ASSUME NEW e \in Held, e \in EditsIn(server'[owner[e]])
      PROVE  \/ e \in EditsIn(server[owner[e]])
             \/ wire[1].plan = owner[e] /\ e \in wire[1].set
  BY <1>7, <1>8, StoredIs
<1>10. AllAlive'
  <2>1. ASSUME NEW e \in Held'
        PROVE  Alive(e)'
    <3>1. e \in Held /\ Alive(e)
      BY <1>5 DEF AllAlive
    <3>2. CASE dropped' = dropped \cup GivenUp
      BY <3>1, <3>2 DEF Held, GivenUp
    <3>3. CASE dropped' = dropped /\ ok
      <4>1. server' = [server EXCEPT ![wire[1].plan] = Data(wire[1].set)]
        BY <3>3
      <4> DEFINE Stays == e \in EditsIn(server[owner[e]]) \/ (wire[1].plan = owner[e] /\ e \in wire[1].set)
                 Shows == rotaPlanId = owner[e] /\ e \in content
                 Waits == \E k \in DOMAIN wire \ {1} : wire[k].plan = owner[e] /\ e \in wire[k].set
      <4>2. Stays \/ Shows \/ Waits
        BY <3>1 DEF Alive
      <4>3. ASSUME Stays
            PROVE  Alive(e)'
        <5>1. wire[1].plan = owner[e] => e \in wire[1].set
          BY <3>1, <4>3 DEF Growing
        <5>2. e \in EditsIn(server'[owner[e]])
          BY <1>7, <3>1, <4>1, <4>3, <5>1, StoredIs
        <5>3. QED
          BY <5>2 DEF Alive
      <4>4. ASSUME Shows
            PROVE  Alive(e)'
        BY <1>6, <4>4 DEF Alive
      <4>5. ASSUME Waits
            PROVE  Alive(e)'
        <5>1. PICK k \in DOMAIN wire \ {1} : wire[k].plan = owner[e] /\ e \in wire[k].set
          BY <4>5
        <5>2. PICK j \in DOMAIN wire' : from[j] = k
          BY <1>2
        <5>3. wire'[j] = wire[k]
          BY <1>2, <5>2 DEF LeftOver
        <5>4. QED
          BY <5>1, <5>3 DEF Alive
      <4> HIDE DEF Stays, Shows, Waits
      <4>6. QED
        BY <4>2, <4>3, <4>4, <4>5
    <3>4. QED
      BY <3>2, <3>3
  <2>2. QED
    BY <2>1 DEF AllAlive
<1>11. Growing'
  <2>1. ASSUME NEW e \in Held, NEW i \in DOMAIN wire', wire'[i].plan = owner[e],
               \/ e \in EditsIn(server'[owner[e]])
               \/ \E j \in 1 .. i - 1 : wire'[j].plan = owner[e] /\ e \in wire'[j].set
        PROVE  e \in wire'[i].set
    <3>1. CASE from[i] \notin DOMAIN wire
      <4>1. wire'[i] = s /\ GoesOn(1, ok)
        BY <1>2, <3>1 DEF SentOnly
      <4>2. QED
        BY <1>3, <2>1, <4>1 DEF Growing
    <3>2. CASE from[i] \in DOMAIN wire
      <4>1. wire'[i] = wire[from[i]] /\ from[i] # 1
        BY <1>2, <3>2 DEF LeftOver
      <4>2. 1 \in 1 .. from[i] - 1
        BY <1>4, <3>2, <4>1
      <4>3. ASSUME NEW j \in 1 .. i - 1, wire'[j].plan = owner[e], e \in wire'[j].set
            PROVE  \E k \in 1 .. from[i] - 1 : wire[k].plan = owner[e] /\ e \in wire[k].set
        <5>1. j \in DOMAIN wire' /\ j < i
          BY <1>4
        <5>2. from[j] \in DOMAIN wire /\ from[j] < from[i] /\ wire'[j] = wire[from[j]]
          BY <1>2, <3>2, <5>1 DEF LeftOver
        <5>3. from[j] \in 1 .. from[i] - 1
          BY <1>4, <3>2, <5>2
        <5>4. QED
          BY <4>3, <5>2, <5>3
      <4>4. \/ e \in EditsIn(server[owner[e]])
            \/ \E k \in 1 .. from[i] - 1 : wire[k].plan = owner[e] /\ e \in wire[k].set
        BY <1>8, <2>1, <4>2, <4>3
      <4>5. QED
        BY <2>1, <3>2, <4>1, <4>4 DEF Growing
    <3>3. QED
      BY <3>1, <3>2
  <2>2. QED
    BY <1>5, <1>6, <2>1 DEF Growing
<1>12. LeavingAll'
  <2>1. ASSUME NEW k \in DOMAIN wire', wire'[k].by = "leave", NEW j \in k .. Len(wire')
        PROVE  wire'[j].plan = rotaPlanId /\ \A e \in Held : owner[e] = rotaPlanId => e \in wire'[j].set
    <3>1. j \in DOMAIN wire' /\ (k < j \/ k = j)
      BY <1>4, <2>1
    <3>2. from[k] \in DOMAIN wire
      <4>1. s.by = "chain"
        BY DEF s, Save
      <4>2. QED
        BY <1>2, <2>1, <4>1 DEF SentOnly
    <3>3. wire'[k] = wire[from[k]] /\ leaving # NoPlan
      BY <1>2, <2>1, <3>2 DEF LeftOver, Shape, WireOK
    <3>4. from[j] \in DOMAIN wire
      BY <1>2, <1>3, <3>1, <3>3
    <3>5. wire'[j] = wire[from[j]] /\ (from[k] < from[j] \/ from[k] = from[j])
      BY <1>2, <3>1, <3>4 DEF LeftOver
    <3>6. from[j] \in from[k] .. Len(wire)
      BY <1>4, <3>2, <3>4, <3>5
    <3>7. QED
      BY <2>1, <3>2, <3>3, <3>5, <3>6 DEF LeavingAll
  <2>2. QED
    BY <1>5, <1>6, <2>1 DEF LeavingAll
<1>13. Switching'
  <2>1. \A j \in DOMAIN wire' :
          (GoesOn(1, ok) /\ wire'[j] = s) \/ \E k \in DOMAIN wire \ {1} : wire'[j] = wire[k]
    BY <1>2 DEF LeftOver, SentOnly
  <2>2. CASE ~blind
    <3>1. wire[1].by = "auto" /\ ~GoesOn(1, ok)
      <4>1. leaving = NoPlan /\ chain = NoChain
        BY <2>2 DEF Switching, Awaited
      <4>2. wire[1].by \in {"auto", "leave", "chain"}
        BY DEF Answered
      <4>3. QED
        BY <4>1, <4>2 DEF Shape, WireOK, GoesOn
    <3>2. UNCHANGED page
      BY <3>1 DEF Answered
    <3>3. \A j \in DOMAIN wire' : wire'[j].plan # url
      BY <2>1, <2>2, <3>1 DEF Switching
    <3>4. server'[url] = server[url]
      BY <2>2, StoredIs DEF Switching, Shape
    <3>5. ASSUME NEW e \in Held, owner[e] = rotaPlanId
          PROVE  /\ e \in EditsIn(server'[rotaPlanId])
                 /\ \A j \in DOMAIN wire' : wire'[j].plan = rotaPlanId => e \in wire'[j].set
      <4>1. /\ e \in EditsIn(server[rotaPlanId])
            /\ \A i \in DOMAIN wire : wire[i].plan = rotaPlanId => e \in wire[i].set
        BY <2>2, <3>5 DEF Switching
      <4>2. e \in EditsIn(server'[rotaPlanId])
        BY <1>7, <3>5, <4>1, StoredIs
      <4>3. QED
        BY <2>1, <3>1, <4>1, <4>2
    <3>6. QED
      BY <1>5, <2>2, <3>2, <3>3, <3>4, <3>5 DEF Switching, Awaited, page
  <2>3. CASE blind /\ url' # url
    <3>1. wire[1].by = "leave" /\ ok /\ url' = leaving /\ leaving' = NoPlan /\ chain' = chain
      BY <2>3 DEF Answered, page
    <3>2. load' = [phase |-> "sent"]
      BY <3>1 DEF Answered, Loading
    <3>3. leaving # NoPlan /\ chain = NoChain /\ leaving # rotaPlanId
      BY <3>1 DEF Shape, WireOK, Waiting, Awaited
    <3>4. \A j \in DOMAIN wire :
            wire[j].plan = rotaPlanId /\ \A e \in Held : owner[e] = rotaPlanId => e \in wire[j].set
      BY <1>4, <3>1 DEF LeavingAll
    <3>5. \A j \in DOMAIN wire' : \E k \in DOMAIN wire : wire'[j] = wire[k]
      BY <1>3, <2>1, <3>3
    <3>6. \A e \in Held : owner[e] = rotaPlanId => e \in EditsIn(server'[rotaPlanId])
      BY <1>7, <3>1, <3>4, StoredIs
    <3>7. load' # Idle /\ load'.phase # "answered"
      BY <3>2 DEF Idle
    <3>8. QED
      BY <1>5, <1>6, <3>1, <3>3, <3>4, <3>5, <3>6, <3>7 DEF Switching, Awaited
  <2>4. CASE blind /\ url' = url
    BY <2>4 DEF Switching
  <2>5. QED
    BY <2>2, <2>3, <2>4
<1>14. QED
  BY <1>10, <1>11, <1>12, <1>13

\* A plan loaded because of a switch has all its edits; what any other load loses is dropped.
LEMMA LoadKeeps ==
  ASSUME SyncAssumption, Shape, Known, Waiting, AllAlive, Growing, LeavingAll, Switching, Careful,
         LoadRotaPlan
  PROVE  AllAlive' /\ Growing' /\ LeavingAll' /\ Switching'
<1>1. Held' \subseteq Held /\ Made' = Made
  BY DEF LoadRotaPlan, Held, Made
<1>2. load.data = NoData => EditsIn(load.data) = {}
  BY DEF EditsIn
<1>3. \A e \in Held' : owner[e] = url => e \in EditsIn(load.data)
  <2>1. CASE blind
    BY <1>1, <2>1 DEF LoadRotaPlan, Held
  <2>2. CASE ~blind
    <3>1. load.data = server[url] /\ url # rotaPlanId
      BY <2>2 DEF LoadRotaPlan, Switching
    <3>2. ASSUME NEW e \in Held, owner[e] = url
          PROVE  e \in EditsIn(server[url])
      <4>1. Alive(e)
        BY DEF AllAlive
      <4>2. QED
        BY <2>2, <3>1, <3>2, <4>1 DEF Alive, Switching
    <3>3. QED
      BY <1>1, <3>1, <3>2
  <2>3. QED
    BY <2>1, <2>2
<1>4. \A e \in Held' : owner[e] = url => e \in content'
  BY <1>2, <1>3 DEF LoadRotaPlan
<1>5. AllAlive'
  <2>1. ASSUME NEW e \in Held'
        PROVE  Alive(e)'
    <3>1. e \in Held /\ e \in Made
      BY <1>1 DEF Held
    <3>2. Alive(e)
      BY <3>1 DEF AllAlive
    <3>3. CASE blind
      <4>1. e \notin GivenUp
        BY <3>3 DEF LoadRotaPlan, Held
      <4>2. QED
        BY <3>1, <3>2, <4>1 DEF GivenUp
    <3>4. CASE ~blind
      <4>1. \/ e \in EditsIn(server[owner[e]])
            \/ \E k \in DOMAIN wire : wire[k].plan = owner[e] /\ e \in wire[k].set
        BY <3>1, <3>2, <3>4 DEF Alive, Switching
      <4>2. QED
        BY <4>1 DEF Alive, LoadRotaPlan
    <3>5. QED
      BY <3>3, <3>4
  <2>2. QED
    BY <2>1 DEF AllAlive
<1>6. Growing'
  BY <1>1, <1>4 DEF Growing, LoadRotaPlan
<1>7. LeavingAll'
  <2>1. (\E k \in DOMAIN wire : wire[k].by = "leave") => rotaPlanId' = rotaPlanId
    BY DEF LoadRotaPlan, Shape, WireOK, Waiting, Awaited
  <2>2. QED
    BY <1>1, <2>1 DEF LeavingAll, LoadRotaPlan
<1>8. Switching'
  BY DEF Switching, LoadRotaPlan
<1>9. QED
  BY <1>5, <1>6, <1>7, <1>8

\* No edit is lost.
LEMMA KeptKept ==
  ASSUME SyncAssumption, Shape, Known, Waiting, Kept, [SyncNext]_syncVars
  PROVE  Kept'
<1>1. ASSUME NEW m \in Modes, Open(m)
      PROVE  Kept'
  <2>1. Made' = {} /\ DOMAIN wire' = {} /\ blind'
    BY <1>1, NoneInFlight DEF Open, ghosts, Shape, Untouched, Made
  <2>2. Held' = {}
    BY <2>1 DEF Held
  <2>3. QED
    BY <2>1, <2>2 DEF Kept, AllAlive, Growing, LeavingAll, Switching
<1> SUFFICES ASSUME Careful, mode.ordered, mode' = mode, \A m \in Modes : ~Open(m)
             PROVE  Kept'
  BY <1>1 DEF Kept, Careful, SyncNext, syncVars, Open, Edit, Fire, GoToPlan, Jump, Publish,
     Stored, Fails,
              LoadServed, LoadFails, LoadRotaPlan, PoolChange
<1>2. AllAlive /\ Growing /\ LeavingAll /\ Switching
  BY DEF Kept
<1> SUFFICES AllAlive' /\ Growing' /\ LeavingAll' /\ Switching'
  BY DEF Kept
<1>3. ASSUME NEW e \in Edits, Edit(e)
      PROVE  AllAlive' /\ Growing' /\ LeavingAll' /\ Switching'
  <2>1. rotaPlanId \in Plans /\ load = Idle /\ leaving = NoPlan
    BY <1>3 DEF Edit, MayAct, Visible, Shape, Careful, Awaited
  <2>2. /\ Made' = Made \cup {e} /\ e \notin Made
        /\ owner'[e] = rotaPlanId /\ \A x \in Made : owner'[x] = owner[x]
    BY <1>3, <2>1, AppendTyped DEF Edit
  <2>3. Held' \subseteq Held \cup {e} /\ Held \subseteq Made
    BY <1>3, <2>2 DEF Edit, Held
  <2>4. /\ content' = content \cup {e}
        /\ UNCHANGED <<server, url, rotaPlanId, load, wire, leaving, blind>>
    BY <1>3 DEF Edit
  <2>5. AllAlive'
    <3>1. ASSUME NEW x \in Held
          PROVE  Alive(x)'
      <4>1. Alive(x) /\ owner'[x] = owner[x]
        BY <1>2, <2>2, <2>3 DEF AllAlive
      <4>2. QED
        BY <2>4, <4>1 DEF Alive
    <3>2. Alive(e)'
      BY <2>2, <2>4 DEF Alive
    <3>3. QED
      BY <2>3, <3>1, <3>2 DEF AllAlive
  <2>6. Growing'
    <3>1. \A x \in Held : owner'[x] = owner[x]
      BY <2>2, <2>3
    <3>2. e \notin EditsIn(server[rotaPlanId]) /\ \A j \in DOMAIN wire : e \notin wire[j].set
      BY <2>1, <2>2 DEF Known
    <3>3. \A i \in DOMAIN wire : 1 .. i - 1 \subseteq DOMAIN wire
      BY LenProperties DEF Shape, WireOK
    <3>4. QED
      BY <1>2, <2>2, <2>3, <2>4, <3>1, <3>2, <3>3 DEF Growing
  <2>7. LeavingAll'
    BY <2>1, <2>4 DEF LeavingAll, Shape, WireOK
  <2>8. Switching'
    BY <1>2, <2>1, <2>4 DEF Switching
  <2>9. QED
    BY <2>5, <2>6, <2>7, <2>8
<1>4. CASE Fire
  <2>1. /\ Save(rotaPlanId, "auto") \in Saves /\ Save(rotaPlanId, "auto").by = "auto"
        /\ Save(rotaPlanId, "auto").set = content /\ Save(rotaPlanId, "auto").plan = rotaPlanId
    BY <1>4, SaveTyped DEF Fire, Shape, Save
  <2>2. QED
    BY <1>2, <1>4, <2>1, SentKeeps DEF Fire, Send, ghosts
<1>5. ASSUME NEW p \in Plans, GoToPlan(p)
      PROVE  AllAlive' /\ Growing' /\ LeavingAll' /\ Switching'
  <2>1. /\ Save(rotaPlanId, "leave") \in Saves /\ Save(rotaPlanId, "leave").by # "auto"
        /\ Save(rotaPlanId, "leave").set = content /\ Save(rotaPlanId, "leave").plan = rotaPlanId
    BY <1>5, SaveTyped DEF GoToPlan, MayAct, Visible, Shape, Save
  <2>2. QED
    BY <1>2, <1>5, <2>1, SentKeeps DEF GoToPlan, MayAct, Visible, Send, ghosts
<1>6. CASE Publish
  <2>1. /\ Save(rotaPlanId, "chain") \in Saves /\ Save(rotaPlanId, "chain").by # "auto"
        /\ Save(rotaPlanId, "chain").set = content /\ Save(rotaPlanId, "chain").plan = rotaPlanId
    BY <1>6, SaveTyped DEF Publish, MayAct, Visible, Shape, Save
  <2>2. QED
    BY <1>2, <1>6, <2>1, SentKeeps DEF Publish, MayAct, Visible, Careful, Awaited, Send, ghosts
<1>7. ASSUME NEW p \in Plans, Jump(p)
      PROVE  AllAlive' /\ Growing' /\ LeavingAll' /\ Switching'
  BY <1>2, <1>7 DEF Jump, AllAlive, Alive, Growing, LeavingAll, Switching, Held, Made
<1>8. ASSUME NEW i \in 1 .. MaxWire, Stored(i) \/ \E stored \in BOOLEAN : Fails(i, stored)
      PROVE  AllAlive' /\ Growing' /\ LeavingAll' /\ Switching'
  <2>1. i = 1
    BY <1>8 DEF Stored, Fails, Next_
  <2>2. QED
    BY <1>2, <1>8, <2>1, AnswerKeeps DEF Stored, Fails
<1>9. CASE LoadServed
  <2>1. load'.phase = "answered" /\ load'.data = server[url] /\ load' # Idle
    BY <1>9 DEF LoadServed, Idle
  <2>2. Switching'
    BY <1>2, <1>9, <2>1 DEF LoadServed, ghosts, Switching, Awaited, Held, Made
  <2>3. QED
    BY <1>2, <1>9, <2>2 DEF LoadServed, ghosts, AllAlive, Alive, Growing, LeavingAll, Held, Made
<1>10. CASE LoadFails
  BY <1>2, <1>10 DEF LoadFails, AllAlive, Alive, Growing, LeavingAll, Switching, Held, Made
<1>11. CASE LoadRotaPlan
  BY <1>2, <1>11, LoadKeeps
<1>12. CASE PoolChange
  <2>1. load'.phase # "answered" /\ load' # Idle
    BY <1>12 DEF PoolChange, Loading, Idle
  <2>2. Switching'
    BY <1>2, <1>12, <2>1 DEF PoolChange, Switching, Awaited, Held, Made
  <2>3. QED
    BY <1>2, <1>12, <2>2 DEF PoolChange, AllAlive, Alive, Growing, LeavingAll, Held, Made
<1>13. CASE UNCHANGED syncVars
  BY <1>2, <1>13 DEF syncVars, AllAlive, Alive, Growing, LeavingAll, Switching, Awaited, Held, Made
<1>14. QED
  BY <1>3, <1>4, <1>5, <1>6, <1>7, <1>8, <1>9, <1>10, <1>11, <1>12, <1>13 DEF SyncNext

-----------------------------------------------------------------------------
\* The inductive invariant: what the variables hold, where a page stays while it waits,
\* whose edits a content includes, and where each edit still is.
THEOREM SyncInductive ==
  ASSUME SyncAssumption
  PROVE  SyncSpec => []SyncInv
<1>1. SyncInit => SyncInv
  <2>1. ASSUME SyncInit
        PROVE  SyncInv
    <3>1. Shape
      BY <2>1, ShapeStarts
    <3>2. mode = Unopened
      BY <2>1 DEF SyncInit
    <3>3. Known
      <4>1. EditsIn(NoData) = {} /\ DOMAIN <<>> = {} /\ Idle.phase # "answered"
        BY NoneInFlight DEF EditsIn, Idle
      <4>2. QED
        BY <2>1, <4>1 DEF SyncInit, Known
    <3>4. QED
      BY <3>1, <3>2, <3>3 DEF SyncInv, Waiting, Owned, Kept, Careful
  <2>2. QED
    BY <2>1
<1>2. SyncInv /\ [SyncNext]_syncVars => SyncInv'
  BY ShapeKept, KnownKept, WaitingKept, OwnedKept, KeptKept DEF SyncInv
<1>3. QED
  BY <1>1, <1>2, PTL DEF SyncSpec

\* Plans, requests under way and edits keep their types, in every mode.
THEOREM SyncTypes ==
  ASSUME SyncAssumption
  PROVE  SyncSpec => []SyncTypeOK
<1>1. SyncInv => SyncTypeOK
  BY DEF SyncInv, Shape, WireOK, Contents, Saves, SyncTypeOK
<1>2. QED
  BY <1>1, SyncInductive, PTL

\* No plan is stored with an edit made on another, in whatever order requests arrive, fail
\* or are overtaken by loads, when the user waits for the saves the page waits for
\* (rotaPlanId and the saves of rota-shifts-context.tsx).
THEOREM StoredEditsBelong ==
  ASSUME SyncAssumption
  PROVE  SyncSpec => []NoForeign
<1>1. SyncInv => NoForeign
  BY DEF SyncInv, Owned, NoForeign, Of, Careful
<1>2. QED
  BY <1>1, SyncInductive, PTL

\* With requests in order and a user who waits, switching plans loses no edit
\* (flushRotaPlan before the switch).
THEOREM SwitchesLoseNothing ==
  ASSUME SyncAssumption
  PROVE  SyncSpec => []LeftIsSaved
<1>1. SyncInv => LeftIsSaved
  BY DEF SyncInv, Kept, AllAlive, Held, LeftIsSaved, Lost, Careful
<1>2. QED
  BY <1>1, SyncInductive, PTL

=============================================================================
