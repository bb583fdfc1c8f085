--------------------------- MODULE RotaGridProofs ---------------------------
(***************************************************************************)
(* The rota grid keeps every shift once, each attendance record in the     *)
(* slot of the shift it was made for, and no shift in a row that is not    *)
(* shown: for any staff pool, dates and number of shifts, up to the first  *)
(* answer applied to a grid that has moved on.  No shift ever has overtime *)
(* and an early finish at once.  Until that answer every step is one of    *)
(* ShiftBook: the lists, indexes and marks keep a book of shifts.          *)
(***************************************************************************)
EXTENDS RotaGrid, FiniteSetTheorems, SequenceTheorems, TLAPS

\* A shift that has not both adjustments.
Sound == {s \in Shifts : s.adj # Adjustments}
Table == [Emps -> [Dates -> Seq(Sound)]]

\* Every shift has been made, and is in the grid once.
Numbered(sh, n) ==
  \A e \in Emps, d \in Dates : \A i \in DOMAIN sh[e][d] : sh[e][d][i].id \in 1 .. n - 1
Once(sh) ==
  \A e, f \in Emps, d, x \in Dates : \A i \in DOMAIN sh[e][d], j \in DOMAIN sh[f][x] :
    sh[e][d][i].id = sh[f][x][j].id => e = f /\ d = x /\ i = j

\* Every mark is for the shift in its slot.
Attached(sh, att) ==
  /\ DOMAIN att \subseteq Emps \X Dates \X Nat
  /\ \A s \in DOMAIN att :
       s[3] \in DOMAIN sh[s[1]][s[2]] /\ att[s] = sh[s[1]][s[2]][s[3]].id

\* A grid, of which n is the next identity, is as it should be.
Whole(sh, att, n) == sh \in Table /\ Numbered(sh, n) /\ Once(sh) /\ Attached(sh, att)

\* Rows that are not shown have no shifts.
Covered(sh, rows) == \A e \in Emps \ rows, d \in Dates : sh[e][d] = <<>>

\* What a dialog or a confirmation captured of a shift, of none if it adds one.
Captured(kinds) ==
  [kind : kinds, emp : Emps, day : Dates, idx : 1 .. MaxShifts, sh : Sound, seen : SUBSET Emps]
Adding ==
  [kind : {"shift"}, emp : Emps, day : Dates, idx : {0}, sh : {Hole}, seen : SUBSET Emps]

DialogOK ==
  /\ \/ dialog = NoDialog
     \/ dialog \in Adding
     \/ dialog \in Captured({"shift", "move", "copy", "attendance"} \cup Adjustments)
  /\ dialog.kind = "attendance" => dialog.sh.id \in 1 .. MaxShifts

PendingOK ==
  \/ pending = NoPending
  \/ pending \in [kind : {"shift"}, c : Adding \cup Captured({"shift"}), emp : Emps, day : Dates]
  \/ /\ pending \in [kind : {"attendance"}, c : Captured({"attendance"})]
     /\ pending.c.sh.id \in 1 .. MaxShifts
  \/ pending \in [kind : {"unmark"}, c : Captured({"unmark"})]
  \/ /\ pending \in [kind : {"adjust"}, c : Captured(Adjustments)]
     /\ Other(pending.c.kind) \notin pending.c.sh.adj
  \/ pending \in [kind : {"unadjust", "swap"}, c : Captured(Adjustments)]
  \/ pending \in [kind : {"remove"}, c : [gone : SUBSET Emps]]
  \/ pending \in [kind : {"days"}, c : [count : Dates, edge : {"start", "end"}, days : SUBSET Dates]]

DaysOK == \E a, b \in Dates : a <= b /\ days = a .. b

Shape ==
  /\ mix \in Mixes
  /\ DaysOK
  /\ employees \subseteq Emps
  /\ shifts \in Table
  /\ DOMAIN attendance \subseteq Slots
  /\ \A s \in DOMAIN attendance : attendance[s] \in 1 .. MaxShifts
  /\ nextId \in 1 .. MaxShifts + 1
  /\ stale \in BOOLEAN
  /\ DialogOK
  /\ PendingOK

GridInv ==
  /\ Shape
  /\ ~stale => Whole(shifts, attendance, nextId) /\ Covered(shifts, employees)

-----------------------------------------------------------------------------
(* Lists, identities and whole grids.                                      *)

\* A list without its i-th element: the later ones move one place down.
LEMMA Removed ==
  ASSUME NEW S, NEW s \in Seq(S), NEW i \in DOMAIN s
  PROVE  /\ RemoveAt(s, i) \in Seq(S)
         /\ Len(RemoveAt(s, i)) = Len(s) - 1
         /\ \A j \in 1 .. Len(s) - 1 : RemoveAt(s, i)[j] = IF j < i THEN s[j] ELSE s[j + 1]
<1> DEFINE before == SubSeq(s, 1, i - 1)
           after == SubSeq(s, i + 1, Len(s))
<1>1. /\ Len(s) \in Nat /\ i \in 1 .. Len(s)
      /\ \A j \in 1 .. Len(s) : s[j] \in S
  BY LenProperties, ElementOfSeq
<1>2. /\ before \in Seq(S) /\ Len(before) = i - 1
      /\ \A j \in 1 .. i - 1 : before[j] = s[j]
  <2>1. \A j \in 1 .. i - 1 : s[j] \in S
    BY <1>1
  <2>2. /\ before \in Seq(S) /\ Len(before) = IF 1 <= i - 1 THEN i - 1 - 1 + 1 ELSE 0
        /\ \A j \in 1 .. i - 1 - 1 + 1 : before[j] = s[1 + j - 1]
    <3> HIDE DEF before
    <3>1. 1 \in Int /\ i - 1 \in Int
      BY <1>1
    <3>2. QED
      BY <2>1, <3>1, SubSeqProperties DEF before
  <2> HIDE DEF before
  <2>3. QED
    BY <1>1, <2>2
<1>3. /\ after \in Seq(S) /\ Len(after) = Len(s) - i
      /\ \A j \in 1 .. Len(s) - i : after[j] = s[i + j]
  <2>1. \A j \in i + 1 .. Len(s) : s[j] \in S
    BY <1>1
  <2>2. /\ after \in Seq(S) /\ Len(after) = IF i + 1 <= Len(s) THEN Len(s) - (i + 1) + 1 ELSE 0
        /\ \A j \in 1 .. Len(s) - (i + 1) + 1 : after[j] = s[i + 1 + j - 1]
    <3> HIDE DEF after
    <3>1. i + 1 \in Int /\ Len(s) \in Int
      BY <1>1
    <3>2. QED
      BY <2>1, <3>1, SubSeqProperties DEF after
  <2> HIDE DEF after
  <2>3. QED
    BY <1>1, <2>2
<1>4. RemoveAt(s, i) = before \o after
  BY DEF RemoveAt
<1> HIDE DEF before, after
<1>5. /\ before \o after \in Seq(S)
      /\ Len(before \o after) = Len(before) + Len(after)
      /\ \A j \in 1 .. Len(before) + Len(after) :
           (before \o after)[j] = IF j <= Len(before) THEN before[j] ELSE after[j - Len(before)]
  BY <1>2, <1>3, ConcatProperties
<1>6. ASSUME NEW j \in 1 .. Len(s) - 1
      PROVE  (before \o after)[j] = IF j < i THEN s[j] ELSE s[j + 1]
  <2>1. CASE j < i
    <3>1. j \in 1 .. i - 1 /\ j \in 1 .. Len(before) + Len(after) /\ j <= Len(before)
      BY <1>1, <1>2, <1>3, <2>1
    <3>2. (before \o after)[j] = before[j]
      BY <1>5, <3>1
    <3>3. QED
      BY <1>2, <2>1, <3>1, <3>2
  <2>2. CASE j >= i
    <3>1. j - (i - 1) \in 1 .. Len(s) - i /\ i + (j - (i - 1)) = j + 1
      BY <1>1, <2>2
    <3>2. j \in 1 .. Len(before) + Len(after) /\ ~(j <= Len(before)) /\ Len(before) = i - 1
      BY <1>1, <1>2, <1>3, <2>2
    <3>3. (before \o after)[j] = after[j - (i - 1)]
      BY <1>5, <3>2
    <3>4. ~(j < i)
      BY <1>1, <2>2
    <3>5. QED
      BY <1>3, <3>1, <3>3, <3>4
  <2>3. j < i \/ j >= i
    BY <1>1
  <2>4. QED
    BY <2>1, <2>2, <2>3
<1>7. Len(before) + Len(after) = Len(s) - 1
  BY <1>1, <1>2, <1>3
<1>8. QED
  BY <1>4, <1>5, <1>6, <1>7

\* A list with an element more, in the last place.
LEMMA Appended ==
  ASSUME NEW S, NEW s \in Seq(S), NEW e \in S
  PROVE  /\ DOMAIN Append(s, e) = DOMAIN s \cup {Len(s) + 1} /\ Len(s) + 1 \notin DOMAIN s
         /\ Append(s, e)[Len(s) + 1] = e
         /\ \A j \in DOMAIN s : Append(s, e)[j] = s[j]
<1>1. Len(s) \in Nat /\ DOMAIN s = 1 .. Len(s)
  BY LenProperties
<1>2. Append(s, e) \in Seq(S) /\ Len(Append(s, e)) = Len(s) + 1
  OBVIOUS
<1>3. DOMAIN Append(s, e) = 1 .. Len(s) + 1
  BY <1>2, LenProperties
<1>4. Append(s, e)[Len(s) + 1] = e /\ \A j \in 1 .. Len(s) : Append(s, e)[j] = s[j]
  OBVIOUS
<1>5. QED
  BY <1>1, <1>3, <1>4

\* Identities for the elements of a finite set: new ones, each for one element.
LEMMA IdsAreNew ==
  ASSUME NEW S, IsFiniteSet(S), nextId \in Nat
  PROVE  /\ Cardinality(S) \in Nat
         /\ NewIds(S) \in [S -> nextId .. nextId + Cardinality(S) - 1]
         /\ \A x, y \in S : NewIds(S)[x] = NewIds(S)[y] => x = y
         /\ \A k \in nextId .. nextId + Cardinality(S) - 1 : \E x \in S : NewIds(S)[x] = k
<1> DEFINE n == Cardinality(S)
           Ids == [S -> nextId .. nextId + n - 1]
<1>1. n \in Nat
  BY FS_CardinalityType
<1> HIDE DEF n
<1>2. IsFiniteSet(1 .. n) /\ Cardinality(1 .. n) = n
  <2>1. 1 \in Int /\ n \in Int
    BY <1>1
  <2>2. /\ IsFiniteSet(1 .. n)
        /\ Cardinality(1 .. n) = IF 1 > n THEN 0 ELSE n - 1 + 1
    BY <2>1, FS_Interval
  <2>3. QED
    BY <1>1, <2>2
<1>3. PICK f \in [S -> 1 .. n] : IsInjective(f)
  <2>1. ExistsBijection(S, 1 .. n)
    BY <1>2, FS_SameCardinalityBij DEF n
  <2>2. QED
    BY <2>1 DEF ExistsBijection, Bijection, Injection
<1> DEFINE id == [x \in S |-> nextId - 1 + f[x]]
<1>4. id \in Ids /\ IsInjective(id)
  <2>1. \A x \in S : f[x] \in 1 .. n /\ id[x] = nextId - 1 + f[x]
    OBVIOUS
  <2>2. id \in Ids
    BY <1>1, <2>1
  <2>3. \A x, y \in S : id[x] = id[y] => x = y
    BY <1>1, <1>3, <2>1 DEF IsInjective
  <2>4. QED
    BY <2>2, <2>3 DEF IsInjective
<1>5. NewIds(S) = CHOOSE k \in Ids : IsInjective(k)
  BY DEF NewIds, n
<1> HIDE DEF id, Ids
<1>6. NewIds(S) \in Ids /\ IsInjective(NewIds(S))
  BY <1>4, <1>5
<1> DEFINE k == NewIds(S)
           T == nextId .. nextId + n - 1
<1>7. IsFiniteSet(T) /\ Cardinality(T) = Cardinality(S)
  <2> DEFINE last == nextId + n - 1
  <2>1. nextId \in Int /\ last \in Int
    BY <1>1
  <2> HIDE DEF last
  <2>2. /\ IsFiniteSet(nextId .. last)
        /\ Cardinality(nextId .. last) = IF nextId > last THEN 0 ELSE last - nextId + 1
    BY <2>1, FS_Interval
  <2>3. QED
    BY <1>1, <2>2 DEF n, last
<1>8. k \in Injection(S, T)
  BY <1>6 DEF Injection, Ids
<1> HIDE DEF k, T
<1>9. k \in Surjection(S, T)
  BY <1>7, <1>8, FS_Injection
<1>10. \A y \in T : \E x \in S : k[x] = y
  BY <1>9 DEF Surjection
<1>11. QED
  BY <1>1, <1>6, <1>10 DEF IsInjective, Ids, n, k, T

\* A list in a whole grid is no longer than there are identities, and shorter if one of them
\* is not in the grid.
LEMMA Short ==
  ASSUME NEW sh, NEW att, NEW n \in Nat \ {0}, Whole(sh, att, n), NEW out \in SUBSET (1 .. n - 1),
         \A e \in Emps, d \in Dates : \A i \in DOMAIN sh[e][d] : sh[e][d][i].id \notin out,
         NEW e \in Emps, NEW d \in Dates
  PROVE  Len(sh[e][d]) \in Nat /\ Len(sh[e][d]) + Cardinality(out) <= n - 1
<1> DEFINE list == sh[e][d]
           ids == (1 .. n - 1) \ out
           pos == 1 .. Len(list)
<1>1. list \in Seq(Sound) /\ Len(list) \in Nat /\ DOMAIN list = 1 .. Len(list)
  BY LenProperties DEF Whole, Table
<1>2. IsFiniteSet(1 .. n - 1) /\ Cardinality(1 .. n - 1) = n - 1
  <2>1. 1 \in Int /\ n - 1 \in Int
    OBVIOUS
  <2>2. /\ IsFiniteSet(1 .. n - 1)
        /\ Cardinality(1 .. n - 1) = IF 1 > n - 1 THEN 0 ELSE n - 1 - 1 + 1
    BY <2>1, FS_Interval
  <2>3. QED
    BY <2>2
<1>3. IsFiniteSet(out) /\ Cardinality(out) \in Nat
  BY <1>2, FS_Subset, FS_CardinalityType
<1>4. IsFiniteSet(ids) /\ Cardinality(ids) = n - 1 - Cardinality(out)
  <2>1. (1 .. n - 1) \cap out = out
    OBVIOUS
  <2>2. QED
    BY <1>2, <2>1, FS_Difference
<1>5. IsFiniteSet(pos) /\ Cardinality(pos) = Len(list)
  <2>1. 1 \in Int /\ Len(list) \in Int
    BY <1>1
  <2> HIDE DEF list
  <2>2. /\ IsFiniteSet(1 .. Len(list))
        /\ Cardinality(1 .. Len(list)) = IF 1 > Len(list) THEN 0 ELSE Len(list) - 1 + 1
    BY <2>1, FS_Interval
  <2>3. QED
    BY <1>1, <2>2
<1>6. [i \in pos |-> list[i].id] \in Injection(pos, ids)
  <2>1. \A i \in pos : list[i].id \in ids
    BY <1>1 DEF Whole, Numbered
  <2>2. \A i, j \in pos : list[i].id = list[j].id => i = j
    BY <1>1 DEF Whole, Once
  <2> HIDE DEF pos, ids, list
  <2>3. QED
    BY <2>1, <2>2 DEF Injection, IsInjective
<1>7. Cardinality(pos) <= Cardinality(ids)
  <2> HIDE DEF pos, ids
  <2>1. QED
    BY <1>4, <1>6, FS_Injection
<1> HIDE DEF pos, ids, list
<1>8. QED
  BY <1>1, <1>3, <1>4, <1>5, <1>7 DEF list

-----------------------------------------------------------------------------
(* The book of shifts, as sets of identities.                              *)

Cells == Emps \X Dates

\* The identities in each cell of a grid.
Held(sh) == [c \in Cells |-> {sh[c[1]][c[2]][i].id : i \in DOMAIN sh[c[1]][c[2]]}]

\* The pairs of an identity and its cell.
PlaceOf(F) == {p \in Nat \X Cells : p[1] \in F[p[2]]}

\* Identities below n, each in one cell.
Single(F, n) ==
  /\ F \in [Cells -> SUBSET (1 .. n - 1)]
  /\ \A b, c \in Cells : \A k \in F[b] : k \in F[c] => b = c

\* What ShiftBook allows, between places P and Q, shifts made U and V, marks M and N.
Booked(P, Q, U, V, M, N) ==
  /\ U \subseteq V
  /\ \A p, q \in Q \ P : p[1] = q[1] => p = q
  /\ \/ P \ Q = {} /\ {p[1] : p \in Q \ P} = V \ U /\ N = M
     \/ /\ \E k \in U : {p[1] : p \in P \ Q} = {k} /\ {p[1] : p \in Q \ P} = (V \ U) \cup {k}
        /\ N = M
     \/ V \ U = {} /\ Q \ P = {} /\ N = M \ {p[1] : p \in P \ Q}
     \/ (\E p \in P : N = M \cup {p[1]}) /\ V = U /\ Q = P
     \/ (\E k \in M : N = M \ {k}) /\ V = U /\ Q = P

LEMMA PlacedOnce ==
  ASSUME NEW F, NEW n \in Nat, Single(F, n)
  PROVE  /\ \A p \in PlaceOf(F) : p[1] \in 1 .. n - 1 /\ p[2] \in Cells /\ p[1] \in F[p[2]]
         /\ \A c \in Cells : \A k \in F[c] : <<k, c>> \in PlaceOf(F)
         /\ \A p, q \in PlaceOf(F) : p[1] = q[1] => p = q
         /\ \A p : p \in PlaceOf(F) => p = <<p[1], p[2]>>
<1>1. \A p \in PlaceOf(F) : p \in Nat \X Cells /\ p[1] \in F[p[2]] /\ p[2] \in Cells /\ p = <<p[1], p[2]>>
  BY DEF PlaceOf
<1>2. \A c \in Cells : F[c] \subseteq 1 .. n - 1
  BY DEF Single
<1>3. \A c \in Cells : \A k \in F[c] : <<k, c>> \in PlaceOf(F)
  <2> SUFFICES ASSUME NEW c \in Cells, NEW k \in F[c] PROVE <<k, c>> \in PlaceOf(F)
    OBVIOUS
  <2>1. k \in Nat
    BY <1>2
  <2>2. QED
    BY <2>1 DEF PlaceOf
<1>4. \A p, q \in PlaceOf(F) : p[1] = q[1] => p = q
  <2> SUFFICES ASSUME NEW p \in PlaceOf(F), NEW q \in PlaceOf(F), p[1] = q[1] PROVE p = q
    OBVIOUS
  <2>1. p[2] = q[2]
    BY <1>1 DEF Single
  <2>2. QED
    BY <1>1, <2>1
<1>5. QED
  BY <1>1, <1>2, <1>3, <1>4

\* Nobody loses a shift, unless it is the one in K, which somebody has; what is new was made.
LEMMA Handed ==
  ASSUME NEW F, NEW G, NEW n \in Nat \ {0}, NEW m \in Nat, n <= m, Single(F, n), Single(G, m),
         NEW K, K = {} \/ \E k : K = {k} /\ (\E b \in Cells : k \in F[b]) /\ (\E c \in Cells : k \in G[c]),
         \A c \in Cells : F[c] \ K \subseteq G[c] /\ G[c] \subseteq F[c] \cup K \cup n .. m - 1,
         \A j \in n .. m - 1 : \E c \in Cells : j \in G[c], NEW M
  PROVE  Booked(PlaceOf(F), PlaceOf(G), 1 .. n - 1, 1 .. m - 1, M, M)
<1> DEFINE P == PlaceOf(F)
           Q == PlaceOf(G)
           U == 1 .. n - 1
           V == 1 .. m - 1
           Came == Q \ P
<1>1. U \subseteq V /\ V \ U = n .. m - 1
  OBVIOUS
<1>2. /\ \A p \in P : p[1] \in U /\ p[2] \in Cells /\ p[1] \in F[p[2]] /\ p = <<p[1], p[2]>>
      /\ \A c \in Cells : \A k \in F[c] : <<k, c>> \in P
  BY PlacedOnce
<1>3. /\ \A p \in Q : p[1] \in V /\ p[2] \in Cells /\ p[1] \in G[p[2]] /\ p = <<p[1], p[2]>>
      /\ \A c \in Cells : \A k \in G[c] : <<k, c>> \in Q
      /\ \A p, q \in Q : p[1] = q[1] => p = q
  BY PlacedOnce
<1>4. \A p, q \in P : p[1] = q[1] => p = q
  BY PlacedOnce
<1> HIDE DEF P, Q, U, V
<1>5. \A p, q \in Came : p[1] = q[1] => p = q
  BY <1>3
<1>6. \A p \in P : p[1] \notin K => p \in Q
  BY <1>2, <1>3
<1>7. \A p \in Came : p[1] \in V \ U \/ p[1] \in K
  <2> SUFFICES ASSUME NEW p \in Came PROVE p[1] \in V \ U \/ p[1] \in K
    OBVIOUS
  <2>1. p[1] \in G[p[2]] /\ p[2] \in Cells /\ p = <<p[1], p[2]>>
    BY <1>3
  <2>2. p[1] \notin F[p[2]]
    BY <1>2, <2>1
  <2>3. QED
    BY <1>1, <2>1, <2>2
<1>8. \A j \in V \ U : \E p \in Came : p[1] = j
  <2> SUFFICES ASSUME NEW j \in V \ U PROVE \E p \in Came : p[1] = j
    OBVIOUS
  <2>1. PICK c \in Cells : j \in G[c]
    BY <1>1
  <2>2. <<j, c>> \in Q
    BY <1>3, <2>1
  <2>3. <<j, c>> \notin P
    BY <1>2
  <2>4. QED
    BY <2>2, <2>3
<1>9. CASE K = {}
  <2>1. P \ Q = {} /\ {p[1] : p \in Came} = V \ U
    BY <1>6, <1>7, <1>8, <1>9
  <2>2. QED
    BY <1>1, <1>5, <2>1 DEF Booked, P, Q, U, V
<1>10. ASSUME NEW k, K = {k}, NEW b \in Cells, k \in F[b], NEW c \in Cells, k \in G[c]
       PROVE  Booked(PlaceOf(F), PlaceOf(G), 1 .. n - 1, 1 .. m - 1, M, M)
  <2>1. <<k, b>> \in P /\ <<k, c>> \in Q /\ k \in U
    <3>1. <<k, b>> \in P /\ <<k, c>> \in Q
      BY <1>2, <1>3, <1>10
    <3>2. <<k, b>>[1] \in U
      BY <1>2, <3>1
    <3>3. QED
      BY <3>1, <3>2
  <2>2. \A p \in P : p[1] = k => p = <<k, b>>
    BY <1>4, <2>1
  <2>3. \A p \in Q : p[1] = k => p = <<k, c>>
    BY <1>3, <2>1
  <2>4. CASE b = c
    <3>1. P \ Q = {}
      BY <1>6, <1>10, <2>1, <2>2, <2>4
    <3>2. \A p \in Came : p[1] # k
      BY <2>1, <2>3, <2>4
    <3>3. {p[1] : p \in Came} = V \ U
      BY <1>7, <1>8, <1>10, <3>2
    <3>4. QED
      BY <1>1, <1>5, <3>1, <3>3 DEF Booked, P, Q, U, V
  <2>5. CASE b # c
    <3>1. <<k, b>> \notin Q /\ <<k, c>> \notin P
      BY <2>2, <2>3, <2>5
    <3>2. {p[1] : p \in P \ Q} = {k}
      <4>1. \A p \in P \ Q : p[1] = k
        BY <1>6, <1>10
      <4>2. <<k, b>> \in P \ Q /\ <<k, b>>[1] = k
        BY <2>1, <3>1
      <4>3. QED
        BY <4>1, <4>2
    <3>3. {p[1] : p \in Came} = (V \ U) \cup {k}
      <4>1. <<k, c>> \in Came /\ <<k, c>>[1] = k
        BY <2>1, <3>1
      <4>2. QED
        BY <1>7, <1>8, <1>10, <4>1
    <3>4. QED
      BY <1>1, <1>5, <2>1, <3>2, <3>3 DEF Booked, P, Q, U, V
  <2>6. QED
    BY <2>4, <2>5
<1>11. QED
  BY <1>9, <1>10

\* Cells lose shifts, and the marks of those lost go, no other.
LEMMA Dropped ==
  ASSUME NEW F, NEW G, NEW n \in Nat, Single(F, n), Single(G, n), NEW M, NEW N,
         \A c \in Cells : G[c] \subseteq F[c],
         \A a \in M : \E c \in Cells : a \in F[c],
         \A a \in N : a \in M /\ \E c \in Cells : a \in G[c],
         \A a \in M, c \in Cells : a \in G[c] => a \in N
  PROVE  Booked(PlaceOf(F), PlaceOf(G), 1 .. n - 1, 1 .. n - 1, M, N)
<1> DEFINE P == PlaceOf(F)
           Q == PlaceOf(G)
           Lost == {p[1] : p \in P \ Q}
<1>1. /\ \A p \in P : p[2] \in Cells /\ p[1] \in F[p[2]] /\ p = <<p[1], p[2]>>
      /\ \A c \in Cells : \A k \in F[c] : <<k, c>> \in P
      /\ \A p, q \in P : p[1] = q[1] => p = q
  BY PlacedOnce
<1>2. /\ \A p \in Q : p[2] \in Cells /\ p[1] \in G[p[2]] /\ p = <<p[1], p[2]>>
      /\ \A c \in Cells : \A k \in G[c] : <<k, c>> \in Q
  BY PlacedOnce
<1> HIDE DEF P, Q
<1>3. Q \ P = {}
  BY <1>1, <1>2
<1>4. \A a \in N : a \notin Lost
  <2> SUFFICES ASSUME NEW a \in N, NEW p \in P \ Q, p[1] = a PROVE FALSE
    OBVIOUS
  <2>1. PICK c \in Cells : a \in G[c]
    OBVIOUS
  <2>2. <<a, c>> \in Q /\ <<a, c>> \in P /\ <<a, c>>[1] = a
    BY <1>1, <1>2, <2>1
  <2>3. QED
    BY <1>1, <2>2
<1>5. \A a \in M : a \notin Lost => a \in N
  <2> SUFFICES ASSUME NEW a \in M, a \notin Lost PROVE a \in N
    OBVIOUS
  <2>1. PICK c \in Cells : a \in F[c]
    OBVIOUS
  <2>2. <<a, c>> \in P /\ <<a, c>>[1] = a
    BY <1>1, <2>1
  <2>3. <<a, c>> \in Q
    BY <2>2
  <2>4. <<a, c>>[2] = c /\ a \in G[<<a, c>>[2]]
    BY <1>2, <2>2, <2>3
  <2>5. QED
    BY <2>4
<1>6. N = M \ Lost
  BY <1>4, <1>5
<1>7. QED
  BY <1>3, <1>6 DEF Booked, P, Q

\* What a whole grid says of them.
LEMMA HeldIs ==
  ASSUME NEW sh, NEW att, NEW n \in Nat, Whole(sh, att, n)
  PROVE  /\ Single(Held(sh), n)
         /\ \A a \in Range(att) : \E c \in Cells : a \in Held(sh)[c]
<1> DEFINE ids(c) == {sh[c[1]][c[2]][i].id : i \in DOMAIN sh[c[1]][c[2]]}
<1>1. \A c \in Cells : Held(sh)[c] = ids(c)
  BY DEF Held
<1>2. \A c \in Cells : c = <<c[1], c[2]>> /\ c[1] \in Emps /\ c[2] \in Dates
  BY DEF Cells
<1>3. Held(sh) \in [Cells -> SUBSET (1 .. n - 1)]
  <2>1. \A c \in Cells : ids(c) \in SUBSET (1 .. n - 1)
    BY <1>2 DEF Whole, Numbered
  <2>2. QED
    BY <2>1 DEF Held
<1>4. ASSUME NEW b \in Cells, NEW c \in Cells, NEW k \in Held(sh)[b], k \in Held(sh)[c]
      PROVE  b = c
  <2>1. PICK i \in DOMAIN sh[b[1]][b[2]] : k = sh[b[1]][b[2]][i].id
    BY <1>1
  <2>2. PICK j \in DOMAIN sh[c[1]][c[2]] : k = sh[c[1]][c[2]][j].id
    BY <1>1, <1>4
  <2>3. b[1] = c[1] /\ b[2] = c[2]
    <3>1. Once(sh) /\ b[1] \in Emps /\ b[2] \in Dates /\ c[1] \in Emps /\ c[2] \in Dates
      BY <1>2 DEF Whole
    <3>2. sh[b[1]][b[2]][i].id = sh[c[1]][c[2]][j].id
      BY <2>1, <2>2
    <3>3. QED
      BY <3>1, <3>2 DEF Once
  <2>4. QED
    BY <1>2, <2>3
<1>5. ASSUME NEW a \in Range(att)
      PROVE  \E c \in Cells : a \in Held(sh)[c]
  <2>1. PICK s \in DOMAIN att : a = att[s]
    BY DEF Range
  <2>2. /\ s \in Emps \X Dates \X Nat
        /\ s[3] \in DOMAIN sh[s[1]][s[2]] /\ a = sh[s[1]][s[2]][s[3]].id
    BY <2>1 DEF Whole, Attached
  <2>3. <<s[1], s[2]>> \in Cells
    BY <2>2 DEF Cells
  <2>4. a \in ids(<<s[1], s[2]>>)
    BY <2>2
  <2>5. QED
    BY <1>1, <2>3, <2>4
<1> HIDE DEF ids
<1>6. QED
  BY <1>3, <1>4, <1>5 DEF Single

LEMMA CellIs ==
  ASSUME NEW sh, NEW e \in Emps, NEW d \in Dates
  PROVE  /\ <<e, d>> \in Cells
         /\ Held(sh)[<<e, d>>] = {sh[e][d][i].id : i \in DOMAIN sh[e][d]}
BY DEF Held, Cells

LEMMA CellsAre == \A c \in Cells : c = <<c[1], c[2]>> /\ c[1] \in Emps /\ c[2] \in Dates
BY DEF Cells

-----------------------------------------------------------------------------
(* What the list operations leave whole.                                   *)

\* Every list has some of the shifts it had, each once, and its marks with them.
Selected(new, sh, from) ==
  \A e \in Emps, d \in Dates : \A k \in DOMAIN new[e][d] :
    /\ from[e][d][k] \in DOMAIN sh[e][d]
    /\ new[e][d][k].id = sh[e][d][from[e][d][k]].id
    /\ \A l \in DOMAIN new[e][d] : from[e][d][k] = from[e][d][l] => k = l

Followed(marks, new, att, from) ==
  /\ DOMAIN marks \subseteq Emps \X Dates \X Nat
  /\ \A e \in Emps, d \in Dates, k \in Nat : <<e, d, k>> \in DOMAIN marks =>
       /\ k \in DOMAIN new[e][d]
       /\ <<e, d, from[e][d][k]>> \in DOMAIN att
       /\ marks[<<e, d, k>>] = att[<<e, d, from[e][d][k]>>]

\* A grid of which shifts are selected, with their marks, stays whole.
LEMMA SelectedWhole ==
  ASSUME NEW sh, NEW att, NEW n \in Nat, Whole(sh, att, n), NEW new \in Table, NEW marks,
         NEW from, Selected(new, sh, from), Followed(marks, new, att, from)
  PROVE  Whole(new, marks, n)
<1>1. ASSUME NEW e \in Emps, NEW d \in Dates, NEW i \in DOMAIN new[e][d]
      PROVE  new[e][d][i].id \in 1 .. n - 1
  <2> DEFINE j == from[e][d][i]
  <2>1. j \in DOMAIN sh[e][d] /\ new[e][d][i].id = sh[e][d][j].id
    BY DEF Selected
  <2>2. sh[e][d][j].id \in 1 .. n - 1
    BY <2>1 DEF Whole, Numbered
  <2>3. QED
    BY <2>1, <2>2
<1>2. ASSUME NEW e \in Emps, NEW f \in Emps, NEW d \in Dates, NEW x \in Dates,
             NEW i \in DOMAIN new[e][d], NEW j \in DOMAIN new[f][x],
             new[e][d][i].id = new[f][x][j].id
      PROVE  e = f /\ d = x /\ i = j
  <2> DEFINE p == from[e][d][i]
             q == from[f][x][j]
  <2>1. /\ p \in DOMAIN sh[e][d] /\ new[e][d][i].id = sh[e][d][p].id
        /\ q \in DOMAIN sh[f][x] /\ new[f][x][j].id = sh[f][x][q].id
    BY DEF Selected
  <2>2. sh[e][d][p].id = sh[f][x][q].id
    BY <1>2, <2>1
  <2>3. Once(sh)
    BY DEF Whole
  <2> HIDE DEF p, q
  <2>4. e = f /\ d = x /\ p = q
    BY <2>1, <2>2, <2>3 DEF Once
  <2>5. QED
    BY <2>4 DEF p, q, Selected
<1>3. ASSUME NEW s \in DOMAIN marks
      PROVE  s[3] \in DOMAIN new[s[1]][s[2]] /\ marks[s] = new[s[1]][s[2]][s[3]].id
  <2>1. PICK e \in Emps, d \in Dates, k \in Nat : s = <<e, d, k>>
    BY DEF Followed
  <2> DEFINE o == <<e, d, from[e][d][k]>>
  <2>2. k \in DOMAIN new[e][d] /\ o \in DOMAIN att /\ marks[s] = att[o]
    BY <2>1 DEF Followed
  <2>3. att[o] = sh[o[1]][o[2]][o[3]].id
    BY <2>2 DEF Whole, Attached
  <2>4. att[o] = sh[e][d][from[e][d][k]].id
    BY <2>3
  <2>5. new[e][d][k].id = sh[e][d][from[e][d][k]].id
    BY <2>2 DEF Selected
  <2>6. QED
    BY <2>1, <2>2, <2>4, <2>5
<1>4. Numbered(new, n)
  BY <1>1 DEF Numbered
<1>5. Once(new)
  BY <1>2 DEF Once
<1>6. Attached(new, marks)
  BY <1>3 DEF Attached, Followed
<1>7. QED
  BY <1>4, <1>5, <1>6 DEF Whole

\* No shift of the grid has this identity.
Absent(id, sh) ==
  \A e \in Emps, d \in Dates : \A i \in DOMAIN sh[e][d] : sh[e][d][i].id # id

\* Every list keeps its shifts and gets others, with identities below m that were not in
\* the grid.
Extended(new, sh, m) ==
  /\ \A e \in Emps, d \in Dates :
       /\ DOMAIN sh[e][d] \subseteq DOMAIN new[e][d]
       /\ \A i \in DOMAIN sh[e][d] : new[e][d][i].id = sh[e][d][i].id
       /\ \A i \in DOMAIN new[e][d] \ DOMAIN sh[e][d] :
            new[e][d][i].id \in 1 .. m - 1 /\ Absent(new[e][d][i].id, sh)
  /\ \A e, f \in Emps, d, x \in Dates :
       \A i \in DOMAIN new[e][d] \ DOMAIN sh[e][d], j \in DOMAIN new[f][x] \ DOMAIN sh[f][x] :
         new[e][d][i].id = new[f][x][j].id => e = f /\ d = x /\ i = j

\* Marks stay, and new ones are for the shift in their slot.
Carried(marks, new, att) ==
  /\ DOMAIN marks \subseteq Emps \X Dates \X Nat
  /\ \A s \in DOMAIN marks :
       \/ s \in DOMAIN att /\ marks[s] = att[s]
       \/ s[3] \in DOMAIN new[s[1]][s[2]] /\ marks[s] = new[s[1]][s[2]][s[3]].id

\* A grid extended, with its marks, is whole.
LEMMA ExtendedWhole ==
  ASSUME NEW sh, NEW att, NEW n \in Nat, NEW m \in Nat, n <= m, Whole(sh, att, n),
         NEW new \in Table, NEW marks, Extended(new, sh, m), Carried(marks, new, att)
  PROVE  Whole(new, marks, m)
<1>1. ASSUME NEW e \in Emps, NEW d \in Dates, NEW i \in DOMAIN new[e][d]
      PROVE  new[e][d][i].id \in 1 .. m - 1
  <2>1. CASE i \in DOMAIN sh[e][d]
    <3>1. sh[e][d][i].id \in 1 .. n - 1
      BY <2>1 DEF Whole, Numbered
    <3>2. new[e][d][i].id = sh[e][d][i].id
      BY <2>1 DEF Extended
    <3>3. QED
      BY <3>1, <3>2
  <2>2. CASE i \notin DOMAIN sh[e][d]
    BY <2>2 DEF Extended
  <2>3. QED
    BY <2>1, <2>2
<1>2. ASSUME NEW e \in Emps, NEW f \in Emps, NEW d \in Dates, NEW x \in Dates,
             NEW i \in DOMAIN new[e][d], NEW j \in DOMAIN new[f][x],
             new[e][d][i].id = new[f][x][j].id
      PROVE  e = f /\ d = x /\ i = j
  <2>1. CASE i \in DOMAIN sh[e][d] /\ j \in DOMAIN sh[f][x]
    <3>1. sh[e][d][i].id = sh[f][x][j].id
      BY <1>2, <2>1 DEF Extended
    <3>2. QED
      BY <2>1, <3>1 DEF Whole, Once
  <2>2. CASE i \notin DOMAIN sh[e][d] /\ j \notin DOMAIN sh[f][x]
    BY <1>2, <2>2 DEF Extended
  <2>3. CASE i \notin DOMAIN sh[e][d] /\ j \in DOMAIN sh[f][x]
    <3>1. new[f][x][j].id = sh[f][x][j].id
      BY <2>3 DEF Extended
    <3>2. new[e][d][i].id # sh[f][x][j].id
      BY <2>3 DEF Extended, Absent
    <3>3. QED
      BY <1>2, <3>1, <3>2
  <2>4. CASE i \in DOMAIN sh[e][d] /\ j \notin DOMAIN sh[f][x]
    <3>1. new[e][d][i].id = sh[e][d][i].id
      BY <2>4 DEF Extended
    <3>2. new[f][x][j].id # sh[e][d][i].id
      BY <2>4 DEF Extended, Absent
    <3>3. QED
      BY <1>2, <3>1, <3>2
  <2>5. QED
    BY <2>1, <2>2, <2>3, <2>4
<1>3. ASSUME NEW s \in DOMAIN marks
      PROVE  s[3] \in DOMAIN new[s[1]][s[2]] /\ marks[s] = new[s[1]][s[2]][s[3]].id
  <2>1. s[1] \in Emps /\ s[2] \in Dates
    BY DEF Carried
  <2>2. CASE s \in DOMAIN att /\ marks[s] = att[s]
    <3>1. s[3] \in DOMAIN sh[s[1]][s[2]] /\ att[s] = sh[s[1]][s[2]][s[3]].id
      BY <2>2 DEF Whole, Attached
    <3>2. QED
      BY <2>1, <2>2, <3>1 DEF Extended
  <2>3. QED
    BY <2>2 DEF Carried
<1>4. Numbered(new, m)
  BY <1>1 DEF Numbered
<1>5. Once(new)
  BY <1>2 DEF Once
<1>6. Attached(new, marks)
  BY <1>3 DEF Attached, Carried
<1>7. QED
  BY <1>4, <1>5, <1>6 DEF Whole

\* A grid g without the shift that has this identity: r.
Without(r, g, n, id) ==
  /\ Whole(r.shifts, r.attendance, n)
  /\ DOMAIN r.attendance \subseteq Slots
  /\ Absent(id, r.shifts)
  /\ \A f \in Emps, x \in Dates : g.shifts[f][x] = <<>> => r.shifts[f][x] = <<>>

\* A shift deleted is gone, and the later ones of its day keep their marks.
LEMMA DeletedWhole ==
  ASSUME NEW g, NEW n \in Nat, Whole(g.shifts, g.attendance, n), DOMAIN g.attendance \subseteq Slots,
         NEW e \in Emps, NEW d \in Dates, NEW i \in DOMAIN g.shifts[e][d]
  PROVE  Without(Deleted(g, e, d, i), g, n, g.shifts[e][d][i].id)
<1> DEFINE sh == g.shifts
           att == g.attendance
           list == sh[e][d]
           less == RemoveAt(list, i)
           new == [sh EXCEPT ![e][d] = less]
           marks == Renumbered(att, e, d, i, Len(list))
           to(f, x, k) == IF f = e /\ x = d /\ k >= i THEN k + 1 ELSE k
           from == [f \in Emps |-> [x \in Dates |-> [k \in Nat |-> to(f, x, k)]]]
<1>1. sh \in Table /\ list \in Seq(Sound) /\ Len(list) \in Nat
      /\ DOMAIN list = 1 .. Len(list) /\ i \in 1 .. Len(list) /\ i \in Nat
  <2>1. sh \in Table
    BY DEF Whole
  <2>2. list \in Seq(Sound)
    BY <2>1 DEF Table
  <2>3. QED
    BY <2>1, <2>2, LenProperties
<1>2. Deleted(g, e, d, i) = [shifts |-> new, attendance |-> marks]
  BY <1>1 DEF Deleted
<1>3. /\ less \in Seq(Sound) /\ Len(less) = Len(list) - 1 /\ DOMAIN less = 1 .. Len(list) - 1
      /\ \A j \in 1 .. Len(list) - 1 : less[j] = IF j < i THEN list[j] ELSE list[j + 1]
  <2> HIDE DEF list
  <2>1. /\ less \in Seq(Sound) /\ Len(less) = Len(list) - 1
        /\ \A j \in 1 .. Len(list) - 1 : less[j] = IF j < i THEN list[j] ELSE list[j + 1]
    BY <1>1, Removed
  <2> HIDE DEF less
  <2>2. QED
    BY <2>1, LenProperties
<1> HIDE DEF less
<1>4. /\ new \in Table /\ new[e][d] = less
      /\ \A f \in Emps, x \in Dates : <<f, x>> # <<e, d>> => new[f][x] = sh[f][x]
  BY <1>1, <1>3 DEF Table
<1> HIDE DEF new
<1>5. \A f \in Emps, x \in Dates, k \in Nat : from[f][x][k] = to(f, x, k)
  OBVIOUS
<1> HIDE DEF from
<1>6. ASSUME NEW f \in Emps, NEW x \in Dates, NEW k \in DOMAIN new[f][x]
      PROVE  /\ k \in Nat
             /\ from[f][x][k] \in DOMAIN sh[f][x]
             /\ new[f][x][k].id = sh[f][x][from[f][x][k]].id
             /\ <<f, x>> = <<e, d>> => from[f][x][k] # i
             /\ \A l \in DOMAIN new[f][x] : from[f][x][k] = from[f][x][l] => k = l
  <2>1. CASE <<f, x>> = <<e, d>>
    <3>1. f = e /\ x = d /\ new[f][x] = less /\ k \in 1 .. Len(list) - 1 /\ k \in Nat
          /\ DOMAIN new[f][x] = 1 .. Len(list) - 1
      BY <1>1, <1>3, <1>4, <2>1
    <3>2. \A l \in 1 .. Len(list) - 1 : from[f][x][l] = IF l >= i THEN l + 1 ELSE l
      BY <1>5, <3>1
    <3>3. /\ from[f][x][k] = IF k >= i THEN k + 1 ELSE k
          /\ less[k] = IF k < i THEN list[k] ELSE list[k + 1]
      BY <1>3, <3>1, <3>2
    <3>4. from[f][x][k] \in 1 .. Len(list) /\ from[f][x][k] # i
      BY <1>1, <3>1, <3>3
    <3>5. less[k] = list[from[f][x][k]]
      <4>1. CASE k < i
        <5>1. ~(k >= i)
          BY <1>1, <3>1, <4>1
        <5>2. QED
          BY <3>3, <4>1, <5>1
      <4>2. CASE ~(k < i)
        <5>1. k >= i
          BY <1>1, <3>1, <4>2
        <5>2. QED
          BY <3>3, <4>2, <5>1
      <4>3. QED
        BY <4>1, <4>2
    <3>6. ASSUME NEW l \in 1 .. Len(list) - 1, from[f][x][k] = from[f][x][l]
          PROVE  k = l
      BY <1>1, <3>1, <3>2, <3>6
    <3>7. QED
      BY <1>1, <3>1, <3>4, <3>5, <3>6
  <2>2. CASE <<f, x>> # <<e, d>>
    <3>1. sh[f][x] \in Seq(Sound)
      BY <1>1 DEF Table
    <3>2. new[f][x] = sh[f][x] /\ DOMAIN sh[f][x] \subseteq Nat
      BY <1>4, <2>2, <3>1, LenProperties
    <3>3. \A l \in DOMAIN new[f][x] : from[f][x][l] = l
      BY <1>5, <2>2, <3>2
    <3>4. QED
      BY <2>2, <3>2, <3>3
  <2>3. QED
    BY <2>1, <2>2
<1>7. \A s \in DOMAIN att :
        /\ s \in Slots
        /\ s[3] \in DOMAIN sh[s[1]][s[2]] /\ att[s] = sh[s[1]][s[2]][s[3]].id
  BY DEF Whole, Attached
<1>8. /\ DOMAIN marks \subseteq Slots
      /\ \A f \in Emps, x \in Dates, k \in Nat : <<f, x, k>> \in DOMAIN marks =>
           /\ k \in DOMAIN new[f][x]
           /\ <<f, x, from[f][x][k]>> \in DOMAIN att
           /\ marks[<<f, x, k>>] = att[<<f, x, from[f][x][k]>>]
  <2> DEFINE at(s) == IF s[1] = e /\ s[2] = d /\ s[3] \in i .. Len(list) - 1
                        THEN <<e, d, s[3] + 1>> ELSE s
             dom == {s \in Slots \ {<<e, d, Len(list)>>} : at(s) \in DOMAIN att}
  <2>1. marks = [s \in dom |-> att[at(s)]]
    BY DEF Renumbered
  <2>2. DOMAIN marks = dom /\ \A s \in dom : marks[s] = att[at(s)]
    BY <2>1
  <2> HIDE DEF marks
  <2>3. ASSUME NEW f \in Emps, NEW x \in Dates, NEW k \in Nat, <<f, x, k>> \in dom
        PROVE  /\ k \in DOMAIN new[f][x]
               /\ at(<<f, x, k>>) = <<f, x, from[f][x][k]>>
    <3> DEFINE s == <<f, x, k>>
    <3>1. s[1] = f /\ s[2] = x /\ s[3] = k /\ at(s) \in DOMAIN att
          /\ s # <<e, d, Len(list)>> /\ k \in 1 .. MaxShifts
      BY <2>3 DEF Slots
    <3>2. CASE <<f, x>> = <<e, d>> /\ k \in i .. Len(list) - 1
      <4>1. at(s) = <<e, d, k + 1>> /\ from[f][x][k] = k + 1
        BY <1>1, <1>5, <3>1, <3>2
      <4>2. k \in 1 .. Len(list) - 1
        BY <1>1, <3>2
      <4>3. QED
        BY <1>3, <1>4, <3>2, <4>1, <4>2
    <3>3. CASE <<f, x>> = <<e, d>> /\ k \notin i .. Len(list) - 1
      <4>1. at(s) = s
        BY <3>1, <3>3
      <4>2. k \in 1 .. Len(list) /\ k # Len(list)
        <5>1. s[3] \in DOMAIN sh[s[1]][s[2]]
          BY <1>7, <3>1, <4>1
        <5>2. k \in DOMAIN list
          BY <3>1, <3>3, <5>1
        <5>3. k # Len(list)
          BY <3>1, <3>3
        <5>4. QED
          BY <1>1, <5>2, <5>3
      <4>3. k \in 1 .. Len(list) - 1 /\ ~(k >= i)
        BY <1>1, <3>3, <4>2
      <4>4. from[f][x][k] = k
        BY <1>5, <4>3
      <4>5. QED
        BY <1>3, <1>4, <3>3, <4>1, <4>3, <4>4
    <3>4. CASE <<f, x>> # <<e, d>>
      <4>1. at(s) = s /\ from[f][x][k] = k
        BY <1>5, <3>1, <3>4
      <4>2. s[3] \in DOMAIN sh[s[1]][s[2]]
        BY <1>7, <3>1, <4>1
      <4>3. QED
        BY <1>4, <3>1, <3>4, <4>1, <4>2
    <3>5. QED
      BY <3>2, <3>3, <3>4
  <2> HIDE DEF at
  <2>4. \A s \in dom : at(s) \in DOMAIN att
    OBVIOUS
  <2>5. QED
    BY <2>2, <2>3, <2>4
<1>9. Whole(new, marks, n)
  <2>1. DOMAIN marks \subseteq Emps \X Dates \X Nat
    <3>1. Slots \subseteq Emps \X Dates \X Nat
      BY GridAssumption DEF Slots
    <3>2. QED
      BY <1>8, <3>1
  <2> HIDE DEF sh, att, marks
  <2>2. Whole(sh, att, n)
    BY DEF sh, att
  <2>3. Selected(new, sh, from)
    BY <1>6 DEF Selected
  <2>4. Followed(marks, new, att, from)
    BY <1>8, <2>1 DEF Followed
  <2>5. QED
    BY <1>4, <2>2, <2>3, <2>4, SelectedWhole
<1>10. ASSUME NEW f \in Emps, NEW x \in Dates, NEW k \in DOMAIN new[f][x]
       PROVE  new[f][x][k].id # list[i].id
  <2> DEFINE p == from[f][x][k]
  <2>1. p \in DOMAIN sh[f][x] /\ new[f][x][k].id = sh[f][x][p].id
        /\ (<<f, x>> = <<e, d>> => p # i)
    BY <1>6
  <2>2. Once(sh)
    BY DEF Whole
  <2> HIDE DEF p, sh
  <2>3. sh[f][x][p].id = sh[e][d][i].id => f = e /\ x = d /\ p = i
    BY <1>1, <2>1, <2>2 DEF Once
  <2>4. QED
    BY <2>1, <2>3
<1>11. ASSUME NEW f \in Emps, NEW x \in Dates, sh[f][x] = <<>>
       PROVE  new[f][x] = <<>>
  <2>1. <<f, x>> # <<e, d>>
    BY <1>1, <1>11
  <2>2. QED
    BY <1>4, <1>11, <2>1
<1>12. Absent(list[i].id, new)
  BY <1>10 DEF Absent
<1> HIDE DEF marks
<1>13. QED
  BY <1>2, <1>8, <1>9, <1>11, <1>12 DEF Without

\* What a grid g loses with a shift, and gets with another one: r.
Lost(r, g, id) ==
  /\ \A c \in Cells : Held(r.shifts)[c] = Held(g.shifts)[c] \ {id}
  /\ Range(r.attendance) = Range(g.attendance) \ {id}
Gained(r, g, cell, id, mark) ==
  /\ \A c \in Cells : Held(r.shifts)[c] = Held(g.shifts)[c] \cup (IF c = cell THEN {id} ELSE {})
  /\ Range(r.attendance) = Range(g.attendance) \cup mark

\* A shift deleted takes its mark with it, and no other.
LEMMA DeletedHolds ==
  ASSUME NEW g, NEW n \in Nat, Whole(g.shifts, g.attendance, n), DOMAIN g.attendance \subseteq Slots,
         NEW e \in Emps, NEW d \in Dates, NEW i \in DOMAIN g.shifts[e][d]
  PROVE  Lost(Deleted(g, e, d, i), g, g.shifts[e][d][i].id)
<1> DEFINE sh == g.shifts
           att == g.attendance
           list == sh[e][d]
           less == RemoveAt(list, i)
           new == [sh EXCEPT ![e][d] = less]
           marks == Renumbered(att, e, d, i, Len(list))
           r == Deleted(g, e, d, i)
           id == sh[e][d][i].id
<1>1. sh \in Table /\ list \in Seq(Sound) /\ Len(list) \in Nat
      /\ DOMAIN list = 1 .. Len(list) /\ i \in 1 .. Len(list) /\ i \in Nat
  <2>1. sh \in Table
    BY DEF Whole
  <2>2. list \in Seq(Sound)
    BY <2>1 DEF Table
  <2>3. QED
    BY <2>1, <2>2, LenProperties
<1>2. r = [shifts |-> new, attendance |-> marks]
  BY <1>1 DEF Deleted
<1>3. /\ less \in Seq(Sound) /\ Len(less) = Len(list) - 1 /\ DOMAIN less = 1 .. Len(list) - 1
      /\ \A j \in 1 .. Len(list) - 1 : less[j] = IF j < i THEN list[j] ELSE list[j + 1]
  <2> HIDE DEF list
  <2>1. /\ less \in Seq(Sound) /\ Len(less) = Len(list) - 1
        /\ \A j \in 1 .. Len(list) - 1 : less[j] = IF j < i THEN list[j] ELSE list[j + 1]
    BY <1>1, Removed
  <2> HIDE DEF less
  <2>2. QED
    BY <2>1, LenProperties
<1> HIDE DEF less
<1>4. /\ new[e][d] = less
      /\ \A f \in Emps, x \in Dates : <<f, x>> # <<e, d>> => new[f][x] = sh[f][x]
  BY <1>1, <1>3 DEF Table
<1>5. Without(r, g, n, id)
  BY DeletedWhole
<1>6. Whole(new, marks, n) /\ Absent(id, new)
  BY <1>2, <1>5 DEF Without
<1>7. Once(sh) /\ Attached(sh, att) /\ Attached(new, marks)
  BY <1>6 DEF Whole
<1> HIDE DEF new, marks, r
<1>8. ASSUME NEW c \in Cells
      PROVE  Held(new)[c] = Held(sh)[c] \ {id}
  <2>1. c[1] \in Emps /\ c[2] \in Dates /\ c = <<c[1], c[2]>>
    BY CellsAre
  <2>2. /\ Held(new)[c] = {new[c[1]][c[2]][k].id : k \in DOMAIN new[c[1]][c[2]]}
        /\ Held(sh)[c] = {sh[c[1]][c[2]][k].id : k \in DOMAIN sh[c[1]][c[2]]}
    BY DEF Held
  <2>3. id \notin Held(new)[c]
    BY <1>6, <2>1, <2>2 DEF Absent
  <2>4. CASE c # <<e, d>>
    <3>1. new[c[1]][c[2]] = sh[c[1]][c[2]]
      BY <1>4, <2>1, <2>4
    <3>2. Held(new)[c] = Held(sh)[c]
      BY <2>2, <3>1
    <3>3. QED
      BY <2>3, <3>2
  <2>5. CASE c = <<e, d>>
    <3>1. Held(new)[c] = {less[k].id : k \in 1 .. Len(list) - 1}
          /\ Held(sh)[c] = {list[k].id : k \in 1 .. Len(list)}
      <4>1. c[1] = e /\ c[2] = d /\ new[c[1]][c[2]] = less /\ sh[c[1]][c[2]] = list
        BY <1>4, <2>5
      <4> HIDE DEF list
      <4>2. QED
        BY <1>1, <1>3, <2>2, <4>1
    <3> HIDE DEF list
    <3>2. \A k \in 1 .. Len(list) - 1 :
            \E p \in 1 .. Len(list) : less[k].id = list[p].id
      <4> SUFFICES ASSUME NEW k \in 1 .. Len(list) - 1
                   PROVE  \E p \in 1 .. Len(list) : less[k].id = list[p].id
        OBVIOUS
      <4>1. k \in 1 .. Len(list) /\ k + 1 \in 1 .. Len(list)
        BY <1>1
      <4>2. less[k] = list[k] \/ less[k] = list[k + 1]
        BY <1>3
      <4>3. QED
        BY <4>1, <4>2
    <3>3. \A p \in 1 .. Len(list) : p # i => \E k \in 1 .. Len(list) - 1 : less[k].id = list[p].id
      <4> SUFFICES ASSUME NEW p \in 1 .. Len(list), p # i
                   PROVE  \E k \in 1 .. Len(list) - 1 : less[k].id = list[p].id
        OBVIOUS
      <4>1. CASE p < i
        <5>1. p \in 1 .. Len(list) - 1 /\ less[p] = list[p]
          BY <1>1, <1>3, <4>1
        <5>2. QED
          BY <5>1
      <4>2. CASE p > i
        <5>1. p - 1 \in 1 .. Len(list) - 1 /\ ~(p - 1 < i) /\ (p - 1) + 1 = p
          BY <1>1, <4>2
        <5>2. less[p - 1] = list[p]
          BY <1>3, <5>1
        <5>3. QED
          BY <5>1, <5>2
      <4>3. QED
        BY <1>1, <4>1, <4>2
    <3>4. id = list[i].id
      BY DEF list
    <3>5. Held(new)[c] \subseteq Held(sh)[c]
      BY <3>1, <3>2
    <3>6. \A k \in Held(sh)[c] : k # id => k \in Held(new)[c]
      BY <3>1, <3>3, <3>4
    <3>7. QED
      BY <2>3, <3>5, <3>6
  <2>6. QED
    BY <2>4, <2>5
<1>9. Range(marks) = Range(att) \ {id}
  <2> DEFINE at(s) == IF s[1] = e /\ s[2] = d /\ s[3] \in i .. Len(list) - 1
                        THEN <<e, d, s[3] + 1>> ELSE s
             dom == {s \in Slots \ {<<e, d, Len(list)>>} : at(s) \in DOMAIN att}
  <2>1. marks = [s \in dom |-> att[at(s)]]
    BY DEF Renumbered, marks
  <2>2. DOMAIN marks = dom /\ \A s \in dom : marks[s] = att[at(s)]
    BY <2>1
  <2>3. \A a \in Range(marks) : a \in Range(att) /\ a # id
    <3> SUFFICES ASSUME NEW s \in DOMAIN marks PROVE marks[s] \in Range(att) /\ marks[s] # id
      BY DEF Range
    <3>1. marks[s] = att[at(s)] /\ at(s) \in DOMAIN att
      BY <2>2
    <3>2. s[1] \in Emps /\ s[2] \in Dates /\ s[3] \in DOMAIN new[s[1]][s[2]]
          /\ marks[s] = new[s[1]][s[2]][s[3]].id
      BY <1>7 DEF Attached
    <3>3. marks[s] # id
      BY <1>6, <3>2 DEF Absent
    <3> HIDE DEF at
    <3>4. QED
      BY <3>1, <3>3 DEF Range
  <2>4. ASSUME NEW t \in DOMAIN att, att[t] # id
        PROVE  \E s \in dom : at(s) = t
    <3>1. t \in Slots /\ t = <<t[1], t[2], t[3]>> /\ t[1] \in Emps /\ t[2] \in Dates
          /\ t[3] \in 1 .. MaxShifts /\ t[3] \in DOMAIN sh[t[1]][t[2]] /\ att[t] = sh[t[1]][t[2]][t[3]].id
      BY <1>7 DEF Attached, Slots
    <3>2. CASE t[1] = e /\ t[2] = d /\ t[3] > i
      <4> DEFINE s == <<e, d, t[3] - 1>>
      <4>1. t[3] \in 1 .. Len(list)
        BY <1>1, <3>1, <3>2
      <4>2. t[3] - 1 \in i .. Len(list) - 1 /\ t[3] - 1 \in 1 .. MaxShifts /\ t[3] - 1 # Len(list)
            /\ (t[3] - 1) + 1 = t[3]
        <5> DEFINE p == t[3]
        <5>1. p \in 1 .. Len(list) /\ p > i /\ p \in 1 .. MaxShifts /\ MaxShifts \in Nat
          BY <3>1, <3>2, <4>1, GridAssumption
        <5> HIDE DEF p, list
        <5>2. p - 1 \in i .. Len(list) - 1 /\ p - 1 \in 1 .. MaxShifts /\ p - 1 # Len(list)
              /\ (p - 1) + 1 = p
          BY <1>1, <5>1
        <5>3. QED
          BY <5>2 DEF p, list
      <4>3. s \in Slots /\ s # <<e, d, Len(list)>>
        BY <4>2 DEF Slots
      <4>4. at(s) = t
        BY <3>1, <3>2, <4>2
      <4>5. QED
        BY <4>3, <4>4
    <3>3. CASE ~(t[1] = e /\ t[2] = d /\ t[3] > i)
      <4>1. t[1] = e /\ t[2] = d => t[3] \in 1 .. Len(list) /\ t[3] # i
        BY <1>1, <2>4, <3>1
      <4>2. t[1] = e /\ t[2] = d => t[3] < i
        BY <1>1, <3>3, <4>1
      <4>3. ~(t[1] = e /\ t[2] = d /\ t[3] \in i .. Len(list) - 1) /\ t # <<e, d, Len(list)>>
        <5>1. t[1] = e /\ t[2] = d => t[3] \notin i .. Len(list) - 1 /\ t[3] # Len(list)
          BY <1>1, <4>1, <4>2
        <5>2. t = <<e, d, Len(list)>> => t[1] = e /\ t[2] = d /\ t[3] = Len(list)
          OBVIOUS
        <5>3. QED
          BY <5>1, <5>2
      <4>4. at(t) = t
        BY <4>3
      <4>5. QED
        BY <3>1, <4>3, <4>4
    <3>4. QED
      BY <3>2, <3>3
  <2> HIDE DEF at, dom
  <2>5. \A a \in Range(att) : a # id => a \in Range(marks)
    <3> SUFFICES ASSUME NEW t \in DOMAIN att, att[t] # id PROVE att[t] \in Range(marks)
      BY DEF Range
    <3>1. PICK s \in dom : at(s) = t
      BY <2>4
    <3>2. s \in DOMAIN marks /\ marks[s] = att[t]
      BY <2>2, <3>1
    <3>3. QED
      BY <3>2 DEF Range
  <2>6. QED
    BY <2>3, <2>5
<1>10. r.shifts = new /\ r.attendance = marks
  BY <1>2
<1>11. QED
  BY <1>8, <1>9, <1>10 DEF Lost, r

\* A mark of a grid in which one may have been set: an old one, or the one set.
LEMMA MarkedIs ==
  ASSUME NEW att, NEW slot, NEW mark, NEW s, s \in DOMAIN Marked(att, slot, mark)
  PROVE  \/ s \in DOMAIN att /\ Marked(att, slot, mark)[s] = att[s]
         \/ s = slot /\ Marked(att, slot, mark)[s] \in mark
<1> DEFINE dom == DOMAIN att \cup {slot : m \in mark}
           value(x) == IF x = slot /\ mark # {} THEN CHOOSE m \in mark : TRUE ELSE att[x]
<1>1. Marked(att, slot, mark) = [x \in dom |-> value(x)]
  BY DEF Marked
<1>2. mark # {} => (CHOOSE m \in mark : TRUE) \in mark
  OBVIOUS
<1>3. \/ s \in DOMAIN att /\ value(s) = att[s]
      \/ s = slot /\ value(s) \in mark
  BY <1>1, <1>2
<1>4. s \in dom /\ Marked(att, slot, mark)[s] = value(s)
  <2> HIDE DEF dom, value
  <2>1. QED
    BY <1>1
<1> HIDE DEF dom, value
<1>5. QED
  BY <1>3, <1>4

\* A mark set where there is none, or the same one, is added.
LEMMA MarkedHolds ==
  ASSUME NEW att, NEW slot, NEW mark, \A a, b \in mark : a = b,
         slot \in DOMAIN att => mark \subseteq {att[slot]}
  PROVE  Range(Marked(att, slot, mark)) = Range(att) \cup mark
<1> DEFINE marks == Marked(att, slot, mark)
           dom == DOMAIN att \cup {slot : m \in mark}
           value(x) == IF x = slot /\ mark # {} THEN CHOOSE m \in mark : TRUE ELSE att[x]
<1>1. marks = [x \in dom |-> value(x)]
  BY DEF Marked
<1>2. DOMAIN marks = dom /\ \A x \in dom : marks[x] = value(x)
  BY <1>1
<1> HIDE DEF marks
<1>3. CASE mark = {}
  <2>1. dom = DOMAIN att /\ \A x \in dom : marks[x] = att[x]
    BY <1>2, <1>3
  <2>2. QED
    BY <1>2, <1>3, <2>1 DEF Range, marks
<1>4. ASSUME NEW k, mark = {k}
      PROVE  Range(Marked(att, slot, mark)) = Range(att) \cup mark
  <2>1. dom = DOMAIN att \cup {slot} /\ (CHOOSE m \in mark : TRUE) = k
    BY <1>4
  <2>2. marks[slot] = k /\ \A x \in DOMAIN att : marks[x] = att[x]
    BY <1>2, <1>4, <2>1
  <2> HIDE DEF dom
  <2>3. \A a \in Range(marks) : a \in Range(att) \cup {k}
    BY <1>2, <2>1, <2>2 DEF Range
  <2>4. k \in Range(marks) /\ \A a \in Range(att) : a \in Range(marks)
    BY <1>2, <2>1, <2>2 DEF Range
  <2>5. QED
    BY <1>4, <2>3, <2>4 DEF marks
<1>5. QED
  BY <1>3, <1>4

\* There is no mark past the end of a day.
LEMMA EndIsFree ==
  ASSUME NEW sh, NEW att, NEW n, Whole(sh, att, n), NEW e \in Emps, NEW d \in Dates
  PROVE  <<e, d, EndOf(sh[e][d])>> \notin DOMAIN att
<1>1. sh[e][d] \in Seq(Sound)
  BY DEF Whole, Table
<1>2. Len(sh[e][d]) + 1 \notin DOMAIN sh[e][d]
  BY <1>1, LenProperties
<1> DEFINE s == <<e, d, EndOf(sh[e][d])>>
<1>3. s[1] = e /\ s[2] = d /\ s[3] = Len(sh[e][d]) + 1
  BY DEF EndOf
<1> HIDE DEF s
<1>4. s \notin DOMAIN att
  BY <1>2, <1>3 DEF Whole, Attached
<1>5. QED
  BY <1>4 DEF s

\* A shift added is in its cell, with the mark it brings.
LEMMA AddedHolds ==
  ASSUME NEW g, NEW n, Whole(g.shifts, g.attendance, n),
         NEW e \in Emps, NEW d \in Dates, NEW sh \in Sound, NEW mark, mark \subseteq {sh.id}
  PROVE  Gained(Added(g, e, d, sh, mark), g, <<e, d>>, sh.id, mark)
<1> DEFINE old == g.shifts
           att == g.attendance
           list == old[e][d]
           new == [old EXCEPT ![e][d] = Append(list, sh)]
           slot == <<e, d, EndOf(list)>>
           r == Added(g, e, d, sh, mark)
<1>1. r.shifts = new /\ r.attendance = Marked(att, slot, mark)
  BY DEF Added
<1>2. old \in Table /\ list \in Seq(Sound)
  BY DEF Whole, Table
<1>3. /\ new[e][d] = Append(list, sh)
      /\ \A f \in Emps, x \in Dates : <<f, x>> # <<e, d>> => new[f][x] = old[f][x]
  BY <1>2 DEF Table
<1>4. slot \notin DOMAIN att
  BY EndIsFree
<1> HIDE DEF r, new, slot
<1>5. Range(r.attendance) = Range(att) \cup mark
  <2>1. \A a, b \in mark : a = b
    OBVIOUS
  <2>2. QED
    BY <1>1, <1>4, <2>1, MarkedHolds
<1>6. ASSUME NEW c \in Cells
      PROVE  Held(new)[c] = Held(old)[c] \cup (IF c = <<e, d>> THEN {sh.id} ELSE {})
  <2>1. c[1] \in Emps /\ c[2] \in Dates /\ c = <<c[1], c[2]>>
    BY CellsAre
  <2>2. /\ Held(new)[c] = {new[c[1]][c[2]][k].id : k \in DOMAIN new[c[1]][c[2]]}
        /\ Held(old)[c] = {old[c[1]][c[2]][k].id : k \in DOMAIN old[c[1]][c[2]]}
    BY DEF Held
  <2>3. CASE c # <<e, d>>
    BY <1>3, <2>1, <2>2, <2>3
  <2>4. CASE c = <<e, d>>
    <3>1. new[c[1]][c[2]] = Append(list, sh) /\ old[c[1]][c[2]] = list
      BY <1>3, <2>4
    <3> HIDE DEF list
    <3>2. DOMAIN Append(list, sh) = DOMAIN list \cup {Len(list) + 1}
          /\ Append(list, sh)[Len(list) + 1] = sh
          /\ \A j \in DOMAIN list : Append(list, sh)[j] = list[j]
      BY <1>2, Appended
    <3>3. \A a : a \in Held(new)[c] <=> a \in Held(old)[c] \/ a = sh.id
      BY <2>2, <3>1, <3>2
    <3>4. QED
      BY <2>4, <3>3
  <2>5. QED
    BY <2>3, <2>4
<1>7. QED
  BY <1>1, <1>5, <1>6 DEF Gained, r

\* A shift put at the end of a day, with the mark it had.
LEMMA AddedWhole ==
  ASSUME NEW g, NEW n \in Nat, Whole(g.shifts, g.attendance, n),
         NEW e \in Emps, NEW d \in Dates, NEW sh \in Sound, sh.id \in 1 .. n - 1,
         Absent(sh.id, g.shifts), NEW mark, mark \subseteq {sh.id}
  PROVE  LET r == Added(g, e, d, sh, mark) IN
         /\ Whole(r.shifts, r.attendance, n)
         /\ \A f \in Emps, x \in Dates : <<f, x>> # <<e, d>> => r.shifts[f][x] = g.shifts[f][x]
<1> DEFINE old == g.shifts
           att == g.attendance
           list == old[e][d]
           more == Append(list, sh)
           new == [old EXCEPT ![e][d] = more]
           slot == <<e, d, Len(list) + 1>>
           marks == Marked(att, slot, mark)
<1>1. Added(g, e, d, sh, mark) = [shifts |-> new, attendance |-> marks]
  BY DEF Added, EndOf
<1>2. old \in Table /\ list \in Seq(Sound) /\ Len(list) \in Nat
      /\ DOMAIN list = 1 .. Len(list)
  <2>1. old \in Table
    BY DEF Whole
  <2>2. list \in Seq(Sound)
    BY <2>1 DEF Table
  <2>3. QED
    BY <2>1, <2>2, LenProperties
<1>3. /\ more \in Seq(Sound)
      /\ DOMAIN more = DOMAIN list \cup {Len(list) + 1} /\ Len(list) + 1 \notin DOMAIN list
      /\ more[Len(list) + 1] = sh
      /\ \A j \in DOMAIN list : more[j] = list[j]
  <2> HIDE DEF list
  <2>1. QED
    BY <1>2, Appended
<1> HIDE DEF more
<1>4. /\ new \in Table /\ new[e][d] = more
      /\ \A f \in Emps, x \in Dates : <<f, x>> # <<e, d>> => new[f][x] = old[f][x]
  BY <1>2, <1>3 DEF Table
<1> HIDE DEF new
<1>5. ASSUME NEW f \in Emps, NEW x \in Dates
      PROVE  /\ DOMAIN old[f][x] \subseteq DOMAIN new[f][x]
             /\ \A i \in DOMAIN old[f][x] : new[f][x][i].id = old[f][x][i].id
             /\ \A i \in DOMAIN new[f][x] \ DOMAIN old[f][x] :
                  f = e /\ x = d /\ i = Len(list) + 1 /\ new[f][x][i].id = sh.id
  <2>1. CASE <<f, x>> = <<e, d>>
    BY <1>3, <1>4, <2>1
  <2>2. CASE <<f, x>> # <<e, d>>
    BY <1>4, <2>2
  <2>3. QED
    BY <2>1, <2>2
<1>6. Extended(new, old, n)
  BY <1>5 DEF Extended
<1>7. ASSUME NEW s \in DOMAIN marks
      PROVE  \/ s \in DOMAIN att /\ marks[s] = att[s]
             \/ s = slot /\ marks[s] = sh.id
  <2>1. \/ s \in DOMAIN att /\ marks[s] = att[s]
        \/ s = slot /\ marks[s] \in mark
    BY MarkedIs
  <2> HIDE DEF marks
  <2>2. QED
    BY <2>1
<1> HIDE DEF marks
<1>8. Carried(marks, new, att)
  <2>1. slot \in Emps \X Dates \X Nat /\ DOMAIN att \subseteq Emps \X Dates \X Nat
    BY <1>2 DEF Whole, Attached
  <2>2. slot[1] = e /\ slot[2] = d /\ slot[3] = Len(list) + 1
    OBVIOUS
  <2>3. slot[3] \in DOMAIN new[slot[1]][slot[2]] /\ new[slot[1]][slot[2]][slot[3]].id = sh.id
    BY <1>3, <1>4, <2>2
  <2> HIDE DEF slot
  <2>4. QED
    BY <1>7, <2>1, <2>3 DEF Carried
<1>9. Whole(new, marks, n)
  <2> HIDE DEF old, att
  <2>1. Whole(old, att, n)
    BY DEF old, att
  <2>2. n <= n
    OBVIOUS
  <2>3. QED
    BY <1>4, <1>6, <1>8, <2>1, <2>2, ExtendedWhole
<1>10. QED
  BY <1>1, <1>4, <1>9

\* What is shown is the next grid, and its shifts are in bounds.
LEMMA Shown ==
  ASSUME Shape, NEW g, NEW n \in Nat, Show(g, n)
  PROVE  /\ shifts' = g.shifts /\ attendance' = g.attendance
         /\ nextId' = nextId + n /\ nextId \in Nat \ {0}
         /\ nextId' \in 1 .. MaxShifts + 1
<1>1. mix.made \in 1 .. MaxShifts /\ MaxShifts \in Nat
  BY GridAssumption DEF Shape
<1>2. nextId \in 1 .. MaxShifts + 1 /\ nextId' = nextId + n /\ nextId' <= mix.made + 1
  BY DEF Shape, Show
<1>3. QED
  BY <1>1, <1>2 DEF Show

-----------------------------------------------------------------------------
(* What the reducers leave whole.                                          *)

\* The step is one of the book's, apart from trust.
InBook ==
  Booked(PlaceOf(Held(shifts)), PlaceOf(Held(shifts')), 1 .. nextId - 1, 1 .. nextId' - 1,
         Range(attendance), Range(attendance'))

\* The next grid is whole, only the rows in to may have become filled, and the step is one
\* of the book's.
Rewrote(to) ==
  /\ Whole(shifts', attendance', nextId')
  /\ nextId' \in 1 .. MaxShifts + 1
  /\ \A f \in Emps \ to, x \in Dates : shifts[f][x] = <<>> => shifts'[f][x] = <<>>
  /\ InBook

Ready == Shape /\ ~stale /\ Whole(shifts, attendance, nextId)

\* Shifts are made, and the one in K handed on.
HandsOn(K) ==
  /\ nextId <= nextId'
  /\ \A c \in Cells :
       /\ Held(shifts)[c] \ K \subseteq Held(shifts')[c]
       /\ Held(shifts')[c] \subseteq Held(shifts)[c] \cup K \cup nextId .. nextId' - 1
  /\ \A j \in nextId .. nextId' - 1 : \E c \in Cells : j \in Held(shifts')[c]
  /\ Range(attendance') = Range(attendance)

LEMMA NextIdIs ==
  ASSUME Ready
  PROVE  nextId \in Nat \ {0} /\ Whole(shifts, attendance, nextId)
BY GridAssumption DEF Ready, Shape

LEMMA MakesBooked ==
  ASSUME Ready, Whole(shifts', attendance', nextId'), nextId' \in Nat, HandsOn({})
  PROVE  InBook
<1>1. nextId \in Nat \ {0}
  BY NextIdIs
<1>2. Single(Held(shifts), nextId) /\ Single(Held(shifts'), nextId')
  BY <1>1, NextIdIs, HeldIs
<1> DEFINE F == Held(shifts)
           G == Held(shifts')
           K == {}
           M == Range(attendance)
<1>3. nextId <= nextId' /\ Range(attendance') = M
      /\ (\A c \in Cells : F[c] \ K \subseteq G[c] /\ G[c] \subseteq F[c] \cup K \cup nextId .. nextId' - 1)
      /\ \A j \in nextId .. nextId' - 1 : \E c \in Cells : j \in G[c]
  BY DEF HandsOn
<1>4. Single(F, nextId) /\ Single(G, nextId')
  BY <1>2
<1>5. K = {} \/ \E k : K = {k} /\ (\E b \in Cells : k \in F[b]) /\ (\E c \in Cells : k \in G[c])
  OBVIOUS
<1> HIDE DEF F, G, K, M
<1>6. Booked(PlaceOf(F), PlaceOf(G), 1 .. nextId - 1, 1 .. nextId' - 1, M, M)
  BY <1>1, <1>3, <1>4, <1>5, Handed
<1>7. QED
  BY <1>3, <1>6 DEF InBook, F, G, M

LEMMA HandsBooked ==
  ASSUME Ready, Whole(shifts', attendance', nextId'), nextId' \in Nat, NEW k, HandsOn({k}),
         NEW b \in Cells, k \in Held(shifts)[b], NEW c \in Cells, k \in Held(shifts')[c]
  PROVE  InBook
<1>1. nextId \in Nat \ {0}
  BY NextIdIs
<1>2. Single(Held(shifts), nextId) /\ Single(Held(shifts'), nextId')
  BY <1>1, NextIdIs, HeldIs
<1> DEFINE F == Held(shifts)
           G == Held(shifts')
           K == {k}
           M == Range(attendance)
<1>3. nextId <= nextId' /\ Range(attendance') = M
      /\ (\A x \in Cells : F[x] \ K \subseteq G[x] /\ G[x] \subseteq F[x] \cup K \cup nextId .. nextId' - 1)
      /\ \A j \in nextId .. nextId' - 1 : \E x \in Cells : j \in G[x]
  BY DEF HandsOn
<1>4. Single(F, nextId) /\ Single(G, nextId')
  BY <1>2
<1>5. K = {} \/ \E x : K = {x} /\ (\E y \in Cells : x \in F[y]) /\ (\E y \in Cells : x \in G[y])
  OBVIOUS
<1> HIDE DEF F, G, K, M
<1>6. Booked(PlaceOf(F), PlaceOf(G), 1 .. nextId - 1, 1 .. nextId' - 1, M, M)
  BY <1>1, <1>3, <1>4, <1>5, Handed
<1>7. QED
  BY <1>3, <1>6 DEF InBook, F, G, M

LEMMA DropsBooked ==
  ASSUME Ready, Whole(shifts', attendance', nextId'), nextId' \in Nat, nextId' = nextId,
         \A c \in Cells : Held(shifts')[c] \subseteq Held(shifts)[c],
         Range(attendance') \subseteq Range(attendance),
         \A a \in Range(attendance), c \in Cells : a \in Held(shifts')[c] => a \in Range(attendance')
  PROVE  InBook
<1>1. nextId \in Nat
  BY NextIdIs
<1>2. Single(Held(shifts), nextId) /\ \A a \in Range(attendance) : \E c \in Cells : a \in Held(shifts)[c]
  BY <1>1, NextIdIs, HeldIs
<1> DEFINE F == Held(shifts)
           G == Held(shifts')
           M == Range(attendance)
           N == Range(attendance')
<1>3. Single(G, nextId) /\ \A a \in N : \E c \in Cells : a \in G[c]
  BY <1>1, HeldIs
<1>4. \A c \in Cells : G[c] \subseteq F[c]
  OBVIOUS
<1>5. \A a \in M, c \in Cells : a \in G[c] => a \in N
  OBVIOUS
<1>6. N \subseteq M
  OBVIOUS
<1>7. Single(F, nextId) /\ \A a \in M : \E c \in Cells : a \in F[c]
  BY <1>2
<1> HIDE DEF F, G, M, N
<1>8. Booked(PlaceOf(F), PlaceOf(G), 1 .. nextId - 1, 1 .. nextId - 1, M, N)
  BY <1>1, <1>3, <1>4, <1>5, <1>6, <1>7, Dropped
<1>9. QED
  BY <1>8 DEF InBook, F, G, M, N

LEMMA IdleBooked ==
  ASSUME Ready, UNCHANGED <<shifts, attendance, nextId>>
  PROVE  InBook
<1>1. Whole(shifts', attendance', nextId') /\ nextId' \in Nat /\ nextId \in Nat
  BY NextIdIs
<1>2. HandsOn({})
  BY <1>1 DEF HandsOn
<1>3. QED
  BY <1>1, <1>2, MakesBooked

\* Nothing changes.
LEMMA Same ==
  ASSUME Ready, Show(Grid, 0), NEW to
  PROVE  Rewrote(to)
<1>1. shifts' = shifts /\ attendance' = attendance /\ nextId' = nextId + 0
      /\ nextId \in Nat /\ nextId' \in 1 .. MaxShifts + 1
  BY Shown DEF Ready, Grid
<1>2. nextId' = nextId
  BY <1>1
<1>3. QED
  BY <1>1, <1>2, IdleBooked DEF Ready, Rewrote

\* The slot of a mark has its shift, and the mark is its identity.
LEMMA MarkAtIs ==
  ASSUME Ready, NEW e \in Emps, NEW d \in Dates, NEW i
  PROVE  /\ MarkAt(e, d, i) # {} => <<e, d, i>> \in DOMAIN attendance /\ i \in DOMAIN shifts[e][d]
         /\ \A m \in MarkAt(e, d, i) : m = shifts[e][d][i].id
<1> DEFINE s == <<e, d, i>>
<1>1. \A m \in MarkAt(e, d, i) : s \in DOMAIN attendance /\ m = attendance[s]
  BY DEF MarkAt
<1>2. s \in DOMAIN attendance =>
        s[3] \in DOMAIN shifts[s[1]][s[2]] /\ attendance[s] = shifts[s[1]][s[2]][s[3]].id
  BY DEF Ready, Whole, Attached
<1>3. s[1] = e /\ s[2] = d /\ s[3] = i
  OBVIOUS
<1> HIDE DEF s
<1>4. QED
  BY <1>1, <1>2, <1>3 DEF s

\* A day's list has indexes, and elements that have been made.
LEMMA ListIs ==
  ASSUME Ready, NEW e \in Emps, NEW d \in Dates
  PROVE  /\ shifts[e][d] \in Seq(Sound) /\ Len(shifts[e][d]) \in Nat
         /\ DOMAIN shifts[e][d] = 1 .. Len(shifts[e][d])
         /\ \A i \in DOMAIN shifts[e][d] :
              /\ shifts[e][d][i] \in Sound
              /\ shifts[e][d][i].id \in 1 .. nextId - 1
              /\ shifts[e][d][i] # Hole
<1>1. shifts[e][d] \in Seq(Sound)
  BY DEF Ready, Whole, Table
<1>2. /\ Len(shifts[e][d]) \in Nat /\ DOMAIN shifts[e][d] = 1 .. Len(shifts[e][d])
      /\ \A i \in 1 .. Len(shifts[e][d]) : shifts[e][d][i] \in Sound
  BY <1>1, LenProperties, ElementOfSeq
<1>3. \A i \in DOMAIN shifts[e][d] : shifts[e][d][i].id \in 1 .. nextId - 1
  BY DEF Ready, Whole, Numbered
<1>4. \A i \in DOMAIN shifts[e][d] : shifts[e][d][i] # Hole
  <2>1. Hole.id = 0
    BY DEF Hole
  <2>2. 0 \notin 1 .. nextId - 1
    BY DEF Ready, Shape
  <2>3. QED
    BY <1>3, <2>1, <2>2
<1>5. QED
  BY <1>1, <1>2, <1>3, <1>4

\* The mark of a slot is the one of its shift, if that has one.
LEMMA MarkOfShift ==
  ASSUME Ready, NEW e \in Emps, NEW d \in Dates, NEW i \in DOMAIN shifts[e][d]
  PROVE  MarkAt(e, d, i) = Range(attendance) \cap {shifts[e][d][i].id}
<1> DEFINE id == shifts[e][d][i].id
<1>1. \A m \in MarkAt(e, d, i) : m = id /\ m \in Range(attendance)
  BY MarkAtIs DEF MarkAt, Range
<1>2. ASSUME NEW s \in DOMAIN attendance, attendance[s] = id
      PROVE  id \in MarkAt(e, d, i)
  <2>1. /\ s \in Slots /\ s[1] \in Emps /\ s[2] \in Dates /\ s = <<s[1], s[2], s[3]>>
        /\ s[3] \in DOMAIN shifts[s[1]][s[2]] /\ id = shifts[s[1]][s[2]][s[3]].id
    BY <1>2 DEF Ready, Shape, Whole, Attached, Slots
  <2>2. Once(shifts)
    BY DEF Ready, Whole
  <2>3. s[1] = e /\ s[2] = d /\ s[3] = i
    BY <2>1, <2>2 DEF Once
  <2>4. s = <<e, d, i>>
    BY <2>1, <2>3
  <2>5. QED
    BY <1>2, <2>4 DEF MarkAt
<1> HIDE DEF id
<1>3. id \in Range(attendance) => id \in MarkAt(e, d, i)
  BY <1>2 DEF Range
<1>4. QED
  BY <1>1, <1>3 DEF id

\* Days that are emptied, with their marks.
LEMMA EmptiedWhole ==
  ASSUME NEW sh, NEW att, NEW n \in Nat, Whole(sh, att, n), NEW new \in Table,
         NEW S, S \subseteq DOMAIN att,
         \A f \in Emps, x \in Dates : new[f][x] = sh[f][x] \/ new[f][x] = <<>>,
         \A s \in S : new[s[1]][s[2]] = sh[s[1]][s[2]]
  PROVE  Whole(new, Restrict(att, S), n)
<1> DEFINE marks == Restrict(att, S)
<1>1. DOMAIN marks = S /\ \A s \in S : marks[s] = att[s]
  BY DEF Restrict
<1>2. \A f \in Emps, x \in Dates : \A i \in DOMAIN new[f][x] : new[f][x] = sh[f][x]
  OBVIOUS
<1>3. Numbered(new, n)
  BY <1>2 DEF Whole, Numbered
<1>4. Once(new)
  <2>1. ASSUME NEW e \in Emps, NEW f \in Emps, NEW d \in Dates, NEW x \in Dates,
               NEW i \in DOMAIN new[e][d], NEW j \in DOMAIN new[f][x],
               new[e][d][i].id = new[f][x][j].id
        PROVE  e = f /\ d = x /\ i = j
    <3>1. new[e][d] = sh[e][d] /\ new[f][x] = sh[f][x]
      BY <1>2
    <3>2. QED
      BY <2>1, <3>1 DEF Whole, Once
  <2>2. QED
    BY <2>1 DEF Once
<1>5. Attached(new, marks)
  BY <1>1 DEF Whole, Attached
<1>6. QED
  BY <1>3, <1>4, <1>5 DEF Whole

\* Some cells are emptied, and with them the marks that were there.
LEMMA EmptiedBooked ==
  ASSUME Ready, Whole(shifts', attendance', nextId'), NEW g, Show(g, 0), g.shifts \in Table,
         \A f \in Emps, x \in Dates : g.shifts[f][x] = shifts[f][x] \/ g.shifts[f][x] = <<>>,
         NEW S, S \subseteq DOMAIN attendance, g.attendance = Restrict(attendance, S),
         \A s \in S : g.shifts[s[1]][s[2]] = shifts[s[1]][s[2]],
         \A s \in DOMAIN attendance \ S : g.shifts[s[1]][s[2]] = <<>>
  PROVE  InBook
<1>1. nextId \in Nat
  BY NextIdIs
<1>2. shifts' = g.shifts /\ attendance' = g.attendance /\ nextId' = nextId
  BY Shown DEF Ready
<1>3. ASSUME NEW c \in Cells
      PROVE  /\ shifts'[c[1]][c[2]] = <<>> => Held(shifts')[c] = {}
             /\ Held(shifts')[c] = {} \/ Held(shifts')[c] = Held(shifts)[c]
  <2>1. c[1] \in Emps /\ c[2] \in Dates
    BY CellsAre
  <2>2. shifts'[c[1]][c[2]] = shifts[c[1]][c[2]] => Held(shifts')[c] = Held(shifts)[c]
    BY DEF Held
  <2>3. ASSUME shifts'[c[1]][c[2]] = <<>> PROVE Held(shifts')[c] = {}
    <3>1. Held(shifts')[c] = {shifts'[c[1]][c[2]][i].id : i \in DOMAIN shifts'[c[1]][c[2]]}
      BY DEF Held
    <3>2. DOMAIN shifts'[c[1]][c[2]] = {}
      BY <2>3
    <3>3. QED
      BY <2>3, <3>1, <3>2
  <2>4. QED
    BY <1>2, <2>1, <2>2, <2>3
<1>4. Range(attendance') = {attendance[s] : s \in S}
  BY <1>2 DEF Range, Restrict
<1>5. ASSUME NEW a \in Range(attendance), NEW c \in Cells, a \in Held(shifts')[c]
      PROVE  a \in Range(attendance')
  <2>1. PICK s \in DOMAIN attendance : a = attendance[s]
    BY DEF Range
  <2>2. CASE s \in S
    BY <1>4, <2>1, <2>2
  <2>3. CASE s \notin S
    <3>1. /\ s[1] \in Emps /\ s[2] \in Dates
          /\ s[3] \in DOMAIN shifts[s[1]][s[2]] /\ a = shifts[s[1]][s[2]][s[3]].id
      BY <2>1, NextIdIs DEF Whole, Attached
    <3>2. shifts'[s[1]][s[2]] = <<>>
      BY <1>2, <2>3
    <3>3. c[1] \in Emps /\ c[2] \in Dates /\ shifts'[c[1]][c[2]] # <<>> /\ a \in Held(shifts)[c]
      BY <1>3, <1>5, CellsAre
    <3>4. PICK j \in DOMAIN shifts[c[1]][c[2]] : a = shifts[c[1]][c[2]][j].id
      BY <3>3 DEF Held
    <3>5. Once(shifts)
      BY NextIdIs DEF Whole
    <3>6. c[1] = s[1] /\ c[2] = s[2]
      <4>1. shifts[s[1]][s[2]][s[3]].id = shifts[c[1]][c[2]][j].id
        BY <3>1, <3>4
      <4>2. QED
        BY <3>1, <3>3, <4>1, <3>5 DEF Once
    <3>7. QED
      BY <3>2, <3>3, <3>6
  <2>4. QED
    BY <2>2, <2>3
<1>6. Range(attendance') \subseteq Range(attendance)
  BY <1>4 DEF Range
<1>7. \A c \in Cells : Held(shifts')[c] \subseteq Held(shifts)[c]
  BY <1>3
<1>8. \A a \in Range(attendance), c \in Cells : a \in Held(shifts')[c] => a \in Range(attendance')
  BY <1>5
<1>9. QED
  BY <1>1, <1>2, <1>6, <1>7, <1>8, DropsBooked

\* A reducer that empties days.
LEMMA Emptied ==
  ASSUME Ready, NEW g, Show(g, 0), g.shifts \in Table,
         \A f \in Emps, x \in Dates : g.shifts[f][x] = shifts[f][x] \/ g.shifts[f][x] = <<>>,
         NEW S, S \subseteq DOMAIN attendance, g.attendance = Restrict(attendance, S),
         \A s \in S : g.shifts[s[1]][s[2]] = shifts[s[1]][s[2]],
         \A s \in DOMAIN attendance \ S : g.shifts[s[1]][s[2]] = <<>>
  PROVE  Rewrote({})
<1>1. /\ shifts' = g.shifts /\ attendance' = g.attendance
      /\ nextId' = nextId + 0 /\ nextId \in Nat \ {0} /\ nextId' \in 1 .. MaxShifts + 1
  BY Shown DEF Ready
<1>2. Whole(g.shifts, Restrict(attendance, S), nextId)
  BY <1>1, EmptiedWhole DEF Ready
<1>3. nextId' = nextId
  BY <1>1
<1>4. Whole(shifts', attendance', nextId')
  BY <1>1, <1>2, <1>3
<1>5. InBook
  BY <1>4, EmptiedBooked
<1>6. QED
  BY <1>1, <1>4, <1>5 DEF Rewrote

LEMMA DeleteWhole ==
  ASSUME Ready, NEW e \in Emps, NEW d \in Dates, NEW i, DeleteShift(e, d, i)
  PROVE  Rewrote({})
<1> DEFINE r == Deleted(Grid, e, d, i)
<1>1. Grid.shifts = shifts /\ Grid.attendance = attendance
  BY DEF Grid
<1>2. /\ shifts' = r.shifts /\ attendance' = r.attendance
      /\ nextId' = nextId + 0 /\ nextId \in Nat \ {0} /\ nextId' \in 1 .. MaxShifts + 1
  BY Shown DEF Ready, DeleteShift
<1>3. nextId' = nextId
  BY <1>2
<1>4. CASE i \in 1 .. Len(shifts[e][d])
  <2>1. i \in DOMAIN Grid.shifts[e][d]
    BY <1>1, <1>4, ListIs
  <2>2. Without(r, Grid, nextId, Grid.shifts[e][d][i].id)
    BY <1>1, <1>2, <2>1, DeletedWhole DEF Ready, Shape
  <2> DEFINE id == shifts[e][d][i].id
  <2>3. Lost(r, Grid, Grid.shifts[e][d][i].id)
    BY <1>1, <1>2, <2>1, DeletedHolds DEF Ready, Shape
  <2> HIDE DEF r
  <2>4. /\ \A c \in Cells : Held(r.shifts)[c] = Held(shifts)[c] \ {id}
        /\ Range(r.attendance) = Range(attendance) \ {id}
    BY <1>1, <2>3 DEF Lost
  <2> HIDE DEF id
  <2>5. Whole(shifts', attendance', nextId')
    BY <1>2, <1>3, <2>2 DEF Without
  <2>6. InBook
    BY <1>2, <1>3, <2>4, <2>5, DropsBooked
  <2>7. QED
    BY <1>1, <1>2, <1>3, <2>2, <2>5, <2>6 DEF Rewrote, Without
<1>5. CASE i \notin 1 .. Len(shifts[e][d])
  <2>1. r = Grid
    BY <1>1, <1>5 DEF Deleted
  <2>2. QED
    BY <1>1, <1>2, <1>3, <2>1, IdleBooked DEF Rewrote, Ready
<1>6. QED
  BY <1>4, <1>5

LEMMA DeleteDayWhole ==
  ASSUME Ready, NEW e \in Emps, NEW d \in Dates, DeleteDay(e, d)
  PROVE  Rewrote({})
<1> DEFINE new == [shifts EXCEPT ![e][d] = <<>>]
           S == {s \in DOMAIN attendance : ~(s[1] = e /\ s[2] = d /\ s[3] \in DOMAIN Cell(e, d))}
           g == [shifts |-> new, attendance |-> Restrict(attendance, S)]
<1>1. Show(g, 0) /\ g.shifts = new /\ g.attendance = Restrict(attendance, S)
  BY DEF DeleteDay
<1>2. shifts \in Table
  BY DEF Ready, Whole
<1>3. /\ new \in Table /\ new[e][d] = <<>>
      /\ \A f \in Emps, x \in Dates : <<f, x>> # <<e, d>> => new[f][x] = shifts[f][x]
  BY <1>2 DEF Table
<1>4. ASSUME NEW s \in S
      PROVE  new[s[1]][s[2]] = shifts[s[1]][s[2]]
  <2>1. s[1] \in Emps /\ s[2] \in Dates /\ s[3] \in DOMAIN shifts[s[1]][s[2]]
    BY DEF Ready, Whole, Attached
  <2>2. <<s[1], s[2]>> # <<e, d>>
    BY <2>1 DEF Cell
  <2>3. QED
    BY <1>3, <2>1, <2>2
<1>5. S \subseteq DOMAIN attendance
  OBVIOUS
<1>6. \A f \in Emps, x \in Dates : new[f][x] = shifts[f][x] \/ new[f][x] = <<>>
  BY <1>3
<1>7. \A s \in DOMAIN attendance \ S : new[s[1]][s[2]] = <<>>
  BY <1>3
<1> HIDE DEF new, S, g
<1>8. QED
  BY <1>1, <1>3, <1>4, <1>5, <1>6, <1>7, Emptied

LEMMA ClearWhole ==
  ASSUME Ready, NEW e \in Emps, ClearEmployee(e)
  PROVE  Rewrote({})
<1> DEFINE new == [shifts EXCEPT ![e] = [d \in Dates |-> <<>>]]
           S == DOMAIN attendance \ OfEmp(e)
           g == [shifts |-> new, attendance |-> Restrict(attendance, S)]
<1>1. Show(g, 0) /\ g.shifts = new /\ g.attendance = Restrict(attendance, S)
  BY DEF ClearEmployee
<1>2. shifts \in Table
  BY DEF Ready, Whole
<1>3. /\ new \in Table
      /\ \A f \in Emps, x \in Dates : new[f][x] = IF f = e THEN <<>> ELSE shifts[f][x]
  BY <1>2 DEF Table
<1>4. \A s \in S : new[s[1]][s[2]] = shifts[s[1]][s[2]]
  BY <1>3 DEF OfEmp, Ready, Whole, Attached
<1>5. S \subseteq DOMAIN attendance
  OBVIOUS
<1>6. \A f \in Emps, x \in Dates : new[f][x] = shifts[f][x] \/ new[f][x] = <<>>
  BY <1>3
<1>7. \A s \in DOMAIN attendance \ S : new[s[1]][s[2]] = <<>>
  BY <1>3 DEF OfEmp, Ready, Whole, Attached
<1> HIDE DEF new, S, g
<1>8. QED
  BY <1>1, <1>3, <1>4, <1>5, <1>6, <1>7, Emptied

\* The rows that go lose their shifts.
LEMMA RemoveWhole ==
  ASSUME Ready, NEW gone \in SUBSET Emps, RemoveEmployees(gone)
  PROVE  /\ Rewrote({}) /\ employees' = employees \ gone
         /\ \A f \in gone, x \in Dates : shifts'[f][x] = <<>>
<1> DEFINE new == [e \in Emps |-> IF e \in gone THEN [d \in Dates |-> <<>>] ELSE shifts[e]]
           S == DOMAIN attendance \ UNION {OfEmp(e) : e \in gone}
           g == [shifts |-> new, attendance |-> Restrict(attendance, S)]
<1>1. /\ Show(g, 0) /\ g.shifts = new /\ g.attendance = Restrict(attendance, S)
      /\ employees' = employees \ gone
  BY DEF RemoveEmployees
<1>2. shifts \in Table
  BY DEF Ready, Whole
<1>3. /\ new \in Table
      /\ \A f \in Emps, x \in Dates : new[f][x] = IF f \in gone THEN <<>> ELSE shifts[f][x]
  BY <1>2 DEF Table
<1>4. \A s \in S : new[s[1]][s[2]] = shifts[s[1]][s[2]]
  BY <1>3 DEF OfEmp, Ready, Whole, Attached
<1>5. S \subseteq DOMAIN attendance
  OBVIOUS
<1>6. \A f \in Emps, x \in Dates : new[f][x] = shifts[f][x] \/ new[f][x] = <<>>
  BY <1>3
<1>7. \A s \in DOMAIN attendance \ S : new[s[1]][s[2]] = <<>>
  BY <1>3 DEF OfEmp, Ready, Whole, Attached
<1>8. shifts' = new
  BY <1>1, Shown DEF Ready
<1> HIDE DEF new, S, g
<1>9. Rewrote({})
  BY <1>1, <1>3, <1>4, <1>5, <1>6, <1>7, Emptied
<1>10. QED
  BY <1>1, <1>3, <1>8, <1>9

LEMMA DaysWhole ==
  ASSUME Ready, NEW count \in Dates, NEW edge \in {"start", "end"}, SetDayCount(count, edge)
  PROVE  /\ Rewrote({})
         /\ DaysOK'
<1> DEFINE show == Window(count, edge)
           new == [e \in Emps |-> [d \in Dates |-> IF d \in show THEN Cell(e, d) ELSE <<>>]]
           S == {s \in DOMAIN attendance : s[2] \in show}
           g == [shifts |-> new, attendance |-> Restrict(attendance, S)]
<1>1. /\ show \subseteq Dates /\ days' = show
      /\ Show(g, 0) \/ Show(Grid, 0)
      /\ g.shifts = new /\ g.attendance = Restrict(attendance, S)
  BY DEF SetDayCount
<1>2. \E a, b \in Dates : a <= b /\ show = a .. b
  <2>1. PICK p, q \in Dates : p <= q /\ days = p .. q
    BY DEF Ready, Shape, DaysOK
  <2>2. p \in Int /\ q \in Int /\ count \in Int /\ 1 <= count
    BY GridAssumption DEF Dates
  <2> DEFINE first == CHOOSE d \in days : \A x \in days : d <= x
             last == CHOOSE d \in days : \A x \in days : x <= d
  <2>3. p \in days /\ q \in days /\ \A x \in days : x \in Int /\ p <= x /\ x <= q
    BY <2>1, <2>2
  <2>4. first \in days /\ \A x \in days : first <= x
    BY <2>3
  <2>5. last \in days /\ \A x \in days : x <= last
    BY <2>3
  <2>6. show = IF edge = "end" THEN first .. first + count - 1 ELSE last - count + 1 .. last
    BY DEF Window
  <2>7. first \in Int /\ last \in Int
    BY <2>3, <2>4, <2>5
  <2> HIDE DEF first, last, show
  <2>8. CASE edge = "end"
    <3>1. show = first .. first + count - 1 /\ first <= first + count - 1
      BY <2>2, <2>6, <2>7, <2>8
    <3>2. first \in show /\ first + count - 1 \in show
      BY <2>2, <2>7, <3>1
    <3>3. QED
      BY <1>1, <3>1, <3>2
  <2>9. CASE edge # "end"
    <3>1. show = last - count + 1 .. last /\ last - count + 1 <= last
      BY <2>2, <2>6, <2>7, <2>9
    <3>2. last \in show /\ last - count + 1 \in show
      BY <2>2, <2>7, <3>1
    <3>3. QED
      BY <1>1, <3>1, <3>2
  <2>10. QED
    BY <2>8, <2>9
<1>3. shifts \in Table
  BY DEF Ready, Whole
<1> HIDE DEF show
<1>4. /\ new \in Table
      /\ \A f \in Emps, x \in Dates : new[f][x] = IF x \in show THEN shifts[f][x] ELSE <<>>
  BY <1>3 DEF Table, Cell
<1>5. \A s \in S : new[s[1]][s[2]] = shifts[s[1]][s[2]]
  BY <1>4 DEF Ready, Whole, Attached
<1>6. S \subseteq DOMAIN attendance
  OBVIOUS
<1>7. \A f \in Emps, x \in Dates : new[f][x] = shifts[f][x] \/ new[f][x] = <<>>
  BY <1>4
<1>8. \A s \in DOMAIN attendance \ S : new[s[1]][s[2]] = <<>>
  BY <1>4 DEF Ready, Whole, Attached
<1> HIDE DEF new, S, g
<1>9. Rewrote({})
  <2>1. CASE Show(g, 0)
    BY <1>1, <1>4, <1>5, <1>6, <1>7, <1>8, <2>1, Emptied
  <2>2. CASE Show(Grid, 0)
    BY <2>2, Same
  <2>3. QED
    BY <1>1, <2>1, <2>2
<1>10. QED
  BY <1>1, <1>2, <1>9 DEF DaysOK

\* A shift moved goes with its mark.
LEMMA MoveWhole ==
  ASSUME Ready, NEW e \in Emps, NEW d \in Dates, NEW i, NEW toEmp \in Emps, NEW toDay \in Dates,
         MoveShift(e, d, i, toEmp, toDay)
  PROVE  Rewrote({toEmp})
<1>1. CASE ~(<<e, d>> # <<toEmp, toDay>> /\ Has(e, d, i))
  <2>1. Show(Grid, 0)
    BY <1>1 DEF MoveShift
  <2>2. QED
    BY <2>1, Same
<1>2. CASE <<e, d>> # <<toEmp, toDay>> /\ Has(e, d, i)
  <2> DEFINE r == Deleted(Grid, e, d, i)
             sh == shifts[e][d][i]
             mark == MarkAt(e, d, i)
             a == Added(r, toEmp, toDay, sh, mark)
  <2>1. Show(a, 0)
    BY <1>2 DEF MoveShift, Cell
  <2>2. Grid.shifts = shifts /\ Grid.attendance = attendance
    BY DEF Grid
  <2>3. i \in DOMAIN shifts[e][d] /\ sh \in Sound /\ sh.id \in 1 .. nextId - 1
    BY <1>2, ListIs DEF Has, Cell
  <2>4. /\ shifts' = a.shifts /\ attendance' = a.attendance
        /\ nextId' = nextId + 0 /\ nextId \in Nat \ {0} /\ nextId' \in 1 .. MaxShifts + 1
    <3> HIDE DEF a
    <3>1. QED
      BY <2>1, Shown DEF Ready
  <2>5. nextId' = nextId
    BY <2>4
  <2>6. /\ Whole(r.shifts, r.attendance, nextId)
        /\ Absent(sh.id, r.shifts)
        /\ \A f \in Emps, x \in Dates : shifts[f][x] = <<>> => r.shifts[f][x] = <<>>
    <3>1. Without(r, Grid, nextId, Grid.shifts[e][d][i].id)
      BY <2>2, <2>3, <2>4, DeletedWhole DEF Ready, Shape
    <3> HIDE DEF r
    <3>2. QED
      BY <2>2, <3>1 DEF Without
  <2>7. mark = Range(attendance) \cap {sh.id}
    BY <2>3, MarkOfShift
  <2> DEFINE from == <<e, d>>
             to == <<toEmp, toDay>>
  <2>8. sh.id \in Held(shifts)[from] /\ from \in Cells /\ to \in Cells
    BY <2>3, CellIs
  <2>9. /\ \A c \in Cells : Held(r.shifts)[c] = Held(shifts)[c] \ {sh.id}
        /\ Range(r.attendance) = Range(attendance) \ {sh.id}
    <3>1. Lost(r, Grid, Grid.shifts[e][d][i].id)
      BY <2>2, <2>3, <2>4, DeletedHolds DEF Ready, Shape
    <3> HIDE DEF r
    <3>2. QED
      BY <2>2, <3>1 DEF Lost
  <2> HIDE DEF r, sh, mark
  <2>10. /\ Whole(a.shifts, a.attendance, nextId)
        /\ \A f \in Emps, x \in Dates : <<f, x>> # <<toEmp, toDay>> => a.shifts[f][x] = r.shifts[f][x]
    <3>1. /\ nextId \in Nat /\ Whole(r.shifts, r.attendance, nextId) /\ sh \in Sound
          /\ sh.id \in 1 .. nextId - 1 /\ Absent(sh.id, r.shifts) /\ mark \subseteq {sh.id}
      BY <2>3, <2>4, <2>6, <2>7
    <3>2. Whole(a.shifts, a.attendance, nextId)
      BY <3>1, AddedWhole
    <3>3. \A f \in Emps, x \in Dates : <<f, x>> # <<toEmp, toDay>> => a.shifts[f][x] = r.shifts[f][x]
      BY <3>1, AddedWhole
    <3>4. QED
      BY <3>2, <3>3
  <2>11. /\ \A c \in Cells :
              Held(a.shifts)[c] = Held(r.shifts)[c] \cup (IF c = to THEN {sh.id} ELSE {})
         /\ Range(a.attendance) = Range(r.attendance) \cup mark
    <3>1. mark \subseteq {sh.id}
      BY <2>7
    <3>2. Gained(a, r, <<toEmp, toDay>>, sh.id, mark)
      BY <2>3, <2>6, <3>1, AddedHolds
    <3>3. QED
      BY <3>2 DEF Gained
  <2> HIDE DEF a, from, to
  <2>12. sh.id \in Held(shifts')[to]
    BY <2>4, <2>8, <2>11
  <2>13. HandsOn({sh.id})
    <3>1. nextId <= nextId'
      BY <2>4, <2>5
    <3>2. \A c \in Cells :
            /\ Held(shifts)[c] \ {sh.id} \subseteq Held(shifts')[c]
            /\ Held(shifts')[c] \subseteq Held(shifts)[c] \cup {sh.id} \cup nextId .. nextId' - 1
      BY <2>4, <2>9, <2>11
    <3>3. \A j \in nextId .. nextId' - 1 : FALSE
      BY <2>4, <2>5
    <3>4. Range(attendance') = Range(attendance)
      BY <2>4, <2>7, <2>9, <2>11
    <3>5. QED
      BY <3>1, <3>2, <3>3, <3>4 DEF HandsOn
  <2>14. Whole(shifts', attendance', nextId') /\ nextId' \in Nat
    BY <2>4, <2>5, <2>10
  <2>15. InBook
    BY <2>8, <2>12, <2>13, <2>14, HandsBooked
  <2>16. QED
    BY <2>4, <2>6, <2>10, <2>14, <2>15 DEF Rewrote
<1>3. QED
  BY <1>1, <1>2

\* Nothing marked, and the shift written is the one in the slot.
LEMMA WriteWhole ==
  ASSUME Ready, NEW e \in Emps, NEW d \in Dates, NEW i \in DOMAIN shifts[e][d], NEW sh \in Sound,
         sh.id = shifts[e][d][i].id, WriteShift(e, d, i, sh)
  PROVE  Rewrote({})
<1> DEFINE list == shifts[e][d]
           less == Written(list, i, sh)
           new == [shifts EXCEPT ![e][d] = less]
<1>1. shifts' = new /\ attendance' = attendance /\ nextId' = nextId
  BY DEF WriteShift
<1>2. list \in Seq(Sound) /\ Len(list) \in Nat /\ DOMAIN list = 1 .. Len(list)
      /\ i \in 1 .. Len(list) /\ list[i].id \in 1 .. nextId - 1
      /\ \A j \in 1 .. Len(list) : list[j] \in Sound
  BY ListIs
<1> HIDE DEF list
<1>3. less = [j \in 1 .. Len(list) |-> IF j = i THEN sh ELSE list[j]]
  <2>1. ~(i > Len(list))
    BY <1>2
  <2>2. QED
    BY <1>2, <2>1 DEF Written
<1> HIDE DEF less
<1>4. /\ less \in Seq(Sound) /\ DOMAIN less = DOMAIN list
      /\ \A j \in DOMAIN list : less[j].id = list[j].id
  <2>1. less \in [1 .. Len(list) -> Sound]
    BY <1>2, <1>3
  <2>2. less \in Seq(Sound)
    BY <1>2, <2>1, SeqDef
  <2>3. QED
    BY <1>2, <1>3, <2>2 DEF list
<1>5. shifts \in Table /\ nextId \in Nat /\ nextId \in 1 .. MaxShifts + 1
      /\ Whole(shifts, attendance, nextId)
  BY GridAssumption DEF Ready, Whole, Shape
<1>6. /\ new \in Table
      /\ \A f \in Emps, x \in Dates :
           /\ DOMAIN new[f][x] = DOMAIN shifts[f][x]
           /\ \A j \in DOMAIN shifts[f][x] : new[f][x][j].id = shifts[f][x][j].id
           /\ shifts[f][x] = <<>> => new[f][x] = <<>>
  <2>1. /\ new \in Table /\ new[e][d] = less
        /\ \A f \in Emps, x \in Dates : <<f, x>> # <<e, d>> => new[f][x] = shifts[f][x]
    BY <1>4, <1>5 DEF Table
  <2>2. list # <<>>
    BY <1>2
  <2> HIDE DEF new
  <2>3. QED
    BY <1>4, <2>1, <2>2 DEF list
<1> HIDE DEF new
<1>7. Extended(new, shifts, nextId)
  BY <1>6 DEF Extended
<1>8. Carried(attendance, new, attendance)
  BY <1>5 DEF Carried, Whole, Attached
<1>9. Whole(new, attendance, nextId)
  <2>1. nextId <= nextId
    BY <1>5
  <2>2. QED
    BY <1>5, <1>6, <1>7, <1>8, <2>1, ExtendedWhole
<1>10. \A c \in Cells : Held(new)[c] = Held(shifts)[c]
  <2> SUFFICES ASSUME NEW c \in Cells PROVE Held(new)[c] = Held(shifts)[c]
    OBVIOUS
  <2>1. c[1] \in Emps /\ c[2] \in Dates
    BY CellsAre
  <2>2. DOMAIN new[c[1]][c[2]] = DOMAIN shifts[c[1]][c[2]]
        /\ \A j \in DOMAIN shifts[c[1]][c[2]] : new[c[1]][c[2]][j].id = shifts[c[1]][c[2]][j].id
    BY <1>6, <2>1
  <2>3. QED
    BY <2>2 DEF Held
<1>11. Whole(shifts', attendance', nextId') /\ nextId' \in Nat
  BY <1>1, <1>5, <1>9
<1>12. HandsOn({})
  BY <1>1, <1>5, <1>10 DEF HandsOn
<1>13. InBook
  BY <1>11, <1>12, MakesBooked
<1>14. QED
  BY <1>1, <1>5, <1>6, <1>9, <1>13 DEF Rewrote

\* A shift marked in its slot.
LEMMA SetWhole ==
  ASSUME Ready, NEW e \in Emps, NEW d \in Dates, NEW i \in DOMAIN shifts[e][d],
         SetAttendance(e, d, i, shifts[e][d][i].id)
  PROVE  Rewrote({})
<1> DEFINE id == shifts[e][d][i].id
           slot == <<e, d, i>>
           marks == Marked(attendance, slot, {id})
<1>1. shifts' = shifts /\ attendance' = marks /\ nextId' = nextId
  BY DEF SetAttendance
<1>2. shifts \in Table /\ nextId \in Nat /\ nextId \in 1 .. MaxShifts + 1
      /\ Whole(shifts, attendance, nextId)
  BY GridAssumption DEF Ready, Whole, Shape
<1>3. ASSUME NEW s \in DOMAIN marks
      PROVE  \/ s \in DOMAIN attendance /\ marks[s] = attendance[s]
             \/ s = slot /\ marks[s] = id
  <2>1. \/ s \in DOMAIN attendance /\ marks[s] = attendance[s]
        \/ s = slot /\ marks[s] \in {id}
    BY MarkedIs
  <2> HIDE DEF marks
  <2>2. QED
    BY <2>1
<1>4. i \in Nat
  BY ListIs
<1> HIDE DEF marks
<1>5. Carried(marks, shifts, attendance)
  <2>1. slot \in Emps \X Dates \X Nat /\ DOMAIN attendance \subseteq Emps \X Dates \X Nat
    BY <1>2, <1>4 DEF Whole, Attached
  <2>2. slot[3] \in DOMAIN shifts[slot[1]][slot[2]] /\ shifts[slot[1]][slot[2]][slot[3]].id = id
    OBVIOUS
  <2> HIDE DEF slot, id
  <2>3. QED
    BY <1>3, <2>1, <2>2 DEF Carried
<1>6. Extended(shifts, shifts, nextId)
  BY DEF Extended
<1>7. nextId <= nextId
  BY <1>2
<1>8. Whole(shifts, marks, nextId)
  BY <1>2, <1>5, <1>6, <1>7, ExtendedWhole
<1>9. Range(attendance') = Range(attendance) \cup {id}
  <2>1. slot \in DOMAIN attendance => {id} \subseteq {attendance[slot]}
    BY <1>2 DEF Whole, Attached
  <2>2. \A a, b \in {id} : a = b
    OBVIOUS
  <2> HIDE DEF slot, id
  <2>3. QED
    BY <1>1, <2>1, <2>2, MarkedHolds DEF marks
<1>10. <<id, <<e, d>>>> \in PlaceOf(Held(shifts)) /\ <<id, <<e, d>>>>[1] = id
  <2>1. id \in Nat
    BY <1>2, ListIs
  <2>2. id \in Held(shifts)[<<e, d>>] /\ <<e, d>> \in Cells
    BY CellIs
  <2> HIDE DEF id
  <2>3. QED
    BY <2>1, <2>2 DEF PlaceOf
<1>11. InBook
  BY <1>1, <1>9, <1>10 DEF InBook, Booked
<1>12. QED
  BY <1>1, <1>2, <1>8, <1>11 DEF Rewrote

LEMMA UnmarkWhole ==
  ASSUME Ready, NEW e \in Emps, NEW d \in Dates, NEW i, ClearAttendance(e, d, i)
  PROVE  Rewrote({})
<1> DEFINE S == DOMAIN attendance \ {<<e, d, i>>}
<1>1. shifts' = shifts /\ attendance' = Restrict(attendance, S) /\ nextId' = nextId
  BY DEF ClearAttendance
<1>2. shifts \in Table /\ nextId \in Nat /\ nextId \in 1 .. MaxShifts + 1
      /\ Whole(shifts, attendance, nextId)
  BY GridAssumption DEF Ready, Whole, Shape
<1>3. S \subseteq DOMAIN attendance
  OBVIOUS
<1> DEFINE slot == <<e, d, i>>
<1>4. Range(attendance') = {attendance[s] : s \in S}
  BY <1>1 DEF Range, Restrict
<1>5. CASE slot \notin DOMAIN attendance
  <2>1. Range(attendance') = Range(attendance)
    BY <1>4, <1>5 DEF Range
  <2>2. HandsOn({})
    BY <1>1, <1>2, <2>1 DEF HandsOn
  <2> HIDE DEF S
  <2>3. Whole(shifts, Restrict(attendance, S), nextId)
    BY <1>2, <1>3, EmptiedWhole
  <2>4. Whole(shifts', attendance', nextId') /\ nextId' \in Nat
    BY <1>1, <1>2, <2>3
  <2>5. InBook
    BY <2>2, <2>4, MakesBooked
  <2>6. QED
    BY <1>1, <1>2, <2>3, <2>5 DEF Rewrote
<1>6. CASE slot \in DOMAIN attendance
  <2> DEFINE k == attendance[slot]
  <2>1. \A s \in DOMAIN attendance :
          /\ s[1] \in Emps /\ s[2] \in Dates /\ s = <<s[1], s[2], s[3]>>
          /\ s[3] \in DOMAIN shifts[s[1]][s[2]] /\ attendance[s] = shifts[s[1]][s[2]][s[3]].id
    BY <1>2 DEF Whole, Attached
  <2>2. Once(shifts)
    BY <1>2 DEF Whole
  <2>3. ASSUME NEW s \in DOMAIN attendance, attendance[s] = k
        PROVE  s = slot
    <3>1. slot[1] = e /\ slot[2] = d /\ slot[3] = i
      OBVIOUS
    <3> HIDE DEF slot
    <3>2. shifts[s[1]][s[2]][s[3]].id = shifts[slot[1]][slot[2]][slot[3]].id
      BY <1>6, <2>1, <2>3
    <3>3. s[1] = slot[1] /\ s[2] = slot[2] /\ s[3] = slot[3]
      BY <1>6, <2>1, <2>2, <3>2 DEF Once
    <3>4. s = <<slot[1], slot[2], slot[3]>> /\ slot = <<slot[1], slot[2], slot[3]>>
      BY <1>6, <2>1, <3>3
    <3>5. QED
      BY <3>4
  <2>4. Range(attendance') = Range(attendance) \ {k} /\ k \in Range(attendance)
    BY <1>4, <1>6, <2>3 DEF Range
  <2>5. InBook
    BY <1>1, <2>4 DEF InBook, Booked
  <2> HIDE DEF S
  <2>6. Whole(shifts, Restrict(attendance, S), nextId)
    BY <1>2, <1>3, EmptiedWhole
  <2>7. QED
    BY <1>1, <1>2, <2>5, <2>6 DEF Rewrote
<1>7. QED
  BY <1>5, <1>6

-----------------------------------------------------------------------------
(* The reducers that make shifts.                                          *)

\* Shifts are made, and nobody loses one.
LEMMA GrowsBooked ==
  ASSUME Ready, Whole(shifts', attendance', nextId'), nextId' \in Nat, nextId <= nextId',
         attendance' = attendance, NEW new, shifts' = new,
         \A e \in Emps, d \in Dates :
           /\ DOMAIN shifts[e][d] \subseteq DOMAIN new[e][d]
           /\ \A i \in DOMAIN shifts[e][d] : new[e][d][i] = shifts[e][d][i]
           /\ \A i \in DOMAIN new[e][d] \ DOMAIN shifts[e][d] :
                new[e][d][i].id \in nextId .. nextId' - 1,
         \A k \in nextId .. nextId' - 1 : \E e \in Emps, d \in Dates : \E i \in DOMAIN new[e][d] :
           new[e][d][i].id = k
  PROVE  InBook
<1>1. ASSUME NEW c \in Cells
      PROVE  /\ Held(shifts)[c] \subseteq Held(new)[c]
             /\ Held(new)[c] \subseteq Held(shifts)[c] \cup nextId .. nextId' - 1
  <2> DEFINE old == shifts[c[1]][c[2]]
             list == new[c[1]][c[2]]
             made == nextId .. nextId' - 1
  <2>1. c[1] \in Emps /\ c[2] \in Dates
    BY CellsAre
  <2>2. /\ DOMAIN old \subseteq DOMAIN list /\ \A i \in DOMAIN old : list[i] = old[i]
        /\ \A i \in DOMAIN list \ DOMAIN old : list[i].id \in made
    BY <2>1
  <2>3. /\ Held(shifts)[c] = {old[i].id : i \in DOMAIN old}
        /\ Held(new)[c] = {list[i].id : i \in DOMAIN list}
    BY DEF Held
  <2> HIDE DEF old, list, made
  <2>4. \A a \in Held(shifts)[c] : a \in Held(new)[c]
    BY <2>2, <2>3
  <2>5. \A a \in Held(new)[c] : a \in Held(shifts)[c] \cup made
    BY <2>2, <2>3
  <2>6. QED
    BY <2>4, <2>5 DEF made
<1>2. ASSUME NEW k \in nextId .. nextId' - 1
      PROVE  \E c \in Cells : k \in Held(new)[c]
  <2>1. PICK e \in Emps, d \in Dates : \E i \in DOMAIN new[e][d] : new[e][d][i].id = k
    OBVIOUS
  <2>2. k \in Held(new)[<<e, d>>] /\ <<e, d>> \in Cells
    BY <2>1, CellIs
  <2>3. QED
    BY <2>2
<1>3. HandsOn({})
  BY <1>1, <1>2 DEF HandsOn
<1>4. QED
  BY <1>3, MakesBooked

LEMMA CopyIsSound ==
  ASSUME NEW s \in Sound, NEW k \in 0 .. MaxShifts
  PROVE  /\ [id |-> k, adj |-> s.adj] \in Sound
         /\ [id |-> k, adj |-> s.adj].id = k
BY DEF Sound, Shifts

LEMMA HoleIsSound == Hole \in Sound
BY GridAssumption DEF Sound, Shifts, Hole, Adjustments

\* A day's list is within the bound.
LEMMA LenBound ==
  ASSUME Ready, NEW e \in Emps, NEW d \in Dates
  PROVE  Len(shifts[e][d]) \in 0 .. MaxShifts
<1>1. nextId \in Nat \ {0} /\ nextId \in 1 .. MaxShifts + 1 /\ Whole(shifts, attendance, nextId)
  BY GridAssumption DEF Ready, Shape
<1>2. {} \in SUBSET (1 .. nextId - 1) /\ Cardinality({}) = 0
  BY FS_EmptySet
<1>3. Len(shifts[e][d]) \in Nat /\ Len(shifts[e][d]) + Cardinality({}) <= nextId - 1
  BY <1>1, <1>2, Short
<1>4. QED
  BY <1>1, <1>2, <1>3, GridAssumption

LEMMA CellsFinite == IsFiniteSet(Emps \X Dates)
<1>1. IsFiniteSet(Emps) /\ LastDate \in Nat
  BY GridAssumption
<1>2. IsFiniteSet(Dates)
  BY <1>1, FS_Interval DEF Dates
<1>3. QED
  BY <1>1, <1>2, FS_Product

LEMMA CopyWhole ==
  ASSUME Ready, NEW c, c.emp \in Emps, c.day \in Dates,
         NEW emps \in SUBSET Emps, NEW dates \in SUBSET Dates, CopyShift(c, emps, dates)
  PROVE  Rewrote(IF emps = {} THEN {c.emp} ELSE emps)
<1> DEFINE rows == IF emps = {} THEN {c.emp} ELSE emps
           to == {x \in rows \X ((IF dates = {} THEN {c.day} ELSE dates) \cap days) :
                    x # <<c.emp, c.day>>}
           id == NewIds(to)
           sh == Cell(c.emp, c.day)[c.idx]
           copy(e, d) == [id |-> id[<<e, d>>], adj |-> sh.adj]
           new == [e \in Emps |-> [d \in Dates |->
                     IF <<e, d>> \in to THEN Append(shifts[e][d], copy(e, d)) ELSE shifts[e][d]]]
           n == Cardinality(to)
           g == [shifts |-> new, attendance |-> attendance]
<1>1. CASE ~Has(c.emp, c.day, c.idx)
  BY <1>1, Same DEF CopyShift
<1>2. CASE Has(c.emp, c.day, c.idx)
  <2>1. Show(g, n) /\ g.shifts = new /\ g.attendance = attendance
    BY <1>2 DEF CopyShift, Cell
  <2>2. rows \subseteq Emps /\ to \subseteq Emps \X Dates
        /\ \A e \in Emps, d \in Dates : <<e, d>> \in to => e \in rows
    BY DEF Ready, Shape
  <2>3. IsFiniteSet(to)
    BY <2>2, CellsFinite, FS_Subset
  <2>4. nextId \in Nat \ {0} /\ Whole(shifts, attendance, nextId) /\ shifts \in Table
    BY GridAssumption DEF Ready, Shape, Whole
  <2> HIDE DEF to, g, rows
  <2>5. /\ n \in Nat /\ id \in [to -> nextId .. nextId + n - 1]
        /\ \A x, y \in to : id[x] = id[y] => x = y
        /\ \A k \in nextId .. nextId + n - 1 : \E x \in to : id[x] = k
    BY <2>3, <2>4, IdsAreNew
  <2> HIDE DEF n, id
  <2>6. /\ shifts' = g.shifts /\ attendance' = g.attendance
        /\ nextId' = nextId + n /\ nextId' \in 1 .. MaxShifts + 1
    BY <2>1, <2>5, Shown DEF Ready
  <2>7. MaxShifts \in Nat
    BY GridAssumption
  <2>8. sh \in Sound
    BY <1>2, ListIs DEF Has, Cell
  <2> HIDE DEF sh
  <2>9. \A x \in to : id[x] \in nextId .. nextId + n - 1 /\ id[x] \in 0 .. MaxShifts
                      /\ id[x] \in 1 .. nextId' - 1
    BY <2>4, <2>5, <2>6, <2>7
  <2>10. \A e \in Emps, d \in Dates :
           <<e, d>> \in to => copy(e, d) \in Sound /\ copy(e, d).id = id[<<e, d>>]
    BY <2>8, <2>9, CopyIsSound
  <2> HIDE DEF copy
  <2>11. ASSUME NEW e \in Emps, NEW d \in Dates
         PROVE  /\ new[e][d] \in Seq(Sound)
                /\ DOMAIN shifts[e][d] \subseteq DOMAIN new[e][d]
                /\ \A i \in DOMAIN shifts[e][d] :
                     /\ new[e][d][i] = shifts[e][d][i]
                     /\ shifts[e][d][i].id \in 1 .. nextId - 1
                /\ \A i \in DOMAIN new[e][d] \ DOMAIN shifts[e][d] :
                     /\ <<e, d>> \in to /\ i = Len(shifts[e][d]) + 1
                     /\ new[e][d][i].id = id[<<e, d>>]
                /\ <<e, d>> \in to =>
                     /\ Len(shifts[e][d]) + 1 \in DOMAIN new[e][d]
                     /\ new[e][d][Len(shifts[e][d]) + 1].id = id[<<e, d>>]
                /\ <<e, d>> \notin to => new[e][d] = shifts[e][d]
    <3> DEFINE list == shifts[e][d]
    <3>1. list \in Seq(Sound) /\ \A i \in DOMAIN list : list[i].id \in 1 .. nextId - 1
      BY ListIs
    <3>2. CASE <<e, d>> \notin to
      <4>1. new[e][d] = list
        BY <3>2
      <4>2. QED
        BY <3>1, <3>2, <4>1
    <3>3. CASE <<e, d>> \in to
      <4>1. new[e][d] = Append(list, copy(e, d)) /\ copy(e, d) \in Sound
        BY <2>10, <3>3
      <4> HIDE DEF list, new
      <4>2. /\ DOMAIN new[e][d] = DOMAIN list \cup {Len(list) + 1} /\ Len(list) + 1 \notin DOMAIN list
            /\ new[e][d][Len(list) + 1] = copy(e, d)
            /\ \A j \in DOMAIN list : new[e][d][j] = list[j]
        BY <3>1, <4>1, Appended
      <4>3. new[e][d] \in Seq(Sound)
        BY <3>1, <4>1
      <4>4. copy(e, d).id = id[<<e, d>>]
        BY <2>10, <3>3
      <4>5. QED
        BY <3>1, <3>3, <4>2, <4>3, <4>4 DEF list
    <3>4. QED
      BY <3>2, <3>3
  <2>12. new \in Table
    BY <2>11 DEF Table
  <2> HIDE DEF new
  <2>13. Extended(new, shifts, nextId')
    <3>1. ASSUME NEW e \in Emps, NEW d \in Dates, NEW i \in DOMAIN new[e][d] \ DOMAIN shifts[e][d]
          PROVE  /\ new[e][d][i].id \in 1 .. nextId' - 1
                 /\ new[e][d][i].id \in nextId .. nextId + n - 1
                 /\ Absent(new[e][d][i].id, shifts)
      <4>1. <<e, d>> \in to /\ new[e][d][i].id = id[<<e, d>>]
        BY <2>11
      <4>2. id[<<e, d>>] \in nextId .. nextId + n - 1 /\ id[<<e, d>>] \in 1 .. nextId' - 1
        BY <2>9, <4>1
      <4>3. \A k \in 1 .. nextId - 1 : k # id[<<e, d>>]
        BY <2>4, <2>5, <4>2
      <4>4. QED
        BY <2>11, <4>1, <4>2, <4>3 DEF Absent
    <3>2. ASSUME NEW e \in Emps, NEW f \in Emps, NEW d \in Dates, NEW x \in Dates,
                 NEW i \in DOMAIN new[e][d] \ DOMAIN shifts[e][d],
                 NEW j \in DOMAIN new[f][x] \ DOMAIN shifts[f][x],
                 new[e][d][i].id = new[f][x][j].id
          PROVE  e = f /\ d = x /\ i = j
      <4>1. /\ <<e, d>> \in to /\ new[e][d][i].id = id[<<e, d>>] /\ i = Len(shifts[e][d]) + 1
            /\ <<f, x>> \in to /\ new[f][x][j].id = id[<<f, x>>] /\ j = Len(shifts[f][x]) + 1
        BY <2>11
      <4>2. <<e, d>> = <<f, x>>
        BY <2>5, <3>2, <4>1
      <4>3. QED
        BY <4>1, <4>2
    <3>3. \A e \in Emps, d \in Dates :
            /\ DOMAIN shifts[e][d] \subseteq DOMAIN new[e][d]
            /\ \A i \in DOMAIN shifts[e][d] : new[e][d][i].id = shifts[e][d][i].id
            /\ \A i \in DOMAIN new[e][d] \ DOMAIN shifts[e][d] :
                 new[e][d][i].id \in 1 .. nextId' - 1 /\ Absent(new[e][d][i].id, shifts)
      BY <2>11, <3>1
    <3>4. \A e, f \in Emps, d, x \in Dates :
            \A i \in DOMAIN new[e][d] \ DOMAIN shifts[e][d],
               j \in DOMAIN new[f][x] \ DOMAIN shifts[f][x] :
              new[e][d][i].id = new[f][x][j].id => e = f /\ d = x /\ i = j
      BY <3>2
    <3>5. QED
      BY <3>3, <3>4 DEF Extended
  <2>14. Carried(attendance, new, attendance)
    BY <2>4 DEF Carried, Whole, Attached
  <2>15. Whole(new, attendance, nextId')
    <3>1. nextId' \in Nat /\ nextId <= nextId'
      BY <2>4, <2>5, <2>6
    <3>2. QED
      BY <2>4, <2>12, <2>13, <2>14, <3>1, ExtendedWhole
  <2>16. \A f \in Emps \ rows, x \in Dates : shifts[f][x] = <<>> => new[f][x] = <<>>
    BY <2>2, <2>11
  <2>17. InBook
    <3>1. nextId' \in Nat /\ nextId <= nextId'
      BY <2>4, <2>5, <2>6
    <3>2. \A k \in nextId .. nextId' - 1 : k \in nextId .. nextId + n - 1
      BY <2>4, <2>5, <2>6
    <3>3. ASSUME NEW k \in nextId .. nextId' - 1
          PROVE  \E e \in Emps, d \in Dates : \E i \in DOMAIN new[e][d] : new[e][d][i].id = k
      <4>1. PICK x \in to : id[x] = k
        BY <2>5, <3>2
      <4>2. x = <<x[1], x[2]>> /\ x[1] \in Emps /\ x[2] \in Dates
        BY <2>2
      <4>3. /\ Len(shifts[x[1]][x[2]]) + 1 \in DOMAIN new[x[1]][x[2]]
            /\ new[x[1]][x[2]][Len(shifts[x[1]][x[2]]) + 1].id = k
        BY <2>11, <4>1, <4>2
      <4>4. QED
        BY <4>2, <4>3
    <3>4. ASSUME NEW e \in Emps, NEW d \in Dates
          PROVE  /\ DOMAIN shifts[e][d] \subseteq DOMAIN new[e][d]
                 /\ \A i \in DOMAIN shifts[e][d] : new[e][d][i] = shifts[e][d][i]
                 /\ \A i \in DOMAIN new[e][d] \ DOMAIN shifts[e][d] :
                      new[e][d][i].id \in nextId .. nextId' - 1
      <4>1. \A i \in DOMAIN new[e][d] \ DOMAIN shifts[e][d] :
              <<e, d>> \in to /\ new[e][d][i].id = id[<<e, d>>]
        BY <2>11
      <4>2. \A x \in to : id[x] \in nextId .. nextId' - 1
        BY <2>6, <2>9
      <4>3. QED
        BY <2>11, <4>1, <4>2
    <3>5. shifts' = new /\ attendance' = attendance /\ Whole(shifts', attendance', nextId')
      BY <2>1, <2>6, <2>15
    <3>6. QED
      BY <3>1, <3>3, <3>4, <3>5, GrowsBooked
  <2>18. QED
    BY <2>1, <2>6, <2>15, <2>16, <2>17 DEF Rewrote, rows
<1>3. QED
  BY <1>1, <1>2

LEMMA CopyAllWhole ==
  ASSUME Ready, NEW from \in Emps, NEW to \in Emps, CopyAll(from, to)
  PROVE  Rewrote({to})
<1> DEFINE source == UNION {{d} \X DOMAIN Cell(from, d) : d \in Dates}
           id == NewIds(source)
           copy(d, i) == [id |-> id[<<d, i>>], adj |-> Cell(from, d)[i].adj]
           copies(d) == [i \in DOMAIN Cell(from, d) |-> copy(d, i)]
           row == [d \in Dates |-> shifts[to][d] \o copies(d)]
           new == [shifts EXCEPT ![to] = row]
           n == Cardinality(source)
           g == [shifts |-> new, attendance |-> attendance]
<1>1. Show(g, n) /\ g.shifts = new /\ g.attendance = attendance
  BY DEF CopyAll
<1>2. /\ \A d \in Dates : \A i \in DOMAIN shifts[from][d] : <<d, i>> \in source
      /\ \A x \in source : x = <<x[1], x[2]>> /\ x[1] \in Dates /\ x[2] \in DOMAIN shifts[from][x[1]]
  BY DEF Cell
<1>3. IsFiniteSet(source)
  <2>1. source \subseteq Dates \X (1 .. MaxShifts)
    <3>1. \A d \in Dates : DOMAIN shifts[from][d] \subseteq 1 .. MaxShifts
      BY LenBound, ListIs, GridAssumption
    <3>2. QED
      BY <3>1 DEF Cell
  <2>2. IsFiniteSet(Dates) /\ IsFiniteSet(1 .. MaxShifts)
    BY GridAssumption, FS_Interval DEF Dates
  <2>3. IsFiniteSet(Dates \X (1 .. MaxShifts))
    BY <2>2, FS_Product
  <2> HIDE DEF source
  <2>4. QED
    BY <2>1, <2>3, FS_Subset
<1>4. nextId \in Nat \ {0} /\ Whole(shifts, attendance, nextId) /\ shifts \in Table
  BY GridAssumption DEF Ready, Shape, Whole
<1> HIDE DEF source, g
<1>5. /\ n \in Nat /\ id \in [source -> nextId .. nextId + n - 1]
      /\ \A x, y \in source : id[x] = id[y] => x = y
      /\ \A k \in nextId .. nextId + n - 1 : \E x \in source : id[x] = k
  BY <1>3, <1>4, IdsAreNew
<1> HIDE DEF n, id
<1>6. /\ shifts' = g.shifts /\ attendance' = g.attendance
      /\ nextId' = nextId + n /\ nextId' \in 1 .. MaxShifts + 1
  BY <1>1, <1>5, Shown DEF Ready
<1>7. MaxShifts \in Nat
  BY GridAssumption
<1>8. \A x \in source : id[x] \in nextId .. nextId + n - 1 /\ id[x] \in 0 .. MaxShifts
                        /\ id[x] \in 1 .. nextId' - 1
  BY <1>4, <1>5, <1>6, <1>7
<1>9. ASSUME NEW d \in Dates, NEW i \in DOMAIN shifts[from][d]
      PROVE  copy(d, i) \in Sound /\ copy(d, i).id = id[<<d, i>>]
  <2>1. shifts[from][d][i] \in Sound
    BY ListIs
  <2>2. id[<<d, i>>] \in 0 .. MaxShifts
    BY <1>2, <1>8
  <2>3. QED
    BY <2>1, <2>2, CopyIsSound DEF Cell
<1> HIDE DEF copy
<1>10. ASSUME NEW d \in Dates
       PROVE  /\ copies(d) \in Seq(Sound) /\ Len(copies(d)) = Len(shifts[from][d])
              /\ \A i \in DOMAIN shifts[from][d] : copies(d)[i] = copy(d, i)
  <2>1. Len(shifts[from][d]) \in Nat /\ DOMAIN shifts[from][d] = 1 .. Len(shifts[from][d])
    BY ListIs
  <2>2. copies(d) = [i \in 1 .. Len(shifts[from][d]) |-> copy(d, i)]
    BY <2>1 DEF Cell
  <2> HIDE DEF copies
  <2>3. copies(d) \in [1 .. Len(shifts[from][d]) -> Sound]
    BY <1>9, <2>1, <2>2
  <2>4. copies(d) \in Seq(Sound)
    BY <2>1, <2>3, SeqDef
  <2>5. Len(copies(d)) = Len(shifts[from][d])
    BY <2>1, <2>2, <2>4, LenProperties
  <2>6. QED
    BY <2>1, <2>2, <2>4, <2>5
<1> HIDE DEF copies
<1>11. \A e \in Emps, d \in Dates :
         new[e][d] = IF e = to THEN shifts[to][d] \o copies(d) ELSE shifts[e][d]
  <2>1. \A e \in Emps : new[e] = IF e = to THEN row ELSE shifts[e]
    BY <1>4 DEF Table
  <2>2. \A d \in Dates : row[d] = shifts[to][d] \o copies(d)
    OBVIOUS
  <2> HIDE DEF new, row
  <2>3. QED
    BY <2>1, <2>2
<1>12. ASSUME NEW e \in Emps, NEW d \in Dates
       PROVE  /\ new[e][d] \in Seq(Sound)
              /\ DOMAIN shifts[e][d] \subseteq DOMAIN new[e][d]
              /\ \A i \in DOMAIN shifts[e][d] :
                   /\ new[e][d][i] = shifts[e][d][i]
                   /\ shifts[e][d][i].id \in 1 .. nextId - 1
              /\ \A i \in DOMAIN new[e][d] \ DOMAIN shifts[e][d] :
                   /\ e = to
                   /\ \E k \in DOMAIN shifts[from][d] :
                        i = Len(shifts[to][d]) + k /\ new[e][d][i].id = id[<<d, k>>]
              /\ e = to => \A k \in DOMAIN shifts[from][d] :
                   \E i \in DOMAIN new[e][d] : new[e][d][i].id = id[<<d, k>>]
              /\ e # to => new[e][d] = shifts[e][d]
  <2> HIDE DEF new
  <2> DEFINE list == shifts[e][d]
  <2>1. /\ list \in Seq(Sound) /\ Len(list) \in Nat /\ DOMAIN list = 1 .. Len(list)
        /\ \A i \in DOMAIN list : list[i].id \in 1 .. nextId - 1
    BY ListIs
  <2>2. CASE e # to
    <3>1. new[e][d] = list
      BY <1>11, <2>2
    <3>2. QED
      BY <2>1, <2>2, <3>1
  <2>3. CASE e = to
    <3> DEFINE more == copies(d)
               k == Len(shifts[from][d])
    <3>1. new[e][d] = list \o more
      BY <1>11, <2>3
    <3>2. more \in Seq(Sound) /\ Len(more) = k /\ k \in Nat
          /\ DOMAIN shifts[from][d] = 1 .. k
          /\ \A i \in 1 .. k : more[i] = copy(d, i)
      BY <1>10, ListIs
    <3> HIDE DEF list, more, k
    <3>3. /\ list \o more \in Seq(Sound)
          /\ Len(list \o more) = Len(list) + Len(more)
          /\ \A i \in 1 .. Len(list) + Len(more) :
               (list \o more)[i] = IF i <= Len(list) THEN list[i] ELSE more[i - Len(list)]
      BY <2>1, <3>2, ConcatProperties
    <3>4. DOMAIN (list \o more) = 1 .. Len(list) + k
      BY <3>2, <3>3, LenProperties
    <3>5. ASSUME NEW i \in 1 .. Len(list) PROVE (list \o more)[i] = list[i]
      <4>1. i \in 1 .. Len(list) + Len(more) /\ i <= Len(list)
        BY <2>1, <3>2
      <4>2. QED
        BY <3>3, <4>1
    <3>6. ASSUME NEW i \in (1 .. Len(list) + k) \ (1 .. Len(list))
          PROVE  \E j \in 1 .. k : i = Len(list) + j /\ (list \o more)[i].id = id[<<d, j>>]
      <4>1. i \in Nat /\ i - Len(list) \in 1 .. k /\ ~(i <= Len(list))
            /\ i \in 1 .. Len(list) + Len(more) /\ i = Len(list) + (i - Len(list))
        BY <2>1, <3>2
      <4>2. (list \o more)[i] = more[i - Len(list)]
        BY <3>3, <4>1
      <4>3. more[i - Len(list)] = copy(d, i - Len(list))
        BY <3>2, <4>1
      <4>4. copy(d, i - Len(list)).id = id[<<d, i - Len(list)>>]
        BY <1>9, <3>2, <4>1
      <4>5. QED
        BY <4>1, <4>2, <4>3, <4>4
    <3>7. DOMAIN list \subseteq DOMAIN (list \o more)
      BY <2>1, <3>2, <3>4
    <3>8. ASSUME NEW i \in DOMAIN new[e][d] \ DOMAIN list
          PROVE  \E j \in DOMAIN shifts[from][d] :
                   i = Len(list) + j /\ new[e][d][i].id = id[<<d, j>>]
      <4>1. i \in (1 .. Len(list) + k) \ (1 .. Len(list))
        BY <2>1, <3>1, <3>4
      <4>2. QED
        BY <3>1, <3>2, <3>6, <4>1
    <3>9. /\ new[e][d] \in Seq(Sound) /\ DOMAIN list \subseteq DOMAIN new[e][d]
          /\ \A i \in DOMAIN list : new[e][d][i] = list[i]
      BY <2>1, <3>1, <3>3, <3>5, <3>7
    <3>10. ASSUME NEW j \in DOMAIN shifts[from][d]
           PROVE  \E i \in DOMAIN new[e][d] : new[e][d][i].id = id[<<d, j>>]
      <4> DEFINE i == Len(list) + j
      <4>1. j \in 1 .. k /\ i \in 1 .. Len(list) + Len(more) /\ ~(i <= Len(list))
            /\ i - Len(list) = j /\ i \in 1 .. Len(list) + k
        BY <2>1, <3>2
      <4> HIDE DEF i
      <4>2. (list \o more)[i] = more[j]
        BY <3>3, <4>1
      <4>3. more[j] = copy(d, j) /\ copy(d, j).id = id[<<d, j>>]
        BY <1>9, <3>2, <4>1
      <4>4. QED
        BY <3>1, <3>4, <4>1, <4>2, <4>3
    <3>11. QED
      BY <2>1, <2>3, <3>8, <3>9, <3>10 DEF list
  <2>4. QED
    BY <2>2, <2>3
<1>13. ASSUME NEW e \in Emps, NEW d \in Dates, NEW i \in DOMAIN new[e][d] \ DOMAIN shifts[e][d]
       PROVE  /\ e = to
              /\ \E k \in DOMAIN shifts[from][d] :
                   /\ i = Len(shifts[to][d]) + k
                   /\ <<d, k>> \in source /\ new[e][d][i].id = id[<<d, k>>]
  <2> HIDE DEF new
  <2>1. e = to
    BY <1>12
  <2>2. PICK k \in DOMAIN shifts[from][d] :
          i = Len(shifts[to][d]) + k /\ new[e][d][i].id = id[<<d, k>>]
    BY <1>12
  <2>3. <<d, k>> \in source
    BY <1>2
  <2>4. QED
    BY <2>1, <2>2, <2>3
<1>14. new \in Table
  <2>1. row \in [Dates -> Seq(Sound)]
    <3>1. \A d \in Dates : row[d] = new[to][d]
      BY <1>11
    <3>2. \A d \in Dates : row[d] \in Seq(Sound)
      BY <1>12, <3>1
    <3>3. QED
      BY <3>2
  <2> HIDE DEF row
  <2>2. QED
    BY <1>4, <2>1 DEF Table
<1> HIDE DEF new
<1>15. Extended(new, shifts, nextId')
  <2>1. ASSUME NEW e \in Emps, NEW d \in Dates, NEW i \in DOMAIN new[e][d] \ DOMAIN shifts[e][d]
        PROVE  /\ new[e][d][i].id \in 1 .. nextId' - 1
               /\ Absent(new[e][d][i].id, shifts)
    <3>1. PICK p \in source : new[e][d][i].id = id[p]
      BY <1>13
    <3>2. id[p] \in nextId .. nextId + n - 1 /\ id[p] \in 1 .. nextId' - 1
      BY <1>8, <3>1
    <3>3. \A k \in 1 .. nextId - 1 : k # id[p]
      BY <1>4, <1>5, <3>2
    <3>4. QED
      BY <1>12, <3>1, <3>2, <3>3 DEF Absent
  <2>2. ASSUME NEW e \in Emps, NEW f \in Emps, NEW d \in Dates, NEW x \in Dates,
               NEW i \in DOMAIN new[e][d] \ DOMAIN shifts[e][d],
               NEW j \in DOMAIN new[f][x] \ DOMAIN shifts[f][x],
               new[e][d][i].id = new[f][x][j].id
        PROVE  e = f /\ d = x /\ i = j
    <3>1. PICK k \in DOMAIN shifts[from][d] :
            i = Len(shifts[to][d]) + k /\ <<d, k>> \in source /\ new[e][d][i].id = id[<<d, k>>]
      BY <1>13
    <3>2. PICK l \in DOMAIN shifts[from][x] :
            j = Len(shifts[to][x]) + l /\ <<x, l>> \in source /\ new[f][x][j].id = id[<<x, l>>]
      BY <1>13
    <3>3. e = to /\ f = to
      BY <1>13
    <3>4. <<d, k>> = <<x, l>>
      BY <1>5, <2>2, <3>1, <3>2
    <3>5. QED
      BY <3>1, <3>2, <3>3, <3>4
  <2>3. \A e \in Emps, d \in Dates :
          /\ DOMAIN shifts[e][d] \subseteq DOMAIN new[e][d]
          /\ \A i \in DOMAIN shifts[e][d] : new[e][d][i].id = shifts[e][d][i].id
          /\ \A i \in DOMAIN new[e][d] \ DOMAIN shifts[e][d] :
               new[e][d][i].id \in 1 .. nextId' - 1 /\ Absent(new[e][d][i].id, shifts)
    BY <1>12, <2>1
  <2>4. \A e, f \in Emps, d, x \in Dates :
          \A i \in DOMAIN new[e][d] \ DOMAIN shifts[e][d],
             j \in DOMAIN new[f][x] \ DOMAIN shifts[f][x] :
            new[e][d][i].id = new[f][x][j].id => e = f /\ d = x /\ i = j
    BY <2>2
  <2>5. QED
    BY <2>3, <2>4 DEF Extended
<1>16. Carried(attendance, new, attendance)
  BY <1>4 DEF Carried, Whole, Attached
<1>17. Whole(new, attendance, nextId')
  <2>1. nextId' \in Nat /\ nextId <= nextId'
    BY <1>4, <1>5, <1>6
  <2>2. QED
    BY <1>4, <1>14, <1>15, <1>16, <2>1, ExtendedWhole
<1>18. \A f \in Emps \ {to}, x \in Dates : shifts[f][x] = <<>> => new[f][x] = <<>>
  BY <1>12
<1>19. InBook
  <2>1. nextId' \in Nat /\ nextId <= nextId'
    BY <1>4, <1>5, <1>6
  <2>2. \A k \in nextId .. nextId' - 1 : k \in nextId .. nextId + n - 1
    BY <1>4, <1>5, <1>6
  <2>3. ASSUME NEW k \in nextId .. nextId' - 1
        PROVE  \E e \in Emps, d \in Dates : \E i \in DOMAIN new[e][d] : new[e][d][i].id = k
    <3>1. PICK x \in source : id[x] = k
      BY <1>5, <2>2
    <3>2. x = <<x[1], x[2]>> /\ x[1] \in Dates /\ x[2] \in DOMAIN shifts[from][x[1]]
      BY <1>2
    <3>3. PICK i \in DOMAIN new[to][x[1]] : new[to][x[1]][i].id = id[<<x[1], x[2]>>]
      BY <1>12, <3>2
    <3>4. QED
      BY <3>1, <3>2, <3>3
  <2>4. ASSUME NEW e \in Emps, NEW d \in Dates
        PROVE  /\ DOMAIN shifts[e][d] \subseteq DOMAIN new[e][d]
               /\ \A i \in DOMAIN shifts[e][d] : new[e][d][i] = shifts[e][d][i]
               /\ \A i \in DOMAIN new[e][d] \ DOMAIN shifts[e][d] :
                    new[e][d][i].id \in nextId .. nextId' - 1
    <3>1. \A i \in DOMAIN new[e][d] \ DOMAIN shifts[e][d] : \E x \in source : new[e][d][i].id = id[x]
      BY <1>13
    <3>2. \A x \in source : id[x] \in nextId .. nextId' - 1
      BY <1>6, <1>8
    <3>3. QED
      BY <1>12, <3>1, <3>2
  <2>5. shifts' = new /\ attendance' = attendance /\ Whole(shifts', attendance', nextId')
    BY <1>1, <1>6, <1>17
  <2>6. QED
    BY <2>1, <2>3, <2>4, <2>5, GrowsBooked
<1>20. QED
  BY <1>1, <1>6, <1>17, <1>18, <1>19 DEF Rewrote

\* The next grid has its types.
Typed ==
  /\ shifts' \in Table
  /\ DOMAIN attendance' \subseteq Slots
  /\ \A s \in DOMAIN attendance' : attendance'[s] \in 1 .. MaxShifts
  /\ nextId' \in 1 .. MaxShifts + 1

LEMMA RewroteTyped ==
  ASSUME NEW to, Rewrote(to)
  PROVE  Typed
<1> DEFINE sh == shifts'
           att == attendance'
           n == nextId'
<1>1. Whole(sh, att, n) /\ n \in 1 .. MaxShifts + 1 /\ n \in Nat \ {0} /\ MaxShifts \in Nat
  BY GridAssumption DEF Rewrote
<1> HIDE DEF sh, att, n
<1>2. ASSUME NEW e \in Emps, NEW d \in Dates
      PROVE  /\ Len(sh[e][d]) \in 0 .. MaxShifts
             /\ DOMAIN sh[e][d] = 1 .. Len(sh[e][d])
             /\ \A i \in DOMAIN sh[e][d] : i \in 1 .. MaxShifts /\ sh[e][d][i].id \in 1 .. MaxShifts
  <2>1. {} \in SUBSET (1 .. n - 1) /\ Cardinality({}) = 0
    BY FS_EmptySet
  <2>2. Len(sh[e][d]) \in Nat /\ Len(sh[e][d]) + Cardinality({}) <= n - 1
    BY <1>1, <2>1, Short
  <2>3. sh[e][d] \in Seq(Sound)
    BY <1>1 DEF Whole, Table
  <2>4. DOMAIN sh[e][d] = 1 .. Len(sh[e][d])
    BY <2>3, LenProperties
  <2>5. Len(sh[e][d]) \in 0 .. MaxShifts
    BY <1>1, <2>1, <2>2
  <2>6. \A i \in DOMAIN sh[e][d] : sh[e][d][i].id \in 1 .. n - 1
    BY <1>1 DEF Whole, Numbered
  <2>7. \A k \in 1 .. n - 1 : k \in 1 .. MaxShifts
    BY <1>1
  <2>8. QED
    BY <1>1, <2>4, <2>5, <2>6, <2>7
<1>3. ASSUME NEW s \in DOMAIN att
      PROVE  s \in Slots /\ att[s] \in 1 .. MaxShifts
  <2>1. /\ s \in Emps \X Dates \X Nat /\ s[3] \in DOMAIN sh[s[1]][s[2]]
        /\ att[s] = sh[s[1]][s[2]][s[3]].id
    BY <1>1 DEF Whole, Attached
  <2>2. s[3] \in 1 .. MaxShifts /\ att[s] \in 1 .. MaxShifts
    BY <1>2, <2>1
  <2>3. QED
    BY <2>1, <2>2 DEF Slots
<1>4. QED
  BY <1>1, <1>3 DEF Typed, sh, att, n, Whole

\* Whatever is written in whatever slot, the grid keeps its types.
LEMMA WriteTyped ==
  ASSUME Ready, NEW e \in Emps, NEW d \in Dates, NEW i \in 1 .. MaxShifts, NEW sh \in Sound,
         WriteShift(e, d, i, sh)
  PROVE  Typed
<1> DEFINE list == shifts[e][d]
           n == IF i > Len(list) THEN i ELSE Len(list)
           less == Written(list, i, sh)
           new == [shifts EXCEPT ![e][d] = less]
<1>1. shifts' = new /\ attendance' = attendance /\ nextId' = nextId
  BY DEF WriteShift
<1>2. /\ Len(list) \in Nat /\ DOMAIN list = 1 .. Len(list) /\ i \in Nat
      /\ \A j \in DOMAIN list : list[j] \in Sound
  BY ListIs, GridAssumption
<1> HIDE DEF list
<1>3. n \in Nat
  BY <1>2
<1>4. less = [j \in 1 .. n |-> IF j = i THEN sh ELSE IF j \in DOMAIN list THEN list[j] ELSE Hole]
  BY DEF Written
<1> HIDE DEF less, n
<1>5. less \in Seq(Sound)
  <2>1. less \in [1 .. n -> Sound]
    BY <1>2, <1>4, HoleIsSound
  <2>2. QED
    BY <1>3, <2>1, SeqDef
<1>6. new \in Table
  BY <1>5 DEF Ready, Shape, Table
<1>7. QED
  BY <1>1, <1>6 DEF Ready, Shape, Typed

\* A shift assigned: people without a copy before get one, and the first one ticked gets the
\* shift edited, with its mark.  If that shift is not the one meant, the types are kept.
LEMMA Assigned ==
  ASSUME Ready, NEW c, c.emp \in Emps, c.day \in Dates, c.idx \in 0 .. MaxShifts, c.sh \in Sound,
         NEW people \in SUBSET Emps, NEW first \in people, NEW day \in Dates,
         ApplyShiftChange(c, first, people, day)
  PROVE  /\ Typed
         /\ c.idx = 0 \/ Meant(c) => Rewrote(people)
<1> DEFINE edit == c.idx # 0
           keeps == edit /\ Has(c.emp, c.day, c.idx)
           rest == people \ (IF keeps THEN {first} ELSE {})
           id == NewIds(rest)
           made(e) == IF e \in rest THEN [id |-> id[e], adj |-> c.sh.adj] ELSE c.sh
           cleared == IF edit THEN Deleted(Grid, c.emp, c.day, c.idx) ELSE Grid
           kept == IF edit THEN MarkAt(c.emp, c.day, c.idx) ELSE {}
           old == cleared.shifts
           att == cleared.attendance
           orig == shifts[c.emp][c.day][c.idx]
           new == [e \in Emps |-> [d \in Dates |->
                     IF e \in people /\ d = day THEN Append(old[e][d], made(e)) ELSE old[e][d]]]
           slot == <<first, day, EndOf(old[first][day])>>
           marks == Marked(att, slot, kept)
           n == Cardinality(rest)
           g == [shifts |-> new, attendance |-> marks]
<1>1. IF edit /\ people = {c.emp} /\ day = c.day
        THEN IF keeps THEN WriteShift(c.emp, c.day, c.idx, c.sh) ELSE Show(Grid, 0)
        ELSE Show(g, n)
  BY Zenon DEF ApplyShiftChange
<1>2. CASE edit /\ people = {c.emp} /\ day = c.day
  <2>1. CASE ~keeps
    <3>1. Show(Grid, 0)
      BY <1>1, <1>2, <2>1, Zenon
    <3>2. Rewrote(people)
      BY <3>1, Same
    <3>3. QED
      BY <3>2, RewroteTyped
  <2>2. CASE keeps
    <3>1. WriteShift(c.emp, c.day, c.idx, c.sh)
      BY <1>1, <1>2, <2>2, Zenon
    <3>2. c.idx \in DOMAIN shifts[c.emp][c.day]
      BY <2>2, ListIs DEF Has, Cell
    <3>3. Typed
      <4>1. c.idx \in 1 .. MaxShifts
        BY <1>2, GridAssumption
      <4>2. QED
        BY <3>1, <4>1, WriteTyped
    <3>4. ASSUME Meant(c) PROVE Rewrote(people)
      <4>1. c.sh.id = shifts[c.emp][c.day][c.idx].id
        BY <3>4 DEF Meant, Cell
      <4>2. Rewrote({})
        BY <3>1, <3>2, <4>1, WriteWhole
      <4>3. QED
        BY <4>2 DEF Rewrote
    <3>5. QED
      BY <1>2, <3>3, <3>4
  <2>3. QED
    BY <2>1, <2>2
<1>3. CASE ~(edit /\ people = {c.emp} /\ day = c.day)
  <2>1. Show(g, n) /\ g.shifts = new /\ g.attendance = marks
    BY <1>1, <1>3, Zenon
  <2>2. nextId \in Nat \ {0} /\ Whole(shifts, attendance, nextId) /\ MaxShifts \in Nat
    BY GridAssumption DEF Ready, Shape
  <2>3. /\ Whole(old, att, nextId) /\ DOMAIN att \subseteq Slots
        /\ keeps => Absent(orig.id, old)
        /\ \A f \in Emps, x \in Dates : shifts[f][x] = <<>> => old[f][x] = <<>>
    <3>1. Grid.shifts = shifts /\ Grid.attendance = attendance /\ DOMAIN attendance \subseteq Slots
      BY DEF Grid, Ready, Shape
    <3>2. CASE ~edit
      <4>1. old = shifts /\ att = attendance /\ ~keeps
        BY <3>1, <3>2
      <4> HIDE DEF old, att
      <4>2. QED
        BY <2>2, <3>1, <4>1
    <3>3. CASE edit /\ c.idx \notin DOMAIN shifts[c.emp][c.day]
      <4>1. c.idx \notin 1 .. Len(shifts[c.emp][c.day]) /\ ~keeps
        BY <3>3, ListIs DEF Has, Cell
      <4>2. Deleted(Grid, c.emp, c.day, c.idx) = Grid
        BY <3>1, <4>1 DEF Deleted
      <4>3. old = shifts /\ att = attendance
        BY <3>1, <3>3, <4>2
      <4> HIDE DEF old, att
      <4>4. QED
        BY <2>2, <3>1, <4>1, <4>3
    <3>4. CASE edit /\ c.idx \in DOMAIN shifts[c.emp][c.day]
      <4> DEFINE r == Deleted(Grid, c.emp, c.day, c.idx)
      <4>1. Without(r, Grid, nextId, Grid.shifts[c.emp][c.day][c.idx].id)
        BY <2>2, <3>1, <3>4, DeletedWhole
      <4>2. old = r.shifts /\ att = r.attendance
        BY <3>4
      <4> HIDE DEF old, att, r
      <4>3. QED
        BY <3>1, <4>1, <4>2 DEF Without
    <3>5. QED
      BY <3>2, <3>3, <3>4
  <2>4. /\ \A m \in kept : m = orig.id
        /\ kept # {} => keeps /\ orig.id \in 1 .. nextId - 1
    <3>1. /\ kept # {} => edit /\ c.idx \in DOMAIN shifts[c.emp][c.day]
          /\ \A m \in kept : m = orig.id
      BY MarkAtIs
    <3>2. c.idx \in DOMAIN shifts[c.emp][c.day] =>
            Has(c.emp, c.day, c.idx) /\ orig.id \in 1 .. nextId - 1
      BY ListIs DEF Has, Cell
    <3>3. QED
      BY <3>1, <3>2
  <2>5. IsFiniteSet(rest) /\ rest \subseteq people
    BY GridAssumption, FS_Subset
  <2>6. \A e \in people : e \notin rest => keeps /\ e = first
    OBVIOUS
  <2>7. keeps => first \notin rest
    OBVIOUS
  <2>8. keeps /\ Meant(c) => c.sh = orig /\ orig.id \in 1 .. nextId - 1
    BY ListIs DEF Has, Cell, Meant
  <2>9. c.idx = 0 => ~keeps
    OBVIOUS
  <2>10. keeps => /\ \A x \in Cells : Held(old)[x] = Held(shifts)[x] \ {orig.id}
                  /\ Range(att) = Range(attendance) \ {orig.id}
                  /\ kept = Range(attendance) \cap {orig.id}
                  /\ orig.id \in Held(shifts)[<<c.emp, c.day>>] /\ <<c.emp, c.day>> \in Cells
    <3> DEFINE r == Deleted(Grid, c.emp, c.day, c.idx)
    <3> SUFFICES ASSUME keeps
                 PROVE  /\ \A x \in Cells : Held(old)[x] = Held(shifts)[x] \ {orig.id}
                        /\ Range(att) = Range(attendance) \ {orig.id}
                        /\ kept = Range(attendance) \cap {orig.id}
                        /\ orig.id \in Held(shifts)[<<c.emp, c.day>>] /\ <<c.emp, c.day>> \in Cells
      OBVIOUS
    <3>1. /\ Grid.shifts = shifts /\ Grid.attendance = attendance /\ DOMAIN attendance \subseteq Slots
          /\ c.idx \in DOMAIN shifts[c.emp][c.day]
      BY ListIs DEF Grid, Ready, Shape, Has, Cell
    <3>2. Lost(r, Grid, Grid.shifts[c.emp][c.day][c.idx].id)
      BY <2>2, <3>1, DeletedHolds
    <3>3. old = r.shifts /\ att = r.attendance
      OBVIOUS
    <3>4. kept = Range(attendance) \cap {orig.id}
      BY <3>1, MarkOfShift
    <3>5. orig.id \in Held(shifts)[<<c.emp, c.day>>] /\ <<c.emp, c.day>> \in Cells
      BY <3>1, CellIs
    <3> HIDE DEF old, att, r, kept
    <3>6. QED
      BY <3>1, <3>2, <3>3, <3>4, <3>5 DEF Lost
  <2>11. Meant(c) => keeps \/ c.idx = 0
    BY DEF Meant
  <2>12. c.idx = 0 => old = shifts /\ att = attendance /\ kept = {}
    BY DEF Grid
  <2> HIDE DEF keeps, rest, cleared, kept, g, orig
  <2>13. /\ n \in Nat /\ id \in [rest -> nextId .. nextId + n - 1]
         /\ \A x, y \in rest : id[x] = id[y] => x = y
         /\ \A k \in nextId .. nextId + n - 1 : \E x \in rest : id[x] = k
    BY <2>2, <2>5, IdsAreNew
  <2> HIDE DEF n, id
  <2>14. /\ shifts' = g.shifts /\ attendance' = g.attendance
         /\ nextId' = nextId + n /\ nextId' \in 1 .. MaxShifts + 1
    BY <2>1, <2>13, Shown DEF Ready
  <2>15. \A e \in rest : id[e] \in nextId .. nextId + n - 1 /\ id[e] \in 0 .. MaxShifts
                         /\ id[e] \in 1 .. nextId' - 1
    BY <2>2, <2>13, <2>14
  <2>16. \A e \in people : /\ made(e) \in Sound
                           /\ e \in rest => made(e).id = id[e]
                           /\ e \notin rest => made(e) = c.sh
    BY <2>15, CopyIsSound
  <2> HIDE DEF made, old, att
  <2>17. ASSUME NEW e \in Emps, NEW d \in Dates
         PROVE  /\ new[e][d] \in Seq(Sound)
                /\ DOMAIN old[e][d] \subseteq DOMAIN new[e][d]
                /\ \A i \in DOMAIN old[e][d] :
                     new[e][d][i] = old[e][d][i] /\ old[e][d][i].id \in 1 .. nextId - 1
                /\ \A i \in DOMAIN new[e][d] \ DOMAIN old[e][d] :
                     e \in people /\ d = day /\ i = Len(old[e][d]) + 1 /\ new[e][d][i] = made(e)
                /\ ~(e \in people /\ d = day) => new[e][d] = old[e][d]
                /\ e \in people /\ d = day =>
                     /\ Len(old[e][d]) + 1 \in DOMAIN new[e][d]
                     /\ new[e][d][Len(old[e][d]) + 1] = made(e)
    <3> DEFINE list == old[e][d]
    <3>1. list \in Seq(Sound) /\ \A i \in DOMAIN list : list[i].id \in 1 .. nextId - 1
      BY <2>3 DEF Whole, Table, Numbered
    <3>2. CASE ~(e \in people /\ d = day)
      <4>1. new[e][d] = list
        BY <3>2
      <4> HIDE DEF list, new
      <4>2. QED
        BY <3>1, <3>2, <4>1 DEF list
    <3>3. CASE e \in people /\ d = day
      <4>1. new[e][d] = Append(list, made(e)) /\ made(e) \in Sound
        BY <2>16, <3>3
      <4> HIDE DEF list, new
      <4>2. /\ DOMAIN new[e][d] = DOMAIN list \cup {Len(list) + 1} /\ Len(list) + 1 \notin DOMAIN list
            /\ new[e][d][Len(list) + 1] = made(e)
            /\ \A j \in DOMAIN list : new[e][d][j] = list[j]
        BY <3>1, <4>1, Appended
      <4>3. new[e][d] \in Seq(Sound)
        BY <3>1, <4>1
      <4>4. QED
        BY <3>1, <3>3, <4>2, <4>3 DEF list
    <3>4. QED
      BY <3>2, <3>3
  <2>18. new \in Table
    BY <2>17 DEF Table
  <2> HIDE DEF new
  <2>19. ASSUME NEW s \in DOMAIN marks
         PROVE  \/ s \in DOMAIN att /\ marks[s] = att[s]
                \/ s = slot /\ marks[s] \in kept
    BY MarkedIs
  <2>20. Range(marks) = Range(att) \cup kept
    <3>1. \A a, b \in kept : a = b
      BY <2>4
    <3>2. slot \notin DOMAIN att
      BY <2>3, EndIsFree
    <3>3. slot \in DOMAIN att => kept \subseteq {att[slot]}
      BY <3>2
    <3> HIDE DEF slot
    <3>4. QED
      BY <3>1, <3>3, MarkedHolds
  <2> HIDE DEF marks
  <2>21. Typed
    <3>1. ASSUME NEW s \in DOMAIN att PROVE s \in Slots /\ att[s] \in 1 .. MaxShifts
      <4>1. s \in Slots
        BY <2>3
      <4>2. s[1] \in Emps /\ s[2] \in Dates /\ s[3] \in DOMAIN old[s[1]][s[2]]
            /\ att[s] = old[s[1]][s[2]][s[3]].id
        BY <2>3 DEF Whole, Attached
      <4>3. att[s] \in 1 .. nextId - 1
        BY <2>17, <4>2
      <4>4. \A k \in 1 .. nextId - 1 : k \in 1 .. MaxShifts
        BY <2>2, <2>13, <2>14
      <4>5. QED
        BY <4>1, <4>3, <4>4
    <3>2. ASSUME kept # {} PROVE slot \in Slots /\ kept \subseteq 1 .. MaxShifts
      <4>1. keeps /\ orig.id \in 1 .. nextId - 1 /\ Absent(orig.id, old)
        BY <2>3, <2>4, <3>2
      <4>2. Cardinality({orig.id}) = 1 /\ {orig.id} \in SUBSET (1 .. nextId - 1)
        BY <4>1, FS_Singleton
      <4>3. \A e \in Emps, d \in Dates : \A i \in DOMAIN old[e][d] : old[e][d][i].id \notin {orig.id}
        BY <4>1 DEF Absent
      <4>4. first \in Emps /\ Len(old[first][day]) \in Nat
            /\ Len(old[first][day]) + Cardinality({orig.id}) <= nextId - 1
        BY <2>2, <2>3, <4>2, <4>3, Short
      <4>5. Len(old[first][day]) + 1 \in 1 .. MaxShifts /\ orig.id \in 1 .. MaxShifts
        BY <2>2, <2>13, <2>14, <4>1, <4>2, <4>4
      <4>6. QED
        BY <2>4, <4>4, <4>5 DEF Slots, EndOf
    <3> HIDE DEF slot
    <3>3. \A s \in DOMAIN marks : s \in Slots /\ marks[s] \in 1 .. MaxShifts
      BY <2>19, <3>1, <3>2
    <3>4. QED
      BY <2>1, <2>14, <2>18, <3>3 DEF Typed
  <2>22. ASSUME c.idx = 0 \/ Meant(c)
         PROVE  Rewrote(people)
    <3>1. keeps => c.sh = orig /\ orig.id \in 1 .. nextId - 1 /\ Absent(orig.id, old)
      BY <2>3, <2>8, <2>9, <2>22
    <3>2. ~keeps => c.idx = 0
      BY <2>11, <2>22
    <3>3. \A e \in people :
            /\ made(e).id \in 1 .. nextId' - 1
            /\ e \in rest => made(e).id \in nextId .. nextId + n - 1
            /\ e \notin rest => made(e).id \in 1 .. nextId - 1
      BY <2>2, <2>6, <2>13, <2>14, <2>15, <2>16, <3>1
    <3>4. \A e \in people : Absent(made(e).id, old)
      <4>1. ASSUME NEW e \in people, e \in rest
            PROVE  Absent(made(e).id, old)
        <5>1. \A k \in 1 .. nextId - 1 : k # made(e).id
          BY <2>2, <2>13, <3>3, <4>1
        <5>2. QED
          BY <2>17, <5>1 DEF Absent
      <4>2. QED
        BY <2>6, <2>16, <3>1, <4>1
    <3>5. ASSUME NEW e \in people, NEW f \in people, made(e).id = made(f).id
          PROVE  e = f
      <4>1. CASE e \in rest /\ f \in rest
        BY <2>13, <2>16, <3>5, <4>1
      <4>2. CASE e \notin rest /\ f \notin rest
        BY <2>6, <4>2
      <4>3. \A k \in nextId .. nextId + n - 1 : k \notin 1 .. nextId - 1
        BY <2>2, <2>13
      <4>4. QED
        BY <3>3, <3>5, <4>1, <4>2, <4>3
    <3>6. Extended(new, old, nextId')
      <4>1. \A e \in Emps, d \in Dates :
              /\ DOMAIN old[e][d] \subseteq DOMAIN new[e][d]
              /\ \A i \in DOMAIN old[e][d] : new[e][d][i].id = old[e][d][i].id
              /\ \A i \in DOMAIN new[e][d] \ DOMAIN old[e][d] :
                   new[e][d][i].id \in 1 .. nextId' - 1 /\ Absent(new[e][d][i].id, old)
        BY <2>17, <3>3, <3>4
      <4>2. ASSUME NEW e \in Emps, NEW f \in Emps, NEW d \in Dates, NEW x \in Dates,
                   NEW i \in DOMAIN new[e][d] \ DOMAIN old[e][d],
                   NEW j \in DOMAIN new[f][x] \ DOMAIN old[f][x],
                   new[e][d][i].id = new[f][x][j].id
            PROVE  e = f /\ d = x /\ i = j
        <5>1. /\ e \in people /\ d = day /\ i = Len(old[e][d]) + 1 /\ new[e][d][i] = made(e)
              /\ f \in people /\ x = day /\ j = Len(old[f][x]) + 1 /\ new[f][x][j] = made(f)
          BY <2>17
        <5>2. e = f
          BY <3>5, <4>2, <5>1
        <5>3. QED
          BY <5>1, <5>2
      <4>3. \A e, f \in Emps, d, x \in Dates :
              \A i \in DOMAIN new[e][d] \ DOMAIN old[e][d], j \in DOMAIN new[f][x] \ DOMAIN old[f][x] :
                new[e][d][i].id = new[f][x][j].id => e = f /\ d = x /\ i = j
        BY <4>2
      <4>4. QED
        BY <4>1, <4>3 DEF Extended
    <3>7. Carried(marks, new, att)
      <4>1. slot \in Emps \X Dates \X Nat /\ DOMAIN att \subseteq Emps \X Dates \X Nat
        <5>1. old[first][day] \in Seq(Sound)
          BY <2>3 DEF Whole, Table
        <5>2. Len(old[first][day]) + 1 \in Nat
          BY <5>1
        <5>3. QED
          BY <2>3, <5>2 DEF Whole, Attached, EndOf
      <4>2. kept # {} =>
              /\ slot[3] \in DOMAIN new[slot[1]][slot[2]]
              /\ new[slot[1]][slot[2]][slot[3]] = c.sh /\ \A m \in kept : m = c.sh.id
        <5>1. slot[1] = first /\ slot[2] = day /\ slot[3] = Len(old[first][day]) + 1
          BY DEF EndOf
        <5>2. kept # {} => first \notin rest /\ c.sh = orig
          BY <2>4, <2>7, <3>1
        <5>3. Len(old[first][day]) + 1 \in DOMAIN new[first][day]
              /\ new[first][day][Len(old[first][day]) + 1] = made(first)
          BY <2>17
        <5> HIDE DEF slot
        <5>4. QED
          BY <2>4, <2>16, <5>1, <5>2, <5>3
      <4> HIDE DEF slot
      <4>3. \A s \in DOMAIN marks :
              \/ s \in DOMAIN att /\ marks[s] = att[s]
              \/ s[3] \in DOMAIN new[s[1]][s[2]] /\ marks[s] = new[s[1]][s[2]][s[3]].id
        BY <2>19, <4>2
      <4>4. DOMAIN marks \subseteq Emps \X Dates \X Nat
        BY <2>19, <4>1
      <4>5. QED
        BY <4>3, <4>4 DEF Carried
    <3>8. Whole(new, marks, nextId')
      <4>1. nextId' \in Nat /\ nextId <= nextId'
        BY <2>2, <2>13, <2>14
      <4>2. QED
        BY <2>2, <2>3, <2>18, <3>6, <3>7, <4>1, ExtendedWhole
    <3>9. \A f \in Emps \ people, x \in Dates : shifts[f][x] = <<>> => new[f][x] = <<>>
      BY <2>3, <2>17
    <3>10. Range(marks) = Range(attendance)
      <4>1. CASE keeps
        <5>1. Range(att) = Range(attendance) \ {orig.id} /\ kept = Range(attendance) \cap {orig.id}
          BY <2>10, <4>1
        <5>2. QED
          BY <2>20, <5>1
      <4>2. CASE ~keeps
        BY <2>12, <2>20, <2>22, <3>2, <4>2
      <4>3. QED
        BY <4>1, <4>2
    <3> DEFINE K == IF keeps THEN {orig.id} ELSE {}
               fresh == nextId .. nextId' - 1
    <3>11. \A x \in Cells : Held(old)[x] = Held(shifts)[x] \ K
      <4>1. CASE keeps
        BY <2>10, <4>1
      <4>2. CASE ~keeps
        BY <2>12, <3>2, <4>2
      <4>3. QED
        BY <4>1, <4>2
    <3>12. \A e \in people : made(e).id \in K \cup fresh
      BY <2>6, <2>14, <2>16, <3>1, <3>3
    <3>13. ASSUME NEW x \in Cells
           PROVE  Held(old)[x] \subseteq Held(new)[x] /\ Held(new)[x] \subseteq Held(old)[x] \cup K \cup fresh
      <4> DEFINE was == old[x[1]][x[2]]
                 is == new[x[1]][x[2]]
      <4>1. x[1] \in Emps /\ x[2] \in Dates
        BY CellsAre
      <4>2. /\ DOMAIN was \subseteq DOMAIN is /\ \A i \in DOMAIN was : is[i] = was[i]
            /\ \A i \in DOMAIN is \ DOMAIN was : x[1] \in people /\ is[i] = made(x[1])
        BY <2>17, <4>1
      <4>3. Held(old)[x] = {was[i].id : i \in DOMAIN was} /\ Held(new)[x] = {is[i].id : i \in DOMAIN is}
        BY DEF Held
      <4> HIDE DEF was, is, K, fresh
      <4>4. \A a \in Held(old)[x] : a \in Held(new)[x]
        BY <4>2, <4>3
      <4>5. \A i \in DOMAIN is \ DOMAIN was : is[i].id \in K \cup fresh
        BY <3>12, <4>2
      <4>6. \A a \in Held(new)[x] : a \in Held(old)[x] \cup K \cup fresh
        BY <4>2, <4>3, <4>5
      <4>7. QED
        BY <4>4, <4>6
    <3>14. ASSUME NEW e \in people PROVE <<e, day>> \in Cells /\ made(e).id \in Held(new)[<<e, day>>]
      <4>1. /\ Len(old[e][day]) + 1 \in DOMAIN new[e][day]
            /\ new[e][day][Len(old[e][day]) + 1] = made(e)
        BY <2>17
      <4>2. QED
        BY <4>1, CellIs
    <3>15. \A k \in fresh : \E x \in Cells : k \in Held(new)[x]
      <4> SUFFICES ASSUME NEW k \in fresh PROVE \E x \in Cells : k \in Held(new)[x]
        OBVIOUS
      <4>1. k \in nextId .. nextId + n - 1
        BY <2>2, <2>13, <2>14
      <4>2. PICK e \in rest : id[e] = k
        BY <2>13, <4>1
      <4>3. e \in people /\ made(e).id = k
        BY <2>5, <2>16, <4>2
      <4>4. QED
        BY <3>14, <4>3
    <3>16. HandsOn(K)
      <4>1. shifts' = new /\ attendance' = marks /\ nextId <= nextId'
        BY <2>1, <2>2, <2>13, <2>14
      <4>2. \A x \in Cells : Held(shifts)[x] \ K \subseteq Held(new)[x]
        BY <3>11, <3>13
      <4>3. \A x \in Cells : Held(new)[x] \subseteq Held(shifts)[x] \cup K \cup nextId .. nextId' - 1
        BY <3>11, <3>13
      <4> HIDE DEF K, fresh
      <4>4. QED
        BY <3>10, <3>15, <4>1, <4>2, <4>3 DEF HandsOn, fresh
    <3>17. Whole(shifts', attendance', nextId') /\ nextId' \in Nat /\ shifts' = new
      BY <2>1, <2>2, <2>13, <2>14, <3>8
    <3>18. InBook
      <4>1. CASE keeps
        <5>1. HandsOn({orig.id})
          BY <3>16, <4>1
        <5>2. made(first) = orig
          BY <2>7, <2>16, <3>1, <4>1
        <5>3. <<first, day>> \in Cells /\ orig.id \in Held(shifts')[<<first, day>>]
          BY <3>14, <3>17, <5>2
        <5>4. <<c.emp, c.day>> \in Cells /\ orig.id \in Held(shifts)[<<c.emp, c.day>>]
          BY <2>10, <4>1
        <5> DEFINE from == <<c.emp, c.day>>
                   to == <<first, day>>
        <5> HIDE DEF from, to
        <5>5. from \in Cells /\ orig.id \in Held(shifts)[from] /\ to \in Cells /\ orig.id \in Held(shifts')[to]
          BY <5>3, <5>4 DEF from, to
        <5>6. QED
          BY <3>17, <5>1, <5>5, HandsBooked
      <4>2. CASE ~keeps
        <5>1. HandsOn({})
          BY <3>16, <4>2
        <5>2. QED
          BY <3>17, <5>1, MakesBooked
      <4>3. QED
        BY <4>1, <4>2
    <3>19. QED
      BY <2>1, <2>14, <3>8, <3>9, <3>18 DEF Rewrote
  <2>23. QED
    BY <2>21, <2>22
<1>4. QED
  BY <1>2, <1>3

-----------------------------------------------------------------------------
(* Dialogs and confirmations.                                              *)

LEMMA Unchanged ==
  ASSUME Ready, UNCHANGED <<shifts, attendance, nextId>>
  PROVE  Rewrote({})
BY IdleBooked DEF Ready, Shape, Rewrote

\* A step keeps the invariant and, unless an answer came too late, is one of the book's.
Advances == GridInv' /\ (~stale' => InBook)

\* A step does so if, unless an answer came too late, it leaves the grid whole
\* and fills only rows that are shown.
LEMMA Kept ==
  ASSUME GridInv, ~stale, mix' = mix, DaysOK', employees' \subseteq Emps, stale' \in BOOLEAN,
         DialogOK', PendingOK', Typed, NEW to,
         ~stale' => Rewrote(to) /\ to \subseteq employees' /\ employees \subseteq employees'
  PROVE  Advances
<1>1. Shape'
  BY DEF GridInv, Shape, Typed
<1>2. ASSUME ~stale'
      PROVE  Whole(shifts', attendance', nextId') /\ Covered(shifts', employees')
  <2>1. Rewrote(to) /\ to \subseteq employees' /\ employees \subseteq employees'
    BY <1>2
  <2>2. Covered(shifts, employees)
    BY DEF GridInv
  <2>3. QED
    BY <2>1, <2>2 DEF Rewrote, Covered
<1>3. ~stale' => InBook
  BY DEF Rewrote
<1>4. QED
  BY <1>1, <1>2, <1>3 DEF GridInv, Advances

\* The same for a step that is never late.
LEMMA Kept0 ==
  ASSUME GridInv, ~stale, mix' = mix, DaysOK', employees' \subseteq Emps, stale' = stale,
         DialogOK', PendingOK', NEW to, Rewrote(to), to \subseteq employees',
         employees \subseteq employees'
  PROVE  Advances
<1>1. Typed
  BY RewroteTyped
<1>2. stale' \in BOOLEAN
  BY DEF GridInv, Shape
<1>3. QED
  BY <1>1, <1>2, Kept

LEMMA ReadyIs ==
  ASSUME GridInv, ~stale
  PROVE  /\ Ready /\ DaysOK /\ days \subseteq Dates /\ employees \subseteq Emps
         /\ DialogOK /\ PendingOK
<1>1. Shape
  BY DEF GridInv
<1>2. days \subseteq Dates
  <2>1. PICK a, b \in Dates : a <= b /\ days = a .. b
    BY <1>1 DEF Shape, DaysOK
  <2>2. QED
    BY <2>1, GridAssumption DEF Dates
<1>3. QED
  BY <1>1, <1>2 DEF GridInv, Ready, Shape

LEMMA DialogKept ==
  ASSUME DialogOK, dialog' = dialog \/ dialog' = NoDialog
  PROVE  DialogOK'
BY DEF DialogOK, NoDialog

LEMMA PendingKept ==
  ASSUME PendingOK, pending' = pending \/ pending' = NoPending
  PROVE  PendingOK'
<1>1. CASE pending' = NoPending
  BY <1>1 DEF PendingOK
<1>2. CASE pending' = pending
  BY <1>2 DEF PendingOK
<1>3. QED
  BY <1>1, <1>2

\* The two adjustments.
LEMMA OtherIs ==
  ASSUME NEW kind \in Adjustments
  PROVE  Other(kind) \in Adjustments /\ Other(kind) # kind
<1>1. \E k \in Adjustments : k # kind
  BY DEF Adjustments
<1>2. QED
  BY <1>1 DEF Other

LEMMA AdjustedIsSound ==
  ASSUME NEW sh \in Sound, NEW kind \in Adjustments, Other(kind) \notin sh.adj
  PROVE  /\ [sh EXCEPT !.adj = @ \cup {kind}] \in Sound
         /\ [sh EXCEPT !.adj = @ \cup {kind}].id = sh.id
<1>1. Other(kind) \in Adjustments /\ Other(kind) # kind
  BY OtherIs
<1>2. sh.adj \cup {kind} \in SUBSET Adjustments /\ sh.adj \cup {kind} # Adjustments
  BY <1>1 DEF Sound, Shifts
<1>3. QED
  BY <1>2 DEF Sound, Shifts

\* What a dialog captured.
LEMMA DialogIs ==
  ASSUME DialogOK, dialog # NoDialog
  PROVE  /\ dialog.emp \in Emps /\ dialog.day \in Dates /\ dialog.idx \in 0 .. MaxShifts
         /\ dialog.sh \in Sound /\ dialog.seen \subseteq Emps
         /\ dialog.kind # "shift" => /\ dialog.idx \in 1 .. MaxShifts
                                     /\ dialog \in Captured({dialog.kind})
         /\ dialog.kind = "shift" => dialog \in Adding \cup Captured({"shift"})
         /\ dialog.kind = "attendance" => dialog.sh.id \in 1 .. MaxShifts
<1>1. MaxShifts \in Nat \ {0}
  BY GridAssumption
<1>2. CASE dialog \in Adding
  BY <1>1, <1>2, HoleIsSound DEF Adding
<1>3. CASE dialog \in Captured({"shift", "move", "copy", "attendance"} \cup Adjustments)
  <2>1. dialog \in Captured({dialog.kind})
    BY <1>3 DEF Captured
  <2>2. QED
    BY <1>1, <1>3, <2>1 DEF Captured, DialogOK
<1>4. QED
  BY <1>2, <1>3 DEF DialogOK

LEMMA ContextIs ==
  ASSUME Ready, NEW kind, NEW e \in Emps, NEW d \in Dates, NEW i \in 1 .. MaxShifts, Has(e, d, i)
  PROVE  /\ Context(kind, e, d, i) \in Captured({kind})
         /\ Context(kind, e, d, i).kind = kind
         /\ Context(kind, e, d, i).sh.id \in 1 .. MaxShifts
<1>1. shifts[e][d][i] \in Sound /\ shifts[e][d][i].id \in 1 .. nextId - 1
  BY ListIs DEF Has, Cell
<1>2. shifts[e][d][i].id \in 1 .. MaxShifts
  BY <1>1, GridAssumption DEF Ready, Shape
<1>3. ShiftOf(e, d, i) = shifts[e][d][i]
  BY GridAssumption DEF ShiftOf, Cell
<1>4. employees \in SUBSET Emps
  BY DEF Ready, Shape
<1>5. QED
  BY <1>1, <1>2, <1>3, <1>4 DEF Context, Captured

-----------------------------------------------------------------------------
(* Every step keeps the invariant.                                         *)

LEMMA OpenKeeps ==
  ASSUME GridInv, ~stale, mix' = mix, NEW e \in Emps, NEW d \in Dates, NEW i \in 0 .. MaxShifts,
         NEW kind \in {"shift", "move", "copy", "attendance"} \cup Adjustments, Open(kind, e, d, i)
  PROVE  Advances
<1>1. UNCHANGED <<days, employees, shifts, attendance, nextId, pending, stale>>
  BY DEF Open, grid
<1>2. Ready /\ DaysOK' /\ employees' \subseteq Emps /\ PendingOK'
  BY <1>1, ReadyIs, PendingKept DEF DaysOK
<1>3. dialog' = Context(kind, e, d, i) /\ ((kind = "shift" /\ i = 0) \/ Has(e, d, i))
  BY DEF Open
<1>4. DialogOK'
  <2>1. CASE kind = "shift" /\ i = 0
    <3>1. employees \in SUBSET Emps
      BY ReadyIs
    <3>2. dialog' \in Adding /\ dialog'.kind = "shift"
      BY <1>3, <2>1, <3>1 DEF Context, ShiftOf, Adding
    <3>3. QED
      BY <3>2 DEF DialogOK
  <2>2. CASE Has(e, d, i)
    <3>1. i \in 1 .. MaxShifts
      BY <2>2, GridAssumption DEF Has
    <3>2. /\ dialog' \in Captured({kind}) /\ dialog'.kind = kind
          /\ dialog'.sh.id \in 1 .. MaxShifts
      BY <1>2, <1>3, <2>2, <3>1, ContextIs
    <3>3. dialog' \in Captured({"shift", "move", "copy", "attendance"} \cup Adjustments)
      BY <3>2 DEF Captured
    <3>4. QED
      BY <3>2, <3>3 DEF DialogOK
  <2>3. QED
    BY <1>3, <2>1, <2>2
<1>5. Rewrote({})
  BY <1>1, <1>2, Unchanged
<1>6. QED
  BY <1>1, <1>2, <1>4, <1>5, Kept0

LEMMA CloseKeeps ==
  ASSUME GridInv, ~stale, mix' = mix, Close
  PROVE  Advances
<1>1. UNCHANGED <<days, employees, shifts, attendance, nextId, pending, stale>>
  BY DEF Close, grid
<1>2. Ready /\ DaysOK' /\ employees' \subseteq Emps /\ PendingOK'
  BY <1>1, ReadyIs, PendingKept DEF DaysOK
<1>3. DialogOK'
  BY ReadyIs, DialogKept DEF Close
<1>4. Rewrote({})
  BY <1>1, <1>2, Unchanged
<1>5. QED
  BY <1>1, <1>2, <1>3, <1>4, Kept0

LEMMA SubmitShiftKeeps ==
  ASSUME GridInv, ~stale, mix' = mix, NEW first \in Emps, NEW people \in SUBSET Emps,
         NEW day \in Dates, SubmitShift(first, people, day)
  PROVE  Advances
<1>1. /\ UNCHANGED <<days, employees, pending>> /\ dialog' = NoDialog
      /\ dialog.kind = "shift" /\ first \in people
      /\ ApplyShiftChange(dialog, first, people, day)
      /\ stale' = (~(dialog.idx = 0 \/ Meant(dialog)) \/ ~(people \subseteq employees))
  BY DEF SubmitShift, Answered
<1>2. Ready /\ DaysOK' /\ employees' \subseteq Emps /\ PendingOK' /\ DialogOK' /\ DialogOK
  BY <1>1, ReadyIs, PendingKept, DialogKept DEF DaysOK
<1>3. dialog # NoDialog
  BY <1>1 DEF NoDialog
<1>4. Typed /\ (dialog.idx = 0 \/ Meant(dialog) => Rewrote(people))
  BY <1>1, <1>2, <1>3, DialogIs, Assigned
<1>5. stale' \in BOOLEAN
  BY <1>1, Zenon
<1>6. ~stale' => Rewrote(people) /\ people \subseteq employees'
  BY <1>1, <1>4
<1>7. QED
  BY <1>1, <1>2, <1>4, <1>5, <1>6, Kept

LEMMA SubmitNewSiteKeeps ==
  ASSUME GridInv, ~stale, mix' = mix, NEW e \in Emps, NEW day \in Dates, SubmitNewSite(e, day)
  PROVE  Advances
<1>1. /\ UNCHANGED <<days, employees, shifts, attendance, nextId, dialog, stale>>
      /\ dialog.kind = "shift"
      /\ pending' = [kind |-> "shift", c |-> dialog, emp |-> e, day |-> day]
  BY DEF SubmitNewSite, grid
<1>2. Ready /\ DaysOK' /\ employees' \subseteq Emps /\ DialogOK' /\ DialogOK
  BY <1>1, ReadyIs, DialogKept DEF DaysOK
<1>3. dialog # NoDialog
  BY <1>1 DEF NoDialog
<1>4. PendingOK'
  <2>1. dialog \in Adding \cup Captured({"shift"})
    BY <1>1, <1>2, <1>3, DialogIs
  <2>2. pending' \in [kind : {"shift"}, c : Adding \cup Captured({"shift"}), emp : Emps, day : Dates]
    BY <1>1, <2>1
  <2>3. QED
    BY <2>2 DEF PendingOK
<1>5. Rewrote({})
  BY <1>1, <1>2, Unchanged
<1>6. QED
  BY <1>1, <1>2, <1>4, <1>5, Kept0

LEMMA SubmitMoveKeeps ==
  ASSUME GridInv, ~stale, mix' = mix, NEW toEmp \in Emps, NEW toDay \in Dates,
         SubmitMove(toEmp, toDay)
  PROVE  Advances
<1>1. /\ UNCHANGED <<days, employees, pending>> /\ dialog' = NoDialog /\ dialog.kind = "move"
      /\ MoveShift(dialog.emp, dialog.day, dialog.idx, toEmp, toDay)
      /\ stale' = (~(dialog.idx = 0 \/ Meant(dialog)) \/ ~({toEmp} \subseteq employees))
  BY DEF SubmitMove, Answered
<1>2. Ready /\ DaysOK' /\ employees' \subseteq Emps /\ PendingOK' /\ DialogOK' /\ DialogOK
  BY <1>1, ReadyIs, PendingKept, DialogKept DEF DaysOK
<1>3. dialog # NoDialog
  BY <1>1 DEF NoDialog
<1>4. Rewrote({toEmp})
  BY <1>1, <1>2, <1>3, DialogIs, MoveWhole
<1>5. Typed
  BY <1>4, RewroteTyped
<1>6. stale' \in BOOLEAN
  BY <1>1, Zenon
<1>7. ~stale' => Rewrote({toEmp}) /\ {toEmp} \subseteq employees'
  BY <1>1, <1>4
<1>8. QED
  BY <1>1, <1>2, <1>5, <1>6, <1>7, Kept

LEMMA SubmitCopyKeeps ==
  ASSUME GridInv, ~stale, mix' = mix, NEW emps \in SUBSET Emps, NEW dates \in SUBSET Dates,
         SubmitCopy(emps, dates)
  PROVE  Advances
<1> DEFINE rows == IF emps = {} THEN {dialog.emp} ELSE emps
<1>1. /\ UNCHANGED <<days, employees, pending>> /\ dialog' = NoDialog /\ dialog.kind = "copy"
      /\ CopyShift(dialog, emps, dates)
      /\ stale' = (~(dialog.idx = 0 \/ Meant(dialog)) \/ ~(emps \subseteq employees))
  BY DEF SubmitCopy, Answered
<1>2. Ready /\ DaysOK' /\ employees' \subseteq Emps /\ PendingOK' /\ DialogOK' /\ DialogOK
  BY <1>1, ReadyIs, PendingKept, DialogKept DEF DaysOK
<1>3. dialog # NoDialog
  BY <1>1 DEF NoDialog
<1>4. dialog.emp \in Emps /\ dialog.day \in Dates /\ dialog.idx # 0
  BY <1>1, <1>2, <1>3, DialogIs, GridAssumption
<1>5. Rewrote(rows)
  BY <1>1, <1>2, <1>4, CopyWhole
<1>6. Typed
  BY <1>5, RewroteTyped
<1>7. stale' \in BOOLEAN
  BY <1>1, Zenon
<1>8. ~stale' => rows \subseteq employees'
  BY <1>1, <1>4 DEF Meant
<1> HIDE DEF rows
<1>9. QED
  BY <1>1, <1>2, <1>5, <1>6, <1>7, <1>8, Kept

\* A mark set in a slot keeps the types.
LEMMA SetTyped ==
  ASSUME Ready, NEW e \in Emps, NEW d \in Dates, NEW i \in 1 .. MaxShifts, NEW id \in 1 .. MaxShifts,
         SetAttendance(e, d, i, id)
  PROVE  Typed
<1> DEFINE slot == <<e, d, i>>
           marks == Marked(attendance, slot, {id})
<1>1. attendance' = marks /\ shifts' = shifts /\ nextId' = nextId
  BY DEF SetAttendance
<1>2. \A s \in DOMAIN marks : \/ s \in DOMAIN attendance /\ marks[s] = attendance[s]
                              \/ s = slot /\ marks[s] \in {id}
  BY MarkedIs
<1>3. slot \in Slots
  BY DEF Slots
<1> HIDE DEF slot, marks
<1>4. QED
  BY <1>1, <1>2, <1>3 DEF Ready, Shape, Typed

LEMMA SubmitAttendanceKeeps ==
  ASSUME GridInv, ~stale, mix' = mix, SubmitAttendance
  PROVE  Advances
<1>1. dialog.kind = "attendance" /\ UNCHANGED <<days, employees>>
  BY DEF SubmitAttendance, grid
<1>2. Ready /\ DaysOK' /\ employees' \subseteq Emps /\ DialogOK /\ PendingOK
  BY <1>1, ReadyIs DEF DaysOK
<1>3. dialog # NoDialog
  BY <1>1 DEF NoDialog
<1>4. /\ dialog.emp \in Emps /\ dialog.day \in Dates /\ dialog.idx \in 1 .. MaxShifts
      /\ dialog \in Captured({"attendance"}) /\ dialog.sh.id \in 1 .. MaxShifts
  BY <1>1, <1>2, <1>3, DialogIs
<1>5. CASE dialog.emp \in Published
  <2>1. /\ UNCHANGED <<shifts, attendance, nextId, dialog, stale>>
        /\ pending' = [kind |-> "attendance", c |-> dialog]
    BY <1>5 DEF SubmitAttendance, grid
  <2>2. PendingOK'
    <3>1. pending' \in [kind : {"attendance"}, c : Captured({"attendance"})]
          /\ pending'.c.sh.id \in 1 .. MaxShifts
      BY <1>4, <2>1
    <3>2. QED
      BY <3>1 DEF PendingOK
  <2>3. DialogOK' /\ Rewrote({})
    BY <1>2, <2>1, DialogKept, Unchanged
  <2>4. QED
    BY <1>1, <1>2, <2>1, <2>2, <2>3, Kept0
<1>6. CASE dialog.emp \notin Published
  <2>1. /\ SetAttendance(dialog.emp, dialog.day, dialog.idx, dialog.sh.id)
        /\ stale' = (~(dialog.idx = 0 \/ Meant(dialog)) \/ ~({} \subseteq employees))
        /\ dialog' = NoDialog /\ pending' = pending
    BY <1>6 DEF SubmitAttendance, Answered
  <2>2. PendingOK' /\ DialogOK'
    BY <1>2, <2>1, PendingKept, DialogKept
  <2>3. Typed
    BY <1>2, <1>4, <2>1, SetTyped
  <2>4. stale' \in BOOLEAN
    BY <2>1, Zenon
  <2>5. ASSUME ~stale' PROVE Rewrote({})
    <3>1. dialog.idx # 0
      BY <1>4, GridAssumption
    <3>2. Meant(dialog)
      BY <2>1, <2>5, <3>1
    <3>3. /\ dialog.idx \in DOMAIN shifts[dialog.emp][dialog.day]
          /\ dialog.sh.id = shifts[dialog.emp][dialog.day][dialog.idx].id
      BY <1>2, <1>4, <3>2, ListIs DEF Meant, Has, Cell
    <3>4. QED
      BY <1>2, <1>4, <2>1, <3>3, SetWhole
  <2>6. QED
    BY <1>1, <1>2, <2>2, <2>3, <2>4, <2>5, Kept
<1>7. QED
  BY <1>5, <1>6

LEMMA SubmitAdjustmentKeeps ==
  ASSUME GridInv, ~stale, mix' = mix, SubmitAdjustment
  PROVE  Advances
<1> DEFINE sh == shifts[dialog.emp][dialog.day][dialog.idx]
<1>1. dialog.kind \in Adjustments /\ Adjustable(dialog) /\ UNCHANGED <<days, employees>>
  BY DEF SubmitAdjustment, grid
<1>2. Ready /\ DaysOK' /\ employees' \subseteq Emps /\ DialogOK /\ PendingOK
  BY <1>1, ReadyIs DEF DaysOK
<1>3. dialog # NoDialog /\ dialog.kind # "shift"
  BY <1>1 DEF NoDialog, Adjustments
<1>4. /\ dialog.emp \in Emps /\ dialog.day \in Dates /\ dialog.idx \in 1 .. MaxShifts
      /\ dialog \in Captured({dialog.kind})
  BY <1>2, <1>3, DialogIs
<1>5. /\ dialog.idx \in DOMAIN shifts[dialog.emp][dialog.day]
      /\ sh \in Sound /\ Other(dialog.kind) \notin sh.adj
  BY <1>1, <1>2, <1>4, ListIs DEF Adjustable, Has, Cell
<1>6. CASE dialog.emp \in Published
  <2>1. /\ UNCHANGED <<shifts, attendance, nextId, dialog, stale>>
        /\ pending' = [kind |-> "adjust", c |-> [dialog EXCEPT !.sh = sh]]
    BY <1>6 DEF SubmitAdjustment, grid, Cell
  <2> HIDE DEF sh
  <2>2. PendingOK'
    <3> DEFINE c == [dialog EXCEPT !.sh = sh]
    <3>1. c \in Captured(Adjustments) /\ c.kind = dialog.kind /\ c.sh = sh
      BY <1>1, <1>4, <1>5 DEF Captured
    <3> HIDE DEF c
    <3>2. /\ pending' \in [kind : {"adjust"}, c : Captured(Adjustments)]
          /\ Other(pending'.c.kind) \notin pending'.c.sh.adj
      BY <1>5, <2>1, <3>1 DEF c
    <3>3. QED
      BY <3>2 DEF PendingOK
  <2>3. DialogOK' /\ Rewrote({})
    BY <1>2, <2>1, DialogKept, Unchanged
  <2>4. QED
    BY <1>1, <1>2, <2>1, <2>2, <2>3, Kept0
<1>7. CASE dialog.emp \notin Published
  <2> DEFINE new == [sh EXCEPT !.adj = @ \cup {dialog.kind}]
  <2>1. /\ WriteShift(dialog.emp, dialog.day, dialog.idx, new)
        /\ stale' = (~(dialog.idx = 0 \/ Meant(dialog)) \/ ~({} \subseteq employees))
        /\ dialog' = NoDialog /\ pending' = pending
    BY <1>7 DEF SubmitAdjustment, Answered, Adjust, Cell
  <2>2. PendingOK' /\ DialogOK'
    BY <1>2, <2>1, PendingKept, DialogKept
  <2>3. new \in Sound /\ new.id = sh.id
    BY <1>1, <1>5, AdjustedIsSound
  <2> HIDE DEF new
  <2>4. Rewrote({})
    BY <1>2, <1>4, <1>5, <2>1, <2>3, WriteWhole
  <2>5. Typed
    BY <2>4, RewroteTyped
  <2>6. stale' \in BOOLEAN
    BY <2>1, Zenon
  <2>7. QED
    BY <1>1, <1>2, <2>2, <2>4, <2>5, <2>6, Kept
<1>8. QED
  BY <1>6, <1>7

LEMMA RowsKeep ==
  ASSUME GridInv, ~stale, mix' = mix, Rows, NEW to, Rewrote(to), to \subseteq employees
  PROVE  Advances
<1>1. UNCHANGED <<days, employees, dialog, pending, stale>>
  BY DEF Rows, Free
<1>2. DaysOK' /\ employees' \subseteq Emps /\ DialogOK' /\ PendingOK'
  BY <1>1, ReadyIs, DialogKept, PendingKept DEF DaysOK
<1>3. QED
  BY <1>1, <1>2, Kept0

LEMMA GridStepKeeps ==
  ASSUME GridInv, ~stale, mix' = mix, GridStep
  PROVE  Advances
<1>1. Ready /\ DaysOK /\ employees \subseteq Emps /\ DialogOK /\ PendingOK
  BY ReadyIs
<1>2. ASSUME NEW e \in Emps, NEW f \in Emps, NEW d \in Dates, NEW x \in Dates,
             NEW i \in 1 .. MaxShifts, Drag(e, d, i, f, x)
      PROVE  Advances
  <2>1. Rows /\ f \in employees /\ MoveShift(e, d, i, f, x)
    BY <1>2 DEF Drag
  <2>2. Rewrote({f}) /\ {f} \subseteq employees
    BY <1>1, <2>1, MoveWhole
  <2>3. QED
    BY <2>1, <2>2, RowsKeep
<1>3. ASSUME NEW e \in Emps, NEW d \in Dates, NEW i \in 1 .. MaxShifts, Delete(e, d, i)
      PROVE  Advances
  <2>1. Rows /\ DeleteShift(e, d, i)
    BY <1>3 DEF Delete
  <2>2. Rewrote({})
    BY <1>1, <2>1, DeleteWhole
  <2>3. QED
    BY <2>1, <2>2, RowsKeep
<1>4. ASSUME NEW e \in Emps, DeleteAll(e)
      PROVE  Advances
  <2>1. Rows /\ ClearEmployee(e)
    BY <1>4 DEF DeleteAll
  <2>2. Rewrote({})
    BY <1>1, <2>1, ClearWhole
  <2>3. QED
    BY <2>1, <2>2, RowsKeep
<1>5. ASSUME NEW e \in Emps, NEW d \in Dates, DeleteAllOfDay(e, d)
      PROVE  Advances
  <2>1. Rows /\ DeleteDay(e, d)
    BY <1>5 DEF DeleteAllOfDay
  <2>2. Rewrote({})
    BY <1>1, <2>1, DeleteDayWhole
  <2>3. QED
    BY <2>1, <2>2, RowsKeep
<1>6. ASSUME NEW e \in Emps, NEW f \in Emps, CopyEmployee(e, f)
      PROVE  Advances
  <2>1. Rows /\ f \in employees /\ CopyAll(e, f)
    BY <1>6 DEF CopyEmployee
  <2>2. Rewrote({f}) /\ {f} \subseteq employees
    BY <1>1, <2>1, CopyAllWhole
  <2>3. QED
    BY <2>1, <2>2, RowsKeep
<1>7. ASSUME NEW S \in SUBSET Emps, AddEmployees(S)
      PROVE  Advances
  <2>1. /\ UNCHANGED <<dialog, pending, stale, days, shifts, attendance, nextId>>
        /\ employees' = employees \cup S
    BY <1>7 DEF AddEmployees, Free
  <2>2. DaysOK' /\ employees' \subseteq Emps /\ DialogOK' /\ PendingOK'
    BY <1>1, <2>1, DialogKept, PendingKept DEF DaysOK
  <2>3. Rewrote({}) /\ employees \subseteq employees'
    BY <1>1, <2>1, Unchanged
  <2>4. QED
    BY <2>1, <2>2, <2>3, Kept0
<1>8. ASSUME NEW n \in Dates, NEW edge \in {"start", "end"}, ChangeDays(n, edge)
      PROVE  Advances
  <2>1. /\ UNCHANGED <<dialog, pending, stale, employees>>
        /\ SetDayCount(n, edge)
    BY <1>8 DEF ChangeDays, Free
  <2>2. Rewrote({}) /\ DaysOK'
    BY <1>1, <2>1, DaysWhole
  <2>3. employees' \subseteq Emps /\ DialogOK' /\ PendingOK'
    BY <1>1, <2>1, DialogKept, PendingKept
  <2>4. QED
    BY <2>1, <2>2, <2>3, Kept0
<1>9. QED
  BY <1>2, <1>3, <1>4, <1>5, <1>6, <1>7, <1>8 DEF GridStep

LEMMA AskKeeps ==
  ASSUME GridInv, ~stale, mix' = mix, NEW kind, NEW c, Ask(kind, c), pending' = [kind |-> kind, c |-> c] => PendingOK'
  PROVE  Advances
<1>1. UNCHANGED <<days, employees, shifts, attendance, nextId, dialog, stale>> /\ PendingOK'
  BY DEF Ask, grid
<1>2. Ready /\ DaysOK' /\ employees' \subseteq Emps /\ DialogOK'
  BY <1>1, ReadyIs, DialogKept DEF DaysOK
<1>3. Rewrote({})
  BY <1>1, <1>2, Unchanged
<1>4. QED
  BY <1>1, <1>2, <1>3, Kept0

LEMMA AsksKeep ==
  ASSUME GridInv, ~stale, mix' = mix,
         \/ \E e \in Emps, d \in Dates, i \in 1 .. MaxShifts : AskUnmark(e, d, i)
         \/ \E e \in Emps, d \in Dates, i \in 1 .. MaxShifts, k \in Adjustments : AskUnadjust(e, d, i, k)
         \/ \E S \in SUBSET Emps : AskRemoveEmployees(S)
         \/ \E n \in Dates, edge \in {"start", "end"} : AskChangeDays(n, edge)
         \/ Drop
  PROVE  Advances
<1>1. Ready /\ DaysOK /\ days \subseteq Dates /\ employees \subseteq Emps /\ DialogOK /\ PendingOK
  BY ReadyIs
<1>2. ASSUME NEW e \in Emps, NEW d \in Dates, NEW i \in 1 .. MaxShifts, AskUnmark(e, d, i)
      PROVE  Advances
  <2> DEFINE c == Context("unmark", e, d, i)
  <2>1. Ask("unmark", c) /\ c \in Captured({"unmark"})
    BY <1>1, <1>2, ContextIs DEF AskUnmark
  <2> HIDE DEF c
  <2>2. pending' = [kind |-> "unmark", c |-> c] => PendingOK'
    BY <2>1 DEF PendingOK
  <2>3. QED
    BY <2>1, <2>2, AskKeeps
<1>3. ASSUME NEW e \in Emps, NEW d \in Dates, NEW i \in 1 .. MaxShifts, NEW k \in Adjustments,
             AskUnadjust(e, d, i, k)
      PROVE  Advances
  <2> DEFINE c == Context(k, e, d, i)
  <2>1. PICK then \in {"unadjust", "swap"} : Ask(then, c)
    BY <1>3 DEF AskUnadjust
  <2>2. c \in Captured(Adjustments)
    <3>1. c \in Captured({k})
      BY <1>1, <1>3, ContextIs DEF AskUnadjust
    <3> HIDE DEF c
    <3>2. QED
      BY <3>1 DEF Captured
  <2> HIDE DEF c
  <2>3. pending' = [kind |-> then, c |-> c] => PendingOK'
    BY <2>2 DEF PendingOK
  <2>4. QED
    BY <2>1, <2>3, AskKeeps
<1>4. ASSUME NEW S \in SUBSET Emps, AskRemoveEmployees(S)
      PROVE  Advances
  <2>1. Ask("remove", [gone |-> S])
    BY <1>4 DEF AskRemoveEmployees
  <2>2. pending' = [kind |-> "remove", c |-> [gone |-> S]] => PendingOK'
    BY DEF PendingOK
  <2>3. QED
    BY <2>1, <2>2, AskKeeps
<1>5. ASSUME NEW n \in Dates, NEW edge \in {"start", "end"}, AskChangeDays(n, edge)
      PROVE  Advances
  <2> DEFINE c == [count |-> n, edge |-> edge, days |-> days]
  <2>1. Ask("days", c)
    BY <1>5 DEF AskChangeDays
  <2>2. c \in [count : Dates, edge : {"start", "end"}, days : SUBSET Dates]
    BY <1>1
  <2> HIDE DEF c
  <2>3. pending' = [kind |-> "days", c |-> c] => PendingOK'
    BY <2>2 DEF PendingOK
  <2>4. QED
    BY <2>1, <2>3, AskKeeps
<1>6. CASE Drop
  <2>1. UNCHANGED <<days, employees, shifts, attendance, nextId, dialog, stale>>
        /\ pending' = NoPending
    BY <1>6 DEF Drop, grid
  <2>2. DaysOK' /\ employees' \subseteq Emps /\ DialogOK' /\ PendingOK'
    BY <1>1, <2>1, DialogKept, PendingKept DEF DaysOK
  <2>3. Rewrote({})
    BY <1>1, <2>1, Unchanged
  <2>4. QED
    BY <2>1, <2>2, <2>3, Kept0
<1>7. QED
  BY <1>2, <1>3, <1>4, <1>5, <1>6

\* What a confirmation captured of a shift.
LEMMA SlotIs ==
  ASSUME NEW kinds, NEW c, c \in Captured(kinds)
  PROVE  /\ c.kind \in kinds /\ c.emp \in Emps /\ c.day \in Dates /\ c.idx \in 1 .. MaxShifts
         /\ c.idx # 0 /\ c.sh \in Sound
BY GridAssumption DEF Captured

\* An answer that writes the shift it captured, changed, where that shift was.
LEMMA LateWrite ==
  ASSUME Ready, NEW kinds, NEW c, c \in Captured(kinds), NEW sh, sh \in Sound, sh.id = c.sh.id,
         WriteShift(c.emp, c.day, c.idx, sh)
  PROVE  Typed /\ (Meant(c) => Rewrote({}))
<1>1. /\ c.emp \in Emps /\ c.day \in Dates /\ c.idx \in 1 .. MaxShifts /\ c.sh \in Sound
  BY SlotIs
<1>2. Typed
  BY <1>1, WriteTyped
<1>3. ASSUME Meant(c) PROVE Rewrote({})
  <2>1. /\ c.idx \in DOMAIN shifts[c.emp][c.day]
        /\ c.sh.id = shifts[c.emp][c.day][c.idx].id
    BY <1>1, <1>3, ListIs DEF Meant, Has, Cell
  <2>2. QED
    BY <1>1, <2>1, WriteWhole
<1>4. QED
  BY <1>2, <1>3

LEMMA UnadjustedIsSound ==
  ASSUME NEW c, c \in Captured(Adjustments)
  PROVE  Unadjusted(c) \in Sound /\ Unadjusted(c).id = c.sh.id
<1>1. c.kind \in Adjustments /\ c.sh \in Sound
  BY SlotIs
<1>2. c.sh.adj \ {c.kind} \in SUBSET Adjustments /\ c.sh.adj \ {c.kind} # Adjustments
  BY <1>1 DEF Sound, Shifts
<1>3. QED
  BY <1>1, <1>2 DEF Unadjusted, Sound, Shifts

\* What is asked or in flight, by its kind.
LEMMA PendingIs ==
  ASSUME PendingOK
  PROVE  /\ pending.kind = "shift" => /\ pending.c \in Adding \cup Captured({"shift"})
                                      /\ pending.emp \in Emps /\ pending.day \in Dates
         /\ pending.kind = "attendance" => /\ pending.c \in Captured({"attendance"})
                                           /\ pending.c.sh.id \in 1 .. MaxShifts
         /\ pending.kind = "unmark" => pending.c \in Captured({"unmark"})
         /\ pending.kind = "adjust" => /\ pending.c \in Captured(Adjustments)
                                       /\ Other(pending.c.kind) \notin pending.c.sh.adj
         /\ pending.kind \in {"unadjust", "swap"} => pending.c \in Captured(Adjustments)
         /\ pending.kind = "remove" => pending.c.gone \subseteq Emps
         /\ pending.kind = "days" => pending.c.count \in Dates /\ pending.c.edge \in {"start", "end"}
BY DEF PendingOK, NoPending

LEMMA ShutKeeps ==
  ASSUME DialogOK, NEW kind, dialog' = Shut(kind)
  PROVE  DialogOK'
<1>1. dialog' = dialog \/ dialog' = NoDialog
  BY DEF Shut
<1>2. QED
  BY <1>1, DialogKept

\* An answer that names its shift by the slot it had: it finds that shift, or is late.
LEMMA LandOnSlotKeeps ==
  ASSUME GridInv, ~stale, mix' = mix, pending' = NoPending, LandOnSlot
  PROVE  Advances
<1> DEFINE c == pending.c
<1>1. Ready /\ DaysOK /\ employees \subseteq Emps /\ DialogOK /\ PendingOK
  BY ReadyIs
<1>2. UNCHANGED <<days, employees>> /\ stale' = ~Meant(c)
  BY DEF LandOnSlot
<1>3. DaysOK' /\ employees' \subseteq Emps /\ PendingOK'
  BY <1>1, <1>2, PendingKept DEF DaysOK
<1>4. stale' \in BOOLEAN
  BY <1>2, Zenon
<1>5. ASSUME DialogOK', Typed, Meant(c) => Rewrote({})
      PROVE  Advances
  <2>1. ~stale' => Rewrote({})
    BY <1>2, <1>5
  <2>2. QED
    BY <1>2, <1>3, <1>4, <1>5, <2>1, Kept
<1>6. CASE /\ pending.kind = "attendance"
           /\ SetAttendance(c.emp, c.day, c.idx, c.sh.id)
           /\ dialog' = Shut("attendance")
  <2>1. c \in Captured({"attendance"}) /\ c.sh.id \in 1 .. MaxShifts
    BY <1>1, <1>6, PendingIs
  <2> HIDE DEF c
  <2>2. /\ c.emp \in Emps /\ c.day \in Dates /\ c.idx \in 1 .. MaxShifts
    BY <2>1, SlotIs
  <2>3. Typed
    BY <1>1, <1>6, <2>1, <2>2, SetTyped
  <2>4. ASSUME Meant(c) PROVE Rewrote({})
    <3>1. c.idx \in DOMAIN shifts[c.emp][c.day] /\ c.sh.id = shifts[c.emp][c.day][c.idx].id
      BY <1>1, <2>2, <2>4, ListIs DEF Meant, Has, Cell
    <3>2. QED
      BY <1>1, <1>6, <2>2, <3>1, SetWhole
  <2>5. DialogOK'
    BY <1>1, <1>6, ShutKeeps
  <2>6. QED
    BY <1>5, <2>3, <2>4, <2>5
<1>7. CASE /\ pending.kind = "unmark"
           /\ ClearAttendance(c.emp, c.day, c.idx)
           /\ UNCHANGED dialog
  <2>1. c \in Captured({"unmark"})
    BY <1>1, <1>7, PendingIs
  <2> HIDE DEF c
  <2>2. Rewrote({})
    BY <1>1, <1>7, <2>1, SlotIs, UnmarkWhole
  <2>3. Typed /\ DialogOK'
    BY <1>1, <1>7, <2>2, RewroteTyped, DialogKept
  <2>4. QED
    BY <1>5, <2>2, <2>3
<1>8. CASE /\ pending.kind = "adjust"
           /\ Adjust(c, c.sh)
           /\ dialog' = Shut(c.kind)
  <2> DEFINE new == [c.sh EXCEPT !.adj = @ \cup {c.kind}]
  <2>1. c \in Captured(Adjustments) /\ Other(c.kind) \notin c.sh.adj
    BY <1>1, <1>8, PendingIs
  <2> HIDE DEF c
  <2>2. new \in Sound /\ new.id = c.sh.id
    BY <2>1, SlotIs, AdjustedIsSound
  <2>3. WriteShift(c.emp, c.day, c.idx, new)
    BY <1>8 DEF Adjust
  <2> HIDE DEF new
  <2>4. Typed /\ (Meant(c) => Rewrote({}))
    BY <1>1, <2>1, <2>2, <2>3, LateWrite
  <2>5. DialogOK'
    BY <1>1, <1>8, ShutKeeps
  <2>6. QED
    BY <1>5, <2>4, <2>5
<1>9. CASE /\ pending.kind = "unadjust"
           /\ WriteShift(c.emp, c.day, c.idx, Unadjusted(c))
           /\ UNCHANGED dialog
  <2>1. c \in Captured(Adjustments)
    BY <1>1, <1>9, PendingIs
  <2> HIDE DEF c
  <2>2. Unadjusted(c) \in Sound /\ Unadjusted(c).id = c.sh.id
    BY <2>1, UnadjustedIsSound
  <2>3. Typed /\ (Meant(c) => Rewrote({}))
    BY <1>1, <1>9, <2>1, <2>2, LateWrite
  <2>4. DialogOK'
    BY <1>1, <1>9, DialogKept
  <2>5. QED
    BY <1>5, <2>3, <2>4
<1>10. CASE /\ pending.kind = "swap" /\ dialog = NoDialog
            /\ WriteShift(c.emp, c.day, c.idx, Unadjusted(c))
            /\ dialog' = [c EXCEPT !.kind = Other(@), !.sh = Unadjusted(c)]
  <2>1. c \in Captured(Adjustments)
    BY <1>1, <1>10, PendingIs
  <2> HIDE DEF c
  <2>2. Unadjusted(c) \in Sound /\ Unadjusted(c).id = c.sh.id
    BY <2>1, UnadjustedIsSound
  <2>3. Typed /\ (Meant(c) => Rewrote({}))
    BY <1>1, <1>10, <2>1, <2>2, LateWrite
  <2>4. DialogOK'
    <3>1. c.kind \in Adjustments
      BY <2>1, SlotIs
    <3>2. Other(c.kind) \in Adjustments
      BY <3>1, OtherIs
    <3>3. dialog' \in Captured(Adjustments) /\ dialog'.kind \in Adjustments
      BY <1>10, <2>1, <2>2, <3>2 DEF Captured
    <3>4. dialog' \in Captured({"shift", "move", "copy", "attendance"} \cup Adjustments)
      BY <3>3 DEF Captured
    <3>5. dialog'.kind # "attendance"
      BY <3>3 DEF Adjustments
    <3>6. QED
      BY <3>4, <3>5 DEF DialogOK
  <2>5. QED
    BY <1>5, <2>3, <2>4
<1>11. QED
  BY <1>6, <1>7, <1>8, <1>9, <1>10 DEF LandOnSlot

LEMMA LandKeeps ==
  ASSUME GridInv, ~stale, mix' = mix, Land
  PROVE  Advances
<1>1. Ready /\ DaysOK /\ employees \subseteq Emps /\ DialogOK /\ PendingOK
      /\ Covered(shifts, employees)
  BY ReadyIs DEF GridInv
<1>2. pending' = NoPending /\ PendingOK'
  BY <1>1, PendingKept DEF Land
<1>3. CASE LandOnSlot
  BY <1>2, <1>3, LandOnSlotKeeps
<1>4. CASE /\ pending.kind = "shift"
           /\ ApplyShiftChange(pending.c, pending.emp, {pending.emp}, pending.day)
           /\ Answered(pending.c, {pending.emp})
           /\ dialog' = Shut("shift")
           /\ UNCHANGED <<days, employees>>
  <2> DEFINE c == pending.c
             people == {pending.emp}
  <2>1. c \in Adding \cup Captured({"shift"}) /\ pending.emp \in Emps /\ pending.day \in Dates
    BY <1>1, <1>4, PendingIs
  <2>2. c.emp \in Emps /\ c.day \in Dates /\ c.idx \in 0 .. MaxShifts /\ c.sh \in Sound
    BY <2>1, HoleIsSound, GridAssumption DEF Adding, Captured
  <2>3. people \in SUBSET Emps /\ pending.emp \in people
    BY <2>1
  <2>4. stale' = (~(c.idx = 0 \/ Meant(c)) \/ ~(people \subseteq employees))
    BY <1>4 DEF Answered
  <2>5. ApplyShiftChange(c, pending.emp, people, pending.day)
    BY <1>4
  <2> HIDE DEF c, people
  <2>6. Typed /\ (c.idx = 0 \/ Meant(c) => Rewrote(people))
    BY <1>1, <2>1, <2>2, <2>3, <2>5, Assigned
  <2>7. stale' \in BOOLEAN
    BY <2>4, Zenon
  <2>8. ~stale' => Rewrote(people) /\ people \subseteq employees'
    BY <1>4, <2>4, <2>6
  <2>9. DaysOK' /\ employees' \subseteq Emps /\ DialogOK' /\ employees \subseteq employees'
    BY <1>1, <1>4, ShutKeeps DEF DaysOK
  <2>10. QED
    BY <1>2, <2>6, <2>7, <2>8, <2>9, Kept
<1>5. CASE /\ pending.kind = "remove"
           /\ RemoveEmployees(pending.c.gone)
           /\ UNCHANGED <<days, dialog, stale>>
  <2> DEFINE gone == pending.c.gone
  <2>1. gone \in SUBSET Emps
    BY <1>1, <1>5, PendingIs
  <2> HIDE DEF gone
  <2>2. /\ Rewrote({}) /\ employees' = employees \ gone
        /\ \A f \in gone, x \in Dates : shifts'[f][x] = <<>>
    BY <1>1, <1>5, <2>1, RemoveWhole DEF gone
  <2>3. DaysOK' /\ employees' \subseteq Emps /\ DialogOK'
    BY <1>1, <1>5, <2>2, DialogKept DEF DaysOK
  <2>4. Typed
    BY <2>2, RewroteTyped
  <2>5. Covered(shifts', employees')
    <3>1. ASSUME NEW f \in Emps \ employees', NEW x \in Dates
          PROVE  shifts'[f][x] = <<>>
      <4>1. CASE f \in gone
        BY <2>2, <4>1
      <4>2. CASE f \notin gone
        <5>1. shifts[f][x] = <<>>
          BY <1>1, <2>2, <4>2 DEF Covered
        <5>2. QED
          BY <2>2, <5>1 DEF Rewrote
      <4>3. QED
        BY <4>1, <4>2
    <3>2. QED
      BY <3>1 DEF Covered
  <2>6. Shape'
    BY <1>2, <1>5, <2>3, <2>4 DEF GridInv, Shape, Typed
  <2>7. QED
    BY <2>2, <2>5, <2>6 DEF GridInv, Rewrote, Advances
<1>6. CASE /\ pending.kind = "days"
           /\ SetDayCount(pending.c.count, pending.c.edge)
           /\ stale' = (days # pending.c.days)
           /\ UNCHANGED <<employees, dialog>>
  <2>1. pending.c.count \in Dates /\ pending.c.edge \in {"start", "end"}
    BY <1>1, <1>6, PendingIs
  <2>2. Rewrote({}) /\ DaysOK'
    BY <1>1, <1>6, <2>1, DaysWhole
  <2>3. employees' \subseteq Emps /\ DialogOK' /\ employees \subseteq employees'
    BY <1>1, <1>6, DialogKept
  <2>4. Typed /\ stale' \in BOOLEAN
    BY <1>6, <2>2, RewroteTyped
  <2>5. QED
    BY <1>2, <2>2, <2>3, <2>4, Kept
<1>7. QED
  BY <1>3, <1>4, <1>5, <1>6 DEF Land

-----------------------------------------------------------------------------
(* The theorems.                                                           *)

LEMMA InitKeeps ==
  ASSUME Init
  PROVE  GridInv
<1> DEFINE first == [id |-> 1, adj |-> {}]
<1>1. /\ Emps # {} /\ InitCell \in Emps \X Dates /\ MaxShifts \in Nat \ {0}
      /\ mix \in Mixes
      /\ \E a, b \in Dates : mix.days = a .. b /\ InitCell[2] \in mix.days
  BY GridAssumption DEF Init, Dates
<1>2. DaysOK
  <2>1. PICK a, b \in Dates : mix.days = a .. b /\ InitCell[2] \in mix.days
    BY <1>1
  <2>2. a <= b
    BY <2>1, GridAssumption DEF Dates
  <2>3. QED
    BY <2>1, <2>2 DEF Init, DaysOK
<1>3. first \in Sound /\ first.id = 1
  BY <1>1 DEF Sound, Shifts, Adjustments
<1> HIDE DEF first
<1>4. \A e \in Emps, d \in Dates : shifts[e][d] = IF <<e, d>> = InitCell THEN <<first>> ELSE <<>>
  BY DEF Init, first
<1>5. shifts \in Table
  <2>1. <<first>> \in Seq(Sound) /\ <<>> \in Seq(Sound)
    BY <1>3
  <2>2. shifts = [e \in Emps |-> [d \in Dates |-> IF <<e, d>> = InitCell THEN <<first>> ELSE <<>>]]
    BY DEF Init, first
  <2>3. QED
    BY <2>1, <2>2 DEF Table
<1>6. \A e \in Emps, d \in Dates : \A i \in DOMAIN shifts[e][d] :
        <<e, d>> = InitCell /\ i = 1 /\ shifts[e][d][i].id = 1
  BY <1>3, <1>4
<1>7. DOMAIN attendance = {}
  BY DEF Init
<1>8. Whole(shifts, attendance, nextId)
  <2>1. nextId = 2
    BY DEF Init
  <2>2. Numbered(shifts, nextId)
    BY <1>6, <2>1 DEF Numbered
  <2>3. Once(shifts)
    <3>1. \A e, f \in Emps, d, x \in Dates : <<e, d>> = <<f, x>> => e = f /\ d = x
      OBVIOUS
    <3>2. QED
      BY <1>6, <3>1 DEF Once
  <2>4. QED
    BY <1>5, <1>7, <2>2, <2>3 DEF Whole, Attached
<1>9. Covered(shifts, employees)
  BY DEF Init, Covered
<1>10. Shape
  <2>1. nextId \in 1 .. MaxShifts + 1 /\ employees \subseteq Emps
    BY <1>1 DEF Init
  <2>2. stale \in BOOLEAN
    BY Zenon DEF Init
  <2>3. DialogOK /\ PendingOK
    BY DEF Init, DialogOK, PendingOK, NoDialog
  <2>4. QED
    BY <1>1, <1>2, <1>5, <1>7, <2>1, <2>2, <2>3 DEF Shape
<1>11. QED
  BY <1>8, <1>9, <1>10 DEF GridInv

LEMMA NextAdvances ==
  ASSUME GridInv, Next
  PROVE  Advances
<1>1. ~stale /\ mix' = mix
  BY DEF Next
<1>2. CASE DialogStep
  BY <1>1, <1>2, OpenKeeps, CloseKeeps, SubmitShiftKeeps, SubmitNewSiteKeeps, SubmitMoveKeeps,
     SubmitCopyKeeps, SubmitAttendanceKeeps, SubmitAdjustmentKeeps DEF DialogStep
<1>3. CASE GridStep
  BY <1>1, <1>3, GridStepKeeps
<1>4. CASE AskStep
  BY <1>1, <1>4, AsksKeep, LandKeeps DEF AskStep
<1>5. QED
  BY <1>2, <1>3, <1>4 DEF Next

LEMMA NextKeeps ==
  ASSUME GridInv, [Next]_vars
  PROVE  GridInv'
<1>1. CASE UNCHANGED vars
  BY <1>1 DEF vars, GridInv, Shape, DaysOK, DialogOK, PendingOK
<1>2. CASE Next
  BY <1>2, NextAdvances DEF Advances
<1>3. QED
  BY <1>1, <1>2

\* The book's places are the identities in the cells of the grid.
Spots == {<<IdAt(s), <<s[1], s[2]>>>> : s \in Placed}

LEMMA SpotsAre == GridInv /\ ~stale => Spots = PlaceOf(Held(shifts))
<1> SUFFICES ASSUME GridInv, ~stale
             PROVE  Spots = PlaceOf(Held(shifts))
  OBVIOUS
<1>1. Ready
  BY ReadyIs
<1>2. ASSUME NEW p \in Spots
      PROVE  p \in PlaceOf(Held(shifts))
  <2>1. PICK s \in Placed : p = <<IdAt(s), <<s[1], s[2]>>>>
    BY DEF Spots
  <2>2. s[1] \in Emps /\ s[2] \in Dates /\ s[3] \in DOMAIN shifts[s[1]][s[2]]
        /\ IdAt(s) = shifts[s[1]][s[2]][s[3]].id
    BY <1>1, ListIs DEF Placed, Slots, Has, Cell, IdAt
  <2>3. IdAt(s) \in Nat
    BY <1>1, <2>2, ListIs, NextIdIs
  <2>4. IdAt(s) \in Held(shifts)[<<s[1], s[2]>>] /\ <<s[1], s[2]>> \in Cells
    BY <2>2, CellIs
  <2>5. QED
    BY <2>1, <2>3, <2>4 DEF PlaceOf
<1>3. ASSUME NEW p \in PlaceOf(Held(shifts))
      PROVE  p \in Spots
  <2>1. PICK k \in Nat, c \in Cells : p = <<k, c>> /\ k \in Held(shifts)[c]
    BY DEF PlaceOf
  <2>2. c = <<c[1], c[2]>> /\ c[1] \in Emps /\ c[2] \in Dates
    BY CellsAre
  <2>3. PICK i \in DOMAIN shifts[c[1]][c[2]] : k = shifts[c[1]][c[2]][i].id
    BY <2>1 DEF Held
  <2>4. i \in 1 .. Len(shifts[c[1]][c[2]]) /\ shifts[c[1]][c[2]][i] # Hole /\ i \in 1 .. MaxShifts
    BY <1>1, <2>2, ListIs, LenBound, GridAssumption
  <2> DEFINE s == <<c[1], c[2], i>>
  <2>5. s \in Placed /\ IdAt(s) = k /\ p = <<IdAt(s), <<s[1], s[2]>>>>
    BY <2>1, <2>2, <2>3, <2>4 DEF Placed, Slots, Has, Cell, IdAt
  <2>6. QED
    BY <2>5 DEF Spots
<1>4. QED
  BY <1>2, <1>3

\* The invariant of the grid: its shape always, and until an answer comes too late, every
\* shift once, every mark with its shift and every shift in a row shown.
THEOREM GridInvariant == Spec => []GridInv
<1>1. Init => GridInv
  BY InitKeeps
<1>2. GridInv /\ [Next]_vars => GridInv'
  BY NextKeeps
<1>3. QED
  BY <1>1, <1>2, PTL DEF Spec

\* The variables keep their types, late answers or not.
THEOREM GridTypes == Spec => []TypeOK
<1>1. GridInv => TypeOK
  <2> SUFFICES ASSUME GridInv PROVE TypeOK
    OBVIOUS
  <2>1. Shape
    BY DEF GridInv
  <2>2. days \in SUBSET Dates /\ days # {}
    <3>1. PICK a, b \in Dates : a <= b /\ days = a .. b
      BY <2>1 DEF Shape, DaysOK
    <3>2. a \in a .. b
      BY <3>1, GridAssumption DEF Dates
    <3>3. a .. b \subseteq Dates
      BY <3>1, GridAssumption DEF Dates
    <3>4. QED
      BY <3>1, <3>2, <3>3
  <2>3. shifts \in [Emps -> [Dates -> Seq(Shifts)]]
    <3>1. ASSUME NEW s \in Seq(Sound) PROVE s \in Seq(Shifts)
      <4>1. s \in [1 .. Len(s) -> Sound] /\ Len(s) \in Nat
        BY <3>1
      <4>2. s \in [1 .. Len(s) -> Shifts]
        BY <4>1 DEF Sound
      <4>3. QED
        BY <4>1, <4>2, SeqDef
    <3>2. QED
      BY <2>1, <3>1 DEF Shape, Table
  <2>4. Range(attendance) \subseteq 1 .. MaxShifts
    BY <2>1 DEF Shape, Range
  <2>5. QED
    BY <2>1, <2>2, <2>3, <2>4 DEF Shape, TypeOK
<1>2. QED
  BY <1>1, GridInvariant, PTL

\* Each shift is in the grid once, and a mark stays with the shift it was made for.
THEOREM MarksFollow == Spec => []AttendanceFollows
<1>1. GridInv => AttendanceFollows
  <2> SUFFICES ASSUME GridInv, ~stale
               PROVE  /\ \A s, t \in Placed : IdAt(s) = IdAt(t) => s = t
                      /\ \A s \in DOMAIN attendance : s \in Placed /\ attendance[s] = IdAt(s)
    BY DEF AttendanceFollows
  <2>1. Ready /\ Once(shifts) /\ Attached(shifts, attendance) /\ DOMAIN attendance \subseteq Slots
    BY DEF GridInv, Ready, Whole, Shape
  <2>2. ASSUME NEW s \in Placed, NEW t \in Placed, IdAt(s) = IdAt(t)
        PROVE  s = t
    <3>1. /\ s \in Slots /\ s[3] \in DOMAIN shifts[s[1]][s[2]]
          /\ t \in Slots /\ t[3] \in DOMAIN shifts[t[1]][t[2]]
      BY <2>1, ListIs DEF Placed, Has, Cell, Slots
    <3>2. s[1] = t[1] /\ s[2] = t[2] /\ s[3] = t[3]
      BY <2>1, <2>2, <3>1 DEF Once, IdAt, Cell, Slots
    <3>3. QED
      BY <3>1, <3>2 DEF Slots
  <2>3. ASSUME NEW s \in DOMAIN attendance
        PROVE  s \in Placed /\ attendance[s] = IdAt(s)
    <3>1. /\ s \in Slots /\ s[1] \in Emps /\ s[2] \in Dates
          /\ s[3] \in DOMAIN shifts[s[1]][s[2]]
          /\ attendance[s] = shifts[s[1]][s[2]][s[3]].id
      BY <2>1 DEF Attached, Slots
    <3>2. Has(s[1], s[2], s[3])
      BY <2>1, <3>1, ListIs DEF Has, Cell
    <3>3. QED
      BY <3>1, <3>2 DEF Placed, IdAt, Cell
  <2>4. QED
    BY <2>2, <2>3
<1>2. QED
  BY <1>1, GridInvariant, PTL

\* Every shift is in a row that is shown.
THEOREM RowsHaveShifts == Spec => []RowsCover
<1>1. GridInv => RowsCover
  <2> SUFFICES ASSUME GridInv, ~stale, NEW s \in Placed
               PROVE  s[1] \in employees
    BY DEF RowsCover
  <2>1. Ready /\ Covered(shifts, employees)
    BY DEF GridInv, Ready
  <2>2. s[1] \in Emps /\ s[2] \in Dates /\ s[3] \in 1 .. Len(shifts[s[1]][s[2]])
    BY DEF Placed, Slots, Has, Cell
  <2>3. shifts[s[1]][s[2]] # <<>>
    BY <2>2
  <2>4. QED
    BY <2>1, <2>2, <2>3 DEF Covered
<1>2. QED
  BY <1>1, GridInvariant, PTL

\* No shift has overtime and an early finish at once.
THEOREM NotBothAdjustments == Spec => []AdjustmentsExclusive
<1>1. GridInv => AdjustmentsExclusive
  <2> SUFFICES ASSUME GridInv, NEW e \in Emps, NEW d \in Dates, NEW i \in DOMAIN Cell(e, d)
               PROVE  Cell(e, d)[i].adj # Adjustments
    BY DEF AdjustmentsExclusive
  <2>1. shifts[e][d] \in Seq(Sound)
    BY DEF GridInv, Shape, Table
  <2>2. shifts[e][d][i] \in Sound
    BY <2>1, LenProperties, ElementOfSeq DEF Cell
  <2>3. QED
    BY <2>2 DEF Cell, Sound
<1>2. QED
  BY <1>1, GridInvariant, PTL

LEMMA StartsBook ==
  ASSUME Init
  PROVE  Book!Init
<1>1. GridInv /\ ~stale
  BY InitKeeps, Zenon DEF Init
<1>2. Ready /\ nextId \in Nat
  BY <1>1, ReadyIs, NextIdIs
<1>3. Single(Held(shifts), nextId)
  BY <1>2, NextIdIs, HeldIs
<1>4. Spots \in SUBSET ((1 .. nextId - 1) \X (Emps \X Dates))
  <2>1. ASSUME NEW p \in Spots
        PROVE  p \in (1 .. nextId - 1) \X (Emps \X Dates)
    <3>1. p \in PlaceOf(Held(shifts))
      BY <1>1, SpotsAre
    <3>2. p = <<p[1], p[2]>> /\ p[1] \in 1 .. nextId - 1 /\ p[2] \in Cells
      BY <1>2, <1>3, <3>1, PlacedOnce
    <3>3. QED
      BY <3>2 DEF Cells
  <2>2. QED
    BY <2>1
<1>5. Range(attendance) = {}
  BY DEF Init, Range
<1>6. (~stale) = TRUE
  BY <1>1, Zenon
<1>7. QED
  BY <1>4, <1>5, <1>6 DEF Book!Init, Spots

LEMMA StepsInBook ==
  ASSUME GridInv, GridInv', [Next]_vars
  PROVE  [Book!Next]_(Book!vars)
<1>1. CASE UNCHANGED vars
  BY <1>1 DEF vars, Book!vars, Placed, IdAt, Has, Cell
<1>2. CASE Next /\ stale'
  <2>1. ~stale
    BY <1>2 DEF Next
  <2>2. (~stale') = FALSE
    BY <1>2, Zenon
  <2>3. QED
    BY <2>1, <2>2 DEF Book!Next, Book!GiveUp
<1>3. CASE Next /\ ~stale'
  <2>1. ~stale /\ InBook
    BY <1>3, NextAdvances DEF Next, Advances
  <2>2. Spots = PlaceOf(Held(shifts)) /\ Spots' = PlaceOf(Held(shifts'))
    <3>1. (GridInv /\ ~stale => Spots = PlaceOf(Held(shifts)))'
      BY SpotsAre, PTL
    <3>2. QED
      BY <1>3, <2>1, <3>1, SpotsAre
  <2>3. Booked(Spots, Spots', 1 .. nextId - 1, 1 .. nextId' - 1, Range(attendance), Range(attendance'))
    BY <2>1, <2>2 DEF InBook
  <2>4. QED
    BY <1>3, <2>1, <2>3 DEF Booked, Spots, Book!Next, Book!Make, Book!Reassign, Book!Remove, Book!Mark,
       Book!Unmark, Book!OneCell, Book!Made, Book!Left, Book!Came, Book!ShiftsOf
<1>4. QED
  BY <1>1, <1>2, <1>3

\* The grid implements the book of shifts: whatever a reducer does to the lists, indexes and
\* marks, a shift is made once, sits in one cell, and is moved or removed only on its own
\* account, its mark with it.
THEOREM BookKept == Spec => ImplementsShiftBook
<1>1. Init => Book!Init
  BY StartsBook
<1>2. GridInv /\ GridInv' /\ [Next]_vars => [Book!Next]_(Book!vars)
  BY StepsInBook
<1>3. QED
  BY <1>1, <1>2, GridInvariant, PTL DEF Spec, ImplementsShiftBook, Book!Spec

=============================================================================
