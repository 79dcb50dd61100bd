---------------------------- MODULE AuthorityProofs ----------------------------
(***************************************************************************)
(* For any number of robots and any history size: the cycle managers keep  *)
(* their types, their walk through a history finds the cycles of its       *)
(* assignments, and what they do implements AuthorityContest.              *)
(***************************************************************************)
EXTENDS AuthorityProperties, DataInduction, FiniteSetTheorems, SequenceTheorems

-------------------------------------------------------------------------------
(* The messages of a tick *)

\* A message, obeyed, rejected or ignored, leaves a cycle manager
\* (CycleManager.cpp:167).
LEMMA HandleType ==
  ASSUME NEW r \in Robots, NEW c \in CycleManager, NEW m \in Info
  PROVE  HandleAuthorityInfo(r, c, m) \in CycleManager
BY DEF HandleAuthorityInfo, Overriding, CycleManager, CycleState

\* Whatever waits in the queue, the last message decides what becomes of the
\* cycle manager.
LEMMA LastMessageDecides ==
  ASSUME NEW r \in Robots, NEW before \in CycleManager, NEW heard \in Seq(Info)
  PROVE  IF heard = << >> THEN HandleAll(r, before, heard) = before
         ELSE \E c \in CycleManager :
                HandleAll(r, before, heard) = HandleAuthorityInfo(r, c, heard[Len(heard)])
<1> DEFINE n == Len(heard)
           Step(c, k) == HandleAuthorityInfo(r, c, heard[k])
           steps == [k \in 1..n |-> [c \in CycleManager |-> Step(c, k)]]
           g == CHOOSE h : h = [k \in 0..n |-> IF k = 0 THEN before ELSE Step(h[k - 1], k)]
<1>1. n \in Nat
  OBVIOUS
<1>2. \A k \in 1..n : \A c \in CycleManager : Step(c, k) \in CycleManager
  BY HandleType
<1>3. HandleAll(r, before, heard) = g[n]
  BY DEF HandleAll
<1>4. n = 0 <=> heard = << >>
  OBVIOUS
<1> HIDE DEF n, Step
<1>5. steps \in StepsOn(CycleManager, n)
  BY <1>2 DEF StepsOn
<1> HIDE DEF steps
<1>6. PICK f : StaysIn(f, CycleManager, n) /\ Unfolds(f, before, steps, n)
  BY <1>1, <1>5, IntervalRecursion
<1>7. f \in [0..n -> CycleManager] /\ f[0] = before
      /\ \A k \in 1..n : f[k] = Step(f[k - 1], k)
  BY <1>1, <1>6 DEF StaysIn, Unfolds, steps
<1>8. f = [k \in 0..n |-> IF k = 0 THEN before ELSE Step(f[k - 1], k)]
  BY <1>1, <1>7
<1>9. g = [k \in 0..n |-> IF k = 0 THEN before ELSE Step(g[k - 1], k)]
  BY <1>8
<1> HIDE DEF g
<1>10. SameSteps(f, g, n)
  BY <1>1, <1>7, <1>9 DEF SameSteps
<1>11. f[n] = g[n]
  BY <1>1, <1>10, IntervalUnique DEF SameValues
<1>12. CASE n = 0
  BY <1>3, <1>4, <1>9, <1>12
<1>13. CASE n # 0
  BY <1>1, <1>3, <1>4, <1>7, <1>11, <1>13 DEF Step, n
<1>14. QED
  BY <1>12, <1>13

-------------------------------------------------------------------------------
(* The invariant *)

Slots == Change \cup {NoChange}

TypesInv ==
  /\ ass \in [Robots -> Assignment]
  /\ hist \in [Robots -> Seq(Slots)]
  /\ \A r \in Robots : Len(hist[r]) = HistorySize
  /\ cm \in [Robots -> CycleManager]
  /\ net \in [Robots -> SUBSET Info]
  /\ \A r \in Robots : IsFiniteSet(net[r])
  /\ detections \in 0..MaxDetections
  /\ claimed \subseteq Robots

\* A message is the claim of another robot.
GoodMessage(r, m) == m.authority # r /\ m.authority \in claimed

\* A robot overrides only after it has claimed, and obeys only a higher robot
\* that has.
GoodManager(r, c) ==
  /\ c.state = "overriding" => r \in claimed
  /\ c.state = "overridden" =>
       c.fixed \in Info /\ c.fixed.authority > r /\ c.fixed.authority \in claimed

\* Claims in flight, and claims obeyed after they were given up, were made.
ClaimsInv ==
  \A r \in Robots : GoodManager(r, cm[r]) /\ \A m \in net[r] : GoodMessage(r, m)

AuthorityInv == TypesInv /\ ClaimsInv

-------------------------------------------------------------------------------
(* The walk through the history *)

\* The difference of two assignments.
Between(x, y) == [add |-> Pairs(y) \ Pairs(x), sub |-> Pairs(x) \ Pairs(y)]

\* Differences compose: what led from a to b, after what led from b to c.
LEMMA DifferencesCompose ==
  ASSUME NEW x, NEW y, NEW z
  PROVE  ApplyDifference(Between(y, z), Between(x, y)) = Between(x, z)
<1> DEFINE d == Between(y, z)
           o == Between(x, y)
           add == d.add \cup (o.add \ d.sub)
           X == Pairs(x)
           Y == Pairs(y)
           Z == Pairs(z)
<1>1. d.add = Z \ Y /\ d.sub = Y \ Z /\ o.add = Y \ X /\ o.sub = X \ Y
  BY DEF Between
<1>2. add \ o.sub = Z \ X
  BY <1>1
<1>3. (d.sub \ o.add) \cup (o.sub \ add) = X \ Z
  BY <1>1
<1>4. ApplyDifference(d, o)
        = [add |-> add \ o.sub, sub |-> (d.sub \ o.add) \cup (o.sub \ add)]
  BY DEF ApplyDifference
<1> HIDE DEF add, d, o
<1>5. QED
  BY <1>2, <1>3, <1>4 DEF Between, d, o

LEMMA FirstDifference ==
  ASSUME NEW x, NEW y
  PROVE  ApplyDifference(NoDifference, Between(x, y)) = Between(x, y)
<1> DEFINE o == Between(x, y)
           add == NoDifference.add \cup (o.add \ NoDifference.sub)
<1>1. NoDifference.add = {} /\ NoDifference.sub = {} /\ o.add \cap o.sub = {}
  BY DEF NoDifference, Between
<1>2. add \ o.sub = o.add
      /\ (NoDifference.sub \ o.add) \cup (o.sub \ add) = o.sub
  BY <1>1
<1>3. ApplyDifference(NoDifference, o)
        = [add |-> add \ o.sub,
           sub |-> (NoDifference.sub \ o.add) \cup (o.sub \ add)]
  BY DEF ApplyDifference
<1>4. o = [add |-> o.add, sub |-> o.sub]
  BY DEF Between
<1> HIDE DEF add, o
<1>5. QED
  BY <1>2, <1>3, <1>4 DEF o

LEMMA NoneMeansSame ==
  ASSUME NEW x \in Assignment, NEW y \in Assignment
  PROVE  Between(x, y) = NoDifference <=> x = y
<1>1. ASSUME Between(x, y) = NoDifference PROVE x = y
  <2>1. Pairs(y) \ Pairs(x) = {}
    BY <1>1 DEF Between, NoDifference
  <2>2. ASSUME NEW q \in Agents PROVE x[q] = y[q]
    <3>1. <<q, y[q]>> \in Pairs(x)
      BY <2>1 DEF Pairs
    <3>2. PICK s \in Agents : <<q, y[q]>> = <<s, x[s]>>
      BY <3>1 DEF Pairs
    <3>3. QED
      BY <3>2
  <2>3. QED
    BY <2>2 DEF Assignment
<1>2. ASSUME x = y PROVE Between(x, y) = NoDifference
  BY <1>2 DEF Between, NoDifference
<1>3. QED
  BY <1>1, <1>2

\* A full ring buffer.
History == [1..HistorySize -> Slots]

LEMMA UtilitiesCounted ==
  ASSUME NEW ch \in History, NEW k \in Nat
  PROVE  IsFiniteSet(UtilitiesAfter(ch, k)) /\ Cardinality(UtilitiesAfter(ch, k)) \in Nat
<1>1. IsFiniteSet(1..HistorySize)
  BY AuthorityAssumption, FS_Interval
<1>2. UtilitiesAfter(ch, k) \subseteq 1..HistorySize
  BY DEF UtilitiesAfter, History
<1>3. QED
  BY <1>1, <1>2, FS_Subset, FS_CardinalityType

LEMMA FewerAfter ==
  ASSUME NEW ch \in History, NEW k \in Nat, NEW l \in Nat, k <= l
  PROVE  /\ UtilitiesAfter(ch, l) \subseteq UtilitiesAfter(ch, k)
         /\ Cardinality(UtilitiesAfter(ch, l)) <= Cardinality(UtilitiesAfter(ch, k))
<1>1. UtilitiesAfter(ch, l) \subseteq UtilitiesAfter(ch, k)
  BY DEF UtilitiesAfter, History
<1>2. QED
  BY <1>1, UtilitiesCounted, FS_Subset

LEMMA OneMoreAfter ==
  ASSUME NEW ch \in History, NEW p \in 1..HistorySize
  PROVE  IF ch[p].reason = "utility"
         THEN /\ UtilitiesAfter(ch, p - 1) = UtilitiesAfter(ch, p) \cup {p}
              /\ Cardinality(UtilitiesAfter(ch, p - 1))
                   = Cardinality(UtilitiesAfter(ch, p)) + 1
         ELSE UtilitiesAfter(ch, p - 1) = UtilitiesAfter(ch, p)
<1>1. p \in Nat /\ p - 1 \in Nat
  BY AuthorityAssumption
<1>2. CASE ch[p].reason = "utility"
  <2>1. UtilitiesAfter(ch, p - 1) = UtilitiesAfter(ch, p) \cup {p}
    BY <1>1, <1>2, AuthorityAssumption DEF UtilitiesAfter, History
  <2>2. p \notin UtilitiesAfter(ch, p)
    BY <1>1 DEF UtilitiesAfter
  <2>3. QED
    BY <1>1, <1>2, <2>1, <2>2, UtilitiesCounted, FS_AddElement
<1>3. CASE ch[p].reason # "utility"
  BY <1>1, <1>3, AuthorityAssumption DEF UtilitiesAfter, History
<1>4. QED
  BY <1>2, <1>3

\* A tolerated number of utility changes after an empty slot is no cycle.
LEMMA EmptyIsNoRound ==
  ASSUME NEW ch \in History, NEW p \in 1..HistorySize, ch[p].reason = "empty",
         Cardinality(UtilitiesAfter(ch, p)) <= MaxCycles
  PROVE  ~ WentRound(ch)
<1> SUFFICES ASSUME WentRound(ch) PROVE FALSE
  OBVIOUS
<1> USE AuthorityAssumption
<1> DEFINE older == UtilitiesAfter(ch, 0) \ UtilitiesAfter(ch, p)
           gaps == {n \in Nat : \E k \in older : n = p - k}
<1>1. UtilitiesAfter(ch, 0) # UtilitiesAfter(ch, p)
  BY UtilitiesCounted DEF WentRound
<1>2. UtilitiesAfter(ch, p) \subseteq UtilitiesAfter(ch, 0)
  BY FewerAfter
<1>3. older # {} /\ \A k \in older : k \in 1..HistorySize /\ k <= p
  BY <1>1, <1>2 DEF UtilitiesAfter, History
<1>4. gaps # {} /\ gaps \in SUBSET Nat
  <2>1. PICK k \in older : TRUE
    BY <1>3
  <2>2. p - k \in gaps
    BY <1>3, <2>1
  <2>3. QED
    BY <2>2
<1>5. PICK n \in gaps : \A m \in gaps : n <= m
  <2> HIDE DEF gaps
  <2>1. QED
    BY <1>4, LeastNatural
<1>6. PICK k \in older : n = p - k
  BY <1>5
<1>7. \A l \in older : l <= k
  BY <1>3, <1>5, <1>6
<1>8. UtilitiesAfter(ch, k) = UtilitiesAfter(ch, p)
  <2>1. \A l \in UtilitiesAfter(ch, k) : l \in UtilitiesAfter(ch, 0) /\ l > k /\ l \in Nat
    BY <1>3, <1>6 DEF UtilitiesAfter, History
  <2>2. UtilitiesAfter(ch, k) \subseteq UtilitiesAfter(ch, p)
    BY <1>3, <1>6, <1>7, <2>1
  <2>3. UtilitiesAfter(ch, p) \subseteq UtilitiesAfter(ch, k)
    BY <1>3, <1>6, FewerAfter
  <2>4. QED
    BY <2>2, <2>3
<1>9. p < k
  BY <1>6, <1>8 DEF WentRound, History
<1>10. QED
  BY <1>3, <1>6, <1>9

\* The state of the walk while it searches and p slots are left: k is the utility
\* change whose cycle is open.
OpenAt(ch, w, p, k) ==
  /\ k \in UtilitiesAfter(ch, p)
  /\ UtilitiesAfter(ch, p) = UtilitiesAfter(ch, k) \cup {k}
  /\ w.cycles = Cardinality(UtilitiesAfter(ch, k))
  /\ \A l \in UtilitiesAfter(ch, k) : Closes(ch, l)
  /\ \A i \in (p + 1)..(k - 1) : ch[i].reason = "message" /\ ch[i].before # ch[k].after
  /\ w.temp = Between(ch[p + 1].before, ch[k].after)

Searching(ch, w, p) ==
  /\ ~ w.found /\ w.cycles <= MaxCycles
  /\ \A e \in DOMAIN ch : e > p => ch[e].reason # "empty"
  /\ ~ w.open => /\ w.cycles = Cardinality(UtilitiesAfter(ch, p))
                 /\ \A l \in UtilitiesAfter(ch, p) : Closes(ch, l)
  /\ w.open => \E k \in UtilitiesAfter(ch, p) : OpenAt(ch, w, p, k)

Differences == [add : SUBSET (Agents \X EntryPoints), sub : SUBSET (Agents \X EntryPoints)]

Walk == [open : BOOLEAN, temp : Differences, cycles : Nat, found : BOOLEAN, over : BOOLEAN]

WalkInv(ch, w, p) ==
  IF w.over THEN w.found <=> WentRound(ch) ELSE Searching(ch, w, p)

\* The utility change of an open cycle is not closed by what is looked at, nor
\* beyond a slot that is no message.
LEMMA OpenIsNoRound ==
  ASSUME NEW ch \in History, NEW w \in Walk, NEW p \in 0..HistorySize, NEW k,
         OpenAt(ch, w, p, k), w.cycles <= MaxCycles, p # 0 => ch[p].reason # "message"
  PROVE  ~ WentRound(ch)
<1> USE AuthorityAssumption
<1>1. k \in 1..HistorySize /\ k > p /\ k \in UtilitiesAfter(ch, 0)
  BY DEF OpenAt, UtilitiesAfter, History
<1>2. ASSUME NEW j \in MessagesBefore(ch, k) PROVE ch[k].after # ch[j].before
  <2>1. j \in 1..(k - 1) /\ \A i \in j..(k - 1) : ch[i].reason = "message"
    BY <1>2 DEF MessagesBefore
  <2>2. j > p
    BY <1>1, <2>1
  <2>3. j \in (p + 1)..(k - 1)
    BY <1>1, <2>1, <2>2
  <2>4. QED
    BY <2>3 DEF OpenAt
<1>3. ~ Closes(ch, k)
  BY <1>2 DEF Closes
<1>4. Cardinality(UtilitiesAfter(ch, k)) <= MaxCycles
  BY DEF OpenAt
<1>5. QED
  BY <1>1, <1>3, <1>4 DEF WentRound

LEMMA LookType ==
  ASSUME NEW w \in Walk, NEW c \in Slots
  PROVE  Look(w, c) \in Walk
<1> DEFINE d == Difference(c)
<1>1. ASSUME c.reason \in {"utility", "message"}, NEW t \in Differences
      PROVE  ApplyDifference(t, d) \in Differences
  <2>1. c \in Change
    BY <1>1 DEF Slots, NoChange
  <2>2. \A a \in Assignment : Pairs(a) \subseteq Agents \X EntryPoints
    BY DEF Pairs, Assignment
  <2>3. d \in Differences
    BY <2>1, <2>2 DEF Difference, Differences, Change
  <2> HIDE DEF d
  <2>4. QED
    BY <1>1, <2>3 DEF ApplyDifference, Differences
<1>2. NoDifference \in Differences
  BY DEF NoDifference, Differences
<1>3. c.reason \in {"utility", "message", "empty"}
  BY DEF Slots, Change, NoChange
<1>4. CASE w.over
  BY <1>4 DEF Look
<1>5. CASE ~ w.over /\ c.reason = "utility"
  BY <1>1, <1>2, <1>5 DEF Look, Walk
<1>6. CASE ~ w.over /\ c.reason = "empty"
  BY <1>6 DEF Look, Walk
<1>7. CASE ~ w.over /\ c.reason = "message"
  <2>1. ApplyDifference(w.temp, d) \in Differences
    BY <1>1, <1>7 DEF Walk
  <2>2. TooMany(w.cycles + 1) \in BOOLEAN
    BY DEF TooMany
  <2> DEFINE t == ApplyDifference(w.temp, d)
             more == TooMany(w.cycles + 1)
  <2>3. Look(w, c) = IF ~ w.open THEN w
                     ELSE IF t # NoDifference THEN [w EXCEPT !.temp = t]
                     ELSE [w EXCEPT !.temp = t, !.open = FALSE, !.cycles = @ + 1,
                                    !.found = more, !.over = more]
    BY <1>7 DEF Look
  <2>4. t \in Differences /\ more \in BOOLEAN
    BY <2>1, <2>2
  <2> HIDE DEF t, more
  <2>5. CASE ~ w.open
    BY <2>3, <2>5
  <2>6. CASE w.open /\ t # NoDifference
    BY <2>3, <2>4, <2>6 DEF Walk
  <2>7. CASE w.open /\ t = NoDifference
    <3>1. Look(w, c) = [open |-> FALSE, temp |-> t, cycles |-> w.cycles + 1,
                        found |-> more, over |-> more]
      BY <2>3, <2>7 DEF Walk
    <3>2. w.cycles + 1 \in Nat
      BY DEF Walk
    <3>3. QED
      BY <2>4, <3>1, <3>2 DEF Walk
  <2>8. QED
    BY <2>5, <2>6, <2>7
<1>8. QED
  BY <1>3, <1>4, <1>5, <1>6, <1>7

\* One slot of the walk: if it ends it ends right, and if not it goes on right.
LEMMA LookKeeps ==
  ASSUME NEW ch \in History, Unbroken(ch), NEW p \in 1..HistorySize,
         NEW w \in Walk, WalkInv(ch, w, p)
  PROVE  WalkInv(ch, Look(w, ch[p]), p - 1)
<1> USE AuthorityAssumption
<1> DEFINE c == ch[p]
           w2 == Look(w, c)
           U(k) == UtilitiesAfter(ch, k)
           Empties == \A e \in DOMAIN ch : e > p - 1 => ch[e].reason # "empty"
<1>1. p \in Nat /\ p - 1 \in Nat /\ p \in 0..HistorySize /\ DOMAIN ch = 1..HistorySize
  BY DEF History
<1>2. c \in Slots /\ c.reason \in {"utility", "message", "empty"}
      /\ (c.reason # "empty" => c \in Change)
  BY DEF History, Slots, Change, NoChange
<1>3. CASE w.over
  BY <1>3 DEF WalkInv, Look
<1>4. CASE ~ w.over /\ w.open /\ c.reason # "message"
  <2>1. PICK k \in U(p) : OpenAt(ch, w, p, k)
    BY <1>4 DEF WalkInv, Searching
  <2>2. ~ WentRound(ch)
    BY <1>1, <1>4, <2>1, OpenIsNoRound DEF WalkInv, Searching
  <2>3. w2.over /\ w2.found = w.found
    BY <1>2, <1>4 DEF Look, Walk
  <2>4. QED
    BY <1>4, <2>2, <2>3 DEF WalkInv, Searching
<1>5. CASE ~ w.over /\ ~ w.open /\ c.reason = "empty"
  <2>1. ~ WentRound(ch)
    BY <1>5, EmptyIsNoRound DEF WalkInv, Searching
  <2>2. w2.over /\ w2.found = w.found
    BY <1>5 DEF Look, Walk
  <2>3. QED
    BY <1>5, <2>1, <2>2 DEF WalkInv, Searching
<1>6. ASSUME ~ w.over, c.reason # "empty" PROVE Empties
  <2>1. \A e \in 1..HistorySize : e > p - 1 => e = p \/ e > p
    BY <1>1
  <2>2. QED
    BY <1>1, <1>6, <2>1 DEF WalkInv, Searching
<1>7. CASE ~ w.over /\ ~ w.open /\ c.reason = "message"
  <2>1. w2 = w
    BY <1>7 DEF Look
  <2>2. U(p - 1) = U(p)
    BY <1>7, OneMoreAfter
  <2> HIDE DEF w2, U, Empties
  <2>3. QED
    BY <1>6, <1>7, <2>1, <2>2 DEF WalkInv, Searching, w2, U, Empties
<1>8. CASE ~ w.over /\ ~ w.open /\ c.reason = "utility"
  <2>1. w2 = [w EXCEPT !.open = TRUE, !.temp = ApplyDifference(NoDifference, Difference(c))]
    BY <1>8 DEF Look
  <2>2. ApplyDifference(NoDifference, Difference(c)) = Between(c.before, c.after)
    BY FirstDifference DEF Difference, Between
  <2>3. /\ w2.open /\ ~ w2.over /\ ~ w2.found /\ w2.cycles = w.cycles
        /\ w2.temp = Between(c.before, c.after)
    BY <1>8, <2>1, <2>2 DEF Walk, WalkInv, Searching
  <2>4. p \in U(p - 1) /\ U(p - 1) = U(p) \cup {p}
    BY <1>8, OneMoreAfter
  <2>5. w.cycles = Cardinality(U(p)) /\ w.cycles <= MaxCycles
        /\ \A l \in U(p) : Closes(ch, l)
    BY <1>8 DEF WalkInv, Searching
  <2>6. (p - 1) + 1 = p /\ p..(p - 1) = {}
    BY <1>1
  <2> HIDE DEF w2, U, Empties
  <2>7. OpenAt(ch, w2, p - 1, p)
    BY <2>3, <2>4, <2>5, <2>6 DEF OpenAt, U
  <2>8. Empties
    BY <1>6, <1>8
  <2>9. \E k \in U(p - 1) : OpenAt(ch, w2, p - 1, k)
    BY <2>4, <2>7
  <2>10. Searching(ch, w2, p - 1)
    BY <2>3, <2>5, <2>8, <2>9 DEF Searching, U, Empties
  <2>11. QED
    BY <2>3, <2>10 DEF WalkInv, w2
<1>9. CASE ~ w.over /\ w.open /\ c.reason = "message"
  <2> DEFINE temp == ApplyDifference(w.temp, Difference(c))
  <2>1. PICK k \in U(p) : OpenAt(ch, w, p, k)
    BY <1>9 DEF WalkInv, Searching
  <2>2. k \in 1..HistorySize /\ k > p /\ ch[k].reason = "utility"
    BY <1>1, <2>1 DEF UtilitiesAfter
  <2>3. p + 1 \in 2..HistorySize /\ (p + 1) - 1 = p
    BY <1>1, <2>2
  <2>4. ch[p + 1].before = c.after
    BY <1>9, <2>3 DEF Unbroken
  <2>5. temp = Between(c.before, ch[k].after)
    BY <2>1, <2>4, DifferencesCompose DEF OpenAt, Difference, Between
  <2>6. c.before \in Assignment /\ ch[k].after \in Assignment
    <3>1. ch[k] \in Change
      BY <2>2 DEF History, Slots, Change, NoChange
    <3>2. QED
      BY <1>2, <1>9, <3>1 DEF Change
  <2>7. temp = NoDifference <=> c.before = ch[k].after
    BY <2>5, <2>6, NoneMeansSame
  <2>8. U(p - 1) = U(p)
    BY <1>9, OneMoreAfter
  <2>9. \A i \in p..(k - 1) : ch[i].reason = "message"
    <3>1. \A i \in p..(k - 1) : i = p \/ i \in (p + 1)..(k - 1)
      BY <1>1, <2>2
    <3>2. QED
      BY <1>9, <2>1, <3>1 DEF OpenAt
  <2>10. w.cycles = Cardinality(U(k)) /\ w.cycles <= MaxCycles /\ w.cycles \in Nat
    BY <1>9, <2>1 DEF WalkInv, Searching, OpenAt, Walk
  <2>11. CASE temp # NoDifference
    <3>1. w2 = [w EXCEPT !.temp = temp]
      BY <1>9, <2>11 DEF Look
    <3> HIDE DEF temp, w2, U, Empties
    <3>2. /\ w2.open /\ ~ w2.over /\ ~ w2.found /\ w2.cycles = w.cycles
          /\ w2.temp = temp
      BY <1>9, <3>1 DEF Walk, WalkInv, Searching
    <3>3. \A i \in p..(k - 1) : ch[i].before # ch[k].after
      <4>1. \A i \in p..(k - 1) : i = p \/ i \in (p + 1)..(k - 1)
        BY <1>1, <2>2
      <4>2. QED
        BY <2>1, <2>7, <2>11, <4>1 DEF OpenAt
    <3>4. (p - 1) + 1 = p
      BY <1>1
    <3>5. OpenAt(ch, w2, p - 1, k)
      BY <2>1, <2>5, <2>8, <2>9, <3>2, <3>3, <3>4 DEF OpenAt, U
    <3>6. \E l \in U(p - 1) : OpenAt(ch, w2, p - 1, l)
      BY <2>1, <2>8, <3>5
    <3>7. Empties
      BY <1>6, <1>9
    <3>8. Searching(ch, w2, p - 1)
      BY <2>10, <3>2, <3>6, <3>7 DEF Searching, U, Empties
    <3>9. QED
      BY <3>2, <3>8 DEF WalkInv, w2
  <2>12. CASE temp = NoDifference
    <3> DEFINE more == TooMany(w.cycles + 1)
    <3>1. w2 = [w EXCEPT !.temp = temp, !.open = FALSE, !.cycles = @ + 1,
                         !.found = more, !.over = more]
      BY <1>9, <2>12 DEF Look
    <3>2. ~ w2.open /\ w2.cycles = w.cycles + 1 /\ w2.found = more /\ w2.over = more
      <4> HIDE DEF temp, w2, more
      <4>1. QED
        BY <3>1 DEF Walk
    <3>3. Closes(ch, k)
      <4>1. p \in 1..(k - 1)
        BY <1>1, <2>2
      <4>2. p \in MessagesBefore(ch, k)
        BY <2>9, <4>1 DEF MessagesBefore
      <4>3. QED
        BY <2>7, <2>12, <4>2 DEF Closes
    <3>4. \A l \in U(p) : Closes(ch, l)
      BY <2>1, <3>3 DEF OpenAt
    <3>5. Cardinality(U(p)) = w.cycles + 1
      <4>1. k \notin U(k)
        BY <2>2 DEF UtilitiesAfter
      <4>2. U(p) = U(k) \cup {k} /\ IsFiniteSet(U(k))
        BY <2>1, <2>2, UtilitiesCounted DEF OpenAt
      <4> DEFINE S == U(k)
      <4>3. k \notin S /\ U(p) = S \cup {k} /\ IsFiniteSet(S) /\ w.cycles = Cardinality(S)
        BY <2>10, <4>1, <4>2
      <4> HIDE DEF U, S
      <4>4. Cardinality(S \cup {k}) = Cardinality(S) + 1
        BY <4>3, FS_AddElement
      <4>5. QED
        BY <4>3, <4>4
    <3>6. CASE more
      <4>1. Cardinality(U(p)) > MaxCycles
        BY <3>5, <3>6 DEF TooMany
      <4>2. Cardinality(U(0)) > MaxCycles
        BY <1>1, <4>1, FewerAfter, UtilitiesCounted
      <4>3. ASSUME NEW l \in U(0), Cardinality(U(l)) <= MaxCycles
            PROVE  l \in U(p) /\ l \in Nat /\ l > p
        <5>1. l \in 1..HistorySize /\ ch[l].reason = "utility"
          BY <1>1 DEF UtilitiesAfter
        <5>2. ~ (l <= p)
          BY <1>1, <4>1, <4>3, <5>1, FewerAfter, UtilitiesCounted
        <5>3. QED
          BY <1>1, <5>1, <5>2 DEF UtilitiesAfter
      <4>4. \A e \in DOMAIN ch : ch[e].reason = "empty" => e <= p
        BY <1>1, <1>9 DEF WalkInv, Searching
      <4>5. WentRound(ch)
        <5>1. ASSUME NEW l \in U(0), Cardinality(U(l)) <= MaxCycles
              PROVE  Closes(ch, l) /\ \A e \in DOMAIN ch : ch[e].reason = "empty" => e < l
          BY <1>1, <3>4, <4>3, <4>4, <5>1
        <5>2. QED
          BY <4>2, <5>1 DEF WentRound
      <4> HIDE DEF w2, more
      <4>6. w2.over /\ w2.found
        BY <3>2, <3>6
      <4>7. QED
        BY <4>5, <4>6 DEF WalkInv, w2
    <3>7. CASE ~ more
      <4>1. w.cycles + 1 <= MaxCycles
        BY <2>10, <3>7 DEF TooMany
      <4>2. Empties
        BY <1>6, <1>9
      <4> HIDE DEF w2, U, Empties, more
      <4>3. ~ w2.open /\ ~ w2.over /\ ~ w2.found
        BY <3>2, <3>7
      <4>4. Searching(ch, w2, p - 1)
        BY <2>8, <3>2, <3>4, <3>5, <4>1, <4>2, <4>3 DEF Searching, U, Empties
      <4>5. QED
        BY <4>3, <4>4 DEF WalkInv, w2
    <3>8. QED
      BY <3>6, <3>7
  <2>13. QED
    BY <2>11, <2>12
<1>10. QED
  BY <1>2, <1>3, <1>4, <1>5, <1>7, <1>8, <1>9

\* The walk and the assignments tell the same of every history in which nothing
\* but what is recorded changed the assignment.
LEMMA WalkFindsCycles ==
  ASSUME NEW ch \in Seq(Slots), Len(ch) = HistorySize, Unbroken(ch)
  PROVE  DetectAllocationCycle(ch) <=> WentRound(ch)
<1> USE AuthorityAssumption
<1> DEFINE N == HistorySize
           start == [open |-> FALSE, temp |-> NoDifference, cycles |-> 0,
                     found |-> FALSE, over |-> FALSE]
           steps == [k \in 1..N |-> [w \in Walk |-> Look(w, ch[N + 1 - k])]]
           g == CHOOSE h : h = [k \in 0..N |-> IF k = 0 THEN start
                                               ELSE Look(h[k - 1], ch[N + 1 - k])]
<1>1. N \in Nat /\ ch \in History
  BY DEF History
<1>2. DetectAllocationCycle(ch) <=> g[N].found
  BY DEF DetectAllocationCycle
<1>3. start \in Walk
  BY DEF Walk, Differences, NoDifference
<1>4. \A k \in 1..N : N + 1 - k \in 1..N /\ ch[N + 1 - k] \in Slots
  BY <1>1 DEF History
<1>5. steps \in StepsOn(Walk, N)
  BY <1>4, LookType DEF StepsOn
<1> HIDE DEF start, steps
<1>6. PICK f : StaysIn(f, Walk, N) /\ Unfolds(f, start, steps, N)
  BY <1>1, <1>3, <1>5, IntervalRecursion
<1>7. f \in [0..N -> Walk] /\ f[0] = start
      /\ \A k \in 1..N : f[k] = Look(f[k - 1], ch[N + 1 - k])
  BY <1>1, <1>6 DEF StaysIn, Unfolds, steps
<1>8. f = [k \in 0..N |-> IF k = 0 THEN start ELSE Look(f[k - 1], ch[N + 1 - k])]
  BY <1>1, <1>7
<1>9. g = [k \in 0..N |-> IF k = 0 THEN start ELSE Look(g[k - 1], ch[N + 1 - k])]
  BY <1>8
<1> HIDE DEF g
<1>10. SameSteps(f, g, N)
  BY <1>1, <1>7, <1>9 DEF SameSteps
<1>11. f[N] = g[N]
  BY <1>1, <1>10, IntervalUnique DEF SameValues
<1> DEFINE Right == {k \in 0..N : WalkInv(ch, f[k], N - k)}
<1>12. 0 \in Right
  <2>1. UtilitiesAfter(ch, N) = {} /\ \A e \in DOMAIN ch : ~ (e > N)
    BY <1>1 DEF UtilitiesAfter, History
  <2>2. Cardinality(UtilitiesAfter(ch, N)) = 0
    BY <2>1, FS_EmptySet
  <2>3. Searching(ch, start, N) /\ ~ start.over
    BY <2>1, <2>2 DEF Searching, start
  <2>4. QED
    BY <1>1, <1>7, <2>3 DEF WalkInv
<1>13. ASSUME NEW k \in 0..(N - 1), k \in Right PROVE k + 1 \in Right
  <2>1. /\ N - k \in 1..N /\ N + 1 - (k + 1) = N - k /\ N - (k + 1) = (N - k) - 1
        /\ k + 1 \in 1..N /\ k + 1 \in 0..N /\ (k + 1) - 1 = k
    BY <1>1
  <2>2. f[k + 1] = Look(f[k], ch[N - k]) /\ f[k] \in Walk
    BY <1>7, <2>1
  <2>3. WalkInv(ch, Look(f[k], ch[N - k]), (N - k) - 1)
    BY <1>1, <1>13, <2>1, <2>2, LookKeeps
  <2>4. QED
    BY <2>1, <2>2, <2>3
<1>14. N \in Right
  <2> HIDE DEF Right
  <2>1. 0..N \subseteq Right
    BY <1>1, <1>12, <1>13, IntervalInduction
  <2>2. QED
    BY <1>1, <2>1
<1> DEFINE w == f[N]
<1>15. w \in Walk /\ WalkInv(ch, w, 0)
  BY <1>1, <1>7, <1>14
<1>16. w.found <=> WentRound(ch)
  <2> HIDE DEF w
  <2>1. CASE w.over
    BY <1>15, <2>1 DEF WalkInv
  <2>2. CASE ~ w.over /\ w.open
    <3>1. PICK k \in UtilitiesAfter(ch, 0) : OpenAt(ch, w, 0, k)
      BY <1>15, <2>2 DEF WalkInv, Searching
    <3>2. ~ WentRound(ch)
      BY <1>1, <1>15, <2>2, <3>1, OpenIsNoRound DEF WalkInv, Searching
    <3>3. QED
      BY <1>15, <2>2, <3>2 DEF WalkInv, Searching
  <2>3. CASE ~ w.over /\ ~ w.open
    <3>1. Cardinality(UtilitiesAfter(ch, 0)) <= MaxCycles /\ ~ w.found
      BY <1>15, <2>3 DEF WalkInv, Searching
    <3>2. Cardinality(UtilitiesAfter(ch, 0)) \in Nat
      BY <1>1, UtilitiesCounted
    <3>3. ~ WentRound(ch)
      BY <3>1, <3>2 DEF WentRound
    <3>4. QED
      BY <3>1, <3>3
  <2>4. QED
    BY <2>1, <2>2, <2>3
<1>17. QED
  BY <1>2, <1>11, <1>16

-------------------------------------------------------------------------------
(* The history *)

\* A recorded change takes the oldest slot: the ring buffers keep their size
\* (CycleManager::setNewAllocDiff).
LEMMA RecordKeepsBuffers ==
  ASSUME AuthorityAssumption, TypesInv, NEW r \in Robots, NEW a \in Assignment,
         NEW reason \in {"message", "utility"}, Record(r, reason, a)
  PROVE  hist' \in [Robots -> Seq(Slots)] /\ \A q \in Robots : Len(hist'[q]) = HistorySize
<1> DEFINE slot == [reason |-> reason, before |-> ass[r], after |-> a]
<1>1. slot \in Slots
  BY DEF TypesInv, Slots, Change
<1>2. /\ hist[r] \in Seq(Slots) /\ Len(hist[r]) = HistorySize
      /\ HistorySize \in Nat /\ HistorySize # 0
  BY DEF TypesInv, AuthorityAssumption
<1>3. Append(Tail(hist[r]), slot) \in Seq(Slots)
      /\ Len(Append(Tail(hist[r]), slot)) = HistorySize
  <2> HIDE DEF slot
  <2>1. hist[r] # << >>
    BY <1>2
  <2>2. Tail(hist[r]) \in Seq(Slots) /\ Len(Tail(hist[r])) = HistorySize - 1
    BY <1>2, <2>1
  <2>3. QED
    BY <1>1, <1>2, <2>2
<1>4. hist' = [hist EXCEPT ![r] = Append(Tail(hist[r]), slot)]
  BY DEF Record
<1>5. QED
  BY <1>3, <1>4 DEF TypesInv

\* The buffer that is reset when a cycle was found has its size, too.
LEMMA EmptyHistoryType ==
  ASSUME AuthorityAssumption
  PROVE  EmptyHistory \in Seq(Slots) /\ Len(EmptyHistory) = HistorySize
BY DEF AuthorityAssumption, EmptyHistory, Slots

-------------------------------------------------------------------------------
(* The steps *)

\* An assignment changes, and the history with it or not.
LEMMA ChangeKeeps ==
  ASSUME AuthorityAssumption, AuthorityInv, NEW r \in Robots,
         UtilityChange(r) \/ MessageChange(r) \/ ApplyAssignment(r)
  PROVE  AuthorityInv' /\ UNCHANGED <<cm, claimed>>
<1> TypesInv /\ ClaimsInv
  BY DEF AuthorityInv
<1>1. UNCHANGED <<cm, net, detections, claimed>>
  BY DEF UtilityChange, MessageChange, ApplyAssignment
<1>2. CASE UtilityChange(r)
  <2>1. PICK a \in Assignment : ass' = [ass EXCEPT ![r] = a] /\ Record(r, "utility", a)
    BY <1>2 DEF UtilityChange
  <2>2. ass' \in [Robots -> Assignment]
    BY <2>1 DEF TypesInv
  <2>3. QED
    BY <1>1, <2>1, <2>2, RecordKeepsBuffers
    DEF AuthorityInv, TypesInv, ClaimsInv, GoodManager, GoodMessage
<1>3. CASE MessageChange(r)
  <2>1. PICK q \in Agents, e \in EntryPoints :
          ass' = [ass EXCEPT ![r][q] = e] /\ Record(r, "message", ass'[r])
    BY <1>3 DEF MessageChange
  <2>2. ass' \in [Robots -> Assignment]
    BY <2>1 DEF TypesInv, Assignment
  <2>3. QED
    BY <1>1, <2>1, <2>2, RecordKeepsBuffers
    DEF AuthorityInv, TypesInv, ClaimsInv, GoodManager, GoodMessage
<1>4. CASE ApplyAssignment(r)
  <2>1. cm[r].fixed.ass \in Assignment
    BY <1>4 DEF ApplyAssignment, ClaimsInv, GoodManager, Info
  <2>2. ass' \in [Robots -> Assignment] /\ hist' = hist
    BY <1>4, <2>1 DEF ApplyAssignment, TypesInv
  <2>3. QED
    BY <1>1, <2>2 DEF AuthorityInv, TypesInv, ClaimsInv, GoodManager, GoodMessage
<1>5. QED
  BY <1>1, <1>2, <1>3, <1>4

\* CycleManager::update keeps the invariant: a robot that has found a cycle has
\* claimed, one that observes again makes no claim.
LEMMA UpdateKeeps ==
  ASSUME AuthorityAssumption, AuthorityInv, NEW r \in Robots,
         DetectCycle(r) \/ ResumeObserving(r)
  PROVE  AuthorityInv'
<1> TypesInv /\ ClaimsInv
  BY DEF AuthorityInv
<1>1. CASE DetectCycle(r)
  <2>1. /\ cm' = [cm EXCEPT ![r] = Overriding(cm[r])]
        /\ Overriding(cm[r]) \in CycleManager /\ Overriding(cm[r]).state = "overriding"
    <3>1. cm[r] \in CycleManager
      BY DEF TypesInv
    <3>2. Overriding(cm[r]) \in CycleManager /\ Overriding(cm[r]).state = "overriding"
      BY <3>1 DEF Overriding, CycleManager, CycleState
    <3>3. QED
      BY <1>1, <3>2 DEF DetectCycle
  <2>2. detections' \in 0..MaxDetections
    BY <1>1 DEF DetectCycle, TypesInv, AuthorityAssumption
  <2>3. hist' \in [Robots -> Seq(Slots)] /\ \A q \in Robots : Len(hist'[q]) = HistorySize
    BY <1>1, EmptyHistoryType DEF DetectCycle, TypesInv
  <2>4. TypesInv'
    BY <1>1, <2>1, <2>2, <2>3 DEF DetectCycle, TypesInv
  <2>5. ClaimsInv'
    BY <1>1, <2>1 DEF DetectCycle, TypesInv, ClaimsInv, GoodManager, GoodMessage
  <2>6. QED
    BY <2>4, <2>5 DEF AuthorityInv
<1>2. CASE ResumeObserving(r)
  <2>1. /\ cm' = [cm EXCEPT ![r] = Observing(cm[r])]
        /\ Observing(cm[r]) \in CycleManager /\ Observing(cm[r]).state = "observing"
    <3>1. cm[r] \in CycleManager
      BY DEF TypesInv
    <3>2. Observing(cm[r]) \in CycleManager /\ Observing(cm[r]).state = "observing"
      BY <3>1 DEF Observing, CycleManager, CycleState
    <3>3. QED
      BY <1>2, <3>2 DEF ResumeObserving
  <2>2. TypesInv'
    BY <1>2, <2>1 DEF ResumeObserving, TypesInv
  <2>3. ClaimsInv'
    BY <1>2, <2>1 DEF ResumeObserving, TypesInv, ClaimsInv, GoodManager, GoodMessage
  <2>4. QED
    BY <2>2, <2>3 DEF AuthorityInv
<1>3. QED
  BY <1>1, <1>2

\* What a tick makes of the cycle manager, in terms of the last message.
LEMMA TickOutcome ==
  ASSUME AuthorityInv, NEW r \in Robots, NEW c \in CycleManager, GoodManager(r, c),
         NEW S \in SUBSET net[r], NEW heard \in SetToSeqs(S)
  PROVE  LET after == HandleAll(r, c, heard)
         IN  /\ after \in CycleManager
             /\ \/ after = c
                \/ \E m \in net[r] :
                     \/ m.authority > r /\ after.state = "overridden" /\ after.fixed = m
                     \/ m.authority < r /\ after.state = "overriding"
<1>1. heard \in Seq(Info) /\ (heard # << >> => heard[Len(heard)] \in net[r])
  <2>1. IsFiniteSet(S) /\ S \subseteq Info
    BY FS_Subset DEF AuthorityInv, TypesInv
  <2>2. Cardinality(S) \in Nat
    BY <2>1, FS_CardinalityType
  <2>3. heard \in [1..Cardinality(S) -> S]
    BY DEF SetToSeqs
  <2>4. heard \in Seq(S) /\ Len(heard) = Cardinality(S)
    BY <2>2, <2>3
  <2>5. QED
    BY <2>1, <2>2, <2>3, <2>4
<1> DEFINE after == HandleAll(r, c, heard)
           m == heard[Len(heard)]
<1>2. CASE heard = << >>
  BY <1>1, <1>2, LastMessageDecides
<1>3. CASE heard # << >>
  <2>1. m \in net[r] /\ m \in Info /\ m.authority # r /\ m.authority \in Nat /\ r \in Nat
    BY <1>1, <1>3 DEF AuthorityInv, TypesInv, ClaimsInv, GoodMessage, Info, Robots
  <2>2. PICK b \in CycleManager : after = HandleAuthorityInfo(r, b, m)
    BY <1>1, <1>3, LastMessageDecides
  <2> HIDE DEF after, m
  <2>3. after \in CycleManager
    BY <2>1, <2>2, HandleType
  <2>4. CASE m.authority > r
    BY <2>1, <2>2, <2>3, <2>4 DEF HandleAuthorityInfo, CycleManager, after
  <2>5. CASE m.authority < r
    BY <2>1, <2>2, <2>3, <2>5 DEF HandleAuthorityInfo, Overriding, CycleManager, after
  <2>6. QED
    BY <2>1, <2>4, <2>5
<1>4. QED
  BY <1>2, <1>3

\* The last message decides, or nothing was heard; claims are sent by a robot that
\* overrides.  c is the cycle manager after sending, rest what is left to hear.
TickDoes(r, c, after, reached, rest) ==
  /\ c.state = cm[r].state /\ c.fixed = cm[r].fixed
  /\ \/ after = c
     \/ \E m \in net[r] :
          \/ m.authority > r /\ after.state = "overridden" /\ after.fixed = m
          \/ m.authority < r /\ after.state = "overriding"
  /\ reached # {} => cm[r].state = "overriding"
  /\ cm' = [cm EXCEPT ![r] = after]
  /\ claimed' = IF after.state = "overriding" THEN claimed \cup {r} ELSE claimed
  /\ net' = [q \in Robots |->
               IF q = r THEN rest
               ELSE IF q \in reached
               THEN {m \in net[q] : m.authority # r} \cup {Shout(r)} ELSE net[q]]

\* A tick with its choices made.
LEMMA TickParts ==
  ASSUME AuthorityInv, NEW r \in Robots, Tick(r)
  PROVE  \E c \in CycleManager, after \in CycleManager,
            reached \in SUBSET (Robots \ {r}), rest \in SUBSET net[r] :
           TickDoes(r, c, after, reached, rest)
<1>0. PICK shouts \in BOOLEAN, S \in SUBSET net[r] :
        \E heard \in SetToSeqs(S) : \E reached \in SUBSET (Robots \ {r}) :
          /\ shouts => cm[r].state = "overriding"
          /\ ~ shouts => reached = {}
          /\ TickWith(r, shouts, heard, reached)
  BY DEF Tick
<1>1. PICK heard \in SetToSeqs(S), reached \in SUBSET (Robots \ {r}) :
        /\ shouts => cm[r].state = "overriding"
        /\ ~ shouts => reached = {}
        /\ TickWith(r, shouts, heard, reached)
  BY <1>0
<1> DEFINE c == IF shouts THEN [cm[r] EXCEPT !.mustShout = FALSE] ELSE cm[r]
           after == HandleAll(r, c, heard)
           rest == net[r] \ ToSet(heard)
<1>2. c \in CycleManager /\ c.state = cm[r].state /\ c.fixed = cm[r].fixed
  BY DEF AuthorityInv, TypesInv, CycleManager
<1>3. /\ cm' = [cm EXCEPT ![r] = after]
      /\ claimed' = IF after.state = "overriding" THEN claimed \cup {r} ELSE claimed
      /\ net' = [q \in Robots |->
                   IF q = r THEN rest
                   ELSE IF q \in reached
                   THEN {m \in net[q] : m.authority # r} \cup {Shout(r)} ELSE net[q]]
  BY <1>1 DEF TickWith
<1> HIDE DEF c
<1>4. GoodManager(r, c)
  BY <1>2 DEF AuthorityInv, ClaimsInv, GoodManager
<1>5. /\ after \in CycleManager
      /\ \/ after = c
         \/ \E m \in net[r] :
              \/ m.authority > r /\ after.state = "overridden" /\ after.fixed = m
              \/ m.authority < r /\ after.state = "overriding"
  BY <1>2, <1>4, TickOutcome
<1>6. rest \in SUBSET net[r] /\ (reached # {} => cm[r].state = "overriding")
  BY <1>1
<1> HIDE DEF after, rest
<1>7. TickDoes(r, c, after, reached, rest)
  BY <1>2, <1>3, <1>5, <1>6 DEF TickDoes
<1>8. QED
  BY <1>2, <1>5, <1>6, <1>7

\* AuthorityManager::tick keeps the invariant, in whatever order the claims of
\* the others arrive and whichever of them are lost.
LEMMA TickKeeps ==
  ASSUME AuthorityInv, NEW r \in Robots, Tick(r)
  PROVE  AuthorityInv'
<1> TypesInv /\ ClaimsInv
  BY DEF AuthorityInv
<1>1. PICK c \in CycleManager, after \in CycleManager,
           reached \in SUBSET (Robots \ {r}), rest \in SUBSET net[r] :
        TickDoes(r, c, after, reached, rest)
  BY TickParts
<1>2. UNCHANGED <<ass, hist, detections>>
  BY DEF Tick
<1>3. claimed \subseteq claimed' /\ claimed' \subseteq Robots
  BY <1>1 DEF TickDoes, TypesInv
<1>4. Shout(r) \in Info /\ Shout(r).authority = r
  BY DEF Shout, Info, TypesInv
<1>5. ASSUME NEW q \in Robots
      PROVE  /\ net'[q] \subseteq Info /\ IsFiniteSet(net'[q])
             /\ \A m \in net'[q] : m.authority # q /\ m.authority \in claimed'
  <2>1. net[q] \subseteq Info /\ IsFiniteSet(net[q]) /\ \A m \in net[q] : GoodMessage(q, m)
    BY DEF TypesInv, ClaimsInv
  <2>2. CASE q = r
    BY <1>1, <1>3, <2>1, <2>2, FS_Subset DEF TickDoes, GoodMessage
  <2>3. CASE q \in reached /\ q # r
    <3>1. net'[q] = {m \in net[q] : m.authority # r} \cup {Shout(r)}
      BY <1>1, <2>3 DEF TickDoes
    <3>2. IsFiniteSet({m \in net[q] : m.authority # r})
      BY <2>1, FS_Subset
    <3>3. r \in claimed
      BY <1>1, <2>3 DEF TickDoes, ClaimsInv, GoodManager
    <3>4. IsFiniteSet(net'[q])
      BY <3>1, <3>2, FS_AddElement
    <3>5. QED
      BY <1>3, <1>4, <2>1, <2>3, <3>1, <3>3, <3>4 DEF GoodMessage
  <2>4. CASE q \notin reached /\ q # r
    BY <1>1, <1>3, <2>1, <2>4 DEF TickDoes, GoodMessage
  <2>5. QED
    BY <2>2, <2>3, <2>4
<1>6. net' = [q \in Robots |-> net'[q]]
  BY <1>1 DEF TickDoes
<1>7. TypesInv'
  BY <1>1, <1>2, <1>3, <1>5, <1>6 DEF TickDoes, TypesInv
<1>8. after.state = "overriding" => r \in claimed'
  BY <1>1 DEF TickDoes
<1>9. after.state = "overridden" =>
        after.fixed \in Info /\ after.fixed.authority > r /\ after.fixed.authority \in claimed'
  BY <1>1, <1>3 DEF TickDoes, TypesInv, ClaimsInv, GoodManager, GoodMessage
<1>10. \A q \in Robots : GoodManager(q, cm[q])'
  BY <1>1, <1>3, <1>8, <1>9 DEF TickDoes, TypesInv, ClaimsInv, GoodManager
<1>11. ClaimsInv'
  BY <1>5, <1>10 DEF ClaimsInv, GoodMessage
<1>12. QED
  BY <1>7, <1>11 DEF AuthorityInv

-------------------------------------------------------------------------------
(* The theorems *)

\* The inductive invariant holds in every state that is reached.
LEMMA AuthorityInvHolds == Spec => []AuthorityInv
<1>1. Init => AuthorityInv
  <2> SUFFICES ASSUME Init PROVE AuthorityInv
    OBVIOUS
  <2>1. /\ ass \in [Robots -> Assignment] /\ hist \in [Robots -> Seq(Slots)]
        /\ \A r \in Robots : Len(hist[r]) = HistorySize
    BY AuthorityAssumption, EmptyHistoryType DEF Init
  <2>2. cm \in [Robots -> CycleManager] /\ \A r \in Robots : cm[r].state = "observing"
    BY DEF Init, CycleManager, CycleState
  <2>3. net \in [Robots -> SUBSET Info] /\ \A r \in Robots : net[r] = {}
    BY DEF Init
  <2>4. detections \in 0..MaxDetections /\ claimed = {}
    BY AuthorityAssumption DEF Init, AuthorityAssumption
  <2>5. QED
    BY <2>1, <2>2, <2>3, <2>4, FS_EmptySet
    DEF AuthorityInv, TypesInv, ClaimsInv, GoodManager, GoodMessage
<1>2. AuthorityInv /\ [Next]_vars => AuthorityInv'
  <2> SUFFICES ASSUME AuthorityInv, [Next]_vars PROVE AuthorityInv'
    OBVIOUS
  <2>1. CASE UNCHANGED vars
    BY <2>1 DEF vars, AuthorityInv, TypesInv, ClaimsInv, GoodManager, GoodMessage
  <2>2. QED
    BY <2>1, AuthorityAssumption, ChangeKeeps, UpdateKeeps, TickKeeps DEF Next
<1>3. QED
  BY <1>1, <1>2, PTL DEF Spec

\* The ring buffers of all robots keep their size and their contents are changes,
\* the cycle managers and the messages keep their types (CycleManager.cpp:108).
THEOREM AuthorityTypes == Spec => []TypeOK
<1>1. AuthorityInv => TypeOK
  <2> SUFFICES ASSUME AuthorityInv PROVE TypeOK
    OBVIOUS
  <2>1. \A r \in Robots : ToSet(hist[r]) \subseteq Change \cup {NoChange}
    BY DEF AuthorityInv, TypesInv, Slots, ToSet
  <2>2. QED
    BY <2>1 DEF AuthorityInv, TypesInv, TypeOK
<1>2. QED
  BY <1>1, AuthorityInvHolds, PTL

\* A robot overrides for having seen a cycle just when there was one: for any number
\* of agents, ring buffers of any size and any number of tolerated cycles, the walk
\* over differences (CycleManager.cpp:269) agrees with the assignments themselves.
THEOREM BuffersTellCycles == Spec => []BuffersShowCycles
<1>1. AuthorityInv => DetectsCycles
  <2> SUFFICES ASSUME AuthorityInv, NEW r \in Robots, Unbroken(hist[r])
               PROVE  DetectAllocationCycle(hist[r]) <=> WentRound(hist[r])
    BY DEF DetectsCycles
  <2>1. hist[r] \in Seq(Slots) /\ Len(hist[r]) = HistorySize
    BY DEF AuthorityInv, TypesInv
  <2>2. QED
    BY <2>1, WalkFindsCycles
<1>2. QED
  BY <1>1, AuthorityInvHolds, AuthorityTypes, PTL DEF BuffersShowCycles

ContestVars == <<BossOf, claimed>>

\* The three states of a cycle manager, told apart by whom the robot follows.
LEMMA BossIs ==
  ASSUME NEW r \in Robots, NEW c \in CycleManager
  PROVE  /\ c.state = "observing" => Boss(r, c) = 0
         /\ c.state = "overriding" => Boss(r, c) = r
         /\ c.state = "overridden" => Boss(r, c) = c.fixed.authority
BY DEF Boss

\* A step that replaces the cycle manager of r replaces the boss of r.
LEMMA BossAfter ==
  ASSUME TypesInv, NEW r \in Robots, NEW c \in CycleManager, cm' = [cm EXCEPT ![r] = c]
  PROVE  BossOf' = [BossOf EXCEPT ![r] = Boss(r, c)]
BY DEF TypesInv, BossOf

\* A step from a state of the invariant is a claim, obedience or giving up, or
\* nothing to AuthorityContest.
LEMMA StepsImplementContest ==
  ASSUME AuthorityInv, [Next]_vars
  PROVE  [Contest!ContestNext]_ContestVars
<1> TypesInv /\ ClaimsInv
  BY DEF AuthorityInv
<1> USE DEF ContestVars
<1>1. ASSUME UNCHANGED <<cm, claimed>> PROVE UNCHANGED ContestVars
  BY <1>1 DEF BossOf
<1>2. ASSUME NEW r \in Robots, DetectCycle(r) PROVE Contest!Claim(r)
  <2> DEFINE c == Overriding(cm[r])
  <2>1. c \in CycleManager /\ c.state = "overriding"
    BY DEF TypesInv, Overriding, CycleManager, CycleState
  <2>2. cm' = [cm EXCEPT ![r] = c] /\ claimed' = claimed \cup {r}
    BY <1>2 DEF DetectCycle
  <2> HIDE DEF c
  <2>3. BossOf' = [BossOf EXCEPT ![r] = r]
    BY <2>1, <2>2, BossAfter, BossIs
  <2>4. BossOf[r] = 0 /\ r # 0
    BY <1>2, BossIs DEF DetectCycle, BossOf, TypesInv, Robots
  <2>5. QED
    BY <2>2, <2>3, <2>4 DEF Contest!Claim
<1>3. ASSUME NEW r \in Robots, ResumeObserving(r) PROVE Contest!GiveUp(r)
  <2> DEFINE c == Observing(cm[r])
  <2>1. c \in CycleManager /\ c.state = "observing"
    BY DEF TypesInv, Observing, CycleManager, CycleState
  <2>2. cm' = [cm EXCEPT ![r] = c] /\ claimed' = claimed
    BY <1>3 DEF ResumeObserving
  <2> HIDE DEF c
  <2>3. BossOf' = [BossOf EXCEPT ![r] = 0]
    <3>1. Boss(r, c) = 0
      BY <2>1, BossIs
    <3>2. BossOf' = [BossOf EXCEPT ![r] = Boss(r, c)]
      BY <2>1, <2>2, BossAfter
    <3>3. QED
      BY <3>1, <3>2
  <2>4. BossOf[r] # 0
    <3>1. cm[r] \in CycleManager /\ cm[r].state \in {"overriding", "overridden"} /\ r # 0
      BY <1>3 DEF ResumeObserving, TypesInv, CycleManager, CycleState, Robots
    <3>2. cm[r].state = "overridden" => cm[r].fixed.authority # 0
      BY DEF ClaimsInv, GoodManager, Robots
    <3>3. QED
      BY <3>1, <3>2, BossIs DEF BossOf
  <2>5. QED
    BY <2>2, <2>3, <2>4 DEF Contest!GiveUp
<1>4. ASSUME NEW r \in Robots, Tick(r)
      PROVE  \/ Contest!Claim(r) \/ UNCHANGED ContestVars
             \/ \E q \in Robots : Contest!Obey(r, q)
  <2>1. PICK c \in CycleManager, after \in CycleManager,
             reached \in SUBSET (Robots \ {r}), rest \in SUBSET net[r] :
          TickDoes(r, c, after, reached, rest)
    BY <1>4, TickParts
  <2>2. cm[r] \in CycleManager /\ GoodManager(r, cm[r])
    BY DEF TypesInv, ClaimsInv
  <2>3. BossOf' = [BossOf EXCEPT ![r] = Boss(r, after)] /\ BossOf[r] = Boss(r, cm[r])
    BY <2>1, BossAfter DEF TickDoes, BossOf
  <2>4. CASE after = c
    <3>1. Boss(r, after) = BossOf[r]
      BY <2>1, <2>3, <2>4 DEF TickDoes, Boss
    <3>2. claimed' = claimed
      BY <2>1, <2>2, <2>4 DEF TickDoes, GoodManager
    <3>3. QED
      BY <2>3, <3>1, <3>2 DEF BossOf
  <2>5. ASSUME NEW m \in net[r], m.authority > r, after.state = "overridden", after.fixed = m
        PROVE  \E q \in Robots : Contest!Obey(r, q)
    <3>1. m.authority \in Robots /\ m.authority \in claimed
      BY DEF TypesInv, ClaimsInv, GoodMessage, Info
    <3>2. Boss(r, after) = m.authority
      BY <2>5, BossIs
    <3>3. claimed' = claimed
      BY <2>1, <2>5 DEF TickDoes
    <3>4. Contest!Obey(r, m.authority)
      BY <2>3, <2>5, <3>1, <3>2, <3>3 DEF Contest!Obey
    <3>5. QED
      BY <3>1, <3>4
  <2>6. ASSUME NEW m \in net[r], m.authority < r, after.state = "overriding"
        PROVE  Contest!Claim(r) \/ UNCHANGED ContestVars
    <3>1. m.authority \in claimed
      BY DEF ClaimsInv, GoodMessage
    <3>2. Boss(r, after) = r /\ claimed' = claimed \cup {r}
      BY <2>1, <2>6, BossIs DEF TickDoes
    <3>3. CASE cm[r].state = "overriding"
      <4>1. Boss(r, cm[r]) = r /\ r \in claimed
        BY <2>2, <3>3, BossIs DEF GoodManager
      <4>2. BossOf' = BossOf
        BY <2>3, <3>2, <4>1 DEF BossOf
      <4>3. QED
        BY <3>2, <4>1, <4>2
    <3>4. CASE cm[r].state # "overriding"
      <4>1. BossOf[r] # r
        BY <2>2, <2>3, <3>4, BossIs
        DEF GoodManager, CycleManager, CycleState, Robots, Info
      <4>2. Contest!Claim(r)
        BY <2>3, <2>6, <3>1, <3>2, <4>1 DEF Contest!Claim
      <4>3. QED
        BY <4>2
    <3>5. QED
      BY <3>3, <3>4
  <2>7. QED
    BY <2>1, <2>4, <2>5, <2>6 DEF TickDoes
<1>5. ASSUME NEW r \in Robots, UtilityChange(r) \/ MessageChange(r) \/ ApplyAssignment(r)
      PROVE  UNCHANGED ContestVars
  BY <1>1, <1>5, AuthorityAssumption, ChangeKeeps
<1>6. Robots = Contest!Robots
  BY DEF Robots, Contest!Robots
<1>7. CASE UNCHANGED vars
  BY <1>1, <1>7 DEF vars
<1>8. QED
  BY <1>2, <1>3, <1>4, <1>5, <1>6, <1>7 DEF Next, Contest!ContestNext

\* Every step of the team is one of AuthorityContest or leaves whom the robots
\* obey alone: a robot overrides after it has found a cycle or to reject a lower
\* robot, and obeys only a higher robot that has claimed (CycleManager.cpp:167).
THEOREM AuthorityImplementsContest == Spec => ImplementsContest
<1>1. Init => Contest!ContestInit
  BY DEF Init, Contest!ContestInit, Contest!Robots, Robots, BossOf, Boss
<1>2. AuthorityInv /\ [Next]_vars => [Contest!ContestNext]_ContestVars
  BY StepsImplementContest
<1>3. QED
  BY <1>1, <1>2, AuthorityInvHolds, PTL
  DEF Spec, ImplementsContest, Contest!ContestSpec, ContestVars, BossOf, Boss
===============================================================================
